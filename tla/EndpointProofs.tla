--------------------------- MODULE EndpointProofs ---------------------------
(***************************************************************************)
(* `Endpoint` proved for any senders, any number of messages and every      *)
(* plan.  The inductive invariant is `Control /\ InOrder`: who holds the    *)
(* lock at each step of a sender and of the owner, what the endpoint looks  *)
(* like there, and that no message changes its place in the line.  Where    *)
(* the order is not kept, `NoLossNoDup` is inductive relative to `Control`: *)
(* every message is somewhere, and there are no more places than messages.  *)
(***************************************************************************)
EXTENDS Endpoint, SequenceTheorems, TLAPS

\* The pipe as a line of messages: what is released, whatever the plan.
AllReleased == INSTANCE Pipe WITH Message <- 1..MaxMessages, released <- Released

\* A sender is between Lock and Unlock exactly while it holds the lock, with a
\* message in hand, and acts on the state it saw.
SendersLock ==
    \A t \in Senders :
        /\ pc[t] # "idle" <=> lock = t
        /\ pc[t] # "idle" => hand[t] \in Messages
        /\ pc[t] = "queue" => state = "queueing"
        /\ pc[t] = "post" => state = "bound"
        /\ pc[t] = "forward" => state = "proxying"

\* The owner on its way through RegisterDelegate.
BindPath ==
    plan = "bind" =>
        /\ pc[Owner] \in {"idle", "bind", "delegate", "runner", "drain", "done"}
        /\ lock = Owner <=> pc[Owner] \in {"bind", "delegate", "runner", "drain"}
        /\ state = IF pc[Owner] \in {"idle", "bind"} THEN "queueing" ELSE "bound"
        /\ delegate <=> pc[Owner] \in {"runner", "drain", "done"}
        /\ runner <=> pc[Owner] \in {"drain", "done"}
        /\ pc[Owner] = "done" => queue = << >>
        /\ tasks # << >> => pc[Owner] \in {"drain", "done"}
        /\ taken = << >> /\ wire = << >>
        /\ alive => dropped = << >>

\* The owner on its way through SendMessagesAndRecursiveDependents.
SendPath ==
    plan = "send" =>
        /\ pc[Owner] \in {"idle", "take", "proxy", "introduce", "unlock", "flush", "done"}
        /\ lock = Owner <=> pc[Owner] \in {"take", "proxy", "introduce", "unlock"}
        /\ state = IF pc[Owner] \in {"idle", "take", "proxy"} THEN "queueing" ELSE "proxying"
        /\ ~delegate
        /\ pc[Owner] \in {"idle", "take"} => taken = << >>
        /\ pc[Owner] \notin {"idle", "take"} => queue = << >>
        /\ tasks = << >>
        /\ pc[Owner] \in {"idle", "take", "proxy", "introduce"} <=> wire = << >>
        /\ IntroducedFirst

\* The owner on its way through OnReceivedAcceptInvitation.
InvitePath ==
    plan = "invite" =>
        /\ pc[Owner] \in {"idle", "proxy", "take", "flush", "done"}
        /\ lock = Owner <=> pc[Owner] \in {"proxy", "take", "flush"}
        /\ state = IF pc[Owner] \in {"idle", "proxy"} THEN "queueing" ELSE "proxying"
        /\ ~delegate
        /\ pc[Owner] \in {"flush", "done"} => queue = << >>
        /\ pc[Owner] # "flush" => taken = << >>
        /\ tasks = << >>
        /\ wire # << >> => pc[Owner] \in {"flush", "done"}

\* The control part of the invariant: everything but the order of messages.
Control == TypeOK /\ SendersLock /\ BindPath /\ SendPath /\ InvitePath

\* The initial states satisfy Control.
LEMMA InitControl == Init => Control
  <1> SUFFICES ASSUME Init PROVE Control
    OBVIOUS
  <1> USE ThreadsAssumption DEF Init, Threads, Introduction
  <1>1. TypeOK
    <2>1. << >> \in Seq(Messages) /\ << >> \in Seq(Nat)
      OBVIOUS
    <2>2. /\ hand \in [Senders -> Nat]
          /\ pc \in [Senders \cup {Owner} -> SenderSteps \cup OwnerSteps]
      BY DEF SenderSteps
    <2>3. pc[Owner] \in OwnerSteps /\ \A t \in Senders : pc[t] \in SenderSteps
      BY DEF SenderSteps, OwnerSteps
    <2> QED
      BY <2>1, <2>2, <2>3 DEF TypeOK
  <1>2. SendersLock
    BY DEF SendersLock
  <1>3. BindPath
    BY DEF BindPath
  <1>4. SendPath
    BY DEF SendPath, IntroducedFirst
  <1>5. InvitePath
    BY DEF InvitePath
  <1> QED
    BY <1>1, <1>2, <1>3, <1>4, <1>5 DEF Control

\* A step keeps the types; the messages of the line stay messages.
LEMMA TypeStep == Control /\ [Next]_vars => TypeOK'
  <1> SUFFICES ASSUME Control, [Next]_vars PROVE TypeOK'
    OBVIOUS
  <1> USE ThreadsAssumption
      DEF Control, TypeOK, SendersLock, Threads, Messages, Introduction,
          SenderSteps, OwnerSteps, endpointVars, ownerVars, delegateVars,
          Goto, Acquire, Release
  <1>1. ASSUME NEW t \in Senders, SenderLock(t) PROVE TypeOK'
    BY <1>1 DEF SenderLock
  <1>2. ASSUME NEW t \in Senders, Observe(t) PROVE TypeOK'
    BY <1>2 DEF Observe, ActionFor
  <1>3. ASSUME NEW t \in Senders, Enqueue(t) PROVE TypeOK'
    BY <1>3 DEF Enqueue
  <1>4. ASSUME NEW t \in Senders, Post(t) PROVE TypeOK'
    BY <1>4 DEF Post
  <1>5. ASSUME NEW t \in Senders, Forward(t) PROVE TypeOK'
    BY <1>5 DEF Forward
  <1>6. ASSUME NEW t \in Senders, SenderUnlock(t) PROVE TypeOK'
    BY <1>6 DEF SenderUnlock
  <1>7. CASE OwnerLock
    BY <1>7, PlansAssumption DEF OwnerLock
  <1>8. CASE SetBound \/ SetDelegate \/ SetRunner \/ Bound
    BY <1>8 DEF SetBound, SetDelegate, SetRunner, Bound
  <1>9. CASE DrainOne
    BY <1>9 DEF DrainOne
  <1>10. CASE Take
    BY <1>10 DEF Take
  <1>11. CASE SetProxying
    BY <1>11 DEF SetProxying
  <1>12. CASE Introduce
    <2>1. wire' \in Seq(Nat)
      BY <1>12 DEF Introduce
    <2> QED
      BY <1>12, <2>1 DEF Introduce
  <1>13. CASE FlushOne
    BY <1>13 DEF FlushOne
  <1>14. CASE Flushed
    BY <1>14 DEF Flushed
  <1>15. CASE UnlockDependent
    BY <1>15 DEF UnlockDependent
  <1>16. CASE RunTask
    <2>1. Head(tasks) \in Messages /\ tasks' \in Seq(Messages)
      BY <1>16 DEF RunTask
    <2>2. delivered' \in Seq(Messages) /\ dropped' \in Seq(Messages)
      <3>1. \/ delivered' = Append(delivered, Head(tasks)) /\ dropped' = dropped
            \/ dropped' = Append(dropped, Head(tasks)) /\ delivered' = delivered
        BY <1>16, Zenon DEF RunTask
      <3>2. /\ delivered \in Seq(Messages) /\ dropped \in Seq(Messages)
            /\ Append(delivered, Head(tasks)) \in Seq(Messages)
            /\ Append(dropped, Head(tasks)) \in Seq(Messages)
        BY <2>1, AppendProperties
      <3> QED
        BY <3>1, <3>2
    <2>3. UNCHANGED <<lock, endpointVars, pc, hand, ownerVars, alive, wire, accepted>>
      BY <1>16 DEF RunTask
    <2> QED
      BY <2>1, <2>2, <2>3
  <1>17. CASE DestroyDelegate
    BY <1>17 DEF DestroyDelegate
  <1>18. CASE UNCHANGED vars
    BY <1>18 DEF vars
  <1> QED
    BY <1>1, <1>2, <1>3, <1>4, <1>5, <1>6, <1>7, <1>8, <1>9, <1>10, <1>11,
       <1>12, <1>13, <1>14, <1>15, <1>16, <1>17, <1>18
    DEF Next, Sender, OwnerStep

\* A step keeps SendersLock: no sender gets the lock while another thread has
\* it, and the state a sender saw holds until it unlocks.
LEMMA SendersLockStep == Control /\ [Next]_vars => SendersLock'
  <1> SUFFICES ASSUME Control, [Next]_vars PROVE SendersLock'
    OBVIOUS
  <1> USE ThreadsAssumption, PlansAssumption
      DEF Control, TypeOK, SendersLock, BindPath, SendPath, InvitePath, Threads,
          Messages, Introduction, endpointVars, ownerVars, delegateVars, Goto,
          Acquire, Release
  <1>1. ASSUME NEW s \in Senders, SenderLock(s) PROVE SendersLock'
    <2>1. /\ hand' = [hand EXCEPT ![s] = Len(accepted) + 1]
          /\ pc' = [pc EXCEPT ![s] = "locked"]
          /\ lock' = s /\ lock = NoThread /\ UNCHANGED state
      BY <1>1 DEF SenderLock
    <2>2. Len(accepted) \in Nat
      OBVIOUS
    <2>3. ASSUME NEW t \in Senders, t # s PROVE pc[t] = "idle" /\ pc'[t] = "idle"
      <3>1. lock # t
        BY <2>1
      <3>2. pc[t] = "idle"
        BY <3>1
      <3>3. pc'[t] = pc[t]
        BY <2>1, <2>3
      <3> QED
        BY <3>2, <3>3
    <2>4. pc'[s] = "locked" /\ hand'[s] \in Messages
      BY <2>1, <2>2, SMTT(30)
    <2> QED
      BY <2>1, <2>3, <2>4
  <1>2. ASSUME NEW s \in Senders, Observe(s) PROVE SendersLock'
    BY <1>2 DEF Observe, ActionFor
  <1>3. ASSUME NEW s \in Senders, Enqueue(s) PROVE SendersLock'
    BY <1>3 DEF Enqueue
  <1>4. ASSUME NEW s \in Senders, Post(s) PROVE SendersLock'
    BY <1>4 DEF Post
  <1>5. ASSUME NEW s \in Senders, Forward(s) PROVE SendersLock'
    BY <1>5 DEF Forward
  <1>6. ASSUME NEW s \in Senders, SenderUnlock(s) PROVE SendersLock'
    BY <1>6 DEF SenderUnlock
  <1>7. CASE OwnerLock
    BY <1>7 DEF OwnerLock
  <1>8. CASE SetBound
    BY <1>8 DEF SetBound
  <1>9. CASE SetDelegate
    BY <1>9 DEF SetDelegate
  <1>10. CASE SetRunner
    BY <1>10 DEF SetRunner
  <1>11. CASE DrainOne
    BY <1>11 DEF DrainOne
  <1>12. CASE Bound
    BY <1>12 DEF Bound
  <1>13. CASE Take
    BY <1>13 DEF Take
  <1>14. CASE SetProxying
    BY <1>14 DEF SetProxying
  <1>15. CASE Introduce
    BY <1>15 DEF Introduce
  <1>16. CASE UnlockDependent
    BY <1>16 DEF UnlockDependent
  <1>17. CASE FlushOne
    BY <1>17 DEF FlushOne
  <1>18. CASE Flushed
    BY <1>18 DEF Flushed
  <1>19. CASE RunTask
    BY <1>19 DEF RunTask
  <1>20. CASE DestroyDelegate
    BY <1>20 DEF DestroyDelegate
  <1>21. CASE UNCHANGED vars
    BY <1>21 DEF vars
  <1> QED
    BY <1>1, <1>2, <1>3, <1>4, <1>5, <1>6, <1>7, <1>8, <1>9, <1>10, <1>11,
       <1>12, <1>13, <1>14, <1>15, <1>16, <1>17, <1>18, <1>19, <1>20, <1>21
    DEF Next, Sender, OwnerStep

\* What has been written to is not empty.
LEMMA WrittenNotEmpty ==
  ASSUME NEW w \in Seq(Nat), NEW m \in Messages
  PROVE  Append(w, m) # << >>
  BY AppendProperties DEF Messages

\* A message written after the introduction leaves it first.
LEMMA WriteAfterIntroduction ==
  ASSUME NEW w \in Seq(Nat), w # << >>, w[1] = Introduction,
         \A i \in 2..Len(w) : w[i] # Introduction, NEW m \in Messages
  PROVE  LET v == Append(w, m)
         IN v # << >> /\ v[1] = Introduction /\ \A i \in 2..Len(v) : v[i] # Introduction
  <1>1. m \in Nat /\ m # Introduction
    BY DEF Messages, Introduction
  <1>2. Len(w) \in Nat /\ Len(w) >= 1
    OBVIOUS
  <1>3. /\ Append(w, m) # << >>
        /\ Len(Append(w, m)) = Len(w) + 1
        /\ \A i \in 1..Len(w) : Append(w, m)[i] = w[i]
        /\ Append(w, m)[Len(w) + 1] = m
    BY <1>1, AppendProperties
  <1> QED
    BY <1>1, <1>2, <1>3

\* A step keeps the owner's path.
LEMMA PathStep == Control /\ [Next]_vars => BindPath' /\ SendPath' /\ InvitePath'
  <1> SUFFICES ASSUME Control, [Next]_vars PROVE BindPath' /\ SendPath' /\ InvitePath'
    OBVIOUS
  <1> USE ThreadsAssumption, PlansAssumption
      DEF Control, TypeOK, SendersLock, BindPath, SendPath, InvitePath, Threads,
          IntroducedFirst, Messages, Introduction, endpointVars, ownerVars,
          delegateVars, Goto, Acquire, Release
  <1>1. ASSUME NEW s \in Senders, SenderLock(s) PROVE BindPath' /\ SendPath' /\ InvitePath'
    BY <1>1 DEF SenderLock
  <1>2. ASSUME NEW s \in Senders, Observe(s) PROVE BindPath' /\ SendPath' /\ InvitePath'
    BY <1>2 DEF Observe, ActionFor
  <1>3. ASSUME NEW s \in Senders, Enqueue(s) PROVE BindPath' /\ SendPath' /\ InvitePath'
    BY <1>3 DEF Enqueue
  <1>4. ASSUME NEW s \in Senders, Post(s) PROVE BindPath' /\ SendPath' /\ InvitePath'
    BY <1>4 DEF Post
  <1>5. ASSUME NEW s \in Senders, Forward(s) PROVE BindPath' /\ SendPath' /\ InvitePath'
    <2>1. state = "proxying" /\ hand[s] \in Messages /\ wire' = Append(wire, hand[s])
      BY <1>5 DEF Forward
    <2>2. pc'[Owner] = pc[Owner] /\ lock = s
      BY <1>5 DEF Forward
    <2>3. UNCHANGED <<lock, state, delegate, runner, queue, taken, plan, tasks, alive, dropped>>
      BY <1>5 DEF Forward
    <2>4. wire' # << >>
      <3>1. wire \in Seq(Nat)
        OBVIOUS
      <3> HIDE DEF Control, Messages
      <3> QED
        BY <2>1, <3>1, WrittenNotEmpty
    <2>5. BindPath' /\ InvitePath'
      BY <2>1, <2>2, <2>3
    <2>6. ASSUME plan = "send" PROVE IntroducedFirst'
      <3>1. wire # << >>
        BY <2>1, <2>2, <2>6
      <3>2. wire[1] = Introduction /\ \A i \in 2..Len(wire) : wire[i] # Introduction
        BY <2>6, <3>1
      <3>3. wire \in Seq(Nat)
        OBVIOUS
      <3> HIDE DEF Control, Messages, Introduction
      <3> QED
        BY <2>1, <3>1, <3>2, <3>3, WriteAfterIntroduction
    <2> QED
      BY <2>1, <2>2, <2>3, <2>4, <2>5, <2>6
  <1>6. ASSUME NEW s \in Senders, SenderUnlock(s) PROVE BindPath' /\ SendPath' /\ InvitePath'
    BY <1>6 DEF SenderUnlock
  <1>7. CASE OwnerLock
    BY <1>7 DEF OwnerLock
  <1>8. CASE SetBound
    BY <1>8 DEF SetBound
  <1>9. CASE SetDelegate
    BY <1>9 DEF SetDelegate
  <1>10. CASE SetRunner
    BY <1>10 DEF SetRunner
  <1>11. CASE DrainOne
    BY <1>11 DEF DrainOne
  <1>12. CASE Bound
    BY <1>12 DEF Bound
  <1>13. CASE Take
    BY <1>13 DEF Take
  <1>14. CASE SetProxying
    BY <1>14 DEF SetProxying
  <1>15. CASE Introduce
    BY <1>15 DEF Introduce
  <1>16. CASE UnlockDependent
    BY <1>16 DEF UnlockDependent
  <1>17. CASE FlushOne
    <2>1. /\ pc[Owner] = "flush" /\ taken # << >>
          /\ wire' = Append(wire, Head(taken)) /\ taken' = Tail(taken)
          /\ UNCHANGED <<lock, state, delegate, runner, queue, pc, plan, tasks, alive, dropped>>
      BY <1>17 DEF FlushOne
    <2>2. Head(taken) \in Messages
      BY <2>1
    <2>3. wire' # << >>
      <3>1. wire \in Seq(Nat)
        OBVIOUS
      <3> HIDE DEF Control, Messages
      <3> QED
        BY <2>1, <2>2, <3>1, WrittenNotEmpty
    <2>4. BindPath' /\ InvitePath'
      BY <2>1, <2>3
    <2>5. ASSUME plan = "send" PROVE IntroducedFirst'
      <3>1. wire # << >>
        BY <2>1, <2>5
      <3>2. wire[1] = Introduction /\ \A i \in 2..Len(wire) : wire[i] # Introduction
        BY <2>5, <3>1
      <3> QED
        BY <2>1, <2>2, <2>3, <3>1, <3>2, WriteAfterIntroduction, SMTT(30)
    <2> QED
      BY <2>1, <2>3, <2>4, <2>5
  <1>18. CASE Flushed
    BY <1>18 DEF Flushed
  <1>19. CASE RunTask
    BY <1>19 DEF RunTask
  <1>20. CASE DestroyDelegate
    BY <1>20 DEF DestroyDelegate
  <1>21. CASE UNCHANGED vars
    BY <1>21 DEF vars
  <1> QED
    BY <1>1, <1>2, <1>3, <1>4, <1>5, <1>6, <1>7, <1>8, <1>9, <1>10, <1>11,
       <1>12, <1>13, <1>14, <1>15, <1>16, <1>17, <1>18, <1>19, <1>20, <1>21
    DEF Next, Sender, OwnerStep
-----------------------------------------------------------------------------
(* What Control implies, and the theorems.                                  *)

\* A step keeps Control.
LEMMA ControlStep == Control /\ [Next]_vars => Control'
  BY TypeStep, SendersLockStep, PathStep DEF Control

\* Control holds in every reachable state.
LEMMA ControlInvariant == Spec => []Control
  BY InitControl, ControlStep, PTL DEF Spec

\* The types, for any senders and any number of messages.
THEOREM TypeCorrect == Spec => []TypeOK
  <1>1. Control => TypeOK
    BY DEF Control
  <1> QED
    BY <1>1, ControlInvariant, PTL

\* A thread works on the endpoint exactly while it holds its lock.
THEOREM AlwaysGuarded == Spec => []Guarded
  <1>1. ASSUME Control PROVE Guarded
    <2>1. ASSUME NEW t \in Senders PROVE InCriticalSection(t) <=> lock = t
      BY <1>1 DEF Control, SendersLock, InCriticalSection
    <2>2. InCriticalSection(Owner) <=> lock = Owner
      <3>1. plan \in {"bind", "send", "invite"} /\ Owner \notin Senders
        BY <1>1, PlansAssumption, ThreadsAssumption DEF Control, TypeOK
      <3> QED
        BY <1>1, <3>1 DEF Control, BindPath, SendPath, InvitePath, InCriticalSection
    <2> QED
      BY <2>1, <2>2 DEF Guarded, Threads
  <1> QED
    BY <1>1, ControlInvariant, PTL

\* No CHECK of endpoint.cc can fail, however the owner and the senders
\* interleave.
THEOREM ChecksNeverFail == Spec => []ChecksHold
  <1>1. Control => ChecksHold
    <2> SUFFICES ASSUME Control PROVE ChecksHold
      OBVIOUS
    <2> USE PlansAssumption, ThreadsAssumption
        DEF Control, TypeOK, SendersLock, BindPath, SendPath, InvitePath
    <2>1. ASSUME NEW t \in Senders, pc[t] = "queue" PROVE state = "queueing" /\ ~delegate
      BY <2>1
    <2>2. ASSUME NEW t \in Senders, pc[t] = "post"
          PROVE  state = "bound" /\ delegate /\ runner
      BY <2>2
    <2>3. pc[Owner] \in {"bind", "proxy"} => state = "queueing"
      OBVIOUS
    <2>4. /\ pc[Owner] = "delegate" => ~delegate
          /\ pc[Owner] = "runner" => ~runner
          /\ pc[Owner] = "drain" => state = "bound" /\ delegate /\ runner
          /\ pc[Owner] = "take" => ~delegate
      OBVIOUS
    <2> QED
      BY <2>1, <2>2, <2>3, <2>4 DEF ChecksHold
  <1> QED
    BY <1>1, ControlInvariant, PTL

\* The race the comment above Endpoint::lock_ is about cannot happen: nothing
\* stays in the queue of a bound or proxying endpoint whose lock is free.
THEOREM NothingStranded == Spec => []NoneStranded
  <1>1. Control => NoneStranded
    BY PlansAssumption, ThreadsAssumption
    DEF Control, TypeOK, BindPath, SendPath, InvitePath, NoneStranded
  <1> QED
    BY <1>1, ControlInvariant, PTL

\* An endpoint is introduced to its new node before anything is sent to it.
THEOREM IntroductionIsFirst == Spec => []IntroducedFirst
  <1>1. Control => IntroducedFirst
    BY DEF Control, SendPath, IntroducedFirst
  <1> QED
    BY <1>1, ControlInvariant, PTL

\* Bound and proxying are for good, nothing is posted while the endpoint is still
\* queueing, and nothing is dispatched to a receiver that is gone.
THEOREM StatesAreFinal == Spec => StateIsFinal
  <1> DEFINE Final == /\ state # "queueing" => state' = state
                      /\ state = "queueing" => tasks' = tasks
                      /\ ~alive => delivered' = delivered
  <1>1. ASSUME Control, [Next]_vars PROVE [Final]_vars
    <2> USE <1>1, PlansAssumption
        DEF Control, TypeOK, SendersLock, BindPath, SendPath, InvitePath,
            endpointVars, ownerVars, delegateVars, Goto
    <2>1. CASE \E s \in Senders : Sender(s)
      BY <2>1 DEF Sender, SenderLock, Observe, Enqueue, Post, Forward, SenderUnlock
    <2>2. CASE OwnerLock \/ DestroyDelegate
      BY <2>2 DEF OwnerLock, DestroyDelegate
    <2>3. CASE SetBound \/ SetProxying
      BY <2>3 DEF SetBound, SetProxying
    <2>4. CASE SetDelegate \/ SetRunner \/ Bound \/ Take \/ Introduce
               \/ UnlockDependent \/ FlushOne \/ Flushed
      BY <2>4 DEF SetDelegate, SetRunner, Bound, Take, Introduce,
                  UnlockDependent, FlushOne, Flushed
    <2>5. CASE DrainOne \/ RunTask
      BY <2>5 DEF DrainOne, RunTask
    <2>6. CASE UNCHANGED vars
      BY <2>6
    <2> QED
      BY <1>1, <2>1, <2>2, <2>3, <2>4, <2>5, <2>6 DEF Next, OwnerStep
  <1> QED
    BY <1>1, ControlInvariant, PTL DEF Spec, StateIsFinal
-----------------------------------------------------------------------------
(* The order of messages.                                                   *)

\* The line of messages, from the one released first to the one in a sender's
\* hand.  Cat and One hide how sequences are put together: the steps below need
\* only the laws of Algebra.
Lines == Seq(Nat)
Cat(s, t) == s \o t
One(x) == <<x>>
LineOf(r, t, k, q, h) == Cat(r, Cat(t, Cat(k, Cat(q, h))))

\* The laws of concatenation.
LEMMA Algebra ==
  /\ << >> \in Lines
  /\ \A x \in Nat : One(x) \in Lines
  /\ \A s, t \in Lines : Cat(s, t) \in Lines
  /\ \A s \in Lines : Cat(s, << >>) = s /\ Cat(<< >>, s) = s
  /\ \A s, t, u \in Lines : Cat(Cat(s, t), u) = Cat(s, Cat(t, u))
  /\ \A s \in Lines, x \in Nat : Append(s, x) = Cat(s, One(x))
  <1>1. << >> \in Lines /\ \A x \in Nat : One(x) \in Lines
    BY DEF Lines, One
  <1>2. \A s, t \in Lines : Cat(s, t) \in Lines
    BY ConcatProperties DEF Lines, Cat
  <1>3. \A s \in Lines : Cat(s, << >>) = s /\ Cat(<< >>, s) = s
    BY ConcatEmptySeq DEF Lines, Cat
  <1>4. \A s, t, u \in Lines : Cat(Cat(s, t), u) = Cat(s, Cat(t, u))
    BY ConcatAssociative, SMTT(30) DEF Lines, Cat
  <1>5. \A s \in Lines, x \in Nat : Append(s, x) = Cat(s, One(x))
    BY AppendIsConcat DEF Lines, Cat, One
  <1> QED
    BY <1>1, <1>2, <1>3, <1>4, <1>5

\* A sequence is its front and the rest.
LEMMA FrontAndRest ==
  ASSUME NEW s \in Lines, s # << >>
  PROVE  \E x \in Nat, u \in Lines : x = Head(s) /\ u = Tail(s) /\ s = Cat(One(x), u)
  <1>1. Head(s) \in Nat /\ Tail(s) \in Seq(Nat)
    BY HeadTailProperties DEF Lines
  <1>2. <<Head(s)>> \in Seq(Nat) /\ Len(<<Head(s)>>) = 1 /\ <<Head(s)>>[1] = Head(s)
    BY <1>1
  <1>3. /\ Len(s) \in Nat /\ Len(s) >= 1
        /\ Len(Tail(s)) = Len(s) - 1
        /\ \A i \in 1..Len(Tail(s)) : Tail(s)[i] = s[i + 1]
        /\ Head(s) = s[1]
    BY HeadTailProperties DEF Lines
  <1> DEFINE r == <<Head(s)>> \o Tail(s)
  <1>4. /\ r \in Seq(Nat) /\ Len(r) = 1 + Len(Tail(s))
        /\ \A i \in 1..(1 + Len(Tail(s))) :
              r[i] = IF i <= 1 THEN <<Head(s)>>[i] ELSE Tail(s)[i - 1]
    BY <1>1, <1>2, ConcatProperties
  <1> HIDE DEF r
  <1>5. ASSUME NEW i \in 1..Len(s) PROVE r[i] = s[i]
    BY <1>2, <1>3, <1>4
  <1>6. r = s
    BY <1>3, <1>4, <1>5, SeqEqual DEF Lines
  <1> QED
    BY <1>1, <1>6 DEF r, Cat, One, Lines

\* InOrder in terms of the line, before and after a step.
LEMMA OrderIsLine ==
  /\ InOrder <=> (plan # "send" =>
                    LineOf(Released, tasks, taken, queue, InHand) = accepted)
  /\ InOrder' <=> (plan' # "send" =>
                    LineOf(Released', tasks', taken', queue', InHand') = accepted')
  BY DEF InOrder, Pending, LineOf, Cat

(* What the steps that move a message do to the line.                       *)

\* A message enters at the end.
LEMMA LineGrows ==
  ASSUME NEW r \in Lines, NEW t \in Lines, NEW k \in Lines, NEW q \in Lines, NEW m \in Nat
  PROVE  /\ LineOf(r, t, k, q, << >>) \in Lines
         /\ LineOf(r, t, k, q, One(m)) = Cat(LineOf(r, t, k, q, << >>), One(m))
  <1>1. LineOf(r, t, k, q, << >>) \in Lines
    BY Algebra DEF LineOf
  <1>2. LineOf(r, t, k, q, One(m)) = Cat(LineOf(r, t, k, q, << >>), One(m))
    BY Algebra DEF LineOf
  <1> QED
    BY <1>1, <1>2

\* Putting the message in hand on the queue leaves the line as it was.
LEMMA HandToQueue ==
  ASSUME NEW q \in Lines, NEW h \in Nat
  PROVE  Cat(Append(q, h), << >>) = Cat(q, One(h))
  BY Algebra

\* The front of one part of the line moves to the end of the part before it.
LEMMA FrontMoves ==
  ASSUME NEW a \in Lines, NEW s \in Lines, NEW b \in Lines, s # << >>
  PROVE  Cat(Append(a, Head(s)), Cat(Tail(s), b)) = Cat(a, Cat(s, b))
  <1>1. PICK x \in Nat, u \in Lines : x = Head(s) /\ u = Tail(s) /\ s = Cat(One(x), u)
    BY FrontAndRest
  <1>2. Cat(Cat(a, One(x)), Cat(u, b)) = Cat(a, Cat(Cat(One(x), u), b))
    BY Algebra
  <1>3. Append(a, x) = Cat(a, One(x))
    BY Algebra
  <1> QED
    BY <1>1, <1>2, <1>3

\* A step that touches no message on its way.
LEMMA QuietStep ==
  ASSUME InOrder, InHand' = InHand,
         UNCHANGED <<plan, delivered, dropped, wire, tasks, taken, queue, accepted>>
  PROVE  InOrder'
  BY DEF InOrder, Released, Pending

\* The steps that move no message keep the order.
LEMMA QuietSteps ==
  ASSUME Control, InOrder, plan # "send",
         \/ \E s \in Senders : Observe(s) \/ SenderUnlock(s)
         \/ OwnerLock \/ SetBound \/ SetDelegate \/ SetRunner \/ Bound
         \/ SetProxying \/ Introduce \/ UnlockDependent \/ Flushed
         \/ DestroyDelegate \/ UNCHANGED vars
  PROVE  InOrder'
  <1> USE ThreadsAssumption, PlansAssumption
      DEF Control, TypeOK, Threads, endpointVars, ownerVars, delegateVars, Goto,
          Acquire, Release, InHand
  <1>1. ASSUME NEW s \in Senders, Observe(s) PROVE InOrder'
    <2>1. ActionFor(state) # "unlock"
      BY DEF ActionFor
    <2>2. InHand' = InHand
      BY <1>1, <2>1 DEF Observe, SendersLock
    <2> QED
      BY <1>1, <2>2, QuietStep DEF Observe
  <1>2. ASSUME NEW s \in Senders, SenderUnlock(s) PROVE InOrder'
    <2>1. InHand' = InHand
      BY <1>2 DEF SenderUnlock, SendersLock
    <2> QED
      BY <1>2, <2>1, QuietStep DEF SenderUnlock
  <1>3. CASE OwnerLock
    <2>1. InHand' = InHand
      BY <1>3 DEF OwnerLock
    <2> QED
      BY <1>3, <2>1, QuietStep DEF OwnerLock
  <1>4. CASE SetBound \/ SetDelegate \/ SetRunner
    <2>1. InHand' = InHand
      BY <1>4 DEF SetBound, SetDelegate, SetRunner
    <2> QED
      BY <1>4, <2>1, QuietStep DEF SetBound, SetDelegate, SetRunner
  <1>5. CASE Bound
    <2>1. InHand' = InHand
      BY <1>5 DEF Bound
    <2> QED
      BY <1>5, <2>1, QuietStep DEF Bound
  <1>6. CASE SetProxying
    <2>1. InHand' = InHand
      BY <1>6 DEF SetProxying
    <2> QED
      BY <1>6, <2>1, QuietStep DEF SetProxying
  <1>7. CASE Introduce \/ UnlockDependent
    BY <1>7 DEF Introduce, UnlockDependent, BindPath, InvitePath
  <1>8. CASE Flushed
    <2>1. InHand' = InHand
      BY <1>8 DEF Flushed
    <2> QED
      BY <1>8, <2>1, QuietStep DEF Flushed
  <1>9. CASE DestroyDelegate
    <2>1. InHand' = InHand
      BY <1>9 DEF DestroyDelegate
    <2> QED
      BY <1>9, <2>1, QuietStep DEF DestroyDelegate
  <1>10. CASE UNCHANGED vars
    <2>1. InHand' = InHand
      BY <1>10 DEF vars
    <2> QED
      BY <1>10, <2>1, QuietStep DEF vars
  <1> QED
    BY <1>1, <1>2, <1>3, <1>4, <1>5, <1>6, <1>7, <1>8, <1>9, <1>10

\* The line of an endpoint that is not moved inside a message.
LEMMA LineTyped ==
  ASSUME TypeOK, plan # "send"
  PROVE  /\ tasks \in Lines /\ taken \in Lines /\ queue \in Lines /\ wire \in Lines
         /\ delivered \in Lines /\ dropped \in Lines /\ accepted \in Lines
         /\ plan = "bind" \/ plan = "invite"
         /\ plan = "bind" => Released = Cat(delivered, dropped)
         /\ plan = "invite" => Released = wire
         /\ Released \in Lines
  <1>1. Messages \subseteq Nat
    BY DEF Messages
  <1>2. /\ tasks \in Lines /\ taken \in Lines /\ queue \in Lines /\ wire \in Lines
        /\ delivered \in Lines /\ dropped \in Lines /\ accepted \in Lines
    BY <1>1, SeqMonotonic DEF TypeOK, Lines
  <1>3. plan = "bind" \/ plan = "invite"
    BY PlansAssumption DEF TypeOK
  <1>4. /\ plan = "bind" => Released = Cat(delivered, dropped)
        /\ plan = "invite" => Released = wire
    BY DEF Released, Cat
  <1>5. Cat(delivered, dropped) \in Lines
    BY <1>2, Algebra
  <1> QED
    BY <1>2, <1>3, <1>4, <1>5

\* What a sender holds is at most one message.
LEMMA HandTyped ==
  ASSUME TypeOK
  PROVE  InHand \in Lines
  <1>1. lock \in Senders => hand[lock] \in Nat
    BY DEF TypeOK
  <1>2. InHand = << >> \/ (lock \in Senders /\ InHand = One(hand[lock]))
    BY DEF InHand, One
  <1> QED
    BY <1>1, <1>2, Algebra

\* A sender that gets the lock puts its message at the end of the line.
LEMMA SenderLockInOrder ==
  ASSUME Control, InOrder, plan # "send", NEW s \in Senders, SenderLock(s)
  PROVE  InOrder'
  <1> DEFINE m == Len(accepted) + 1
  <1>1. /\ UNCHANGED <<plan, delivered, dropped, wire, tasks, taken, queue>>
        /\ accepted' = Append(accepted, m)
        /\ hand' = [hand EXCEPT ![s] = m]
        /\ lock = NoThread /\ lock' = s
        /\ pc' = [pc EXCEPT ![s] = "locked"]
    BY DEF SenderLock, endpointVars, ownerVars, delegateVars, Goto, Acquire
  <1>2. InHand = << >> /\ InHand' = One(m)
    BY <1>1, ThreadsAssumption DEF InHand, Control, TypeOK, Threads, One
  <1>3. TypeOK /\ m \in Nat
    BY DEF Control, TypeOK
  <1> HIDE DEF m
  <1>4. Released' = Released
    BY <1>1 DEF Released
  <1>5. Released \in Lines /\ tasks \in Lines /\ taken \in Lines /\ queue \in Lines
        /\ accepted \in Lines
    BY <1>3, LineTyped
  <1>6. LineOf(Released, tasks, taken, queue, One(m))
        = Cat(LineOf(Released, tasks, taken, queue, << >>), One(m))
    BY <1>3, <1>5, LineGrows
  <1>7. Append(accepted, m) = Cat(accepted, One(m))
    BY <1>3, <1>5, Algebra
  <1> QED
    BY <1>1, <1>2, <1>4, <1>6, <1>7, OrderIsLine

\* A message in a sender's hand goes to the queue, to the task runner or to the
\* channel only when there is nothing between.
LEMMA HandGoesOn ==
  ASSUME Control, InOrder, plan # "send", NEW s \in Senders, Enqueue(s) \/ Post(s) \/ Forward(s)
  PROVE  InOrder'
  <1> USE DEF endpointVars, ownerVars, delegateVars, Goto
  <1>1. /\ UNCHANGED <<plan, delivered, dropped, taken, accepted, lock>>
        /\ pc[s] \in {"queue", "post", "forward"}
        /\ pc' = [pc EXCEPT ![s] = "unlock"]
    BY DEF Enqueue, Post, Forward
  <1>2. lock = s /\ hand[s] \in Nat /\ lock # Owner
    BY <1>1, ThreadsAssumption DEF Control, SendersLock, Messages
  <1>3. InHand = One(hand[s]) /\ InHand' = << >>
    BY <1>1, <1>2 DEF InHand, Control, TypeOK, Threads, One
  <1>4. TypeOK
    BY DEF Control
  <1>5. CASE Enqueue(s)
    <2>1. /\ UNCHANGED <<wire, tasks>>
          /\ queue' = Append(queue, hand[s])
      BY <1>5 DEF Enqueue
    <2>2. Released' = Released
      BY <1>1, <2>1 DEF Released
    <2>3. Cat(queue', << >>) = Cat(queue, One(hand[s]))
      BY <1>2, <1>4, <2>1, LineTyped, HandToQueue
    <2> QED
      BY <1>1, <1>3, <2>1, <2>2, <2>3, OrderIsLine DEF LineOf
  <1>6. CASE Post(s)
    <2>1. /\ UNCHANGED <<wire, queue>>
          /\ pc[s] = "post" /\ tasks' = Append(tasks, hand[s])
      BY <1>6 DEF Post
    <2>2. Released' = Released
      BY <1>1, <2>1 DEF Released
    <2>3. taken = << >> /\ queue = << >>
      BY <1>2, <2>1, PlansAssumption DEF Control, TypeOK, SendersLock, BindPath, InvitePath
    <2>4. Cat(tasks', Cat(<< >>, Cat(<< >>, << >>)))
          = Cat(tasks, Cat(<< >>, Cat(<< >>, One(hand[s]))))
      <3>1. tasks \in Lines
        BY <1>4, LineTyped
      <3>2. Append(tasks, hand[s]) = Cat(tasks, One(hand[s])) /\ One(hand[s]) \in Lines
        BY <1>2, <3>1, Algebra
      <3>3. Cat(tasks, One(hand[s])) \in Lines
        BY <3>1, <3>2, Algebra
      <3> QED
        BY <2>1, <3>1, <3>2, <3>3, Algebra
    <2> QED
      BY <1>1, <1>3, <2>1, <2>2, <2>3, <2>4, OrderIsLine DEF LineOf
  <1>7. CASE Forward(s)
    <2>1. /\ UNCHANGED <<queue, tasks>>
          /\ pc[s] = "forward" /\ wire' = Append(wire, hand[s])
      BY <1>7 DEF Forward
    <2>2. plan = "invite" /\ tasks = << >> /\ taken = << >> /\ queue = << >>
      BY <1>2, <2>1, PlansAssumption DEF Control, TypeOK, SendersLock, BindPath, InvitePath
    <2>3. Released = wire /\ Released' = wire'
      BY <1>1, <2>2 DEF Released
    <2>4. LineOf(wire', << >>, << >>, << >>, << >>)
          = LineOf(wire, << >>, << >>, << >>, One(hand[s]))
      <3>1. wire \in Lines
        BY <1>4, LineTyped
      <3>2. Append(wire, hand[s]) = Cat(wire, One(hand[s])) /\ One(hand[s]) \in Lines
        BY <1>2, <3>1, Algebra
      <3>3. Cat(wire, One(hand[s])) \in Lines
        BY <3>1, <3>2, Algebra
      <3> QED
        BY <2>1, <3>1, <3>2, <3>3, Algebra DEF LineOf
    <2> QED
      BY <1>1, <1>3, <2>1, <2>2, <2>3, <2>4, OrderIsLine
  <1> QED
    BY <1>5, <1>6, <1>7

\* The owner moves the queue to the task runner, to its own list or to the
\* channel from the front, with the lock in its hand.
LEMMA OwnerMovesInOrder ==
  ASSUME Control, InOrder, plan # "send", DrainOne \/ Take \/ FlushOne
  PROVE  InOrder'
  <1> USE DEF endpointVars, ownerVars, delegateVars, Goto
  <1>1. /\ UNCHANGED <<plan, delivered, dropped, accepted, lock, hand>>
        /\ pc[Owner] \in {"drain", "take", "flush"}
        /\ \A t \in Senders : pc'[t] = pc[t]
    BY ThreadsAssumption DEF DrainOne, Take, FlushOne, Control, TypeOK, Threads
  <1>2. lock = Owner
    BY <1>1, PlansAssumption DEF Control, TypeOK, BindPath, InvitePath
  <1>3. InHand = << >> /\ InHand' = << >>
    BY <1>1, <1>2, ThreadsAssumption DEF InHand
  <1>4. TypeOK
    BY DEF Control
  <1>5. CASE DrainOne
    <2>1. /\ UNCHANGED <<wire, taken>> /\ pc[Owner] = "drain" /\ queue # << >>
          /\ tasks' = Append(tasks, Head(queue)) /\ queue' = Tail(queue)
      BY <1>5 DEF DrainOne
    <2>2. taken = << >>
      BY <2>1, PlansAssumption DEF Control, TypeOK, BindPath, InvitePath
    <2>3. Cat(tasks', Cat(queue', << >>)) = Cat(tasks, Cat(queue, << >>))
      BY <1>4, <2>1, LineTyped, Algebra, FrontMoves
    <2>4. Cat(<< >>, Cat(queue', << >>)) = Cat(queue', << >>)
      <3>1. queue' \in Lines
        BY <1>4, <2>1, LineTyped, FrontAndRest
      <3> QED
        BY <3>1, Algebra
    <2>5. Cat(<< >>, Cat(queue, << >>)) = Cat(queue, << >>)
      BY <1>4, LineTyped, Algebra
    <2>6. Released' = Released
      BY <1>1, <2>1 DEF Released
    <2> QED
      BY <1>1, <1>3, <2>1, <2>2, <2>3, <2>4, <2>5, <2>6, OrderIsLine DEF LineOf
  <1>6. CASE Take
    <2>1. /\ UNCHANGED <<wire, tasks>> /\ pc[Owner] = "take"
          /\ taken' = queue /\ queue' = << >>
      BY <1>6 DEF Take
    <2>2. taken = << >>
      BY <2>1, PlansAssumption DEF Control, TypeOK, BindPath, InvitePath
    <2>3. Cat(queue, Cat(<< >>, << >>)) = Cat(<< >>, Cat(queue, << >>))
      BY <1>4, LineTyped, Algebra
    <2>4. Released' = Released
      BY <1>1, <2>1 DEF Released
    <2> QED
      BY <1>1, <1>3, <2>1, <2>2, <2>3, <2>4, OrderIsLine DEF LineOf
  <1>7. CASE FlushOne
    <2>1. /\ UNCHANGED <<queue, tasks>> /\ pc[Owner] = "flush" /\ taken # << >>
          /\ wire' = Append(wire, Head(taken)) /\ taken' = Tail(taken)
      BY <1>7 DEF FlushOne
    <2>2. plan = "invite" /\ tasks = << >> /\ queue = << >>
      BY <2>1, PlansAssumption DEF Control, TypeOK, BindPath, InvitePath
    <2>3. Released = wire /\ Released' = wire'
      BY <1>1, <2>2 DEF Released
    <2>4. /\ taken \in Lines /\ wire \in Lines
          /\ Cat(<< >>, << >>) \in Lines /\ taken' \in Lines
      <3>1. taken \in Lines /\ wire \in Lines
        BY <1>4, LineTyped
      <3>2. taken' \in Lines
        BY <2>1, <3>1, FrontAndRest
      <3> QED
        BY <3>1, <3>2, Algebra
    <2>5. Cat(wire', Cat(taken', Cat(<< >>, << >>))) = Cat(wire, Cat(taken, Cat(<< >>, << >>)))
      BY <2>1, <2>4, FrontMoves
    <2>6. /\ Cat(<< >>, Cat(taken', Cat(<< >>, << >>))) = Cat(taken', Cat(<< >>, << >>))
          /\ Cat(<< >>, Cat(taken, Cat(<< >>, << >>))) = Cat(taken, Cat(<< >>, << >>))
      BY <2>4, Algebra
    <2> QED
      BY <1>1, <1>3, <2>1, <2>2, <2>3, <2>5, <2>6, OrderIsLine DEF LineOf
  <1> QED
    BY <1>5, <1>6, <1>7

\* A task dispatches the oldest message, to the delegate or to nobody: once the
\* delegate is dead it stays dead.
LEMMA RunTaskReleased ==
  ASSUME Control, plan # "send", RunTask, NEW x \in Nat, x = Head(tasks)
  PROVE  Released' = Cat(Released, One(x))
  <1>1. /\ UNCHANGED plan /\ tasks # << >>
        /\ \/ delivered' = Append(delivered, x) /\ dropped' = dropped /\ alive
           \/ dropped' = Append(dropped, x) /\ delivered' = delivered
    BY Zenon DEF RunTask, ownerVars
  <1>2. /\ plan = "bind" /\ (alive => dropped = << >>)
        /\ Released = Cat(delivered, dropped) /\ Released' = Cat(delivered', dropped')
    BY <1>1, PlansAssumption DEF Control, TypeOK, BindPath, InvitePath, Released, Cat
  <1>3. delivered \in Lines /\ dropped \in Lines /\ One(x) \in Lines
    BY LineTyped, Algebra DEF Control
  <1>4. /\ Append(delivered, x) = Cat(delivered, One(x))
        /\ Append(dropped, x) = Cat(dropped, One(x))
    BY <1>3, Algebra
  <1>5. Cat(delivered, Cat(dropped, One(x))) = Cat(Cat(delivered, dropped), One(x))
    BY <1>3, Algebra
  <1>6. Cat(Cat(delivered, One(x)), << >>) = Cat(Cat(delivered, << >>), One(x))
    BY <1>3, Algebra
  <1> QED
    BY <1>1, <1>2, <1>4, <1>5, <1>6

\* Dispatching a task keeps the order.
LEMMA RunTaskInOrder ==
  ASSUME Control, InOrder, plan # "send", RunTask
  PROVE  InOrder'
  <1>1. /\ UNCHANGED <<plan, wire, taken, queue, accepted, lock, hand, pc>>
        /\ tasks # << >> /\ tasks' = Tail(tasks)
    BY DEF RunTask, endpointVars, ownerVars
  <1>2. InHand' = InHand
    BY <1>1 DEF InHand
  <1>3. TypeOK
    BY DEF Control
  <1>4. PICK x \in Nat, u \in Lines :
          x = Head(tasks) /\ u = Tail(tasks) /\ tasks = Cat(One(x), u)
    BY <1>1, <1>3, LineTyped, FrontAndRest
  <1>5. Released \in Lines /\ One(x) \in Lines
    BY <1>3, LineTyped, Algebra
  <1>6. Released' = Cat(Released, One(x))
    BY <1>4, RunTaskReleased
  <1>7. InHand \in Lines
    BY <1>3, HandTyped
  <1>8. PICK b \in Lines : b = Cat(taken, Cat(queue, InHand))
    <2>1. taken \in Lines /\ queue \in Lines
      BY <1>3, LineTyped
    <2> QED
      BY <1>7, <2>1, Algebra
  <1>9. Cat(Cat(Released, One(x)), Cat(u, b)) = Cat(Released, Cat(Cat(One(x), u), b))
    <2>1. Cat(u, b) \in Lines
      BY <1>4, <1>8, Algebra
    <2>2. Cat(Cat(Released, One(x)), Cat(u, b)) = Cat(Released, Cat(One(x), Cat(u, b)))
      BY <1>5, <2>1, Algebra
    <2>3. Cat(One(x), Cat(u, b)) = Cat(Cat(One(x), u), b)
      BY <1>4, <1>5, <1>8, Algebra
    <2> QED
      BY <2>2, <2>3
  <1> QED
    BY <1>1, <1>2, <1>4, <1>6, <1>8, <1>9, OrderIsLine DEF LineOf

\* A step keeps the order.
LEMMA OrderStep ==
  ASSUME Control, InOrder, [Next]_vars
  PROVE  InOrder'
  <1>1. plan' = plan
    BY DEF Next, vars, Sender, SenderLock, Observe, Enqueue, Post, Forward, SenderUnlock,
           OwnerLock, OwnerStep, SetBound, SetDelegate, SetRunner, DrainOne, Bound, Take,
           SetProxying, Introduce, UnlockDependent, FlushOne, Flushed, RunTask,
           DestroyDelegate, ownerVars
  <1>2. CASE plan = "send"
    BY <1>1, <1>2 DEF InOrder
  <1>3. CASE plan # "send"
    BY <1>3, QuietSteps, SenderLockInOrder, HandGoesOn, OwnerMovesInOrder, RunTaskInOrder
    DEF Next, Sender, OwnerStep
  <1> QED
    BY <1>2, <1>3

\* A receiver, and the invitee of an invitation, get every message the endpoint
\* accepted, once and in the order it accepted them.
THEOREM NothingOvertakes == Spec => []InOrder
  <1>1. Init => InOrder
    <2> SUFFICES ASSUME Init PROVE InOrder
      OBVIOUS
    <2>1. /\ wire = << >> /\ delivered = << >> /\ dropped = << >> /\ tasks = << >>
          /\ taken = << >> /\ queue = << >> /\ accepted = << >> /\ lock = NoThread
          /\ plan \in {"bind", "send", "invite"}
      BY PlansAssumption DEF Init
    <2>2. InHand = << >>
      BY <2>1, ThreadsAssumption DEF InHand
    <2>3. Cat(<< >>, << >>) = << >>
      BY Algebra
    <2>4. plan # "send" => Released = << >>
      BY <2>1, <2>3 DEF Released, Cat
    <2> QED
      BY <2>1, <2>2, <2>3, <2>4, OrderIsLine DEF LineOf
  <1>2. Control /\ InOrder /\ [Next]_vars => InOrder'
    BY OrderStep
  <1> QED
    BY <1>1, <1>2, ControlInvariant, PTL DEF Spec
-----------------------------------------------------------------------------
(* Nothing is lost or duplicated, whatever the plan.  The line of an        *)
(* endpoint that is moved inside a message is not in order, so what is kept *)
(* is how many messages it has and which ones.                              *)

\* The message x is somewhere in the line s.
Holds(s, x) == \E j \in 1..Len(s) : s[j] = x

\* How many messages the parts of a line have, and which.
LEMMA Counting ==
  /\ \A s \in Lines : Len(s) \in Nat
  /\ Len(<< >>) = 0 /\ \A x \in Nat : ~Holds(<< >>, x)
  /\ \A y \in Nat : Len(One(y)) = 1
  /\ \A x, y \in Nat : Holds(One(y), x) <=> x = y
  /\ \A s, t \in Lines : Len(Cat(s, t)) = Len(s) + Len(t)
  /\ \A s, t \in Lines, x \in Nat : Holds(Cat(s, t), x) <=> Holds(s, x) \/ Holds(t, x)
  <1>1. \A s \in Lines : Len(s) \in Nat
    BY DEF Lines
  <1>2. Len(<< >>) = 0 /\ \A x \in Nat : ~Holds(<< >>, x)
    BY DEF Holds
  <1>3. ASSUME NEW y \in Nat
        PROVE  Len(One(y)) = 1 /\ \A x \in Nat : Holds(One(y), x) <=> x = y
    BY DEF Holds, One
  <1>4. ASSUME NEW s \in Lines, NEW t \in Lines
        PROVE  /\ Len(Cat(s, t)) = Len(s) + Len(t)
               /\ \A x \in Nat : Holds(Cat(s, t), x) <=> Holds(s, x) \/ Holds(t, x)
    <2> DEFINE c == Cat(s, t)
    <2>1. /\ Len(c) = Len(s) + Len(t)
          /\ \A i \in 1..(Len(s) + Len(t)) : c[i] = IF i <= Len(s) THEN s[i] ELSE t[i - Len(s)]
      BY ConcatProperties DEF Lines, Cat
    <2>2. Len(s) \in Nat /\ Len(t) \in Nat
      BY <1>1
    <2> HIDE DEF c
    <2>3. ASSUME NEW x \in Nat, Holds(c, x) PROVE Holds(s, x) \/ Holds(t, x)
      <3>1. PICK i \in 1..(Len(s) + Len(t)) : c[i] = x
        BY <2>1, <2>3 DEF Holds
      <3>2. CASE i <= Len(s)
        BY <2>1, <2>2, <3>1, <3>2 DEF Holds
      <3>3. CASE ~(i <= Len(s))
        <4>1. i - Len(s) \in 1..Len(t) /\ t[i - Len(s)] = x
          BY <2>1, <2>2, <3>1, <3>3
        <4> QED
          BY <4>1 DEF Holds
      <3> QED
        BY <3>2, <3>3
    <2>4. ASSUME NEW x \in Nat, Holds(s, x) PROVE Holds(c, x)
      <3>1. PICK i \in 1..Len(s) : s[i] = x
        BY <2>4 DEF Holds
      <3>2. i \in 1..(Len(s) + Len(t)) /\ c[i] = x
        BY <2>1, <2>2, <3>1
      <3> QED
        BY <2>1, <3>2 DEF Holds
    <2>5. ASSUME NEW x \in Nat, Holds(t, x) PROVE Holds(c, x)
      <3>1. PICK i \in 1..Len(t) : t[i] = x
        BY <2>5 DEF Holds
      <3>2. /\ i + Len(s) \in 1..(Len(s) + Len(t)) /\ ~(i + Len(s) <= Len(s))
            /\ i + Len(s) - Len(s) = i
        BY <2>2
      <3>3. c[i + Len(s)] = x
        BY <2>1, <3>1, <3>2
      <3> QED
        BY <2>1, <3>2, <3>3 DEF Holds
    <2> QED
      BY <2>1, <2>3, <2>4, <2>5 DEF c
  <1> QED
    BY <1>1, <1>2, <1>3, <1>4

\* NoLossNoDup of the whole line s.
Complete(s, a) ==
    /\ Len(s) = Len(a)
    /\ \A i \in 1..Len(a) : \E j \in 1..Len(s) : s[j] = a[i]

\* The same of its parts: together they have as many messages as a has, and
\* each of them.
Keeps(r, t, k, q, h, a) ==
    /\ Len(r) + Len(t) + Len(k) + Len(q) + Len(h) = Len(a)
    /\ \A x \in Nat : Holds(a, x) =>
          Holds(r, x) \/ Holds(t, x) \/ Holds(k, x) \/ Holds(q, x) \/ Holds(h, x)

\* A message put at the end, or taken from the front, of a part of the line.
LEMMA CountingEnds ==
  /\ \A s \in Lines, y \in Nat :
        /\ Append(s, y) \in Lines /\ Len(Append(s, y)) = Len(s) + 1
        /\ \A x \in Nat : Holds(Append(s, y), x) <=> Holds(s, x) \/ x = y
  /\ \A s \in Lines : s # << >> =>
        /\ Head(s) \in Nat /\ Tail(s) \in Lines /\ Len(s) = Len(Tail(s)) + 1
        /\ \A x \in Nat : Holds(s, x) <=> x = Head(s) \/ Holds(Tail(s), x)
  <1>1. ASSUME NEW s \in Lines, NEW y \in Nat
        PROVE  /\ Append(s, y) \in Lines /\ Len(Append(s, y)) = Len(s) + 1
               /\ \A x \in Nat : Holds(Append(s, y), x) <=> Holds(s, x) \/ x = y
    <2>1. Append(s, y) = Cat(s, One(y)) /\ One(y) \in Lines /\ Cat(s, One(y)) \in Lines
      BY Algebra
    <2>2. /\ Len(Cat(s, One(y))) = Len(s) + Len(One(y)) /\ Len(One(y)) = 1
          /\ \A x \in Nat : Holds(Cat(s, One(y)), x) <=> Holds(s, x) \/ Holds(One(y), x)
          /\ \A x \in Nat : Holds(One(y), x) <=> x = y
      BY <2>1, Counting
    <2> QED
      BY <2>1, <2>2
  <1>2. ASSUME NEW s \in Lines, s # << >>
        PROVE  /\ Head(s) \in Nat /\ Tail(s) \in Lines /\ Len(s) = Len(Tail(s)) + 1
               /\ \A x \in Nat : Holds(s, x) <=> x = Head(s) \/ Holds(Tail(s), x)
    <2>1. PICK y \in Nat, u \in Lines : y = Head(s) /\ u = Tail(s) /\ s = Cat(One(y), u)
      BY <1>2, FrontAndRest
    <2>2. One(y) \in Lines
      BY Algebra
    <2>3. /\ Len(Cat(One(y), u)) = Len(One(y)) + Len(u) /\ Len(One(y)) = 1 /\ Len(u) \in Nat
          /\ \A x \in Nat : Holds(Cat(One(y), u), x) <=> Holds(One(y), x) \/ Holds(u, x)
          /\ \A x \in Nat : Holds(One(y), x) <=> x = y
      BY <2>2, Counting
    <2> QED
      BY <2>1, <2>3
  <1> QED
    BY <1>1, <1>2

\* What NoLossNoDup says of the parts of a line.
LEMMA KeepsIsNoLoss ==
  ASSUME NEW r \in Lines, NEW t \in Lines, NEW k \in Lines, NEW q \in Lines, NEW h \in Lines,
         NEW a \in Lines
  PROVE  Complete(LineOf(r, t, k, q, h), a) <=> Keeps(r, t, k, q, h, a)
  <1> DEFINE places == LineOf(r, t, k, q, h)
  <1>1. /\ Cat(q, h) \in Lines /\ Len(Cat(q, h)) = Len(q) + Len(h)
        /\ \A x \in Nat : Holds(Cat(q, h), x) <=> Holds(q, x) \/ Holds(h, x)
    BY Algebra, Counting
  <1>2. PICK b \in Lines : b = Cat(q, h)
    BY <1>1
  <1>3. /\ Cat(k, b) \in Lines /\ Len(Cat(k, b)) = Len(k) + Len(b)
        /\ \A x \in Nat : Holds(Cat(k, b), x) <=> Holds(k, x) \/ Holds(b, x)
    BY Algebra, Counting
  <1>4. PICK c \in Lines : c = Cat(k, b)
    BY <1>3
  <1>5. /\ Cat(t, c) \in Lines /\ Len(Cat(t, c)) = Len(t) + Len(c)
        /\ \A x \in Nat : Holds(Cat(t, c), x) <=> Holds(t, x) \/ Holds(c, x)
    BY Algebra, Counting
  <1>6. PICK d \in Lines : d = Cat(t, c)
    BY <1>5
  <1>7. /\ Len(Cat(r, d)) = Len(r) + Len(d)
        /\ \A x \in Nat : Holds(Cat(r, d), x) <=> Holds(r, x) \/ Holds(d, x)
    BY Algebra, Counting
  <1>8. places = Cat(r, d)
    BY <1>2, <1>4, <1>6 DEF LineOf
  <1>9. /\ Len(r) \in Nat /\ Len(t) \in Nat /\ Len(k) \in Nat /\ Len(q) \in Nat
        /\ Len(h) \in Nat /\ Len(a) \in Nat
    BY Counting
  <1>10. Len(places) = Len(r) + Len(t) + Len(k) + Len(q) + Len(h)
    BY <1>1, <1>2, <1>3, <1>4, <1>5, <1>6, <1>7, <1>8, <1>9
  <1>11. \A x \in Nat : Holds(places, x) <=>
            Holds(r, x) \/ Holds(t, x) \/ Holds(k, x) \/ Holds(q, x) \/ Holds(h, x)
    BY <1>1, <1>2, <1>3, <1>4, <1>5, <1>6, <1>7, <1>8
  <1> HIDE DEF places
  <1>12. (\A i \in 1..Len(a) : \E j \in 1..Len(places) : places[j] = a[i])
         <=> \A x \in Nat : Holds(a, x) => Holds(places, x)
    <2>1. \A i \in 1..Len(a) : a[i] \in Nat
      BY DEF Lines
    <2> QED
      BY <2>1 DEF Holds
  <1> QED
    BY <1>10, <1>11, <1>12 DEF places, Keeps, Complete

\* The parts of the line under every plan.
LEMMA PartsTyped ==
  ASSUME TypeOK
  PROVE  /\ tasks \in Lines /\ taken \in Lines /\ queue \in Lines /\ wire \in Lines
         /\ accepted \in Lines /\ InHand \in Lines /\ Released \in Lines
         /\ NoLossNoDup <=> Keeps(Released, tasks, taken, queue, InHand, accepted)
  <1>1. Messages \subseteq Nat
    BY DEF Messages
  <1>2. /\ tasks \in Lines /\ taken \in Lines /\ queue \in Lines /\ wire \in Lines
        /\ accepted \in Lines
    BY <1>1, SeqMonotonic DEF TypeOK, Lines
  <1>3. InHand \in Lines
    BY HandTyped
  <1>4. plan = "send" => Released \in Lines
    <2>1. ASSUME wire # << >> PROVE Tail(wire) \in Lines
      BY <1>2, <2>1, CountingEnds
    <2>2. << >> \in Lines
      BY Algebra
    <2>3. plan = "send" => Released = IF wire = << >> THEN << >> ELSE Tail(wire)
      BY DEF Released
    <2> QED
      BY <2>1, <2>2, <2>3
  <1>5. Released \in Lines
    BY <1>4, LineTyped
  <1>6. Released \o Pending = LineOf(Released, tasks, taken, queue, InHand)
    BY DEF Pending, LineOf, Cat
  <1>7. NoLossNoDup <=> Keeps(Released, tasks, taken, queue, InHand, accepted)
    <2>1. NoLossNoDup <=> Complete(LineOf(Released, tasks, taken, queue, InHand), accepted)
      BY <1>6, Zenon DEF NoLossNoDup, Complete
    <2> QED
      BY <1>2, <1>3, <1>5, <2>1, KeepsIsNoLoss
  <1> QED
    BY <1>2, <1>3, <1>5, <1>7

\* A step of a moved endpoint that moves no message.
LEMMA QuietKeeps ==
  ASSUME NoLossNoDup, plan = "send", InHand' = InHand, Released' = Released,
         UNCHANGED <<plan, tasks, taken, queue, accepted>>
  PROVE  NoLossNoDup'
  BY DEF NoLossNoDup, Pending

\* The steps of a moved endpoint that move no message lose none.
LEMMA QuietStepsKeep ==
  ASSUME Control, NoLossNoDup, plan = "send",
         \/ \E s \in Senders : Observe(s) \/ SenderUnlock(s)
         \/ OwnerLock \/ SetProxying \/ Introduce \/ UnlockDependent \/ Flushed
         \/ UNCHANGED vars
  PROVE  NoLossNoDup'
  <1> USE ThreadsAssumption, PlansAssumption
      DEF Control, TypeOK, Threads, endpointVars, ownerVars, delegateVars, Goto,
          Acquire, Release, InHand
  <1>1. ASSUME NEW s \in Senders, Observe(s) PROVE NoLossNoDup'
    <2>1. ActionFor(state) # "unlock"
      BY DEF ActionFor
    <2>2. InHand' = InHand
      BY <1>1, <2>1 DEF Observe, SendersLock
    <2>3. Released' = Released
      BY <1>1 DEF Observe, Released
    <2> QED
      BY <1>1, <2>2, <2>3, QuietKeeps DEF Observe
  <1>2. ASSUME NEW s \in Senders, SenderUnlock(s) PROVE NoLossNoDup'
    <2>1. InHand' = InHand
      BY <1>2 DEF SenderUnlock, SendersLock
    <2>2. Released' = Released
      BY <1>2 DEF SenderUnlock, Released
    <2> QED
      BY <1>2, <2>1, <2>2, QuietKeeps DEF SenderUnlock
  <1>3. CASE OwnerLock
    <2>1. InHand' = InHand
      BY <1>3 DEF OwnerLock
    <2>2. Released' = Released
      BY <1>3 DEF OwnerLock, Released
    <2> QED
      BY <1>3, <2>1, <2>2, QuietKeeps DEF OwnerLock
  <1>4. CASE SetProxying
    <2>1. InHand' = InHand
      BY <1>4 DEF SetProxying
    <2>2. Released' = Released
      BY <1>4 DEF SetProxying, Released
    <2> QED
      BY <1>4, <2>1, <2>2, QuietKeeps DEF SetProxying
  <1>5. CASE Introduce
    <2>1. InHand' = InHand
      BY <1>5 DEF Introduce
    <2>2. wire = << >> /\ wire' = <<Introduction>> /\ UNCHANGED plan
      BY <1>5 DEF Introduce, SendPath
    <2>3. Released' = Released
      <3>1. Tail(<<Introduction>>) = << >> /\ <<Introduction>> # << >>
        OBVIOUS
      <3> QED
        BY <2>2, <3>1 DEF Released
    <2> QED
      BY <1>5, <2>1, <2>3, QuietKeeps DEF Introduce
  <1>6. CASE UnlockDependent
    <2>1. InHand' = InHand
      BY <1>6 DEF UnlockDependent
    <2>2. Released' = Released
      BY <1>6 DEF UnlockDependent, Released
    <2> QED
      BY <1>6, <2>1, <2>2, QuietKeeps DEF UnlockDependent
  <1>7. CASE Flushed
    <2>1. InHand' = InHand
      BY <1>7 DEF Flushed
    <2>2. Released' = Released
      BY <1>7 DEF Flushed, Released
    <2> QED
      BY <1>7, <2>1, <2>2, QuietKeeps DEF Flushed
  <1>8. CASE UNCHANGED vars
    <2>1. InHand' = InHand
      BY <1>8 DEF vars
    <2>2. Released' = Released
      BY <1>8 DEF vars, Released
    <2> QED
      BY <1>8, <2>1, <2>2, QuietKeeps DEF vars
  <1> QED
    BY <1>1, <1>2, <1>3, <1>4, <1>5, <1>6, <1>7, <1>8

\* What a moved endpoint writes after its introduction is released.
LEMMA WrittenIsReleased ==
  ASSUME TypeOK, plan = "send", plan' = plan, wire # << >>, NEW m \in Nat,
         wire' = Append(wire, m)
  PROVE  Released' = Append(Released, m)
  <1>1. wire \in Seq(Nat) /\ Released = Tail(wire)
    BY DEF TypeOK, Released
  <1>2. Append(wire, m) # << >> /\ Tail(Append(wire, m)) = Append(Tail(wire), m)
    BY <1>1
  <1> QED
    BY <1>1, <1>2 DEF Released

\* A sender that gets the lock of an endpoint adds one message, to the line and
\* to what was accepted.
LEMMA SenderLockKeeps ==
  ASSUME Control, NoLossNoDup, plan = "send", NEW s \in Senders, SenderLock(s), TypeOK'
  PROVE  NoLossNoDup'
  <1> DEFINE m == Len(accepted) + 1
  <1>1. /\ UNCHANGED <<plan, wire, tasks, taken, queue>>
        /\ accepted' = Append(accepted, m)
        /\ hand' = [hand EXCEPT ![s] = m]
        /\ lock = NoThread /\ lock' = s
        /\ pc' = [pc EXCEPT ![s] = "locked"]
    BY DEF SenderLock, endpointVars, ownerVars, delegateVars, Goto, Acquire
  <1>2. InHand = << >> /\ InHand' = One(m)
    BY <1>1, ThreadsAssumption DEF InHand, Control, TypeOK, Threads, One
  <1>3. TypeOK /\ m \in Nat
    BY SMTT(30) DEF Control, TypeOK
  <1> HIDE DEF m
  <1>4. Released' = Released
    BY <1>1 DEF Released
  <1>5. Keeps(Released, tasks, taken, queue, << >>, accepted)
    BY <1>2, <1>3, PartsTyped
  <1>6. /\ Len(accepted') = Len(accepted) + 1
        /\ \A x \in Nat : Holds(accepted', x) <=> Holds(accepted, x) \/ x = m
    BY <1>1, <1>3, PartsTyped, CountingEnds
  <1>7. /\ Len(<< >>) = 0 /\ Len(One(m)) = 1
        /\ \A x \in Nat : ~Holds(<< >>, x) /\ (Holds(One(m), x) <=> x = m)
    BY <1>3, Counting
  <1>8. /\ Len(Released) \in Nat /\ Len(tasks) \in Nat /\ Len(taken) \in Nat
        /\ Len(queue) \in Nat /\ Len(accepted) \in Nat
    BY <1>3, PartsTyped, Counting
  <1>9. Keeps(Released, tasks, taken, queue, One(m), accepted')
    BY <1>5, <1>6, <1>7, <1>8 DEF Keeps
  <1>10. Keeps(Released', tasks', taken', queue', InHand', accepted')
    BY <1>1, <1>2, <1>4, <1>9
  <1>11. (TypeOK => (NoLossNoDup <=> Keeps(Released, tasks, taken, queue, InHand, accepted)))'
    BY PartsTyped, PTL
  <1> QED
    BY <1>10, <1>11

\* The message in a sender's hand goes to the queue of an endpoint that is to be
\* moved, or follows it to its new node.
LEMMA HandKeeps ==
  ASSUME Control, NoLossNoDup, plan = "send", NEW s \in Senders,
         Enqueue(s) \/ Post(s) \/ Forward(s), TypeOK'
  PROVE  NoLossNoDup'
  <1> USE DEF endpointVars, ownerVars, delegateVars, Goto
  <1>1. /\ UNCHANGED <<plan, tasks, taken, accepted, lock>>
        /\ pc[s] \in {"queue", "forward"}
        /\ pc' = [pc EXCEPT ![s] = "unlock"]
    BY DEF Enqueue, Post, Forward, Control, SendPath
  <1>2. lock = s /\ hand[s] \in Nat /\ lock # Owner
    BY <1>1, ThreadsAssumption DEF Control, SendersLock, Messages
  <1>3. InHand = One(hand[s]) /\ InHand' = << >>
    BY <1>1, <1>2 DEF InHand, Control, TypeOK, Threads, One
  <1>4. TypeOK
    BY DEF Control
  <1>5. PICK h \in Nat : h = hand[s]
    BY <1>2
  <1>6. Keeps(Released, tasks, taken, queue, One(h), accepted)
    BY <1>3, <1>4, <1>5, PartsTyped
  <1>7. /\ Len(<< >>) = 0 /\ Len(One(h)) = 1
        /\ \A x \in Nat : ~Holds(<< >>, x) /\ (Holds(One(h), x) <=> x = h)
    BY Counting
  <1>8. /\ Len(Released) \in Nat /\ Len(tasks) \in Nat /\ Len(taken) \in Nat
        /\ Len(queue) \in Nat /\ Len(accepted) \in Nat
    BY <1>4, PartsTyped, Counting
  <1>9. Keeps(Released', tasks, taken, queue', << >>, accepted)
    <2>1. CASE Enqueue(s)
      <3>1. queue' = Append(queue, h) /\ UNCHANGED wire
        BY <1>5, <2>1 DEF Enqueue
      <3>2. Released' = Released
        BY <1>1, <3>1 DEF Released
      <3>3. /\ Len(queue') = Len(queue) + 1
            /\ \A x \in Nat : Holds(queue', x) <=> Holds(queue, x) \/ x = h
        BY <1>4, <3>1, PartsTyped, CountingEnds
      <3> QED
        BY <1>6, <1>7, <1>8, <3>2, <3>3 DEF Keeps
    <2>2. CASE Forward(s)
      <3>1. wire' = Append(wire, h) /\ UNCHANGED queue /\ pc[s] = "forward"
        BY <1>5, <2>2 DEF Forward
      <3>2. wire # << >>
        BY <1>2, <3>1 DEF Control, SendersLock, SendPath
      <3>3. Released' = Append(Released, h)
        BY <1>1, <1>4, <3>1, <3>2, WrittenIsReleased
      <3>4. /\ Len(Released') = Len(Released) + 1
            /\ \A x \in Nat : Holds(Released', x) <=> Holds(Released, x) \/ x = h
        BY <1>4, <3>3, PartsTyped, CountingEnds
      <3> QED
        BY <1>6, <1>7, <1>8, <3>1, <3>4 DEF Keeps
    <2>3. ~Post(s)
      BY <1>1 DEF Post
    <2> QED
      BY <2>1, <2>2, <2>3
  <1>10. Keeps(Released', tasks', taken', queue', InHand', accepted')
    BY <1>1, <1>3, <1>9
  <1>11. (TypeOK => (NoLossNoDup <=> Keeps(Released, tasks, taken, queue, InHand, accepted)))'
    BY PartsTyped, PTL
  <1> QED
    BY <1>10, <1>11

\* The owner takes the whole queue, and writes what it took one message at a
\* time.
LEMMA OwnerKeeps ==
  ASSUME Control, NoLossNoDup, plan = "send", Take \/ FlushOne, TypeOK'
  PROVE  NoLossNoDup'
  <1> USE DEF endpointVars, ownerVars, delegateVars, Goto
  <1>1. /\ UNCHANGED <<plan, tasks, accepted, lock, hand>>
        /\ \A t \in Senders : pc'[t] = pc[t]
    BY ThreadsAssumption DEF Take, FlushOne, Control, TypeOK, Threads
  <1>2. InHand' = InHand
    BY <1>1 DEF InHand
  <1>3. TypeOK
    BY DEF Control
  <1>4. Keeps(Released, tasks, taken, queue, InHand, accepted)
    BY <1>3, PartsTyped
  <1>5. /\ Len(Released) \in Nat /\ Len(tasks) \in Nat /\ Len(taken) \in Nat
        /\ Len(queue) \in Nat /\ Len(InHand) \in Nat /\ Len(accepted) \in Nat
    BY <1>3, PartsTyped, Counting
  <1>6. Keeps(Released', tasks, taken', queue', InHand, accepted)
    <2>1. CASE Take
      <3>1. taken' = queue /\ queue' = << >> /\ UNCHANGED wire /\ pc[Owner] = "take"
        BY <2>1 DEF Take
      <3>2. taken = << >>
        BY <3>1 DEF Control, SendPath
      <3>3. Released' = Released
        BY <1>1, <3>1 DEF Released
      <3> QED
        BY <1>4, <1>5, <3>1, <3>2, <3>3, Counting DEF Keeps
    <2>2. CASE FlushOne
      <3>1. /\ taken # << >> /\ wire' = Append(wire, Head(taken)) /\ taken' = Tail(taken)
            /\ UNCHANGED queue /\ pc[Owner] = "flush"
        BY <2>2 DEF FlushOne
      <3>2. wire # << >>
        BY <3>1 DEF Control, SendPath
      <3>3. PICK h \in Nat : h = Head(taken)
        BY <1>3, <3>1, PartsTyped, CountingEnds
      <3>4. Released' = Append(Released, h)
        BY <1>1, <1>3, <3>1, <3>2, <3>3, WrittenIsReleased
      <3>5. /\ Len(Released') = Len(Released) + 1
            /\ \A x \in Nat : Holds(Released', x) <=> Holds(Released, x) \/ x = h
        BY <1>3, <3>4, PartsTyped, CountingEnds
      <3>6. /\ Len(taken) = Len(taken') + 1 /\ taken' \in Lines
            /\ \A x \in Nat : Holds(taken, x) <=> x = h \/ Holds(taken', x)
        BY <1>3, <3>1, <3>3, PartsTyped, CountingEnds
      <3>7. Len(taken') \in Nat
        BY <3>6, Counting
      <3> QED
        BY <1>4, <1>5, <3>1, <3>5, <3>6, <3>7 DEF Keeps
    <2> QED
      BY <2>1, <2>2
  <1>7. Keeps(Released', tasks', taken', queue', InHand', accepted')
    BY <1>1, <1>2, <1>6
  <1>8. (TypeOK => (NoLossNoDup <=> Keeps(Released, tasks, taken, queue, InHand, accepted)))'
    BY PartsTyped, PTL
  <1> QED
    BY <1>7, <1>8

\* A moved endpoint never binds and has no task to run.
LEMMA NeverBinds ==
  ASSUME Control, plan = "send"
  PROVE  /\ ~SetBound /\ ~SetDelegate /\ ~SetRunner /\ ~DrainOne /\ ~Bound
         /\ ~RunTask /\ ~DestroyDelegate
  BY DEF Control, SendPath, SetBound, SetDelegate, SetRunner, DrainOne, Bound, RunTask,
         DestroyDelegate, Goto

\* A step of a moved endpoint loses and duplicates nothing.
LEMMA MovedKeeps ==
  ASSUME Control, NoLossNoDup, plan = "send", [Next]_vars
  PROVE  NoLossNoDup'
  <1>1. TypeOK'
    BY TypeStep
  <1> QED
    BY <1>1, QuietStepsKeep, SenderLockKeeps, HandKeeps, OwnerKeeps, NeverBinds
    DEF Next, Sender, OwnerStep

\* Messages that come out in the order they were accepted are all there, once.
LEMMA OrderKeepsAll ==
  ASSUME InOrder, plan # "send"
  PROVE  NoLossNoDup
  BY DEF InOrder, NoLossNoDup

\* No accepted message is ever lost or duplicated, whatever the owner does with
\* the endpoint: each is dispatched, dropped with its dead delegate, written to
\* the channel, or still in exactly one of the places on the way.
THEOREM NothingLost == Spec => []NoLossNoDup
  <1>1. Init => NoLossNoDup
    <2> SUFFICES ASSUME Init PROVE NoLossNoDup
      OBVIOUS
    <2>1. /\ wire = << >> /\ delivered = << >> /\ dropped = << >> /\ tasks = << >>
          /\ taken = << >> /\ queue = << >> /\ accepted = << >> /\ lock = NoThread
          /\ plan \in {"bind", "send", "invite"}
      BY PlansAssumption DEF Init
    <2>2. InHand = << >>
      BY <2>1, ThreadsAssumption DEF InHand
    <2>3. Cat(<< >>, << >>) = << >>
      BY Algebra
    <2>4. Released = << >>
      BY <2>1, <2>3 DEF Released, Cat
    <2>5. Released \o Pending = << >>
      BY <2>1, <2>2, <2>3, <2>4 DEF Pending, Cat
    <2> QED
      BY <2>1, <2>5 DEF NoLossNoDup
  <1>2. Control /\ InOrder /\ InOrder' /\ NoLossNoDup /\ [Next]_vars => NoLossNoDup'
    <2> SUFFICES ASSUME Control, InOrder', NoLossNoDup, [Next]_vars PROVE NoLossNoDup'
      OBVIOUS
    <2>1. CASE plan = "send"
      BY <2>1, MovedKeeps
    <2>2. CASE plan' # "send"
      <3>1. (InOrder /\ plan # "send" => NoLossNoDup)'
        BY OrderKeepsAll, PTL
      <3> QED
        BY <2>2, <3>1
    <2>3. plan' = plan
      BY DEF Next, vars, Sender, SenderLock, Observe, Enqueue, Post, Forward, SenderUnlock,
             OwnerLock, OwnerStep, SetBound, SetDelegate, SetRunner, DrainOne, Bound, Take,
             SetProxying, Introduce, UnlockDependent, FlushOne, Flushed, RunTask,
             DestroyDelegate, ownerVars
    <2> QED
      BY <2>1, <2>2, <2>3
  <1> QED
    BY <1>1, <1>2, ControlInvariant, NothingOvertakes, PTL DEF Spec
-----------------------------------------------------------------------------
(* The endpoint implements the pipe.                                        *)

\* What leaves the line is the oldest message not yet released.
LEMMA FrontIsNext ==
  ASSUME NEW r \in Lines, NEW x \in Nat, NEW b \in Lines, NEW a,
         a = Cat(r, Cat(One(x), b))
  PROVE  Len(r) < Len(a) /\ a[Len(r) + 1] = x
  <1> DEFINE y == <<x>>
  <1>1. y \in Seq(Nat) /\ Len(y) = 1 /\ y[1] = x
    OBVIOUS
  <1> HIDE DEF y
  <1>2. r \in Seq(Nat) /\ b \in Seq(Nat)
    BY DEF Lines
  <1>3. Len(r) \in Nat /\ Len(b) \in Nat
    BY <1>2
  <1>4. PICK p : p = y \o b
    OBVIOUS
  <1>5. /\ p \in Seq(Nat) /\ Len(p) = 1 + Len(b)
        /\ \A i \in 1..(1 + Len(b)) : p[i] = IF i <= 1 THEN y[i] ELSE b[i - 1]
    <2>1. /\ y \o b \in Seq(Nat) /\ Len(y \o b) = Len(y) + Len(b)
          /\ \A i \in 1..(Len(y) + Len(b)) :
                (y \o b)[i] = IF i <= Len(y) THEN y[i] ELSE b[i - Len(y)]
      BY <1>1, <1>2, ConcatProperties
    <2> QED
      BY <1>1, <1>4, <2>1
  <1>6. p[1] = x
    BY <1>1, <1>3, <1>5
  <1>7. a = r \o p
    BY <1>4 DEF Cat, One, y
  <1>8. /\ Len(a) = Len(r) + Len(p)
        /\ \A i \in 1..(Len(r) + Len(p)) : a[i] = IF i <= Len(r) THEN r[i] ELSE p[i - Len(r)]
    <2>1. /\ Len(r \o p) = Len(r) + Len(p)
          /\ \A i \in 1..(Len(r) + Len(p)) :
                (r \o p)[i] = IF i <= Len(r) THEN r[i] ELSE p[i - Len(r)]
      BY <1>2, <1>5, ConcatProperties
    <2> QED
      BY <1>7, <2>1
  <1>9. a[Len(r) + 1] = p[1]
    <2>1. Len(r) + 1 \in 1..(Len(r) + Len(p)) /\ ~(Len(r) + 1 <= Len(r))
      BY <1>3, <1>5
    <2>2. Len(r) + 1 - Len(r) = 1
      BY <1>3
    <2> QED
      BY <1>8, <2>1, <2>2
  <1> QED
    BY <1>3, <1>5, <1>6, <1>8, <1>9

\* A step that releases the front of what is pending is a Release of the pipe.
LEMMA ReleaseNext ==
  ASSUME TypeOK, InOrder, plan # "send", NEW x \in Nat, NEW b \in Lines,
         Cat(tasks, Cat(taken, Cat(queue, InHand))) = Cat(One(x), b),
         Released' = Cat(Released, One(x)), accepted' = accepted
  PROVE  AllReleased!Release
  <1>1. Released \in Lines
    BY LineTyped
  <1>2. accepted = Cat(Released, Cat(One(x), b))
    BY OrderIsLine DEF LineOf
  <1>3. Len(Released) < Len(accepted) /\ accepted[Len(Released) + 1] = x
    BY <1>1, <1>2, FrontIsNext
  <1>4. Released' = Append(Released, x)
    BY <1>1, Algebra
  <1> QED
    BY <1>3, <1>4 DEF AllReleased!Release

\* Forwarding to an accepted invitation's endpoint is a Release.
LEMMA ForwardReleases ==
  ASSUME Control, InOrder, plan # "send", NEW s \in Senders, Forward(s)
  PROVE  AllReleased!Release
  <1>1. /\ UNCHANGED <<plan, accepted>> /\ pc[s] = "forward"
        /\ wire' = Append(wire, hand[s])
    BY DEF Forward, ownerVars, Goto
  <1>2. lock = s /\ hand[s] \in Nat /\ lock # Owner
    BY <1>1, ThreadsAssumption DEF Control, SendersLock, Messages
  <1>3. plan = "invite" /\ tasks = << >> /\ taken = << >> /\ queue = << >>
    BY <1>1, <1>2, PlansAssumption DEF Control, TypeOK, SendersLock, BindPath, InvitePath
  <1>4. InHand = One(hand[s])
    BY <1>1, <1>2 DEF InHand, One
  <1>5. Released = wire /\ Released' = wire'
    BY <1>1, <1>3 DEF Released
  <1>6. TypeOK /\ One(hand[s]) \in Lines /\ << >> \in Lines
    BY <1>2, Algebra DEF Control
  <1>7. Cat(<< >>, Cat(<< >>, Cat(<< >>, One(hand[s])))) = Cat(One(hand[s]), << >>)
    BY <1>6, Algebra
  <1>8. Released' = Cat(Released, One(hand[s]))
    <2>1. wire \in Lines
      BY <1>6, LineTyped
    <2> QED
      BY <1>1, <1>2, <1>5, <2>1, Algebra
  <1> QED
    BY <1>1, <1>2, <1>3, <1>4, <1>6, <1>7, <1>8, ReleaseNext

\* Flushing what was queued for an invitee is a Release.
LEMMA FlushReleases ==
  ASSUME Control, InOrder, plan # "send", FlushOne
  PROVE  AllReleased!Release
  <1>1. /\ UNCHANGED <<plan, accepted>> /\ pc[Owner] = "flush" /\ taken # << >>
        /\ wire' = Append(wire, Head(taken))
    BY DEF FlushOne
  <1>2. plan = "invite" /\ tasks = << >> /\ queue = << >> /\ lock = Owner
    BY <1>1, PlansAssumption DEF Control, TypeOK, BindPath, InvitePath
  <1>3. InHand = << >>
    BY <1>2, ThreadsAssumption DEF InHand
  <1>4. Released = wire /\ Released' = wire'
    BY <1>1, <1>2 DEF Released
  <1>5. TypeOK
    BY DEF Control
  <1>6. taken \in Lines /\ wire \in Lines
    BY <1>5, LineTyped
  <1>7. PICK x \in Nat, u \in Lines :
          x = Head(taken) /\ u = Tail(taken) /\ taken = Cat(One(x), u)
    BY <1>1, <1>6, FrontAndRest
  <1>8. Cat(<< >>, Cat(taken, Cat(<< >>, << >>))) = taken
    BY <1>6, Algebra
  <1>9. Released' = Cat(Released, One(x))
    BY <1>1, <1>4, <1>6, <1>7, Algebra
  <1> QED
    BY <1>1, <1>2, <1>3, <1>5, <1>7, <1>8, <1>9, ReleaseNext

\* Dispatching to the receiver is a Release.
LEMMA TaskReleases ==
  ASSUME Control, InOrder, plan # "send", RunTask
  PROVE  AllReleased!Release
  <1>1. TypeOK /\ tasks # << >> /\ UNCHANGED <<plan, accepted>>
    BY DEF Control, RunTask, ownerVars
  <1>2. PICK x \in Nat, u \in Lines :
          x = Head(tasks) /\ u = Tail(tasks) /\ tasks = Cat(One(x), u)
    BY <1>1, LineTyped, FrontAndRest
  <1>3. InHand \in Lines
    BY <1>1, HandTyped
  <1>4. PICK b \in Lines : b = Cat(taken, Cat(queue, InHand))
    <2>1. taken \in Lines /\ queue \in Lines
      BY <1>1, LineTyped
    <2> QED
      BY <1>3, <2>1, Algebra
  <1>5. Cat(u, b) \in Lines /\ One(x) \in Lines
    BY <1>2, <1>4, Algebra
  <1>6. Cat(tasks, b) = Cat(One(x), Cat(u, b))
    BY <1>2, <1>4, <1>5, Algebra
  <1>7. Released' = Cat(Released, One(x))
    BY <1>2, RunTaskReleased
  <1> QED
    BY <1>1, <1>4, <1>5, <1>6, <1>7, ReleaseNext

\* Every other step but SenderLock is a stutter of the pipe.
LEMMA QuietStutters ==
  ASSUME Control, plan # "send",
         \/ \E s \in Senders :
               Observe(s) \/ Enqueue(s) \/ Post(s) \/ SenderUnlock(s)
         \/ OwnerLock \/ SetBound \/ SetDelegate \/ SetRunner \/ DrainOne \/ Bound
         \/ Take \/ SetProxying \/ Introduce \/ UnlockDependent \/ Flushed
         \/ DestroyDelegate \/ UNCHANGED vars
  PROVE  UNCHANGED <<accepted, Released>>
  <1>1. ~Introduce
    BY PlansAssumption DEF Introduce, Goto, Control, TypeOK, BindPath, InvitePath
  <1>2. UNCHANGED <<plan, accepted, delivered, dropped, wire>>
    BY <1>1 DEF Observe, Enqueue, Post, SenderUnlock, OwnerLock, SetBound, SetDelegate,
             SetRunner, DrainOne, Bound, Take, SetProxying, UnlockDependent,
             Flushed, DestroyDelegate, vars, ownerVars, delegateVars
  <1> QED
    BY <1>2 DEF Released

\* A step of the endpoint is a step of the pipe or a stutter.
LEMMA PipeStep ==
  ASSUME Control, InOrder, plan # "send", [Next]_vars
  PROVE  [AllReleased!Next]_<<accepted, Released>>
  <1>1. ASSUME NEW s \in Senders, SenderLock(s) PROVE AllReleased!Accept
    <2>1. /\ UNCHANGED <<plan, delivered, dropped, wire>>
          /\ Len(accepted) < MaxMessages
          /\ accepted' = Append(accepted, Len(accepted) + 1)
      BY <1>1 DEF SenderLock, ownerVars, delegateVars
    <2>2. Released' = Released
      BY <2>1 DEF Released
    <2>3. Len(accepted) + 1 \in 1..MaxMessages
      BY <2>1, BoundAssumption DEF Control, TypeOK
    <2> QED
      BY <2>1, <2>2, <2>3 DEF AllReleased!Accept
  <1>2. ASSUME NEW s \in Senders, Forward(s) PROVE AllReleased!Release
    BY <1>2, ForwardReleases
  <1>3. CASE FlushOne
    BY <1>3, FlushReleases DEF AllReleased!Next
  <1>4. CASE RunTask
    BY <1>4, TaskReleases DEF AllReleased!Next
  <1> QED
    BY <1>1, <1>2, <1>3, <1>4, QuietStutters DEF Next, Sender, OwnerStep, AllReleased!Next

\* Under every plan: what a moved endpoint writes is not promised, and the other
\* two promise all they release.
LEMMA PromiseStep ==
  ASSUME Control, InOrder, [Next]_vars
  PROVE  [PipeOf!Next]_<<accepted, Promised>>
  <1>1. plan' = plan
    BY DEF Next, vars, Sender, OwnerStep, SenderLock, Observe, Enqueue, Post, Forward,
           SenderUnlock, OwnerLock, SetBound, SetDelegate, SetRunner, DrainOne, Bound, Take,
           SetProxying, Introduce, UnlockDependent, FlushOne, Flushed, RunTask,
           DestroyDelegate, ownerVars
  <1>2. CASE plan # "send"
    <2>1. Promised = Released /\ Promised' = Released'
      BY <1>1, <1>2 DEF Promised
    <2>2. [AllReleased!Next]_<<accepted, Released>>
      BY <1>2, PipeStep
    <2> QED
      BY <2>1, <2>2 DEF PipeOf!Next, PipeOf!Accept, PipeOf!Release,
                        AllReleased!Next, AllReleased!Accept, AllReleased!Release
  <1>3. CASE plan = "send"
    <2>1. Promised = << >> /\ Promised' = << >>
      BY <1>1, <1>3 DEF Promised
    <2>2. ASSUME NEW s \in Senders, SenderLock(s) PROVE PipeOf!Accept
      <3>1. Len(accepted) + 1 \in 1..MaxMessages
        BY <2>2, BoundAssumption DEF Control, TypeOK, SenderLock
      <3> QED
        BY <2>1, <2>2, <3>1 DEF SenderLock, PipeOf!Accept
    <2>3. UNCHANGED accepted \/ \E s \in Senders : SenderLock(s)
      BY DEF Next, vars, Sender, OwnerStep, Observe, Enqueue, Post, Forward,
             SenderUnlock, OwnerLock, SetBound, SetDelegate, SetRunner, DrainOne, Bound, Take,
             SetProxying, Introduce, UnlockDependent, FlushOne, Flushed, RunTask,
             DestroyDelegate
    <2> QED
      BY <2>1, <2>2, <2>3 DEF PipeOf!Next
  <1> QED
    BY <1>2, <1>3

\* An endpoint that is bound to a receiver, or kept for the invitee of an
\* invitation, keeps the promise of a pipe: whatever is accepted comes out, once,
\* in the order in which it was accepted.
THEOREM EndpointImplementsPipe == Spec => ImplementsPipe
  <1>1. Init => PipeOf!Init
    <2> SUFFICES ASSUME Init PROVE PipeOf!Init
      OBVIOUS
    <2>1. /\ accepted = << >> /\ wire = << >> /\ delivered = << >> /\ dropped = << >>
          /\ plan \in {"bind", "send", "invite"}
      BY PlansAssumption DEF Init
    <2>2. Cat(<< >>, << >>) = << >>
      BY Algebra
    <2> QED
      BY <2>1, <2>2 DEF PipeOf!Init, Promised, Released, Cat
  <1>2. Control /\ InOrder /\ [Next]_vars => [PipeOf!Next]_<<accepted, Promised>>
    BY PromiseStep
  <1> QED
    BY <1>1, <1>2, ControlInvariant, NothingOvertakes, PTL DEF Spec, ImplementsPipe, PipeOf!Spec
=============================================================================
