------------------------------ MODULE MCChannel ------------------------------
(***************************************************************************)
(* A small instance of `Channel` for TLC.                                   *)
(***************************************************************************)
EXTENDS Channel

CONSTANTS main, worker

\* Two threads of the inviter's application compete for its lock.
SomeThreads == [p \in Processes |-> IF p = Inviter THEN {main, worker} ELSE {main}]

\* The invitation and two messages one way, the acceptance and one the other.
SomeMessages == [p \in Processes |-> IF p = Inviter THEN 3 ELSE 2]

Setup(blocking, leaked, queued, relays) ==
    [blocking |-> blocking, leaked |-> leaked, queued |-> queued, relays |-> relays]

\* Blocking sockets with every choice of who relays, those on which the inviter
\* flushes to an invitee that relays or does not, and the sockets of the demo.
SomeSetups == {Setup(TRUE, FALSE, FALSE, r) : r \in SUBSET Processes}
              \cup {Setup(TRUE, FALSE, TRUE, r) : r \in SUBSET {Invitee}}
              \cup {Setup(FALSE, FALSE, TRUE, {Inviter}), Setup(FALSE, TRUE, FALSE, {})}
=============================================================================
