------------------------------- MODULE Channel -------------------------------
(***************************************************************************)
(* Two processes and the socket between their `Channel`s, at the grain of   *)
(* the system calls of channel.cc.  A message is written on whichever       *)
(* thread sends it, under `Node::node_channel_map_lock_`, and read by the   *)
(* IO thread of the other process, the header first.  The socket is         *)
(* external: a stream of bytes with a bounded buffer, which takes a write   *)
(* in chunks, each of them whole.  `Node` uses what this module shows: a    *)
(* wire that carries whole messages in the order they were written.         *)
(***************************************************************************)
EXTENDS Naturals, Sequences, SequencesExt

CONSTANTS Inviter, Invitee,   \* the two processes
          Threads,            \* the application threads of each process
          IO,                 \* the IO thread of each
          NoThread,           \* the holder of a free lock
          HeaderSize,         \* sizeof(MessageHeader), in units of bytes
          ControlSize,        \* size of the two messages of an invitation
          Sizes,              \* sizes of user messages
          Chunk,              \* what the kernel takes of a write at once
          Capacity,           \* bytes a socket holds before it is full
          Setups,             \* how sockets are set up and what is forwarded
          MaxMessages,        \* bound: messages each process writes
          Mortal              \* processes that may be killed

ASSUME SizesAssumption ==
    /\ HeaderSize \in Nat \ {0} /\ ControlSize \in Nat /\ Chunk \in Nat /\ Capacity \in Nat \ {0}
    /\ HeaderSize < ControlSize /\ ControlSize <= Chunk
    /\ \A s \in Sizes : s \in Nat /\ HeaderSize < s

Processes == {Inviter, Invitee}
Other(p) == CHOOSE q \in Processes : q # p
AllThreads(p) == Threads[p] \cup {IO}

ASSUME ProcessesAssumption ==
    /\ Inviter # Invitee
    /\ \A p \in Processes : /\ IO \notin Threads[p] /\ NoThread \notin AllThreads(p)
                           /\ MaxMessages[p] \in Nat \ {0}

VARIABLES
    setup,     \* how the embedder set up the sockets and what is forwarded
    started,   \* Channel::Start() was called: the IO thread watches the socket
    joined,    \* processes that may send user messages to the other
    lock,      \* Node::node_channel_map_lock_ of each process
    pc,        \* where each thread is
    message,   \* the number of the message each thread is writing
    written,   \* how much of it is written
    socket,    \* socket[p]: bytes written by p and not read yet
    buffer,    \* full_message_buffer of p: what it has read of a message
    alive,     \* processes that have neither aborted nor been killed
    killed,    \* processes that were killed
    sent,      \* history: the sizes of p's messages, in the order p began them
    received   \* history: the messages p has handed to its delegate

vars == <<setup, started, joined, lock, pc, message, written, socket, buffer,
          alive, killed, sent, received>>
writerVars == <<lock, message, written, socket, sent>>
readerVars == <<buffer, received>>
processVars == <<setup, started, joined, alive, killed>>

\* The embedder makes the sockets blocking or not (mage_test.cc:146, 165), and
\* may leave each process a copy of the other's end (demo/parent.cc:18-28), so
\* that nobody notices when the other process is gone.  `queued` tells whether
\* the inviter's application sends something before the invitation is accepted,
\* and `relays` are the processes with a proxy for an endpoint of the other.
AllSetups == [blocking : BOOLEAN, leaked : BOOLEAN, queued : BOOLEAN,
              relays : SUBSET Processes]

\* The IO thread of p has something to write to this channel for the i-th
\* message it reads from it: what waited for the acceptance, which is the
\* inviter's first, or a message for an endpoint that is a proxy by now.
Forwards(p, i) == IF i = 1 THEN p = Inviter /\ setup.queued ELSE p \in setup.relays

ASSUME SetupsAssumption == Setups \subseteq AllSetups

Init ==
    /\ setup \in Setups
    /\ started = {} /\ joined = {}
    /\ lock = [p \in Processes |-> NoThread]
    /\ pc = [p \in Processes |-> [t \in AllThreads(p) |-> "idle"]]
    /\ message = [p \in Processes |-> [t \in AllThreads(p) |-> 0]]
    /\ written = [p \in Processes |-> [t \in AllThreads(p) |-> 0]]
    /\ socket = [p \in Processes |-> << >>]
    /\ buffer = [p \in Processes |-> << >>]
    /\ alive = Processes /\ killed = {}
    /\ sent = [p \in Processes |-> << >>]
    /\ received = [p \in Processes |-> << >>]

Goto(p, t, from, to) ==
    /\ p \in alive
    /\ pc[p][t] = from
    /\ pc' = [pc EXCEPT ![p][t] = to]

\* A failed CHECK, or the signal of a write to a closed socket.
Abort(p) == alive' = alive \ {p} /\ UNCHANGED <<setup, started, joined, killed>>

\* The other end of p's socket is closed.
Closed(p) == Other(p) \notin alive /\ ~setup.leaked

\* The i-th byte of message m; the first ones are the header and tell its size.
Byte(m, i) == <<m, i>>
Bytes(m, from, to) == [i \in 1..(to - from + 1) |-> Byte(m, from + i - 1)]
-----------------------------------------------------------------------------
(* Writing.                                                                 *)

\* Thread t of p begins to write a message of the given size.
Begin(p, t, size) ==
    /\ message' = [message EXCEPT ![p][t] = Len(sent[p]) + 1]
    /\ written' = [written EXCEPT ![p][t] = 0]
    /\ sent' = [sent EXCEPT ![p] = Append(@, size)]

\* Node::SendInvitationAndGetMessagePipe starts the channel and writes the
\* invitation, without the lock: no other thread knows the channel yet.
SendInvitation(t) ==
    /\ Inviter \notin started
    /\ Goto(Inviter, t, "idle", "write")
    /\ started' = started \cup {Inviter}
    /\ Begin(Inviter, t, ControlSize)
    /\ UNCHANGED <<setup, joined, lock, socket, readerVars, alive, killed>>

\* Node::AcceptInvitation starts the invitee's channel.
AcceptInvitation ==
    /\ Invitee \in alive \ started
    /\ started' = started \cup {Invitee}
    /\ UNCHANGED <<setup, joined, pc, writerVars, readerVars, alive, killed>>

\* A relay that waits for the lock has its message counted already.
Waiting(p) == IF pc[p][IO] = "relay" THEN 1 ELSE 0

\* Mutant: the lock is not taken around Channel::SendMessage.
SendMessage_NoLock(p, t) ==
    /\ \/ /\ t # IO /\ Goto(p, t, "idle", "write")
          /\ p \in joined
          /\ Len(sent[p]) + Waiting(p) < MaxMessages[p]
       \/ t = IO /\ Goto(p, t, "relay", "write")
    /\ \E size \in Sizes : Begin(p, t, size)
    /\ UNCHANGED <<processVars, lock, socket, readerVars>>

\* A flush or a forward takes the lock and calls Channel::SendMessage.
SendMessage(p, t) ==
    /\ \/ /\ t # IO /\ Goto(p, t, "idle", "write")
          /\ p \in joined
          /\ Len(sent[p]) + Waiting(p) < MaxMessages[p]
       \/ t = IO /\ Goto(p, t, "relay", "write")
    /\ lock[p] = NoThread
    /\ lock' = [lock EXCEPT ![p] = t]
    /\ \E size \in Sizes : Begin(p, t, size)
    /\ UNCHANGED <<processVars, socket, readerVars>>

SizeOf(p, t) == sent[p][message[p][t]]
Writing(p, t) == p \in alive /\ pc[p][t] = "write" /\ written[p][t] < SizeOf(p, t)
HasRoom(p) == Len(socket[p]) < Capacity

\* Mutant: the size of the buffer written is rounded up.
NextChunk_Rounded(p, t) == written[p][t] + Chunk

NextChunk(p, t) == Min({SizeOf(p, t), written[p][t] + Chunk})

\* The kernel takes a chunk of the write.
WriteChunk(p, t) ==
    /\ Writing(p, t)
    /\ HasRoom(p) /\ ~Closed(p)
    /\ socket' = [socket EXCEPT ![p] =
                     @ \o Bytes(message[p][t], written[p][t] + 1, NextChunk(p, t))]
    /\ written' = [written EXCEPT ![p][t] = NextChunk(p, t)]
    /\ UNCHANGED <<processVars, pc, lock, message, sent, readerVars>>

\* The write fails or is short: the other end is closed, or the socket is
\* full and does not block.  CHECK_EQ(rv, message.Size()) fails.
WriteFails(p, t) ==
    /\ Writing(p, t)
    /\ Closed(p) \/ (~HasRoom(p) /\ ~setup.blocking)
    /\ Abort(p)
    /\ UNCHANGED <<pc, writerVars, readerVars>>

\* Mutant: the lock is kept.
Wrote_StillLocked(p, t) ==
    /\ Goto(p, t, "write", "idle")
    /\ written[p][t] = SizeOf(p, t)
    /\ joined' = joined \cup {p}
    /\ written' = [written EXCEPT ![p][t] = 0]
    /\ message' = [message EXCEPT ![p][t] = 0]
    /\ UNCHANGED <<setup, started, alive, killed, lock, socket, sent, readerVars>>

\* The write is complete and the lock, if it was taken, is freed.  A flush on
\* the IO thread may have more messages to write, each under the lock.  Once
\* the invitee has written its acceptance its application gets a handle; once
\* the inviter has flushed a message, what it carried leads to the invitee.
Wrote(p, t) ==
    /\ \/ Goto(p, t, "write", "idle")
       \/ /\ t = IO /\ Forwards(p, Len(received[p]))
          /\ Len(sent[p]) < MaxMessages[p]
          /\ Goto(p, t, "write", "relay")
    /\ written[p][t] = SizeOf(p, t)
    /\ lock' = IF lock[p] = t THEN [lock EXCEPT ![p] = NoThread] ELSE lock
    /\ joined' = IF t = IO THEN joined \cup {p} ELSE joined
    /\ written' = [written EXCEPT ![p][t] = 0]
    /\ message' = [message EXCEPT ![p][t] = 0]
    /\ UNCHANGED <<setup, started, alive, killed, socket, sent, readerVars>>
-----------------------------------------------------------------------------
(* Reading: Channel::OnCanReadFromSocket, on the IO thread.                 *)

\* What is in the socket from the other process.
Incoming(p) == socket[Other(p)]

\* recvmsg returns up to n bytes, as many as there are.
Taken(p, n) == SubSeq(Incoming(p), 1, Min({n, Len(Incoming(p))}))
Left(p, n) == SubSeq(Incoming(p), 1 + Min({n, Len(Incoming(p))}), Len(Incoming(p)))

\* Mutant: a socket that is readable because it is closed is left alone.
ReadPartOfHeader_Ignored(p) == FALSE /\ UNCHANGED vars

\* The socket is readable, if only because the other end is closed, and recvmsg
\* returns less than a header: CHECK_EQ(rv, header_size) fails.
ReadPartOfHeader(p) ==
    /\ p \in started
    /\ Goto(p, IO, "idle", "idle")
    /\ Incoming(p) # << >> \/ Closed(p)
    /\ Len(Incoming(p)) < HeaderSize
    /\ Abort(p)
    /\ UNCHANGED <<writerVars, readerVars>>

ReadHeader(p) ==
    /\ p \in started
    /\ Goto(p, IO, "idle", "body")
    /\ Len(Incoming(p)) >= HeaderSize
    /\ buffer' = [buffer EXCEPT ![p] = Taken(p, HeaderSize)]
    /\ socket' = [socket EXCEPT ![Other(p)] = Left(p, HeaderSize)]
    /\ UNCHANGED <<processVars, lock, message, written, sent, received>>

\* header->size of the message whose header is in the buffer.
AnnouncedSize(p) == sent[Other(p)][buffer[p][1][1]]

\* Mutant: the header is counted twice.
BodySize_Whole(p) == AnnouncedSize(p)

BodySize(p) == AnnouncedSize(p) - HeaderSize

\* Mutant: what recvmsg returns for the body is not checked.
BodyIsShort_Unchecked(p) == FALSE

BodyIsShort(p) == Len(Incoming(p)) < BodySize(p)

\* CHECK_EQ(rv, body_size) fails.
ReadPartOfBody(p) ==
    /\ Goto(p, IO, "body", "body")
    /\ BodyIsShort(p)
    /\ Abort(p)
    /\ UNCHANGED <<writerVars, readerVars>>

\* The message the bytes spell: its number if they are all of it, and only it.
Decoded(p, bytes) ==
    LET m == bytes[1][1]
    IN IF bytes = Bytes(m, 1, sent[Other(p)][m]) THEN m ELSE 0

\* The rest of the message is read and handed to Node::OnReceivedMessage.  The
\* invitation makes the invitee's IO thread write the acceptance.  On the
\* acceptance the inviter's IO thread writes what waited for it, and only then
\* unlocks the endpoint the application sends by; any other message may have to
\* be forwarded.  What is written waits for the lock first.
ReadBody(p) ==
    /\ ~BodyIsShort(p)
    /\ LET bytes == buffer[p] \o Taken(p, BodySize(p))
           i == Len(received[p]) + 1
       IN /\ \/ /\ p = Invitee /\ i = 1
                /\ Goto(p, IO, "body", "write")
                /\ Begin(p, IO, ControlSize)
                /\ UNCHANGED joined
             \/ /\ p = Inviter \/ i > 1
                /\ Goto(p, IO, "body", "idle")
                /\ joined' = IF p = Inviter THEN joined \cup {p} ELSE joined
                /\ UNCHANGED <<message, written, sent>>
             \/ /\ Forwards(p, i) /\ Len(sent[p]) < MaxMessages[p]
                /\ Goto(p, IO, "body", "relay")
                /\ UNCHANGED <<message, written, sent, joined>>
          /\ socket' = [socket EXCEPT ![Other(p)] = Left(p, BodySize(p))]
          /\ buffer' = [buffer EXCEPT ![p] = << >>]
          /\ received' = [received EXCEPT ![p] = Append(@, Decoded(p, bytes))]
    /\ UNCHANGED <<setup, started, alive, killed, lock>>
-----------------------------------------------------------------------------
Kill(p) ==
    /\ p \in Mortal \cap alive
    /\ alive' = alive \ {p} /\ killed' = killed \cup {p}
    /\ UNCHANGED <<setup, started, joined, pc, writerVars, readerVars>>

Writer(p, t) == WriteChunk(p, t) \/ WriteFails(p, t) \/ Wrote(p, t)

Reader(p) == \/ ReadPartOfHeader(p) \/ ReadHeader(p)
             \/ pc[p][IO] = "body" /\ (ReadPartOfBody(p) \/ ReadBody(p))

Next ==
    \/ \E t \in Threads[Inviter] : SendInvitation(t)
    \/ AcceptInvitation
    \/ \E p \in Processes :
          \/ \E t \in AllThreads(p) : SendMessage(p, t) \/ Writer(p, t)
          \/ Reader(p)
          \/ Kill(p)

(* A write that can go on does, the IO loop reads what is readable, and a   *)
(* relay gets the lock when it is free often enough; the application sends, *)
(* starts and dies as it likes.                                             *)
Fairness ==
    \A p \in Processes :
        /\ WF_vars(\E t \in AllThreads(p) : Writer(p, t))
        /\ WF_vars(Reader(p))
        /\ SF_vars(SendMessage(p, IO))

Spec == Init /\ [][Next]_vars
FairSpec == Spec /\ Fairness
-----------------------------------------------------------------------------
\* Every variable stays within its type; a thread writes no more of a message
\* than there is.
TypeOK ==
    /\ setup \in AllSetups
    /\ {started, joined, alive, killed} \subseteq SUBSET Processes
    /\ lock \in [Processes -> (UNION {AllThreads(p) : p \in Processes}) \cup {NoThread}]
    /\ \A p \in Processes :
          /\ pc[p] \in [AllThreads(p) -> {"idle", "relay", "write", "body"}]
          /\ \A t \in AllThreads(p) :
                pc[p][t] = "write" =>
                    message[p][t] \in DOMAIN sent[p] /\ written[p][t] \in 0..SizeOf(p, t)
          /\ ToSet(sent[p]) \subseteq Sizes \cup {ControlSize}
          /\ Len(sent[p]) <= MaxMessages[p]
          /\ Len(buffer[p]) \in {0, HeaderSize}

\* The stream p has written, as far as it is written in full by now.
Stream(p) == FlattenSeq([m \in DOMAIN sent[p] |-> Bytes(m, 1, sent[p][m])])
Read(p) == FlattenSeq([i \in DOMAIN received[p] |->
                          Bytes(received[p][i], 1, sent[Other(p)][received[p][i]])])

\* What is in a socket, after what was read from it, is one message after the
\* other, in the order in which threads got the lock, however many chunks each
\* takes: the lock, not the socket, keeps messages apart (channel.cc:126 says
\* that the write is thread-safe).  Only the last may be incomplete.
StreamIsWhole ==
    \A p \in Processes :
        LET q == Other(p)
        IN IsPrefix((Read(q) \o buffer[q]) \o socket[p], Stream(p))

\* A process aborts only for a cause: another was killed, a message was larger
\* than the kernel takes at once, or the sockets do not block and what was
\* written is more than they hold (channel.cc:128, 148, 174).
AbortsForCause ==
    Processes \ alive # {} =>
        \/ killed # {}
        \/ \E p \in Processes : \E i \in DOMAIN sent[p] : sent[p][i] > Chunk
        \/ /\ ~setup.blocking
           /\ \E p \in Processes : Len(Stream(p)) > Capacity

\* Each direction of the channel implements a FIFO of whole messages, however
\* writes are cut and whoever dies: what is handed to the delegate is never
\* torn, lost in the middle, or out of order.
Numbers(s) == [i \in DOMAIN s |-> i]
ToInvitee == INSTANCE Pipe WITH Message <- 1..MaxMessages[Inviter],
    accepted <- Numbers(sent[Inviter]), released <- received[Invitee]
ToInviter == INSTANCE Pipe WITH Message <- 1..MaxMessages[Invitee],
    accepted <- Numbers(sent[Invitee]), released <- received[Inviter]
ImplementsPipes == ToInvitee!Spec /\ ToInviter!Spec

\* The IO thread of p may write to this channel, the acceptance apart.
Writes(p) == \E i \in {1, 2} : Forwards(p, i)

\* A message that is begun is received while both processes live, unless the IO
\* threads of both write: one whose IO thread does not drains its socket.  (Two
\* of them that relay to each other over full blocking sockets, or flush, or
\* wait for the lock of a thread that writes, wait forever.)
Delivered ==
    \A p \in Processes : \A m \in 1..MaxMessages[p] :
        (Len(sent[p]) >= m) ~>
            \/ Len(received[Other(p)]) >= m
            \/ alive # Processes
            \/ Other(p) \notin started
            \/ \A q \in Processes : Writes(q)

\* The death of one process ends the other that has a channel to it, if the
\* embedder left nobody a copy of its end: nothing in the code survives the end
\* of a socket (channel.cc:128, 148).
DeathSpreads ==
    \A p \in Processes :
        (Closed(p) /\ p \in started) ~> p \notin alive
=============================================================================
