------------------------------ MODULE Message ------------------------------
(***************************************************************************)
(* A method call as a message: the generated proxy writes the arguments     *)
(* into a buffer, nodes and channels carry the buffer, and the generated    *)
(* stub reads the arguments back.  The buffer is a sequence of cells, one   *)
(* for what the code writes at once: a number, a word of the payload, an    *)
(* endpoint descriptor.  Variable-sized arguments are behind pointers, and  *)
(* a pointer is the distance from the cell it is in.  Handles do not come   *)
(* out of the buffer: each node on the way recovers them from descriptors   *)
(* and queues them on the message, apart from the buffer.                   *)
(***************************************************************************)
EXTENDS Integers, SequencesExt

CONSTANTS Words,         \* payload values
          Pipes,         \* handles the caller holds
          MaxArguments,  \* bound: arguments of a method
          MaxLength,     \* bound: elements of an array argument
          MaxHops        \* bound: processes away

ASSUME BoundsAssumption == {MaxArguments, MaxLength, MaxHops} \subseteq Nat

VARIABLES
    place,      \* how far the call is
    arguments,  \* what the proxy was called with
    route,      \* how many processes away the receiver is
    next,       \* the argument that is written or read next
    buffer,     \* Message::payload_buffer_
    params,     \* where the parameters start (MessageFragment::starting_index_)
    endpoints,  \* endpoints_to_write of the proxy
    pipes,      \* Message::pipes_: the endpoints of the recovered handles
    hops,       \* how many processes the message has been sent to
    registered, \* endpoints of the process the message is in
    read        \* what the stub has read

vars == <<place, arguments, route, next, buffer, params, endpoints, pipes, hops, registered, read>>
-----------------------------------------------------------------------------
(* Arguments and cells.                                                     *)

Arrays == UNION {[1..n -> Words] : n \in 0..MaxLength}
Arguments == ({"value"} \X Words) \cup ({"array"} \X Arrays) \cup ({"handle"} \X Pipes)

Kind(a) == a[1]
HandlesAt(args) == {i \in DOMAIN args : Kind(args[i]) = "handle"}

\* A handle can be sent once: from then on its endpoint is elsewhere.
SendsOnce(args) == \A i, j \in HandlesAt(args) : args[i] = args[j] => i = j
Calls == {args \in UNION {[1..n -> Arguments] : n \in 0..MaxArguments} : SendsOnce(args)}

\* A method is known by the kinds of its arguments; user_message_id names it.
MethodOf(args) == [i \in DOMAIN args |-> Kind(args[i])]

Number(n) == <<"number", n>>
Word(w) == <<"word", w>>
Method(m) == <<"method", m>>
Zero == Number(0)

\* The k-th name of the endpoint of pipe p, one for each process it comes to.
Name(p, k) == <<p, k>>
Descriptor(name, cross) == <<"descriptor", [name |-> name, cross |-> cross]>>

(* MessageHeader: its size, the id, and the pointer to the descriptors.     *)
SizeCell == 1
IdCell == 2
EndpointsCell == 3
HeaderLength == 3

(* Buffers.                                                                 *)

Resize(b, n) == b \o [i \in 1..n |-> Zero]

\* Mutant: the offset is taken from the start of the buffer.
EncodePointer_Absolute(at, to) == Number(to)

EncodePointer(at, to) == Number(to - at)

DecodePointer(b, at) == at + b[at][2]

AllocateArray(b, cells) == b \o <<Number(Len(cells))>> \o cells
ArrayAt(b, start) == SubSeq(b, start + 1, start + b[start][2])

\* Where the array ends up that is allocated next.
EndOf(b) == Len(b) + 1

ParameterCell(i) == params + i
GetEndpointDescriptors(b) ==
    IF b[EndpointsCell] = Zero THEN << >> ELSE ArrayAt(b, DecodePointer(b, EndpointsCell))
-----------------------------------------------------------------------------
Init ==
    /\ place = "caller"
    /\ arguments \in Calls
    /\ route \in 0..MaxHops
    /\ next = 1 /\ params = 0 /\ hops = 0
    /\ buffer = << >> /\ endpoints = << >> /\ pipes = << >> /\ read = << >>
    /\ registered = {Name(p, 0) : p \in Pipes}

(* The proxy: classes.tmpl:89-161.                                          *)

\* The message with its header, and the block of the parameters, whose first
\* cell is `bytes`.
Allocate ==
    /\ place = "caller"
    /\ place' = "proxy"
    /\ params' = EndOf(Resize(<< >>, HeaderLength))
    /\ buffer' = Resize(<< >>, HeaderLength + 1 + Len(arguments))
    /\ UNCHANGED <<arguments, route, next, endpoints, pipes, hops, registered, read>>

WriteValue(w) ==
    /\ buffer' = [buffer EXCEPT ![ParameterCell(next)] = Word(w)]
    /\ UNCHANGED endpoints

\* The array goes to the end of the buffer; the parameter points to it.
WriteArray(array) ==
    /\ buffer' = [AllocateArray(buffer, [i \in DOMAIN array |-> Word(array[i])])
                     EXCEPT ![ParameterCell(next)] =
                         EncodePointer(ParameterCell(next), EndOf(buffer))]
    /\ UNCHANGED endpoints

\* PopulateEndpointDescriptor, with a new name in case it leaves the process.
WriteHandle(p) ==
    LET d == Descriptor(Name(p, 0), Name(p, 1))
    IN  /\ buffer' = [buffer EXCEPT ![ParameterCell(next)] = d]
        /\ endpoints' = Append(endpoints, d)

WriteArgument ==
    /\ place = "proxy" /\ next <= Len(arguments)
    /\ LET a == arguments[next]
       IN  \/ Kind(a) = "value" /\ WriteValue(a[2])
           \/ Kind(a) = "array" /\ WriteArray(a[2])
           \/ Kind(a) = "handle" /\ WriteHandle(a[2])
    /\ next' = next + 1
    /\ UNCHANGED <<place, arguments, route, params, pipes, hops, registered, read>>

\* The id, and the descriptors at the end of the message, none of them too.
WriteEndpoints ==
    /\ place = "proxy" /\ next = Len(arguments) + 1
    /\ Len(endpoints) = Cardinality(HandlesAt(arguments))
    /\ buffer' = [AllocateArray(buffer, endpoints)
                     EXCEPT ![IdCell] = Method(MethodOf(arguments)),
                            ![EndpointsCell] = EncodePointer(EndpointsCell, EndOf(buffer))]
    /\ place' = "written"
    /\ UNCHANGED <<arguments, route, next, params, endpoints, pipes, hops, registered, read>>

\* Mutant: the arrays are left out of the size.
FinalizeSize_Fixed ==
    /\ place = "written"
    /\ buffer' = [buffer EXCEPT ![SizeCell] = Number(HeaderLength + 1 + Len(arguments))]
    /\ place' = "sent"
    /\ UNCHANGED <<arguments, route, next, params, endpoints, pipes, hops, registered, read>>

FinalizeSize ==
    /\ place = "written"
    /\ buffer' = [buffer EXCEPT ![SizeCell] = Number(Len(buffer))]
    /\ place' = "sent"
    /\ UNCHANGED <<arguments, route, next, params, endpoints, pipes, hops, registered, read>>
-----------------------------------------------------------------------------
(* The way: node.cc:181-280, 461-680, endpoint.cc:34-60, channel.cc:120-188. *)

Descriptors == GetEndpointDescriptors(buffer)

\* Are the endpoints that the descriptors name here?  They are where the
\* descriptors were populated, or crawled on.
NamesKnown == \A i \in DOMAIN Descriptors : Descriptors[i][2].name \in registered

\* To a peer in the same process, for good or until it turns out to have moved:
\* the endpoints of the descriptors are there.
DeliverLocally ==
    /\ place = "sent" /\ hops = 0
    /\ NamesKnown
    /\ pipes' = [i \in DOMAIN Descriptors |-> Descriptors[i][2].name]
    /\ place' = "queued"
    /\ UNCHANGED <<arguments, route, next, buffer, params, endpoints, hops, registered, read>>

\* SendMessagesAndRecursiveDependents writes what the application sends to
\* another process, and what was queued on an endpoint that moves on, in the
\* caller's process or in one the message has come to.
Flushes == place = "queued" \/ (place = "sent" /\ hops = 0)

\* It looks up the endpoint of each descriptor as it was when the message was
\* sent: what has come from another process still has its names (node.cc:502).
FlushFails ==
    /\ hops < route
    /\ Flushes /\ ~NamesKnown
    /\ place' = "aborted"
    /\ UNCHANGED <<arguments, route, next, buffer, params, endpoints, pipes, hops,
                   registered, read>>

\* To another process, by a flush or by a proxy: the buffer goes through the
\* channel, as many cells of it as the header says, and what was queued on the
\* message stays behind.  The node registers endpoints for the descriptors and
\* queues their handles.
Transmit ==
    /\ hops < route
    /\ place \in {"sent", "queued"}
    /\ Flushes => NamesKnown
    /\ buffer[SizeCell] = Number(Len(buffer))
    /\ pipes' = [i \in DOMAIN Descriptors |-> Descriptors[i][2].cross]
    /\ registered' = ToSet(pipes')
    /\ hops' = hops + 1
    /\ place' = "received"
    /\ UNCHANGED <<arguments, route, next, buffer, params, endpoints, read>>

\* The target has a receiver, or waits for one and may yet be moved on.
Deliver ==
    /\ place = "received"
    /\ place' = "queued"
    /\ UNCHANGED <<arguments, route, next, buffer, params, endpoints, pipes, hops,
                   registered, read>>

\* PrepareToForwardUserMessage: each descriptor crawls one name further.
Inchworm(d) == Descriptor(d[2].cross, Name(d[2].cross[1], d[2].cross[2] + 1))

\* The target is a proxy: its endpoints are registered here, and go on.
Forward ==
    /\ place = "received" /\ hops < route
    /\ \A i \in DOMAIN Descriptors : Descriptors[i][2].cross \in registered
    /\ LET first == DecodePointer(buffer, EndpointsCell)
       IN  buffer' = [k \in DOMAIN buffer |->
                         IF k \in (first + 1)..(first + Len(Descriptors))
                         THEN Inchworm(buffer[k]) ELSE buffer[k]]
    /\ place' = "sent"
    /\ UNCHANGED <<arguments, route, next, params, endpoints, pipes, hops, registered, read>>
-----------------------------------------------------------------------------
(* The stub: classes.tmpl:191-237.                                          *)

\* What the stub knows of the call: the id in the header.
Signature == buffer[IdCell][2]

\* Mutant: the view forgets that `bytes` precedes the parameters.
Dispatch_AtBytes ==
    /\ place = "queued" /\ hops = route
    /\ place' = "stub"
    /\ next' = 1
    /\ params' = HeaderLength
    /\ UNCHANGED <<arguments, route, buffer, endpoints, pipes, hops, registered, read>>

Dispatch ==
    /\ place = "queued" /\ hops = route
    /\ place' = "stub"
    /\ next' = 1
    /\ params' = HeaderLength + 1
    /\ UNCHANGED <<arguments, route, buffer, endpoints, pipes, hops, registered, read>>

\* Mutant: the handle that was queued last is taken.
TakeNextPipe_Last ==
    /\ pipes # << >>
    /\ read' = Append(read, <<"handle", Last(pipes)>>)
    /\ pipes' = Front(pipes)

TakeNextPipe ==
    /\ pipes # << >>
    /\ read' = Append(read, <<"handle", Head(pipes)>>)
    /\ pipes' = Tail(pipes)

ReadValue ==
    /\ read' = Append(read, <<"value", buffer[ParameterCell(next)][2]>>)
    /\ UNCHANGED pipes

ReadArray ==
    LET cells == ArrayAt(buffer, DecodePointer(buffer, ParameterCell(next)))
    IN  /\ read' = Append(read, <<"array", [i \in DOMAIN cells |-> cells[i][2]]>>)
        /\ UNCHANGED pipes

ReadArgument ==
    /\ place = "stub" /\ next <= Len(Signature)
    /\ \/ Signature[next] = "value" /\ ReadValue
       \/ Signature[next] = "array" /\ ReadArray
       \/ Signature[next] = "handle" /\ TakeNextPipe
    /\ next' = next + 1
    /\ UNCHANGED <<place, arguments, route, buffer, params, endpoints, hops, registered>>

Invoke ==
    /\ place = "stub" /\ next = Len(Signature) + 1
    /\ place' = "invoked"
    /\ UNCHANGED <<arguments, route, next, buffer, params, endpoints, pipes, hops,
                   registered, read>>

Proxy == Allocate \/ WriteArgument \/ WriteEndpoints \/ FinalizeSize
Way == DeliverLocally \/ FlushFails \/ Transmit \/ Deliver \/ Forward
Stub == Dispatch \/ ReadArgument \/ Invoke
Next == Proxy \/ Way \/ Stub

Spec == Init /\ [][Next]_vars /\ WF_vars(Next)
-----------------------------------------------------------------------------
OnTheWay == place \in {"sent", "received", "queued", "stub", "invoked"}

\* Every variable stays within its type, names and cells included.
TypeOK ==
    /\ place \in {"caller", "proxy", "written", "sent", "received", "queued", "stub",
                 "invoked", "aborted"}
    /\ arguments \in Calls
    /\ next \in 1..(MaxArguments + 1)
    /\ route \in 0..MaxHops /\ hops \in 0..route
    /\ \A i \in DOMAIN buffer : buffer[i][1] \in {"number", "word", "method", "descriptor"}
    /\ \A i \in DOMAIN pipes : pipes[i] \in Pipes \X (0..MaxHops)
    /\ Len(read) <= Len(arguments)
    /\ \A i \in DOMAIN read :
          CASE Kind(read[i]) = "value"  -> read[i][2] \in Words
            [] Kind(read[i]) = "array"  -> \A k \in DOMAIN read[i][2] : read[i][2][k] \in Words
            [] Kind(read[i]) = "handle" -> read[i][2] \in Pipes \X (0..MaxHops)

\* What a handle is to the receiver: the endpoint that its process knows.
Arrived(a) == IF Kind(a) = "handle" THEN <<"handle", Name(a[2], hops)>> ELSE a

\* The method is invoked with the arguments the proxy was called with, each at
\* its place, whatever the way; a handle is the one of the endpoint that the
\* last process registered for it, and is registered there; no handle is left.
ArgumentsArrive ==
    place = "invoked" =>
        /\ read = [i \in DOMAIN arguments |-> Arrived(arguments[i])]
        /\ \A i \in HandlesAt(read) : read[i][2] \in registered
        /\ pipes = << >>

\* The cells of the array that the pointer at a cell leads to.
Extent(at) == LET start == DecodePointer(buffer, at) IN start..(start + buffer[start][2])
Pointers == {EndpointsCell} \cup
            {ParameterCell(i) : i \in {k \in DOMAIN arguments : Kind(arguments[k]) = "array"}}

\* DecodePointer "doesn't validate the encoded pointer value" (message.h:52),
\* and needs not to: every pointer leads to an array behind the parameters, all
\* of it in the buffer, and no two share a cell.
PointersSound ==
    OnTheWay =>
        /\ \A at \in Pointers :
              /\ buffer[at] # Zero
              /\ DecodePointer(buffer, at) \in (params + Len(arguments) + 1)..Len(buffer)
              /\ Extent(at) \subseteq DOMAIN buffer
        /\ \A a, b \in Pointers : a # b => Extent(a) \cap Extent(b) = {}

\* The call carries a handle, was queued in a process it had come to, and its
\* endpoint moved on: the flush takes the names of the process before for its
\* own.  (What comes of it in the nodes is the run NodeReforward.)
Reforwarded == HandlesAt(arguments) # {} /\ 0 < hops /\ hops < route

\* Every call is invoked: no CHECK stops it on the way (message.h:397,
\* channel.cc:125, node.cc:642, core.cc:182), except for the one that stops a
\* reforwarded one (node.cc:502).
Invoked == <>(place = "invoked" \/ (place = "aborted" /\ Reforwarded))
=============================================================================
