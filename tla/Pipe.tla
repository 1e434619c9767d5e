-------------------------------- MODULE Pipe --------------------------------
(***************************************************************************)
(* What one end of a message pipe promises to the other: the messages that  *)
(* are accepted come out once each, in the order in which they were         *)
(* accepted.  `Endpoint` implements it.                                     *)
(***************************************************************************)
EXTENDS Naturals, Sequences

CONSTANT Message

VARIABLES accepted,    \* every message the pipe has accepted, in order
          released     \* every message the pipe has let out, in order

Init == accepted = << >> /\ released = << >>

Accept ==
    /\ \E m \in Message : accepted' = Append(accepted, m)
    /\ UNCHANGED released

Release ==
    /\ Len(released) < Len(accepted)
    /\ released' = Append(released, accepted[Len(released) + 1])
    /\ UNCHANGED accepted

Next == Accept \/ Release

Spec == Init /\ [][Next]_<<accepted, released>>
=============================================================================
