----------------------------- MODULE ByteStream -----------------------------
(***************************************************************************)
(* What a transport promises to the protocol layers above it: the bytes    *)
(* given to it reach the peer in the order they were given, each of them   *)
(* once, until the connection breaks.  Bytes are numbered from 1.          *)
(***************************************************************************)
EXTENDS Naturals, Sequences

VARIABLES
    given,  \* how many bytes were given to the transport
    wire,   \* the bytes the network took, in order
    up      \* the connection works

stream == <<given, wire, up>>

\* The first k bytes.
FirstBytes(k) == [i \in 1..k |-> i]

StreamInit == given = 0 /\ wire = FirstBytes(0) /\ up = TRUE

\* More bytes may be given and more of the given bytes taken.
Transfer ==
    /\ up
    /\ given' \in Nat /\ given' >= given
    /\ \E k \in Len(wire)..given' : wire' = FirstBytes(k)
    /\ UNCHANGED up

Break == up /\ up' = FALSE /\ UNCHANGED <<given, wire>>

\* A broken transport still accepts bytes, and drops them.
Drop == ~up /\ given' \in Nat /\ given' >= given /\ UNCHANGED <<wire, up>>

StreamNext == Transfer \/ Break \/ Drop

StreamSpec == StreamInit /\ [][StreamNext]_stream
=============================================================================
