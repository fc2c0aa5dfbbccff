-------------------------- MODULE SocketTransport ---------------------------
(***************************************************************************)
(* The sending half of SocketTransport (src/transport/socket_transport.cpp)*)
(* which every connection of a session process goes through.  The socket   *)
(* does not block: what the kernel does not take is kept in async_buffers, *)
(* and the main loop calls send_waiting_data when the socket is writable.  *)
(*                                                                         *)
(* A byte is its number in the order of the calls to do_send.  A buffer is *)
(* the interval of the bytes p+1..e, as AsyncBuf is a pair of pointers.    *)
(***************************************************************************)
EXTENDS Integers, Sequences

CONSTANTS
    MaxSend,  \* bound: bytes of one call to do_send
    MaxBytes  \* bound: bytes given in one behaviour

ASSUME TransportAssumption == MaxSend \in Nat /\ MaxBytes \in Nat

VARIABLES
    sck,            \* "open", "failed" (an Error was thrown) or "closed"
    given,          \* bytes given to do_send
    wire,           \* bytes taken by the kernel
    async_buffers,  \* what waits
    first           \* position in the loop of send_waiting_data, 0 outside

vars == <<sck, given, wire, async_buffers, first>>

Buffer == [p : Nat, e : Nat]

(* Type invariant: the iterator of send_waiting_data stays in the vector. *)
TypeOK ==
    /\ sck \in {"open", "failed", "closed"}
    /\ given \in Nat
    /\ wire \in Seq(Nat)
    /\ async_buffers \in Seq(Buffer)
    /\ first \in 0..Len(async_buffers)

Init ==
    /\ sck = "open"
    /\ given = 0
    /\ wire = <<>>
    /\ async_buffers = <<>>
    /\ first = 0

Bytes(p, e) == [i \in 1..(e - p) |-> p + i]

has_data_to_write == async_buffers # <<>>

\* emplace_back(data, len)
Bufferize(p, e) == async_buffers' = Append(async_buffers, [p |-> p, e |-> e])

\* do_send behind waiting data: nothing may overtake it.
SendBehindOvertakes(n) ==  \* the socket is tried first
    /\ has_data_to_write
    /\ wire' = wire \o Bytes(given, given + n)
    /\ UNCHANGED <<sck, async_buffers>>
SendBehind(n) ==
    /\ has_data_to_write
    /\ Bufferize(given, given + n)
    /\ UNCHANGED <<sck, wire>>

\* do_send on an idle socket: the kernel takes res bytes.
SendNow(n) ==
    /\ ~has_data_to_write /\ sck = "open"
    /\ \E res \in 0..n :
        /\ wire' = wire \o Bytes(given, given + res)
        /\ IF res < n THEN Bufferize(given + res, given + n)
                      ELSE UNCHANGED async_buffers
    /\ UNCHANGED sck

DoSend ==
    /\ first = 0
    /\ \E n \in 1..MaxSend :
        /\ given + n <= MaxBytes
        /\ given' = given + n
        /\ SendBehind(n) \/ SendNow(n)
    /\ UNCHANGED first

\* do_send throws ERR_TRANSPORT_WRITE_FAILED.
SendFails ==
    /\ first = 0 /\ ~has_data_to_write
    /\ sck = "open" /\ sck' = "failed"
    /\ UNCHANGED <<given, wire, async_buffers, first>>

\* send_waiting_data.  No caller comes back to it once it has thrown.
SendWaitingData ==
    /\ first = 0
    /\ sck = "open" /\ has_data_to_write
    /\ first' = 1
    /\ UNCHANGED <<sck, given, wire, async_buffers>>

Current == async_buffers[first]

\* A whole buffer is taken; after the last one the vector is empty.
BufferSentErasesAll ==  \* the buffers that were not sent are erased too
    /\ first > 0
    /\ wire' = wire \o Bytes(Current.p, Current.e)
    /\ async_buffers' = <<>> /\ first' = 0
    /\ UNCHANGED <<sck, given>>
BufferSent ==
    /\ first > 0
    /\ wire' = wire \o Bytes(Current.p, Current.e)
    /\ IF first = Len(async_buffers)
       THEN async_buffers' = <<>> /\ first' = 0
       ELSE first' = first + 1 /\ UNCHANGED async_buffers
    /\ UNCHANGED <<sck, given>>

\* A part of a buffer is taken: the buffers before it are erased.
RemainingUnmoved(res) ==  \* first->p is not moved
    SubSeq(async_buffers, first, Len(async_buffers))
Remaining(res) == SubSeq([async_buffers EXCEPT ![first].p = @ + res],
                         first, Len(async_buffers))

BufferPartlySent ==
    /\ first > 0
    /\ \E res \in (IF first = 1 THEN 1 ELSE 0)..(Current.e - Current.p - 1) :
        /\ wire' = wire \o Bytes(Current.p, Current.p + res)
        /\ async_buffers' = Remaining(res)
    /\ first' = 0
    /\ UNCHANGED <<sck, given>>

\* The socket fails, or is writable and takes nothing for the first buffer.
\* The buffers already sent are not erased.
WaitingFails ==
    /\ first > 0
    /\ sck' = "failed"
    /\ first' = 0
    /\ UNCHANGED <<given, wire, async_buffers>>

Disconnect ==
    /\ first = 0
    /\ sck # "closed" /\ sck' = "closed"
    /\ UNCHANGED <<given, wire, async_buffers, first>>

FlushStep == SendWaitingData \/ BufferSent \/ BufferPartlySent

Next == DoSend \/ SendFails \/ FlushStep \/ WaitingFails \/ Disconnect

Spec == Init /\ [][Next]_vars

\* The main loop watches a transport that has data to write for writing and
\* calls send_waiting_data, which never waits.
FairSpec == Spec /\ WF_vars(FlushStep)

----------------------------------------------------------------------------
(* Nothing is forgotten: between two calls, an open transport that has no
   data to write has put everything on the wire (do_send, send_waiting_data).
   A transport that forgot bytes would never be watched for writing. *)
NothingForgotten ==
    sck = "open" /\ first = 0 /\ ~has_data_to_write => Len(wire) = given

(* The transport is a byte stream: whatever the kernel takes of each call, the
   bytes leave in order, once each. *)
Stream == INSTANCE ByteStream WITH up <- (sck = "open")
IsByteStream == Stream!StreamSpec

(* What waits is sent, or the connection ends. *)
WaitingIsSent == has_data_to_write ~> Len(wire) = given \/ sck # "open"
=============================================================================
