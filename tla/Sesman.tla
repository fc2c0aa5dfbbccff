------------------------------- MODULE Sesman -------------------------------
(***************************************************************************)
(* The session manager that a session process obeys, as far as the process *)
(* can tell it apart: the class Sesman of tools/sesman/sesmanworker.       *)
(*                                                                         *)
(* The manager authenticates the user by showing modules and reading the   *)
(* answers, sends the first physical target of the chosen service, and     *)
(* watches the session: it answers keepalives, relays requests of the      *)
(* administrator, moves to the next physical target when one fails before  *)
(* it reported success, and closes.                                        *)
(*                                                                         *)
(* A message is the set of fields that matter to the main loop.  What the  *)
(* process sends is kept as the set of facts the manager has not read yet: *)
(* receive_data merges whatever has arrived into one dictionary.           *)
(***************************************************************************)
EXTENDS Integers, Sequences

CONSTANTS
    Interactive,  \* internal modules shown during the authentication
    Protocol,     \* protocols of the targets, subset of {"RDP", "VNC"}
    MaxTargets,   \* bound: physical targets behind one service
    Request,      \* what may be sent in the middle of a session
    MaxRequests,  \* bound: such requests in one behaviour
    MaxMsgs       \* bound: messages on the way to the process

ASSUME SesmanAssumption == /\ Protocol \subseteq {"RDP", "VNC"}
                           /\ Interactive \cap {"RDP", "VNC", "UNKNOWN"} = {}
                           /\ MaxTargets \in Nat \ {0}
                           /\ Request \subseteq {"rejected", "disconnect", "end_date",
                                  "sharing", "inactivity", "other"}
                           /\ MaxRequests \in Nat
                           /\ MaxMsgs \in Nat \ {0}

VARIABLES
    phase,     \* where start() is, see Phase
    proto,     \* protocol of the physical targets being tried
    left,      \* physical targets after the current one
    try_next,  \* local of connect_to_target: no success was reported
    requests,  \* how many requests were sent
    to_proxy,  \* messages on the way to the session process
    to_sesman  \* facts the session process sent, not read yet

sesman == <<phase, proto, left, try_next, requests, to_proxy, to_sesman>>

Phase == {"auth", "target", "back", "closing", "closed"}

\* What the process can tell the manager: the user answered a module or asks
\* for the selector, module=close, disconnect_reason_ack, the report that the
\* target is connected, and a keepalive request.
Fact == {"answer", "close", "ack", "success", "keepalive"}

Kinds == {"module", "keepalive", "rejected", "disconnect", "end_date",
          "sharing", "inactivity", "other"}
Close == {"close", "close_back"}

Message == [kind : Kinds,
            module : Interactive \cup Protocol \cup Close \cup {"transitory", ""},
            alt : BOOLEAN, more : BOOLEAN]

\* The fields of a message that names no module.
Plain(k) == [kind |-> k, module |-> "", alt |-> FALSE, more |-> FALSE]
Module(m) == [Plain("module") EXCEPT !.module = m]

\* kv['try_alternate_target'] and kv['has_more_target'].
Target(p, alt, more) ==
    [kind |-> "module", module |-> p, alt |-> alt, more |-> more]

SesmanTypeOK ==
    /\ phase \in Phase
    /\ proto \in Protocol \cup {""}
    /\ left \in 0..(MaxTargets - 1)
    /\ try_next \in BOOLEAN
    /\ requests \in 0..MaxRequests
    /\ to_proxy \in Seq(Message) /\ Len(to_proxy) <= MaxMsgs
    /\ to_sesman \subseteq Fact

SesmanInit ==
    /\ phase = "auth"
    /\ proto = ""
    /\ left = 0
    /\ try_next = FALSE
    /\ requests = 0
    /\ to_proxy = <<>>
    /\ to_sesman = {}

\* send_data, once for each message of ms.
SendAll(ms) == /\ Len(to_proxy) + Len(ms) <= MaxMsgs
               /\ to_proxy' = to_proxy \o ms
Send(m) == SendAll(<<m>>)

----------------------------------------------------------------------------
(* start(): the next screen, a rejection or the first physical target.      *)

Answered == phase = "auth" /\ "answer" \in to_sesman

ShowModule ==
    /\ Answered
    /\ \E m \in Interactive : Send(Module(m))
    /\ to_sesman' = {}
    /\ UNCHANGED <<phase, proto, left, try_next, requests>>

\* connect_to_target fails before a target is chosen.
Reject ==
    /\ Answered
    /\ Send(Plain("rejected"))
    /\ phase' = "closed"
    /\ to_sesman' = {}
    /\ UNCHANGED <<proto, left, try_next, requests>>

\* get_effective_target returned n physical targets; the first one is sent,
\* after the patterns that end or report the session, if the rights have some.
ConnectToTarget ==
    /\ Answered
    /\ \E p \in Protocol, n \in 1..MaxTargets,
          patterns \in 0..2 :
        /\ SendAll(Append([i \in 1..patterns |-> Module("transitory")],
                          Target(p, FALSE, n > 1)))
        /\ proto' = p
        /\ left' = n - 1
    /\ phase' = "target"
    /\ try_next' = TRUE
    /\ to_sesman' = {}
    /\ UNCHANGED requests

----------------------------------------------------------------------------
(* connect_to_target: the loop on the keepalived socket.                    *)

\* After the loop.  tn: no success was reported; closed: module is "close".
LeaveTarget(tn, closed) ==
    \/ /\ tn /\ left > 0
       /\ Send(Target(proto, TRUE, left > 1))
       /\ left' = left - 1
       /\ try_next' = TRUE
       /\ UNCHANGED phase
    \/ /\ ~(tn /\ left > 0)
       /\ UNCHANGED left
       /\ try_next' = tn
       /\ \/ closed /\ Send(Module("close_back")) /\ phase' = "back"
          \/ closed /\ tn /\ SendAll(<<Module("close"), Module("close")>>)
                    /\ phase' = "closing"
          \/ closed /\ ~tn /\ Send(Module("close")) /\ phase' = "closed"
          \/ ~closed /\ tn /\ Send(Module("close")) /\ phase' = "closing"
          \/ ~closed /\ ~tn /\ phase' = "closed" /\ UNCHANGED to_proxy

ReceiveData ==
    /\ phase = "target"
    /\ to_sesman # {}
    /\ LET tn == try_next /\ "success" \notin to_sesman
       IN  IF to_sesman \cap {"ack", "close"} # {}
           THEN LeaveTarget(tn, "close" \in to_sesman)
           ELSE /\ try_next' = tn
                /\ IF "keepalive" \in to_sesman
                   THEN Send(Plain("keepalive")) ELSE UNCHANGED to_proxy
                /\ UNCHANGED <<phase, left>>
    /\ to_sesman' = {}
    /\ UNCHANGED <<proto, requests>>

\* Nothing came for KEEPALIVE_TIMEOUT seconds.
MissingKeepalive ==
    /\ phase = "target"
    /\ to_sesman = {}
    /\ LeaveTarget(try_next, FALSE)
    /\ UNCHANGED <<proto, requests, to_sesman>>

\* A request of the administrator or of the engine during the session: kill,
\* time frame, sharing, new inactivity delay, any field for the module.  The
\* recording path is only rejected once the recording has started.
SendRequest ==
    /\ phase = "target"
    /\ requests < MaxRequests
    /\ \E k \in Request :
        /\ k = "rejected" => ~try_next
        /\ Send(Plain(k))
    /\ requests' = requests + 1
    /\ UNCHANGED <<phase, proto, left, try_next, to_sesman>>

----------------------------------------------------------------------------
(* The end of a session.                                                    *)

\* The user went back to the selector from the close box: the fields of the
\* session are reset (reset_target_session_vars).
BackToSelector ==
    /\ phase = "back"
    /\ "answer" \in to_sesman
    /\ phase' = "auth"
    /\ Send(Module("transitory"))
    /\ UNCHANGED <<proto, left, try_next, requests, to_sesman>>

\* interactive_close waits for one more packet, then the socket is closed.
CloseConnection ==
    /\ phase = "closing"
    /\ to_sesman # {}
    /\ phase' = "closed"
    /\ UNCHANGED <<proto, left, try_next, requests, to_proxy, to_sesman>>

\* kill(): SIGTERM, SIGUSR1 or a crash of the manager, at any time.
Kill ==
    /\ phase # "closed"
    /\ phase' = "closed"
    /\ UNCHANGED <<proto, left, try_next, requests, to_proxy, to_sesman>>
=============================================================================
