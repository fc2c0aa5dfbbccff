--------------------------- MODULE RdpConnection ----------------------------
(***************************************************************************)
(* mod_rdp from its constructor to the running session: RdpNegociation     *)
(* (mod/rdp/rdp_negociation.cpp) on top of RdpNego, the three events that  *)
(* read the target in turn, the activation of mod/rdp/rdp.hpp and the      *)
(* resize of the front it may wait for.                                    *)
(*                                                                         *)
(* A handler reads what the socket holds and treats the PDUs one by one;   *)
(* pc is the loop it is in, and nothing else of the proxy runs meanwhile.  *)
(* The target, external, follows the protocol and may leave at any time.   *)
(***************************************************************************)
EXTENDS RdpNego, SequencesExt

CONSTANTS
    Channels,    \* static virtual channels of the connection
    MaxDemands   \* bound: activations by the target

ASSUME ConnectionAssumption == Channels \in Nat /\ MaxDemands \in Nat \ {0}

VARIABLES
    conn,      \* members of RdpNegociation and of mod_rdp
    buf,       \* PDUs loaded in the TpduBuffer
    toTarget, toProxy,
    target,    \* external: how far the target is
    front,     \* "up", or "activating" after a resize
    reported   \* ghost: SESSION_ESTABLISHED_SUCCESSFULLY records

vars == <<negoVars, conn, buf, toTarget, toProxy, target, front, reported>>

sending == <<toTarget, toProxy, target>>
outputs == <<front, reported>>

Waiting == {"WAITING_SYNCHRONIZE", "WAITING_CTL_COOPERATE",
            "WAITING_GRANT_CONTROL_COOPERATE", "WAITING_FONT_MAP"}

Phase == {"idle", "connect", "licensing", "challenge", "licensed", "demand", "finalize",
          "up", "deactivated", "deaf", "gone"}

Init ==
    /\ opt \in Options
    /\ passwords \in 1..MaxPasswords
    /\ \E fd \in Descriptor : nego = FirstNego(fd)
    /\ status = "Uninit" /\ verdict = "none" /\ event_fd = NoFd
    /\ conn = [state |-> "NEGO_INITIATE", joined |-> 0, event |-> "none",
               finalization |-> "EARLY", reactivation |-> FALSE,
               upped |-> FALSE, signal |-> FALSE, pc |-> "idle"]
    /\ buf = << >> /\ toTarget = << >> /\ toProxy = << >>
    /\ target = [phase |-> "idle", demands |-> 0]
    /\ front = "up" /\ reported = 0

\* The handler of an event may run.
Idle == conn.pc = "idle" /\ ~ Throws(nego) /\ ~ conn.signal

\* What the event "RDP Negociation" lets through as it is.
Rethrown == {"ERR_TRANSPORT_TLS_CERTIFICATE_CHANGED",
    "ERR_NLA_AUTHENTICATION_FAILED",
    "ERR_NEGO_NLA_REQUIRED_BY_RESTRICTED_ADMIN_MODE", "ERR_NEGO_KRB_REQUIRED",
    "ERR_NEGO_NLA_REQUIRED", "ERR_NEGO_SSL_REQUIRED",
    "ERR_NEGO_SSL_ONLY_FORBIDDEN", "ERR_NEGO_RDP_LEGACY_FORBIDDEN",
    "ERR_NEGO_HYBRID_REQUIRED_BY_SERVER", "ERR_NEGO_SSL_REQUIRED_BY_SERVER",
    "ERR_RDP_SERVER_REDIR"}

\* The error an event ends with: nego's own is translated in its event.
Ends(n) ==
    IF Throws(n) /\ conn.event = "negociation" /\ n.error \notin Rethrown
    THEN Throw(n, "ERR_RDP_NEGOTIATION") ELSE n

\* Thrown by a handler: the event is removed and the error leaves the module.
Raise(e) ==
    /\ nego' = Ends(Throw(nego, e))
    /\ conn' = [conn EXCEPT !.event = "none", !.pc = "idle"]
    /\ buf' = << >>

----------------------------------------------------------------------------
(* Negotiation. *)

start_negociation ==
    /\ conn.state = "NEGO_INITIATE" /\ ~ Throws(nego)
    /\ nego' = send_negotiation_request(nego)
    /\ conn' = IF Throws(nego') THEN conn
               ELSE [conn EXCEPT !.state = "NEGO", !.event = "negociation"]
    /\ event_fd' = IF Throws(nego') THEN event_fd ELSE nego.fd
    /\ UNCHANGED <<opt, passwords, status, verdict, buf, sending, outputs>>

\* recv_data while RdpNego works.  A target that was promised TLS and gets
\* the settings in clear understands nothing of what follows.
RecvNego(n) ==
    LET final == n.state = "Final" /\ ~ Throws(n)
        secured == n.selected_protocol = "Rdp" \/ n.tls = "Ok"
    IN  /\ conn' = CASE final -> [conn EXCEPT !.state = "BASIC_SETTINGS_EXCHANGE"]
                     [] Throws(n) -> [conn EXCEPT !.event = "none"]
                     [] OTHER -> conn
        /\ toTarget' = IF final THEN <<"ConnectInitial">> ELSE << >>
        /\ target' = IF final
                     THEN [target EXCEPT !.phase = IF secured THEN "connect"
                                                              ELSE "deaf"]
                     ELSE target

\* The socket the event watches is readable.
NegoRead ==
    /\ Idle /\ conn.event = "negociation" /\ conn.state = "NEGO"
    /\ event_fd = nego.fd
    /\ \E n \in recv_next_data(nego, status) :
        /\ nego' = Ends(n)
        /\ status' = StatusAfter(n, status)
        /\ event_fd' = IF Throws(n) \/ n.fd = NoFd THEN event_fd ELSE n.fd
        /\ RecvNego(n)
    /\ UNCHANGED <<opt, passwords, verdict, buf, toProxy, outputs>>

\* The manager's answer about the certificate; what it says other than Ok is
\* an error.  The event keeps the socket it had.  Once the settings are sent
\* a target waits for TLS and sends nothing: it may only have left.
AclError ==
    /\ status' = "Error"
    /\ nego' = Throw(nego, "ERR_TRANSPORT_TLS_CERTIFICATE_INVALID")
    /\ conn' = [conn EXCEPT !.event = "none"]
    /\ UNCHANGED <<buf, toTarget, toProxy, target>>

AclOk ==
    /\ status' = "Ok"
    /\ IF conn.state = "NEGO"
       THEN /\ \E n \in recv_next_data(nego, "Ok") : nego' = n /\ RecvNego(n)
            /\ UNCHANGED <<buf, toProxy>>
       ELSE /\ IF toProxy = << >> THEN UNCHANGED <<nego, conn>>
               ELSE /\ nego' = Throw(nego, "ERR_TRANSPORT_NO_MORE_DATA")
                    /\ conn' = [conn EXCEPT !.event = "none"]
            /\ UNCHANGED <<buf, toTarget, toProxy, target>>

acl_update(message) ==
    /\ Idle /\ conn.event = "negociation" /\ status = "Wait"
    /\ verdict = "none"
    /\ verdict' = message
    /\ IF message = "Ok" THEN AclOk ELSE AclError
    /\ UNCHANGED <<opt, passwords, event_fd, outputs>>

\* open_session_timeout without an event of the socket.
LogonTimerOfSocket ==  \* it is lost with the socket it was created for
    /\ Idle /\ conn.event = "negociation" /\ event_fd = nego.fd
    /\ nego' = Throw(nego, "ERR_RDP_OPEN_SESSION_TIMEOUT")
    /\ conn' = [conn EXCEPT !.event = "none"]
    /\ UNCHANGED <<opt, passwords, status, verdict, event_fd, buf, sending, outputs>>
LogonTimer ==
    /\ Idle /\ conn.event = "negociation"
    /\ nego' = Throw(nego, "ERR_RDP_OPEN_SESSION_TIMEOUT")
    /\ conn' = [conn EXCEPT !.event = "none"]
    /\ UNCHANGED <<opt, passwords, status, verdict, event_fd, buf, sending, outputs>>

----------------------------------------------------------------------------
(* The PDUs of the connection sequence. *)

\* load_data: what the socket holds, up to the end of the stream.
Load(pc) ==
    LET ends == SelectInSeq(toProxy, LAMBDA p : p = "Close")
        most == IF ends = 0 THEN Len(toProxy) ELSE ends - 1
    IN  /\ toProxy # << >>
        /\ IF ends = 1
           THEN /\ Raise("ERR_TRANSPORT_NO_MORE_DATA")
                /\ UNCHANGED toProxy
           ELSE \E k \in 1..most :
                /\ buf' = buf \o SubSeq(toProxy, 1, k)
                /\ toProxy' = SubSeq(toProxy, k + 1, Len(toProxy))
                /\ conn' = [conn EXCEPT !.pc = pc]
                /\ UNCHANGED nego
        /\ UNCHANGED <<opt, passwords, status, verdict, event_fd,
                       toTarget, target, outputs>>

recv_data ==
    /\ Idle /\ conn.event = "negociation" /\ event_fd = nego.fd
    /\ conn.state \notin {"NEGO_INITIATE", "NEGO"}
    /\ Load("recv")

\* A step of the loop of recv_data that keeps the loop.
Recv(c, out) ==
    /\ conn' = [c EXCEPT !.pc = IF Len(buf) = 1 THEN "idle" ELSE "recv"]
    /\ buf' = Tail(buf)
    /\ toTarget' = toTarget \o out
    /\ UNCHANGED nego

basic_settings_exchange ==
    /\ conn.state = "BASIC_SETTINGS_EXCHANGE" /\ Head(buf) = "ConnectResponse"
    /\ Recv([conn EXCEPT !.state = "CHANNEL_CONNECTION_ATTACH_USER"],
            <<"AttachUserRequest">>)

\* The user's channel, the global one and the static channels.
Joins == Channels + 2

channel_connection_attach_user ==
    /\ conn.state = "CHANNEL_CONNECTION_ATTACH_USER"
    /\ Head(buf) = "AttachUserConfirm"
    /\ Recv([conn EXCEPT !.state = "CHANNEL_JOIN_CONFIRM", !.joined = 0],
            [i \in 1..Joins |-> "ChannelJoinRequest"])

channel_join_confirm ==
    /\ conn.state = "CHANNEL_JOIN_CONFIRM" /\ Head(buf) = "ChannelJoinConfirm"
    /\ IF conn.joined + 1 < Joins
       THEN Recv([conn EXCEPT !.joined = @ + 1], << >>)
       ELSE Recv([conn EXCEPT !.joined = @ + 1, !.state = "GET_LICENSE"],
                 <<"ClientInfo">>)

\* recv_data is done: what is left is drawn before the event is replaced.
TerminatedUndrawn(rest) ==  \* what is left waits for more data
    /\ conn' = [conn EXCEPT !.state = "TERMINATED", !.pc = "idle", !.event = "first"]
    /\ buf' = rest
Terminated(rest) ==
    /\ conn' = IF rest = << >>
               THEN [conn EXCEPT !.state = "TERMINATED", !.pc = "idle",
                                 !.event = "first"]
               ELSE [conn EXCEPT !.state = "TERMINATED", !.pc = "draw"]
    /\ buf' = rest

\* A PDU that is not about the licence is rewound for draw_event.
get_license ==
    /\ conn.state = "GET_LICENSE"
    /\ \/ /\ Head(buf) \in {"LicenseRequest", "PlatformChallenge"}
          /\ Recv(conn, <<"LicenseReply">>)
       \/ /\ Head(buf) \in {"NewLicense", "ErrorAlert"}
          /\ Terminated(Tail(buf)) /\ UNCHANGED <<nego, toTarget>>
       \/ /\ Head(buf) \in {"DemandActive", "ErrorInfo", "Redirection"}
          /\ Terminated(buf) /\ UNCHANGED <<nego, toTarget>>

\* What the states before the licence do not expect, and the ultimatum.
Unexpected ==
    /\ Head(buf) = "DisconnectProviderUltimatum"
    /\ Raise("ERR_MCS") /\ UNCHANGED toTarget

RecvPdu ==
    /\ conn.pc = "recv"
    /\ \/ basic_settings_exchange
       \/ channel_connection_attach_user
       \/ channel_join_confirm
       \/ get_license
       \/ Unexpected
    /\ UNCHANGED <<opt, passwords, status, verdict, event_fd,
                   toProxy, target, outputs>>

----------------------------------------------------------------------------
(* draw_event: the activation. *)

\* The events that follow "RDP Negociation"; the first one also drops
\* RdpNegociation.
NextEvent(event) == IF event = "negociation" THEN "first" ELSE "running"

draw_event ==
    /\ Idle /\ conn.event \in {"first", "running"}
    /\ Load("draw")

\* A step of the loop of draw_event; the handler ends with the buffer.
Draw(c) ==
    /\ conn' = IF Len(buf) = 1
               THEN [c EXCEPT !.pc = "idle", !.event = NextEvent(@)] ELSE c
    /\ buf' = Tail(buf)
    /\ UNCHANGED nego

\* An error of connected_slow_path: fatal before the session was ever up,
\* the end of the module by its signal afterwards.
Catch ==
    IF conn.upped THEN Draw([conn EXCEPT !.signal = TRUE])
    ELSE Raise("ERR_SESSION_UNKNOWN_BACKEND")

\* Confirm Active, then Synchronize, Control and Font List.
activation == <<"ConfirmActive", "FontList">>

\* process_demand_active and what the front says of the new size.
DemandActiveAtOnce ==  \* the target is confirmed before the client is resized
    /\ Head(buf) = "DemandActive"
    /\ Draw([conn EXCEPT !.finalization = "WAITING_SYNCHRONIZE"])
    /\ toTarget' = toTarget \o activation
    /\ front' \in {front, "activating"} /\ UNCHANGED reported
DemandActive ==
    /\ Head(buf) = "DemandActive"
    /\ LET c == [conn EXCEPT !.finalization = "WAITING_SYNCHRONIZE"]
       IN  \/ /\ Draw(c)                        \* no_need
              /\ toTarget' = toTarget \o activation
              /\ UNCHANGED front
           \/ /\ Draw(c)                        \* wait_response
              /\ front' = "activating"
              /\ UNCHANGED toTarget
           \/ /\ Catch                          \* fail
              /\ UNCHANGED <<front, toTarget>>
    /\ UNCHANGED reported

DeactivateAllOnly(c) ==  \* the flag is forgotten
    [c EXCEPT !.finalization = "WAITING_SYNCHRONIZE"]
Deactivated(c) ==
    [c EXCEPT !.finalization = "WAITING_SYNCHRONIZE", !.reactivation = TRUE]

DeactivateAll ==
    /\ Head(buf) = "DeactivateAll"
    /\ Draw(Deactivated(conn))
    /\ UNCHANGED <<toTarget, outputs>>

DataPdu == {"Synchronize", "Cooperate", "GrantControl", "FontMap",
            "MonitorLayout", "ErrorInfo"}

\* WAITING_SYNCHRONIZE: the layout of the monitors may come before.
AfterSynchronizeAny(p) ==  \* the layout is taken for it
    [conn EXCEPT !.finalization = "WAITING_CTL_COOPERATE"]
AfterSynchronize(p) ==
    IF p = "MonitorLayout" THEN conn
    ELSE [conn EXCEPT !.finalization = "WAITING_CTL_COOPERATE"]

\* WAITING_FONT_MAP, which any data PDU ends.
FontMap ==
    /\ conn.finalization = "WAITING_FONT_MAP"
    /\ Draw([conn EXCEPT !.finalization = "UP_AND_RUNNING",
                         !.reactivation = FALSE, !.upped = TRUE])
    /\ reported' = reported + (IF conn.reactivation THEN 0 ELSE 1)

\* UP_AND_RUNNING: data of the session, or the error the target leaves with.
UpAndRunning ==
    /\ conn.finalization = "UP_AND_RUNNING"
    /\ \/ Draw(conn)
       \/ /\ Head(buf) = "ErrorInfo"
          /\ Raise("ERR_AUTOMATIC_RECONNECTION_REQUIRED")
    /\ UNCHANGED reported

\* The states of the finalization, which look at the order and not at the
\* type of the PDUs.
Finalization ==
    \/ /\ conn.finalization = "EARLY"
       /\ \/ Raise("ERR_SESSION_UNKNOWN_BACKEND")
          \/ Head(buf) = "ErrorInfo" /\ Raise("ERR_RAIL_NOT_ENABLED")
       /\ UNCHANGED reported
    \/ /\ conn.finalization = "WAITING_SYNCHRONIZE"
       /\ \/ Draw(AfterSynchronize(Head(buf)))
          \/ /\ Head(buf) = "MonitorLayout"
             /\ Raise("ERR_RDP_UNSUPPORTED_MONITOR_LAYOUT")
       /\ UNCHANGED reported
    \/ /\ conn.finalization = "WAITING_CTL_COOPERATE"
       /\ Draw([conn EXCEPT !.finalization = "WAITING_GRANT_CONTROL_COOPERATE"])
       /\ UNCHANGED reported
    \/ /\ conn.finalization = "WAITING_GRANT_CONTROL_COOPERATE"
       /\ Draw([conn EXCEPT !.finalization = "WAITING_FONT_MAP"])
       /\ UNCHANGED reported
    \/ FontMap
    \/ UpAndRunning

DataPduStep ==
    /\ Head(buf) \in DataPdu
    /\ Finalization
    /\ UNCHANGED <<toTarget, front>>

\* The target leaves or sends the session elsewhere.
DisconnectProviderUltimatum ==
    /\ Head(buf) = "DisconnectProviderUltimatum"
    /\ nego' = Ends(Throw(nego, "ERR_MCS_APPID_IS_MCS_DPUM"))
    /\ conn' = [conn EXCEPT !.finalization = "DISCONNECTED",
                            !.event = "none", !.pc = "idle"]
    /\ buf' = << >>
    /\ UNCHANGED <<toTarget, outputs>>

Redirection ==
    /\ Head(buf) = "Redirection"
    /\ Raise("ERR_RDP_SERVER_REDIR") \/ Draw(conn)  \* or Noredirect
    /\ UNCHANGED <<toTarget, outputs>>

connected_slow_path ==
    /\ conn.pc = "draw"
    /\ \/ DemandActive
       \/ DeactivateAll
       \/ DataPduStep
       \/ DisconnectProviderUltimatum
       \/ Redirection
    /\ UNCHANGED <<opt, passwords, status, verdict, event_fd, toProxy, target>>

\* The client's Font List at the end of the front's own activation: the
\* front is up and tells the module, whatever the module was doing.
rdp_gdi_up_and_running ==
    /\ Idle /\ front = "activating"
    /\ front' = "up"
    /\ toTarget' = toTarget \o activation
    /\ UNCHANGED <<negoVars, conn, buf, toProxy, target, reported>>

\* The session closes the module.
disconnect ==
    /\ Idle /\ conn.event # "none"
    /\ IF conn.finalization = "UP_AND_RUNNING"
       THEN /\ toTarget' = Append(toTarget, "DisconnectProviderUltimatum")
            /\ conn' = [conn EXCEPT !.finalization = "DISCONNECTED",
                                    !.event = "none", !.signal = TRUE]
       ELSE /\ conn' = [conn EXCEPT !.event = "none", !.signal = TRUE]
            /\ UNCHANGED toTarget
    /\ UNCHANGED <<negoVars, buf, toProxy, target, outputs>>

----------------------------------------------------------------------------
(* The target, external: it answers in order and starts activations. *)

Sends(pdus, phase) ==
    /\ toProxy' = toProxy \o pdus
    /\ target' = [target EXCEPT !.phase = phase]

\* What it answers to m, each with the phase it is in afterwards.
TargetAnswers(m) ==
    CASE m = "ConnectInitial" -> {<< <<"ConnectResponse">>, "connect">>}
      [] m = "AttachUserRequest" -> {<< <<"AttachUserConfirm">>, "connect">>}
      [] m = "ChannelJoinRequest" -> {<< <<"ChannelJoinConfirm">>, "connect">>}
      [] m = "ClientInfo" ->
            {<< <<"LicenseRequest">>, "licensing">>,
             << <<"ErrorAlert">>, "licensed">>, << << >>, "licensed">>}
      [] m = "LicenseReply" ->
            {<< <<"PlatformChallenge">>, "challenge">>,
             << <<"NewLicense">>, "licensed">>}
      [] m = "ConfirmActive" ->
            {<< <<"Synchronize", "Cooperate">>, "finalize">>,
             << <<"MonitorLayout", "Synchronize", "Cooperate">>, "finalize">>}
      [] m = "FontList" -> {<< <<"GrantControl", "FontMap">>, "up">>}
      [] m = "DisconnectProviderUltimatum" -> {<< <<"Close">>, "gone">>}

TargetReads ==
    /\ target.phase \notin {"idle", "deaf", "gone"} /\ toTarget # << >>
    /\ toTarget' = Tail(toTarget)
    /\ \E a \in TargetAnswers(Head(toTarget)) :
        /\ target.phase = "challenge" => a[2] # "challenge"
        /\ Sends(a[1], a[2])
    /\ UNCHANGED <<negoVars, conn, buf, outputs>>

TargetDemands ==
    /\ target.phase \in {"licensed", "deactivated"}
    /\ target.demands < MaxDemands
    /\ toProxy' = Append(toProxy, "DemandActive")
    /\ target' = [phase |-> "demand", demands |-> target.demands + 1]
    /\ UNCHANGED <<negoVars, conn, buf, toTarget, outputs>>

TargetDeactivates ==
    /\ target.phase = "up" /\ target.demands < MaxDemands
    /\ Sends(<<"DeactivateAll">>, "deactivated")
    /\ UNCHANGED <<negoVars, conn, buf, toTarget, outputs>>

\* It gives up, with or without saying why, or the connection is lost.
TargetLeaves ==
    /\ target.phase \notin {"idle", "gone"}
    /\ \/ Sends(<<"Close">>, "gone")
       \/ /\ target.phase # "deaf"
          /\ Sends(<<"DisconnectProviderUltimatum">>, "gone")
       \/ /\ target.phase \in {"licensed", "up"}
          /\ Sends(<<"ErrorInfo", "DisconnectProviderUltimatum">>, "gone")
       \/ /\ target.phase = "licensed"
          /\ Sends(<<"Redirection", "Close">>, "gone")
    /\ UNCHANGED <<negoVars, conn, buf, toTarget, outputs>>

Target == TargetReads \/ TargetDemands \/ TargetDeactivates \/ TargetLeaves

Manager == \E message \in {"Ok", "refused"} : acl_update(message)

Handler ==
    \/ start_negociation \/ NegoRead \/ LogonTimer
    \/ recv_data \/ RecvPdu \/ draw_event \/ connected_slow_path

\* The module ended: by an error, its signal or the session.
Ended == Throws(nego) \/ (conn.signal /\ conn.pc = "idle")

Next == Handler \/ Manager \/ rdp_gdi_up_and_running \/ disconnect \/ Target

\* The main loop serves the events of the module; a socket that stays silent
\* is served by the timer.  Nothing makes a client complete its activation
\* after a resize: the handshake timer of the front is gone since the first.
Fairness == WF_vars(Handler)

Spec == Init /\ [][Next]_vars /\ Fairness

----------------------------------------------------------------------------
(* Properties. *)

TypeOK ==
    /\ NegoTypeOK
    /\ conn.state \in {"NEGO_INITIATE", "NEGO", "BASIC_SETTINGS_EXCHANGE",
           "CHANNEL_CONNECTION_ATTACH_USER", "CHANNEL_JOIN_CONFIRM",
           "GET_LICENSE", "TERMINATED"}
    /\ conn.joined \in 0..Joins
    /\ conn.finalization \in
           Waiting \cup {"EARLY", "UP_AND_RUNNING", "DISCONNECTED"}
    /\ conn.event \in {"none", "negociation", "first", "running"}
    /\ conn.pc \in {"idle", "recv", "draw"}
    /\ conn.pc = "idle" <=> buf = << >>
    /\ target.phase \in Phase /\ target.demands \in 0..MaxDemands
    /\ front \in {"up", "activating"} /\ reported \in 0..MaxDemands

\* The passwords of the account are tried in their order, Kerberos before
\* NTLM for each, and the negotiation gives NLA up only after the last one
\* (fallback_to_tls, activate_ssl_hybrid).
PasswordsInTurn ==
    LET t == nego.tried
        last == t[Len(t)]
        GivesUp == nego.error \in {"ERR_NEGO_NLA_REQUIRED", "ERR_NEGO_KRB_REQUIRED"}
    IN  /\ \A i \in 1..Len(t) - 1 :
            \/ t[i + 1].password = t[i].password + 1
            \/ /\ t[i + 1].password = t[i].password
               /\ t[i].mechanism = "krb" /\ t[i + 1].mechanism = "ntlm"
        /\ (GivesUp \/ ("nla" \in opt /\ "Nla" \notin nego.enabled_protocols
                         /\ "Tls" \in nego.enabled_protocols))
           => t # << >> /\ last.password = passwords

\* When the settings are sent, the protocol is one the options allow, and the
\* legacy encryption is in effect exactly when the target selected it
\* (recv_connection_confirm, enhanced_rdp_security_is_in_effect).
ProtocolAgreed ==
    conn.state \notin {"NEGO_INITIATE", "NEGO"} =>
        /\ nego.selected_protocol \in enabled_at_first
        /\ nego.enabled_protocols = {"Rdp"} <=> nego.selected_protocol = "Rdp"

\* When the manager validates the certificates (external validation without
\* server_cert_check_using_ca, which lets the authorities decide instead), TLS
\* is never in use before it accepted the certificate it was asked about,
\* whatever comes first: its answer, data of the target or a new connection
\* (SocketTransport::enable_client_tls, acl_update).  The acceptance is of the
\* target, not of one connection: after a reconnection for another password
\* the status is still Ok and the certificate then presented is not submitted.
CertificateApproved == AsksManager /\ nego.tls = "Ok" => verdict = "Ok"

\* A demand of the target is in exactly one place: on its way, waiting for the
\* client to be resized, or confirmed once (get_license's rewind, draw_event,
\* rdp_gdi_up_and_running).
ConfirmAnswersDemand ==
    LET Count(s, p) == Cardinality({i \in DOMAIN s : s[i] = p})
    IN  ~ Ended /\ ~ conn.signal /\ target.phase # "gone" =>
        Count(buf \o toProxy, "DemandActive") + Count(toTarget, "ConfirmActive")
          + (IF front = "activating" THEN 1 ELSE 0)
            = (IF target.phase = "demand" THEN 1 ELSE 0)

\* The module takes the session for running only with the target: no PDU of
\* the activation is still to come, unless the target deactivated it again.
UpTogether ==
    LET coming == {buf[i] : i \in DOMAIN buf} \cup {toProxy[i] : i \in DOMAIN toProxy}
    IN  conn.finalization = "UP_AND_RUNNING" /\ "DeactivateAll" \notin coming =>
        target.phase \notin {"demand", "finalize"} /\ "FontMap" \notin coming

\* SESSION_ESTABLISHED_SUCCESSFULLY is logged exactly once in a session that
\* was up, however often the target reactivates it.
EstablishedOnce == reported = (IF conn.upped THEN 1 ELSE 0)

\* The negotiation ends, with a session or an error: a socket that is not
\* watched any more or a manager that never answers is ended by the timer.
NegotiationEnds ==
    <>(Ended \/ conn.event \in {"first", "running"})

\* The client completes every activation that a resize makes it start.
ClientActivates == []<>(front = "up")

\* A demand is answered, unless the session ends, for a client that completes
\* every activation a resize makes it start (draw_event, the put-back of
\* get_license, rdp_gdi_up_and_running).  The proxy has no timer for a client
\* that does not.
DemandAnswered ==
    ClientActivates =>
        ("DemandActive" \in {toProxy[i] : i \in DOMAIN toProxy}
            ~> (Ended \/ "ConfirmActive" \in {toTarget[i] : i \in DOMAIN toTarget}))
=============================================================================
