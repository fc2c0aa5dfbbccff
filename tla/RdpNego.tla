------------------------------ MODULE RdpNego -------------------------------
(***************************************************************************)
(* The security negotiation of an RDP target: RdpNego (core/RDP/nego.cpp), *)
(* the client side of the TLS handshake in SocketTransport, and the        *)
(* certificate that mod_rdp submits to the session manager.                *)
(*                                                                         *)
(* A function of the code that changes the negotiation is the set of the   *)
(* states it may leave, one for each outcome of the libraries it calls     *)
(* (the handshake, Kerberos, NTLM, the certificate files, connect).  A     *)
(* thrown Error is the field error.                                        *)
(***************************************************************************)
EXTENDS Integers, Sequences

CONSTANTS
    Options,      \* the sets of options to try, each a subset of Option
    MaxPasswords, \* bound: passwords of the target account
    Descriptor,   \* file descriptors connect may return
    NoFd

Option == {"nla", "krb", "nla_ntlm_fallback", "tls_only", "rdp_legacy",
           "restricted_admin_mode", "check_using_ca", "external_validation"}

ASSUME NegoAssumption ==
    /\ Options \subseteq SUBSET Option
    /\ MaxPasswords \in Nat \ {0}
    /\ NoFd \notin Descriptor

VARIABLES
    opt,        \* the options of this connection
    passwords,  \* how many passwords the account has (a multi-sz)
    nego,       \* members of RdpNego and of the transport
    status,     \* PrivateRdpNegociation::status, about the certificate
    verdict,    \* what the manager decided: "none", "Ok" or "refused"
    event_fd    \* what the event "RDP Negociation" watches

negoVars == <<opt, passwords, nego, status, verdict, event_fd>>

Protocol == {"Rdp", "Tls", "Nla"}  \* RdpNegoProtocols

enabled_at_first == {p \in Protocol :
    \/ p = "Rdp" /\ "rdp_legacy" \in opt
    \/ p = "Tls" /\ "tls_only" \in opt
    \/ p = "Nla" /\ "nla" \in opt}

krb == {"nla", "krb"} \subseteq opt
admin == "restricted_admin_mode" \in opt

Throw(n, e) == [n EXCEPT !.error = e]
Throws(n) == n.error # "none"

\* The X.224 request names what is enabled beyond the legacy encryption.
send_negotiation_request(n) ==
    IF n.enabled_protocols = {} THEN Throw(n, "ERR_NEGO_NO_PROTOCOL_ENABLED")
    ELSE [n EXCEPT !.requested = n.enabled_protocols \ {"Rdp"}]

\* SocketTransport::disconnect, then connect.
Reconnect(n) ==
    LET closed == [n EXCEPT !.fd = NoFd, !.tls = "Uninit"]
    IN  {[closed EXCEPT !.fd = fd] : fd \in Descriptor}
            \cup {Throw(closed, "ERR_SOCKET_CONNECT_FAILED")}

\* NLA failed on this connection: the next password, or TLS alone.
AfterReconnectSkips(n) ==  \* the last password is never tried
    LET m == [n EXCEPT !.state = "Negotiate", !.current_password = @ + 1]
    IN  IF admin THEN Throw(n, "ERR_NEGO_NLA_REQUIRED_BY_RESTRICTED_ADMIN_MODE")
        ELSE IF m.current_password < passwords
        THEN send_negotiation_request([m EXCEPT !.krb_state = krb])
        ELSE IF "tls_only" \notin opt
        THEN Throw(m, IF m.krb_state THEN "ERR_NEGO_KRB_REQUIRED"
                                     ELSE "ERR_NEGO_NLA_REQUIRED")
        ELSE send_negotiation_request(
                 [m EXCEPT !.enabled_protocols = {"Tls", "Rdp"}])
AfterReconnect(n) ==
    LET m == [n EXCEPT !.state = "Negotiate", !.current_password = @ + 1]
    IN  IF admin THEN Throw(n, "ERR_NEGO_NLA_REQUIRED_BY_RESTRICTED_ADMIN_MODE")
        ELSE IF m.current_password <= passwords
        THEN send_negotiation_request([m EXCEPT !.krb_state = krb])
        ELSE IF "tls_only" \notin opt
        THEN Throw(m, IF m.krb_state THEN "ERR_NEGO_KRB_REQUIRED"
                                     ELSE "ERR_NEGO_NLA_REQUIRED")
        ELSE send_negotiation_request(
                 [m EXCEPT !.enabled_protocols = {"Tls", "Rdp"}])

fallback_to_tls(n) ==
    {IF Throws(m) THEN m ELSE AfterReconnect(m) : m \in Reconnect(n)}

\* The members once mod_rdp is constructed on a connected transport.
FirstNego(fd) ==
    [state |-> "Negotiate", krb_state |-> krb, nla_tried |-> FALSE,
     selected_protocol |-> "Rdp", enabled_protocols |-> enabled_at_first,
     current_password |-> 1, requested |-> {}, fd |-> fd, tls |-> "Uninit",
     stale |-> FALSE, tried |-> << >>, error |-> "none"]

----------------------------------------------------------------------------
(* The TLS handshake. *)

\* server_cert_check_using_ca goes first: with it the authorities decide and
\* the manager is not asked.
AsksManager == "external_validation" \in opt /\ "check_using_ca" \notin opt

\* What the certificate checker answers: the authorities, which may be missing,
\* or the manager, which is asked once for the target and not for each
\* connection, or the files of known certificates.  A target without a
\* certificate is one more way the handshake fails.
certificate_checker(st) ==
    IF ~ AsksManager THEN {"Valid", "Invalid", "throws"}
    ELSE CASE st = "Uninit" -> {"Wait", "Invalid"}
           [] st = "Wait"   -> {"Wait"}
           [] st = "Ok"     -> {"Valid"}
           [] st = "Error"  -> {"Invalid"}

\* SocketTransport::enable_client_tls.  A handshake that needs the network
\* again is "Want"; a failure leaves the transport without TLS.
Handshake(n, st) ==
    {[n EXCEPT !.tls = "Want"], [n EXCEPT !.tls = "Uninit"]}
    \cup {CASE c = "Valid"   -> [n EXCEPT !.tls = "Ok"]
            [] c = "Wait"    -> [n EXCEPT !.tls = "WaitCertCb"]
            [] c = "Invalid" -> [n EXCEPT !.tls = "Uninit"]
            [] c = "throws"  -> Throw([n EXCEPT !.tls = "Uninit"],
                                      "ERR_TRANSPORT_TLS_CERTIFICATE_CHANGED")
          : c \in certificate_checker(st)}

\* certificate_external_validation: only a valid certificate goes on.
CertificateWaitAccepts(n, st) ==  \* the answer is not looked at
    {[n EXCEPT !.tls = "Ok"]}
CertificateWait(n, st) ==
    {[n EXCEPT !.tls = IF c = "Valid" THEN "Ok" ELSE "Uninit"]
     : c \in certificate_checker(st)}

enable_client_tls(n, st) ==
    CASE n.tls \in {"Uninit", "Want"} -> Handshake(n, st)
      [] n.tls = "WaitCertCb" -> CertificateWait(n, st)
      [] n.tls = "Ok" -> {[n EXCEPT !.tls = "Uninit"]}

\* nego.cpp's own enable_client_tls: a failure is logged and passes for done.
TlsPending(n) == n.tls \in {"Want", "WaitCertCb"}

activate_ssl_tls(n, st) ==
    {IF Throws(m) THEN m
     ELSE [m EXCEPT !.state = IF TlsPending(m) THEN "Tls" ELSE "Final"]
     : m \in enable_client_tls(n, st)}

----------------------------------------------------------------------------
(* CredSSP. *)

\* A mechanism is started with the current password.
Tries(n, mechanism) ==
    [n EXCEPT !.tried = Append(@, [password |-> n.current_password,
                                   mechanism |-> mechanism])]
Started(n) == [n EXCEPT !.state = "Credssp"]

StartNtlm(n) == LET m == Tries(n, "ntlm") IN {Started(m)} \cup fallback_to_tls(m)

StartKerberos(n) ==
    LET m == Tries(n, "krb")
    IN  {Started(m)}
        \cup IF "nla_ntlm_fallback" \in opt
             THEN StartNtlm([m EXCEPT !.krb_state = FALSE])
             ELSE fallback_to_tls(m)

StartCredssp(n) ==
    LET m == [n EXCEPT !.nla_tried = TRUE]
    IN  IF m.krb_state THEN StartKerberos(m) ELSE StartNtlm(m)

activate_ssl_hybrid(n, st) ==
    UNION {IF Throws(m) THEN {m}
           ELSE IF TlsPending(m) THEN {[m EXCEPT !.state = "SslHybrid"]}
           ELSE StartCredssp(m)
           : m \in enable_client_tls(n, st)}

\* Tokens are exchanged until the target accepts or refuses.  A connection
\* lost in the middle of a token leaves its bytes in the TpduBuffer.
recv_credssp(n) ==
    fallback_to_tls(n) \cup fallback_to_tls([n EXCEPT !.stale = TRUE])
    \cup {Throw(n, "ERR_TRANSPORT_WRITE_FAILED")}
    \cup (IF n.tls = "Ok" THEN {[n EXCEPT !.state = "Final"]} ELSE {})

----------------------------------------------------------------------------
(* The target's answer to the request. *)

\* A target selects among what was requested, or says what it needs.
Answer(requested) ==
    requested \cup {"Rdp", "INCONSISTENT_FLAGS"}
    \cup (IF "Nla" \in requested THEN {} ELSE {"HYBRID_REQUIRED_BY_SERVER"})
    \cup (IF "Tls" \in requested THEN {} ELSE {"SSL_REQUIRED_BY_SERVER"})
    \cup (IF requested = {} THEN {} ELSE {"SSL_NOT_ALLOWED_BY_SERVER"})

Legacy(n) == [n EXCEPT !.enabled_protocols = {"Rdp"}]

\* The target chose the legacy encryption.
SelectRdpKeepsEnabled(n) ==  \* enabled_protocols is not narrowed
    IF "rdp_legacy" \in opt
    THEN [n EXCEPT !.selected_protocol = "Rdp", !.state = "Final"]
    ELSE Throw(n, "ERR_NEGO_RDP_LEGACY_FORBIDDEN")
SelectRdp(n) ==
    IF "rdp_legacy" \in opt
    THEN [Legacy(n) EXCEPT !.selected_protocol = "Rdp", !.state = "Final"]
    ELSE Throw(n, "ERR_NEGO_RDP_LEGACY_FORBIDDEN")

recv_connection_confirm(n, answer, st) ==
    CASE answer = "Nla" ->
            activate_ssl_hybrid([n EXCEPT !.selected_protocol = "Nla"], st)
      [] answer = "Tls" ->
            IF "tls_only" \in opt
            THEN activate_ssl_tls([n EXCEPT !.selected_protocol = "Tls"], st)
            ELSE {Throw(n, "ERR_NEGO_SSL_ONLY_FORBIDDEN")}
      [] answer = "Rdp" -> {SelectRdp(n)}
      [] answer = "HYBRID_REQUIRED_BY_SERVER" ->
            {Throw([n EXCEPT !.fd = NoFd, !.tls = "Uninit"],
                   IF n.nla_tried THEN "ERR_NLA_AUTHENTICATION_FAILED"
                                  ELSE "ERR_NEGO_HYBRID_REQUIRED_BY_SERVER")}
      [] answer = "SSL_REQUIRED_BY_SERVER" ->
            {Throw([n EXCEPT !.fd = NoFd, !.tls = "Uninit"],
                   "ERR_NEGO_SSL_REQUIRED_BY_SERVER")}
      [] answer = "SSL_NOT_ALLOWED_BY_SERVER" ->
            IF "rdp_legacy" \in opt
            THEN {IF Throws(m) THEN m
                  ELSE send_negotiation_request(Legacy(m)) : m \in Reconnect(n)}
            ELSE {Throw(n, "ERR_NEGO_SSL_REQUIRED")}
      [] answer = "INCONSISTENT_FLAGS" ->
            {Throw(n, "ERR_NEGO_INCONSISTENT_FLAGS")}

\* load_data and the PDUs of the answer, which may not be complete yet.
\* Behind the bytes of an earlier connection it is not understood.
Negotiate(n, st) ==
    {n, Throw(n, "ERR_TRANSPORT_NO_MORE_DATA")}
    \cup IF n.stale THEN {Throw(n, "ERR_X224")}
         ELSE UNION {recv_connection_confirm(n, a, st) : a \in Answer(n.requested)}

recv_next_data(n, st) ==
    CASE n.state = "Negotiate" -> Negotiate(n, st)
      [] n.state = "SslHybrid" -> activate_ssl_hybrid(n, st)
      [] n.state = "Tls"       -> activate_ssl_tls(n, st)
      [] n.state = "Credssp"   -> recv_credssp(n)
      [] n.state = "Final"     -> {n}

\* The checker asks the manager when it is first called.
StatusAfter(n, st) ==
    IF AsksManager /\ st = "Uninit" /\ n.tls = "WaitCertCb"
    THEN "Wait" ELSE st

NegoTypeOK ==
    /\ opt \in Options /\ passwords \in 1..MaxPasswords
    /\ nego.state \in {"Negotiate", "SslHybrid", "Tls", "Credssp", "Final"}
    /\ nego.krb_state \in BOOLEAN /\ nego.nla_tried \in BOOLEAN
    /\ nego.selected_protocol \in Protocol
    /\ nego.enabled_protocols \subseteq Protocol
    /\ nego.requested \subseteq Protocol \ {"Rdp"}
    /\ nego.current_password \in 1..passwords + 1
    /\ nego.fd \in Descriptor \cup {NoFd}
    /\ nego.tls \in {"Uninit", "Want", "WaitCertCb", "Ok"}
    /\ status \in {"Uninit", "Wait", "Ok", "Error"}
    /\ verdict \in {"none", "Ok", "refused"}
    /\ event_fd \in Descriptor \cup {NoFd}
=============================================================================
