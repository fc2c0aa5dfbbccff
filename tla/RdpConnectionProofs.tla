------------------------- MODULE RdpConnectionProofs -------------------------
(* Theorems about RdpConnection, for every set of options, every number of    *)
(* passwords and whatever the target, the libraries and the manager answer.   *)
EXTENDS RdpConnection, SequenceTheorems, TLAPS

----------------------------------------------------------------------------
(* The fields of a negotiation: an assignment to one leaves the others.       *)
IsNego(n) == n \in
    [state : {n.state}, krb_state : {n.krb_state}, nla_tried : {n.nla_tried},
     selected_protocol : {n.selected_protocol},
     enabled_protocols : {n.enabled_protocols},
     current_password : {n.current_password}, requested : {n.requested},
     fd : {n.fd}, tls : {n.tls}, stale : {n.stale}, tried : {n.tried},
     error : {n.error}]

(* What connecting and the handshake leave alone. *)
SameTurn(n, m) ==
    /\ m.state = n.state /\ m.selected_protocol = n.selected_protocol
    /\ m.enabled_protocols = n.enabled_protocols /\ m.requested = n.requested
    /\ m.current_password = n.current_password /\ m.tried = n.tried

(* The errors fallback_to_tls gives NLA up with. *)
GiveUp == {"ERR_NEGO_NLA_REQUIRED", "ERR_NEGO_KRB_REQUIRED"}

LEMMA ThrowEffect ==
  ASSUME NEW n, IsNego(n), NEW e
  PROVE  /\ IsNego(Throw(n, e)) /\ SameTurn(n, Throw(n, e))
         /\ Throw(n, e).tls = n.tls /\ Throw(n, e).error = e
BY DEF IsNego, Throw, SameTurn

LEMMA RequestEffect ==
  ASSUME NEW n, IsNego(n), ~Throws(n)
  PROVE  LET m == send_negotiation_request(n) IN
         /\ IsNego(m) /\ m.tls = n.tls
         /\ m.state = n.state /\ m.selected_protocol = n.selected_protocol
         /\ m.enabled_protocols = n.enabled_protocols
         /\ m.current_password = n.current_password /\ m.tried = n.tried
         /\ \/ m.error = "ERR_NEGO_NO_PROTOCOL_ENABLED"
            \/ m.error = "none" /\ m.requested = n.enabled_protocols \ {"Rdp"}
BY DEF IsNego, Throw, Throws, send_negotiation_request

LEMMA ReconnectEffect ==
  ASSUME NEW n, IsNego(n), ~Throws(n), NEW m \in Reconnect(n)
  PROVE  /\ IsNego(m) /\ SameTurn(n, m) /\ m.tls = "Uninit"
         /\ m.error \in {"none", "ERR_SOCKET_CONNECT_FAILED"}
         /\ m.krb_state = n.krb_state
<1> DEFINE closed == [n EXCEPT !.fd = NoFd, !.tls = "Uninit"]
<1>1. IsNego(closed) /\ SameTurn(n, closed) /\ closed.tls = "Uninit" /\ closed.error = "none"
      /\ closed.krb_state = n.krb_state
  BY DEF IsNego, SameTurn, Throws
<1>2. m \in {[closed EXCEPT !.fd = fd] : fd \in Descriptor}
            \cup {Throw(closed, "ERR_SOCKET_CONNECT_FAILED")}
  BY DEF Reconnect
<1> HIDE DEF closed
<1>3. CASE m = Throw(closed, "ERR_SOCKET_CONNECT_FAILED")
  BY <1>1, <1>3 DEF IsNego, Throw, SameTurn
<1>4. ASSUME NEW fd \in Descriptor, m = [closed EXCEPT !.fd = fd]
      PROVE  IsNego(m) /\ SameTurn(n, m) /\ m.tls = "Uninit" /\ m.error = "none"
             /\ m.krb_state = n.krb_state
  BY <1>1, <1>4 DEF IsNego, SameTurn
<1> QED BY <1>2, <1>3, <1>4

(* The four ways out of fallback_to_tls: an error, no other password, the next
   password, TLS alone. *)
FellBack(n, m) ==
    /\ IsNego(m) /\ m.tls = "Uninit" /\ m.tried = n.tried
    /\ m.current_password \in {n.current_password, n.current_password + 1}
    /\ \/ /\ m.error \notin GiveUp \cup {"none"}
          /\ m.enabled_protocols = n.enabled_protocols
       \/ /\ m.error \in GiveUp
          /\ m.enabled_protocols = n.enabled_protocols
          /\ ~(n.current_password + 1 <= passwords)
       \/ /\ m.error = "none" /\ m.state = "Negotiate"
          /\ m.current_password = n.current_password + 1
          /\ m.enabled_protocols = n.enabled_protocols
          /\ m.requested = m.enabled_protocols \ {"Rdp"}
          /\ n.current_password + 1 <= passwords
       \/ /\ m.error = "none" /\ m.state = "Negotiate"
          /\ m.current_password = n.current_password + 1
          /\ m.enabled_protocols = {"Tls", "Rdp"}
          /\ m.requested = m.enabled_protocols \ {"Rdp"}
          /\ ~(n.current_password + 1 <= passwords)

LEMMA AfterReconnectEffect ==
  ASSUME NEW n, IsNego(n), ~Throws(n), n.tls = "Uninit"
  PROVE  FellBack(n, AfterReconnect(n))
<1> DEFINE m == [n EXCEPT !.state = "Negotiate", !.current_password = @ + 1]
<1>1. /\ IsNego(m) /\ ~Throws(m) /\ m.state = "Negotiate" /\ m.tls = "Uninit"
      /\ m.current_password = n.current_password + 1 /\ m.tried = n.tried
      /\ m.enabled_protocols = n.enabled_protocols
  BY DEF IsNego, Throws
<1>2. AfterReconnect(n) =
        IF admin THEN Throw(n, "ERR_NEGO_NLA_REQUIRED_BY_RESTRICTED_ADMIN_MODE")
        ELSE IF m.current_password <= passwords
        THEN send_negotiation_request([m EXCEPT !.krb_state = krb])
        ELSE IF "tls_only" \notin opt
        THEN Throw(m, IF m.krb_state THEN "ERR_NEGO_KRB_REQUIRED"
                                     ELSE "ERR_NEGO_NLA_REQUIRED")
        ELSE send_negotiation_request(
                 [m EXCEPT !.enabled_protocols = {"Tls", "Rdp"}])
  BY DEF AfterReconnect
<1> HIDE DEF m
<1>3. CASE admin
  <2>1. AfterReconnect(n) = Throw(n, "ERR_NEGO_NLA_REQUIRED_BY_RESTRICTED_ADMIN_MODE")
    BY <1>2, <1>3
  <2> QED BY <2>1, ThrowEffect DEF SameTurn, FellBack, GiveUp
<1>4. CASE ~admin /\ m.current_password <= passwords
  <2> DEFINE k == [m EXCEPT !.krb_state = krb]
  <2>1. /\ IsNego(k) /\ ~Throws(k) /\ k.state = "Negotiate" /\ k.tls = "Uninit"
        /\ k.current_password = m.current_password /\ k.tried = m.tried
        /\ k.enabled_protocols = m.enabled_protocols
    BY <1>1 DEF IsNego, Throws
  <2>2. AfterReconnect(n) = send_negotiation_request(k)
    BY <1>2, <1>4
  <2> HIDE DEF k
  <2> QED BY <1>1, <1>4, <2>1, <2>2, RequestEffect DEF FellBack, GiveUp
<1>5. CASE ~admin /\ ~(m.current_password <= passwords) /\ "tls_only" \notin opt
  <2>1. PICK e \in GiveUp : AfterReconnect(n) = Throw(m, e)
    BY <1>2, <1>5 DEF GiveUp
  <2> QED BY <1>1, <1>5, <2>1, ThrowEffect DEF SameTurn, FellBack
<1>6. CASE ~admin /\ ~(m.current_password <= passwords) /\ "tls_only" \in opt
  <2> DEFINE k == [m EXCEPT !.enabled_protocols = {"Tls", "Rdp"}]
  <2>1. /\ IsNego(k) /\ ~Throws(k) /\ k.state = "Negotiate" /\ k.tls = "Uninit"
        /\ k.current_password = m.current_password /\ k.tried = m.tried
        /\ k.enabled_protocols = {"Tls", "Rdp"}
    BY <1>1 DEF IsNego, Throws
  <2>2. AfterReconnect(n) = send_negotiation_request(k)
    BY <1>2, <1>6
  <2>3. send_negotiation_request(k) = [k EXCEPT !.requested = k.enabled_protocols \ {"Rdp"}]
    BY <2>1 DEF send_negotiation_request
  <2> HIDE DEF k
  <2>4. LET r == AfterReconnect(n) IN
        /\ IsNego(r) /\ r.state = "Negotiate" /\ r.tls = "Uninit" /\ r.error = "none"
        /\ r.current_password = k.current_password /\ r.tried = k.tried
        /\ r.enabled_protocols = k.enabled_protocols
        /\ r.requested = k.enabled_protocols \ {"Rdp"}
    BY <2>1, <2>2, <2>3 DEF IsNego, Throws
  <2> QED BY <1>1, <1>6, <2>1, <2>4 DEF FellBack
<1> QED BY <1>3, <1>4, <1>5, <1>6

LEMMA FallbackEffect ==
  ASSUME NEW n, IsNego(n), ~Throws(n), NEW m \in fallback_to_tls(n)
  PROVE  FellBack(n, m)
<1>1. PICK r \in Reconnect(n) : m = IF Throws(r) THEN r ELSE AfterReconnect(r)
  BY DEF fallback_to_tls
<1>2. /\ IsNego(r) /\ SameTurn(n, r) /\ r.tls = "Uninit"
      /\ r.error \in {"none", "ERR_SOCKET_CONNECT_FAILED"}
  BY ReconnectEffect
<1>3. CASE Throws(r)
  BY <1>1, <1>2, <1>3 DEF Throws, FellBack, SameTurn, GiveUp
<1>4. CASE ~Throws(r)
  <2>1. FellBack(r, m)
    BY <1>1, <1>2, <1>4, AfterReconnectEffect
  <2> QED BY <2>1, <1>2 DEF FellBack, SameTurn
<1> QED BY <1>3, <1>4

----------------------------------------------------------------------------
(* The TLS handshake changes nothing of the negotiation but TLS itself, which
   is only in use when the certificate was found valid. *)
Status == {"Uninit", "Wait", "Ok", "Error"}
Tls == {"Uninit", "Want", "WaitCertCb", "Ok"}

TlsFrom(n, st, m) ==
    /\ IsNego(m) /\ SameTurn(n, m) /\ m.tls \in Tls
    /\ m.error \in {"none", "ERR_TRANSPORT_TLS_CERTIFICATE_CHANGED"}
    /\ m.tls = "Ok" => "Valid" \in certificate_checker(st)

LEMMA SetTls ==
  ASSUME NEW n, IsNego(n), ~Throws(n), NEW v
  PROVE  LET m == [n EXCEPT !.tls = v] IN
         IsNego(m) /\ SameTurn(n, m) /\ m.error = "none" /\ m.tls = v
BY DEF IsNego, SameTurn, Throws

LEMMA HandshakeEffect ==
  ASSUME NEW n, IsNego(n), ~Throws(n), NEW st \in Status,
         n.tls \in Tls,
         NEW m \in enable_client_tls(n, st)
  PROVE  TlsFrom(n, st, m)
<1> DEFINE T(v) == [n EXCEPT !.tls = v]
<1>1. \A v : /\ IsNego(T(v)) /\ SameTurn(n, T(v))
             /\ T(v).error = "none" /\ T(v).tls = v
  BY SetTls
<1>2. \/ m \in {T("Want"), T("Uninit"), T("WaitCertCb")}
      \/ "Valid" \in certificate_checker(st) /\ m = T("Ok")
      \/ m = Throw(T("Uninit"), "ERR_TRANSPORT_TLS_CERTIFICATE_CHANGED")
  <2>0. certificate_checker(st) \subseteq {"Valid", "Invalid", "Wait", "throws"}
    BY DEF certificate_checker, Status
  <2>1. CASE n.tls \in {"Uninit", "Want"}
    BY <2>0, <2>1 DEF enable_client_tls, Handshake
  <2>2. CASE n.tls = "WaitCertCb"
    BY <2>2 DEF enable_client_tls, CertificateWait
  <2>3. CASE n.tls = "Ok"
    BY <2>3 DEF enable_client_tls
  <2> QED BY <2>1, <2>2, <2>3 DEF Tls
<1> HIDE DEF T
<1>3. CASE m \in {T("Want"), T("Uninit"), T("WaitCertCb")}
  BY <1>1, <1>3 DEF TlsFrom, Tls
<1>4. CASE "Valid" \in certificate_checker(st) /\ m = T("Ok")
  BY <1>1, <1>4 DEF TlsFrom, Tls
<1>5. CASE m = Throw(T("Uninit"), "ERR_TRANSPORT_TLS_CERTIFICATE_CHANGED")
  <2>1. /\ IsNego(m) /\ SameTurn(T("Uninit"), m) /\ m.tls = "Uninit"
        /\ m.error = "ERR_TRANSPORT_TLS_CERTIFICATE_CHANGED"
    BY <1>1, <1>5, ThrowEffect
  <2> QED BY <1>1, <2>1 DEF TlsFrom, Tls, SameTurn
<1> QED BY <1>2, <1>3, <1>4, <1>5

----------------------------------------------------------------------------
(* The order of the passwords. *)
Try == [password : Nat, mechanism : {"krb", "ntlm"}]

Follows(a, b) == \/ b.password = a.password + 1
                 \/ b.password = a.password /\ a.mechanism = "krb" /\ b.mechanism = "ntlm"

InTurn(t) == \A i \in 1..Len(t) - 1 : Follows(t[i], t[i + 1])

LastTry(t) == t[Len(t)]

LEMMA AppendInTurn ==
  ASSUME NEW t \in Seq(Try), InTurn(t), NEW e \in Try,
         t = << >> \/ Follows(LastTry(t), e)
  PROVE  /\ Append(t, e) \in Seq(Try) /\ Append(t, e) # << >>
         /\ InTurn(Append(t, e)) /\ LastTry(Append(t, e)) = e
<1> DEFINE u == Append(t, e)
<1>1. u \in Seq(Try) /\ Len(u) = Len(t) + 1 /\ u[Len(u)] = e /\ Len(t) \in Nat
  OBVIOUS
<1>2. \A i \in 1..Len(t) : u[i] = t[i]
  OBVIOUS
<1>3. t = << >> => Len(t) = 0
  OBVIOUS
<1>4. u # << >>
  OBVIOUS
<1> HIDE DEF u
<1>5. ASSUME NEW i \in 1..Len(u) - 1 PROVE Follows(u[i], u[i + 1])
  <2>1. CASE i = Len(t)
    BY <2>1, <1>1, <1>2, <1>3 DEF LastTry
  <2>2. CASE i # Len(t)
    <3>1. i \in 1..Len(t) - 1 /\ i + 1 \in 1..Len(t)
      BY <2>2, <1>1
    <3> QED BY <3>1, <1>2 DEF InTurn
  <2> QED BY <2>1, <2>2
<1> QED BY <1>1, <1>4, <1>5 DEF InTurn, LastTry, u

(* What every negotiation satisfies. *)
Turns(n) == /\ IsNego(n) /\ n.tls \in Tls /\ n.enabled_protocols \subseteq Protocol
            /\ n.tried \in Seq(Try) /\ InTurn(n.tried)
            /\ n.current_password \in Nat

(* The current password was not tried yet; it was tried. *)
Untried(n) == n.tried # << >> => LastTry(n.tried).password + 1 = n.current_password
Tried(n) == n.tried # << >> /\ LastTry(n.tried).password = n.current_password

(* NLA is given up after the last password. *)
GaveUp(n) ==
    n.error \in GiveUp \/ ("nla" \in opt /\ "Nla" \notin n.enabled_protocols
                             /\ "Tls" \in n.enabled_protocols)
        => n.tried # << >> /\ LastTry(n.tried).password = passwords

(* NLA is only tried when it is enabled, and then a password is left. *)
NlaOpen(n) == /\ "nla" \in opt /\ "Nla" \in n.enabled_protocols
              /\ n.current_password <= passwords

Settled(n) == /\ n.selected_protocol \in enabled_at_first
              /\ n.enabled_protocols = {"Rdp"} <=> n.selected_protocol = "Rdp"

NegoState == {"Negotiate", "SslHybrid", "Tls", "Credssp", "Final"}

(* Where a negotiation that goes on is. *)
Going(n) ==
    /\ n.state \in NegoState
    /\ "Nla" \in n.enabled_protocols => NlaOpen(n)
    /\ n.state = "Negotiate" =>
          Untried(n) /\ n.requested = n.enabled_protocols \ {"Rdp"}
    /\ n.state = "SslHybrid" => n.selected_protocol = "Nla" /\ NlaOpen(n) /\ Untried(n)
    /\ n.state = "Credssp" => n.selected_protocol = "Nla" /\ NlaOpen(n) /\ Tried(n)
    /\ n.state = "Tls" => /\ n.selected_protocol = "Tls" /\ "Tls" \in n.enabled_protocols
                          /\ "tls_only" \in opt
    /\ n.state = "Final" => Settled(n)

NegoInv(n) == Turns(n) /\ GaveUp(n) /\ (~Throws(n) => Going(n))

ValidAfter(n, st, m) == m.tls = "Ok" => n.tls = "Ok" \/ "Valid" \in certificate_checker(st)

(* fallback_to_tls after a password was tried. *)
LEMMA FallbackKeeps ==
  ASSUME NEW n, Turns(n), ~Throws(n), Tried(n), NlaOpen(n), passwords \in Nat,
         NEW m \in fallback_to_tls(n)
  PROVE  NegoInv(m) /\ m.tls = "Uninit"
<1>1. FellBack(n, m)
  BY FallbackEffect DEF Turns
<1>2. Turns(m) /\ m.tls = "Uninit" /\ m.tried = n.tried /\ m.tried # << >>
  BY <1>1 DEF Turns, FellBack, Tls, Tried, Protocol
<1>n. /\ n.current_password \in Nat /\ n.current_password <= passwords
      /\ LastTry(m.tried).password = n.current_password
      /\ "Nla" \in n.enabled_protocols /\ "nla" \in opt
  BY <1>2 DEF Turns, NlaOpen, Tried
<1>3. CASE m.error \notin GiveUp \cup {"none"} /\ m.enabled_protocols = n.enabled_protocols
  BY <1>2, <1>3, <1>n DEF NegoInv, GaveUp, Throws
<1>4. CASE ~(n.current_password + 1 <= passwords) /\ m.error \in GiveUp
  <2>1. LastTry(m.tried).password = passwords
    BY <1>n, <1>4
  <2> QED BY <1>2, <1>4, <2>1 DEF NegoInv, GaveUp, Throws, GiveUp
<1>5. CASE /\ m.error = "none" /\ m.state = "Negotiate"
           /\ m.current_password = n.current_password + 1
           /\ m.enabled_protocols = n.enabled_protocols
           /\ m.requested = m.enabled_protocols \ {"Rdp"}
           /\ n.current_password + 1 <= passwords
  <2>1. NlaOpen(m) /\ Untried(m)
    BY <1>n, <1>5 DEF NlaOpen, Untried
  <2>2. Going(m)
    BY <1>5, <2>1 DEF Going, NegoState
  <2>3. GaveUp(m)
    BY <1>5, <1>n DEF GaveUp, GiveUp
  <2> QED BY <1>2, <2>2, <2>3 DEF NegoInv
<1>6. CASE /\ m.error = "none" /\ m.state = "Negotiate"
           /\ m.current_password = n.current_password + 1
           /\ m.enabled_protocols = {"Tls", "Rdp"}
           /\ m.requested = m.enabled_protocols \ {"Rdp"}
           /\ ~(n.current_password + 1 <= passwords)
  <2>1. LastTry(m.tried).password = passwords
    BY <1>n, <1>6
  <2>2. Untried(m)
    BY <1>n, <1>6 DEF Untried
  <2>3. Going(m)
    BY <1>6, <2>2 DEF Going, NegoState
  <2> QED BY <1>2, <2>1, <2>3 DEF NegoInv, GaveUp
<1> QED BY <1>1, <1>3, <1>4, <1>5, <1>6 DEF FellBack

(* A mechanism is started with the current password. *)
LEMMA TryEffect ==
  ASSUME NEW n, Turns(n), ~Throws(n), NEW mechanism \in {"krb", "ntlm"},
         \/ Untried(n)
         \/ Tried(n) /\ LastTry(n.tried).mechanism = "krb" /\ mechanism = "ntlm"
  PROVE  LET m == Tries(n, mechanism) IN
         /\ Turns(m) /\ ~Throws(m) /\ Tried(m) /\ m.tls = n.tls
         /\ LastTry(m.tried).mechanism = mechanism
         /\ m.enabled_protocols = n.enabled_protocols
         /\ m.selected_protocol = n.selected_protocol
         /\ m.current_password = n.current_password
<1> DEFINE e == [password |-> n.current_password, mechanism |-> mechanism]
           m == Tries(n, mechanism)
<1>1. e \in Try
  BY DEF Turns, Try
<1>2. n.tried = << >> \/ Follows(LastTry(n.tried), e)
  BY DEF Untried, Tried, Follows
<1>3. LET u == Append(n.tried, e) IN
      u \in Seq(Try) /\ u # << >> /\ InTurn(u) /\ LastTry(u) = e
  BY <1>1, <1>2, AppendInTurn DEF Turns
<1>4. /\ IsNego(m) /\ m.tried = Append(n.tried, e) /\ m.tls = n.tls /\ m.error = n.error
      /\ m.enabled_protocols = n.enabled_protocols
      /\ m.selected_protocol = n.selected_protocol
      /\ m.current_password = n.current_password
  BY DEF Tries, IsNego, Turns
<1> HIDE DEF m
<1> QED BY <1>3, <1>4 DEF Turns, Throws, Tried, m

(* NLA is about to be tried with the current password. *)
NlaReady(n) == Turns(n) /\ ~Throws(n) /\ NlaOpen(n) /\ n.selected_protocol = "Nla"

LEMMA StartedKeeps ==
  ASSUME NEW n, NlaReady(n), Tried(n)
  PROVE  NegoInv(Started(n)) /\ Started(n).tls = n.tls
<1> DEFINE m == Started(n)
<1>1. /\ IsNego(m) /\ m.state = "Credssp" /\ m.tls = n.tls /\ m.tried = n.tried
      /\ m.enabled_protocols = n.enabled_protocols /\ m.error = "none"
      /\ m.selected_protocol = "Nla" /\ m.current_password = n.current_password
  BY DEF Started, IsNego, NlaReady, Turns, Throws
<1> HIDE DEF m
<1>2. Turns(m) /\ NlaOpen(m) /\ Tried(m)
  BY <1>1 DEF NlaReady, Turns, NlaOpen, Tried
<1>3. Going(m)
  BY <1>1, <1>2 DEF Going, NegoState
<1>4. GaveUp(m)
  BY <1>1, <1>2 DEF GaveUp, NlaOpen, GiveUp
<1> QED BY <1>1, <1>2, <1>3, <1>4 DEF NegoInv, m

LEMMA NtlmKeeps ==
  ASSUME NEW n, NlaReady(n), passwords \in Nat,
         Untried(n) \/ (Tried(n) /\ LastTry(n.tried).mechanism = "krb"),
         NEW m \in StartNtlm(n)
  PROVE  NegoInv(m) /\ (m.tls = "Ok" => n.tls = "Ok")
<1> DEFINE t == Tries(n, "ntlm")
<1>1. NlaReady(t) /\ Tried(t) /\ t.tls = n.tls
  BY TryEffect DEF NlaReady, NlaOpen
<1>2. m = Started(t) \/ m \in fallback_to_tls(t)
  BY DEF StartNtlm
<1> HIDE DEF t
<1>3. CASE m = Started(t)
  BY <1>1, <1>3, StartedKeeps
<1>4. CASE m \in fallback_to_tls(t)
  BY <1>1, <1>4, FallbackKeeps DEF NlaReady
<1> QED BY <1>2, <1>3, <1>4

LEMMA CredsspKeeps ==
  ASSUME NEW n, NlaReady(n), Untried(n), passwords \in Nat, NEW m \in StartCredssp(n)
  PROVE  NegoInv(m) /\ (m.tls = "Ok" => n.tls = "Ok")
<1> DEFINE a == [n EXCEPT !.nla_tried = TRUE]
<1>1. NlaReady(a) /\ Untried(a) /\ a.tls = n.tls
  <2>1. /\ IsNego(a) /\ SameTurn(n, a) /\ a.tls = n.tls /\ a.error = n.error
    BY DEF IsNego, SameTurn, NlaReady, Turns
  <2> QED BY <2>1 DEF NlaReady, Turns, NlaOpen, Untried, Throws, SameTurn
<1>2. m \in StartKerberos(a) \/ m \in StartNtlm(a)
  BY DEF StartCredssp
<1> HIDE DEF a
<1>3. CASE m \in StartNtlm(a)
  BY <1>1, <1>3, NtlmKeeps
<1>4. CASE m \in StartKerberos(a)
  <2> DEFINE t == Tries(a, "krb")
             f == [t EXCEPT !.krb_state = FALSE]
  <2>1. NlaReady(t) /\ Tried(t) /\ t.tls = n.tls /\ LastTry(t.tried).mechanism = "krb"
    BY <1>1, TryEffect DEF NlaReady, NlaOpen
  <2>2. m = Started(t) \/ m \in StartNtlm(f) \/ m \in fallback_to_tls(t)
    BY <1>4 DEF StartKerberos
  <2> HIDE DEF t
  <2>3. NlaReady(f) /\ Tried(f) /\ f.tls = n.tls /\ LastTry(f.tried).mechanism = "krb"
    <3>1. /\ IsNego(f) /\ SameTurn(t, f) /\ f.tls = t.tls /\ f.error = t.error
      BY <2>1 DEF IsNego, SameTurn, NlaReady, Turns
    <3> QED BY <2>1, <3>1 DEF NlaReady, Turns, NlaOpen, Tried, Throws, SameTurn
  <2> HIDE DEF f
  <2>4. CASE m = Started(t)
    BY <2>1, <2>4, StartedKeeps
  <2>5. CASE m \in StartNtlm(f)
    BY <2>3, <2>5, NtlmKeeps
  <2>6. CASE m \in fallback_to_tls(t)
    BY <2>1, <2>6, FallbackKeeps DEF NlaReady
  <2> QED BY <2>2, <2>4, <2>5, <2>6
<1> QED BY <1>2, <1>3, <1>4

----------------------------------------------------------------------------
(* The activation of TLS, alone or under CredSSP. *)
LEMMA HybridKeeps ==
  ASSUME NEW n, NlaReady(n), Untried(n), passwords \in Nat, NEW st \in Status,
         NEW m \in activate_ssl_hybrid(n, st)
  PROVE  NegoInv(m) /\ ValidAfter(n, st, m)
<1>1. PICK h \in enable_client_tls(n, st) :
        m \in IF Throws(h) THEN {h}
              ELSE IF TlsPending(h) THEN {[h EXCEPT !.state = "SslHybrid"]}
              ELSE StartCredssp(h)
  BY DEF activate_ssl_hybrid
<1>2. TlsFrom(n, st, h)
  BY HandshakeEffect DEF NlaReady, Turns
<1>3. Turns(h) /\ NlaOpen(h) /\ h.selected_protocol = "Nla" /\ Untried(h)
      /\ h.error \notin GiveUp
  BY <1>2 DEF TlsFrom, NlaReady, Turns, SameTurn, NlaOpen, Untried, GiveUp
<1>4. CASE Throws(h)
  BY <1>1, <1>2, <1>3, <1>4 DEF NegoInv, GaveUp, NlaOpen, ValidAfter, TlsFrom
<1>5. CASE ~Throws(h) /\ TlsPending(h)
  <2>1. m = [h EXCEPT !.state = "SslHybrid"]
    BY <1>1, <1>5
  <2>2. /\ IsNego(m) /\ m.state = "SslHybrid" /\ m.tls = h.tls /\ m.tried = h.tried
        /\ m.enabled_protocols = h.enabled_protocols /\ m.error = h.error
        /\ m.selected_protocol = "Nla" /\ m.current_password = h.current_password
    BY <1>3, <2>1 DEF IsNego, Turns
  <2>3. Turns(m) /\ NlaOpen(m) /\ Untried(m)
    BY <1>3, <2>2 DEF Turns, NlaOpen, Untried
  <2>4. Going(m)
    BY <2>2, <2>3 DEF Going, NegoState
  <2>5. GaveUp(m)
    BY <1>3, <2>2, <2>3 DEF GaveUp, NlaOpen
  <2> QED BY <1>2, <2>2, <2>3, <2>4, <2>5 DEF NegoInv, ValidAfter, TlsFrom
<1>6. CASE ~Throws(h) /\ ~TlsPending(h)
  <2>1. m \in StartCredssp(h)
    BY <1>1, <1>6
  <2>2. NegoInv(m) /\ (m.tls = "Ok" => h.tls = "Ok")
    BY <1>3, <1>6, <2>1, CredsspKeeps DEF NlaReady
  <2> QED BY <1>2, <2>2 DEF ValidAfter, TlsFrom
<1> QED BY <1>4, <1>5, <1>6

LEMMA TlsKeeps ==
  ASSUME NEW n, Turns(n), ~Throws(n), GaveUp(n), n.selected_protocol = "Tls",
         "tls_only" \in opt, "Tls" \in n.enabled_protocols,
         "Nla" \in n.enabled_protocols => NlaOpen(n),
         NEW st \in Status, NEW m \in activate_ssl_tls(n, st)
  PROVE  NegoInv(m) /\ ValidAfter(n, st, m)
<1>1. PICK h \in enable_client_tls(n, st) :
        m = IF Throws(h) THEN h
            ELSE [h EXCEPT !.state = IF TlsPending(h) THEN "Tls" ELSE "Final"]
  BY DEF activate_ssl_tls
<1>2. TlsFrom(n, st, h)
  BY HandshakeEffect DEF Turns
<1>3. /\ Turns(h) /\ h.error \notin GiveUp /\ h.selected_protocol = "Tls"
      /\ h.enabled_protocols = n.enabled_protocols /\ h.tried = n.tried
      /\ h.current_password = n.current_password
  BY <1>2 DEF TlsFrom, Turns, SameTurn, GiveUp
<1>4. GaveUp(h)
  BY <1>3 DEF GaveUp
<1>5. CASE Throws(h)
  BY <1>1, <1>2, <1>3, <1>4, <1>5 DEF NegoInv, ValidAfter, TlsFrom
<1>6. CASE ~Throws(h)
  <2>1. PICK s \in {"Tls", "Final"} : m = [h EXCEPT !.state = s]
    BY <1>1, <1>6
  <2>2. /\ IsNego(m) /\ m.state = s /\ m.tls = h.tls /\ m.tried = h.tried
        /\ m.enabled_protocols = h.enabled_protocols /\ m.error = h.error
        /\ m.selected_protocol = "Tls" /\ m.current_password = h.current_password
    BY <1>3, <2>1 DEF IsNego, Turns
  <2>3. Turns(m) /\ GaveUp(m)
    BY <1>3, <1>4, <2>2 DEF Turns, GaveUp
  <2>4. Settled(m)
    BY <1>3, <2>2 DEF Settled, enabled_at_first, Protocol
  <2>5. "Nla" \in m.enabled_protocols => NlaOpen(m)
    BY <1>3, <2>2 DEF NlaOpen
  <2>6. Going(m)
    BY <1>3, <2>2, <2>4, <2>5 DEF Going, NegoState
  <2> QED BY <1>2, <2>2, <2>3, <2>6 DEF NegoInv, ValidAfter, TlsFrom
<1> QED BY <1>5, <1>6

(* An error that is not about NLA: nothing is tried. *)
LEMMA ThrowKeeps ==
  ASSUME NEW n, Turns(n), GaveUp(n), NEW e, e \notin GiveUp \cup {"none"}
  PROVE  NegoInv(Throw(n, e)) /\ Throw(n, e).tls = n.tls
<1> DEFINE m == Throw(n, e)
<1>1. IsNego(m) /\ SameTurn(n, m) /\ m.tls = n.tls /\ m.error = e
  BY ThrowEffect DEF Turns
<1> HIDE DEF m
<1>2. Turns(m) /\ GaveUp(m)
  BY <1>1 DEF Turns, GaveUp, SameTurn
<1> QED BY <1>1, <1>2 DEF NegoInv, Throws, m

LEMMA CredsspTokensKeep ==
  ASSUME NEW n, NegoInv(n), ~Throws(n), n.state = "Credssp", passwords \in Nat,
         NEW m \in recv_credssp(n)
  PROVE  NegoInv(m) /\ (m.tls = "Ok" => n.tls = "Ok")
<1>1. Turns(n) /\ NlaOpen(n) /\ Tried(n) /\ n.selected_protocol = "Nla" /\ GaveUp(n)
  BY DEF NegoInv, Going
<1> DEFINE s == [n EXCEPT !.stale = TRUE]
           f == [n EXCEPT !.state = "Final"]
<1>2. \/ m \in fallback_to_tls(n) \/ m \in fallback_to_tls(s)
      \/ m = Throw(n, "ERR_TRANSPORT_WRITE_FAILED")
      \/ m = f
  BY DEF recv_credssp
<1>3. Turns(s) /\ NlaOpen(s) /\ Tried(s) /\ ~Throws(s)
  <2>1. IsNego(s) /\ SameTurn(n, s) /\ s.tls = n.tls /\ s.error = n.error
    BY <1>1 DEF IsNego, SameTurn, Turns
  <2> QED BY <1>1, <2>1 DEF Turns, NlaOpen, Tried, Throws, SameTurn
<1>4. /\ IsNego(f) /\ f.state = "Final" /\ f.tls = n.tls /\ f.tried = n.tried
      /\ f.enabled_protocols = n.enabled_protocols /\ f.error = n.error
      /\ f.selected_protocol = "Nla" /\ f.current_password = n.current_password
  BY <1>1 DEF IsNego, Turns
<1> HIDE DEF s, f
<1>5. CASE m \in fallback_to_tls(n)
  BY <1>1, <1>5, FallbackKeeps
<1>6. CASE m \in fallback_to_tls(s)
  BY <1>3, <1>6, FallbackKeeps
<1>7. CASE m = Throw(n, "ERR_TRANSPORT_WRITE_FAILED")
  BY <1>1, <1>7, ThrowKeeps DEF GiveUp
<1>8. CASE m = f
  <2>1. Turns(f) /\ GaveUp(f) /\ NlaOpen(f)
    BY <1>1, <1>4 DEF Turns, GaveUp, NlaOpen
  <2>2. Settled(f)
    BY <1>4, <2>1 DEF Settled, NlaOpen, enabled_at_first, Protocol
  <2>3. Going(f)
    BY <1>4, <2>1, <2>2 DEF Going, NegoState
  <2> QED BY <1>4, <1>8, <2>1, <2>3 DEF NegoInv
<1> QED BY <1>2, <1>5, <1>6, <1>7, <1>8

(* The target chose the legacy encryption. *)
LEMMA SelectRdpKeeps ==
  ASSUME NEW n, NegoInv(n), ~Throws(n)
  PROVE  NegoInv(SelectRdp(n)) /\ SelectRdp(n).tls = n.tls
<1>1. CASE "rdp_legacy" \notin opt
  <2>1. SelectRdp(n) = Throw(n, "ERR_NEGO_RDP_LEGACY_FORBIDDEN")
    BY <1>1 DEF SelectRdp
  <2> QED BY <2>1, ThrowKeeps DEF NegoInv, GiveUp
<1>2. CASE "rdp_legacy" \in opt
  <2> DEFINE m == SelectRdp(n)
  <2>1. /\ IsNego(m) /\ m.state = "Final" /\ m.tls = n.tls /\ m.tried = n.tried
        /\ m.enabled_protocols = {"Rdp"} /\ m.error = n.error
        /\ m.selected_protocol = "Rdp" /\ m.current_password = n.current_password
    BY <1>2 DEF SelectRdp, Legacy, IsNego, NegoInv, Turns
  <2> HIDE DEF m
  <2>2. Turns(m)
    BY <2>1 DEF NegoInv, Turns, Protocol
  <2>3. GaveUp(m)
    BY <2>1 DEF GaveUp, Throws, GiveUp
  <2>4. Settled(m)
    BY <1>2, <2>1 DEF Settled, enabled_at_first, Protocol
  <2>5. Going(m)
    BY <2>1, <2>4 DEF Going, NegoState
  <2> QED BY <2>1, <2>2, <2>3, <2>5 DEF NegoInv, m
<1> QED BY <1>1, <1>2

(* A new connection for the legacy encryption alone. *)
LEMMA LegacyKeeps ==
  ASSUME NEW n, NegoInv(n), ~Throws(n), n.state = "Negotiate", NEW r \in Reconnect(n),
         NEW m, m = IF Throws(r) THEN r ELSE send_negotiation_request(Legacy(r))
  PROVE  NegoInv(m) /\ m.tls = "Uninit"
<1>1. /\ IsNego(r) /\ SameTurn(n, r) /\ r.tls = "Uninit"
      /\ r.error \in {"none", "ERR_SOCKET_CONNECT_FAILED"}
  BY ReconnectEffect DEF NegoInv, Turns
<1>2. Turns(r) /\ GaveUp(r) /\ Untried(r)
  BY <1>1 DEF NegoInv, Turns, SameTurn, GaveUp, Going, Untried, Tls, GiveUp
<1>3. CASE Throws(r)
  BY <1>1, <1>2, <1>3 DEF NegoInv
<1>4. CASE ~Throws(r)
  <2> DEFINE l == Legacy(r)
  <2>1. /\ IsNego(l) /\ l.state = r.state /\ l.tls = r.tls /\ l.tried = r.tried
        /\ l.enabled_protocols = {"Rdp"} /\ l.error = r.error
        /\ l.current_password = r.current_password
    BY <1>1 DEF Legacy, IsNego
  <2>2. m = send_negotiation_request(l)
    BY <1>4
  <2> HIDE DEF l
  <2>3. /\ IsNego(m) /\ m.state = "Negotiate" /\ m.tls = "Uninit" /\ m.tried = r.tried
        /\ m.enabled_protocols = {"Rdp"} /\ m.current_password = r.current_password
        /\ m.error \notin GiveUp
        /\ m.error = "none" => m.requested = m.enabled_protocols \ {"Rdp"}
    BY <1>1, <1>4, <2>1, <2>2, RequestEffect DEF SameTurn, Throws, GiveUp
  <2>4. Turns(m) /\ GaveUp(m) /\ Untried(m)
    BY <1>2, <2>3 DEF Turns, GaveUp, Untried, Tls, Protocol
  <2>5. ~Throws(m) => Going(m)
    BY <2>3, <2>4 DEF Going, NegoState, Throws
  <2> QED BY <2>3, <2>4, <2>5 DEF NegoInv
<1> QED BY <1>3, <1>4

(* The target's answer to the request. *)
LEMMA ConfirmKeeps ==
  ASSUME NEW n, NegoInv(n), ~Throws(n), n.state = "Negotiate", passwords \in Nat,
         NEW st \in Status, NEW answer \in Answer(n.requested),
         NEW m \in recv_connection_confirm(n, answer, st)
  PROVE  NegoInv(m) /\ ValidAfter(n, st, m)
<1>1. Turns(n) /\ GaveUp(n) /\ Going(n)
  BY DEF NegoInv
<1>2. n.requested = n.enabled_protocols \ {"Rdp"} /\ Untried(n)
  BY <1>1 DEF Going
<1>3. /\ answer \in {"Nla", "Tls", "Rdp", "HYBRID_REQUIRED_BY_SERVER",
            "SSL_REQUIRED_BY_SERVER", "SSL_NOT_ALLOWED_BY_SERVER", "INCONSISTENT_FLAGS"}
      /\ answer \in {"Nla", "Tls"} => answer \in n.enabled_protocols
  BY <1>1, <1>2 DEF Answer, Turns, Protocol
<1>t. ASSUME NEW e, e \notin GiveUp \cup {"none"}, m = Throw(n, e)
      PROVE  NegoInv(m) /\ ValidAfter(n, st, m)
  BY <1>t, <1>1, ThrowKeeps DEF ValidAfter
<1> DEFINE c == [n EXCEPT !.fd = NoFd, !.tls = "Uninit"]
<1>c. Turns(c) /\ GaveUp(c) /\ c.tls = "Uninit"
  <2>1. IsNego(c) /\ SameTurn(n, c) /\ c.tls = "Uninit" /\ c.error = n.error
    BY <1>1 DEF IsNego, SameTurn, Turns
  <2> QED BY <1>1, <2>1 DEF Turns, GaveUp, SameTurn, Tls
<1> HIDE DEF c
<1>d. ASSUME NEW e, e \notin GiveUp \cup {"none"}, m = Throw(c, e)
      PROVE  NegoInv(m) /\ ValidAfter(n, st, m)
  BY <1>d, <1>c, ThrowKeeps DEF ValidAfter
<1> DEFINE p(x) == [n EXCEPT !.selected_protocol = x]
<1>p. ASSUME NEW x
      PROVE  /\ Turns(p(x)) /\ GaveUp(p(x)) /\ Untried(p(x)) /\ ~Throws(p(x))
             /\ p(x).tls = n.tls /\ p(x).selected_protocol = x
             /\ p(x).enabled_protocols = n.enabled_protocols
             /\ "Nla" \in n.enabled_protocols => NlaOpen(p(x))
  <2> DEFINE q == p(x)
  <2>1. /\ IsNego(q) /\ q.state = n.state /\ q.tls = n.tls /\ q.tried = n.tried
        /\ q.enabled_protocols = n.enabled_protocols /\ q.error = n.error
        /\ q.selected_protocol = x /\ q.current_password = n.current_password
    BY <1>1 DEF IsNego, Turns
  <2> HIDE DEF q
  <2>2. Turns(q) /\ GaveUp(q) /\ Untried(q) /\ ~Throws(q)
    BY <1>1, <1>2, <2>1 DEF Turns, GaveUp, Untried, Throws
  <2>3. "Nla" \in n.enabled_protocols => NlaOpen(q)
    BY <1>1, <2>1 DEF Going, NlaOpen
  <2> QED BY <2>1, <2>2, <2>3 DEF q
<1>4. CASE answer = "Nla"
  <2>1. m \in activate_ssl_hybrid(p("Nla"), st)
    BY <1>4 DEF recv_connection_confirm
  <2>2. NlaReady(p("Nla")) /\ Untried(p("Nla")) /\ p("Nla").tls = n.tls
    BY <1>3, <1>4, <1>p DEF NlaReady
  <2> HIDE DEF p
  <2> QED BY <2>1, <2>2, HybridKeeps DEF ValidAfter
<1>5. CASE answer = "Tls" /\ "tls_only" \in opt
  <2>1. m \in activate_ssl_tls(p("Tls"), st)
    BY <1>5 DEF recv_connection_confirm
  <2>2. /\ Turns(p("Tls")) /\ GaveUp(p("Tls")) /\ ~Throws(p("Tls"))
        /\ p("Tls").tls = n.tls /\ p("Tls").selected_protocol = "Tls"
        /\ "Tls" \in p("Tls").enabled_protocols
        /\ "Nla" \in p("Tls").enabled_protocols => NlaOpen(p("Tls"))
    BY <1>3, <1>5, <1>p
  <2> HIDE DEF p
  <2> QED BY <1>5, <2>1, <2>2, TlsKeeps DEF ValidAfter
<1>6. CASE answer = "Tls" /\ "tls_only" \notin opt
  BY <1>6, <1>t DEF recv_connection_confirm, GiveUp
<1>7. CASE answer = "Rdp"
  BY <1>7, SelectRdpKeeps DEF recv_connection_confirm, ValidAfter
<1>8. CASE answer = "HYBRID_REQUIRED_BY_SERVER"
  <2>1. PICK e \in {"ERR_NLA_AUTHENTICATION_FAILED", "ERR_NEGO_HYBRID_REQUIRED_BY_SERVER"} :
          m = Throw(c, e)
    BY <1>8 DEF recv_connection_confirm, c
  <2> QED BY <2>1, <1>d DEF GiveUp
<1>9. CASE answer = "SSL_REQUIRED_BY_SERVER"
  <2>1. m = Throw(c, "ERR_NEGO_SSL_REQUIRED_BY_SERVER")
    BY <1>9 DEF recv_connection_confirm, c
  <2> QED BY <2>1, <1>d DEF GiveUp
<1>10. CASE answer = "SSL_NOT_ALLOWED_BY_SERVER" /\ "rdp_legacy" \in opt
  <2>1. PICK r \in Reconnect(n) :
          m = IF Throws(r) THEN r ELSE send_negotiation_request(Legacy(r))
    BY <1>10 DEF recv_connection_confirm
  <2> QED BY <2>1, LegacyKeeps DEF ValidAfter
<1>11. CASE answer = "SSL_NOT_ALLOWED_BY_SERVER" /\ "rdp_legacy" \notin opt
  BY <1>11, <1>t DEF recv_connection_confirm, GiveUp
<1>12. CASE answer = "INCONSISTENT_FLAGS"
  BY <1>12, <1>t DEF recv_connection_confirm, GiveUp
<1> QED BY <1>3, <1>4, <1>5, <1>6, <1>7, <1>8, <1>9, <1>10, <1>11, <1>12

(* Everything RdpNego does with the data of the target. *)
LEMMA RecvKeeps ==
  ASSUME NEW n, NegoInv(n), ~Throws(n), passwords \in Nat,
         NEW st \in Status, NEW m \in recv_next_data(n, st)
  PROVE  NegoInv(m) /\ ValidAfter(n, st, m)
<1>1. Turns(n) /\ GaveUp(n) /\ Going(n)
  BY DEF NegoInv
<1>2. CASE n.state = "Negotiate"
  <2>1. \/ m = n \/ m = Throw(n, "ERR_TRANSPORT_NO_MORE_DATA") \/ m = Throw(n, "ERR_X224")
        \/ \E a \in Answer(n.requested) : m \in recv_connection_confirm(n, a, st)
    BY <1>2 DEF recv_next_data, Negotiate
  <2>2. ASSUME NEW e \in {"ERR_TRANSPORT_NO_MORE_DATA", "ERR_X224"}, m = Throw(n, e)
        PROVE  NegoInv(m) /\ ValidAfter(n, st, m)
    BY <2>2, <1>1, ThrowKeeps DEF GiveUp, ValidAfter
  <2> QED BY <1>2, <2>1, <2>2, ConfirmKeeps DEF ValidAfter
<1>3. CASE n.state = "SslHybrid"
  BY <1>1, <1>3, HybridKeeps DEF recv_next_data, Going, NlaReady
<1>4. CASE n.state = "Tls"
  BY <1>1, <1>4, TlsKeeps DEF recv_next_data, Going
<1>5. CASE n.state = "Credssp"
  BY <1>5, CredsspTokensKeep DEF recv_next_data, ValidAfter
<1>6. CASE n.state = "Final"
  BY <1>6 DEF recv_next_data, ValidAfter
<1> QED BY <1>1, <1>2, <1>3, <1>4, <1>5, <1>6 DEF Going, NegoState

----------------------------------------------------------------------------
(* The inductive invariant of the connection. *)
IsConn(c) == c \in
    [state : {c.state}, joined : {c.joined}, event : {c.event},
     finalization : {c.finalization}, reactivation : {c.reactivation},
     upped : {c.upped}, signal : {c.signal}, pc : {c.pc}]

Early == {"NEGO_INITIATE", "NEGO"}

(* Before the first request. *)
Starting(n) == /\ n.state = "Negotiate" /\ n.tried = << >>
               /\ "Nla" \in n.enabled_protocols => NlaOpen(n)

Negotiated ==
    /\ conn.state = "NEGO_INITIATE" /\ ~Throws(nego) => Starting(nego)
    /\ conn.state = "NEGO" /\ ~Throws(nego) => Going(nego)
    /\ conn.state \notin Early => Settled(nego)

Approved ==
    AsksManager /\ (nego.tls = "Ok" \/ status = "Ok") => verdict = "Ok"

ConnInv == /\ passwords \in Nat \ {0} /\ status \in Status
           /\ IsConn(conn) /\ Turns(nego) /\ GaveUp(nego)
           /\ Negotiated /\ Approved

LEMMA InitConn == Init => ConnInv
<1> SUFFICES ASSUME Init PROVE ConnInv
  OBVIOUS
<1>1. PICK fd \in Descriptor : nego = FirstNego(fd)
  BY DEF Init
<1>2. passwords \in Nat \ {0} /\ status \in Status /\ IsConn(conn)
      /\ conn.state = "NEGO_INITIATE" /\ status = "Uninit"
  BY NegoAssumption DEF Init, Status, IsConn
<1>3. /\ IsNego(nego) /\ nego.state = "Negotiate" /\ nego.tls = "Uninit"
      /\ nego.tried = << >> /\ nego.enabled_protocols = enabled_at_first
      /\ nego.current_password = 1 /\ nego.error = "none"
  BY <1>1 DEF FirstNego, IsNego
<1>4. << >> \in Seq(Try) /\ InTurn(<< >>)
  BY EmptySeq DEF InTurn
<1>5. Turns(nego)
  BY <1>3, <1>4 DEF Turns, Tls, enabled_at_first
<1>6. GaveUp(nego)
  BY <1>3 DEF GaveUp, enabled_at_first, Protocol, GiveUp
<1>7. "Nla" \in nego.enabled_protocols => NlaOpen(nego)
  BY <1>2, <1>3 DEF NlaOpen, enabled_at_first
<1>8. Negotiated
  BY <1>2, <1>3, <1>7 DEF Negotiated, Starting, Early
<1>9. Approved
  BY <1>2, <1>3 DEF Approved
<1> QED BY <1>2, <1>5, <1>6, <1>8, <1>9 DEF ConnInv

(* A step that leaves the negotiation alone. *)
LEMMA QuietKeeps ==
  ASSUME ConnInv, UNCHANGED <<opt, passwords, nego, status, verdict>>, IsConn(conn'),
         conn'.state = conn.state \/ (conn.state \notin Early /\ conn'.state \notin Early)
  PROVE  ConnInv'
<1>1. Turns(nego)' /\ GaveUp(nego)' /\ Approved' /\ passwords' \in Nat \ {0}
      /\ status' \in Status
  BY DEF ConnInv, Turns, GaveUp, Approved, AsksManager
<1>2. Going(nego)' <=> Going(nego)
  BY DEF Going, NlaOpen, Settled, enabled_at_first
<1>3. Settled(nego)' <=> Settled(nego)
  BY DEF Settled, enabled_at_first
<1>4. Starting(nego)' <=> Starting(nego)
  BY DEF Starting, NlaOpen
<1>5. Negotiated'
  BY <1>2, <1>3, <1>4 DEF ConnInv, Negotiated, Early
<1> QED BY <1>1, <1>5 DEF ConnInv

(* An error that is not about NLA. *)
LEMMA ErrorKeeps ==
  ASSUME ConnInv, NEW e, e \notin GiveUp \cup {"none"},
         nego' = Throw(nego, e) \/ nego' = Ends(Throw(nego, e)),
         IsConn(conn'), conn'.state = conn.state, UNCHANGED <<opt, passwords>>,
         status' \in Status, \/ verdict' = verdict /\ status' = status
                             \/ verdict = "none" /\ status' # "Ok"
  PROVE  ConnInv'
<1> DEFINE t == Throw(nego, e)
<1>1. NegoInv(t) /\ t.tls = nego.tls /\ IsNego(t) /\ SameTurn(nego, t) /\ t.error = e
  BY ThrowKeeps, ThrowEffect DEF ConnInv, Turns
<1>2. PICK d : d \notin GiveUp \cup {"none"} /\ (nego' = t \/ nego' = Throw(t, d))
  BY <1>1 DEF Ends, GiveUp
<1> HIDE DEF t
<1>3. /\ IsNego(nego') /\ SameTurn(nego, nego') /\ nego'.tls = nego.tls
      /\ nego'.error \notin GiveUp \cup {"none"}
  <2>1. CASE nego' = t
    BY <1>1, <2>1
  <2>2. CASE nego' = Throw(t, d)
    BY <1>1, <1>2, <2>2, ThrowEffect DEF SameTurn
  <2> QED BY <1>2, <2>1, <2>2
<1>4. Turns(nego)'
  BY <1>3 DEF ConnInv, Turns, SameTurn
<1>5. GaveUp(nego)'
  BY <1>3 DEF ConnInv, GaveUp, SameTurn
<1>6. Settled(nego)' <=> Settled(nego)
  BY <1>3 DEF Settled, enabled_at_first, SameTurn
<1>7. Negotiated'
  BY <1>3, <1>6 DEF ConnInv, Negotiated, Throws
<1>8. Approved'
  BY <1>3 DEF ConnInv, Approved, AsksManager
<1> QED BY <1>4, <1>5, <1>7, <1>8 DEF ConnInv

(* What RdpNego made of the data, in the two places that call it. *)
LEMMA NegoStepKeeps ==
  ASSUME ConnInv, ~Throws(nego), conn.state = "NEGO", NEW st \in Status,
         NEW n \in recv_next_data(nego, st), RecvNego(n),
         nego' = n \/ nego' = Ends(n), UNCHANGED <<opt, passwords>>,
         status' \in Status,
         AsksManager /\ (st = "Ok" \/ status' = "Ok" \/ nego.tls = "Ok")
            => verdict' = "Ok"
  PROVE  ConnInv'
<1>1. NegoInv(n) /\ ValidAfter(nego, st, n)
  <2>1. NegoInv(nego) /\ passwords \in Nat
    BY DEF ConnInv, Negotiated, NegoInv
  <2> QED BY <2>1, RecvKeeps
<1>2. /\ IsNego(nego') /\ SameTurn(n, nego') /\ nego'.tls = n.tls
      /\ nego'.error \in GiveUp => n.error \in GiveUp
      /\ Throws(n) <=> Throws(nego')
      /\ ~Throws(n) => nego' = n
  <2>1. CASE nego' = n
    BY <1>1, <2>1 DEF NegoInv, Turns, SameTurn
  <2>2. CASE Throws(n) /\ nego' = Throw(n, "ERR_RDP_NEGOTIATION")
    BY <1>1, <2>2, ThrowEffect DEF NegoInv, Turns, Throws, GiveUp
  <2> QED BY <2>1, <2>2 DEF Ends
<1>3. Turns(nego)'
  BY <1>1, <1>2 DEF NegoInv, Turns, SameTurn
<1>4. GaveUp(nego)'
  BY <1>1, <1>2 DEF NegoInv, GaveUp, SameTurn
<1>5. IsConn(conn') /\ conn'.state \in {"NEGO", "BASIC_SETTINGS_EXCHANGE"}
      /\ (conn'.state # "NEGO" => n.state = "Final" /\ ~Throws(n))
  BY DEF RecvNego, IsConn, ConnInv
<1>6. ~Throws(n) => Going(nego)' /\ (n.state = "Final" => Settled(nego)')
  <2>1. ~Throws(n) => Going(n) /\ nego' = n
    BY <1>1, <1>2 DEF NegoInv
  <2>2. ~Throws(n) => (Going(nego)' <=> Going(n)) /\ (Settled(nego)' <=> Settled(n))
    BY <2>1 DEF Going, NlaOpen, Settled, enabled_at_first
  <2> QED BY <2>1, <2>2 DEF Going
<1>7. Negotiated'
  BY <1>2, <1>5, <1>6 DEF Negotiated, Early
<1>8. Approved'
  <2>1. AsksManager /\ "Valid" \in certificate_checker(st) => st = "Ok"
    BY DEF certificate_checker, Status
  <2> QED BY <1>1, <1>2, <2>1 DEF Approved, AsksManager, ValidAfter
<1> QED BY <1>3, <1>4, <1>5, <1>7, <1>8 DEF ConnInv

(* The PDUs leave the negotiation alone, or end with an error. *)
LEMMA RaiseKeeps ==
  ASSUME ConnInv, NEW e, e \notin GiveUp \cup {"none"}, Raise(e),
         UNCHANGED <<opt, passwords, status, verdict>>
  PROVE  ConnInv'
<1>1. IsConn(conn') /\ conn'.state = conn.state
  BY DEF Raise, ConnInv, IsConn
<1>2. status' \in Status /\ nego' = Ends(Throw(nego, e))
  BY DEF Raise, ConnInv
<1> QED BY <1>1, <1>2, ErrorKeeps

LEMMA DrawKeeps ==
  ASSUME ConnInv, NEW c, IsConn(c), c.state = conn.state, Draw(c),
         UNCHANGED <<opt, passwords, status, verdict>>
  PROVE  ConnInv'
<1>1. IsConn(conn') /\ conn'.state = conn.state
  <2>1. CASE Len(buf) = 1
    BY <2>1 DEF Draw, IsConn
  <2>2. CASE Len(buf) # 1
    BY <2>2 DEF Draw
  <2> QED BY <2>1, <2>2
<1> QED BY <1>1, QuietKeeps DEF Draw

LEMMA StartKeeps ==
  ASSUME ConnInv, start_negociation
  PROVE  ConnInv'
<1> DEFINE m == send_negotiation_request(nego)
<1>0. nego' = m /\ UNCHANGED <<opt, passwords, status, verdict>> /\ ~Throws(nego)
      /\ conn.state = "NEGO_INITIATE"
  BY DEF start_negociation
<1>1. /\ IsNego(m) /\ m.tls = nego.tls /\ m.state = nego.state
      /\ m.enabled_protocols = nego.enabled_protocols
      /\ m.current_password = nego.current_password /\ m.tried = nego.tried
      /\ \/ m.error = "ERR_NEGO_NO_PROTOCOL_ENABLED"
         \/ m.error = "none" /\ m.requested = nego.enabled_protocols \ {"Rdp"}
  BY <1>0, RequestEffect DEF ConnInv, Turns
<1> HIDE DEF m
<1>2. Turns(nego)' /\ GaveUp(nego)'
  BY <1>0, <1>1 DEF ConnInv, Turns, GaveUp, GiveUp
<1>3. IsConn(conn') /\ conn'.state \in Early /\ (conn'.state = "NEGO" <=> ~Throws(m))
  BY <1>0 DEF start_negociation, ConnInv, IsConn, Early
<1>4. Starting(nego)
  BY <1>0 DEF ConnInv, Negotiated
<1>5. ~Throws(m) => Going(nego)'
  BY <1>0, <1>1, <1>4 DEF Going, Starting, NlaOpen, Untried, Throws, NegoState
<1>6. Negotiated'
  BY <1>0, <1>3, <1>5 DEF Negotiated, Early
<1>7. Approved'
  BY <1>0, <1>1 DEF ConnInv, Approved, AsksManager
<1> QED BY <1>0, <1>2, <1>3, <1>6, <1>7 DEF ConnInv

(* The manager's answer about the certificate. *)
LEMMA AclKeeps ==
  ASSUME ConnInv, NEW message \in {"Ok", "refused"}, acl_update(message)
  PROVE  ConnInv'
<1>0. UNCHANGED <<opt, passwords>> /\ verdict = "none" /\ verdict' = message /\ ~Throws(nego)
  BY DEF acl_update, Idle
<1>1. CASE message = "refused"
  <2>1. AclError
    BY <1>1 DEF acl_update
  <2>2. IsConn(conn') /\ conn'.state = conn.state
    BY <2>1 DEF AclError, ConnInv, IsConn
  <2> QED BY <1>0, <2>1, <2>2, ErrorKeeps DEF AclError, Status, GiveUp
<1>2. CASE message = "Ok" /\ conn.state = "NEGO"
  <2>1. AclOk
    BY <1>2 DEF acl_update
  <2>2. PICK n \in recv_next_data(nego, "Ok") : nego' = n /\ RecvNego(n)
    BY <1>2, <2>1 DEF AclOk
  <2>3. status' \in Status /\ "Ok" \in Status
    BY <2>1 DEF AclOk, Status
  <2> QED BY <1>0, <1>2, <2>2, <2>3, NegoStepKeeps
<1>3. CASE message = "Ok" /\ conn.state # "NEGO"
  <2>1. AclOk
    BY <1>3 DEF acl_update
  <2>2. CASE toProxy = << >>
    <3>1. UNCHANGED <<nego, conn>> /\ status' = "Ok" /\ verdict' = "Ok"
      BY <1>0, <1>3, <2>1, <2>2 DEF AclOk
    <3>2. Turns(nego)' /\ GaveUp(nego)' /\ IsConn(conn')
      BY <1>0, <3>1 DEF ConnInv, Turns, GaveUp
    <3>3. Negotiated'
      BY <1>0, <3>1 DEF ConnInv, Negotiated, Starting, Settled, Going, NlaOpen,
          enabled_at_first
    <3> QED BY <1>0, <3>1, <3>2, <3>3 DEF ConnInv, Approved, Status
  <2>3. CASE toProxy # << >>
    <3>1. /\ nego' = Throw(nego, "ERR_TRANSPORT_NO_MORE_DATA")
          /\ conn' = [conn EXCEPT !.event = "none"] /\ status' = "Ok"
      BY <1>3, <2>1, <2>3 DEF AclOk
    <3>2. IsConn(conn') /\ conn'.state = conn.state
      BY <3>1 DEF ConnInv, IsConn
    <3>3. /\ IsNego(nego') /\ SameTurn(nego, nego') /\ nego'.error \notin GiveUp
          /\ Throws(nego')
      BY <3>1, ThrowEffect DEF ConnInv, Turns, Throws, GiveUp
    <3>4. Turns(nego)'
      BY <3>1, <3>3, ThrowEffect DEF ConnInv, Turns, SameTurn
    <3>5. GaveUp(nego)'
      BY <1>0, <3>3 DEF ConnInv, GaveUp, SameTurn
    <3>6. Negotiated'
      BY <1>0, <3>2, <3>3 DEF ConnInv, Negotiated, Settled, SameTurn, enabled_at_first
    <3>7. Approved' /\ status' \in Status
      BY <1>0, <1>3, <3>1 DEF Approved, Status
    <3> QED BY <1>0, <3>2, <3>4, <3>5, <3>6, <3>7 DEF ConnInv
  <2> QED BY <2>2, <2>3
<1> QED BY <1>1, <1>2, <1>3

LEMMA NegoReadKeeps ==
  ASSUME ConnInv, NegoRead
  PROVE  ConnInv'
<1>1. PICK n \in recv_next_data(nego, status) :
        nego' = Ends(n) /\ status' = StatusAfter(n, status) /\ RecvNego(n)
  BY DEF NegoRead
<1>2. UNCHANGED <<opt, passwords, verdict>> /\ ~Throws(nego) /\ conn.state = "NEGO"
  BY DEF NegoRead, Idle
<1>3. status \in Status /\ status' \in Status /\ (status' = "Ok" => status = "Ok")
  BY <1>1 DEF ConnInv, StatusAfter, Status
<1>4. AsksManager /\ (status = "Ok" \/ status' = "Ok" \/ nego.tls = "Ok")
         => verdict' = "Ok"
  BY <1>2, <1>3 DEF ConnInv, Approved
<1> QED BY <1>1, <1>2, <1>3, <1>4, NegoStepKeeps

LEMMA LoadKeeps ==
  ASSUME ConnInv, NEW pc, Load(pc)
  PROVE  ConnInv'
<1>1. UNCHANGED <<opt, passwords, status, verdict>>
  BY DEF Load
<1>2. CASE Raise("ERR_TRANSPORT_NO_MORE_DATA")
  BY <1>1, <1>2, RaiseKeeps DEF GiveUp
<1>3. CASE conn' = [conn EXCEPT !.pc = pc] /\ UNCHANGED nego
  <2>1. IsConn(conn') /\ conn'.state = conn.state
    BY <1>3 DEF ConnInv, IsConn
  <2> QED BY <1>1, <1>3, <2>1, QuietKeeps
<1> QED BY <1>2, <1>3 DEF Load

LEMMA RecvPduKeeps ==
  ASSUME ConnInv, RecvPdu
  PROVE  ConnInv'
<1>1. UNCHANGED <<opt, passwords, status, verdict>>
  BY DEF RecvPdu
<1>2. CASE Unexpected
  BY <1>1, <1>2, RaiseKeeps DEF Unexpected, GiveUp
<1>3. ASSUME NEW c, NEW out, Recv(c, out), IsConn(c), c.state \notin Early,
             conn.state \notin Early
      PROVE  ConnInv'
  <2>1. IsConn(conn') /\ conn'.state = c.state
    BY <1>3 DEF Recv, IsConn
  <2> QED BY <1>1, <1>3, <2>1, QuietKeeps DEF Recv
<1>4. CASE basic_settings_exchange
  BY <1>3, <1>4 DEF basic_settings_exchange, ConnInv, IsConn, Early
<1>5. CASE channel_connection_attach_user
  <2> DEFINE c == [conn EXCEPT !.state = "CHANNEL_JOIN_CONFIRM", !.joined = 0]
  <2>1. IsConn(c) /\ c.state = "CHANNEL_JOIN_CONFIRM"
    BY DEF ConnInv, IsConn
  <2>2. Recv(c, [i \in 1..Joins |-> "ChannelJoinRequest"])
    BY <1>5 DEF channel_connection_attach_user
  <2>3. conn.state \notin Early /\ "CHANNEL_JOIN_CONFIRM" \notin Early
    BY <1>5 DEF channel_connection_attach_user, Early
  <2> HIDE DEF c
  <2> QED BY <1>3, <2>1, <2>2, <2>3
<1>6. CASE channel_join_confirm
  <2> DEFINE a == [conn EXCEPT !.joined = @ + 1]
             b == [conn EXCEPT !.joined = @ + 1, !.state = "GET_LICENSE"]
  <2>1. IsConn(a) /\ a.state = conn.state /\ IsConn(b) /\ b.state = "GET_LICENSE"
    BY DEF ConnInv, IsConn
  <2>2. Recv(a, << >>) \/ Recv(b, <<"ClientInfo">>)
    BY <1>6 DEF channel_join_confirm
  <2>3. conn.state \notin Early /\ "GET_LICENSE" \notin Early
    BY <1>6 DEF channel_join_confirm, Early
  <2> HIDE DEF a, b
  <2> QED BY <1>3, <2>1, <2>2, <2>3
<1>7. CASE get_license
  <2>1. CASE Recv(conn, <<"LicenseReply">>)
    BY <1>3, <1>7, <2>1 DEF get_license, ConnInv, Early
  <2>2. ASSUME NEW rest, Terminated(rest), UNCHANGED nego PROVE ConnInv'
    <3>1. IsConn(conn') /\ conn'.state = "TERMINATED"
      BY <2>2 DEF Terminated, ConnInv, IsConn
    <3>2. conn.state \notin Early /\ conn'.state \notin Early
      BY <1>7, <3>1 DEF get_license, Early
    <3> QED BY <1>1, <2>2, <3>1, <3>2, QuietKeeps
  <2> QED BY <1>7, <2>1, <2>2 DEF get_license
<1> QED BY <1>2, <1>4, <1>5, <1>6, <1>7 DEF RecvPdu

LEMMA SlowPathKeeps ==
  ASSUME ConnInv, connected_slow_path
  PROVE  ConnInv'
<1>0. UNCHANGED <<opt, passwords, status, verdict>>
  BY DEF connected_slow_path
<1>r. ASSUME NEW e, e \notin GiveUp \cup {"none"}, Raise(e) PROVE ConnInv'
  BY <1>0, <1>r, RaiseKeeps
<1>d. ASSUME NEW c, IsConn(c), c.state = conn.state, Draw(c) PROVE ConnInv'
  BY <1>0, <1>d, DrawKeeps
<1>f. ASSUME NEW v PROVE LET c == [conn EXCEPT !.finalization = v]
                         IN  IsConn(c) /\ c.state = conn.state
  BY DEF ConnInv, IsConn
<1>1. CASE DemandActive
  <2>1. CASE Catch
    <3>1. LET c == [conn EXCEPT !.signal = TRUE] IN IsConn(c) /\ c.state = conn.state
      BY DEF ConnInv, IsConn
    <3> QED BY <2>1, <3>1, <1>d, <1>r DEF Catch, GiveUp
  <2>2. CASE Draw([conn EXCEPT !.finalization = "WAITING_SYNCHRONIZE"])
    BY <2>2, <1>d, <1>f
  <2> QED BY <1>1, <2>1, <2>2 DEF DemandActive
<1>2. CASE DeactivateAll
  <2>1. IsConn(Deactivated(conn)) /\ Deactivated(conn).state = conn.state
    BY DEF Deactivated, ConnInv, IsConn
  <2> QED BY <1>2, <2>1, <1>d DEF DeactivateAll
<1>3. CASE DataPduStep
  <2>1. CASE conn.finalization = "EARLY"
    BY <1>3, <2>1, <1>r DEF DataPduStep, Finalization, FontMap, UpAndRunning, GiveUp
  <2>2. CASE conn.finalization = "WAITING_SYNCHRONIZE"
    <3>1. LET c == AfterSynchronize(Head(buf)) IN IsConn(c) /\ c.state = conn.state
      BY <1>f DEF AfterSynchronize, ConnInv
    <3> QED BY <1>3, <2>2, <3>1, <1>d, <1>r DEF DataPduStep, Finalization, FontMap,
              UpAndRunning, GiveUp
  <2>3. CASE conn.finalization \in {"WAITING_CTL_COOPERATE", "WAITING_GRANT_CONTROL_COOPERATE"}
    BY <1>3, <2>3, <1>d, <1>f DEF DataPduStep, Finalization, FontMap, UpAndRunning
  <2>4. CASE FontMap
    <3>1. LET c == [conn EXCEPT !.finalization = "UP_AND_RUNNING",
                                !.reactivation = FALSE, !.upped = TRUE]
          IN  IsConn(c) /\ c.state = conn.state
      BY DEF ConnInv, IsConn
    <3> QED BY <2>4, <3>1, <1>d DEF FontMap
  <2>5. CASE UpAndRunning
    BY <2>5, <1>d, <1>r DEF UpAndRunning, ConnInv, GiveUp
  <2> QED BY <1>3, <2>1, <2>2, <2>3, <2>4, <2>5 DEF DataPduStep, Finalization
<1>4. CASE DisconnectProviderUltimatum
  <2>1. IsConn(conn') /\ conn'.state = conn.state
    BY <1>4 DEF DisconnectProviderUltimatum, ConnInv, IsConn
  <2>2. status' \in Status /\ nego' = Ends(Throw(nego, "ERR_MCS_APPID_IS_MCS_DPUM"))
    BY <1>0, <1>4 DEF DisconnectProviderUltimatum, ConnInv
  <2> QED BY <1>0, <2>1, <2>2, ErrorKeeps DEF GiveUp
<1>5. CASE Redirection
  BY <1>5, <1>d, <1>r DEF Redirection, ConnInv, GiveUp
<1> QED BY <1>1, <1>2, <1>3, <1>4, <1>5 DEF connected_slow_path

(* Every step keeps it. *)
LEMMA StepConn ==
  ASSUME ConnInv, [Next]_vars
  PROVE  ConnInv'
<1> USE DEF negoVars
<1>1. CASE LogonTimer
  <2>1. IsConn(conn') /\ conn'.state = conn.state
    BY <1>1 DEF LogonTimer, ConnInv, IsConn
  <2>2. status' \in Status /\ nego' = Throw(nego, "ERR_RDP_OPEN_SESSION_TIMEOUT")
        /\ UNCHANGED <<opt, passwords, status, verdict>>
    BY <1>1 DEF LogonTimer, ConnInv
  <2> QED BY <2>1, <2>2, ErrorKeeps DEF GiveUp
<1>2. CASE recv_data \/ draw_event
  BY <1>2, LoadKeeps DEF recv_data, draw_event
<1>3. CASE rdp_gdi_up_and_running
  BY <1>3, QuietKeeps DEF rdp_gdi_up_and_running, ConnInv
<1>4. CASE disconnect
  <2>1. IsConn(conn') /\ conn'.state = conn.state
    BY <1>4 DEF disconnect, ConnInv, IsConn
  <2> QED BY <1>4, <2>1, QuietKeeps DEF disconnect
<1>5. CASE Target
  BY <1>5, QuietKeeps DEF Target, TargetReads, TargetDemands, TargetDeactivates,
      TargetLeaves, ConnInv
<1>6. CASE Manager
  BY <1>6, AclKeeps DEF Manager
<1>7. CASE UNCHANGED vars
  BY <1>7, QuietKeeps DEF vars, ConnInv
<1> QED BY <1>1, <1>2, <1>3, <1>4, <1>5, <1>6, <1>7, StartKeeps, NegoReadKeeps,
           RecvPduKeeps, SlowPathKeeps DEF Next, Handler

LEMMA ConnAlways == Spec => []ConnInv
<1>1. Init => ConnInv
  BY InitConn
<1>2. ConnInv /\ [Next]_vars => ConnInv'
  BY StepConn
<1> QED BY <1>1, <1>2, PTL DEF Spec

(* The passwords are tried in their order, Kerberos before NTLM, and NLA is
   only given up after the last one (PasswordsInTurn). *)
THEOREM PasswordsTriedInTurn == Spec => []PasswordsInTurn
<1>1. ConnInv => PasswordsInTurn
  <2> SUFFICES ASSUME ConnInv PROVE PasswordsInTurn
    OBVIOUS
  <2>1. InTurn(nego.tried) /\ GaveUp(nego)
    BY DEF ConnInv, Turns
  <2> QED BY <2>1 DEF InTurn, Follows, GaveUp, LastTry, PasswordsInTurn, GiveUp
<1> QED BY <1>1, ConnAlways, PTL

(* The settings are only sent over a protocol the options allow, and the legacy
   encryption is in effect exactly when it was selected (ProtocolAgreed). *)
THEOREM ProtocolIsAgreed == Spec => []ProtocolAgreed
<1>1. ConnInv => ProtocolAgreed
  BY DEF ConnInv, Negotiated, Early, Settled, ProtocolAgreed
<1> QED BY <1>1, ConnAlways, PTL

(* Where the manager validates the certificates, TLS is never in use before it
   accepted the one it was asked about: its acceptance is of the target and is kept
   over a reconnection
   (CertificateApproved). *)
THEOREM CertificateIsApproved == Spec => []CertificateApproved
<1>1. ConnInv => CertificateApproved
  BY DEF ConnInv, Approved, CertificateApproved
<1> QED BY <1>1, ConnAlways, PTL
=============================================================================
