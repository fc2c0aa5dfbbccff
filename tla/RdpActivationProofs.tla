------------------------ MODULE RdpActivationProofs -------------------------
(* Theorems about the activation of RdpConnection: whatever number of static  *)
(* channels and of activations, and however the PDUs in flight, the resizes   *)
(* of the client and the end of the connection interleave.                    *)
EXTENDS RdpConnectionProofs, FiniteSetTheorems

----------------------------------------------------------------------------
(* The PDUs on their way to the module, first those it has already loaded. *)
Stream == buf \o toProxy

Basic == {"ConnectResponse", "AttachUserConfirm", "ChannelJoinConfirm"}
Ending == {"Close", "DisconnectProviderUltimatum"}
Pdu == Basic \cup Ending \cup
    {"LicenseRequest", "PlatformChallenge", "NewLicense", "ErrorAlert",
     "DemandActive", "MonitorLayout", "Synchronize", "Cooperate",
     "GrantControl", "FontMap", "DeactivateAll", "ErrorInfo", "Redirection"}

(* The points of the connection the two sides agree on: a PDU fits one of them
   and leads to the next.  The target waits at "asked" for the licence's answer
   and at "demanded" for the confirmation, which lead to the points "replied"
   and "confirmed" by a message of the module. *)
Fits(q, p) ==
    \/ p \in Basic \cup {"LicenseRequest", "ErrorAlert"} /\ q = "basic"
    \/ p \in {"PlatformChallenge", "NewLicense"} /\ q = "replied"
    \/ p = "DemandActive" /\ q \in {"basic", "licensed", "deactivated"}
    \/ p = "MonitorLayout" /\ q = "confirmed"
    \/ p = "Synchronize" /\ q \in {"confirmed", "layout"}
    \/ p = "Cooperate" /\ q = "synchronized"
    \/ p = "GrantControl" /\ q = "cooperating"
    \/ p = "FontMap" /\ q = "granted"
    \/ p = "DeactivateAll" /\ q = "up"
    \/ p = "ErrorInfo" /\ q \in {"basic", "licensed", "up"}
    \/ p = "Redirection" /\ q \in {"basic", "licensed"}
    \/ p \in Ending /\ q # "end"

After(p) ==
    CASE p \in Basic -> "basic"
      [] p \in {"LicenseRequest", "PlatformChallenge"} -> "asked"
      [] p \in {"NewLicense", "ErrorAlert"} -> "licensed"
      [] p = "DemandActive" -> "demanded"
      [] p = "MonitorLayout" -> "layout"
      [] p = "Synchronize" -> "synchronized"
      [] p = "Cooperate" -> "cooperating"
      [] p = "GrantControl" -> "granted"
      [] p = "FontMap" -> "up"
      [] p = "DeactivateAll" -> "deactivated"
      [] p \in {"ErrorInfo", "Redirection"} -> "left"
      [] p \in Ending -> "end"

(* The PDUs of s lead from point q to point e. *)
Leads(q, s, e) ==
    /\ s \in Seq(Pdu)
    /\ s = << >> => q = e
    /\ s # << >> => Fits(q, s[1]) /\ After(s[Len(s)]) = e
    /\ \A i \in 1..Len(s) - 1 : Fits(After(s[i]), s[i + 1])

(* Where the module is. *)
Points(finalization) ==
    CASE finalization = "EARLY" -> {"basic", "replied", "licensed", "left"}
      [] finalization = "WAITING_SYNCHRONIZE" ->
            {"deactivated", "demanded", "resizing", "confirmed", "layout"}
      [] finalization = "WAITING_CTL_COOPERATE" -> {"synchronized"}
      [] finalization = "WAITING_GRANT_CONTROL_COOPERATE" -> {"cooperating"}
      [] finalization = "WAITING_FONT_MAP" -> {"granted"}
      [] finalization = "UP_AND_RUNNING" -> {"up", "left"}

ModuleIn(c, q, f) ==
    /\ q \in Points(c.finalization)
    /\ q = "demanded" => c.signal
    /\ f = "activating" <=> q = "resizing"

ModuleAt(q) == ModuleIn(conn, q, front)

(* Where the target is, and what the module sent it that it did not read. *)
Beginning == {"idle", "deaf", "connect"}
Licensed == {"GET_LICENSE", "TERMINATED"}
Requests == {"ConnectInitial", "AttachUserRequest", "ChannelJoinRequest", "ClientInfo"}

Requested ==
    /\ toTarget \in Seq(Requests)
    /\ \A i \in 1..Len(toTarget) - 1 : toTarget[i] # "ClientInfo"
    /\ conn.state \notin Licensed => \A i \in 1..Len(toTarget) : toTarget[i] # "ClientInfo"

TargetAt(e) ==
    \/ target.phase \in Beginning /\ e = "basic" /\ Requested /\ Stream \in Seq(Basic)
    \/ /\ target.phase \in {"licensing", "challenge"}
       /\ \/ e = "asked" /\ toTarget = << >>
          \/ e = "replied" /\ toTarget = <<"LicenseReply">>
    \/ target.phase = "licensed" /\ e \in {"basic", "licensed"} /\ toTarget = << >>
    \/ /\ target.phase = "demand"
       /\ \/ e \in {"demanded", "resizing"} /\ toTarget = << >>
          \/ e = "confirmed" /\ toTarget = activation
    \/ target.phase = "finalize" /\ e = "cooperating" /\ toTarget = <<"FontList">>
    \/ target.phase = "up" /\ e = "up" /\ toTarget = << >>
    \/ target.phase = "deactivated" /\ e = "deactivated" /\ toTarget = << >>
    \/ target.phase = "gone" /\ e = "end"

Point == {"basic", "asked", "replied", "licensed", "demanded", "resizing",
          "confirmed", "layout", "synchronized", "cooperating", "granted", "up",
          "deactivated", "left", "end"}

InStep == \E q, e \in Point : ModuleAt(q) /\ Leads(q, Stream, e) /\ TargetAt(e)

Alive == ~Throws(nego) /\ conn.finalization # "DISCONNECTED"

(* What is left of a running session that ended with an error. *)
Dropped == Throws(nego) /\ conn.finalization = "UP_AND_RUNNING" =>
              /\ target.phase = "gone" /\ toProxy \in Seq(Pdu)
              /\ \A i \in DOMAIN Stream : Stream[i] # "FontMap"

Control ==
    /\ conn.pc \in {"idle", "recv", "draw"} /\ (conn.pc = "idle" <=> buf = << >>)
    /\ Alive => /\ buf \in Seq(Pdu) /\ toProxy \in Seq(Pdu)
                /\ target \in [phase : Phase, demands : Nat]
    /\ conn.pc # "idle" => ~Throws(nego)
    /\ conn.pc = "recv" => conn.state \notin Early \cup {"TERMINATED"}
    /\ conn.pc = "draw" => conn.state = "TERMINATED"
    /\ conn.event \in {"first", "running"} => conn.state = "TERMINATED"
    /\ conn.state # "TERMINATED" => conn.finalization = "EARLY"
    /\ conn.pc = "idle" /\ conn.event = "negociation" => conn.state # "TERMINATED"
    /\ conn.state \in Early => /\ target.phase = "idle"
                               /\ toTarget = << >> /\ buf = << >> /\ toProxy = << >>
    /\ Alive /\ conn.state \notin Licensed => target.phase \in Beginning \cup {"gone"}
    /\ conn.finalization = "DISCONNECTED" =>
          conn.pc = "idle" /\ (Throws(nego) \/ conn.signal)

(* SESSION_ESTABLISHED_SUCCESSFULLY and the flags it depends on. *)
Finalizations == Waiting \cup {"EARLY", "UP_AND_RUNNING", "DISCONNECTED"}

Reporting(c, n) ==
    /\ n = IF c.upped THEN 1 ELSE 0
    /\ c.upped \in BOOLEAN /\ c.reactivation \in BOOLEAN
    /\ c.finalization \in Finalizations
    /\ c.finalization = "EARLY" => ~c.upped /\ ~c.reactivation
    /\ c.finalization \in Waiting => (c.upped <=> c.reactivation)
    /\ c.finalization = "UP_AND_RUNNING" => c.upped /\ ~c.reactivation

Reports == Reporting(conn, reported)

ActInv == Control /\ Reports /\ Dropped /\ (Alive => InStep)

----------------------------------------------------------------------------
(* Sequences of PDUs: the first one is treated, another one is sent. *)
LEMMA LeadsNowhere ==
  ASSUME NEW q, NEW e, Leads(q, << >>, e)
  PROVE  q = e
BY DEF Leads

LEMMA LeadsFirst ==
  ASSUME NEW q, NEW s, NEW e, Leads(q, s, e), s # << >>
  PROVE  Fits(q, Head(s)) /\ Leads(After(Head(s)), Tail(s), e) /\ Head(s) \in Pdu
<1>1. s \in Seq(Pdu) /\ Len(s) \in Nat \ {0} /\ Head(s) = s[1] /\ Head(s) \in Pdu
  BY DEF Leads
<1>2. /\ Tail(s) \in Seq(Pdu) /\ Len(Tail(s)) = Len(s) - 1
      /\ \A i \in 1..Len(Tail(s)) : Tail(s)[i] = s[i + 1]
  BY <1>1, HeadTailProperties
<1>3. Tail(s) = << >> => Len(s) = 1
  <2>1. Tail(s) = << >> => Len(Tail(s)) = 0
    BY EmptySeq
  <2> QED BY <1>1, <1>2, <2>1
<1>4. Tail(s) # << >> => Len(s) > 1
  BY <1>1, <1>2, EmptySeq
<1>5. CASE Tail(s) = << >>
  BY <1>1, <1>2, <1>3, <1>5 DEF Leads
<1>6. CASE Tail(s) # << >>
  <2>1. Fits(After(s[1]), s[2])
    BY <1>1, <1>4, <1>6 DEF Leads
  <2>2. Tail(s)[1] = s[2] /\ Tail(s)[Len(Tail(s))] = s[Len(s)]
    BY <1>1, <1>2, <1>4, <1>6
  <2>3. ASSUME NEW i \in 1..Len(Tail(s)) - 1
        PROVE  Fits(After(Tail(s)[i]), Tail(s)[i + 1])
    <3>1. i + 1 \in 1..Len(s) - 1 /\ i \in 1..Len(Tail(s)) /\ i + 1 \in 1..Len(Tail(s))
      BY <1>1, <1>2
    <3>2. Tail(s)[i] = s[i + 1] /\ Tail(s)[i + 1] = s[(i + 1) + 1]
      BY <1>2, <3>1
    <3> QED BY <3>1, <3>2 DEF Leads
  <2> QED BY <1>1, <1>2, <1>6, <2>1, <2>2, <2>3 DEF Leads
<1> QED BY <1>5, <1>6

LEMMA LeadsAppend ==
  ASSUME NEW q, NEW s, NEW e, Leads(q, s, e), NEW p \in Pdu, Fits(e, p)
  PROVE  Leads(q, Append(s, p), After(p))
<1> DEFINE t == Append(s, p)
<1>1. s \in Seq(Pdu) /\ Len(s) \in Nat
  BY DEF Leads
<1>2. /\ t \in Seq(Pdu) /\ t # << >> /\ Len(t) = Len(s) + 1
      /\ \A i \in 1..Len(s) : t[i] = s[i]
      /\ t[Len(s) + 1] = p
  BY <1>1, AppendProperties
<1> HIDE DEF t
<1>3. s # << >> => Len(s) \in Nat \ {0}
  BY <1>1, EmptySeq
<1>4. Fits(q, t[1])
  <2>1. CASE s = << >>
    BY <1>2, <2>1 DEF Leads
  <2>2. CASE s # << >>
    BY <1>2, <1>3, <2>2 DEF Leads
  <2> QED BY <2>1, <2>2
<1>5. ASSUME NEW i \in 1..Len(t) - 1 PROVE Fits(After(t[i]), t[i + 1])
  <2>1. CASE i = Len(s)
    <3>1. s # << >> /\ t[i] = s[Len(s)] /\ t[i + 1] = p
      BY <1>1, <1>2, <2>1
    <3> QED BY <3>1, <2>1 DEF Leads
  <2>2. CASE i # Len(s)
    <3>1. i \in 1..Len(s) - 1 /\ i \in 1..Len(s) /\ i + 1 \in 1..Len(s)
      BY <1>1, <1>2, <2>2
    <3> QED BY <1>2, <3>1 DEF Leads
  <2> QED BY <2>1, <2>2
<1> QED BY <1>2, <1>4, <1>5 DEF Leads, t

(* Nothing follows the end of the connection; the module may have gone on from
   a point at which the target waits. *)
LEMMA LeadsStop ==
  ASSUME NEW q, NEW s, NEW e, Leads(q, s, e), s # << >>, s[1] \in Ending
  PROVE  e = "end" /\ Len(s) = 1
<1>1. s \in Seq(Pdu) /\ Len(s) \in Nat \ {0}
  BY EmptySeq DEF Leads
<1>2. After(s[1]) = "end"
  BY DEF After, Ending, Basic
<1>3. ASSUME NEW p PROVE ~Fits("end", p)
  BY DEF Fits
<1>4. Len(s) = 1
  <2>0. \A n \in Nat \ {0} : n # 1 => 1 \in 1..n - 1
    OBVIOUS
  <2>1. Len(s) # 1 => 1 \in 1..Len(s) - 1
    BY <1>1, <2>0
  <2> QED BY <1>2, <1>3, <2>1 DEF Leads
<1> QED BY <1>1, <1>2, <1>4 DEF Leads

LEMMA LeadsOn ==
  ASSUME NEW q, NEW s, NEW e, Leads(q, s, e), NEW r \in Point, r # "end",
         q \in {"asked", "demanded", "resizing", "left"}
  PROVE  \/ s = << >> /\ e = q /\ Leads(r, s, r)
         \/ s # << >> /\ e = "end" /\ Leads(r, s, e)
<1>1. CASE s = << >>
  BY <1>1 DEF Leads
<1>2. CASE s # << >>
  <2>1. Fits(q, s[1])
    BY <1>2 DEF Leads
  <2>2. s[1] \in Ending
    BY <2>1 DEF Fits
  <2>3. Fits(r, s[1])
    BY <2>2 DEF Fits
  <2> QED BY <1>2, <2>2, <2>3, LeadsStop DEF Leads
<1> QED BY <1>1, <1>2

(* Stream, when a handler loads, treats a PDU or the target sends. *)
LEMMA StreamHead ==
  ASSUME buf \in Seq(Pdu), toProxy \in Seq(Pdu), buf # << >>
  PROVE  /\ Stream # << >> /\ Head(Stream) = Head(buf)
         /\ Tail(Stream) = Tail(buf) \o toProxy /\ Tail(buf) \in Seq(Pdu)
<1>1. /\ Stream \in Seq(Pdu) /\ Len(Stream) = Len(buf) + Len(toProxy)
      /\ \A i \in 1..Len(buf) + Len(toProxy) :
           Stream[i] = IF i <= Len(buf) THEN buf[i] ELSE toProxy[i - Len(buf)]
  BY ConcatProperties DEF Stream
<1>2. Len(buf) \in Nat \ {0} /\ Len(toProxy) \in Nat
  BY EmptySeq
<1>3. /\ Stream # << >> /\ Head(Stream) = Stream[1] /\ Head(buf) = buf[1]
      /\ Stream[1] = buf[1]
  BY <1>1, <1>2
<1>4. /\ Tail(buf) \in Seq(Pdu) /\ Len(Tail(buf)) = Len(buf) - 1
      /\ \A i \in 1..Len(Tail(buf)) : Tail(buf)[i] = buf[i + 1]
  BY HeadTailProperties
<1>5. /\ Tail(Stream) \in Seq(Pdu) /\ Len(Tail(Stream)) = Len(Stream) - 1
      /\ \A i \in 1..Len(Tail(Stream)) : Tail(Stream)[i] = Stream[i + 1]
  BY <1>1, <1>3, HeadTailProperties
<1> DEFINE t == Tail(buf) \o toProxy
<1>6. /\ t \in Seq(Pdu) /\ Len(t) = Len(Tail(buf)) + Len(toProxy)
      /\ \A i \in 1..Len(Tail(buf)) + Len(toProxy) :
           t[i] = IF i <= Len(Tail(buf)) THEN Tail(buf)[i] ELSE toProxy[i - Len(Tail(buf))]
  BY <1>4, ConcatProperties
<1> HIDE DEF t
<1>7. ASSUME NEW i \in 1..Len(t) PROVE Tail(Stream)[i] = t[i]
  <2>1. Tail(Stream)[i] = Stream[i + 1] /\ i + 1 \in 1..Len(buf) + Len(toProxy)
    BY <1>1, <1>2, <1>4, <1>5, <1>6
  <2>2. CASE i + 1 <= Len(buf)
    <3>1. i \in 1..Len(Tail(buf)) /\ i \in 1..Len(Tail(buf)) + Len(toProxy) /\ i <= Len(Tail(buf))
      BY <1>2, <1>4, <2>2, <2>1
    <3> QED BY <1>1, <1>4, <1>6, <2>1, <2>2, <3>1
  <2>3. CASE ~(i + 1 <= Len(buf))
    <3>1. ~(i <= Len(Tail(buf))) /\ i \in 1..Len(Tail(buf)) + Len(toProxy)
          /\ (i + 1) - Len(buf) = i - Len(Tail(buf))
      BY <1>2, <1>4, <1>6, <2>3
    <3> QED BY <1>1, <1>6, <2>1, <2>3, <3>1
  <2> QED BY <2>2, <2>3
<1>8. Len(Tail(Stream)) = Len(t)
  BY <1>1, <1>2, <1>4, <1>5, <1>6
<1>9. Tail(Stream) = t
  BY <1>5, <1>6, <1>7, <1>8, SeqEqual
<1>10. Tail(Stream) = Tail(buf) \o toProxy
  BY <1>9 DEF t
<1> QED BY <1>3, <1>4, <1>10

LEMMA StreamLoaded ==
  ASSUME buf = << >>, toProxy \in Seq(Pdu), NEW k \in 1..Len(toProxy)
  PROVE  LET b == buf \o SubSeq(toProxy, 1, k)
             r == SubSeq(toProxy, k + 1, Len(toProxy))
         IN  /\ b \in Seq(Pdu) /\ r \in Seq(Pdu) /\ b # << >> /\ b \o r = Stream
<1> DEFINE h == SubSeq(toProxy, 1, k)
           r == SubSeq(toProxy, k + 1, Len(toProxy))
<1>0. Len(toProxy) \in Nat /\ \A i \in 1..Len(toProxy) : toProxy[i] \in Pdu
  OBVIOUS
<1>1. h \in Seq(Pdu) /\ Len(h) = k
  BY <1>0, SubSeqProperties
<1>2. r \in Seq(Pdu)
  BY <1>0, SubSeqProperties
<1>3. h \o r = toProxy
  <2>1. h \o r = SubSeq(toProxy, 1, Len(toProxy))
    BY <1>0, ConcatAdjacentSubSeq
  <2> QED BY <2>1, SubSeqFull
<1> HIDE DEF h, r
<1>4. buf \o h = h /\ Stream = toProxy
  BY <1>1, ConcatEmptySeq DEF Stream
<1>5. h # << >>
  BY <1>0, <1>1
<1> QED BY <1>1, <1>2, <1>3, <1>4, <1>5 DEF h, r

LEMMA StreamSent ==
  ASSUME buf \in Seq(Pdu), toProxy \in Seq(Pdu), NEW out \in Seq(Pdu),
         buf' = buf, toProxy' = toProxy \o out
  PROVE  Stream' = Stream \o out /\ toProxy' \in Seq(Pdu) /\ Stream \in Seq(Pdu)
<1>1. Stream' = buf \o (toProxy \o out)
  BY DEF Stream
<1>2. Stream' = (buf \o toProxy) \o out
  BY <1>1, ConcatAssociative
<1>3. buf \o toProxy \in Seq(Pdu) /\ toProxy \o out \in Seq(Pdu)
  BY ConcatProperties
<1> QED BY <1>2, <1>3 DEF Stream

(* One, two or three PDUs are sent. *)
LEMMA SentOne ==
  ASSUME NEW s \in Seq(Pdu), NEW a \in Pdu
  PROVE  s \o <<a>> = Append(s, a) /\ <<a>> \in Seq(Pdu)
BY AppendIsConcat

LEMMA SentTwo ==
  ASSUME NEW s \in Seq(Pdu), NEW a \in Pdu, NEW b \in Pdu
  PROVE  s \o <<a, b>> = Append(Append(s, a), b) /\ <<a, b>> \in Seq(Pdu)
<1>0. <<a>> \in Seq(Pdu) /\ <<b>> \in Seq(Pdu) /\ <<a, b>> \in Seq(Pdu)
  OBVIOUS
<1>1. <<a, b>> = <<a>> \o <<b>> /\ <<a>> \in Seq(Pdu) /\ <<b>> \in Seq(Pdu)
      /\ <<a, b>> \in Seq(Pdu)
  <2>1. <<a>> \o <<b>> = Append(<<a>>, b)
    BY <1>0, AppendIsConcat
  <2>2. Append(<<a>>, b) = <<a, b>>
    <3> DEFINE t == Append(<<a>>, b)
    <3>1. t \in Seq(Pdu) /\ Len(t) = 2 /\ t[1] = a /\ t[2] = b
      BY <1>0, AppendProperties
    <3> HIDE DEF t
    <3>2. t = <<a, b>>
      BY <3>1, <1>0, SeqEqual
    <3> QED BY <3>2 DEF t
  <2> QED BY <1>0, <2>1, <2>2
<1>2. s \o (<<a>> \o <<b>>) = (s \o <<a>>) \o <<b>> /\ s \o <<a>> \in Seq(Pdu)
  BY <1>1, ConcatAssociative, ConcatProperties
<1> QED BY <1>1, <1>2, AppendIsConcat

LEMMA SentThree ==
  ASSUME NEW s \in Seq(Pdu), NEW a \in Pdu, NEW b \in Pdu, NEW c \in Pdu
  PROVE  /\ s \o <<a, b, c>> = Append(Append(Append(s, a), b), c)
         /\ <<a, b, c>> \in Seq(Pdu)
<1>0. <<a, b>> \in Seq(Pdu) /\ <<c>> \in Seq(Pdu) /\ <<a, b, c>> \in Seq(Pdu)
  OBVIOUS
<1>1. <<a, b, c>> = <<a, b>> \o <<c>> /\ <<a, b>> \in Seq(Pdu) /\ <<c>> \in Seq(Pdu)
      /\ <<a, b, c>> \in Seq(Pdu)
  <2>1. <<a, b>> \o <<c>> = Append(<<a, b>>, c)
    BY <1>0, AppendIsConcat
  <2>2. Append(<<a, b>>, c) = <<a, b, c>>
    <3> DEFINE t == Append(<<a, b>>, c)
    <3>1. t \in Seq(Pdu) /\ Len(t) = 3 /\ t[1] = a /\ t[2] = b /\ t[3] = c
      BY <1>0, AppendProperties
    <3> HIDE DEF t
    <3>2. t = <<a, b, c>>
      BY <3>1, <1>0, SeqEqual
    <3> QED BY <3>2 DEF t
  <2> QED BY <1>0, <2>1, <2>2
<1>2. s \o (<<a, b>> \o <<c>>) = (s \o <<a, b>>) \o <<c>> /\ s \o <<a, b>> \in Seq(Pdu)
  BY <1>1, ConcatAssociative, ConcatProperties
<1> QED BY <1>1, <1>2, SentTwo, AppendIsConcat

LEMMA OnlyOne ==
  ASSUME NEW a \in Seq(Pdu), NEW b \in Seq(Pdu), Len(a \o b) = 1, NEW i \in 1..Len(b)
  PROVE  b[i] = (a \o b)[1]
<1>1. /\ Len(a \o b) = Len(a) + Len(b)
      /\ \A j \in 1..Len(a) + Len(b) :
           (a \o b)[j] = IF j <= Len(a) THEN a[j] ELSE b[j - Len(a)]
  BY ConcatProperties
<1>2. Len(a) \in Nat /\ Len(b) \in Nat
  OBVIOUS
<1>3. \A m, n \in Nat : m + n = 1 /\ i \in 1..n => m = 0 /\ n = 1 /\ i = 1
  OBVIOUS
<1>4. Len(a) = 0 /\ Len(b) = 1 /\ i = 1
  BY <1>1, <1>2, <1>3
<1>5. 1 \in 1..Len(a) + Len(b) /\ ~(1 <= Len(a)) /\ 1 - Len(a) = 1
  BY <1>4
<1> QED BY <1>1, <1>4, <1>5

(* The end of the stream of the socket, if it was reached. *)
LEMMA CloseFound ==
  ASSUME toProxy \in Seq(Pdu)
  PROVE  LET ends == SelectInSeq(toProxy, LAMBDA p : p = "Close")
         IN  ends \in 0..Len(toProxy) /\ (ends # 0 => toProxy[ends] = "Close")
<1> DEFINE I == {i \in 1..Len(toProxy) : toProxy[i] = "Close"}
<1>1. SelectInSeq(toProxy, LAMBDA p : p = "Close") = IF I # {} THEN Min(I) ELSE 0
  BY DEF SelectInSeq
<1>2. I \subseteq Nat /\ I \subseteq 1..Len(toProxy) /\ Len(toProxy) \in Nat
  OBVIOUS
<1>3. I # {} => Min(I) \in I
  <2> SUFFICES ASSUME I # {} PROVE Min(I) \in I
    OBVIOUS
  <2> HIDE DEF I
  <2>1. PICK m \in I : \A a \in I : ~(<<a, m>> \in OpToRel(<, Nat))
    BY <1>2, WFMin, NatLessThanWellFounded
  <2>2. ASSUME NEW a \in I PROVE m <= a
    <3>1. m \in Nat /\ a \in Nat
      BY <1>2
    <3>2. ~(a < m)
      BY <2>1, <3>1 DEF OpToRel
    <3> QED BY <3>1, <3>2
  <2> QED BY <2>2 DEF Min
<1> QED BY <1>1, <1>2, <1>3

----------------------------------------------------------------------------
(* What several steps need. *)
LEMMA InitAct == Init => ActInv
<1> SUFFICES ASSUME Init PROVE ActInv
  OBVIOUS
<1>1. /\ conn = [state |-> "NEGO_INITIATE", joined |-> 0, event |-> "none",
               finalization |-> "EARLY", reactivation |-> FALSE,
               upped |-> FALSE, signal |-> FALSE, pc |-> "idle"]
      /\ buf = << >> /\ toTarget = << >> /\ toProxy = << >>
      /\ target.phase = "idle" /\ front = "up" /\ reported = 0
      /\ target \in [phase : Phase, demands : Nat]
  BY DEF Init, Phase
<1>2. Control
  BY <1>1, EmptySeq DEF Control, Alive, Early, Licensed, Beginning
<1>3. Reports
  BY <1>1 DEF Reports, Reporting, Finalizations, Waiting
<1>4. Dropped
  BY <1>1 DEF Dropped
<1>5. Stream = << >>
  BY <1>1 DEF Stream
<1>6. ModuleAt("basic") /\ Leads("basic", Stream, "basic") /\ "basic" \in Point
  BY <1>1, <1>5, EmptySeq DEF ModuleAt, ModuleIn, Points, Leads, Point
<1>7. TargetAt("basic")
  BY <1>1, <1>5, EmptySeq DEF TargetAt, Beginning, Requested
<1> QED BY <1>2, <1>3, <1>4, <1>6, <1>7 DEF ActInv, InStep

LEMMA TargetKeeps ==
  ASSUME NEW e, TargetAt(e), UNCHANGED <<toTarget, target>>,
         conn.state \in Licensed => conn'.state \in Licensed,
         Stream \in Seq(Basic) => Stream' \in Seq(Basic)
  PROVE  TargetAt(e)'
<1>1. Requested => Requested'
  BY DEF Requested
<1> QED BY <1>1 DEF TargetAt

(* The PDU at the head of the buffer. *)
LEMMA Treated ==
  ASSUME Control, Alive => InStep, conn.pc # "idle"
  PROVE  \E q, e \in Point :
           /\ ModuleAt(q) /\ TargetAt(e) /\ Fits(q, Head(buf)) /\ Head(buf) \in Pdu
           /\ Leads(q, Stream, e)
           /\ Leads(After(Head(buf)), Tail(buf) \o toProxy, e)
           /\ (Stream \in Seq(Basic) => /\ Tail(buf) \o toProxy \in Seq(Basic)
                                        /\ Head(buf) \in Basic)
<1>1. Alive /\ buf # << >> /\ buf \in Seq(Pdu) /\ toProxy \in Seq(Pdu)
  BY DEF Control, Alive
<1>2. PICK q \in Point, e \in Point : ModuleAt(q) /\ Leads(q, Stream, e) /\ TargetAt(e)
  BY <1>1 DEF InStep
<1>3. Stream # << >> /\ Head(Stream) = Head(buf) /\ Tail(Stream) = Tail(buf) \o toProxy
  BY <1>1, StreamHead
<1>4. /\ Fits(q, Head(buf)) /\ Head(buf) \in Pdu
      /\ Leads(After(Head(buf)), Tail(buf) \o toProxy, e)
  BY <1>2, <1>3, LeadsFirst
<1>5. Stream \in Seq(Basic) => Tail(Stream) \in Seq(Basic) /\ Head(Stream) \in Basic
  BY <1>3, HeadTailProperties
<1> QED BY <1>2, <1>3, <1>4, <1>5

(* The three kinds of step of a handler. *)
LEMMA DrawEffect ==
  ASSUME ConnInv, Control, conn.pc = "draw", NEW c, IsConn(c), Draw(c),
         c.state = conn.state, c.pc = conn.pc, c.finalization # "DISCONNECTED",
         UNCHANGED <<toProxy, target>>
  PROVE  /\ Control'
         /\ conn'.finalization = c.finalization /\ conn'.signal = c.signal
         /\ conn'.upped = c.upped /\ conn'.reactivation = c.reactivation
         /\ conn'.state = "TERMINATED" /\ nego' = nego
         /\ Stream' = Tail(buf) \o toProxy
<1>1. buf # << >> /\ buf \in Seq(Pdu) /\ toProxy \in Seq(Pdu) /\ conn.state = "TERMINATED"
      /\ ~Throws(nego)
  BY DEF Control, Alive
<1>2. buf' = Tail(buf) /\ nego' = nego
  BY DEF Draw
<1>3. /\ Tail(buf) \in Seq(Pdu) /\ Len(Tail(buf)) = Len(buf) - 1 /\ Len(buf) \in Nat \ {0}
  BY <1>1, HeadTailProperties, EmptySeq
<1>4. Len(buf) = 1 <=> Tail(buf) = << >>
  <2>1. Tail(buf) = << >> => Len(Tail(buf)) = 0
    BY EmptySeq
  <2>2. Tail(buf) # << >> => Len(Tail(buf)) # 0
    BY <1>3, EmptySeq
  <2> QED BY <1>3, <2>1, <2>2
<1>5. /\ conn'.finalization = c.finalization /\ conn'.signal = c.signal
      /\ conn'.upped = c.upped /\ conn'.reactivation = c.reactivation
      /\ conn'.state = "TERMINATED"
      /\ conn'.pc = IF Len(buf) = 1 THEN "idle" ELSE "draw"
      /\ conn'.event = IF Len(buf) = 1 THEN NextEvent(c.event) ELSE c.event
  <2>1. CASE Len(buf) = 1
    BY <2>1, <1>1 DEF Draw, IsConn
  <2>2. CASE Len(buf) # 1
    BY <2>2, <1>1 DEF Draw, IsConn
  <2> QED BY <2>1, <2>2
<1>6. Control'
  BY <1>1, <1>2, <1>3, <1>4, <1>5 DEF Control, Alive, NextEvent, Licensed, Early
<1> QED BY <1>2, <1>5, <1>6 DEF Stream

LEMMA RaiseEffect ==
  ASSUME ConnInv, Control, Reports, Alive, NEW err, err # "none", Raise(err),
         UNCHANGED <<target, toProxy, toTarget, reported>>,
         conn.finalization = "UP_AND_RUNNING" =>
            target.phase = "gone" /\ \A i \in DOMAIN toProxy : toProxy[i] # "FontMap"
  PROVE  ActInv'
<1>1. Throws(nego')
  <2>1. IsNego(nego)
    BY DEF ConnInv, Turns
  <2>2. IsNego(Throw(nego, err)) /\ Throw(nego, err).error = err
    BY <2>1, ThrowEffect
  <2>3. Throw(Throw(nego, err), "ERR_RDP_NEGOTIATION").error = "ERR_RDP_NEGOTIATION"
    BY <2>2, ThrowEffect
  <2> QED BY <2>2, <2>3 DEF Raise, Ends, Throws
<1>2. /\ conn'.event = "none" /\ conn'.pc = "idle" /\ buf' = << >>
      /\ conn'.state = conn.state /\ conn'.finalization = conn.finalization
      /\ conn'.upped = conn.upped /\ conn'.reactivation = conn.reactivation
      /\ conn'.signal = conn.signal
  BY DEF Raise, ConnInv, IsConn
<1>3. Control'
  BY <1>1, <1>2, EmptySeq DEF Control, Alive
<1>4. Reports'
  BY <1>2 DEF Reports, Reporting
<1>5. Stream' = toProxy
  BY <1>2, ConcatEmptySeq DEF Stream, Control
<1>6. Dropped'
  <2>1. toProxy \in Seq(Pdu)
    BY DEF Control
  <2> QED BY <1>2, <1>5, <2>1 DEF Dropped
<1> QED BY <1>1, <1>3, <1>4, <1>6 DEF ActInv, Alive

----------------------------------------------------------------------------
(* The loop of draw_event. *)
LEMMA DrawStep ==
  ASSUME ConnInv, Control, conn.pc = "draw", NEW c, IsConn(c), Draw(c),
         c.state = conn.state, c.pc = conn.pc, c.finalization # "DISCONNECTED",
         UNCHANGED <<toProxy, target>>,
         NEW r \in Point, NEW e \in Point, Leads(r, Tail(buf) \o toProxy, e),
         ModuleIn(c, r, front'), TargetAt(e)', Reporting(c, reported')
  PROVE  ActInv'
<1>1. /\ Control' /\ conn'.finalization = c.finalization /\ conn'.signal = c.signal
      /\ conn'.upped = c.upped /\ conn'.reactivation = c.reactivation
      /\ nego' = nego /\ Stream' = Tail(buf) \o toProxy
  BY DrawEffect
<1>2. Reports'
  BY <1>1 DEF Reports, Reporting
<1>3. ModuleAt(r)'
  BY <1>1 DEF ModuleAt, ModuleIn
<1>4. InStep'
  BY <1>1, <1>3 DEF InStep
<1>5. Dropped'
  BY <1>1 DEF Dropped, Control, Throws
<1> QED BY <1>1, <1>2, <1>4, <1>5 DEF ActInv

LEMMA DemandActiveKeeps ==
  ASSUME ConnInv, ActInv, conn.pc = "draw", DemandActive, UNCHANGED <<toProxy, target>>
  PROVE  ActInv'
<1> DEFINE T == Tail(buf) \o toProxy
<1>0. Control /\ Reports /\ (Alive => InStep) /\ Head(buf) = "DemandActive"
      /\ reported' = reported
  BY DEF ActInv, DemandActive
<1>1. PICK q \in Point, e \in Point :
        /\ ModuleAt(q) /\ TargetAt(e) /\ Fits(q, Head(buf))
        /\ Leads(After(Head(buf)), T, e)
  BY <1>0, Treated
<1>2. q \in {"basic", "licensed", "deactivated"} /\ After(Head(buf)) = "demanded"
  BY <1>0, <1>1 DEF Fits, Basic, Ending, After
<1>3. /\ conn.finalization \in {"EARLY", "WAITING_SYNCHRONIZE"}
      /\ conn.upped => conn.finalization = "WAITING_SYNCHRONIZE"
      /\ conn.upped <=> conn.reactivation
      /\ front # "activating"
  <2>1. conn.finalization \in Finalizations \ {"DISCONNECTED"}
    BY <1>0 DEF Reports, Reporting, Control
  <2>2. conn.finalization \in {"EARLY", "WAITING_SYNCHRONIZE"}
    BY <1>1, <1>2, <2>1 DEF ModuleAt, ModuleIn, Points, Finalizations, Waiting
  <2> QED BY <1>0, <1>1, <1>2, <2>2 DEF ModuleAt, ModuleIn, Reports, Reporting, Waiting
<1> HIDE DEF T
<1>4. ASSUME NEW r \in Point, r # "end"
      PROVE  \/ e = "demanded" /\ Leads(r, T, r)
             \/ e = "end" /\ Leads(r, T, "end")
  BY <1>1, <1>2, <1>4, LeadsOn
<1>5. "end" \in Point /\ "demanded" \in Point /\ "resizing" \in Point /\ "confirmed" \in Point
  BY DEF Point
<1>6. /\ e = "demanded" => target.phase = "demand" /\ toTarget = << >>
      /\ e = "end" => target.phase = "gone"
  BY <1>1 DEF TargetAt
<1>7. target.phase = "gone" => TargetAt("end")'
  BY DEF TargetAt
<1> DEFINE c == [conn EXCEPT !.finalization = "WAITING_SYNCHRONIZE"]
<1>8. /\ IsConn(c) /\ c.state = conn.state /\ c.pc = conn.pc /\ c.signal = conn.signal
      /\ c.finalization = "WAITING_SYNCHRONIZE"
      /\ c.upped = conn.upped /\ c.reactivation = conn.reactivation
  BY DEF ConnInv, IsConn
<1>9. Reporting(c, reported')
  BY <1>0, <1>3, <1>8 DEF Reports, Reporting, Finalizations, Waiting
<1>10. /\ front' = front => ModuleIn(c, "confirmed", front')
       /\ front' = "activating" => ModuleIn(c, "resizing", front')
  BY <1>3, <1>8 DEF ModuleIn, Points
<1>11. CASE Draw(c) /\ toTarget' = toTarget \o activation /\ UNCHANGED front
  <2>1. e = "demanded" => TargetAt("confirmed")'
    <3>1. << >> \o activation = activation
      BY DEF activation
    <3> QED BY <1>6, <1>11, <3>1 DEF TargetAt
  <2>2. PICK d \in Point : Leads("confirmed", T, d) /\ TargetAt(d)'
    BY <1>4, <1>5, <1>6, <1>7, <2>1
  <2> HIDE DEF c
  <2> QED BY <1>0, <1>5, <1>8, <1>9, <1>10, <1>11, <2>2, DrawStep DEF T
<1>12. CASE Draw(c) /\ front' = "activating" /\ UNCHANGED toTarget
  <2>1. e = "demanded" => TargetAt("resizing")'
    BY <1>6, <1>12 DEF TargetAt
  <2>2. PICK d \in Point : Leads("resizing", T, d) /\ TargetAt(d)'
    BY <1>4, <1>5, <1>6, <1>7, <2>1
  <2> HIDE DEF c
  <2> QED BY <1>0, <1>5, <1>8, <1>9, <1>10, <1>12, <2>2, DrawStep DEF T
<1>13. CASE Catch /\ UNCHANGED <<front, toTarget>>
  <2>1. CASE ~conn.upped
    <3>1. Raise("ERR_SESSION_UNKNOWN_BACKEND")
      BY <1>13, <2>1 DEF Catch
    <3>2. Alive
      BY <1>0, <1>3 DEF Control, Alive
    <3> QED BY <1>0, <1>3, <1>13, <3>1, <3>2, RaiseEffect
  <2>2. CASE conn.upped
    <3> DEFINE s == [conn EXCEPT !.signal = TRUE]
    <3>1. /\ IsConn(s) /\ s.state = conn.state /\ s.pc = conn.pc /\ s.signal = TRUE
          /\ s.finalization = "WAITING_SYNCHRONIZE"
          /\ s.upped = conn.upped /\ s.reactivation = conn.reactivation
      BY <1>3, <2>2 DEF ConnInv, IsConn
    <3>2. Draw(s)
      BY <1>13, <2>2 DEF Catch
    <3> HIDE DEF s
    <3>3. Reporting(s, reported') /\ ModuleIn(s, "demanded", front')
      BY <1>0, <1>3, <1>13, <3>1 DEF Reports, Reporting, Finalizations, Waiting,
          ModuleIn, Points
    <3>4. e = "demanded" => TargetAt("demanded")'
      BY <1>6, <1>13 DEF TargetAt
    <3>5. PICK d \in Point : Leads("demanded", T, d) /\ TargetAt(d)'
      BY <1>4, <1>5, <1>6, <1>7, <3>4
    <3> QED BY <1>0, <1>5, <3>1, <3>2, <3>3, <3>5, DrawStep DEF T
  <2> QED BY <2>1, <2>2
<1> QED BY <1>11, <1>12, <1>13 DEF DemandActive

(* A PDU that leads the module to the point after it. *)
LEMMA DrawOn ==
  ASSUME ConnInv, ActInv, conn.pc = "draw", NEW c, IsConn(c), Draw(c),
         c.state = conn.state, c.pc = conn.pc, c.signal = conn.signal,
         c.finalization # "DISCONNECTED", After(Head(buf)) \in Points(c.finalization),
         After(Head(buf)) \notin {"demanded", "resizing"}, front # "activating",
         Reporting(c, reported'), UNCHANGED <<toProxy, target, toTarget, front>>
  PROVE  ActInv'
<1>0. Control /\ (Alive => InStep)
  BY DEF ActInv
<1>1. PICK e \in Point :
        /\ TargetAt(e) /\ Leads(After(Head(buf)), Tail(buf) \o toProxy, e)
        /\ Head(buf) \in Pdu
        /\ (Stream \in Seq(Basic) => Tail(buf) \o toProxy \in Seq(Basic))
  BY <1>0, Treated
<1>2. Stream' = Tail(buf) \o toProxy /\ conn'.state = "TERMINATED"
  BY <1>0, DrawEffect
<1>3. TargetAt(e)'
  BY <1>1, <1>2, TargetKeeps DEF Licensed
<1>4. ModuleIn(c, After(Head(buf)), front')
  BY DEF ModuleIn
<1>5. After(Head(buf)) \in Point
  BY <1>1 DEF Pdu, Basic, Ending, After, Point
<1> QED BY <1>0, <1>1, <1>3, <1>4, <1>5, DrawStep

LEMMA DataPduKeeps ==
  ASSUME ConnInv, ActInv, conn.pc = "draw", DataPduStep, UNCHANGED <<toProxy, target>>
  PROVE  ActInv'
<1> DEFINE T == Tail(buf) \o toProxy
           p == Head(buf)
<1>0. /\ Control /\ Reports /\ (Alive => InStep) /\ p \in DataPdu /\ Finalization
      /\ UNCHANGED <<toTarget, front>>
  BY DEF ActInv, DataPduStep
<1>a. Alive /\ buf \in Seq(Pdu) /\ toProxy \in Seq(Pdu) /\ buf # << >>
  BY <1>0 DEF Control, Alive
<1>1. PICK q \in Point, e \in Point :
        ModuleAt(q) /\ TargetAt(e) /\ Fits(q, p) /\ Leads(After(p), T, e)
  BY <1>0, Treated
<1>f. conn.finalization \in Waiting \cup {"EARLY", "UP_AND_RUNNING"}
  BY <1>0, <1>a DEF Reports, Reporting, Alive, Finalizations
<1>c. ASSUME NEW v PROVE
        LET c == [conn EXCEPT !.finalization = v]
        IN  /\ IsConn(c) /\ c.state = conn.state /\ c.pc = conn.pc /\ c.signal = conn.signal
            /\ c.finalization = v /\ c.upped = conn.upped
            /\ c.reactivation = conn.reactivation
  BY DEF ConnInv, IsConn
<1>w. ASSUME NEW v \in Waiting, conn.finalization \in Waiting, reported' = reported
      PROVE  Reporting([conn EXCEPT !.finalization = v], reported')
  <2> DEFINE c == [conn EXCEPT !.finalization = v]
  <2>1. c.finalization = v /\ c.upped = conn.upped /\ c.reactivation = conn.reactivation
    BY <1>c
  <2> HIDE DEF c
  <2>2. Reporting(c, reported')
    BY <1>0, <1>w, <2>1 DEF Reports, Reporting, Finalizations, Waiting
  <2> QED BY <2>2 DEF c
<1> HIDE DEF T, p
<1>2. CASE conn.finalization = "EARLY"
  <2>1. PICK err : err # "none" /\ Raise(err)
    BY <1>0, <1>2 DEF Finalization, FontMap, UpAndRunning, p
  <2>2. reported' = reported
    BY <1>0, <1>2 DEF Finalization, FontMap, UpAndRunning
  <2> QED BY <1>0, <1>a, <1>2, <2>1, <2>2, RaiseEffect
<1>3. CASE conn.finalization = "WAITING_SYNCHRONIZE"
  <2>1. q \in {"confirmed", "layout"} /\ p \in {"MonitorLayout", "Synchronize"}
        /\ front # "activating"
    BY <1>0, <1>1, <1>3 DEF ModuleAt, ModuleIn, Points, Fits, DataPdu, Basic, Ending
  <2>2. reported' = reported
        /\ \/ Draw(AfterSynchronize(p))
           \/ Raise("ERR_RDP_UNSUPPORTED_MONITOR_LAYOUT")
    BY <1>0, <1>3 DEF Finalization, FontMap, UpAndRunning, p
  <2>3. CASE Raise("ERR_RDP_UNSUPPORTED_MONITOR_LAYOUT")
    BY <1>0, <1>a, <1>3, <2>2, <2>3, RaiseEffect
  <2>4. CASE p = "MonitorLayout" /\ Draw(conn)
    <3>1. After(p) = "layout" /\ "layout" \in Points(conn.finalization)
      BY <1>3, <2>4 DEF After, Basic, Ending, Points
    <3>2. IsConn(conn) /\ Reporting(conn, reported')
      BY <1>0, <2>2 DEF ConnInv, Reports
    <3> QED BY <1>0, <1>3, <2>1, <2>4, <3>1, <3>2, DrawOn DEF p
  <2>5. CASE p = "Synchronize" /\ Draw([conn EXCEPT !.finalization = "WAITING_CTL_COOPERATE"])
    <3>1. After(p) = "synchronized" /\ "synchronized" \in Points("WAITING_CTL_COOPERATE")
      BY <2>5 DEF After, Basic, Ending, Points
    <3>2. Reporting([conn EXCEPT !.finalization = "WAITING_CTL_COOPERATE"], reported')
      BY <1>3, <1>w, <2>2 DEF Waiting
    <3> QED BY <1>0, <1>c, <2>1, <2>5, <3>1, <3>2, DrawOn DEF p
  <2> QED BY <2>1, <2>2, <2>3, <2>4, <2>5 DEF AfterSynchronize
<1>4. CASE conn.finalization = "WAITING_CTL_COOPERATE"
  <2>1. p = "Cooperate" /\ front # "activating"
    BY <1>0, <1>1, <1>4 DEF ModuleAt, ModuleIn, Points, Fits, DataPdu, Basic, Ending
  <2>2. /\ reported' = reported
        /\ Draw([conn EXCEPT !.finalization = "WAITING_GRANT_CONTROL_COOPERATE"])
    BY <1>0, <1>4 DEF Finalization, FontMap, UpAndRunning
  <2>3. After(p) = "cooperating" /\ "cooperating" \in Points("WAITING_GRANT_CONTROL_COOPERATE")
    BY <2>1 DEF After, Basic, Ending, Points
  <2>4. Reporting([conn EXCEPT !.finalization = "WAITING_GRANT_CONTROL_COOPERATE"], reported')
    BY <1>4, <1>w, <2>2 DEF Waiting
  <2> QED BY <1>0, <1>c, <2>1, <2>2, <2>3, <2>4, DrawOn DEF p
<1>5. CASE conn.finalization = "WAITING_GRANT_CONTROL_COOPERATE"
  <2>1. p = "GrantControl" /\ front # "activating"
    BY <1>0, <1>1, <1>5 DEF ModuleAt, ModuleIn, Points, Fits, DataPdu, Basic, Ending
  <2>2. /\ reported' = reported
        /\ Draw([conn EXCEPT !.finalization = "WAITING_FONT_MAP"])
    BY <1>0, <1>5 DEF Finalization, FontMap, UpAndRunning
  <2>3. After(p) = "granted" /\ "granted" \in Points("WAITING_FONT_MAP")
    BY <2>1 DEF After, Basic, Ending, Points
  <2>4. Reporting([conn EXCEPT !.finalization = "WAITING_FONT_MAP"], reported')
    BY <1>5, <1>w, <2>2 DEF Waiting
  <2> QED BY <1>0, <1>c, <2>1, <2>2, <2>3, <2>4, DrawOn DEF p
<1>6. CASE conn.finalization = "WAITING_FONT_MAP"
  <2> DEFINE c == [conn EXCEPT !.finalization = "UP_AND_RUNNING",
                               !.reactivation = FALSE, !.upped = TRUE]
  <2>1. p = "FontMap" /\ front # "activating"
    BY <1>0, <1>1, <1>6 DEF ModuleAt, ModuleIn, Points, Fits, DataPdu, Basic, Ending
  <2>2. /\ reported' = reported + (IF conn.reactivation THEN 0 ELSE 1)
        /\ Draw(c)
    BY <1>0, <1>6 DEF Finalization, FontMap, UpAndRunning
  <2>3. After(p) = "up" /\ "up" \in Points("UP_AND_RUNNING")
    BY <2>1 DEF After, Basic, Ending, Points
  <2>4. /\ IsConn(c) /\ c.state = conn.state /\ c.pc = conn.pc /\ c.signal = conn.signal
        /\ c.finalization = "UP_AND_RUNNING" /\ c.upped = TRUE /\ c.reactivation = FALSE
    BY DEF ConnInv, IsConn
  <2> HIDE DEF c
  <2>5. reported' = 1
    BY <1>0, <1>6, <2>2 DEF Reports, Reporting, Waiting
  <2>6. Reporting(c, reported')
    BY <2>4, <2>5 DEF Reporting, Finalizations, Waiting
  <2> QED BY <1>0, <2>1, <2>2, <2>3, <2>4, <2>6, DrawOn DEF p
<1>7. CASE conn.finalization = "UP_AND_RUNNING"
  <2>1. p = "ErrorInfo" /\ front # "activating"
    BY <1>0, <1>1, <1>7 DEF ModuleAt, ModuleIn, Points, Fits, DataPdu, Basic, Ending
  <2>2. After(p) = "left" /\ "left" \in Points("UP_AND_RUNNING")
    BY <2>1 DEF After, Basic, Ending, Points
  <2>3. /\ reported' = reported
        /\ Draw(conn) \/ Raise("ERR_AUTOMATIC_RECONNECTION_REQUIRED")
    BY <1>0, <1>7 DEF Finalization, FontMap, UpAndRunning
  <2>4. CASE Draw(conn)
    <3>1. IsConn(conn) /\ Reporting(conn, reported')
      BY <1>0, <2>3 DEF ConnInv, Reports
    <3> QED BY <1>0, <1>7, <2>1, <2>2, <2>4, <3>1, DrawOn DEF p
  <2>5. CASE Raise("ERR_AUTOMATIC_RECONNECTION_REQUIRED")
    <3>1. Leads("left", T, e) /\ e # "left"
      BY <1>1, <2>2 DEF TargetAt
    <3>2. T # << >>
      BY <3>1 DEF Leads
    <3>3. T[1] \in Ending
      BY <3>1, <3>2 DEF Leads, Fits
    <3>4. e = "end" /\ Len(T) = 1
      BY <3>1, <3>2, <3>3, LeadsStop
    <3>5. target.phase = "gone"
      BY <1>1, <3>4 DEF TargetAt
    <3>6. ASSUME NEW i \in DOMAIN toProxy PROVE toProxy[i] # "FontMap"
      <4>1. Tail(buf) \in Seq(Pdu) /\ DOMAIN toProxy = 1..Len(toProxy)
        BY <1>a, HeadTailProperties, LenProperties
      <4>2. toProxy[i] = T[1]
        BY <1>a, <3>4, <4>1, OnlyOne DEF T
      <4> QED BY <3>3, <4>2 DEF Ending
    <3> QED BY <1>0, <1>a, <2>3, <2>5, <3>5, <3>6, RaiseEffect
  <2> QED BY <2>3, <2>4, <2>5
<1> QED BY <1>f, <1>2, <1>3, <1>4, <1>5, <1>6, <1>7 DEF Waiting

LEMMA SlowPathAct ==
  ASSUME ConnInv, ActInv, connected_slow_path
  PROVE  ActInv'
<1>0. /\ conn.pc = "draw" /\ UNCHANGED <<toProxy, target>>
      /\ Control /\ Reports /\ (Alive => InStep)
  BY DEF ActInv, connected_slow_path
<1>a. Alive
  BY <1>0 DEF Control, Alive
<1>1. PICK q \in Point : ModuleAt(q) /\ Fits(q, Head(buf))
  BY <1>0, Treated
<1>f. conn.finalization \in Waiting \cup {"EARLY", "UP_AND_RUNNING"}
  BY <1>0, <1>a DEF Reports, Reporting, Alive, Finalizations
<1>2. CASE DeactivateAll
  <2> DEFINE c == Deactivated(conn)
  <2>1. Head(buf) = "DeactivateAll" /\ Draw(c) /\ UNCHANGED <<toTarget, front, reported>>
    BY <1>2 DEF DeactivateAll, outputs
  <2>2. q = "up" /\ conn.finalization = "UP_AND_RUNNING" /\ front # "activating"
    BY <1>1, <1>f, <2>1 DEF ModuleAt, ModuleIn, Points, Fits, Basic, Ending, Waiting
  <2>3. /\ IsConn(c) /\ c.state = conn.state /\ c.pc = conn.pc /\ c.signal = conn.signal
        /\ c.finalization = "WAITING_SYNCHRONIZE" /\ c.upped = conn.upped
        /\ c.reactivation = TRUE
    BY DEF ConnInv, IsConn, Deactivated
  <2> HIDE DEF c
  <2>4. Reporting(c, reported')
    BY <1>0, <2>1, <2>2, <2>3 DEF Reports, Reporting, Finalizations, Waiting
  <2>5. After(Head(buf)) = "deactivated" /\ "deactivated" \in Points(c.finalization)
    BY <2>1, <2>3 DEF After, Basic, Ending, Points
  <2> QED BY <1>0, <2>1, <2>2, <2>3, <2>4, <2>5, DrawOn
<1>3. CASE DisconnectProviderUltimatum
  <2>1. /\ conn'.finalization = "DISCONNECTED" /\ conn'.event = "none"
        /\ conn'.pc = "idle" /\ buf' = << >> /\ conn'.state = conn.state
        /\ conn'.upped = conn.upped /\ conn'.reactivation = conn.reactivation
        /\ UNCHANGED <<toTarget, front, reported>>
    BY <1>3 DEF DisconnectProviderUltimatum, outputs, ConnInv, IsConn
  <2>2. Throws(nego')
    <3> DEFINE t == Throw(nego, "ERR_MCS_APPID_IS_MCS_DPUM")
    <3>1. IsNego(t) /\ t.error = "ERR_MCS_APPID_IS_MCS_DPUM"
      BY ThrowEffect DEF ConnInv, Turns
    <3>2. nego' = Ends(t)
      BY <1>3 DEF DisconnectProviderUltimatum
    <3> HIDE DEF t
    <3>3. Throw(t, "ERR_RDP_NEGOTIATION").error = "ERR_RDP_NEGOTIATION"
      BY <3>1, ThrowEffect
    <3> QED BY <3>1, <3>2, <3>3 DEF Ends, Throws
  <2>3. Control'
    BY <1>0, <2>1, <2>2 DEF Control, Alive, Licensed, Early
  <2>4. Reports' /\ Dropped'
    BY <1>0, <2>1 DEF Reports, Reporting, Dropped, Finalizations, Waiting
  <2> QED BY <2>2, <2>3, <2>4 DEF ActInv, Alive
<1>4. CASE Redirection
  <2>1. /\ Head(buf) = "Redirection" /\ UNCHANGED <<toTarget, front, reported>>
        /\ Raise("ERR_RDP_SERVER_REDIR") \/ Draw(conn)
    BY <1>4 DEF Redirection, outputs
  <2>2. conn.finalization = "EARLY" /\ front # "activating"
    BY <1>1, <1>f, <2>1 DEF ModuleAt, ModuleIn, Points, Fits, Basic, Ending, Waiting
  <2>3. After(Head(buf)) = "left" /\ "left" \in Points(conn.finalization)
    BY <2>1, <2>2 DEF After, Basic, Ending, Points
  <2>4. IsConn(conn) /\ Reporting(conn, reported')
    BY <1>0, <2>1 DEF ConnInv, Reports
  <2>5. CASE Raise("ERR_RDP_SERVER_REDIR")
    BY <1>0, <1>a, <2>1, <2>2, <2>5, RaiseEffect
  <2>6. CASE Draw(conn)
    BY <1>0, <2>1, <2>2, <2>3, <2>4, <2>6, DrawOn
  <2> QED BY <2>1, <2>5, <2>6
<1> QED BY <1>0, <1>2, <1>3, <1>4, DemandActiveKeeps, DataPduKeeps DEF connected_slow_path

----------------------------------------------------------------------------
(* The loop of recv_data. *)
LEMMA RequestedMore ==
  ASSUME Requested, conn.state \notin Licensed, NEW out \in Seq(Requests),
         toTarget' = toTarget \o out,
         \/ \A i \in 1..Len(out) : out[i] # "ClientInfo"
         \/ Len(out) = 1 /\ conn'.state \in Licensed
  PROVE  Requested'
<1>1. toTarget \in Seq(Requests) /\ \A i \in 1..Len(toTarget) : toTarget[i] # "ClientInfo"
  BY DEF Requested
<1>2. /\ toTarget' \in Seq(Requests) /\ Len(toTarget') = Len(toTarget) + Len(out)
      /\ \A i \in 1..Len(toTarget) + Len(out) : toTarget'[i] =
           IF i <= Len(toTarget) THEN toTarget[i] ELSE out[i - Len(toTarget)]
  BY <1>1, ConcatProperties
<1>3. Len(toTarget) \in Nat /\ Len(out) \in Nat
  BY <1>1
<1>4. CASE \A i \in 1..Len(out) : out[i] # "ClientInfo"
  <2>1. ASSUME NEW i \in 1..Len(toTarget') PROVE toTarget'[i] # "ClientInfo"
    <3>1. i \in 1..Len(toTarget) + Len(out) /\ i \in Nat
      BY <1>2, <1>3
    <3>2. CASE i <= Len(toTarget)
      <4>1. i \in 1..Len(toTarget)
        BY <1>3, <3>1, <3>2
      <4> QED BY <1>1, <1>2, <3>1, <3>2, <4>1
    <3>3. CASE ~(i <= Len(toTarget))
      <4>1. i - Len(toTarget) \in 1..Len(out)
        BY <1>3, <3>1, <3>3
      <4> QED BY <1>2, <1>4, <3>1, <3>3, <4>1
    <3> QED BY <3>2, <3>3
  <2>2. 1..Len(toTarget') - 1 \subseteq 1..Len(toTarget')
    BY <1>2, <1>3
  <2> QED BY <1>2, <2>1, <2>2 DEF Requested
<1>5. CASE Len(out) = 1 /\ conn'.state \in Licensed
  <2>1. ASSUME NEW i \in 1..Len(toTarget') - 1 PROVE toTarget'[i] # "ClientInfo"
    <3>1. i \in 1..Len(toTarget) /\ i \in 1..Len(toTarget) + Len(out) /\ i <= Len(toTarget)
      BY <1>2, <1>3, <1>5
    <3> QED BY <1>1, <1>2, <3>1
  <2> QED BY <1>2, <1>5, <2>1 DEF Requested
<1> QED BY <1>4, <1>5

LEMMA RecvEffect ==
  ASSUME ConnInv, Control, conn.pc = "recv", NEW c, NEW out, IsConn(c), Recv(c, out),
         c.event = conn.event, c.finalization = conn.finalization,
         c.state \notin Early \cup {"TERMINATED"},
         c.state \notin Licensed => conn.state \notin Licensed,
         UNCHANGED <<toProxy, target>>
  PROVE  /\ Control' /\ nego' = nego /\ toTarget' = toTarget \o out
         /\ conn'.finalization = "EARLY" /\ conn'.signal = c.signal
         /\ conn'.upped = c.upped /\ conn'.reactivation = c.reactivation
         /\ conn'.state = c.state /\ Stream' = Tail(buf) \o toProxy
<1>1. /\ buf # << >> /\ buf \in Seq(Pdu) /\ toProxy \in Seq(Pdu) /\ ~Throws(nego)
      /\ conn.state \notin Early \cup {"TERMINATED"} /\ conn.finalization = "EARLY"
  BY DEF Control, Alive
<1>2. buf' = Tail(buf) /\ nego' = nego /\ toTarget' = toTarget \o out
  BY DEF Recv
<1>3. /\ Tail(buf) \in Seq(Pdu) /\ Len(Tail(buf)) = Len(buf) - 1 /\ Len(buf) \in Nat \ {0}
  BY <1>1, HeadTailProperties, EmptySeq
<1>4. Len(buf) = 1 <=> Tail(buf) = << >>
  <2>1. Tail(buf) = << >> => Len(Tail(buf)) = 0
    BY EmptySeq
  <2>2. Tail(buf) # << >> => Len(Tail(buf)) # 0
    BY <1>3, EmptySeq
  <2> QED BY <1>3, <2>1, <2>2
<1>5. /\ conn'.finalization = c.finalization /\ conn'.signal = c.signal
      /\ conn'.upped = c.upped /\ conn'.reactivation = c.reactivation
      /\ conn'.state = c.state /\ conn'.event = c.event
      /\ conn'.pc = IF Len(buf) = 1 THEN "idle" ELSE "recv"
  BY DEF Recv, IsConn
<1>6. Control'
  BY <1>1, <1>2, <1>3, <1>4, <1>5 DEF Control, Alive
<1> QED BY <1>1, <1>2, <1>5, <1>6 DEF Stream

(* A PDU of the connection sequence before the licence. *)
LEMMA BasicKeeps ==
  ASSUME ConnInv, ActInv, conn.pc = "recv", NEW c, NEW out \in Seq(Requests), IsConn(c),
         Recv(c, out), Head(buf) \in Basic, conn.state \notin Licensed,
         c.event = conn.event, c.finalization = conn.finalization,
         c.upped = conn.upped, c.reactivation = conn.reactivation,
         c.state \notin Early \cup {"TERMINATED"}, UNCHANGED <<toProxy, target, outputs>>,
         \/ \A i \in 1..Len(out) : out[i] # "ClientInfo"
         \/ Len(out) = 1 /\ c.state \in Licensed
  PROVE  ActInv'
<1>0. Control /\ Reports /\ (Alive => InStep) /\ UNCHANGED <<front, reported>> /\ Alive
  BY DEF ActInv, outputs, Control, Alive
<1>1. PICK q \in Point, e \in Point :
        /\ ModuleAt(q) /\ TargetAt(e) /\ Fits(q, Head(buf))
        /\ Leads(After(Head(buf)), Tail(buf) \o toProxy, e)
        /\ (Stream \in Seq(Basic) => Tail(buf) \o toProxy \in Seq(Basic))
  BY <1>0, Treated
<1>2. q = "basic" /\ After(Head(buf)) = "basic"
  BY <1>1 DEF Fits, Basic, Ending, After
<1>3. /\ Control' /\ nego' = nego /\ toTarget' = toTarget \o out
      /\ conn'.finalization = "EARLY"
      /\ conn'.upped = c.upped /\ conn'.reactivation = c.reactivation
      /\ conn'.state = c.state /\ Stream' = Tail(buf) \o toProxy
  BY <1>0, RecvEffect
<1>4. Requested => Requested'
  BY <1>3, RequestedMore
<1>5. target.phase \in Beginning \cup {"gone"}
  BY <1>0 DEF Control
<1>6. TargetAt(e)'
  BY <1>1, <1>3, <1>4, <1>5 DEF TargetAt, Beginning
<1>7. ModuleAt("basic")'
  BY <1>0, <1>1, <1>2, <1>3 DEF ModuleAt, ModuleIn, Points
<1>8. InStep'
  BY <1>1, <1>2, <1>3, <1>6, <1>7 DEF InStep
<1>9. conn.finalization = "EARLY"
  BY <1>0 DEF Control, Licensed
<1>10. Reports' /\ Dropped'
  BY <1>0, <1>3, <1>9 DEF Reports, Reporting, Dropped
<1> QED BY <1>3, <1>8, <1>10 DEF ActInv

(* The licence is settled: the rest is for draw_event. *)
LEMMA TerminatedKeeps ==
  ASSUME ConnInv, ActInv, conn.pc = "recv", NEW rest \in Seq(Pdu), Terminated(rest),
         conn.state = "GET_LICENSE", UNCHANGED <<nego, toTarget, toProxy, target, outputs>>,
         NEW q \in Point, NEW e \in Point, q \in Points("EARLY"),
         Leads(q, rest \o toProxy, e), TargetAt(e), Stream \notin Seq(Basic) \/ rest = buf
  PROVE  ActInv'
<1>0. /\ Control /\ Reports /\ UNCHANGED <<front, reported>> /\ Alive /\ InStep
      /\ conn.finalization = "EARLY" /\ toProxy \in Seq(Pdu)
  BY DEF ActInv, outputs, Control, Alive
<1>1. /\ conn'.state = "TERMINATED" /\ conn'.finalization = "EARLY"
      /\ conn'.upped = conn.upped /\ conn'.reactivation = conn.reactivation
      /\ conn'.pc = IF rest = << >> THEN "idle" ELSE "draw"
      /\ rest = << >> => conn'.event = "first"
      /\ buf' = rest
  BY <1>0 DEF Terminated, ConnInv, IsConn
<1>2. Control'
  BY <1>0, <1>1 DEF Control, Alive, Licensed, Early
<1>3. Reports' /\ Dropped'
  BY <1>0, <1>1 DEF Reports, Reporting, Dropped
<1>4. Stream' = rest \o toProxy
  BY <1>1 DEF Stream
<1>5. TargetAt(e)'
  <2>1. Stream \in Seq(Basic) => Stream' \in Seq(Basic)
    BY <1>4 DEF Stream
  <2> QED BY <1>1, <2>1, TargetKeeps DEF Licensed
<1>6. front # "activating"
  BY <1>0 DEF InStep, ModuleAt, ModuleIn, Points
<1>7. ModuleAt(q)'
  BY <1>0, <1>1, <1>6 DEF ModuleAt, ModuleIn, Points
<1>8. InStep'
  BY <1>4, <1>5, <1>7 DEF InStep
<1> QED BY <1>2, <1>3, <1>8 DEF ActInv

LEMMA LicenseKeeps ==
  ASSUME ConnInv, ActInv, conn.pc = "recv", get_license, UNCHANGED <<toProxy, target, outputs>>
  PROVE  ActInv'
<1> DEFINE T == Tail(buf) \o toProxy
           p == Head(buf)
<1>0. /\ Control /\ Reports /\ (Alive => InStep) /\ UNCHANGED <<front, reported>> /\ Alive
      /\ conn.state = "GET_LICENSE" /\ conn.finalization = "EARLY"
      /\ buf \in Seq(Pdu) /\ toProxy \in Seq(Pdu) /\ buf # << >>
  BY DEF ActInv, outputs, Control, Alive, get_license
<1>1. PICK q \in Point, e \in Point :
        /\ ModuleAt(q) /\ TargetAt(e) /\ Fits(q, p)
        /\ Leads(q, Stream, e) /\ Leads(After(p), T, e)
        /\ (Stream \in Seq(Basic) => p \in Basic)
  BY <1>0, Treated
<1>q. q \in Points("EARLY") /\ front # "activating"
  BY <1>0, <1>1 DEF ModuleAt, ModuleIn, Points
<1> HIDE DEF T, p
<1>2. CASE p \in {"LicenseRequest", "PlatformChallenge"} /\ Recv(conn, <<"LicenseReply">>)
  <2>1. After(p) = "asked" /\ "replied" \in Point /\ "replied" # "end" /\ "end" \in Point
    BY <1>2 DEF After, Basic, Ending, Point
  <2>2. \/ e = "asked" /\ Leads("replied", T, "replied")
        \/ e = "end" /\ Leads("replied", T, "end")
    BY <1>1, <2>1, LeadsOn
  <2>3. IsConn(conn) /\ conn.state \notin Early \cup {"TERMINATED"}
    BY <1>0 DEF ConnInv, Early
  <2>4. /\ Control' /\ nego' = nego /\ toTarget' = toTarget \o <<"LicenseReply">>
        /\ conn'.finalization = "EARLY" /\ conn'.signal = conn.signal
        /\ conn'.upped = conn.upped /\ conn'.reactivation = conn.reactivation
        /\ conn'.state = conn.state /\ Stream' = T
    BY <1>0, <1>2, <2>3, RecvEffect DEF T
  <2>5. << >> \o <<"LicenseReply">> = <<"LicenseReply">>
    OBVIOUS
  <2>6. PICK d \in Point : Leads("replied", T, d) /\ TargetAt(d)'
    BY <1>1, <2>1, <2>2, <2>4, <2>5 DEF TargetAt, Beginning
  <2>7. ModuleAt("replied")'
    BY <1>0, <1>q, <2>4 DEF ModuleAt, ModuleIn, Points
  <2>8. InStep'
    BY <2>1, <2>4, <2>6, <2>7 DEF InStep
  <2>9. Reports' /\ Dropped'
    BY <1>0, <2>4 DEF Reports, Reporting, Dropped
  <2> QED BY <2>4, <2>8, <2>9 DEF ActInv
<1>3. CASE /\ p \in {"NewLicense", "ErrorAlert"} /\ Terminated(Tail(buf))
           /\ UNCHANGED <<nego, toTarget>>
  <2>1. After(p) = "licensed" /\ p \notin Basic /\ "licensed" \in Points("EARLY")
        /\ "licensed" \in Point
    BY <1>3 DEF After, Basic, Ending, Point, Points
  <2>2. Tail(buf) \in Seq(Pdu)
    BY <1>0, HeadTailProperties
  <2> QED BY <1>0, <1>1, <1>3, <2>1, <2>2, TerminatedKeeps DEF T
<1>4. CASE Terminated(buf) /\ UNCHANGED <<nego, toTarget>>
  BY <1>0, <1>1, <1>4, <1>q, TerminatedKeeps DEF Stream
<1> QED BY <1>2, <1>3, <1>4 DEF get_license, p

LEMMA RecvPduAct ==
  ASSUME ConnInv, ActInv, RecvPdu
  PROVE  ActInv'
<1>0. conn.pc = "recv" /\ UNCHANGED <<toProxy, target, outputs>> /\ Control /\ Reports
      /\ UNCHANGED <<front, reported>> /\ Alive /\ conn.finalization = "EARLY"
  BY DEF RecvPdu, ActInv, outputs, Control, Alive
<1>1. CASE Unexpected
  BY <1>0, <1>1, RaiseEffect DEF Unexpected
<1>2. CASE basic_settings_exchange
  <2> DEFINE c == [conn EXCEPT !.state = "CHANNEL_CONNECTION_ATTACH_USER"]
  <2>1. /\ IsConn(c) /\ c.state = "CHANNEL_CONNECTION_ATTACH_USER"
        /\ c.event = conn.event /\ c.finalization = conn.finalization
        /\ c.upped = conn.upped /\ c.reactivation = conn.reactivation
    BY DEF ConnInv, IsConn
  <2>2. /\ Recv(c, <<"AttachUserRequest">>) /\ Head(buf) \in Basic
        /\ conn.state \notin Licensed
    BY <1>2 DEF basic_settings_exchange, Basic, Licensed
  <2> HIDE DEF c
  <2>3. <<"AttachUserRequest">> \in Seq(Requests)
        /\ \A i \in 1..Len(<<"AttachUserRequest">>) : <<"AttachUserRequest">>[i] # "ClientInfo"
    BY DEF Requests
  <2>4. c.state \notin Early \cup {"TERMINATED"}
    BY <2>1 DEF Early
  <2> QED BY <1>0, <2>1, <2>2, <2>3, <2>4, BasicKeeps
<1>3. CASE channel_connection_attach_user
  <2> DEFINE c == [conn EXCEPT !.state = "CHANNEL_JOIN_CONFIRM", !.joined = 0]
             out == [i \in 1..Joins |-> "ChannelJoinRequest"]
  <2>1. /\ IsConn(c) /\ c.state = "CHANNEL_JOIN_CONFIRM"
        /\ c.event = conn.event /\ c.finalization = conn.finalization
        /\ c.upped = conn.upped /\ c.reactivation = conn.reactivation
    BY DEF ConnInv, IsConn
  <2>2. Recv(c, out) /\ Head(buf) \in Basic /\ conn.state \notin Licensed
    BY <1>3 DEF channel_connection_attach_user, Basic, Licensed
  <2>3. out \in Seq(Requests) /\ \A i \in 1..Len(out) : out[i] # "ClientInfo"
    <3>1. Joins \in Nat
      BY ConnectionAssumption DEF Joins
    <3>2. out \in Seq({"ChannelJoinRequest"})
      BY <3>1, SeqDef
    <3>3. {"ChannelJoinRequest"} \subseteq Requests
      BY DEF Requests
    <3> HIDE DEF out
    <3>4. out \in Seq(Requests)
      BY <3>2, <3>3, SeqMonotonic
    <3>5. \A i \in 1..Len(out) : out[i] \in {"ChannelJoinRequest"}
      BY <3>2, ElementOfSeq
    <3> QED BY <3>4, <3>5
  <2> HIDE DEF c, out
  <2>4. c.state \notin Early \cup {"TERMINATED"}
    BY <2>1 DEF Early
  <2> QED BY <1>0, <2>1, <2>2, <2>3, <2>4, BasicKeeps
<1>4. CASE channel_join_confirm
  <2> DEFINE a == [conn EXCEPT !.joined = @ + 1]
             b == [conn EXCEPT !.joined = @ + 1, !.state = "GET_LICENSE"]
  <2>0. conn.state = "CHANNEL_JOIN_CONFIRM" /\ Head(buf) \in Basic
        /\ conn.state \notin Licensed
    BY <1>4 DEF channel_join_confirm, Basic, Licensed
  <2>1. /\ IsConn(a) /\ a.state = conn.state
        /\ a.event = conn.event /\ a.finalization = conn.finalization
        /\ a.upped = conn.upped /\ a.reactivation = conn.reactivation
    BY DEF ConnInv, IsConn
  <2>2. /\ IsConn(b) /\ b.state = "GET_LICENSE"
        /\ b.event = conn.event /\ b.finalization = conn.finalization
        /\ b.upped = conn.upped /\ b.reactivation = conn.reactivation
    BY DEF ConnInv, IsConn
  <2>3. Recv(a, << >>) \/ Recv(b, <<"ClientInfo">>)
    BY <1>4 DEF channel_join_confirm
  <2> HIDE DEF a, b
  <2>4. CASE Recv(a, << >>)
    <3>1. << >> \in Seq(Requests) /\ \A i \in 1..Len(<< >>) : << >>[i] # "ClientInfo"
      OBVIOUS
    <3>2. a.state \notin Early \cup {"TERMINATED"}
      BY <2>0, <2>1 DEF Early
    <3> QED BY <1>0, <2>0, <2>1, <2>4, <3>1, <3>2, BasicKeeps
  <2>5. CASE Recv(b, <<"ClientInfo">>)
    <3>1. <<"ClientInfo">> \in Seq(Requests) /\ Len(<<"ClientInfo">>) = 1
      BY DEF Requests
    <3>2. b.state \notin Early \cup {"TERMINATED"} /\ b.state \in Licensed
      BY <2>2 DEF Early, Licensed
    <3> QED BY <1>0, <2>0, <2>2, <2>5, <3>1, <3>2, BasicKeeps
  <2> QED BY <2>3, <2>4, <2>5
<1>5. CASE get_license
  BY <1>0, <1>5, LicenseKeeps
<1> QED BY <1>1, <1>2, <1>3, <1>4, <1>5 DEF RecvPdu

----------------------------------------------------------------------------
(* The handlers are entered: nothing but the place of the PDUs changes. *)
LEMMA IdleFacts ==
  ASSUME ConnInv, ActInv, Idle
  PROVE  /\ Control /\ Reports /\ Alive /\ InStep /\ buf = << >>
         /\ toProxy \in Seq(Pdu) /\ Stream = toProxy
<1>1. Control /\ Reports /\ (Alive => InStep)
  BY DEF ActInv
<1>2. Alive /\ buf = << >> /\ toProxy \in Seq(Pdu)
  BY <1>1 DEF Idle, Control, Alive
<1>3. << >> \o toProxy = toProxy
  BY <1>2, ConcatEmptySeq
<1> QED BY <1>1, <1>2, <1>3 DEF Stream

LEMMA LoadAct ==
  ASSUME ConnInv, ActInv, Idle, NEW pc \in {"recv", "draw"}, Load(pc),
         pc = "recv" => conn.state \notin Early \cup {"TERMINATED"},
         pc = "draw" => conn.state = "TERMINATED"
  PROVE  ActInv'
<1> DEFINE ends == SelectInSeq(toProxy, LAMBDA x : x = "Close")
           most == IF ends = 0 THEN Len(toProxy) ELSE ends - 1
<1>0. /\ Control /\ Reports /\ Alive /\ InStep /\ buf = << >>
      /\ toProxy \in Seq(Pdu) /\ Stream = toProxy
  BY IdleFacts
<1>1. ends \in 0..Len(toProxy) /\ (ends # 0 => toProxy[ends] = "Close") /\ Len(toProxy) \in Nat
  BY <1>0, CloseFound
<1>2. /\ toProxy # << >> /\ UNCHANGED <<toTarget, target, outputs>>
      /\ \/ ends = 1 /\ Raise("ERR_TRANSPORT_NO_MORE_DATA") /\ UNCHANGED toProxy
         \/ \E k \in 1..most :
              /\ buf' = buf \o SubSeq(toProxy, 1, k)
              /\ toProxy' = SubSeq(toProxy, k + 1, Len(toProxy))
              /\ conn' = [conn EXCEPT !.pc = pc]
              /\ UNCHANGED nego
  BY DEF Load
<1> HIDE DEF ends
<1>3. UNCHANGED <<front, reported>>
  BY <1>2 DEF outputs
<1>4. CASE ends = 1 /\ Raise("ERR_TRANSPORT_NO_MORE_DATA") /\ UNCHANGED toProxy
  <2>1. PICK q \in Point, e \in Point : Leads(q, toProxy, e) /\ TargetAt(e)
    BY <1>0 DEF InStep
  <2>2. toProxy[1] \in Ending
    BY <1>1, <1>4 DEF Ending
  <2>3. e = "end" /\ Len(toProxy) = 1
    BY <1>2, <2>1, <2>2, LeadsStop
  <2>4. target.phase = "gone"
    BY <2>1, <2>3 DEF TargetAt
  <2>5. \A i \in DOMAIN toProxy : toProxy[i] # "FontMap"
    <3>1. DOMAIN toProxy = 1..1
      BY <1>0, <2>3, LenProperties
    <3>2. \A i \in 1..1 : i = 1
      OBVIOUS
    <3> QED BY <2>2, <3>1, <3>2 DEF Ending
  <2> QED BY <1>0, <1>2, <1>3, <1>4, <2>4, <2>5, RaiseEffect
<1>5. ASSUME NEW k \in 1..most,
             buf' = buf \o SubSeq(toProxy, 1, k),
             toProxy' = SubSeq(toProxy, k + 1, Len(toProxy)),
             conn' = [conn EXCEPT !.pc = pc], UNCHANGED nego
      PROVE  ActInv'
  <2>1. k \in 1..Len(toProxy)
    BY <1>1, <1>5
  <2>2. buf' \in Seq(Pdu) /\ toProxy' \in Seq(Pdu) /\ buf' # << >> /\ Stream' = Stream
    BY <1>0, <1>5, <2>1, StreamLoaded DEF Stream
  <2>3. /\ conn'.pc = pc /\ conn'.state = conn.state /\ conn'.event = conn.event
        /\ conn'.finalization = conn.finalization /\ conn'.signal = conn.signal
        /\ conn'.upped = conn.upped /\ conn'.reactivation = conn.reactivation
    BY <1>5 DEF ConnInv, IsConn
  <2>4. Control'
    BY <1>0, <1>2, <1>5, <2>2, <2>3 DEF Control, Alive, Early
  <2>5. Reports' /\ Dropped'
    BY <1>0, <1>3, <1>5, <2>3 DEF Reports, Reporting, Dropped, Alive
  <2>6. PICK q \in Point, e \in Point : ModuleAt(q) /\ Leads(q, Stream, e) /\ TargetAt(e)
    BY <1>0 DEF InStep
  <2>7. ModuleAt(q)'
    BY <1>3, <2>3, <2>6 DEF ModuleAt, ModuleIn
  <2>8. TargetAt(e)'
    BY <1>2, <2>2, <2>3, <2>6, TargetKeeps
  <2>9. InStep'
    BY <2>2, <2>6, <2>7, <2>8 DEF InStep
  <2> QED BY <2>4, <2>5, <2>9 DEF ActInv
<1> QED BY <1>2, <1>4, <1>5

(* The negotiation, before the first PDU of the sequence. *)
LEMMA NegoAct ==
  ASSUME ConnInv, ActInv, Idle, conn.state = "NEGO", NEW n, RecvNego(n),
         UNCHANGED <<buf, toProxy, front, reported>>
  PROVE  ActInv'
<1>0. /\ Control /\ Reports /\ Alive /\ buf = << >> /\ Stream = toProxy /\ InStep
      /\ toTarget = << >> /\ toProxy = << >> /\ conn.finalization = "EARLY"
      /\ target.phase = "idle" /\ conn.pc = "idle"
  BY IdleFacts DEF Control, Early, Idle
<1>1. /\ conn'.finalization = conn.finalization /\ conn'.pc = conn.pc
      /\ conn'.upped = conn.upped /\ conn'.reactivation = conn.reactivation
      /\ conn'.event \in {conn.event, "none"} /\ conn'.signal = conn.signal
      /\ conn'.state \in {"NEGO", "BASIC_SETTINGS_EXCHANGE"}
      /\ conn'.state = "NEGO" => toTarget' = << >> /\ target' = target
      /\ conn'.state # "NEGO" => /\ toTarget' = <<"ConnectInitial">>
                                 /\ target' = [target EXCEPT !.phase = IF n.selected_protocol = "Rdp" \/ n.tls = "Ok" THEN "connect" ELSE "deaf"]
  <2>1. CASE n.state = "Final" /\ ~Throws(n)
    <3>1. /\ conn' = [conn EXCEPT !.state = "BASIC_SETTINGS_EXCHANGE"]
          /\ toTarget' = <<"ConnectInitial">>
          /\ target' = [target EXCEPT !.phase = IF n.selected_protocol = "Rdp" \/ n.tls = "Ok" THEN "connect" ELSE "deaf"]
      BY <2>1 DEF RecvNego
    <3> QED BY <3>1 DEF ConnInv, IsConn
  <2>2. CASE ~(n.state = "Final" /\ ~Throws(n))
    <3>1. /\ conn' = [conn EXCEPT !.event = "none"] \/ conn' = conn
          /\ toTarget' = << >> /\ target' = target
      BY <2>2 DEF RecvNego
    <3> QED BY <3>1 DEF ConnInv, IsConn
  <2> QED BY <2>1, <2>2
<1>2. /\ target' \in [phase : Phase, demands : Nat] /\ target'.phase \in Beginning
      /\ conn'.state \in Early => target'.phase = "idle"
  BY <1>0, <1>1 DEF Beginning, Early, Control, Phase
<1>3. Requested'
  <2>1. /\ << >> \in Seq(Requests) /\ <<"ConnectInitial">> \in Seq(Requests)
        /\ Len(<<"ConnectInitial">>) = 1 /\ Len(<< >>) = 0
    BY DEF Requests
  <2>2. \A i \in 1..1 : <<"ConnectInitial">>[i] # "ClientInfo"
    OBVIOUS
  <2>3. toTarget' = << >> \/ toTarget' = <<"ConnectInitial">>
    BY <1>1
  <2>4. CASE toTarget' = << >>
    BY <2>1, <2>4 DEF Requested
  <2>5. CASE toTarget' = <<"ConnectInitial">>
    BY <2>1, <2>2, <2>5 DEF Requested
  <2> QED BY <2>3, <2>4, <2>5
<1>4. Stream' = << >>
  BY <1>0 DEF Stream
<1>5. TargetAt("basic")'
  BY <1>2, <1>3, <1>4, EmptySeq DEF TargetAt
<1>6. front # "activating"
  BY <1>0 DEF InStep, ModuleAt, ModuleIn, Points
<1>7. ModuleAt("basic")'
  BY <1>0, <1>1, <1>6 DEF ModuleAt, ModuleIn, Points
<1>8. Leads("basic", << >>, "basic") /\ "basic" \in Point
  BY EmptySeq DEF Leads, Point
<1>9. InStep'
  BY <1>4, <1>5, <1>7, <1>8 DEF InStep
<1>10. Control'
  BY <1>0, <1>1, <1>2, EmptySeq DEF Control, Alive, Early, Licensed, Idle
<1>11. Reports' /\ Dropped'
  BY <1>0, <1>1 DEF Reports, Reporting, Dropped
<1> QED BY <1>9, <1>10, <1>11 DEF ActInv

(* An error of the negotiation, which is not over. *)
LEMMA NegoError ==
  ASSUME ConnInv, ActInv, Idle, conn.event = "negociation", NEW err, err # "none",
         nego' = Throw(nego, err), conn' = [conn EXCEPT !.event = "none"],
         UNCHANGED <<buf, toTarget, toProxy, target, front, reported>>
  PROVE  ActInv'
<1>0. Control /\ Reports /\ Alive /\ conn.finalization = "EARLY" /\ conn.pc = "idle"
  BY IdleFacts DEF Control, Idle
<1>1. Throws(nego')
  BY ThrowEffect DEF ConnInv, Turns, Throws
<1>2. /\ conn'.finalization = "EARLY" /\ conn'.pc = "idle" /\ conn'.event = "none"
      /\ conn'.upped = conn.upped /\ conn'.reactivation = conn.reactivation
      /\ conn'.state = conn.state /\ conn'.signal = conn.signal
  BY <1>0 DEF ConnInv, IsConn
<1>3. Control'
  BY <1>0, <1>1, <1>2 DEF Control, Alive
<1>4. Reports' /\ Dropped'
  BY <1>0, <1>2 DEF Reports, Reporting, Dropped
<1> QED BY <1>1, <1>3, <1>4 DEF ActInv, Alive

(* A step that changes none of this. *)
LEMMA SameAct ==
  ASSUME ActInv, UNCHANGED <<nego, conn, buf, toTarget, toProxy, target, front, reported>>
  PROVE  ActInv'
<1>1. Stream' = Stream
  BY DEF Stream
<1>2. Control' /\ Reports' /\ Dropped' /\ (Alive' <=> Alive)
  BY <1>1 DEF ActInv, Control, Alive, Reports, Dropped
<1>3. ASSUME NEW q, NEW e, ModuleAt(q), TargetAt(e)
      PROVE  ModuleAt(q)' /\ TargetAt(e)'
  BY <1>1, <1>3, TargetKeeps DEF ModuleAt
<1>4. InStep => InStep'
  BY <1>1, <1>3 DEF InStep
<1> QED BY <1>2, <1>4 DEF ActInv

LEMMA StartAct ==
  ASSUME ConnInv, ActInv, start_negociation
  PROVE  ActInv'
<1>0. /\ conn.state = "NEGO_INITIATE" /\ ~Throws(nego)
      /\ UNCHANGED <<buf, toTarget, toProxy, target, front, reported>>
      /\ Control /\ Reports /\ (Alive => InStep)
  BY DEF start_negociation, sending, outputs, ActInv
<1>1. conn.finalization = "EARLY" /\ Alive /\ InStep
  BY <1>0 DEF Control, Alive
<1>2. /\ conn'.finalization = conn.finalization /\ conn'.pc = conn.pc
      /\ conn'.upped = conn.upped /\ conn'.reactivation = conn.reactivation
      /\ conn'.state \in {"NEGO_INITIATE", "NEGO"} /\ conn'.signal = conn.signal
      /\ conn'.event \in {conn.event, "negociation"}
  BY <1>0 DEF start_negociation, ConnInv, IsConn
<1>3. Control'
  BY <1>0, <1>1, <1>2 DEF Control, Alive, Early, Licensed
<1>4. Reports' /\ Dropped'
  BY <1>0, <1>1, <1>2 DEF Reports, Reporting, Dropped
<1>5. Stream' = Stream
  BY <1>0 DEF Stream
<1>6. ASSUME NEW q, NEW e, ModuleAt(q), TargetAt(e)
      PROVE  ModuleAt(q)' /\ TargetAt(e)'
  BY <1>0, <1>2, <1>5, <1>6, TargetKeeps DEF ModuleAt, ModuleIn, Licensed
<1>7. InStep'
  BY <1>1, <1>5, <1>6 DEF InStep
<1> QED BY <1>3, <1>4, <1>7 DEF ActInv

LEMMA AclAct ==
  ASSUME ConnInv, ActInv, NEW message \in {"Ok", "refused"}, acl_update(message)
  PROVE  ActInv'
<1>0. Idle /\ conn.event = "negociation" /\ UNCHANGED <<front, reported>>
  BY DEF acl_update, outputs
<1>1. CASE message = "refused"
  <2>1. AclError
    BY <1>1 DEF acl_update
  <2> QED BY <1>0, <2>1, NegoError DEF AclError
<1>2. CASE message = "Ok" /\ conn.state = "NEGO"
  <2>1. AclOk
    BY <1>2 DEF acl_update
  <2>2. PICK n : RecvNego(n) /\ UNCHANGED <<buf, toProxy>>
    BY <1>2, <2>1 DEF AclOk
  <2> QED BY <1>0, <1>2, <2>2, NegoAct
<1>3. CASE message = "Ok" /\ conn.state # "NEGO"
  <2>1. AclOk
    BY <1>3 DEF acl_update
  <2>2. UNCHANGED <<buf, toTarget, toProxy, target>>
    BY <1>3, <2>1 DEF AclOk
  <2>3. CASE toProxy = << >>
    BY <1>0, <1>3, <2>1, <2>2, <2>3, SameAct DEF AclOk
  <2>4. CASE toProxy # << >>
    BY <1>0, <1>3, <2>1, <2>2, <2>4, NegoError DEF AclOk
  <2> QED BY <2>3, <2>4
<1> QED BY <1>1, <1>2, <1>3

(* The client is resized. *)
LEMMA GdiUpAct ==
  ASSUME ConnInv, ActInv, rdp_gdi_up_and_running
  PROVE  ActInv'
<1>0. /\ Control /\ Reports /\ Alive /\ InStep /\ front = "activating" /\ front' = "up"
      /\ toTarget' = toTarget \o activation
      /\ UNCHANGED <<nego, conn, buf, toProxy, target, reported>>
  BY IdleFacts DEF rdp_gdi_up_and_running, negoVars
<1>1. PICK q \in Point, e \in Point : ModuleAt(q) /\ Leads(q, Stream, e) /\ TargetAt(e)
  BY <1>0 DEF InStep
<1>2. q = "resizing" /\ "confirmed" \in Point /\ "end" \in Point
  BY <1>0, <1>1 DEF ModuleAt, ModuleIn, Point
<1>3. conn.finalization = "WAITING_SYNCHRONIZE"
  <2>1. conn.finalization \in Finalizations \ {"DISCONNECTED"}
    BY <1>0 DEF Reports, Reporting, Alive
  <2> QED BY <1>1, <1>2, <2>1 DEF ModuleAt, ModuleIn, Points, Finalizations, Waiting
<1>4. \/ e = "resizing" /\ Leads("confirmed", Stream, "confirmed")
      \/ e = "end" /\ Leads("confirmed", Stream, "end")
  BY <1>1, <1>2, LeadsOn
<1>5. PICK d \in Point : Leads("confirmed", Stream, d) /\ TargetAt(d)'
  <2>1. << >> \o activation = activation
    BY DEF activation
  <2>2. e = "resizing" => TargetAt("confirmed")'
    BY <1>0, <1>1, <2>1 DEF TargetAt
  <2>3. e = "end" => TargetAt("end")'
    BY <1>0, <1>1 DEF TargetAt
  <2> QED BY <1>2, <1>4, <2>2, <2>3
<1>6. Stream' = Stream
  BY <1>0 DEF Stream
<1>7. ModuleAt("confirmed")'
  BY <1>0, <1>3 DEF ModuleAt, ModuleIn, Points
<1>8. InStep'
  BY <1>2, <1>5, <1>6, <1>7 DEF InStep
<1>9. conn.state \notin Early
  BY <1>0, <1>3 DEF Control, Early
<1>10. Control'
  BY <1>0, <1>9 DEF Control, Alive
<1>11. Reports' /\ Dropped'
  BY <1>0, <1>3 DEF Reports, Dropped
<1> QED BY <1>8, <1>10, <1>11 DEF ActInv

LEMMA DisconnectAct ==
  ASSUME ConnInv, ActInv, disconnect
  PROVE  ActInv'
<1>0. /\ Control /\ Reports /\ Alive /\ InStep /\ Idle
      /\ UNCHANGED <<nego, buf, toProxy, target, front, reported>>
  BY IdleFacts DEF disconnect, negoVars, outputs
<1>1. CASE conn.finalization = "UP_AND_RUNNING"
  <2>1. /\ conn'.finalization = "DISCONNECTED" /\ conn'.event = "none"
        /\ conn'.signal = TRUE /\ conn'.pc = conn.pc /\ conn'.state = conn.state
        /\ conn'.upped = conn.upped /\ conn'.reactivation = conn.reactivation
    BY <1>1 DEF disconnect, ConnInv, IsConn
  <2>2. Control'
    BY <1>0, <1>1, <2>1 DEF Control, Alive, Early, Idle
  <2>3. Reports' /\ Dropped'
    BY <1>0, <2>1 DEF Reports, Reporting, Dropped, Finalizations, Waiting
  <2> QED BY <2>1, <2>2, <2>3 DEF ActInv, Alive
<1>2. CASE conn.finalization # "UP_AND_RUNNING"
  <2>1. /\ conn'.finalization = conn.finalization /\ conn'.event = "none"
        /\ conn'.signal = TRUE /\ conn'.pc = conn.pc /\ conn'.state = conn.state
        /\ conn'.upped = conn.upped /\ conn'.reactivation = conn.reactivation
        /\ toTarget' = toTarget
    BY <1>2 DEF disconnect, ConnInv, IsConn
  <2>2. Control'
    BY <1>0, <2>1 DEF Control, Alive
  <2>3. Reports' /\ Dropped'
    BY <1>0, <1>2, <2>1 DEF Reports, Reporting, Dropped
  <2>4. Stream' = Stream
    BY <1>0 DEF Stream
  <2>5. ASSUME NEW q, NEW e, ModuleAt(q), TargetAt(e)
        PROVE  ModuleAt(q)' /\ TargetAt(e)'
    BY <1>0, <2>1, <2>4, <2>5, TargetKeeps DEF ModuleAt, ModuleIn
  <2>6. InStep'
    BY <1>0, <2>4, <2>5 DEF InStep
  <2> QED BY <2>2, <2>3, <2>6 DEF ActInv
<1> QED BY <1>1, <1>2

----------------------------------------------------------------------------
(* The target. *)
LEMMA TargetStep ==
  ASSUME ConnInv, ActInv, target.phase \notin {"idle", "gone"},
         UNCHANGED <<nego, conn, buf, front, reported>>,
         Alive => /\ toProxy' \in Seq(Pdu) /\ target' \in [phase : Phase, demands : Nat]
                  /\ \E q, e \in Point : ModuleAt(q) /\ Leads(q, Stream', e) /\ TargetAt(e)'
                  /\ conn.state \notin Licensed => target'.phase \in Beginning \cup {"gone"}
  PROVE  ActInv'
<1>0. Control /\ Reports /\ Dropped
  BY DEF ActInv
<1>1. conn.state \notin Early /\ (Alive' <=> Alive)
  BY <1>0 DEF Control, Alive
<1>2. Control'
  BY <1>0, <1>1 DEF Control, Alive
<1>3. Reports' /\ Dropped'
  BY <1>0 DEF Reports, Dropped
<1>4. \A q : ModuleAt(q)' <=> ModuleAt(q)
  BY DEF ModuleAt
<1>5. Alive => InStep'
  BY <1>4 DEF InStep
<1> QED BY <1>1, <1>2, <1>3, <1>5 DEF ActInv

LEMMA AliveAt ==
  ASSUME ActInv, Alive
  PROVE  /\ buf \in Seq(Pdu) /\ toProxy \in Seq(Pdu) /\ Stream \in Seq(Pdu)
         /\ target \in [phase : Phase, demands : Nat]
         /\ \E q, e \in Point : ModuleAt(q) /\ Leads(q, Stream, e) /\ TargetAt(e)
BY DEF ActInv, Control, InStep, Leads

LEMMA DemandsAct ==
  ASSUME ConnInv, ActInv, TargetDemands
  PROVE  ActInv'
<1>0. /\ target.phase \in {"licensed", "deactivated"} /\ toProxy' = Append(toProxy, "DemandActive")
      /\ target' = [phase |-> "demand", demands |-> target.demands + 1]
      /\ UNCHANGED <<nego, conn, buf, toTarget, front, reported>>
  BY DEF TargetDemands, negoVars, outputs
<1>1. Alive => target' \in [phase : Phase, demands : Nat] /\ target'.phase = "demand"
  BY <1>0 DEF ActInv, Control, Phase
<1>2. ASSUME Alive
      PROVE  /\ toProxy' \in Seq(Pdu)
             /\ \E q, e \in Point : ModuleAt(q) /\ Leads(q, Stream', e) /\ TargetAt(e)'
             /\ conn.state \in Licensed
  <2>1. PICK q \in Point, e \in Point : ModuleAt(q) /\ Leads(q, Stream, e) /\ TargetAt(e)
    BY <1>2, AliveAt
  <2>2. buf \in Seq(Pdu) /\ toProxy \in Seq(Pdu) /\ Stream \in Seq(Pdu) /\ "DemandActive" \in Pdu
    BY <1>2, AliveAt DEF Pdu
  <2>3. /\ Append(toProxy, "DemandActive") = toProxy \o <<"DemandActive">>
        /\ Append(Stream, "DemandActive") = Stream \o <<"DemandActive">>
        /\ <<"DemandActive">> \in Seq(Pdu)
    BY <2>2, AppendIsConcat
  <2>4. Stream' = Append(Stream, "DemandActive") /\ toProxy' \in Seq(Pdu)
    BY <1>0, <2>2, <2>3, StreamSent
  <2>5. e \in {"basic", "licensed", "deactivated"} /\ toTarget = << >>
    BY <1>0, <2>1 DEF TargetAt, Beginning
  <2>6. Fits(e, "DemandActive") /\ After("DemandActive") = "demanded" /\ "demanded" \in Point
    BY <2>5 DEF Fits, After, Basic, Ending, Point
  <2>7. Leads(q, Stream', "demanded")
    BY <2>1, <2>2, <2>4, <2>6, LeadsAppend
  <2>8. TargetAt("demanded")'
    BY <1>0, <1>1, <1>2, <2>5 DEF TargetAt
  <2>9. conn.state \in Licensed
    BY <1>0, <1>2 DEF ActInv, Control, Beginning
  <2> QED BY <2>1, <2>4, <2>6, <2>7, <2>8, <2>9
<1> QED BY <1>0, <1>1, <1>2, TargetStep

LEMMA DeactivatesAct ==
  ASSUME ConnInv, ActInv, TargetDeactivates
  PROVE  ActInv'
<1>0. /\ target.phase = "up" /\ toProxy' = toProxy \o <<"DeactivateAll">>
      /\ target' = [target EXCEPT !.phase = "deactivated"]
      /\ UNCHANGED <<nego, conn, buf, toTarget, front, reported>>
  BY DEF TargetDeactivates, Sends, negoVars, outputs
<1>1. Alive => target' \in [phase : Phase, demands : Nat] /\ target'.phase = "deactivated"
  BY <1>0 DEF ActInv, Control, Phase
<1>2. ASSUME Alive
      PROVE  /\ toProxy' \in Seq(Pdu)
             /\ \E q, e \in Point : ModuleAt(q) /\ Leads(q, Stream', e) /\ TargetAt(e)'
             /\ conn.state \in Licensed
  <2>1. PICK q \in Point, e \in Point : ModuleAt(q) /\ Leads(q, Stream, e) /\ TargetAt(e)
    BY <1>2, AliveAt
  <2>2. buf \in Seq(Pdu) /\ toProxy \in Seq(Pdu) /\ Stream \in Seq(Pdu) /\ "DeactivateAll" \in Pdu
    BY <1>2, AliveAt DEF Pdu
  <2>3. Stream \o <<"DeactivateAll">> = Append(Stream, "DeactivateAll")
        /\ <<"DeactivateAll">> \in Seq(Pdu)
    BY <2>2, SentOne
  <2>4. Stream' = Append(Stream, "DeactivateAll") /\ toProxy' \in Seq(Pdu)
    BY <1>0, <2>2, <2>3, StreamSent
  <2>5. e = "up" /\ toTarget = << >>
    BY <1>0, <2>1 DEF TargetAt, Beginning
  <2>6. /\ Fits(e, "DeactivateAll") /\ After("DeactivateAll") = "deactivated"
        /\ "deactivated" \in Point
    BY <2>5 DEF Fits, After, Basic, Ending, Point
  <2>7. Leads(q, Stream', "deactivated")
    BY <2>1, <2>2, <2>4, <2>6, LeadsAppend
  <2>8. TargetAt("deactivated")'
    BY <1>0, <1>1, <1>2, <2>5 DEF TargetAt
  <2>9. conn.state \in Licensed
    BY <1>0, <1>2 DEF ActInv, Control, Beginning
  <2> QED BY <2>1, <2>4, <2>6, <2>7, <2>8, <2>9
<1> QED BY <1>0, <1>1, <1>2, TargetStep

LEMMA LeavesAct ==
  ASSUME ConnInv, ActInv, TargetLeaves
  PROVE  ActInv'
<1>0. /\ target.phase \notin {"idle", "gone"}
      /\ UNCHANGED <<nego, conn, buf, toTarget, front, reported>>
      /\ target' = [target EXCEPT !.phase = "gone"]
      /\ \/ \E z \in Ending : toProxy' = toProxy \o <<z>>
         \/ /\ target.phase \in {"licensed", "up"}
            /\ toProxy' = toProxy \o <<"ErrorInfo", "DisconnectProviderUltimatum">>
         \/ target.phase = "licensed" /\ toProxy' = toProxy \o <<"Redirection", "Close">>
  BY DEF TargetLeaves, Sends, negoVars, outputs, Ending
<1>1. Alive => target' \in [phase : Phase, demands : Nat] /\ target'.phase = "gone"
  BY <1>0 DEF ActInv, Control, Phase
<1>2. ASSUME Alive
      PROVE  /\ toProxy' \in Seq(Pdu)
             /\ \E q, e \in Point : ModuleAt(q) /\ Leads(q, Stream', e) /\ TargetAt(e)'
  <2>1. PICK q \in Point, e \in Point : ModuleAt(q) /\ Leads(q, Stream, e) /\ TargetAt(e)
    BY <1>2, AliveAt
  <2>2. buf \in Seq(Pdu) /\ toProxy \in Seq(Pdu) /\ Stream \in Seq(Pdu)
    BY <1>2, AliveAt
  <2>3. TargetAt("end")' /\ "end" \in Point
    BY <1>1, <1>2 DEF TargetAt, Point
  <2>4. e # "end"
    BY <1>0, <2>1 DEF TargetAt
  <2>5. \A z \in Ending : z \in Pdu /\ After(z) = "end" /\ \A f : f # "end" => Fits(f, z)
    BY DEF Ending, Pdu, After, Basic, Fits
  <2>6. ASSUME NEW z \in Ending, toProxy' = toProxy \o <<z>>
        PROVE  toProxy' \in Seq(Pdu) /\ Leads(q, Stream', "end")
    <3>1. Stream \o <<z>> = Append(Stream, z) /\ <<z>> \in Seq(Pdu)
      BY <2>2, <2>5, SentOne
    <3>2. Stream' = Append(Stream, z) /\ toProxy' \in Seq(Pdu)
      BY <1>0, <2>2, <2>6, <3>1, StreamSent
    <3> QED BY <2>1, <2>4, <2>5, <3>2, LeadsAppend
  <2>7. ASSUME NEW y \in {"ErrorInfo", "Redirection"}, NEW z \in Ending, Fits(e, y),
               toProxy' = toProxy \o <<y, z>>
        PROVE  toProxy' \in Seq(Pdu) /\ Leads(q, Stream', "end")
    <3>0. y \in Pdu /\ After(y) = "left"
      BY <2>7 DEF Pdu, After, Basic, Ending
    <3>1. Stream \o <<y, z>> = Append(Append(Stream, y), z) /\ <<y, z>> \in Seq(Pdu)
      BY <2>2, <2>5, <3>0, SentTwo
    <3>2. Stream' = Append(Append(Stream, y), z) /\ toProxy' \in Seq(Pdu)
      BY <1>0, <2>2, <2>7, <3>1, StreamSent
    <3>3. Leads(q, Append(Stream, y), "left")
      BY <2>1, <2>7, <3>0, LeadsAppend
    <3>4. Leads(q, Append(Append(Stream, y), z), "end")
      BY <2>5, <3>3, LeadsAppend
    <3> QED BY <3>2, <3>4
  <2>8. /\ target.phase \in {"licensed", "up"} => Fits(e, "ErrorInfo")
        /\ target.phase = "licensed" => Fits(e, "Redirection")
    BY <2>1 DEF TargetAt, Fits, Beginning
  <2>9. "Close" \in Ending /\ "DisconnectProviderUltimatum" \in Ending
    BY DEF Ending
  <2> QED BY <1>0, <2>1, <2>3, <2>6, <2>7, <2>8, <2>9
<1> QED BY <1>0, <1>1, <1>2, TargetStep

(* The target reads a message of the module. *)
LEMMA SendsOne ==
  ASSUME ActInv, Alive, NEW q, NEW e, Leads(q, Stream, e), NEW x \in Pdu, Fits(e, x),
         buf' = buf, toProxy' = toProxy \o <<x>>
  PROVE  Leads(q, Stream', After(x)) /\ toProxy' \in Seq(Pdu) /\ Stream' = Append(Stream, x)
<1>1. buf \in Seq(Pdu) /\ toProxy \in Seq(Pdu) /\ Stream \in Seq(Pdu)
  BY AliveAt
<1>2. Stream \o <<x>> = Append(Stream, x) /\ <<x>> \in Seq(Pdu)
  BY <1>1, SentOne
<1>3. Stream' = Append(Stream, x) /\ toProxy' \in Seq(Pdu)
  BY <1>1, <1>2, StreamSent
<1> QED BY <1>3, LeadsAppend

LEMMA ReadsConnect ==
  ASSUME ActInv, Alive, NEW q \in Point, NEW e, Leads(q, Stream, e), TargetAt(e),
         target.phase = "connect", toTarget # << >>, toTarget' = Tail(toTarget),
         UNCHANGED <<nego, conn, buf, front, reported>>,
         NEW a \in TargetAnswers(Head(toTarget)),
         toProxy' = toProxy \o a[1], target'.phase = a[2]
  PROVE  /\ toProxy' \in Seq(Pdu) /\ a[2] \in Phase
         /\ \E d \in Point : Leads(q, Stream', d) /\ TargetAt(d)'
         /\ conn.state \notin Licensed => a[2] \in Beginning \cup {"gone"}
<1> DEFINE m == Head(toTarget)
<1>1. e = "basic" /\ Requested /\ Stream \in Seq(Basic) /\ "basic" \in Point
  BY DEF TargetAt, Point
<1>2. /\ toTarget \in Seq(Requests) /\ Len(toTarget) \in Nat \ {0} /\ m = toTarget[1]
      /\ m \in Requests /\ Tail(toTarget) \in Seq(Requests)
      /\ Len(Tail(toTarget)) = Len(toTarget) - 1
      /\ \A i \in 1..Len(Tail(toTarget)) : Tail(toTarget)[i] = toTarget[i + 1]
  BY <1>1, HeadTailProperties, EmptySeq DEF Requested
<1>3. CASE m # "ClientInfo"
  <2>1. PICK x \in Basic : a[1] = <<x>> /\ a[2] = "connect"
    BY <1>2, <1>3 DEF TargetAnswers, Requests, Basic
  <2>2. x \in Pdu /\ Fits(e, x) /\ After(x) = "basic"
    <3>1. x \in Pdu /\ Fits(e, x)
      BY <1>1, <2>1 DEF Pdu, Fits
    <3>2. After(x) = "basic"
      BY <2>1 DEF After, Basic, Ending
    <3> QED BY <3>1, <3>2
  <2>3. Leads(q, Stream', "basic") /\ toProxy' \in Seq(Pdu) /\ Stream' = Append(Stream, x)
    BY <2>1, <2>2, SendsOne
  <2>4. Stream' \in Seq(Basic)
    BY <1>1, <2>1, <2>3, AppendProperties
  <2>5. Requested'
    <3>1. ASSUME NEW i \in 1..Len(toTarget') - 1 PROVE toTarget'[i] # "ClientInfo"
      <4>1. i + 1 \in 1..Len(toTarget) - 1 /\ i \in 1..Len(Tail(toTarget))
        BY <1>2
      <4> QED BY <1>1, <1>2, <4>1 DEF Requested
    <3>2. ASSUME NEW i \in 1..Len(toTarget'), conn.state \notin Licensed
          PROVE  toTarget'[i] # "ClientInfo"
      <4>1. i + 1 \in 1..Len(toTarget) /\ i \in 1..Len(Tail(toTarget))
        BY <1>2
      <4> QED BY <1>1, <1>2, <3>2, <4>1 DEF Requested
    <3> QED BY <1>2, <3>1, <3>2 DEF Requested
  <2>6. TargetAt("basic")'
    BY <2>1, <2>4, <2>5 DEF TargetAt, Beginning
  <2> QED BY <1>1, <2>1, <2>3, <2>6 DEF Phase, Beginning
<1>4. CASE m = "ClientInfo"
  <2>1. Len(toTarget) = 1 /\ conn.state \in Licensed
    <3>1. 1 \in 1..Len(toTarget) /\ (Len(toTarget) # 1 => 1 \in 1..Len(toTarget) - 1)
      BY <1>2
    <3> QED BY <1>1, <1>2, <1>4, <3>1 DEF Requested
  <2>2. toTarget' = << >>
    <3>1. Len(Tail(toTarget)) = 0
      BY <1>2, <2>1
    <3> QED BY <1>2, <3>1, EmptySeq
  <2>3. \/ a[1] = <<"LicenseRequest">> /\ a[2] = "licensing"
        \/ a[1] = <<"ErrorAlert">> /\ a[2] = "licensed"
        \/ a[1] = << >> /\ a[2] = "licensed"
    BY <1>4 DEF TargetAnswers
  <2>4. /\ "LicenseRequest" \in Pdu /\ Fits(e, "LicenseRequest")
        /\ After("LicenseRequest") = "asked" /\ "asked" \in Point
        /\ "ErrorAlert" \in Pdu /\ Fits(e, "ErrorAlert")
        /\ After("ErrorAlert") = "licensed" /\ "licensed" \in Point
    BY <1>1 DEF Pdu, Fits, After, Basic, Ending, Point
  <2>5. CASE a[1] = <<"LicenseRequest">> /\ a[2] = "licensing"
    <3>1. Leads(q, Stream', "asked") /\ toProxy' \in Seq(Pdu)
      BY <2>4, <2>5, SendsOne
    <3>2. TargetAt("asked")'
      BY <2>2, <2>5 DEF TargetAt
    <3> QED BY <2>1, <2>4, <2>5, <3>1, <3>2 DEF Phase
  <2>6. CASE a[1] = <<"ErrorAlert">> /\ a[2] = "licensed"
    <3>1. Leads(q, Stream', "licensed") /\ toProxy' \in Seq(Pdu)
      BY <2>4, <2>6, SendsOne
    <3>2. TargetAt("licensed")'
      BY <2>2, <2>6 DEF TargetAt
    <3> QED BY <2>1, <2>4, <2>6, <3>1, <3>2 DEF Phase
  <2>7. CASE a[1] = << >> /\ a[2] = "licensed"
    <3>1. toProxy' = toProxy /\ toProxy \in Seq(Pdu)
      BY <2>7, AliveAt, ConcatEmptySeq
    <3>2. Stream' = Stream
      BY <3>1 DEF Stream
    <3>3. TargetAt("basic")'
      BY <2>2, <2>7 DEF TargetAt
    <3> QED BY <1>1, <2>1, <2>7, <3>1, <3>2, <3>3 DEF Phase
  <2> QED BY <2>3, <2>5, <2>6, <2>7
<1> QED BY <1>3, <1>4

LEMMA ReadsLater ==
  ASSUME ActInv, Alive, NEW q \in Point, NEW e, Leads(q, Stream, e), TargetAt(e),
         target.phase \notin Beginning \cup {"gone"}, toTarget # << >>,
         toTarget' = Tail(toTarget), UNCHANGED <<nego, conn, buf, front, reported>>,
         NEW a \in TargetAnswers(Head(toTarget)),
         toProxy' = toProxy \o a[1], target'.phase = a[2]
  PROVE  /\ toProxy' \in Seq(Pdu) /\ a[2] \in Phase
         /\ \E d \in Point : Leads(q, Stream', d) /\ TargetAt(d)'
<1>1. \/ e = "replied" /\ toTarget = <<"LicenseReply">>
      \/ e = "confirmed" /\ toTarget = activation
      \/ e = "cooperating" /\ toTarget = <<"FontList">>
  BY DEF TargetAt
<1>2. CASE e = "replied" /\ toTarget = <<"LicenseReply">>
  <2>1. \/ a[1] = <<"PlatformChallenge">> /\ a[2] = "challenge"
        \/ a[1] = <<"NewLicense">> /\ a[2] = "licensed"
    BY <1>2 DEF TargetAnswers
  <2>2. toTarget' = << >>
    BY <1>2
  <2>3. /\ "PlatformChallenge" \in Pdu /\ Fits(e, "PlatformChallenge")
        /\ After("PlatformChallenge") = "asked" /\ "asked" \in Point
        /\ "NewLicense" \in Pdu /\ Fits(e, "NewLicense")
        /\ After("NewLicense") = "licensed" /\ "licensed" \in Point
    BY <1>2 DEF Pdu, Fits, After, Basic, Ending, Point
  <2>4. CASE a[1] = <<"PlatformChallenge">> /\ a[2] = "challenge"
    <3>1. Leads(q, Stream', "asked") /\ toProxy' \in Seq(Pdu)
      BY <2>3, <2>4, SendsOne
    <3>2. TargetAt("asked")'
      BY <2>2, <2>4 DEF TargetAt
    <3> QED BY <2>3, <2>4, <3>1, <3>2 DEF Phase
  <2>5. CASE a[1] = <<"NewLicense">> /\ a[2] = "licensed"
    <3>1. Leads(q, Stream', "licensed") /\ toProxy' \in Seq(Pdu)
      BY <2>3, <2>5, SendsOne
    <3>2. TargetAt("licensed")'
      BY <2>2, <2>5 DEF TargetAt
    <3> QED BY <2>3, <2>5, <3>1, <3>2 DEF Phase
  <2> QED BY <2>1, <2>4, <2>5
<1>3. buf \in Seq(Pdu) /\ toProxy \in Seq(Pdu) /\ Stream \in Seq(Pdu)
  BY AliveAt
<1>4. CASE e = "confirmed" /\ toTarget = activation
  <2>0. Head(toTarget) = "ConfirmActive" /\ toTarget' = <<"FontList">>
    BY <1>4 DEF activation
  <2>1. /\ a[2] = "finalize"
        /\ \/ a[1] = <<"Synchronize", "Cooperate">>
           \/ a[1] = <<"MonitorLayout", "Synchronize", "Cooperate">>
    BY <2>0 DEF TargetAnswers
  <2>2. /\ {"MonitorLayout", "Synchronize", "Cooperate"} \subseteq Pdu
        /\ Fits(e, "MonitorLayout") /\ Fits(e, "Synchronize") /\ Fits("layout", "Synchronize")
        /\ Fits("synchronized", "Cooperate") /\ After("MonitorLayout") = "layout"
        /\ After("Synchronize") = "synchronized" /\ After("Cooperate") = "cooperating"
        /\ "cooperating" \in Point
    BY <1>4 DEF Pdu, Fits, After, Basic, Ending, Point
  <2>3. TargetAt("cooperating")'
    BY <2>0, <2>1 DEF TargetAt
  <2>4. CASE a[1] = <<"Synchronize", "Cooperate">>
    <3>1. /\ Stream \o a[1] = Append(Append(Stream, "Synchronize"), "Cooperate")
          /\ a[1] \in Seq(Pdu)
      BY <1>3, <2>2, <2>4, SentTwo
    <3>2. Stream' = Append(Append(Stream, "Synchronize"), "Cooperate") /\ toProxy' \in Seq(Pdu)
      BY <1>3, <3>1, StreamSent
    <3>3. Leads(q, Append(Stream, "Synchronize"), "synchronized")
      BY <2>2, LeadsAppend
    <3>4. Leads(q, Stream', "cooperating")
      BY <2>2, <3>2, <3>3, LeadsAppend
    <3> QED BY <2>1, <2>2, <2>3, <3>2, <3>4 DEF Phase
  <2>5. CASE a[1] = <<"MonitorLayout", "Synchronize", "Cooperate">>
    <3> DEFINE s == Append(Stream, "MonitorLayout")
    <3>1. /\ Stream \o a[1] = Append(Append(s, "Synchronize"), "Cooperate")
          /\ a[1] \in Seq(Pdu)
      BY <1>3, <2>2, <2>5, SentThree
    <3>2. Stream' = Append(Append(s, "Synchronize"), "Cooperate") /\ toProxy' \in Seq(Pdu)
      BY <1>3, <3>1, StreamSent
    <3>3. Leads(q, s, "layout")
      BY <2>2, LeadsAppend
    <3> HIDE DEF s
    <3>4. Leads(q, Append(s, "Synchronize"), "synchronized")
      BY <2>2, <3>3, LeadsAppend
    <3>5. Leads(q, Stream', "cooperating")
      BY <2>2, <3>2, <3>4, LeadsAppend
    <3> QED BY <2>1, <2>2, <2>3, <3>2, <3>5 DEF Phase
  <2> QED BY <2>1, <2>4, <2>5
<1>5. CASE e = "cooperating" /\ toTarget = <<"FontList">>
  <2>1. a[1] = <<"GrantControl", "FontMap">> /\ a[2] = "up" /\ toTarget' = << >>
    BY <1>5 DEF TargetAnswers
  <2>2. /\ {"GrantControl", "FontMap"} \subseteq Pdu /\ Fits(e, "GrantControl")
        /\ Fits("granted", "FontMap") /\ After("GrantControl") = "granted"
        /\ After("FontMap") = "up" /\ "up" \in Point
    BY <1>5 DEF Pdu, Fits, After, Basic, Ending, Point
  <2>3. Stream \o a[1] = Append(Append(Stream, "GrantControl"), "FontMap") /\ a[1] \in Seq(Pdu)
    BY <1>3, <2>1, <2>2, SentTwo
  <2>4. Stream' = Append(Append(Stream, "GrantControl"), "FontMap") /\ toProxy' \in Seq(Pdu)
    BY <1>3, <2>3, StreamSent
  <2>5. Leads(q, Append(Stream, "GrantControl"), "granted")
    BY <2>2, LeadsAppend
  <2>6. Leads(q, Stream', "up")
    BY <2>2, <2>4, <2>5, LeadsAppend
  <2>7. TargetAt("up")'
    BY <2>1 DEF TargetAt
  <2> QED BY <2>1, <2>2, <2>4, <2>6, <2>7 DEF Phase
<1> QED BY <1>1, <1>2, <1>4, <1>5

LEMMA ReadsAct ==
  ASSUME ConnInv, ActInv, TargetReads
  PROVE  ActInv'
<1>0. /\ target.phase \notin {"idle", "deaf", "gone"} /\ toTarget # << >>
      /\ toTarget' = Tail(toTarget)
      /\ UNCHANGED <<nego, conn, buf, front, reported>>
  BY DEF TargetReads, negoVars, outputs
<1>1. PICK a \in TargetAnswers(Head(toTarget)) :
        toProxy' = toProxy \o a[1] /\ target' = [target EXCEPT !.phase = a[2]]
  BY DEF TargetReads, Sends
<1>2. ASSUME Alive
      PROVE  /\ toProxy' \in Seq(Pdu) /\ target' \in [phase : Phase, demands : Nat]
             /\ \E q, e \in Point : ModuleAt(q) /\ Leads(q, Stream', e) /\ TargetAt(e)'
             /\ conn.state \notin Licensed => target'.phase \in Beginning \cup {"gone"}
  <2>1. PICK q \in Point, e \in Point : ModuleAt(q) /\ Leads(q, Stream, e) /\ TargetAt(e)
    BY <1>2, AliveAt
  <2>2. target \in [phase : Phase, demands : Nat] /\ target'.phase = a[2]
    BY <1>1, <1>2, AliveAt
  <2>3. conn.state \notin Licensed => target.phase \in Beginning \cup {"gone"}
    BY <1>2 DEF ActInv, Control
  <2>4. CASE target.phase = "connect"
    <3>1. /\ toProxy' \in Seq(Pdu) /\ a[2] \in Phase
          /\ \E d \in Point : Leads(q, Stream', d) /\ TargetAt(d)'
          /\ conn.state \notin Licensed => a[2] \in Beginning \cup {"gone"}
      BY <1>0, <1>1, <1>2, <2>1, <2>2, <2>4, ReadsConnect
    <3> QED BY <1>1, <2>1, <2>2, <3>1
  <2>5. CASE target.phase # "connect"
    <3>0. target.phase \notin Beginning \cup {"gone"}
      BY <1>0, <2>5 DEF Beginning
    <3>1. /\ toProxy' \in Seq(Pdu) /\ a[2] \in Phase
          /\ \E d \in Point : Leads(q, Stream', d) /\ TargetAt(d)'
      BY <1>0, <1>1, <1>2, <2>1, <2>2, <3>0, ReadsLater
    <3> QED BY <1>1, <2>1, <2>2, <2>3, <3>0, <3>1
  <2> QED BY <2>4, <2>5
<1> QED BY <1>0, <1>2, TargetStep

----------------------------------------------------------------------------
(* Every step keeps the invariant. *)
LEMMA StepAct ==
  ASSUME ConnInv, ActInv, [Next]_vars
  PROVE  ActInv'
<1> USE DEF negoVars, outputs, sending
<1>1. CASE LogonTimer
  BY <1>1, NegoError DEF LogonTimer
<1>2. CASE recv_data
  <2>1. Idle /\ Load("recv") /\ conn.state \notin Early /\ conn.event = "negociation"
    BY <1>2 DEF recv_data, Early
  <2>2. conn.state # "TERMINATED"
    BY <2>1 DEF ActInv, Control, Idle
  <2> QED BY <2>1, <2>2, LoadAct
<1>3. CASE draw_event
  <2>1. Idle /\ Load("draw") /\ conn.event \in {"first", "running"}
    BY <1>3 DEF draw_event
  <2>2. conn.state = "TERMINATED"
    BY <2>1 DEF ActInv, Control
  <2> QED BY <2>1, <2>2, LoadAct
<1>4. CASE NegoRead
  <2>1. Idle /\ conn.state = "NEGO" /\ UNCHANGED <<buf, toProxy, front, reported>>
    BY <1>4 DEF NegoRead
  <2>2. PICK n : RecvNego(n)
    BY <1>4 DEF NegoRead
  <2> QED BY <2>1, <2>2, NegoAct
<1>5. CASE Manager
  BY <1>5, AclAct DEF Manager
<1>6. CASE Target
  BY <1>6, ReadsAct, DemandsAct, DeactivatesAct, LeavesAct DEF Target
<1>7. CASE UNCHANGED vars
  BY <1>7, SameAct DEF vars
<1> QED BY <1>1, <1>2, <1>3, <1>4, <1>5, <1>6, <1>7, StartAct, RecvPduAct, SlowPathAct,
           GdiUpAct, DisconnectAct DEF Next, Handler

LEMMA ActAlways == Spec => []ActInv
<1>1. Init => ActInv
  BY InitAct
<1>2. ConnInv /\ ActInv /\ [Next]_vars => ActInv'
  BY StepAct
<1> QED BY <1>1, <1>2, ConnAlways, PTL DEF Spec

(* A session that was up is reported once, however often the target reactivates
   it and however it ends (EstablishedOnce). *)
THEOREM SessionReportedOnce == Spec => []EstablishedOnce
<1>1. ActInv => EstablishedOnce
  BY DEF ActInv, Reports, Reporting, EstablishedOnce
<1> QED BY <1>1, ActAlways, PTL

----------------------------------------------------------------------------
(* What is on its way, as UpTogether says it. *)
LEMMA ComingIsStream ==
  ASSUME buf \in Seq(Pdu), toProxy \in Seq(Pdu), NEW p
  PROVE  p \in {buf[i] : i \in DOMAIN buf} \cup {toProxy[i] : i \in DOMAIN toProxy}
            <=> \E i \in DOMAIN Stream : Stream[i] = p
<1>1. /\ Stream \in Seq(Pdu) /\ Len(Stream) = Len(buf) + Len(toProxy)
      /\ \A i \in 1..Len(buf) + Len(toProxy) :
           Stream[i] = IF i <= Len(buf) THEN buf[i] ELSE toProxy[i - Len(buf)]
  BY ConcatProperties DEF Stream
<1>2. /\ Len(buf) \in Nat /\ Len(toProxy) \in Nat /\ DOMAIN buf = 1..Len(buf)
      /\ DOMAIN toProxy = 1..Len(toProxy) /\ DOMAIN Stream = 1..Len(buf) + Len(toProxy)
  BY <1>1, LenProperties
<1>3. ASSUME NEW i \in DOMAIN buf PROVE i \in DOMAIN Stream /\ Stream[i] = buf[i]
  BY <1>1, <1>2
<1>4. ASSUME NEW i \in DOMAIN toProxy
      PROVE  Len(buf) + i \in DOMAIN Stream /\ Stream[Len(buf) + i] = toProxy[i]
  <2>1. /\ Len(buf) + i \in 1..Len(buf) + Len(toProxy) /\ ~(Len(buf) + i <= Len(buf))
        /\ (Len(buf) + i) - Len(buf) = i
    BY <1>2
  <2> QED BY <1>1, <1>2, <2>1
<1>5. ASSUME NEW i \in DOMAIN Stream
      PROVE  \/ i \in DOMAIN buf /\ Stream[i] = buf[i]
             \/ i - Len(buf) \in DOMAIN toProxy /\ Stream[i] = toProxy[i - Len(buf)]
  BY <1>1, <1>2
<1> QED BY <1>3, <1>4, <1>5

(* A running session is left by a PDU that deactivates it, or it ends. *)
LEMMA UpLeads ==
  ASSUME NEW q \in {"up", "left"}, NEW e, Leads(q, Stream, e), TargetAt(e),
         \A i \in DOMAIN Stream : Stream[i] # "DeactivateAll"
  PROVE  /\ target.phase \notin {"demand", "finalize"}
         /\ \A i \in DOMAIN Stream : Stream[i] # "FontMap"
<1>1. Stream \in Seq(Pdu) /\ Len(Stream) \in Nat /\ DOMAIN Stream = 1..Len(Stream)
  BY LenProperties DEF Leads
<1>2. CASE Stream = << >>
  <2>1. e = q
    BY <1>2 DEF Leads
  <2>2. Len(Stream) = 0 /\ DOMAIN Stream = {}
    BY <1>1, <1>2
  <2> QED BY <2>1, <2>2 DEF TargetAt
<1>3. CASE Stream # << >>
  <2>1. Len(Stream) \in Nat \ {0} /\ 1 \in DOMAIN Stream
    BY <1>1, <1>3, EmptySeq
  <2>2. Fits(q, Stream[1])
    BY <1>3 DEF Leads
  <2>3. Stream[1] \in Ending \cup {"ErrorInfo"}
    BY <2>1, <2>2 DEF Fits
  <2>4. CASE Stream[1] \in Ending
    <3>1. e = "end" /\ Len(Stream) = 1
      BY <1>3, <2>4, LeadsStop
    <3>2. target.phase = "gone"
      BY <3>1 DEF TargetAt
    <3>3. \A i \in 1..1 : i = 1
      OBVIOUS
    <3>4. \A i \in DOMAIN Stream : Stream[i] # "FontMap"
      BY <1>1, <2>4, <3>1, <3>3 DEF Ending
    <3> QED BY <3>2, <3>4
  <2>5. CASE Stream[1] = "ErrorInfo"
    <3>1. /\ After("ErrorInfo") = "left" /\ Head(Stream) = Stream[1]
      BY <1>1, <2>1 DEF After, Basic, Ending
    <3>2. Leads("left", Tail(Stream), e)
      BY <1>3, <2>5, <3>1, LeadsFirst
    <3>3. /\ Tail(Stream) \in Seq(Pdu) /\ Len(Tail(Stream)) = Len(Stream) - 1
          /\ \A i \in 1..Len(Tail(Stream)) : Tail(Stream)[i] = Stream[i + 1]
      BY <1>1, <1>3, HeadTailProperties
    <3>4. CASE Tail(Stream) = << >>
      <4>1. e = "left"
        BY <3>2, <3>4 DEF Leads
      <4> QED BY <4>1 DEF TargetAt
    <3>5. CASE Tail(Stream) # << >>
      <4>1. Fits("left", Tail(Stream)[1])
        BY <3>2, <3>5 DEF Leads
      <4>2. Tail(Stream)[1] \in Ending
        BY <4>1 DEF Fits
      <4>3. e = "end" /\ Len(Tail(Stream)) = 1
        BY <3>2, <3>5, <4>2, LeadsStop
      <4>4. target.phase = "gone"
        BY <4>3 DEF TargetAt
      <4>5. Len(Stream) = 2 /\ Stream[2] = Tail(Stream)[1]
        <5>1. \A n \in Nat : n - 1 = 1 => n = 2
          OBVIOUS
        <5>2. Len(Stream) = 2
          BY <1>1, <3>3, <4>3, <5>1
        <5>3. 1 \in 1..1 /\ 1 + 1 = 2
          OBVIOUS
        <5>4. 1 \in 1..Len(Tail(Stream))
          BY <4>3, <5>3
        <5>5. Tail(Stream)[1] = Stream[1 + 1]
          BY <3>3, <5>4
        <5> QED BY <5>2, <5>3, <5>5
      <4>6. \A i \in 1..2 : i = 1 \/ i = 2
        OBVIOUS
      <4>7. \A i \in DOMAIN Stream : Stream[i] # "FontMap"
        BY <1>1, <2>5, <4>2, <4>5, <4>6 DEF Ending
      <4> QED BY <4>4, <4>7
    <3> QED BY <3>4, <3>5
  <2> QED BY <2>3, <2>4, <2>5
<1> QED BY <1>2, <1>3

(* The module takes the session for running only with the target: no PDU of an
   activation is still on its way, unless the target deactivated the session
   again (UpTogether; connection_finalization_state of mod_rdp). *)
THEOREM UpWithTarget == Spec => []UpTogether
<1>1. ASSUME ActInv PROVE UpTogether
  <2> DEFINE coming == {buf[i] : i \in DOMAIN buf} \cup {toProxy[i] : i \in DOMAIN toProxy}
  <2>1. SUFFICES ASSUME conn.finalization = "UP_AND_RUNNING", "DeactivateAll" \notin coming
                 PROVE  target.phase \notin {"demand", "finalize"} /\ "FontMap" \notin coming
    BY DEF UpTogether
  <2>2. buf \in Seq(Pdu) /\ toProxy \in Seq(Pdu)
    BY <1>1, <2>1, EmptySeq DEF ActInv, Control, Dropped, Alive
  <2>3. \A p : p \in coming <=> \E i \in DOMAIN Stream : Stream[i] = p
    BY <2>2, ComingIsStream
  <2> HIDE DEF coming
  <2>4. CASE Throws(nego)
    <3>1. target.phase = "gone" /\ \A i \in DOMAIN Stream : Stream[i] # "FontMap"
      BY <1>1, <2>1, <2>4 DEF ActInv, Dropped
    <3> QED BY <2>3, <3>1
  <2>5. CASE ~Throws(nego)
    <3>1. Alive
      BY <2>1, <2>5 DEF Alive
    <3>2. PICK q \in Point, e \in Point : ModuleAt(q) /\ Leads(q, Stream, e) /\ TargetAt(e)
      BY <1>1, <3>1, AliveAt
    <3>3. q \in {"up", "left"}
      BY <2>1, <3>2 DEF ModuleAt, ModuleIn, Points
    <3>4. \A i \in DOMAIN Stream : Stream[i] # "DeactivateAll"
      BY <2>1, <2>3
    <3>5. /\ target.phase \notin {"demand", "finalize"}
          /\ \A i \in DOMAIN Stream : Stream[i] # "FontMap"
      BY <3>2, <3>3, <3>4, UpLeads
    <3> QED BY <2>3, <3>5
  <2> QED BY <2>4, <2>5
<1>2. ActInv => UpTogether
  BY <1>1
<1> QED BY <1>2, ActAlways, PTL

----------------------------------------------------------------------------
(* How often p occurs in s, as ConfirmAnswersDemand counts it. *)
Occurrences(s, p) == Cardinality({i \in DOMAIN s : s[i] = p})

LEMMA CountNone ==
  ASSUME NEW s, NEW p, \A i \in DOMAIN s : s[i] # p
  PROVE  Occurrences(s, p) = 0
<1>1. {i \in DOMAIN s : s[i] = p} = {}
  OBVIOUS
<1> QED BY <1>1, FS_EmptySet DEF Occurrences

LEMMA CountOne ==
  ASSUME NEW s, NEW p, NEW k \in DOMAIN s, \A i \in DOMAIN s : s[i] = p <=> i = k
  PROVE  Occurrences(s, p) = 1
<1>1. {i \in DOMAIN s : s[i] = p} = {k}
  OBVIOUS
<1> QED BY <1>1, FS_Singleton DEF Occurrences

(* While the target is there, a DemandActive is the last PDU on its way. *)
LEMMA DemandIsLast ==
  ASSUME NEW q, NEW s, NEW e, Leads(q, s, e), e # "end",
         NEW i \in 1..Len(s), s[i] = "DemandActive"
  PROVE  i = Len(s)
<1>1. Len(s) \in Nat /\ s # << >>
  BY DEF Leads
<1>2. SUFFICES ASSUME i # Len(s) PROVE FALSE
  OBVIOUS
<1>3. i \in 1..Len(s) - 1
  BY <1>1, <1>2
<1>4. After("DemandActive") = "demanded"
  BY DEF After, Basic, Ending
<1>5. Fits("demanded", s[i + 1])
  BY <1>3, <1>4 DEF Leads
<1>6. s[i + 1] \in Ending
  BY <1>5 DEF Fits
<1>7. After(s[i + 1]) = "end"
  BY <1>6 DEF After, Basic, Ending
<1>8. CASE i + 1 = Len(s)
  BY <1>1, <1>7, <1>8 DEF Leads
<1>9. CASE i + 1 # Len(s)
  <2>1. i + 1 \in 1..Len(s) - 1
    BY <1>1, <1>3, <1>9
  <2>2. Fits("end", s[(i + 1) + 1])
    BY <1>7, <2>1 DEF Leads
  <2> QED BY <2>2 DEF Fits
<1> QED BY <1>8, <1>9

(* The demands on their way are those that bring the target to "demanded". *)
LEMMA DemandsComing ==
  ASSUME NEW q, NEW s, NEW e, Leads(q, s, e), e # "end", q # "demanded"
  PROVE  Occurrences(s, "DemandActive") = IF e = "demanded" THEN 1 ELSE 0
<1>1. s \in Seq(Pdu) /\ Len(s) \in Nat /\ DOMAIN s = 1..Len(s)
  BY LenProperties DEF Leads
<1>2. \A p \in Pdu : After(p) = "demanded" <=> p = "DemandActive"
  BY DEF After, Pdu, Basic, Ending
<1>3. \A i \in DOMAIN s : s[i] = "DemandActive" => i = Len(s)
  BY <1>1, DemandIsLast
<1>4. CASE s = << >>
  <2>1. e = q /\ DOMAIN s = {}
    BY <1>4 DEF Leads
  <2>2. Occurrences(s, "DemandActive") = 0
    BY <2>1, CountNone
  <2> QED BY <2>1, <2>2
<1>5. CASE s # << >>
  <2>1. Len(s) \in DOMAIN s /\ s[Len(s)] \in Pdu /\ After(s[Len(s)]) = e
    BY <1>1, <1>5, EmptySeq DEF Leads
  <2>2. CASE e = "demanded"
    <3>1. s[Len(s)] = "DemandActive"
      BY <1>2, <2>1, <2>2
    <3>2. \A i \in DOMAIN s : s[i] = "DemandActive" <=> i = Len(s)
      BY <1>3, <3>1
    <3>3. Occurrences(s, "DemandActive") = 1
      BY <2>1, <3>2, CountOne
    <3> QED BY <2>2, <3>3
  <2>3. CASE e # "demanded"
    <3>1. s[Len(s)] # "DemandActive"
      BY <1>2, <2>1, <2>3
    <3>2. \A i \in DOMAIN s : s[i] # "DemandActive"
      BY <1>3, <3>1
    <3>3. Occurrences(s, "DemandActive") = 0
      BY <3>2, CountNone
    <3> QED BY <2>3, <3>3
  <2> QED BY <2>2, <2>3
<1> QED BY <1>4, <1>5

(* The client is resized only while nothing else is on its way. *)
LEMMA ResizingAlone ==
  ASSUME NEW q, NEW s, NEW e, Leads(q, s, e), e # "end"
  PROVE  q = "resizing" <=> e = "resizing"
<1>1. \A p \in Pdu : After(p) # "resizing"
  BY DEF After, Pdu, Basic, Ending
<1>2. CASE s = << >>
  BY <1>2 DEF Leads
<1>3. CASE s # << >>
  <2>1. Fits(q, s[1]) /\ After(s[Len(s)]) = e /\ s[Len(s)] \in Pdu
    BY <1>3, EmptySeq DEF Leads
  <2>2. e # "resizing"
    BY <1>1, <2>1
  <2>3. ASSUME q = "resizing" PROVE FALSE
    <3>1. s[1] \in Ending
      BY <2>1, <2>3 DEF Fits
    <3> QED BY <1>3, <3>1, LeadsStop
  <2> QED BY <2>2, <2>3
<1> QED BY <1>2, <1>3

(* The confirmations on their way are those of a target at "confirmed". *)
LEMMA ConfirmsComing ==
  ASSUME NEW e, TargetAt(e), e # "end"
  PROVE  /\ Occurrences(toTarget, "ConfirmActive") = IF e = "confirmed" THEN 1 ELSE 0
         /\ target.phase = "demand" <=> e \in {"demanded", "resizing", "confirmed"}
<1>1. target.phase = "demand" <=> e \in {"demanded", "resizing", "confirmed"}
  BY DEF TargetAt, Beginning
<1>2. CASE e = "confirmed"
  <2>1. toTarget = <<"ConfirmActive", "FontList">>
    BY <1>2 DEF TargetAt, activation
  <2>2. /\ DOMAIN toTarget = 1..2 /\ 1 \in DOMAIN toTarget
        /\ toTarget[1] = "ConfirmActive" /\ toTarget[2] = "FontList"
    BY <2>1
  <2>3. \A i \in 1..2 : i = 1 \/ i = 2
    OBVIOUS
  <2>4. \A i \in DOMAIN toTarget : toTarget[i] = "ConfirmActive" <=> i = 1
    BY <2>2, <2>3
  <2>5. Occurrences(toTarget, "ConfirmActive") = 1
    BY <2>2, <2>4, CountOne
  <2> QED BY <1>1, <1>2, <2>5
<1>3. CASE e # "confirmed"
  <2>1. \/ toTarget = << >> \/ toTarget = <<"LicenseReply">> \/ toTarget = <<"FontList">>
        \/ toTarget \in Seq(Requests)
    BY <1>3 DEF TargetAt, Requested
  <2>2. ASSUME toTarget \in Seq(Requests)
        PROVE  \A i \in DOMAIN toTarget : toTarget[i] # "ConfirmActive"
    <3>1. \A i \in DOMAIN toTarget : toTarget[i] \in Requests
      BY <2>2, ElementOfSeq, LenProperties
    <3> QED BY <3>1 DEF Requests
  <2>3. ASSUME \/ toTarget = << >> \/ toTarget = <<"LicenseReply">>
               \/ toTarget = <<"FontList">>
        PROVE  \A i \in DOMAIN toTarget : toTarget[i] # "ConfirmActive"
    BY <2>3
  <2>4. \A i \in DOMAIN toTarget : toTarget[i] # "ConfirmActive"
    BY <2>1, <2>2, <2>3
  <2>5. Occurrences(toTarget, "ConfirmActive") = 0
    BY <2>4, CountNone
  <2> QED BY <1>1, <1>3, <2>5
<1> QED BY <1>2, <1>3

(* A demand of the target is in exactly one place, on its way, waiting for the
   client's resize or confirmed, so that it is neither lost nor answered twice
   (ConfirmAnswersDemand; get_license's rewind, draw_event,
   rdp_gdi_up_and_running). *)
THEOREM DemandInOnePlace == Spec => []ConfirmAnswersDemand
<1>1. ASSUME ActInv PROVE ConfirmAnswersDemand
  <2>1. SUFFICES
          ASSUME ~Ended, ~conn.signal, target.phase # "gone"
          PROVE  Occurrences(Stream, "DemandActive") + Occurrences(toTarget, "ConfirmActive")
                   + (IF front = "activating" THEN 1 ELSE 0)
                     = (IF target.phase = "demand" THEN 1 ELSE 0)
    BY DEF ConfirmAnswersDemand, Occurrences, Stream
  <2>2. Alive
    BY <1>1, <2>1 DEF Ended, Alive, ActInv, Control
  <2>3. PICK q \in Point, e \in Point : ModuleAt(q) /\ Leads(q, Stream, e) /\ TargetAt(e)
    BY <1>1, <2>2, AliveAt
  <2>4. e # "end"
    BY <2>1, <2>3 DEF TargetAt
  <2>5. q # "demanded" /\ (front = "activating" <=> q = "resizing")
    BY <2>1, <2>3 DEF ModuleAt, ModuleIn
  <2>6. Occurrences(Stream, "DemandActive") = IF e = "demanded" THEN 1 ELSE 0
    BY <2>3, <2>4, <2>5, DemandsComing
  <2>7. front = "activating" <=> e = "resizing"
    BY <2>3, <2>4, <2>5, ResizingAlone
  <2>8. /\ Occurrences(toTarget, "ConfirmActive") = IF e = "confirmed" THEN 1 ELSE 0
        /\ target.phase = "demand" <=> e \in {"demanded", "resizing", "confirmed"}
    BY <2>3, <2>4, ConfirmsComing
  <2> QED BY <2>6, <2>7, <2>8
<1>2. ActInv => ConfirmAnswersDemand
  BY <1>1
<1> QED BY <1>2, ActAlways, PTL
=============================================================================
