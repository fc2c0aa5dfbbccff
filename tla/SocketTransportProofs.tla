----------------------- MODULE SocketTransportProofs ------------------------
(* Theorems about SocketTransport: it is a byte stream, for any sizes of the  *)
(* messages and whatever the kernel takes of each of them.                    *)
EXTENDS SocketTransport, SequenceTheorems, TLAPS

(* The buffers are not empty, follow each other without gap or overlap, and end
   with the last byte given. *)
Contiguous ==
    /\ \A i \in 1..Len(async_buffers) :
           async_buffers[i].p < async_buffers[i].e /\ async_buffers[i].e <= given
    /\ \A i \in 1..(Len(async_buffers) - 1) :
           async_buffers[i].e = async_buffers[i + 1].p
    /\ Len(async_buffers) > 0 => async_buffers[Len(async_buffers)].e = given

(* The byte the kernel must take next. *)
NextByte == IF async_buffers = <<>> THEN given
            ELSE IF first = 0 THEN async_buffers[1].p ELSE Current.p

(* The wire holds the first bytes, up to the next one while the socket works. *)
OnWire ==
    /\ Len(wire) <= given
    /\ wire = Stream!FirstBytes(Len(wire))
    /\ sck = "open" => Len(wire) = NextByte
    /\ first > 0 => sck = "open"

IInv == TypeOK /\ Contiguous /\ OnWire

(* Appending the bytes that follow the first p. *)
LEMMA Concat ==
  ASSUME NEW p \in Nat, NEW e \in Nat, p <= e
  PROVE  /\ Stream!FirstBytes(p) \o Bytes(p, e) = Stream!FirstBytes(e)
         /\ Len(Stream!FirstBytes(e)) = e
         /\ Stream!FirstBytes(e) \in Seq(Nat)
<1>1. /\ Stream!FirstBytes(p) \in Seq(Nat) /\ Len(Stream!FirstBytes(p)) = p
      /\ Stream!FirstBytes(e) \in Seq(Nat) /\ Len(Stream!FirstBytes(e)) = e
      /\ Bytes(p, e) \in Seq(Nat) /\ Len(Bytes(p, e)) = e - p
  BY DEF Stream!FirstBytes, Bytes
<1>2. Len(Stream!FirstBytes(p) \o Bytes(p, e)) = e
  BY <1>1
<1>3. \A i \in 1..e : (Stream!FirstBytes(p) \o Bytes(p, e))[i] = i
  BY <1>1 DEF Stream!FirstBytes, Bytes
<1>4. \A i \in 1..e : Stream!FirstBytes(e)[i] = i
  BY DEF Stream!FirstBytes
<1>5. Stream!FirstBytes(p) \o Bytes(p, e) \in Seq(Nat)
  BY <1>1
<1>6. Stream!FirstBytes(p) \o Bytes(p, e) = Stream!FirstBytes(e)
  BY <1>1, <1>2, <1>3, <1>4, <1>5, SeqEqual
<1> QED BY <1>1, <1>6

(* When the kernel takes the bytes up to e from the next one on, the wire holds
   the first e bytes. *)
LEMMA Taken ==
  ASSUME TypeOK, OnWire, sck = "open", NEW e \in Nat, NextByte <= e,
         wire' = wire \o Bytes(NextByte, e)
  PROVE  /\ wire' = Stream!FirstBytes(e)
         /\ wire' \in Seq(Nat) /\ Len(wire') = e
<1>1. Len(wire) = NextByte /\ Len(wire) \in Nat
  BY DEF TypeOK, OnWire
<1>2. wire = Stream!FirstBytes(NextByte)
  BY <1>1 DEF OnWire
<1> QED BY <1>1, <1>2, Concat

(* What is bufferized at the end keeps the buffers contiguous. *)
LEMMA Bufferized ==
  ASSUME TypeOK, Contiguous, NEW p \in Nat, NEW e \in Nat, p < e, given' = e,
         Len(async_buffers) > 0 => p = given, Bufferize(p, e)
  PROVE  /\ async_buffers' \in Seq(Buffer) /\ Contiguous'
         /\ Len(async_buffers') = Len(async_buffers) + 1
         /\ async_buffers' # <<>>
         /\ \A i \in 1..Len(async_buffers) : async_buffers'[i] = async_buffers[i]
         /\ async_buffers'[Len(async_buffers) + 1] = [p |-> p, e |-> e]
<1>1. [p |-> p, e |-> e] \in Buffer
  BY DEF Buffer
<1>2. /\ async_buffers' \in Seq(Buffer)
      /\ Len(async_buffers') = Len(async_buffers) + 1
      /\ \A i \in 1..Len(async_buffers) : async_buffers'[i] = async_buffers[i]
      /\ async_buffers'[Len(async_buffers) + 1] = [p |-> p, e |-> e]
      /\ Len(async_buffers) \in Nat
  BY <1>1 DEF Bufferize, TypeOK
<1> DEFINE n == Len(async_buffers)
<1>3. Contiguous'
  <2>1. \A i \in 1..(n + 1) : /\ async_buffers'[i].p < async_buffers'[i].e
                               /\ async_buffers'[i].e <= given'
    <3> SUFFICES ASSUME NEW i \in 1..(n + 1)
                 PROVE  /\ async_buffers'[i].p < async_buffers'[i].e
                        /\ async_buffers'[i].e <= given'
      OBVIOUS
    <3>1. CASE i \in 1..n
      <4>0. async_buffers[i] \in Buffer /\ given \in Nat
        BY <1>2, <3>1 DEF TypeOK
      <4>1. /\ async_buffers[i].p < async_buffers[i].e
            /\ async_buffers[i].e <= given
            /\ async_buffers[i].e \in Nat /\ given \in Nat
        BY <3>1, <4>0 DEF Contiguous, Buffer
      <4>2. given <= given'
        BY <1>2, <3>1 DEF TypeOK
      <4> QED BY <1>2, <3>1, <4>1, <4>2
    <3>2. CASE i = n + 1
      BY <1>2, <3>2
    <3> QED BY <1>2, <3>1, <3>2
  <2>2. \A i \in 1..n : async_buffers'[i].e = async_buffers'[i + 1].p
    <3> SUFFICES ASSUME NEW i \in 1..n
                 PROVE  async_buffers'[i].e = async_buffers'[i + 1].p
      OBVIOUS
    <3>1. CASE i \in 1..(n - 1)
      <4>1. async_buffers[i].e = async_buffers[i + 1].p
        BY <3>1 DEF Contiguous
      <4>2. i + 1 \in 1..n
        BY <1>2, <3>1
      <4> QED BY <1>2, <4>1, <4>2
    <3>2. CASE i = n
      BY <1>2, <3>2 DEF Contiguous
    <3> QED BY <1>2, <3>1, <3>2
  <2>3. async_buffers'[n + 1].e = given'
    BY <1>2
  <2> QED BY <1>2, <2>1, <2>2, <2>3 DEF Contiguous
<1>4. async_buffers' # <<>>
  BY <1>2
<1> QED BY <1>2, <1>3, <1>4

(* IInv holds initially. *)
LEMMA InitIInv == Init => IInv
<1> SUFFICES ASSUME Init PROVE IInv
  OBVIOUS
<1>1. TypeOK /\ Contiguous
  BY DEF Init, TypeOK, Contiguous
<1>2. <<>> = Stream!FirstBytes(0) /\ Len(Stream!FirstBytes(0)) = 0
  BY DEF Stream!FirstBytes
<1>3. OnWire
  BY <1>2 DEF Init, OnWire, NextByte
<1> QED BY <1>1, <1>3 DEF IInv

(* IInv is inductive: each call keeps the buffers contiguous and the wire up to
   the next byte. *)
LEMMA Inductive == IInv /\ [Next]_vars => IInv'
<1> SUFFICES ASSUME IInv, [Next]_vars PROVE IInv'
  OBVIOUS
<1>0. /\ TypeOK /\ Contiguous /\ OnWire
      /\ Len(async_buffers) \in Nat /\ given \in Nat
  BY DEF IInv, TypeOK
<1>1. ASSUME NEW n \in 1..MaxSend, first = 0, first' = 0, given' = given + n,
             SendBehind(n)
      PROVE  IInv'
  <2>1. Bufferize(given, given + n) /\ sck' = sck /\ wire' = wire
        /\ async_buffers # <<>>
    BY <1>1 DEF SendBehind, has_data_to_write
  <2>2. /\ async_buffers' \in Seq(Buffer) /\ Contiguous'
        /\ Len(async_buffers') = Len(async_buffers) + 1
        /\ async_buffers' # <<>>
        /\ async_buffers'[1] = async_buffers[1]
    <3>1. n \in Nat /\ given + n \in Nat /\ given < given + n
      BY <1>0, TransportAssumption
    <3>2. 1 \in 1..Len(async_buffers)
      BY <1>0, <2>1 DEF TypeOK
    <3> QED BY <1>0, <1>1, <2>1, <3>1, <3>2, Bufferized
  <2>3. TypeOK'
    BY <1>0, <1>1, <2>1, <2>2, TransportAssumption DEF TypeOK
  <2>4. OnWire'
    BY <1>0, <1>1, <2>1, <2>2, TransportAssumption DEF OnWire, NextByte
  <2> QED BY <2>2, <2>3, <2>4 DEF IInv
<1>2. ASSUME NEW n \in 1..MaxSend, first = 0, first' = 0, given' = given + n,
             SendNow(n)
      PROVE  IInv'
  <2>1. PICK res \in 0..n :
          /\ wire' = wire \o Bytes(given, given + res)
          /\ IF res < n THEN Bufferize(given + res, given + n)
                        ELSE UNCHANGED async_buffers
    BY <1>2 DEF SendNow
  <2>2. sck = "open" /\ sck' = sck /\ async_buffers = <<>> /\ NextByte = given
    BY <1>2 DEF SendNow, has_data_to_write, NextByte
  <2>3. /\ wire' = Stream!FirstBytes(given + res)
        /\ wire' \in Seq(Nat) /\ Len(wire') = given + res
    <3>1. given + res \in Nat /\ NextByte <= given + res
      BY <1>0, <2>2
    <3>2. wire' = wire \o Bytes(NextByte, given + res)
      BY <2>1, <2>2
    <3> QED BY <1>0, <2>2, <3>1, <3>2, Taken
  <2>4. CASE res < n
    <3>1. /\ async_buffers' \in Seq(Buffer) /\ Contiguous'
          /\ Len(async_buffers') = 1 /\ async_buffers' # <<>>
          /\ async_buffers'[1] = [p |-> given + res, e |-> given + n]
      BY <1>0, <1>2, <2>1, <2>2, <2>4, Bufferized, TransportAssumption
    <3>2. TypeOK'
      BY <1>0, <1>2, <2>2, <2>3, <3>1, TransportAssumption DEF TypeOK
    <3>3. NextByte' = given + res
      BY <1>2, <3>1 DEF NextByte
    <3>4. given + res <= given'
      BY <1>0, <1>2, TransportAssumption
    <3>5. OnWire'
      BY <1>2, <2>3, <3>3, <3>4 DEF OnWire
    <3> QED BY <3>1, <3>2, <3>5 DEF IInv
  <2>5. CASE ~(res < n)
    <3>1. async_buffers' = <<>> /\ res = n
      BY <2>1, <2>2, <2>5, TransportAssumption
    <3>2. TypeOK' /\ Contiguous'
      BY <1>0, <1>2, <2>2, <2>3, <3>1, TransportAssumption DEF TypeOK, Contiguous
    <3>3. OnWire'
      BY <1>0, <1>2, <2>2, <2>3, <3>1, TransportAssumption DEF OnWire, NextByte
    <3> QED BY <3>2, <3>3 DEF IInv
  <2> QED BY <2>4, <2>5
<1>3. CASE DoSend
  BY <1>1, <1>2, <1>3 DEF DoSend
<1>4. CASE SendFails \/ Disconnect
  <2>1. /\ sck' \in {"failed", "closed"} /\ first = 0 /\ first' = 0
        /\ UNCHANGED <<given, wire, async_buffers>>
    BY <1>4 DEF SendFails, Disconnect
  <2> QED BY <1>0, <2>1 DEF IInv, TypeOK, Contiguous, OnWire
<1>5. CASE SendWaitingData
  <2>1. /\ sck = "open" /\ sck' = sck /\ first = 0 /\ first' = 1
        /\ UNCHANGED <<given, wire, async_buffers>> /\ async_buffers # <<>>
    BY <1>5 DEF SendWaitingData, has_data_to_write
  <2>2. Len(async_buffers) > 0
    BY <1>0, <2>1 DEF TypeOK
  <2>3. NextByte' = NextByte
    BY <2>1 DEF NextByte, Current
  <2> QED BY <1>0, <2>1, <2>2, <2>3 DEF IInv, TypeOK, Contiguous, OnWire
<1>6. CASE WaitingFails
  <2>1. sck' = "failed" /\ first' = 0 /\ UNCHANGED <<given, wire, async_buffers>>
    BY <1>6 DEF WaitingFails
  <2> QED BY <1>0, <2>1 DEF IInv, TypeOK, Contiguous, OnWire
<1>7. ASSUME first > 0
      PROVE  /\ first \in 1..Len(async_buffers) /\ sck = "open"
             /\ Current \in Buffer /\ NextByte = Current.p
             /\ Current.p < Current.e /\ Current.e <= given
             /\ Current.p \in Nat /\ Current.e \in Nat
  <2>1. first \in 1..Len(async_buffers) /\ sck = "open"
    BY <1>0, <1>7 DEF TypeOK, OnWire
  <2>2. Current \in Buffer
    BY <1>0, <2>1 DEF Current, TypeOK
  <2>3. NextByte = Current.p
    BY <1>0, <1>7, <2>1 DEF NextByte, TypeOK
  <2>4. Current.p < Current.e /\ Current.e <= given
    BY <1>0, <2>1 DEF Contiguous, Current
  <2> QED BY <2>1, <2>2, <2>3, <2>4 DEF Buffer
<1>8. CASE BufferSent
  <2>1. /\ first > 0 /\ sck' = sck /\ given' = given
        /\ wire' = wire \o Bytes(Current.p, Current.e)
    BY <1>8 DEF BufferSent
  <2>2. /\ wire' = Stream!FirstBytes(Current.e)
        /\ wire' \in Seq(Nat) /\ Len(wire') = Current.e
    <3>1. Current.e \in Nat /\ NextByte <= Current.e /\ sck = "open"
      BY <1>7, <2>1
    <3>2. wire' = wire \o Bytes(NextByte, Current.e)
      BY <1>7, <2>1
    <3> QED BY <1>0, <3>1, <3>2, Taken
  <2>3. CASE first = Len(async_buffers)
    <3>1. async_buffers' = <<>> /\ first' = 0
      BY <1>8, <2>3 DEF BufferSent
    <3>2. Current.e = given
      BY <1>0, <1>7, <2>1, <2>3 DEF Contiguous, Current
    <3>3. TypeOK' /\ Contiguous'
      BY <1>0, <1>7, <2>1, <2>2, <3>1 DEF TypeOK, Contiguous
    <3>4. OnWire'
      BY <1>0, <1>7, <2>1, <2>2, <3>1, <3>2 DEF OnWire, NextByte
    <3> QED BY <3>3, <3>4 DEF IInv
  <2>4. CASE first # Len(async_buffers)
    <3>1. async_buffers' = async_buffers /\ first' = first + 1
      BY <1>8, <2>4 DEF BufferSent
    <3>2. first' \in 1..Len(async_buffers) /\ Current'.p = Current.e
      BY <1>0, <1>7, <2>1, <2>4, <3>1 DEF Contiguous, Current
    <3>3. TypeOK' /\ Contiguous'
      BY <1>0, <1>7, <2>1, <2>2, <3>1, <3>2 DEF TypeOK, Contiguous
    <3>4. NextByte' = Current.e
      BY <1>0, <1>7, <2>1, <3>1, <3>2 DEF NextByte, TypeOK
    <3>5. OnWire'
      BY <1>0, <1>7, <2>1, <2>2, <3>2, <3>4 DEF OnWire
    <3> QED BY <3>3, <3>5 DEF IInv
  <2> QED BY <2>3, <2>4
<1>9. CASE BufferPartlySent
  <2>1. PICK res \in Int : /\ 0 <= res /\ res <= Current.e - Current.p - 1
                          /\ wire' = wire \o Bytes(Current.p, Current.p + res)
                          /\ async_buffers' = Remaining(res)
    <3>1. PICK res \in (IF first = 1 THEN 1 ELSE 0)..(Current.e - Current.p - 1) :
            /\ wire' = wire \o Bytes(Current.p, Current.p + res)
            /\ async_buffers' = Remaining(res)
      BY <1>9 DEF BufferPartlySent
    <3>2. first > 0
      BY <1>9 DEF BufferPartlySent
    <3>3. res \in Int /\ 0 <= res /\ res <= Current.e - Current.p - 1
      BY <1>7, <3>1, <3>2
    <3> QED BY <3>1, <3>3
  <2>2. first > 0 /\ sck' = sck /\ given' = given /\ first' = 0
    BY <1>9 DEF BufferPartlySent
  <2>3. /\ wire' = Stream!FirstBytes(Current.p + res)
        /\ wire' \in Seq(Nat) /\ Len(wire') = Current.p + res
    <3>1. Current.p + res \in Nat /\ NextByte <= Current.p + res /\ sck = "open"
      BY <1>7, <2>1, <2>2
    <3>2. wire' = wire \o Bytes(NextByte, Current.p + res)
      BY <1>7, <2>1, <2>2
    <3> QED BY <1>0, <3>1, <3>2, Taken
  <2> DEFINE moved == [async_buffers EXCEPT ![first].p = @ + res]
             n == Len(async_buffers)
  <2>4. /\ moved \in Seq(Buffer) /\ Len(moved) = n
        /\ moved[first].p = Current.p + res /\ moved[first].e = Current.e
        /\ \A i \in 1..n : i # first => moved[i] = async_buffers[i]
    <3>1. first \in 1..n /\ Current \in Buffer /\ Current.p + res \in Nat
      BY <1>7, <2>1, <2>2
    <3>2. async_buffers \in Seq(Buffer)
      BY <1>0 DEF TypeOK
    <3>3. [Current EXCEPT !.p = @ + res] \in Buffer
      BY <3>1 DEF Buffer
    <3>4. moved = [async_buffers EXCEPT ![first] = [Current EXCEPT !.p = @ + res]]
      BY DEF Current
    <3>5. moved \in Seq(Buffer) /\ Len(moved) = n
      BY <3>1, <3>2, <3>3, <3>4
    <3>6. moved[first] = [Current EXCEPT !.p = @ + res]
      BY <3>1, <3>2, <3>4
    <3>7. /\ moved[first].p = Current.p + res /\ moved[first].e = Current.e
      BY <3>1, <3>6 DEF Buffer
    <3>8. \A i \in 1..n : i # first => moved[i] = async_buffers[i]
      BY <3>1, <3>2
    <3> QED BY <3>5, <3>7, <3>8
  <2>5. /\ async_buffers' \in Seq(Buffer) /\ Len(async_buffers') = n - first + 1
        /\ \A i \in 1..(n - first + 1) : async_buffers'[i] = moved[first + i - 1]
    <3> HIDE DEF moved
    <3>1. async_buffers' = SubSeq(moved, first, n)
      BY <2>1 DEF Remaining, moved
    <3>2. \A i \in first..n : moved[i] \in Buffer
      BY <1>0, <1>7, <2>2, <2>4
    <3> QED BY <1>0, <1>7, <2>2, <3>1, <3>2, SubSeqProperties
  <2> HIDE DEF moved
  <2>a. first \in 1..n /\ n \in Nat /\ Current.p + res < Current.e
        /\ Current.e <= given
    BY <1>0, <1>7, <2>1, <2>2
  <2>b. \A i \in 1..n : /\ moved[i].p < moved[i].e /\ moved[i].e <= given
                        /\ moved[i].e = async_buffers[i].e
    <3> SUFFICES ASSUME NEW i \in 1..n
                 PROVE  /\ moved[i].p < moved[i].e /\ moved[i].e <= given
                        /\ moved[i].e = async_buffers[i].e
      OBVIOUS
    <3>1. CASE i = first
      BY <2>4, <2>a, <3>1 DEF Current
    <3>2. CASE i # first
      BY <1>0, <2>4, <3>2 DEF Contiguous
    <3> QED BY <3>1, <3>2
  <2>c. \A i \in first..(n - 1) : moved[i].e = moved[i + 1].p
    <3> SUFFICES ASSUME NEW i \in first..(n - 1)
                 PROVE  moved[i].e = moved[i + 1].p
      OBVIOUS
    <3>1. i \in 1..(n - 1) /\ i \in 1..n /\ i + 1 \in 1..n /\ i + 1 # first
      BY <2>a
    <3>2. async_buffers[i].e = async_buffers[i + 1].p
      BY <1>0, <3>1 DEF Contiguous
    <3> QED BY <2>4, <2>b, <3>1, <3>2
  <2>d. moved[n].e = given
    <3>1. async_buffers[n].e = given
      BY <1>0, <2>a DEF Contiguous
    <3> QED BY <2>a, <2>b, <3>1
  <2>6. Contiguous'
    <3> DEFINE m == n - first + 1
    <3>0. m \in Nat /\ m >= 1 /\ Len(async_buffers') = m
      BY <2>a, <2>5
    <3>1. \A i \in 1..m : /\ async_buffers'[i].p < async_buffers'[i].e
                          /\ async_buffers'[i].e <= given'
      <4> SUFFICES ASSUME NEW i \in 1..m
                   PROVE  /\ async_buffers'[i].p < async_buffers'[i].e
                          /\ async_buffers'[i].e <= given'
        OBVIOUS
      <4>1. first + i - 1 \in 1..n
        BY <2>a
      <4>2. async_buffers'[i] = moved[first + i - 1]
        BY <2>5
      <4> QED BY <2>2, <2>b, <4>1, <4>2
    <3>2. \A i \in 1..(m - 1) : async_buffers'[i].e = async_buffers'[i + 1].p
      <4> SUFFICES ASSUME NEW i \in 1..(m - 1)
                   PROVE  async_buffers'[i].e = async_buffers'[i + 1].p
        OBVIOUS
      <4>1. /\ first + i - 1 \in first..(n - 1) /\ i \in 1..m /\ i + 1 \in 1..m
            /\ first + (i + 1) - 1 = (first + i - 1) + 1
        BY <2>a, <3>0
      <4>2. /\ async_buffers'[i] = moved[first + i - 1]
            /\ async_buffers'[i + 1] = moved[(first + i - 1) + 1]
        BY <2>5, <4>1
      <4> QED BY <2>c, <4>1, <4>2
    <3>3. async_buffers'[m].e = given'
      <4>1. m \in 1..m /\ first + m - 1 = n
        BY <2>a, <3>0
      <4>2. async_buffers'[m] = moved[n]
        BY <2>5, <4>1
      <4> QED BY <2>2, <2>d, <4>2
    <3> QED BY <3>0, <3>1, <3>2, <3>3 DEF Contiguous
  <2>7. TypeOK'
    BY <1>0, <2>2, <2>3, <2>5, <1>7 DEF TypeOK
  <2>8. OnWire'
    <3>1. async_buffers' # <<>> /\ async_buffers'[1].p = Current.p + res
      BY <1>0, <1>7, <2>2, <2>4, <2>5
    <3>2. NextByte' = Current.p + res
      BY <2>2, <3>1 DEF NextByte
    <3>3. Current.p + res \in Nat /\ Current.p + res <= given
      BY <1>0, <1>7, <2>1, <2>2
    <3> QED BY <2>2, <2>3, <3>2, <3>3 DEF OnWire
  <2> QED BY <2>6, <2>7, <2>8 DEF IInv
<1>10. CASE UNCHANGED vars
  BY <1>0, <1>10 DEF vars, IInv, TypeOK, Contiguous, OnWire, NextByte, Current
<1> QED BY <1>3, <1>4, <1>5, <1>6, <1>8, <1>9, <1>10 DEF Next, FlushStep

(* The invariant of the transport, whatever the kernel takes of each call of
   do_send and send_waiting_data. *)
LEMMA Invariant == Spec => []IInv
BY InitIInv, Inductive, PTL DEF Spec

(* Between two calls an open transport without data to write has put all the
   bytes given to do_send on the wire, so it need not be watched for writing. *)
THEOREM NothingIsForgotten == Spec => [](TypeOK /\ NothingForgotten)
<1>1. IInv => TypeOK /\ NothingForgotten
  BY DEF IInv, OnWire, NextByte, NothingForgotten, has_data_to_write
<1> QED BY Invariant, <1>1, PTL

(* Every step of do_send and send_waiting_data is a step of the byte stream. *)
LEMMA StepRefines == IInv /\ IInv' /\ [Next]_vars => [Stream!StreamNext]_Stream!stream
<1> SUFFICES ASSUME IInv, IInv', [Next]_vars
             PROVE  [Stream!StreamNext]_Stream!stream
  OBVIOUS
<1>0. /\ given \in Nat /\ given' \in Nat /\ wire \in Seq(Nat) /\ wire' \in Seq(Nat)
      /\ wire' = Stream!FirstBytes(Len(wire')) /\ Len(wire') <= given'
      /\ Len(wire) \in Nat /\ Len(wire') \in Nat
  BY DEF IInv, TypeOK, OnWire
<1>1. ASSUME sck = "open", sck' = "open", given <= given', Len(wire) <= Len(wire')
      PROVE  [Stream!StreamNext]_Stream!stream
  <2>1. Len(wire') \in Len(wire)..given'
    BY <1>0, <1>1
  <2> QED BY <1>0, <1>1, <2>1 DEF Stream!StreamNext, Stream!Transfer
<1>2. ASSUME NEW p \in Nat, NEW e \in Nat, p <= e, wire' = wire \o Bytes(p, e)
      PROVE  Len(wire) <= Len(wire')
  <2>1. Bytes(p, e) \in Seq(Nat)
    BY <1>2 DEF Bytes
  <2> QED BY <1>0, <1>2, <2>1
<1>3. CASE DoSend
  <2>1. PICK n \in 1..MaxSend : given' = given + n /\ (SendBehind(n) \/ SendNow(n))
    BY <1>3 DEF DoSend
  <2>2. n \in Nat /\ given <= given'
    BY <1>0, <2>1, TransportAssumption
  <2>3. CASE SendBehind(n) /\ sck = "open"
    BY <1>0, <1>1, <2>2, <2>3 DEF SendBehind
  <2>4. CASE SendBehind(n) /\ sck # "open"
    <3>1. wire' = wire /\ sck' = sck
      BY <2>4 DEF SendBehind
    <3> QED BY <1>0, <2>2, <2>4, <3>1 DEF Stream!StreamNext, Stream!Drop
  <2>5. CASE SendNow(n)
    <3>1. PICK res \in 0..n : wire' = wire \o Bytes(given, given + res)
      BY <2>5 DEF SendNow
    <3>2. given + res \in Nat /\ given <= given + res
      BY <1>0, <2>2
    <3>3. Len(wire) <= Len(wire')
      BY <1>0, <1>2, <3>1, <3>2
    <3> QED BY <1>1, <2>2, <2>5, <3>3 DEF SendNow
  <2> QED BY <2>1, <2>3, <2>4, <2>5
<1>4. CASE SendFails \/ Disconnect \/ WaitingFails
  <2>1. sck' # "open" /\ given' = given /\ wire' = wire
    BY <1>4 DEF SendFails, Disconnect, WaitingFails
  <2> QED BY <2>1 DEF Stream!StreamNext, Stream!Break, Stream!stream
<1>5. CASE SendWaitingData
  BY <1>5 DEF SendWaitingData, Stream!stream
<1>6. ASSUME first > 0
      PROVE  /\ sck = "open" /\ Current.p \in Nat /\ Current.e \in Nat
             /\ Current.p < Current.e
  <2>1. first \in 1..Len(async_buffers) /\ sck = "open"
    BY <1>6 DEF IInv, TypeOK, OnWire
  <2>2. Current \in Buffer
    BY <2>1 DEF Current, IInv, TypeOK
  <2>3. Current.p < Current.e
    BY <2>1 DEF Current, IInv, Contiguous
  <2> QED BY <2>1, <2>2, <2>3 DEF Buffer
<1>7. CASE BufferSent
  <2>1. /\ first > 0 /\ sck' = sck /\ given' = given
        /\ wire' = wire \o Bytes(Current.p, Current.e)
    BY <1>7 DEF BufferSent
  <2>2. Len(wire) <= Len(wire')
    BY <1>2, <1>6, <2>1
  <2> QED BY <1>0, <1>1, <1>6, <2>1, <2>2
<1>8. CASE BufferPartlySent
  <2>1. first > 0 /\ sck' = sck /\ given' = given
    BY <1>8 DEF BufferPartlySent
  <2>2. PICK res \in (IF first = 1 THEN 1 ELSE 0)..(Current.e - Current.p - 1) :
          wire' = wire \o Bytes(Current.p, Current.p + res)
    BY <1>8 DEF BufferPartlySent
  <2>3. Current.p + res \in Nat /\ Current.p <= Current.p + res
    BY <1>6, <2>1, <2>2
  <2>4. Len(wire) <= Len(wire')
    BY <1>2, <1>6, <2>1, <2>2, <2>3
  <2> QED BY <1>0, <1>1, <1>6, <2>1, <2>4
<1>9. CASE UNCHANGED vars
  BY <1>9 DEF vars, Stream!stream
<1> QED BY <1>3, <1>4, <1>5, <1>7, <1>8, <1>9 DEF Next, FlushStep

(* The transport implements a byte stream: whatever the sizes of the messages
   and whatever the kernel takes of each, the bytes reach the wire in order, once
   each, until the connection ends (do_send, send_waiting_data, disconnect). *)
THEOREM TransportIsByteStream == Spec => IsByteStream
<1>1. Init => Stream!StreamInit
  <2>1. <<>> = Stream!FirstBytes(0)
    BY DEF Stream!FirstBytes
  <2> QED BY <2>1 DEF Init, Stream!StreamInit
<1> QED BY <1>1, Invariant, StepRefines, PTL DEF Spec, IsByteStream, Stream!StreamSpec
=============================================================================
