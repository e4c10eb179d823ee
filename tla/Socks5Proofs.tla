---------------------------- MODULE Socks5Proofs ----------------------------
(***************************************************************************)
(* Proofs about the handshake and the relay of server.hpp, for whatever a  *)
(* client sends and however its bytes are cut into segments. The invariant *)
(* follows the handshake from field to field: until a read has failed, the *)
(* buffer is what the client sent so far, and the cursor is where the next *)
(* field of the request begins.                                            *)
(***************************************************************************)
EXTENDS Socks5, TLAPS

Sends == stream["client"]

(* The types of the variables that the handshake and the relay compute     *)
(* with.                                                                   *)
ControlTyped ==
  /\ pc \in Awaiting \cup Stopped \cup {"relay"}
  /\ closes \in BOOLEAN /\ failed \in BOOLEAN

StreamTyped ==
  /\ stream \in [Peers -> Seq(Byte)] /\ taken \in [Peers -> Nat]
  /\ \A p \in Peers : taken[p] <= Len(stream[p])

BufferTyped ==
  /\ buffer \in Seq(Byte) /\ Len(buffer) <= taken["client"]
  /\ cursor \in Nat /\ cursor <= taken["client"]

TargetTyped == target \in [addr : Addrs, port : Ports]

RelayTyped ==
  /\ forwarding \subseteq Peers
  /\ fwd \in [Peers -> Seq(Byte)] /\ rounds \in [Peers -> Nat]
  /\ \A p \in Peers : Len(fwd[p]) <= taken[p] /\ rounds[p] <= MaxRounds[p]

Typed == ControlTyped /\ StreamTyped /\ BufferTyped /\ TargetTyped /\ RelayTyped

(* The buffer is what the client sent, from its first byte on.             *)
Prefix ==
  Len(buffer) <= Len(Sends) /\ \A i \in 1..Len(buffer) : buffer[i] = Sends[i]

(* It is all that was read so far, and the cursor is behind its last byte. *)
Parsed(n) == Prefix /\ taken["client"] = n /\ Len(buffer) = n /\ cursor = n

(* What the client had to send to get past the two checks.                 *)
Admitted ==
  /\ Len(Sends) >= 2 /\ Sends[1] = 5
  /\ Methods_End <= Len(Sends) /\ \E i \in 3..Methods_End : Sends[i] = 0

AddressRead ==
  /\ Len(Sends) >= Methods_End + 8
  /\ target.addr = SubSeq(Sends, Methods_End + 5, Methods_End + 8)

PortRead ==
  target.port = IF Len(buffer) < Request_End THEN Garbage
                ELSE Sends[Request_End - 1] * 256 + Sends[Request_End]

(* Where the handshake is, before the relay.                               *)
Stages ==
  /\ pc \in {"accept", "greeting"} => Parsed(0) /\ ~failed
  /\ pc = "methods" => Parsed(2) /\ ~failed /\ Sends[1] = 5
  /\ pc \in {"request", "address", "port", "connect", "relay"} => Admitted
  /\ pc = "request" => Parsed(Methods_End) /\ ~failed
  /\ pc = "address" /\ ~failed => Parsed(Methods_End + 4) /\ IsIPv4
  /\ pc = "port" /\ ~failed => IF IsIPv4 THEN Parsed(Methods_End + 8) /\ AddressRead
                               ELSE Parsed(Methods_End + 4)
  /\ pc \in {"connect", "relay"} /\ ~failed =>
       /\ Prefix /\ Len(buffer) <= Request_End
       /\ IsIPv4 => AddressRead /\ PortRead

(* The relay's vector goes on where the buffer stops.                      *)
Continues ==
  /\ pc \in Awaiting => fwd["client"] = <<>>
  /\ pc \in {"connect", "relay"} /\ ~failed =>
       /\ Len(buffer) + Len(fwd["client"]) = taken["client"]
       /\ \A i \in 1..Len(fwd["client"]) : fwd["client"][i] = Sends[Len(buffer) + i]

IInv == Typed /\ Stages /\ Continues

-----------------------------------------------------------------------------
(* Sequences.                                                              *)

LEMMA SubSeqIs ==
  ASSUME NEW s \in Seq(Byte), NEW m \in Nat, NEW n \in Nat, m >= 1, n <= Len(s),
         n + 1 >= m
  PROVE  /\ SubSeq(s, m, n) \in Seq(Byte)
         /\ Len(SubSeq(s, m, n)) = n - m + 1
         /\ \A i \in 1..(n - m + 1) : SubSeq(s, m, n)[i] = s[m + i - 1]
OBVIOUS

LEMMA ConcatIs ==
  ASSUME NEW s \in Seq(Byte), NEW t \in Seq(Byte)
  PROVE  /\ s \o t \in Seq(Byte)
         /\ Len(s \o t) = Len(s) + Len(t)
         /\ \A i \in 1..Len(s) : (s \o t)[i] = s[i]
         /\ \A i \in 1..Len(t) : (s \o t)[Len(s) + i] = t[i]
OBVIOUS

LEMMA ConcatLen ==
  ASSUME NEW S, NEW s \in Seq(S), NEW t \in Seq(S)
  PROVE  Len(s \o t) = Len(s) + Len(t)
OBVIOUS

LEMMA SingleIs == ASSUME NEW s \in Seq(Byte), Len(s) = 1 PROVE s = <<s[1]>>
OBVIOUS

LEMMA SeqEqual ==
  ASSUME NEW s \in Seq(Byte), NEW t \in Seq(Byte), Len(s) = Len(t),
         \A i \in 1..Len(s) : s[i] = t[i]
  PROVE  s = t
OBVIOUS

-----------------------------------------------------------------------------
(* What a read leaves behind: k more bytes of the stream, in order, or, if *)
(* it failed, fewer than there were.                                       *)

Grown(p, buf, r, k) ==
  /\ r.read = k /\ r.taken = taken[p] + k
  /\ r.buf \in Seq(Byte) /\ Len(r.buf) = Len(buf) + k
  /\ \A i \in 1..Len(buf) : r.buf[i] = buf[i]
  /\ \A i \in 1..k : r.buf[Len(buf) + i] = stream[p][taken[p] + i]

Shrunk(p, buf, r) ==
  /\ r.read = Wrapped /\ r.taken = taken[p]
  /\ r.buf \in Seq(Byte) /\ Len(r.buf) + 4 <= Len(buf)

LEMMA ResultIs ==
  ASSUME StreamTyped, NEW p \in Peers, NEW buf \in Seq(Byte), NEW n \in Nat, n <= 1024,
         NEW r \in Results(p, buf, n)
  PROVE  \/ \E k \in Nat : /\ k <= n /\ taken[p] + k <= Len(stream[p]) /\ r.read # Wrapped
                           /\ Grown(p, buf, r, k)
         \/ Shrunk(p, buf, r)
<1>1. stream[p] \in Seq(Byte) /\ taken[p] \in Nat /\ taken[p] <= Len(stream[p])
  BY DEF StreamTyped
<1>2. CASE \E k \in Counts(p, n) : r = Got(p, buf, k)
  <2>1. PICK k \in Counts(p, n) : r = Got(p, buf, k) BY <1>2
  <2>2. k \in Nat /\ k <= n /\ taken[p] + k <= Len(stream[p]) BY <1>1 DEF Counts
  <2> DEFINE t == SubSeq(stream[p], taken[p] + 1, taken[p] + k)
  <2>3. /\ t \in Seq(Byte) /\ Len(t) = k
        /\ \A i \in 1..k : t[i] = stream[p][taken[p] + i]
    BY <1>1, <2>2, SubSeqIs, SMTT(20)
  <2>4. r.read = k /\ r.taken = taken[p] + k /\ r.buf = buf \o t BY <2>1, ZenonT(30) DEF Got
  <2> HIDE DEF t
  <2>5. /\ buf \o t \in Seq(Byte) /\ Len(buf \o t) = Len(buf) + k
        /\ \A i \in 1..Len(buf) : (buf \o t)[i] = buf[i]
        /\ \A i \in 1..k : (buf \o t)[Len(buf) + i] = t[i]
    BY <2>3, ConcatIs, ZenonT(30)
  <2>6. r.read # Wrapped BY <2>2, <2>4 DEF Wrapped
  <2>7. Grown(p, buf, r, k) BY <2>2, <2>3, <2>4, <2>5 DEF Grown
  <2> QED BY <2>2, <2>6, <2>7
<1>3. CASE \E e \in Errnos : e <= Len(buf) /\ r = Cut(p, buf, e)
  <2>1. PICK e \in Errnos : e <= Len(buf) /\ r = Cut(p, buf, e) BY <1>3
  <2>2. e \in Nat /\ e >= 4 BY Socks5Assumption
  <2>3. r.read = Wrapped /\ r.taken = taken[p] /\ r.buf = SubSeq(buf, 1, Len(buf) - e)
    BY <2>1, ZenonT(30) DEF Cut
  <2>4. SubSeq(buf, 1, Len(buf) - e) \in Seq(Byte)
        /\ Len(SubSeq(buf, 1, Len(buf) - e)) = Len(buf) - e
    BY <2>1, <2>2, SubSeqIs
  <2> QED BY <2>2, <2>3, <2>4 DEF Shrunk
<1> QED BY <1>2, <1>3 DEF Results

LEMMA InitInv == Init => IInv
<1> SUFFICES ASSUME Init PROVE IInv OBVIOUS
<1>1. PICK s \in Seq(Byte) : stream = [client |-> s, remote |-> RemoteStream]
  BY Socks5Assumption DEF Init
<1>2. Len(s) \in Nat /\ Len(RemoteStream) \in Nat BY Socks5Assumption
<1>3. ControlTyped BY Zenon DEF Init, ControlTyped, Awaiting
<1>4. StreamTyped
  <2>1. stream \in [Peers -> Seq(Byte)] BY <1>1, Socks5Assumption DEF Peers
  <2>2. \A p \in Peers : taken[p] = 0 /\ stream[p] \in Seq(Byte) BY <2>1 DEF Init
  <2>3. taken \in [Peers -> Nat] BY DEF Init
  <2> QED BY <2>1, <2>2, <2>3 DEF StreamTyped
<1>5. BufferTyped /\ TargetTyped BY DEF Init, BufferTyped, TargetTyped, Addrs, Ports, Peers
<1>6. RelayTyped BY Socks5Assumption DEF Init, RelayTyped, Peers
<1>7. Stages
  BY <1>1, <1>2 DEF Init, Stages, Parsed, Prefix, Sends, Peers
<1>8. Continues BY DEF Init, Continues, Peers
<1> QED BY <1>3, <1>4, <1>5, <1>6, <1>7, <1>8 DEF IInv, Typed

-----------------------------------------------------------------------------
(* A read of the handshake.                                                *)

(* It keeps the types, whatever the code after it makes of the cursor.     *)
LEMMA ReadTyped ==
  ASSUME Typed, NEW n \in Nat, n <= 1024, NEW r \in Results("client", buffer, n),
         Returns("client", r), buffer' = r.buf, UNCHANGED <<stream, closes, relay>>,
         pc' \in Awaiting \cup Stopped,
         cursor' = cursor \/ (cursor' \in Nat /\ cursor' <= Len(r.buf))
  PROVE  ControlTyped' /\ StreamTyped' /\ BufferTyped' /\ RelayTyped'
<1>1. "client" \in Peers BY DEF Peers
<1>2. StreamTyped /\ BufferTyped /\ RelayTyped /\ ControlTyped BY DEF Typed
<1>3. r.taken \in Nat /\ taken["client"] <= r.taken /\ r.taken <= Len(stream["client"])
      /\ r.buf \in Seq(Byte) /\ Len(r.buf) <= r.taken
  <2>1. CASE Shrunk("client", buffer, r)
    BY <1>1, <1>2, <2>1 DEF Shrunk, StreamTyped, BufferTyped
  <2>2. CASE \E k \in Nat : taken["client"] + k <= Len(stream["client"])
                              /\ Grown("client", buffer, r, k)
    BY <1>1, <1>2, <2>2 DEF Grown, StreamTyped, BufferTyped
  <2> QED BY <1>1, <1>2, <2>1, <2>2, ResultIs DEF BufferTyped
<1>4. taken' = [taken EXCEPT !["client"] = r.taken] BY DEF Returns
<1>5. taken' \in [Peers -> Nat] /\ taken'["client"] = r.taken
      /\ \A p \in Peers : taken[p] <= taken'[p] /\ taken'[p] <= Len(stream[p])
  BY <1>1, <1>2, <1>3, <1>4 DEF StreamTyped
<1>6. StreamTyped' BY <1>2, <1>5 DEF StreamTyped
<1>7. BufferTyped'
  BY <1>1, <1>2, <1>3, <1>5 DEF BufferTyped, StreamTyped
<1>8. RelayTyped'
  <2>1. forwarding' = forwarding /\ fwd' = fwd /\ rounds' = rounds BY DEF relay
  <2>2. \A p \in Peers : Len(fwd[p]) <= taken'[p]
    BY <1>2, <1>5 DEF RelayTyped, StreamTyped
  <2> QED BY <1>2, <2>1, <2>2 DEF RelayTyped
<1>9. ControlTyped'
  <2>1. failed' \in BOOLEAN BY ZenonT(30) DEF Returns
  <2> QED BY <1>2, <2>1, ZenonT(30) DEF ControlTyped
<1> QED BY <1>6, <1>7, <1>8, <1>9

(* Until then the buffer was all that was read: it still is, unless the    *)
(* read failed.                                                            *)
LEMMA ReadParsed ==
  ASSUME Typed, NEW m \in Nat, Parsed(m), NEW n \in Nat, n <= 1024,
         NEW r \in Results("client", buffer, n), Returns("client", r), buffer' = r.buf,
         stream' = stream
  PROVE  \/ \E k \in Nat : /\ k <= n /\ r.read = k /\ Len(buffer') = m + k
                           /\ Prefix' /\ taken'["client"] = m + k /\ (failed' <=> failed)
         \/ m >= 4 /\ r.read = Wrapped /\ failed'
<1>1. "client" \in Peers BY DEF Peers
<1>2. StreamTyped /\ BufferTyped BY DEF Typed
<1>3. Sends \in Seq(Byte) /\ taken["client"] = m /\ Len(buffer) = m /\ buffer \in Seq(Byte)
      /\ \A i \in 1..m : buffer[i] = Sends[i]
  BY <1>1, <1>2 DEF StreamTyped, BufferTyped, Sends, Parsed, Prefix
<1>4. CASE Shrunk("client", buffer, r)
  <2>1. m >= 4 /\ r.read = Wrapped BY <1>3, <1>4 DEF Shrunk
  <2>2. failed' BY <2>1, ZenonT(30) DEF Returns
  <2> QED BY <2>1, <2>2
<1>5. ASSUME NEW k \in Nat, k <= n, taken["client"] + k <= Len(stream["client"]),
             r.read # Wrapped, Grown("client", buffer, r, k)
      PROVE  /\ r.read = k /\ Len(buffer') = m + k
             /\ Prefix' /\ taken'["client"] = m + k /\ (failed' <=> failed)
  <2>1. failed' <=> failed BY <1>5, ZenonT(30) DEF Returns
  <2>2. r.read = k /\ Len(buffer') = m + k /\ r.taken = m + k
    BY <1>3, <1>5 DEF Grown
  <2>3. taken'["client"] = m + k BY <1>1, <1>2, <2>2 DEF Returns, StreamTyped
  <2>4. \A i \in 1..m : buffer'[i] = Sends[i] BY <1>3, <1>5 DEF Grown
  <2>5. \A i \in 1..k : buffer'[m + i] = Sends[m + i] BY <1>3, <1>5, ZenonT(30) DEF Grown, Sends
  <2>6. \A i \in 1..(m + k) : buffer'[i] = Sends[i]
    <3> SUFFICES ASSUME NEW i \in 1..(m + k) PROVE buffer'[i] = Sends[i] OBVIOUS
    <3>1. CASE i <= m BY <2>4, <3>1
    <3>2. CASE i > m
      <4>1. i - m \in 1..k /\ m + (i - m) = i BY <3>2
      <4> QED BY <2>5, <4>1
    <3> QED BY <3>1, <3>2
  <2>7. Sends' = Sends BY DEF Sends
  <2>8. m + k <= Len(Sends) BY <1>3, <1>5 DEF Sends
  <2>9. Prefix' BY <2>2, <2>6, <2>7, <2>8 DEF Prefix
  <2> QED BY <2>1, <2>2, <2>3, <2>9
<1>6. \/ \E k \in Nat : /\ k <= n /\ taken["client"] + k <= Len(stream["client"])
                        /\ r.read # Wrapped /\ Grown("client", buffer, r, k)
      \/ Shrunk("client", buffer, r)
  BY <1>1, <1>2, <1>3, ResultIs
<1> QED BY <1>4, <1>5, <1>6

LEMMA StoppedStages == pc' \in Stopped => Stages' /\ Continues'
BY DEF Stopped, Stages, Continues, Awaiting

(* The types, and what the code after a read needs of it, gathered.        *)
LEMMA SkipIs ==
  ASSUME BufferTyped, StreamTyped, NEW b \in Seq(Byte), NEW w \in Nat
  PROVE  Skip(b, w) = cursor \/ (Skip(b, w) \in Nat /\ Skip(b, w) <= Len(b))
BY DEF BufferTyped, StreamTyped, Skip, Fits

LEMMA ResultBuffer ==
  ASSUME StreamTyped, BufferTyped, NEW n \in Nat, n <= 1024,
         NEW r \in Results("client", buffer, n)
  PROVE  r.buf \in Seq(Byte)
<1>1. "client" \in Peers /\ buffer \in Seq(Byte) BY DEF Peers, BufferTyped
<1> QED BY <1>1, ResultIs DEF Grown, Shrunk

(* The greeting: a buffer this short cannot be cut.                        *)
LEMMA GreetingStep ==
  ASSUME IInv, Greeting
  PROVE  IInv'
<1>1. /\ pc = "greeting" /\ UNCHANGED <<stream, closes, relay>>
      /\ \E r \in Results("client", buffer, 2) :
           Returns("client", r) /\ buffer' = r.buf /\ AfterGreeting(r)
  BY DEF Greeting, HandshakeRead
<1>2. PICK r \in Results("client", buffer, 2) :
        Returns("client", r) /\ buffer' = r.buf /\ AfterGreeting(r)
  BY <1>1
<1>3. Typed /\ StreamTyped /\ BufferTyped /\ TargetTyped BY DEF IInv, Typed
<1>4. Parsed(0) /\ ~failed /\ cursor = 0 BY <1>1 DEF IInv, Stages, Parsed
<1>5. r.buf \in Seq(Byte) BY <1>3, ResultBuffer
<1>6. /\ pc' \in {"methods", "closed"} /\ target' = target
      /\ cursor' = cursor \/ (cursor' \in Nat /\ cursor' <= Len(r.buf))
  <2>1. Skip(r.buf, 2) = cursor \/ (Skip(r.buf, 2) \in Nat /\ Skip(r.buf, 2) <= Len(r.buf))
    BY <1>3, <1>5, SkipIs
  <2> QED BY <1>2, <2>1 DEF AfterGreeting, Close
<1>7. ControlTyped' /\ StreamTyped' /\ BufferTyped' /\ RelayTyped'
  BY <1>1, <1>2, <1>3, <1>6, ReadTyped DEF Awaiting, Stopped
<1>8. TargetTyped' BY <1>3, <1>6 DEF TargetTyped
<1>9. Stages' /\ Continues'
  <2>1. CASE pc' = "closed" BY <2>1, StoppedStages DEF Stopped
  <2>2. CASE pc' = "methods"
    <3>1. r.read >= 2 /\ cursor' = Skip(r.buf, 2)
          /\ \E version \in read_u8(r.buf, 1, Bytes) :
               pc' = IF version = 5 THEN "methods" ELSE "closed"
      BY <1>2, <2>2 DEF AfterGreeting, Close
    <3>2. PICK k \in Nat : /\ k <= 2 /\ r.read = k /\ Len(buffer') = 0 + k
                           /\ Prefix' /\ taken'["client"] = 0 + k /\ (failed' <=> failed)
      BY <1>1, <1>2, <1>3, <1>4, ReadParsed
    <3>3. k = 2 BY <3>1, <3>2
    <3>4. Len(r.buf) = 2 /\ cursor' = 2 /\ r.buf[1] = 5
      BY <1>2, <1>4, <2>2, <3>1, <3>2, <3>3 DEF Skip, Fits, read_u8
    <3>5. Parsed(2)' BY <1>2, <3>2, <3>3, <3>4 DEF Parsed
    <3>6. Sends'[1] = 5 BY <1>2, <3>2, <3>4 DEF Prefix
    <3>7. Stages' BY <1>4, <2>2, <3>2, <3>5, <3>6 DEF Stages
    <3>8. Continues' BY <1>1, <2>2 DEF IInv, Continues, Awaiting, relay
    <3> QED BY <3>7, <3>8
  <2> QED BY <1>6, <2>1, <2>2
<1> QED BY <1>7, <1>8, <1>9 DEF IInv, Typed

(* The methods: neither can this one, and what is scanned is exactly what  *)
(* the client announced.                                                   *)
LEMMA MethodsStep ==
  ASSUME IInv, Methods
  PROVE  IInv'
<1>1. /\ pc = "methods" /\ UNCHANGED <<stream, closes, relay>>
      /\ \E r \in Results("client", buffer, nmethods) :
           Returns("client", r) /\ buffer' = r.buf /\ AfterMethods(r)
  BY DEF Methods, HandshakeRead
<1>2. PICK r \in Results("client", buffer, nmethods) :
        Returns("client", r) /\ buffer' = r.buf /\ AfterMethods(r)
  BY <1>1
<1>3. Typed /\ StreamTyped /\ BufferTyped /\ TargetTyped BY DEF IInv, Typed
<1>4. Parsed(2) /\ ~failed /\ cursor = 2 /\ Sends[1] = 5 BY <1>1 DEF IInv, Stages, Parsed
<1>5. nmethods \in Byte /\ nmethods = Sends[2] /\ nmethods \in Nat /\ nmethods <= 1024
  <2>1. nmethods \in Byte /\ nmethods = Sends[2]
    <3>1. Len(buffer) = 2 /\ buffer \in Seq(Byte) BY <1>3, <1>4 DEF Parsed, BufferTyped
    <3>2. \A i \in 1..2 : buffer[i] = Sends[i] BY <1>4, <3>1 DEF Parsed, Prefix
    <3>3. \A i \in 1..2 : buffer[i] \in Byte BY <3>1
    <3> QED BY <3>2, <3>3 DEF nmethods
  <2> QED BY <2>1 DEF Byte
<1>6. r.buf \in Seq(Byte) BY <1>3, <1>5, ResultBuffer
<1>7. /\ pc' \in {"request", "closed"} /\ target' = target
      /\ cursor' = cursor \/ (cursor' \in Nat /\ cursor' <= Len(r.buf))
  BY <1>2, <1>6 DEF AfterMethods, Close
<1>8. ControlTyped' /\ StreamTyped' /\ BufferTyped' /\ RelayTyped'
  BY <1>1, <1>2, <1>3, <1>5, <1>7, ReadTyped DEF Awaiting, Stopped
<1>9. TargetTyped' BY <1>3, <1>7 DEF TargetTyped
<1>10. Stages' /\ Continues'
  <2>1. CASE pc' = "closed" BY <2>1, StoppedStages DEF Stopped
  <2>2. CASE pc' = "request"
    <3>1. r.read >= nmethods /\ cursor' = Len(r.buf) /\ 0 \in Offered(r.buf)
      BY <1>2, <2>2 DEF AfterMethods, Close
    <3>2. PICK k \in Nat : /\ k <= nmethods /\ r.read = k /\ Len(buffer') = 2 + k
                           /\ Prefix' /\ taken'["client"] = 2 + k /\ (failed' <=> failed)
      BY <1>1, <1>2, <1>3, <1>4, <1>5, ReadParsed
    <3>3. k = nmethods BY <1>5, <3>1, <3>2
    <3>4. Sends' = Sends /\ Methods_End' = 2 + nmethods
      BY <1>1, <1>5 DEF Sends, Methods_End
    <3>5. Parsed(Methods_End)' BY <1>2, <3>1, <3>2, <3>3, <3>4 DEF Parsed
    <3>6. PICK i \in 3..Len(r.buf) : r.buf[i] = 0
      BY <1>4, <3>1 DEF Offered
    <3>7. Admitted'
      <4>1. i \in 3..Methods_End' /\ Sends'[i] = 0
        BY <1>2, <1>5, <3>2, <3>3, <3>4, <3>6 DEF Prefix
      <4>2. Methods_End' <= Len(Sends') /\ Len(Sends') >= 2
        BY <1>5, <3>2, <3>3, <3>4 DEF Prefix
      <4> QED BY <1>4, <3>4, <4>1, <4>2 DEF Admitted
    <3>8. Stages' BY <1>4, <2>2, <3>2, <3>5, <3>7 DEF Stages
    <3>9. Continues' BY <1>1, <2>2 DEF IInv, Continues, Awaiting, relay
    <3> QED BY <3>8, <3>9
  <2> QED BY <1>7, <2>1, <2>2
<1> QED BY <1>8, <1>9, <1>10 DEF IInv, Typed

(* The fields of the request, as positions in what the client sent.        *)
LEMMA Positions ==
  ASSUME StreamTyped, Admitted
  PROVE  /\ Sends \in Seq(Byte) /\ Len(Sends) \in Nat
         /\ Methods_End \in Nat /\ Methods_End >= 2 /\ Methods_End <= 257
         /\ Request_End = Methods_End + 10
<1>1. Sends \in Seq(Byte) BY DEF StreamTyped, Sends, Peers
<1>2. Sends[2] \in Byte BY <1>1 DEF Admitted
<1>3. Sends[2] \in Nat /\ Sends[2] <= 255 BY <1>2 DEF Byte
<1> QED BY <1>1, <1>3 DEF Methods_End, Request_End, Sends

(* Nothing of this depends on more than what the client sends.             *)
LEMMA SameStream ==
  ASSUME stream' = stream
  PROVE  /\ Sends' = Sends /\ Methods_End' = Methods_End /\ Request_End' = Request_End
         /\ Admitted' = Admitted /\ IsIPv4' = IsIPv4
BY DEF Sends, Methods_End, Request_End, Admitted, IsIPv4

(* The request: the first read whose failure leaves a buffer to go on with.*)
LEMMA RequestStep ==
  ASSUME IInv, Request
  PROVE  IInv'
<1>1. /\ pc = "request" /\ UNCHANGED <<stream, closes, relay>>
      /\ \E r \in Results("client", buffer, 4) :
           Returns("client", r) /\ buffer' = r.buf /\ AfterRequest(r)
  BY DEF Request, HandshakeRead
<1>2. PICK r \in Results("client", buffer, 4) :
        Returns("client", r) /\ buffer' = r.buf /\ AfterRequest(r)
  BY <1>1
<1>3. Typed /\ StreamTyped /\ BufferTyped /\ TargetTyped BY DEF IInv, Typed
<1>4. Parsed(Methods_End) /\ Admitted BY <1>1 DEF IInv, Stages
<1>5. cursor = Methods_End BY <1>4 DEF Parsed
<1>6. r.buf \in Seq(Byte) BY <1>3, ResultBuffer
<1>7. /\ pc' \in {"address", "port", "closed"} /\ target' = target
      /\ cursor' = cursor \/ (cursor' \in Nat /\ cursor' <= Len(r.buf))
  <2>1. Skip(r.buf, 4) = cursor \/ (Skip(r.buf, 4) \in Nat /\ Skip(r.buf, 4) <= Len(r.buf))
    BY <1>3, <1>6, SkipIs
  <2> QED BY <1>2, <2>1 DEF AfterRequest, Close
<1>8. ControlTyped' /\ StreamTyped' /\ BufferTyped' /\ RelayTyped'
  BY <1>1, <1>2, <1>3, <1>7, ReadTyped DEF Awaiting, Stopped
<1>9. TargetTyped' BY <1>3, <1>7 DEF TargetTyped
<1>10. Stages' /\ Continues'
  <2>1. CASE pc' = "closed" BY <2>1, StoppedStages DEF Stopped
  <2>2. CASE pc' \in {"address", "port"}
    <3>1. /\ r.read >= 4 /\ cursor' = Skip(r.buf, 4)
          /\ \E atype \in read_u8(r.buf, 4, Bytes) :
               IF pc' = "address" THEN atype = 1 ELSE atype = 3
      BY <1>2, <2>2 DEF AfterRequest, Close
    <3>2. Admitted' BY <1>1, <1>4, SameStream
    <3>3. Continues' BY <1>1, <2>2, ZenonT(30) DEF IInv, Continues, Awaiting, relay
    <3>4. CASE failed' BY <2>2, <3>2, <3>3, <3>4 DEF Stages
    <3>5. CASE ~failed'
      <4>1. Methods_End \in Nat BY <1>3, <1>4, Positions
      <4>2. PICK k \in Nat : /\ k <= 4 /\ r.read = k /\ Len(buffer') = Methods_End + k
                             /\ Prefix' /\ taken'["client"] = Methods_End + k
        BY <1>1, <1>2, <1>3, <1>4, <3>5, <4>1, ReadParsed
      <4>3. k = 4 BY <3>1, <4>2
      <4>4. Len(r.buf) = Methods_End + 4 /\ cursor' = Methods_End + 4
        BY <1>2, <1>5, <3>1, <4>1, <4>2, <4>3 DEF Skip, Fits
      <4>5. IF pc' = "address" THEN r.buf[Methods_End + 4] = 1 ELSE r.buf[Methods_End + 4] = 3
        BY <1>5, <3>1, <4>1, <4>4 DEF read_u8, Fits
      <4>6. Sends' = Sends /\ Methods_End' = Methods_End /\ Admitted' /\ IsIPv4' = IsIPv4
        BY <1>1, <3>2, SameStream
      <4>7. Len(Sends) >= Methods_End + 4 /\ r.buf[Methods_End + 4] = Sends[Methods_End + 4]
        <5>1. Len(r.buf) <= Len(Sends) /\ \A i \in 1..Len(r.buf) : r.buf[i] = Sends[i]
          BY <1>2, <4>2, <4>6 DEF Prefix
        <5> QED BY <4>1, <4>4, <5>1
      <4>8. IsIPv4 <=> pc' = "address" BY <2>2, <4>5, <4>7 DEF IsIPv4, Sends
      <4>9. Parsed(Methods_End + 4)' BY <4>2, <4>3, <4>4, <4>6, <1>2 DEF Parsed
      <4>10. Stages' BY <2>2, <4>6, <4>8, <4>9 DEF Stages
      <4> QED BY <3>3, <4>10
    <3> QED BY <3>4, <3>5
  <2> QED BY <1>7, <2>1, <2>2
<1> QED BY <1>8, <1>9, <1>10 DEF IInv, Typed

(* The address.                                                            *)
LEMMA AddressStep ==
  ASSUME IInv, Address
  PROVE  IInv'
<1>1. /\ pc = "address" /\ UNCHANGED <<stream, closes, relay>>
      /\ \E r \in Results("client", buffer, 4) :
           Returns("client", r) /\ buffer' = r.buf /\ AfterAddress(r)
  BY DEF Address, HandshakeRead
<1>2. PICK r \in Results("client", buffer, 4) :
        Returns("client", r) /\ buffer' = r.buf /\ AfterAddress(r)
  BY <1>1
<1>3. Typed /\ StreamTyped /\ BufferTyped /\ TargetTyped BY DEF IInv, Typed
<1>4. Admitted BY <1>1 DEF IInv, Stages
<1>5. r.buf \in Seq(Byte) BY <1>3, ResultBuffer
<1>6. /\ pc' \in {"port", "closed"}
      /\ target' = target \/ target' = [target EXCEPT !.addr = read_array(r.buf)]
      /\ cursor' = cursor \/ (cursor' \in Nat /\ cursor' <= Len(r.buf))
  <2>1. Skip(r.buf, 4) = cursor \/ (Skip(r.buf, 4) \in Nat /\ Skip(r.buf, 4) <= Len(r.buf))
    BY <1>3, <1>5, SkipIs
  <2> QED BY <1>2, <2>1 DEF AfterAddress, Close
<1>7. ControlTyped' /\ StreamTyped' /\ BufferTyped' /\ RelayTyped'
  BY <1>1, <1>2, <1>3, <1>6, ReadTyped DEF Awaiting, Stopped
<1>8. TargetTyped'
  <2>1. read_array(r.buf) \in Addrs
    <3>1. \/ read_array(r.buf) = Garbage
          \/ read_array(r.buf) \in Seq(Byte) /\ Len(read_array(r.buf)) = 4
      BY <1>3, <1>5, SubSeqIs DEF read_array, Fits, BufferTyped
    <3> QED BY <3>1 DEF Addrs
  <2> QED BY <1>3, <1>6, <2>1 DEF TargetTyped
<1>9. Stages' /\ Continues'
  <2>1. CASE pc' = "closed" BY <2>1, StoppedStages DEF Stopped
  <2>2. CASE pc' = "port"
    <3>1. /\ r.read >= 4 /\ cursor' = Skip(r.buf, 4)
          /\ target' = [target EXCEPT !.addr = read_array(r.buf)]
      BY <1>2, <2>2 DEF AfterAddress, Close
    <3>2. Admitted' BY <1>1, <1>4, SameStream
    <3>3. Continues' BY <1>1, <2>2 DEF IInv, Continues, Awaiting, relay
    <3>4. CASE failed' BY <2>2, <3>2, <3>3, <3>4 DEF Stages
    <3>5. CASE ~failed'
      <4>1. ~failed BY <1>2, <3>5, Zenon DEF Returns
      <4>2. Parsed(Methods_End + 4) /\ IsIPv4 BY <1>1, <4>1 DEF IInv, Stages
      <4>3. Methods_End \in Nat /\ Sends \in Seq(Byte) BY <1>3, <1>4, Positions
      <4>4. PICK k \in Nat : /\ k <= 4 /\ r.read = k /\ Len(buffer') = Methods_End + 4 + k
                             /\ Prefix' /\ taken'["client"] = Methods_End + 4 + k
        BY <1>1, <1>2, <1>3, <3>5, <4>2, <4>3, ReadParsed
      <4>5. k = 4 BY <3>1, <4>4
      <4>6. cursor = Methods_End + 4 BY <4>2 DEF Parsed
      <4>7. Len(r.buf) = Methods_End + 8 /\ cursor' = Methods_End + 8
        BY <1>2, <3>1, <4>3, <4>4, <4>5, <4>6 DEF Skip, Fits
      <4>8. /\ Sends' = Sends /\ Methods_End' = Methods_End /\ Admitted' /\ IsIPv4'
        BY <1>1, <3>2, <4>2, SameStream
      <4>9. Len(r.buf) <= Len(Sends) /\ \A i \in 1..Len(r.buf) : r.buf[i] = Sends[i]
        BY <1>2, <4>4, <4>8 DEF Prefix
      <4>10. target'.addr = SubSeq(r.buf, Methods_End + 5, Methods_End + 8)
        <5>1. read_array(r.buf) = SubSeq(r.buf, Methods_End + 5, Methods_End + 8)
          BY <4>3, <4>6, <4>7 DEF read_array, Fits
        <5>2. target'.addr = read_array(r.buf)
          BY <1>3, <3>1 DEF TargetTyped
        <5> QED BY <5>1, <5>2
      <4>11. SubSeq(r.buf, Methods_End + 5, Methods_End + 8)
               = SubSeq(Sends, Methods_End + 5, Methods_End + 8)
        BY <1>5, <4>3, <4>7, <4>9, SubSeqIs, SeqEqual
      <4>12. AddressRead' BY <4>7, <4>8, <4>9, <4>10, <4>11, ZenonT(30) DEF AddressRead
      <4>13. Parsed(Methods_End + 8)' BY <1>2, <4>3, <4>4, <4>5, <4>7, <4>8 DEF Parsed
      <4>14. Stages' BY <2>2, <4>8, <4>12, <4>13 DEF Stages
      <4> QED BY <3>3, <4>14
    <3> QED BY <3>4, <3>5
  <2> QED BY <1>6, <2>1, <2>2
<1> QED BY <1>7, <1>8, <1>9 DEF IInv, Typed

LEMMA WordIs ==
  ASSUME NEW hi \in Byte, NEW lo \in Byte
  PROVE  hi * 256 + lo \in Nat /\ hi * 256 + lo < 65536
BY DEF Byte

(* The port. What this read returned is not looked at, so the buffer may   *)
(* end early; the stream then leaves the port alone.                       *)
LEMMA PortStep ==
  ASSUME IInv, Port
  PROVE  IInv'
<1>1. /\ pc = "port" /\ UNCHANGED <<stream, closes, relay>>
      /\ \E r \in Results("client", buffer, 2) :
           Returns("client", r) /\ buffer' = r.buf /\ AfterPort(r)
  BY DEF Port, PortSize, HandshakeRead
<1>2. PICK r \in Results("client", buffer, 2) :
        Returns("client", r) /\ buffer' = r.buf /\ AfterPort(r)
  BY <1>1
<1>3. Typed /\ StreamTyped /\ BufferTyped /\ TargetTyped BY DEF IInv, Typed
<1>4. Admitted BY <1>1 DEF IInv, Stages
<1>5. r.buf \in Seq(Byte) BY <1>3, ResultBuffer
<1>6. /\ pc' = "connect" /\ target' = [target EXCEPT !.port = read_u16(r.buf)]
      /\ cursor' = Skip(r.buf, 2)
  BY <1>2 DEF AfterPort
<1>7. Skip(r.buf, 2) = cursor \/ (Skip(r.buf, 2) \in Nat /\ Skip(r.buf, 2) <= Len(r.buf))
  BY <1>3, <1>5, SkipIs
<1>8. ControlTyped' /\ StreamTyped' /\ BufferTyped' /\ RelayTyped'
  BY <1>1, <1>2, <1>3, <1>6, <1>7, ReadTyped DEF Awaiting
<1>9. TargetTyped'
  <2>1. read_u16(r.buf) \in Ports
    <3>1. CASE ~Fits(r.buf, 2) BY <3>1 DEF read_u16, Ports
    <3>2. CASE Fits(r.buf, 2)
      <4>1. r.buf[cursor + 1] \in Byte /\ r.buf[cursor + 2] \in Byte
        BY <1>3, <1>5, <3>2 DEF Fits, BufferTyped
      <4> QED BY <3>2, <4>1, WordIs DEF read_u16, Ports
    <3> QED BY <3>1, <3>2
  <2> QED BY <1>3, <1>6, <2>1 DEF TargetTyped
<1>10. Stages' /\ Continues'
  <2>1. Admitted' BY <1>1, <1>4, SameStream
  <2>2. fwd'["client"] = <<>> BY <1>1 DEF IInv, Continues, Awaiting, relay
  <2>3. CASE failed' BY <1>6, <2>1, <2>2, <2>3 DEF Stages, Continues
  <2>4. CASE ~failed'
    <3>1. ~failed BY <1>2, <2>4, Zenon DEF Returns
    <3>2. /\ Methods_End \in Nat /\ Sends \in Seq(Byte) /\ Request_End = Methods_End + 10
      BY <1>3, <1>4, Positions
    <3>3. /\ Sends' = Sends /\ Methods_End' = Methods_End /\ Request_End' = Request_End
          /\ IsIPv4' = IsIPv4
      BY <1>1, SameStream
    <3>4. PICK m \in Nat : /\ Parsed(m) /\ m <= Methods_End + 8
                           /\ IsIPv4 => m = Methods_End + 8
      <4>1. CASE IsIPv4
        <5>1. Parsed(Methods_End + 8) BY <1>1, <3>1, <4>1 DEF IInv, Stages
        <5> QED BY <3>2, <5>1
      <4>2. CASE ~IsIPv4
        <5>1. Parsed(Methods_End + 4) BY <1>1, <3>1, <4>2 DEF IInv, Stages
        <5> QED BY <3>2, <4>2, <5>1
      <4> QED BY <4>1, <4>2
    <3>6. PICK k \in Nat : /\ k <= 2 /\ r.read = k /\ Len(buffer') = m + k
                           /\ Prefix' /\ taken'["client"] = m + k
      BY <1>1, <1>2, <1>3, <2>4, <3>4, ReadParsed
    <3>7. cursor = m BY <3>4 DEF Parsed
    <3>8. Len(buffer') <= Request_End' BY <3>2, <3>3, <3>4, <3>6
    <3>9. ASSUME IsIPv4 PROVE AddressRead' /\ PortRead'
      <4>1. AddressRead BY <1>1, <3>1, <3>9 DEF IInv, Stages
      <4>2. target'.addr = target.addr /\ target'.port = read_u16(r.buf)
        BY <1>3, <1>6 DEF TargetTyped
      <4>3. AddressRead' BY <3>3, <4>1, <4>2 DEF AddressRead
      <4>4. Len(r.buf) = Methods_End + 8 + k /\ cursor = Methods_End + 8
        BY <1>2, <3>4, <3>6, <3>7, <3>9
      <4>5. Len(r.buf) <= Len(Sends) /\ \A i \in 1..Len(r.buf) : r.buf[i] = Sends[i]
        BY <1>2, <3>3, <3>6 DEF Prefix
      <4>6. Fits(r.buf, 2) <=> ~(Len(buffer') < Request_End)
        BY <1>2, <3>2, <4>4 DEF Fits
      <4>7. Fits(r.buf, 2) => /\ r.buf[cursor + 1] = Sends[Request_End - 1]
                              /\ r.buf[cursor + 2] = Sends[Request_End]
        BY <3>2, <3>6, <4>4, <4>5 DEF Fits
      <4>8. PortRead' BY <3>3, <4>2, <4>6, <4>7 DEF PortRead, read_u16
      <4> QED BY <4>3, <4>8
    <3>10. Stages' BY <1>6, <2>1, <3>3, <3>6, <3>8, <3>9 DEF Stages
    <3>11. Continues' BY <1>6, <2>2, <3>4, <3>6 DEF Continues
    <3> QED BY <3>10, <3>11
  <2> QED BY <2>3, <2>4
<1> QED BY <1>8, <1>9, <1>10 DEF IInv, Typed

(* The steps of the handshake that read nothing: accept(), the connection  *)
(* to the remote, and the ends of a coroutine that is not resumed.         *)
LEMMA OtherHandshakeStep ==
  ASSUME IInv, Accept \/ Connect \/ HandshakeLost
  PROVE  IInv'
<1>1. UNCHANGED <<stream, closes, taken, buffer, cursor, target, failed, fwd, rounds>>
  BY DEF Accept, Connect, HandshakeLost, relay
<1>2. /\ forwarding' \subseteq Peers
      /\ pc' \in Awaiting \cup Stopped \cup {"relay"}
  BY DEF IInv, Typed, RelayTyped, Accept, Connect, HandshakeLost, relay, Awaiting, Stopped
<1>3. \/ pc = "accept" /\ pc' = "greeting"
      \/ pc = "connect" /\ pc' = "relay"
      \/ pc' \in Stopped
  BY DEF Accept, Connect, HandshakeLost, Stopped
<1>4. ControlTyped' BY <1>1, <1>2, Zenon DEF IInv, Typed, ControlTyped
<1>5. StreamTyped' BY <1>1 DEF IInv, Typed, StreamTyped
<1>6. BufferTyped' /\ TargetTyped' BY <1>1 DEF IInv, Typed, BufferTyped, TargetTyped
<1>7. RelayTyped' BY <1>1, <1>2 DEF IInv, Typed, RelayTyped
<1>8. Stages' /\ Continues'
  <2>1. CASE pc' \in Stopped BY <2>1, StoppedStages
  <2>2. CASE pc = "accept" /\ pc' = "greeting"
    <3>1. Parsed(0)' /\ ~failed'
      BY <1>1, <2>2 DEF IInv, Stages, Parsed, Prefix, Sends
    <3>2. Stages' BY <2>2, <3>1 DEF Stages
    <3>3. Continues' BY <1>1, <2>2 DEF IInv, Continues, Awaiting
    <3> QED BY <3>2, <3>3
  <2>3. CASE pc = "connect" /\ pc' = "relay"
    <3>1. Admitted' /\ IsIPv4' = IsIPv4 /\ Request_End' = Request_End /\ Sends' = Sends
          /\ Methods_End' = Methods_End
      BY <1>1, <2>3, SameStream DEF IInv, Stages
    <3>2. failed' <=> failed BY <1>1
    <3>3. ~failed => /\ Prefix' /\ Len(buffer') <= Request_End'
                     /\ IsIPv4' => AddressRead' /\ PortRead'
      BY <1>1, <2>3, <3>1 DEF IInv, Stages, Prefix, AddressRead, PortRead
    <3>4. Stages' BY <2>3, <3>1, <3>2, <3>3 DEF Stages
    <3>5. Continues' BY <1>1, <2>3, <3>1 DEF IInv, Continues, Awaiting
    <3> QED BY <3>4, <3>5
  <2> QED BY <1>3, <2>1, <2>2, <2>3
<1> QED BY <1>4, <1>5, <1>6, <1>7, <1>8 DEF IInv, Typed

-----------------------------------------------------------------------------
(* The relay.                                                              *)

(* A forwarding loop never touches what the handshake has read.            *)
LEMMA RelayStages ==
  ASSUME IInv, pc = "relay", pc' = "relay", UNCHANGED <<stream, buffer, target>>,
         ~failed' => ~failed
  PROVE  Stages'
<1>1. /\ Admitted' /\ IsIPv4' = IsIPv4 /\ Request_End' = Request_End /\ Sends' = Sends
      /\ Methods_End' = Methods_End
  BY SameStream DEF IInv, Stages
<1>2. ~failed' => /\ Prefix' /\ Len(buffer') <= Request_End'
                  /\ IsIPv4' => AddressRead' /\ PortRead'
  BY <1>1 DEF IInv, Stages, Prefix, AddressRead, PortRead
<1> QED BY <1>1, <1>2 DEF Stages

(* One round of the loop that reads from p, and what it leaves alone.      *)
Round(p, r) ==
  /\ Returns(p, r)
  /\ fwd' = [fwd EXCEPT ![p] = r.buf] /\ rounds' = [rounds EXCEPT ![p] = @ + 1]
  /\ UNCHANGED <<pc, forwarding>>

LEMMA RoundStep ==
  ASSUME IInv, NEW p \in Peers, pc = "relay", rounds[p] < MaxRounds[p],
         NEW r \in Results(p, fwd[p], 1024), Round(p, r),
         UNCHANGED <<stream, closes, buffer, cursor, target>>
  PROVE  IInv'
<1>0. /\ fwd' = [fwd EXCEPT ![p] = r.buf] /\ rounds' = [rounds EXCEPT ![p] = @ + 1]
      /\ pc' = pc /\ forwarding' = forwarding
  BY DEF Round
<1>1. "client" \in Peers BY DEF Peers
<1>2. StreamTyped /\ BufferTyped /\ RelayTyped /\ ControlTyped /\ TargetTyped
  BY DEF IInv, Typed
<1>3. fwd[p] \in Seq(Byte) /\ Len(fwd[p]) \in Nat /\ taken[p] \in Nat
      /\ Len(fwd[p]) <= taken[p] /\ stream[p] \in Seq(Byte) /\ taken[p] <= Len(stream[p])
  BY <1>2 DEF RelayTyped, StreamTyped
<1>4. \/ \E k \in Nat : /\ taken[p] + k <= Len(stream[p]) /\ r.read # Wrapped
                        /\ Grown(p, fwd[p], r, k)
      \/ Shrunk(p, fwd[p], r)
  BY <1>2, <1>3, ResultIs, SMTT(20)
<1>5. r.taken \in Nat /\ taken[p] <= r.taken /\ r.taken <= Len(stream[p])
      /\ r.buf \in Seq(Byte) /\ Len(r.buf) <= r.taken
  <2>1. CASE Shrunk(p, fwd[p], r) BY <1>3, <2>1 DEF Shrunk
  <2>2. CASE \E k \in Nat : taken[p] + k <= Len(stream[p]) /\ Grown(p, fwd[p], r, k)
    BY <1>3, <2>2, SMTT(20) DEF Grown
  <2> QED BY <1>4, <2>1, <2>2
<1>6. /\ taken' \in [Peers -> Nat] /\ taken'[p] = r.taken
      /\ \A q \in Peers : taken[q] <= taken'[q] /\ taken'[q] <= Len(stream[q])
      /\ \A q \in Peers : q # p => taken'[q] = taken[q]
  BY <1>2, <1>5 DEF StreamTyped, Round, Returns
<1>7. StreamTyped' BY <1>2, <1>6 DEF StreamTyped
<1>8. BufferTyped' BY <1>1, <1>2, <1>6 DEF BufferTyped, StreamTyped
<1>9. RelayTyped'
  <2>1. /\ fwd' \in [Peers -> Seq(Byte)] /\ fwd'[p] = r.buf
        /\ \A q \in Peers : q # p => fwd'[q] = fwd[q]
    BY <1>0, <1>2, <1>5 DEF RelayTyped
  <2>2. /\ rounds' \in [Peers -> Nat] /\ rounds'[p] = rounds[p] + 1
        /\ \A q \in Peers : q # p => rounds'[q] = rounds[q]
    BY <1>0, <1>2 DEF RelayTyped
  <2>3. \A q \in Peers : Len(fwd'[q]) <= taken'[q]
    BY <1>2, <1>5, <1>6, <2>1, ZenonT(30) DEF RelayTyped
  <2>4. \A q \in Peers : rounds'[q] <= MaxRounds[q]
    <3>1. MaxRounds[p] \in Nat BY Socks5Assumption DEF Peers
    <3>2. rounds[p] \in Nat /\ rounds[p] + 1 <= MaxRounds[p]
      BY <1>2, <3>1, SMTT(20) DEF RelayTyped
    <3>3. \A q \in Peers : q # p => rounds[q] <= MaxRounds[q] BY <1>2 DEF RelayTyped
    <3> QED BY <2>2, <3>2, <3>3
  <2> QED BY <1>0, <1>2, <2>1, <2>2, <2>3, <2>4 DEF RelayTyped
<1>10. ControlTyped' /\ (~failed' => ~failed /\ r.read # Wrapped)
  <2>1. failed' \in BOOLEAN /\ (~failed' => ~failed /\ r.read # Wrapped)
    BY ZenonT(30) DEF Round, Returns
  <2> QED BY <1>0, <1>2, <2>1, Zenon DEF ControlTyped
<1>11. Stages' BY <1>0, <1>10, RelayStages
<1>12. Continues'
  <2> SUFFICES ASSUME ~failed'
               PROVE  /\ Len(buffer) + Len(fwd'["client"]) = taken'["client"]
                      /\ \A i \in 1..Len(fwd'["client"]) :
                           fwd'["client"][i] = Sends[Len(buffer) + i]
    BY <1>0 DEF Continues, Awaiting, Sends
  <2>1. /\ Len(buffer) + Len(fwd["client"]) = taken["client"]
        /\ \A i \in 1..Len(fwd["client"]) : fwd["client"][i] = Sends[Len(buffer) + i]
    BY <1>10 DEF IInv, Continues
  <2>2. CASE p = "client"
    <3>1. PICK k \in Nat : taken[p] + k <= Len(stream[p]) /\ Grown(p, fwd[p], r, k)
      <4>1. ~Shrunk(p, fwd[p], r) BY <1>10 DEF Shrunk
      <4> QED BY <1>4, <4>1, ZenonT(30)
    <3>2. fwd'["client"] = r.buf BY <1>0, <1>2, <2>2 DEF RelayTyped
    <3>3. Len(buffer) \in Nat BY <1>2, SMTT(20) DEF BufferTyped
    <3> DEFINE f == Len(fwd[p])
    <3>4. /\ Len(r.buf) = f + k /\ r.taken = taken[p] + k
          /\ \A i \in 1..f : r.buf[i] = fwd[p][i]
          /\ \A i \in 1..k : r.buf[f + i] = Sends[taken[p] + i]
      BY <2>2, <3>1 DEF Grown, Sends
    <3>5. f \in Nat /\ taken[p] = Len(buffer) + f
          /\ \A i \in 1..f : fwd[p][i] = Sends[Len(buffer) + i]
      BY <1>3, <2>1, <2>2
    <3> HIDE DEF f
    <3>6. ASSUME NEW i \in 1..(f + k) PROVE r.buf[i] = Sends[Len(buffer) + i]
      <4>1. CASE i <= f
        <5>1. i \in 1..f BY <3>5, <4>1
        <5>2. r.buf[i] = fwd[p][i] BY <3>4, <5>1
        <5>3. fwd[p][i] = Sends[Len(buffer) + i] BY <3>5, <5>1
        <5> QED BY <5>2, <5>3
      <4>2. CASE i > f
        <5>1. i - f \in 1..k /\ f + (i - f) = i
              /\ taken[p] + (i - f) = Len(buffer) + i
          BY <3>3, <3>5, <4>2
        <5> QED BY <3>4, <5>1
      <4> QED BY <3>5, <4>1, <4>2
    <3> QED BY <1>6, <2>2, <3>2, <3>3, <3>4, <3>5, <3>6
  <2>3. CASE p # "client"
    <3>1. fwd'["client"] = fwd["client"] /\ taken'["client"] = taken["client"]
      BY <1>0, <1>1, <1>2, <1>6, <2>3 DEF RelayTyped
    <3> QED BY <2>1, <3>1
  <2> QED BY <2>2, <2>3
<1>13. TargetTyped' BY <1>2 DEF TargetTyped
<1> QED BY <1>7, <1>8, <1>9, <1>10, <1>11, <1>12, <1>13 DEF IInv, Typed

LEMMA ForwardStep ==
  ASSUME IInv, NEW p \in Peers, Forward(p)
  PROVE  IInv'
<1>1. /\ pc = "relay" /\ rounds[p] < MaxRounds[p]
      /\ UNCHANGED <<stream, closes, buffer, cursor, target>>
  BY DEF Forward
<1>2. CASE \E r \in Results(p, fwd[p], 1024) : Round(p, r)
  BY <1>1, <1>2, RoundStep
<1>3. CASE /\ forwarding' \subseteq forwarding /\ pc' \in {"relay", "terminated"}
           /\ UNCHANGED <<taken, failed, fwd, rounds>>
  <2>1. ControlTyped' BY <1>1, <1>3, Zenon DEF IInv, Typed, ControlTyped, Stopped
  <2>2. StreamTyped' /\ BufferTyped' /\ TargetTyped'
    BY <1>1, <1>3 DEF IInv, Typed, StreamTyped, BufferTyped, TargetTyped
  <2>3. RelayTyped' BY <1>3 DEF IInv, Typed, RelayTyped
  <2>4. Stages' /\ Continues'
    <3>1. CASE pc' = "terminated" BY <3>1, StoppedStages DEF Stopped
    <3>2. CASE pc' = "relay"
      <4>1. Stages' BY <1>1, <1>3, <3>2, RelayStages
      <4>2. Continues' BY <1>1, <1>3, <3>2 DEF IInv, Continues, Awaiting, Sends
      <4> QED BY <4>1, <4>2
    <3> QED BY <1>3, <3>1, <3>2
  <2> QED BY <2>1, <2>2, <2>3, <2>4 DEF IInv, Typed
<1>4. \/ \E r \in Results(p, fwd[p], 1024) : Round(p, r)
      \/ /\ forwarding' \subseteq forwarding /\ pc' \in {"relay", "terminated"}
         /\ UNCHANGED <<taken, failed, fwd, rounds>>
  <2>1. CASE \E r \in Results(p, fwd[p], 1024) :
               /\ Returns(p, r)
               /\ fwd' = [fwd EXCEPT ![p] = r.buf]
               /\ rounds' = [rounds EXCEPT ![p] = @ + 1]
               /\ UNCHANGED <<pc, forwarding>>
    <3>1. PICK r \in Results(p, fwd[p], 1024) :
                 /\ Returns(p, r)
                 /\ fwd' = [fwd EXCEPT ![p] = r.buf]
                 /\ rounds' = [rounds EXCEPT ![p] = @ + 1]
                 /\ UNCHANGED <<pc, forwarding>>
      BY <2>1, ZenonT(40)
    <3>2. Round(p, r) BY <3>1 DEF Round
    <3> QED BY <3>2
  <2>2. CASE forwarding' = forwarding \ {p} /\ UNCHANGED <<pc, taken, failed, fwd, rounds>>
    BY <1>1, <2>2
  <2>3. CASE pc' = "terminated" /\ UNCHANGED <<taken, failed, forwarding, fwd, rounds>>
    BY <2>3
  <2>4. \/ \E r \in Results(p, fwd[p], 1024) :
             /\ Returns(p, r)
             /\ fwd' = [fwd EXCEPT ![p] = r.buf]
             /\ rounds' = [rounds EXCEPT ![p] = @ + 1]
             /\ UNCHANGED <<pc, forwarding>>
        \/ forwarding' = forwarding \ {p} /\ UNCHANGED <<pc, taken, failed, fwd, rounds>>
        \/ pc' = "terminated" /\ UNCHANGED <<taken, failed, forwarding, fwd, rounds>>
    BY DEF Forward
  <2> QED BY <2>1, <2>2, <2>3, <2>4
<1> QED BY <1>2, <1>3, <1>4

(* A write, or no step at all, changes nothing the invariant speaks of.    *)
LEMMA UntouchedStep ==
  ASSUME IInv, UNCHANGED <<handshake, stream, closes, taken, failed, relay>>
  PROVE  IInv'
<1>1. UNCHANGED <<pc, buffer, cursor, target, forwarding, fwd, rounds>>
  BY DEF handshake, relay
<1>2. ControlTyped' BY <1>1, Zenon DEF IInv, Typed, ControlTyped
<1>3. StreamTyped' BY DEF IInv, Typed, StreamTyped
<1>4. BufferTyped' /\ TargetTyped' /\ RelayTyped'
  BY <1>1 DEF IInv, Typed, BufferTyped, TargetTyped, RelayTyped
<1>5. /\ Sends' = Sends /\ Methods_End' = Methods_End /\ Request_End' = Request_End
      /\ Admitted' = Admitted /\ IsIPv4' = IsIPv4
  BY SameStream
<1>6. /\ Prefix' = Prefix /\ AddressRead' = AddressRead /\ PortRead' = PortRead
      /\ \A n : Parsed(n)' = Parsed(n)
  BY <1>1, <1>5, Zenon DEF Prefix, AddressRead, PortRead, Parsed
<1>7. Stages'
  <2>1. Parsed(Methods_End)' = Parsed(Methods_End)
        /\ Parsed(Methods_End + 4)' = Parsed(Methods_End + 4)
        /\ Parsed(Methods_End + 8)' = Parsed(Methods_End + 8)
    BY <1>1, <1>5, <1>6, Zenon DEF Parsed
  <2> QED BY <1>1, <1>5, <1>6, <2>1 DEF IInv, Stages
<1>8. Continues' BY <1>1, <1>5 DEF IInv, Continues
<1> QED BY <1>2, <1>3, <1>4, <1>7, <1>8 DEF IInv, Typed

LEMMA NextInv == IInv /\ [Next]_vars => IInv'
<1> SUFFICES ASSUME IInv, [Next]_vars PROVE IInv' OBVIOUS
<1>1. CASE Handshake
  BY <1>1, GreetingStep, MethodsStep, RequestStep, AddressStep, PortStep,
     OtherHandshakeStep DEF Handshake
<1>2. CASE HandshakeLost BY <1>2, OtherHandshakeStep
<1>3. ASSUME NEW p \in Peers, Forward(p) PROVE IInv' BY <1>3, ForwardStep
<1>4. ASSUME NEW p \in Peers, Written(p) PROVE IInv'
  BY <1>4, UntouchedStep DEF Written
<1>5. CASE UNCHANGED vars BY <1>5, UntouchedStep DEF vars
<1> QED BY <1>1, <1>2, <1>3, <1>4, <1>5 DEF Next

LEMMA IInvHolds == Spec => []IInv
BY InitInv, NextInv, PTL DEF Spec

-----------------------------------------------------------------------------
(* The writes that were submitted. None is for a client that was not       *)
(* admitted, and those for the remote begin as the relay's vector does.    *)
Answered == \A p \in Peers : inflight[p] # <<>> => Admitted

Begins(w, f) == Len(w) <= Len(f) /\ \A j \in 1..Len(w) : w[j] = f[j]

Relayed ==
  /\ inflight["remote"] \in Seq(Seq(Byte))
  /\ ~failed => \A i \in 1..Len(inflight["remote"]) :
                  Begins(inflight["remote"][i], fwd["client"])

Writes == DOMAIN inflight = Peers /\ Answered /\ Relayed

(* What a step may do to the writes.                                       *)
WritesKept == inflight' = inflight
WriteAdded(p, b) == inflight' = [inflight EXCEPT ![p] = Append(@, b)]

(* The steps of the handshake write to the client, once it was admitted.   *)
LEMMA HandshakeWrites ==
  ASSUME Handshake \/ HandshakeLost
  PROVE  /\ \/ WritesKept
            \/ pc' \in {"request", "relay"} /\ \E b : WriteAdded("client", b)
         /\ fwd' = fwd /\ stream' = stream /\ (~failed' => ~failed)
<1>1. CASE Accept \/ Connect \/ HandshakeLost
  BY <1>1 DEF Accept, Connect, HandshakeLost, submit_write_some, relay, WritesKept, WriteAdded
<1>2. ASSUME NEW r, Returns("client", r), UNCHANGED <<stream, closes, relay>>,
             \/ AfterGreeting(r) \/ AfterMethods(r) \/ AfterRequest(r)
             \/ AfterAddress(r) \/ AfterPort(r)
      PROVE  /\ \/ WritesKept
                \/ pc' \in {"request", "relay"} /\ \E b : WriteAdded("client", b)
             /\ fwd' = fwd /\ stream' = stream /\ (~failed' => ~failed)
  <2>1. fwd' = fwd /\ stream' = stream BY <1>2 DEF relay
  <2>2. ~failed' => ~failed BY <1>2, Zenon DEF Returns
  <2>3. CASE AfterMethods(r)
    BY <2>1, <2>2, <2>3 DEF AfterMethods, Close, submit_write_some, WritesKept, WriteAdded
  <2>4. CASE AfterGreeting(r) \/ AfterRequest(r) \/ AfterAddress(r) \/ AfterPort(r)
    <3>1. WritesKept
      BY <2>4, Zenon DEF AfterGreeting, AfterRequest, AfterAddress, AfterPort, Close, WritesKept
    <3> QED BY <2>1, <2>2, <3>1
  <2> QED BY <1>2, <2>3, <2>4
<1>3. CASE Greeting BY <1>2, <1>3, Zenon DEF Greeting, HandshakeRead
<1>4. CASE Methods BY <1>2, <1>4, Zenon DEF Methods, HandshakeRead
<1>5. CASE Request BY <1>2, <1>5, Zenon DEF Request, HandshakeRead
<1>6. CASE Address BY <1>2, <1>6, Zenon DEF Address, HandshakeRead
<1>7. CASE Port BY <1>2, <1>7, Zenon DEF Port, HandshakeRead
<1> QED BY <1>1, <1>3, <1>4, <1>5, <1>6, <1>7 DEF Handshake

(* A write is only added in a state in which the client is admitted.       *)
LEMMA AnsweredStep ==
  ASSUME Writes, stream' = stream,
         \/ WritesKept
         \/ Admitted' /\ \E p \in Peers : \E b : WriteAdded(p, b)
         \/ \E p \in Peers : Written(p)
  PROVE  DOMAIN inflight' = Peers /\ Answered'
<1>1. Admitted' = Admitted BY SameStream
<1>2. CASE WritesKept BY <1>1, <1>2 DEF Writes, Answered, WritesKept
<1>3. CASE Admitted' /\ \E p \in Peers : \E b : WriteAdded(p, b)
  BY <1>3 DEF Writes, Answered, WriteAdded
<1>4. CASE \E p \in Peers : Written(p)
  <2>0. PICK p \in Peers : Written(p) BY <1>4
  <2>1. PICK i \in DOMAIN inflight[p] :
          inflight' = [inflight EXCEPT ![p] = SubSeq(@, 1, i - 1) \o SubSeq(@, i + 1, Len(@))]
    BY <2>0 DEF Written
  <2>2. inflight[p] # <<>> OBVIOUS
  <2>3. Admitted BY <2>2 DEF Writes, Answered
  <2>4. DOMAIN inflight' = Peers BY <2>1 DEF Writes
  <2> QED BY <1>1, <2>3, <2>4 DEF Answered
<1> QED BY <1>2, <1>3, <1>4

LEMMA BeginsOn ==
  ASSUME NEW w \in Seq(Byte), NEW f \in Seq(Byte), NEW g \in Seq(Byte), Begins(w, f), Begins(f, g)
  PROVE  Begins(w, g)
BY DEF Begins

(* The handshake never writes to the remote.                               *)
LEMMA RelayedKept ==
  ASSUME Writes, ~failed' => ~failed, fwd'["client"] = fwd["client"],
         WritesKept \/ \E b : WriteAdded("client", b)
  PROVE  Relayed'
<1>1. inflight'["remote"] = inflight["remote"]
  BY DEF Writes, WritesKept, WriteAdded, Peers
<1> QED BY <1>1 DEF Writes, Relayed

(* The loop from the client sends its whole vector, which begins with what *)
(* it held before.                                                         *)
LEMMA RelayedForward ==
  ASSUME IInv, Writes, NEW p \in Peers, Forward(p)
  PROVE  Relayed' /\ stream' = stream
         /\ (WritesKept \/ \E b : WriteAdded(Other(p), b) /\ pc' = "relay")
<1>1. pc = "relay" /\ stream' = stream BY DEF Forward
<1>2. "client" \in Peers /\ StreamTyped /\ RelayTyped BY DEF IInv, Typed, Peers
<1>3. fwd["client"] \in Seq(Byte) /\ fwd[p] \in Seq(Byte) BY <1>2 DEF RelayTyped
<1>4. CASE UNCHANGED <<fwd, failed, inflight>>
  BY <1>1, <1>4, RelayedKept DEF WritesKept
<1>5. ASSUME NEW r \in Results(p, fwd[p], 1024), Returns(p, r),
             fwd' = [fwd EXCEPT ![p] = r.buf], submit_write_some(Other(p), r.buf), pc' = pc
      PROVE  Relayed' /\ WriteAdded(Other(p), r.buf) /\ pc' = "relay"
  <2>1. WriteAdded(Other(p), r.buf) BY <1>5 DEF submit_write_some, WriteAdded
  <2>2. ~failed' => ~failed /\ r.read # Wrapped BY <1>5, Zenon DEF Returns
  <2>3. CASE p = "remote"
    <3>1. Other(p) = "client" BY <2>3 DEF Other, Peers
    <3>2. fwd'["client"] = fwd["client"] BY <1>2, <1>5, <2>3 DEF RelayTyped
    <3>3. \E b : WriteAdded("client", b) BY <2>1, <3>1
    <3> QED BY <1>1, <1>5, <2>1, <2>2, <3>2, <3>3, RelayedKept
  <2>4. CASE p = "client"
    <3>1. Other(p) = "remote" BY <2>4 DEF Other, Peers
    <3>2. fwd'["client"] = r.buf BY <1>2, <1>5, <2>4 DEF RelayTyped
    <3>3. \/ \E k \in Nat : r.read # Wrapped /\ Grown(p, fwd[p], r, k)
          \/ Shrunk(p, fwd[p], r)
      BY <1>2, <1>3, ResultIs, SMTT(20)
    <3>4. r.buf \in Seq(Byte) BY <3>3, Zenon DEF Grown, Shrunk
    <3>5. ~failed' => Begins(fwd["client"], r.buf)
      <4> SUFFICES ASSUME ~failed' PROVE Begins(fwd["client"], r.buf) OBVIOUS
      <4>1. ~Shrunk(p, fwd[p], r) BY <2>2 DEF Shrunk
      <4>2. PICK k \in Nat : Grown(p, fwd[p], r, k) BY <3>3, <4>1, Zenon
      <4> QED BY <1>3, <2>4, <4>2 DEF Grown, Begins
    <3>6. inflight["remote"] \in Seq(Seq(Byte)) BY DEF Writes, Relayed
    <3>7. inflight'["remote"] = Append(inflight["remote"], r.buf)
      BY <2>1, <3>1 DEF Writes, WriteAdded, Peers
    <3>8. /\ inflight'["remote"] \in Seq(Seq(Byte))
          /\ Len(inflight'["remote"]) = Len(inflight["remote"]) + 1
          /\ inflight'["remote"][Len(inflight["remote"]) + 1] = r.buf
          /\ \A i \in 1..Len(inflight["remote"]) :
               inflight'["remote"][i] = inflight["remote"][i]
               /\ inflight["remote"][i] \in Seq(Byte)
      BY <3>4, <3>6, <3>7
    <3>9. ASSUME ~failed', NEW i \in 1..Len(inflight'["remote"])
          PROVE  Begins(inflight'["remote"][i], r.buf)
      <4>1. CASE i \in 1..Len(inflight["remote"])
        <5>1. Begins(inflight["remote"][i], fwd["client"])
          BY <2>2, <3>9, <4>1 DEF Writes, Relayed
        <5> QED BY <1>3, <3>4, <3>5, <3>8, <3>9, <4>1, <5>1, BeginsOn
      <4>2. CASE i = Len(inflight["remote"]) + 1
        BY <3>4, <3>8, <4>2 DEF Begins
      <4> QED BY <3>6, <3>8, <4>1, <4>2
    <3>10. Relayed' BY <3>2, <3>8, <3>9 DEF Relayed
    <3> QED BY <1>1, <1>5, <2>1, <3>10
  <2> QED BY <2>3, <2>4 DEF Peers
<1>6. \/ UNCHANGED <<fwd, failed, inflight>>
      \/ \E r \in Results(p, fwd[p], 1024) :
           /\ Returns(p, r) /\ fwd' = [fwd EXCEPT ![p] = r.buf]
           /\ submit_write_some(Other(p), r.buf) /\ pc' = pc
  BY ZenonT(30) DEF Forward
<1> QED BY <1>1, <1>4, <1>5, <1>6 DEF WritesKept

(* A write that was carried out leaves the others.                         *)
LEMMA RelayedWritten ==
  ASSUME Writes, NEW p \in Peers, Written(p)
  PROVE  Relayed'
<1>1. fwd' = fwd /\ failed' = failed BY DEF Written, relay
<1>2. PICK i \in DOMAIN inflight[p] :
        inflight' = [inflight EXCEPT ![p] = SubSeq(@, 1, i - 1) \o SubSeq(@, i + 1, Len(@))]
  BY DEF Written
<1>3. CASE p = "client"
  <2>1. inflight'["remote"] = inflight["remote"] BY <1>2, <1>3 DEF Writes, Peers
  <2> QED BY <1>1, <2>1 DEF Writes, Relayed
<1>4. CASE p = "remote"
  <2>1. PICK q \in Seq(Seq(Byte)) : q = inflight["remote"] BY DEF Writes, Relayed
  <2> DEFINE a == SubSeq(q, 1, i - 1)
             c == SubSeq(q, i + 1, Len(q))
             d == a \o c
  <2>2. i \in Nat /\ i >= 1 /\ i <= Len(q) /\ Len(q) \in Nat BY <1>4, <2>1
  <2>3. inflight'["remote"] = d BY <1>2, <1>4, <2>1 DEF Writes
  <2>4. /\ a \in Seq(Seq(Byte)) /\ Len(a) = i - 1
        /\ \A n \in 1..(i - 1) : a[n] = q[n]
    BY <2>2
  <2>5. /\ c \in Seq(Seq(Byte)) /\ Len(c) = Len(q) - i
        /\ \A n \in 1..(Len(q) - i) : c[n] = q[i + n]
    BY <2>2
  <2> HIDE DEF a, c
  <2>6. /\ d \in Seq(Seq(Byte)) /\ Len(d) = Len(q) - 1
        /\ \A n \in 1..Len(a) : d[n] = a[n]
        /\ \A n \in 1..Len(c) : d[Len(a) + n] = c[n]
    <3>1. d \in Seq(Seq(Byte)) BY <2>4, <2>5
    <3>2. Len(d) = Len(a) + Len(c) BY <2>4, <2>5, ConcatLen, Zenon
    <3>3. Len(d) = Len(q) - 1 BY <2>2, <2>4, <2>5, <3>2
    <3>4. \A n \in 1..Len(a) : d[n] = a[n] BY <2>4, <2>5
    <3>5. \A n \in 1..Len(c) : d[Len(a) + n] = c[n] BY <2>4, <2>5
    <3> QED BY <3>1, <3>3, <3>4, <3>5
  <2> HIDE DEF d
  <2>7. ASSUME NEW j \in 1..Len(d) PROVE \E n \in 1..Len(q) : d[j] = q[n]
    <3>1. CASE j < i
      <4>1. j \in 1..(i - 1) /\ j \in 1..Len(q) BY <2>2, <2>6, <3>1
      <4>2. d[j] = q[j] BY <2>4, <2>6, <4>1
      <4> QED BY <4>1, <4>2
    <3>2. CASE j >= i
      <4>1. PICK n \in 1..(Len(q) - i) : j = (i - 1) + n
        <5>1. j - (i - 1) \in 1..(Len(q) - i) /\ j = (i - 1) + (j - (i - 1))
          BY <2>2, <2>6, <3>2
        <5> QED BY <5>1, Zenon
      <4>2. d[j] = q[i + n] BY <2>4, <2>5, <2>6, <4>1
      <4>3. i + n \in 1..Len(q) BY <2>2
      <4> QED BY <4>2, <4>3
    <3> QED BY <2>2, <3>1, <3>2
  <2>8. ~failed => \A n \in 1..Len(q) : Begins(q[n], fwd["client"])
    BY <2>1 DEF Writes, Relayed
  <2>9. ASSUME ~failed, NEW j \in 1..Len(d) PROVE Begins(d[j], fwd["client"])
    BY <2>7, <2>8, <2>9, Zenon
  <2> QED BY <1>1, <2>3, <2>6, <2>9 DEF Relayed
<1> QED BY <1>3, <1>4 DEF Peers

LEMMA WritesStep == IInv /\ IInv' /\ Writes /\ [Next]_vars => Writes'
<1> SUFFICES ASSUME IInv, IInv', Writes, [Next]_vars PROVE Writes' OBVIOUS
<1>1. pc' \in {"request", "relay"} => Admitted' BY DEF IInv, Stages
<1>2. CASE Handshake \/ HandshakeLost
  <2>1. /\ \/ WritesKept
           \/ pc' \in {"request", "relay"} /\ \E b : WriteAdded("client", b)
        /\ fwd' = fwd /\ stream' = stream /\ (~failed' => ~failed)
    BY <1>2, HandshakeWrites
  <2>2. Relayed' BY <2>1, RelayedKept
  <2>3. DOMAIN inflight' = Peers /\ Answered'
    BY <1>1, <2>1, AnsweredStep DEF Peers
  <2> QED BY <2>2, <2>3 DEF Writes
<1>3. ASSUME NEW p \in Peers, Forward(p) PROVE Writes'
  <2>1. /\ Relayed' /\ stream' = stream
        /\ WritesKept \/ \E b : WriteAdded(Other(p), b) /\ pc' = "relay"
    BY <1>3, RelayedForward
  <2>2. Other(p) \in Peers BY DEF Other, Peers
  <2>3. DOMAIN inflight' = Peers /\ Answered' BY <1>1, <2>1, <2>2, AnsweredStep
  <2> QED BY <2>1, <2>3 DEF Writes
<1>4. ASSUME NEW p \in Peers, Written(p) PROVE Writes'
  <2>1. stream' = stream BY <1>4 DEF Written
  <2>2. DOMAIN inflight' = Peers /\ Answered' BY <1>4, <2>1, AnsweredStep
  <2> QED BY <1>4, <2>2, RelayedWritten DEF Writes
<1>5. CASE UNCHANGED vars
  <2>1. WritesKept /\ fwd' = fwd /\ failed' = failed /\ stream' = stream
    BY <1>5 DEF vars, relay, WritesKept
  <2>2. Relayed' BY <2>1, RelayedKept
  <2>3. DOMAIN inflight' = Peers /\ Answered' BY <2>1, AnsweredStep
  <2> QED BY <2>2, <2>3 DEF Writes
<1> QED BY <1>2, <1>3, <1>4, <1>5 DEF Next

LEMMA WritesHold == Spec => []Writes
<1>1. Init => Writes BY DEF Init, Writes, Answered, Relayed, Peers
<1> QED BY <1>1, WritesStep, IInvHolds, PTL DEF Spec

-----------------------------------------------------------------------------
(* No read runs over the stream, the cursor stays in what was read, and    *)
(* the address has 4 bytes and the port 16 bits when they were read at     *)
(* all, failed and short reads included. About handle_client_handshake()   *)
(* and forward_connection_data_().                                         *)
THEOREM Socks5TypeCorrect == Spec => []TypeOK
<1>1. IInv => TypeOK
  <2> SUFFICES ASSUME IInv PROVE TypeOK OBVIOUS
  <2>1. StreamTyped /\ BufferTyped /\ RelayTyped /\ ControlTyped /\ TargetTyped
    BY DEF IInv, Typed
  <2>2. "client" \in Peers BY DEF Peers
  <2>3. \A p \in Peers : taken[p] \in 0..Len(stream[p])
    BY <2>1 DEF StreamTyped
  <2>4. cursor \in 0..taken["client"] /\ Len(buffer) <= taken["client"]
    BY <2>1, <2>2 DEF StreamTyped, BufferTyped
  <2>5. target.addr \in Addrs /\ target.port \in Ports BY <2>1 DEF TargetTyped
  <2>6. \A p \in Peers : rounds[p] \in 0..MaxRounds[p] /\ Len(fwd[p]) <= taken[p]
    <3>1. \A p \in Peers : MaxRounds[p] \in Nat BY Socks5Assumption DEF Peers
    <3> QED BY <2>1, <3>1 DEF RelayTyped
  <2>7. forwarding \subseteq Peers BY <2>1 DEF RelayTyped
  <2> QED BY <2>1, <2>3, <2>4, <2>5, <2>6, <2>7, Zenon DEF ControlTyped, TypeOK
<1> QED BY <1>1, IInvHolds, PTL

(* A connection is only made, data only relayed and anything only written, *)
(* for a client that spoke version 5 and offered to go without             *)
(* authentication, whatever it sends, in whatever pieces, failed and short *)
(* reads included: a buffer too short to be cut protects the two checks.   *)
(* About server.hpp:35-69, 127 and 156.                                    *)
THEOREM OnlyTrustedHolds == Spec => []OnlyTrusted
<1>1. IInv /\ Writes => OnlyTrusted
  <2> SUFFICES ASSUME IInv, Writes,
                      \/ pc \in {"request", "address", "port", "connect", "relay"}
                      \/ \E p \in Peers : inflight[p] # <<>>
               PROVE  /\ Sent(1, 1) = <<5>>
                      /\ 0 \in {stream["client"][i] : i \in 3..Methods_End}
    BY DEF OnlyTrusted
  <2>1. Admitted BY DEF IInv, Stages, Writes, Answered
  <2>2. Sends \in Seq(Byte) BY <2>1, Positions DEF IInv, Typed
  <2>3. Sent(1, 1) = <<Sends[1]>>
    <3>1. Len(Sends) >= 1 BY <2>1, <2>2 DEF Admitted
    <3>2. /\ SubSeq(Sends, 1, 1) \in Seq(Byte) /\ Len(SubSeq(Sends, 1, 1)) = 1
          /\ SubSeq(Sends, 1, 1)[1] = Sends[1]
      BY <2>2, <3>1, SubSeqIs
    <3> QED BY <3>2, SingleIs, ZenonT(30) DEF Sent, Sends
  <2>4. 0 \in {Sends[i] : i \in 3..Methods_End} BY <2>1 DEF Admitted
  <2> QED BY <2>1, <2>3, <2>4 DEF Admitted, Sends
<1> QED BY <1>1, IInvHolds, WritesHold, PTL

(* The server connects to the address and port the client asked for,       *)
(* whatever else the client sends and however the request was cut into     *)
(* segments. About the length checks of handle_client_handshake().         *)
THEOREM ConnectsAsAskedHolds == Spec => []ConnectsAsAsked
<1>1. IInv => ConnectsAsAsked
  <2> SUFFICES ASSUME IInv, pc \in {"connect", "relay"}, ~failed, IsIPv4
               PROVE  /\ target.addr = Sent(Methods_End + 5, Methods_End + 8)
                      /\ target.port = IF Len(buffer) < Request_End THEN Garbage
                                       ELSE Sent(Request_End - 1, Request_End - 1)[1] * 256
                                              + Sent(Request_End, Request_End)[1]
    BY DEF ConnectsAsAsked
  <2>1. Admitted /\ Prefix /\ AddressRead /\ PortRead BY DEF IInv, Stages
  <2>2. /\ Sends \in Seq(Byte) /\ Methods_End \in Nat /\ Request_End = Methods_End + 10
        /\ buffer \in Seq(Byte)
    BY <2>1, Positions DEF IInv, Typed, BufferTyped
  <2>3. target.addr = Sent(Methods_End + 5, Methods_End + 8)
    BY <2>1 DEF AddressRead, Sent, Sends
  <2>4. ASSUME ~(Len(buffer) < Request_End)
        PROVE  /\ Sent(Request_End - 1, Request_End - 1)[1] = Sends[Request_End - 1]
               /\ Sent(Request_End, Request_End)[1] = Sends[Request_End]
    <3>1. Request_End \in Nat /\ Request_End - 1 \in Nat /\ Request_End - 1 >= 1
          /\ Request_End <= Len(Sends)
      BY <2>1, <2>2, <2>4 DEF Prefix
    <3>2. ASSUME NEW n \in Nat, n >= 1, n <= Len(Sends)
          PROVE  SubSeq(Sends, n, n)[1] = Sends[n]
      BY <2>2, <3>2
    <3> QED BY <3>1, <3>2 DEF Sent, Sends
  <2> QED BY <2>1, <2>3, <2>4 DEF PortRead
<1> QED BY <1>1, IInvHolds, PTL

(* Between them the buffer of the handshake and the vector of the relay    *)
(* hold all that was read from the client, in order and once, and the      *)
(* handshake took no byte behind the request, with which every write that  *)
(* waits for the remote begins. About server.hpp:106 and 150-156, for      *)
(* every stream.                                                           *)
THEOREM HandedOverHolds == Spec => []HandedOver
<1>1. IInv /\ Writes => HandedOver
  <2> SUFFICES ASSUME IInv, Writes, pc = "relay", ~failed
               PROVE  /\ Len(buffer) <= Request_End
                      /\ buffer \o fwd["client"] = Sent(1, taken["client"])
                      /\ \A i \in DOMAIN inflight["remote"] :
                           inflight["remote"][i] =
                             Sent(Len(buffer) + 1, Len(buffer) + Len(inflight["remote"][i]))
    BY DEF HandedOver
  <2>1. Prefix /\ Len(buffer) <= Request_End BY DEF IInv, Stages
  <2>2. "client" \in Peers BY DEF Peers
  <2>3. /\ Sends \in Seq(Byte) /\ taken["client"] \in Nat /\ taken["client"] <= Len(Sends)
        /\ buffer \in Seq(Byte) /\ fwd["client"] \in Seq(Byte)
    BY <2>2 DEF IInv, Typed, StreamTyped, BufferTyped, RelayTyped, Sends
  <2>4. PICK b \in Seq(Byte), f \in Seq(Byte), t \in Nat :
          b = buffer /\ f = fwd["client"] /\ t = taken["client"]
    BY <2>3
  <2>5. /\ Len(b) + Len(f) = t
        /\ \A i \in 1..Len(f) : f[i] = Sends[Len(b) + i]
        /\ \A i \in 1..Len(b) : b[i] = Sends[i]
    BY <2>1, <2>4 DEF IInv, Continues, Prefix
  <2>6. /\ b \o f \in Seq(Byte) /\ Len(b \o f) = t
        /\ \A i \in 1..Len(b) : (b \o f)[i] = b[i]
        /\ \A i \in 1..Len(f) : (b \o f)[Len(b) + i] = f[i]
    BY <2>5, ConcatIs
  <2>7. /\ SubSeq(Sends, 1, t) \in Seq(Byte) /\ Len(SubSeq(Sends, 1, t)) = t
        /\ \A i \in 1..t : SubSeq(Sends, 1, t)[i] = Sends[i]
    BY <2>3, <2>4, SubSeqIs
  <2>8. ASSUME NEW i \in 1..t PROVE (b \o f)[i] = Sends[i]
    <3>1. CASE i <= Len(b)
      <4>1. i \in 1..Len(b) BY <3>1
      <4> QED BY <2>5, <2>6, <4>1
    <3>2. CASE i > Len(b)
      <4>1. PICK j \in 1..Len(f) : Len(b) + j = i
        <5>1. i - Len(b) \in 1..Len(f) /\ Len(b) + (i - Len(b)) = i BY <2>5, <3>2
        <5> QED BY <5>1, ZenonT(30)
      <4>2. (b \o f)[Len(b) + j] = f[j] /\ f[j] = Sends[Len(b) + j] BY <2>5, <2>6
      <4> QED BY <4>1, <4>2
    <3>3. i <= Len(b) \/ i > Len(b) OBVIOUS
    <3> QED BY <3>1, <3>2, <3>3, Zenon
  <2>9. b \o f = SubSeq(Sends, 1, t) BY <2>6, <2>7, <2>8, SeqEqual
  <2>10. ASSUME NEW i \in DOMAIN inflight["remote"]
         PROVE  inflight["remote"][i] =
                  SubSeq(Sends, Len(b) + 1, Len(b) + Len(inflight["remote"][i]))
    <3>1. inflight["remote"] \in Seq(Seq(Byte)) BY DEF Writes, Relayed
    <3>2. PICK w \in Seq(Byte) : w = inflight["remote"][i] BY <3>1
    <3>3. i \in 1..Len(inflight["remote"]) BY <3>1
    <3>4. Begins(w, f) BY <2>4, <3>2, <3>3 DEF Writes, Relayed
    <3>5. Len(w) <= Len(f) /\ \A j \in 1..Len(w) : w[j] = Sends[Len(b) + j]
      BY <2>5, <3>4 DEF Begins
    <3> DEFINE u == SubSeq(Sends, Len(b) + 1, Len(b) + Len(w))
    <3>6. /\ u \in Seq(Byte) /\ Len(u) = Len(w)
          /\ \A j \in 1..Len(w) : u[j] = Sends[Len(b) + j]
      <4>1. Len(b) \in Nat /\ Len(w) \in Nat /\ Len(f) \in Nat OBVIOUS
      <4>2. Len(b) + Len(w) <= Len(Sends) BY <2>3, <2>4, <2>5, <3>5, <4>1
      <4> QED BY <2>3, <4>1, <4>2, SubSeqIs
    <3> HIDE DEF u
    <3>7. w = u BY <3>5, <3>6, SeqEqual
    <3> QED BY <3>2, <3>7 DEF u
  <2> QED BY <2>1, <2>4, <2>9, <2>10 DEF Sent, Sends
<1> QED BY <1>1, IInvHolds, WritesHold, PTL
=============================================================================
