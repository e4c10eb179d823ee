----------------------------- MODULE NicProofs ------------------------------
(***************************************************************************)
(* The streams, the checksum and the frames of the network code, for every *)
(* request, every payload and every MTU. IInv is about one stream and one  *)
(* sum at a time; WInv, further down, follows the fields of an answer from *)
(* packet to packet onto the wire, and back into the decoder.              *)
(***************************************************************************)
EXTENDS Nic, TLAPS

Packet == Icmp \cup Ip \cup Arp \cup EthernetFrame

-----------------------------------------------------------------------------
(* What the streams do.                                                    *)

(* Addresses are byte sequences of their size.                             *)
LEMMA AddressBytes ==
  /\ \A b \in MAC : b \in Bytes /\ Len(b) = 6
  /\ \A b \in IPv4 : b \in Bytes /\ Len(b) = 4
  /\ \A b \in Octets(4) : b \in Bytes /\ Len(b) = 4
  BY DEF MAC, IPv4, Octets

(* A byte or a word is encoded as bytes.                                   *)
LEMMA EncodedBytes ==
  ASSUME NEW n \in Nat
  PROVE  U8(n) \in Bytes /\ U16(n) \in Bytes
<1>1. n % 256 \in Byte /\ (n \div 256) % 256 \in Byte
  BY DEF Byte
<1>2. QED
  BY <1>1 DEF U8, U16, Bytes

(* A new Buffer is a sequence of zero bytes.                               *)
LEMMA BufferBytes ==
  ASSUME NEW n \in Nat
  PROVE  /\ Buffer(n) \in Bytes /\ Len(Buffer(n)) = n
         /\ \A k \in 1..n : Buffer(n)[k] = 0
  BY DEF Buffer, Bytes, Byte

(* A write gives a stream over a buffer of the same size, and its cursor   *)
(* stays inside if it was.                                                 *)
LEMMA WriteStream ==
  ASSUME NEW s \in Streams, NEW b \in Bytes
  PROVE  /\ Write(s, b) \in Streams
         /\ Len(Write(s, b).buffer) = Len(s.buffer)
         /\ s.cursor <= Len(s.buffer) => Write(s, b).cursor <= Len(s.buffer)
<1> DEFINE new == [k \in 1..Len(s.buffer) |->
                     IF k \in s.cursor + 1 .. s.cursor + Len(b)
                     THEN b[k - s.cursor] ELSE s.buffer[k]]
<1>1. /\ s.buffer \in Seq(Byte) /\ s.cursor \in Nat
      /\ s.errc \in {"Ok", "NotEnoughData"}
      /\ b \in Seq(Byte) /\ Len(b) \in Nat /\ Len(s.buffer) \in Nat
  BY DEF Streams, Bytes
<1>2. CASE Fits(s, Len(b))
  <2>1. ASSUME NEW k \in 1..Len(s.buffer) PROVE new[k] \in Byte
    <3>1. CASE k \in s.cursor + 1 .. s.cursor + Len(b)
      BY <1>1, <3>1
    <3>2. CASE k \notin s.cursor + 1 .. s.cursor + Len(b)
      BY <1>1, <3>2
    <3>3. QED
      BY <3>1, <3>2
  <2>2. new \in Seq(Byte) /\ Len(new) = Len(s.buffer)
    BY <1>1, <2>1
  <2>3. Write(s, b) = [s EXCEPT !.buffer = new, !.cursor = s.cursor + Len(b)]
    BY <1>2 DEF Write
  <2> HIDE DEF new
  <2>4. /\ Write(s, b) = [buffer |-> new, cursor |-> s.cursor + Len(b),
                          errc |-> s.errc]
    BY <2>3, Zenon DEF Streams
  <2>6. Write(s, b) \in Streams
    BY <1>1, <2>2, <2>4 DEF Streams
  <2>5. QED
    BY <1>1, <1>2, <2>2, <2>4, <2>6 DEF Fits
<1>3. CASE ~Fits(s, Len(b))
  BY <1>1, <1>3 DEF Write, Failed, Streams
<1>4. QED
  BY <1>2, <1>3

(* What a stream holds: asked, then zeros.                                 *)
Exact(s, all) ==
  s.errc = "Ok" => /\ s.cursor = Len(all)
                   /\ \A k \in 1..Len(s.buffer) :
                        s.buffer[k] = IF k <= s.cursor THEN all[k] ELSE 0

(* If it held all that was asked, so it does after another field.          *)
LEMMA WriteExact ==
  ASSUME NEW s \in Streams, NEW all \in Bytes, NEW b \in Bytes, Exact(s, all)
  PROVE  Exact(Write(s, b), all \o b)
<1> DEFINE new == [k \in 1..Len(s.buffer) |->
                     IF k \in s.cursor + 1 .. s.cursor + Len(b)
                     THEN b[k - s.cursor] ELSE s.buffer[k]]
           t == Write(s, b)
<1>1. /\ s.buffer \in Seq(Byte) /\ s.cursor \in Nat
      /\ b \in Seq(Byte) /\ Len(b) \in Nat /\ Len(s.buffer) \in Nat
      /\ all \in Seq(Byte) /\ Len(all) \in Nat
  BY DEF Streams, Bytes
<1>2. CASE Fits(s, Len(b))
  <2>1. t = [s EXCEPT !.buffer = new, !.cursor = s.cursor + Len(b)]
    BY <1>2 DEF Write
  <2>2. t.buffer = new /\ t.cursor = s.cursor + Len(b) /\ t.errc = s.errc
    BY <2>1 DEF Streams
  <2>3. SUFFICES ASSUME s.errc = "Ok"
                 PROVE  /\ t.cursor = Len(all \o b)
                        /\ \A k \in 1..Len(t.buffer) :
                             t.buffer[k] = IF k <= t.cursor THEN (all \o b)[k] ELSE 0
    BY <2>2, Zenon DEF Exact
  <2>4. s.cursor = Len(all)
    BY <2>3 DEF Exact
  <2>5. t.cursor = Len(all \o b)
    BY <1>1, <2>2, <2>4
  <2>6. Len(t.buffer) = Len(s.buffer)
    BY <1>1, <2>2
  <2>7. ASSUME NEW k \in 1..Len(s.buffer)
        PROVE  new[k] = IF k <= s.cursor + Len(b) THEN (all \o b)[k] ELSE 0
    <3>1. s.buffer[k] = IF k <= s.cursor THEN all[k] ELSE 0
      BY <2>3 DEF Exact
    <3>2. CASE k <= s.cursor
      BY <1>1, <2>4, <3>1, <3>2
    <3>3. CASE k > s.cursor /\ k <= s.cursor + Len(b)
      BY <1>1, <2>4, <3>3
    <3>4. CASE k > s.cursor + Len(b)
      BY <1>1, <3>1, <3>4
    <3>5. \/ k <= s.cursor \/ k > s.cursor + Len(b)
          \/ k > s.cursor /\ k <= s.cursor + Len(b)
      BY <1>1
    <3>6. QED
      BY <3>2, <3>3, <3>4, <3>5, Zenon
  <2>8. QED
    BY <2>2, <2>5, <2>6, <2>7, Zenon
<1>3. CASE ~Fits(s, Len(b))
  <2>1. t.errc = "NotEnoughData"
    BY <1>3 DEF Write, Failed, Streams
  <2>2. QED
    BY <2>1 DEF Exact
<1>4. QED
  BY <1>2, <1>3

(* A tuple of byte sequences is a sequence of them.                        *)
LEMMA Seq4 ==
  ASSUME NEW S,
         NEW a \in S, NEW b \in S, NEW c \in S, NEW d \in S
  PROVE  <<a, b, c, d>> \in Seq(S)
  OBVIOUS

(* A tuple of byte sequences is a sequence of them.                        *)
LEMMA Seq5 ==
  ASSUME NEW S,
         NEW a \in S, NEW b \in S, NEW c \in S, NEW d \in S, NEW e \in S
  PROVE  <<a, b, c, d, e>> \in Seq(S)
  OBVIOUS

(* A tuple of byte sequences is a sequence of them.                        *)
LEMMA Seq9 ==
  ASSUME NEW S,
         NEW a \in S, NEW b \in S, NEW c \in S, NEW d \in S, NEW e \in S,
         NEW f \in S, NEW g \in S, NEW h \in S, NEW j \in S
  PROVE  <<a, b, c, d, e, f, g, h, j>> \in Seq(S)
  OBVIOUS

(* A tuple of byte sequences is a sequence of them.                        *)
LEMMA Seq12 ==
  ASSUME NEW S,
         NEW a \in S, NEW b \in S, NEW c \in S, NEW d \in S, NEW e \in S,
         NEW f \in S, NEW g \in S, NEW h \in S, NEW j \in S, NEW k \in S,
         NEW l \in S, NEW m \in S
  PROVE  <<a, b, c, d, e, f, g, h, j, k, l, m>> \in Seq(S)
  OBVIOUS

(* The fields of a packet are byte sequences.                              *)
LEMMA FieldsBytes ==
  ASSUME NEW p \in Packet
  PROVE  Fields(p) \in Seq(Bytes) /\ Size(p) \in Nat
<1>1. CASE p \in Icmp
  <2>1. U8(p.type) \in Bytes /\ U8(p.code) \in Bytes /\ U16(p.checksum) \in Bytes
    <3>1. p.type \in Nat /\ p.code \in Nat /\ p.checksum \in Nat
      BY <1>1 DEF Icmp, Byte, Word16
    <3>2. QED
      BY <3>1, EncodedBytes, Zenon
  <2>2. p.rest \in Bytes /\ p.payload \in Bytes /\ p.kind = "icmp"
    BY <1>1, AddressBytes DEF Icmp
  <2>3. IcmpFields(p) \in Seq(Bytes)
    BY <2>1, <2>2, Seq5, Zenon DEF IcmpFields
  <2>4. Fields(p) = IcmpFields(p) /\ Size(p) = 8 + Len(p.payload)
    BY <2>2 DEF Fields, Size
  <2>5. QED
    BY <2>2, <2>3, <2>4 DEF Bytes
<1>2. CASE p \in Ip
  <2> DEFINE vi == p.version * 16 + p.ihl
             de == p.dscp * 4 + p.ecn
             hi == p.flags * 32 + ((p.fragment_offset \div 256) % 32)
  <2>1. vi \in Nat /\ de \in Nat /\ hi \in Nat
    BY <1>2 DEF Ip
  <2>2. U8(vi) \in Bytes /\ U8(de) \in Bytes /\ U8(hi) \in Bytes
    BY <2>1, EncodedBytes
  <2>3. /\ U16(p.total_length) \in Bytes /\ U16(p.identification) \in Bytes
        /\ U8(p.fragment_offset) \in Bytes /\ U8(p.ttl) \in Bytes
        /\ U8(p.protocol) \in Bytes /\ U16(p.checksum) \in Bytes
    <3>1. /\ p.total_length \in Nat /\ p.identification \in Nat
          /\ p.fragment_offset \in Nat /\ p.ttl \in Nat /\ p.protocol \in Nat
          /\ p.checksum \in Nat
      BY <1>2 DEF Ip, Byte, Word16
    <3>2. QED
      BY <3>1, EncodedBytes, Zenon
  <2>4. p.src \in Bytes /\ p.dst \in Bytes /\ p.payload \in Bytes /\ p.kind = "ip"
    BY <1>2, AddressBytes DEF Ip
  <2>5. Fields(p) = IpFields(p) /\ Size(p) = 20 + Len(p.payload)
    BY <2>4 DEF Fields, Size
  <2>6. IpFields(p) \in Seq(Bytes)
    <3> DEFINE a == U8(vi)
               b == U8(de)
               c == U8(hi)
               tuple == <<a, b, U16(p.total_length), U16(p.identification), c,
                          U8(p.fragment_offset), U8(p.ttl), U8(p.protocol),
                          U16(p.checksum), p.src, p.dst, p.payload>>
    <3>1. IpFields(p) = tuple
      BY DEF IpFields
    <3>2. a \in Bytes /\ b \in Bytes /\ c \in Bytes
      BY <2>2
    <3> HIDE DEF a, b, c
    <3>3. tuple \in Seq(Bytes)
      BY <2>3, <2>4, <3>2, Seq12, Zenon
    <3> HIDE DEF tuple
    <3>4. QED
      BY <3>1, <3>3
  <2>7. QED
    BY <2>4, <2>5, <2>6 DEF Bytes
<1>3. CASE p \in Arp
  <2>1. /\ U16(1) \in Bytes /\ U16(2048) \in Bytes /\ U8(6) \in Bytes /\ U8(4) \in Bytes
        /\ U16(p.oper) \in Bytes
    <3>1. /\ 1 \in Nat /\ 2048 \in Nat /\ 6 \in Nat /\ 4 \in Nat
          /\ p.oper \in Nat
      BY <1>3 DEF Arp, Word16
    <3>2. QED
      BY <3>1, EncodedBytes
  <2>2. /\ p.sha \in Bytes /\ p.spa \in Bytes /\ p.tha \in Bytes /\ p.tpa \in Bytes
        /\ p.kind = "arp"
    BY <1>3, AddressBytes DEF Arp
  <2>3. ArpFields(p) \in Seq(Bytes)
    BY <2>1, <2>2, Seq9 DEF ArpFields
  <2>4. Fields(p) = ArpFields(p) /\ Size(p) = 28
    BY <2>2 DEF Fields, Size
  <2>5. QED
    BY <2>3, <2>4
<1>4. CASE p \in EthernetFrame
  <2>1. U16(p.ethertype) \in Bytes
    <3>1. p.ethertype \in Nat
      BY <1>4 DEF EthernetFrame, Word16
    <3>2. QED
      BY <3>1, EncodedBytes, Zenon
  <2>2. p.dst \in Bytes /\ p.src \in Bytes /\ p.payload \in Bytes /\ p.kind = "eth"
    BY <1>4, AddressBytes DEF EthernetFrame
  <2>3. EthFields(p) \in Seq(Bytes)
    BY <2>1, <2>2, Seq4, Zenon DEF EthFields
  <2>4. Fields(p) = EthFields(p) /\ Size(p) = 14 + Len(p.payload)
    BY <2>2 DEF Fields, Size
  <2>5. QED
    BY <2>2, <2>3, <2>4 DEF Bytes
<1>5. QED
  BY <1>1, <1>2, <1>3, <1>4 DEF Packet

-----------------------------------------------------------------------------
(* What the answers are.                                                   *)

(* A checksum can be stored in a packet that has one.                      *)
LEMMA ChecksumStored ==
  ASSUME NEW p \in Icmp \cup Ip, NEW n \in Nat
  PROVE  /\ [p EXCEPT !.checksum = Complement(n)] \in Icmp \cup Ip
         /\ [p EXCEPT !.checksum = Complement(n)].kind = p.kind
<1>1. Complement(n) \in Word16
  BY DEF Complement, Word16
<1> HIDE DEF Complement
<1>2. CASE p \in Icmp
  BY <1>1, <1>2 DEF Icmp
<1>3. CASE p \in Ip
  BY <1>1, <1>3 DEF Ip
<1>4. QED
  BY <1>2, <1>3

(* The answers to an echo, to an Ip and to an Arp are packets.             *)
LEMMA AnswerPackets ==
  /\ \A p \in Icmp : [p EXCEPT !.type = EchoReply] \in Icmp
  /\ \A p \in Ip, b \in Bytes : clone_as_response(p, b) \in Ip
  /\ \A p \in Arp, b \in MAC : copy_as_response(p, b) \in Arp
<1>1. ASSUME NEW p \in Icmp PROVE [p EXCEPT !.type = EchoReply] \in Icmp
  BY DEF Icmp, EchoReply, Byte
<1>2. ASSUME NEW p \in Ip, NEW b \in Bytes PROVE clone_as_response(p, b) \in Ip
  <2>1. Size(p) % 65536 \in Word16
    <3>1. Size(p) \in Nat
      BY FieldsBytes DEF Packet
    <3>2. QED
      BY <3>1 DEF Word16
  <2>2. 64 \in Byte /\ p.src \in IPv4 /\ p.dst \in IPv4
    BY DEF Byte, Ip
  <2> DEFINE n == Size(p) % 65536
             q1 == [p EXCEPT !.payload = b]
             q2 == [q1 EXCEPT !.total_length = n]
             q3 == [q2 EXCEPT !.ttl = 64]
             q4 == [q3 EXCEPT !.src = p.dst]
             q5 == [q4 EXCEPT !.dst = p.src]
  <2>3. clone_as_response(p, b) =
          [p EXCEPT !.payload = b, !.total_length = n, !.ttl = 64,
                    !.src = p.dst, !.dst = p.src]
    BY DEF clone_as_response
  <2>4. n \in Word16
    BY <2>1
  <2> HIDE DEF n
  <2>5. clone_as_response(p, b) = q5
    BY <2>3, Zenon
  <2>6. q1 \in Ip
    BY DEF Ip
  <2> HIDE DEF q1
  <2>7. q2 \in Ip
    BY <2>4, <2>6 DEF Ip
  <2> HIDE DEF q2
  <2>8. q3 \in Ip
    BY <2>2, <2>7 DEF Ip
  <2> HIDE DEF q3
  <2>9. q4 \in Ip
    BY <2>2, <2>8 DEF Ip
  <2> HIDE DEF q4
  <2>10. q5 \in Ip
    BY <2>2, <2>9 DEF Ip
  <2> HIDE DEF q5
  <2>11. QED
    BY <2>5, <2>10
<1>3. ASSUME NEW p \in Arp, NEW b \in MAC PROVE copy_as_response(p, b) \in Arp
  <2>1. 2 \in Word16 /\ p.sha \in MAC /\ p.spa \in IPv4 /\ p.tpa \in IPv4
    BY DEF Word16, Arp
  <2> DEFINE q1 == [p EXCEPT !.oper = 2]
             q2 == [q1 EXCEPT !.sha = b]
             q3 == [q2 EXCEPT !.spa = p.tpa]
             q4 == [q3 EXCEPT !.tha = p.sha]
             q5 == [q4 EXCEPT !.tpa = p.spa]
  <2>2. copy_as_response(p, b) = q5
    BY Zenon DEF copy_as_response
  <2>3. q1 \in Arp
    BY <2>1 DEF Arp
  <2> HIDE DEF q1
  <2>4. q2 \in Arp
    BY <2>3 DEF Arp
  <2> HIDE DEF q2
  <2>5. q3 \in Arp
    BY <2>1, <2>4 DEF Arp
  <2> HIDE DEF q3
  <2>6. q4 \in Arp
    BY <2>1, <2>5 DEF Arp
  <2> HIDE DEF q4
  <2>7. q5 \in Arp
    BY <2>1, <2>6 DEF Arp
  <2> HIDE DEF q5
  <2>8. QED
    BY <2>2, <2>7
<1>4. QED
  BY <1>1, <1>2, <1>3

(* The kind of a packet tells which it is.                                 *)
LEMMA Kinds ==
  ASSUME NEW p \in Packet
  PROVE  /\ p.kind = "icmp" <=> p \in Icmp
         /\ p.kind = "ip" <=> p \in Ip
  BY DEF Packet, Icmp, Ip, Arp, EthernetFrame

(* A new stream over a zeroed buffer holds nothing yet.                    *)
LEMMA NewStream ==
  ASSUME NEW n \in Nat
  PROVE  LET s == Stream(Buffer(n)) IN
         s \in Streams /\ s.cursor <= Len(s.buffer) /\ Exact(s, <<>>) /\ Len(s.buffer) = n
<1>1. /\ Buffer(n) \in Seq(Byte) /\ Len(Buffer(n)) = n
      /\ \A k \in 1..n : Buffer(n)[k] = 0
  BY BufferBytes DEF Bytes
<1> HIDE DEF Buffer
<1>2. QED
  BY <1>1 DEF Stream, Streams, Exact

(* Rounding up gives an even number.                                       *)
LEMMA PaddedEven ==
  ASSUME NEW n \in Nat
  PROVE  Padded(n) \in Nat /\ Padded(n) % 2 = 0
  BY DEF Padded

(* Two bytes make a word.                                                  *)
LEMMA TwoBytes ==
  ASSUME NEW a \in Byte, NEW b \in Byte
  PROVE  a * 256 + b \in Word16
<1>1. a \in Nat /\ b \in Nat /\ a <= 255 /\ b <= 255
  BY DEF Byte
<1>2. QED
  BY <1>1 DEF Word16

(* Below an even number there is room for two after every even one.        *)
LEMMA EvenRoom ==
  ASSUME NEW a \in Nat, NEW b \in Nat, a % 2 = 0, b % 2 = 0, a < b
  PROVE  a + 2 <= b
  OBVIOUS

(* How the accumulator stands to the plain sum.                            *)
Congruent(a, t) == /\ a <= 65535
                   /\ a % 65535 = t % 65535
                   /\ a = 0 <=> t = 0

(* One turn of the checksum loop adds a word in one's complement.          *)
LEMMA CarryCongruent ==
  ASSUME NEW a \in Nat, NEW t \in Nat, NEW w \in Word16, Congruent(a, t)
  PROVE  AddCarry(a, w) \in Nat /\ Congruent(AddCarry(a, w), t + w)
<1> USE DEF Congruent
<1>1. w \in Nat /\ w <= 65535
  BY DEF Word16
<1>2. CASE a + w > 65535
  <2>1. AddCarry(a, w) = a + w - 65535
    BY <1>1, <1>2 DEF AddCarry
  <2>2. QED
    BY <1>1, <1>2, <2>1
<1>3. CASE ~(a + w > 65535)
  <2>1. AddCarry(a, w) = a + w
    BY <1>1, <1>3 DEF AddCarry
  <2>2. QED
    BY <1>1, <1>3, <2>1
<1>4. QED
  BY <1>2, <1>3

-----------------------------------------------------------------------------
(* The inductive invariant.                                                *)

(* The types, of the variables TypeOK leaves out too.                      *)
Typed ==
  /\ TypeOK
  /\ req \in Requests /\ frame \in EthernetFrame /\ pkt \in Packet
  /\ todo \in Seq(Bytes)
  /\ decoding \in {"icmp", "ip", "arp", "eth"} /\ got \in Seq(Bytes)

(* Only an Icmp or an Ip is summed, and only for an echo request.          *)
Layered ==
  /\ use = "sum" => pkt \in Icmp \cup Ip
  /\ pkt \in Icmp \cup Ip => req.kind = "echo"

(* StreamExact.                                                            *)
Filling ==
  /\ os.cursor <= Len(os.buffer)
  /\ pc = "write" => Exact(os, asked)

(* The loop takes whole words, of a buffer rounded up to an even size.     *)
Summing ==
  /\ pc = "write" /\ use = "sum" => Len(os.buffer) % 2 = 0
  /\ pc = "sum" => /\ use = "sum"
                   /\ Len(os.buffer) % 2 = 0 /\ i % 2 = 0
                   /\ Congruent(acc, total)

(* Which descriptors are open, by where try_new() is.                      *)
Opened ==
  fds = CASE pc = "open" -> {}
          [] pc = "mtu" -> {"tun", "sock"}
          [] pc \in {"none", "aborted"} -> fds \ {"sock"}
          [] OTHER -> {"tun"}

IInv == Typed /\ Layered /\ Filling /\ Summing /\ Opened

(* The parts of a request are packets.                                     *)
LEMMA RequestPackets ==
  ASSUME NEW r \in Requests
  PROVE  /\ r.eth \in EthernetFrame
         /\ r.kind = "echo" => r.icmp \in Icmp /\ r.ip \in Ip
         /\ r.kind = "arp" => r.arp \in Arp
  BY NicAssumption

(* The initial state: an empty stream.                                     *)
LEMMA InitIInv == Init => IInv
<1> SUFFICES ASSUME Init PROVE IInv
  OBVIOUS
<1>1. Stream(<<>>) \in Streams /\ Len(Stream(<<>>).buffer) = 0 /\ Stream(<<>>).cursor = 0
  BY DEF Stream, Streams
<1>2. req.eth \in EthernetFrame
  BY RequestPackets DEF Init
<1>3. Typed
  <2>1. TypeOK
    BY <1>1 DEF Init, TypeOK, Bytes
  <2>2. QED
    BY <1>2, <2>1 DEF Init, Typed, Packet, Bytes
<1>4. Layered
  BY <1>2 DEF Init, Layered, EthernetFrame, Icmp, Ip
<1>5. Filling /\ Summing /\ Opened
  BY <1>1 DEF Init, Filling, Summing, Opened
<1>6. QED
  BY <1>3, <1>4, <1>5 DEF IInv

(* What Begin() leaves behind.                                             *)
LEMMA BeginStream ==
  ASSUME NEW p \in Packet, NEW size \in Nat, NEW u \in {"sum", "payload", "wire"},
         pc' = "write", pkt' = p, use' = u, os' = Stream(Buffer(size)),
         todo' = Fields(p), asked' = <<>>
  PROVE  /\ pkt' \in Packet /\ use' = u /\ pc' = "write"
         /\ os' \in Streams /\ Len(os'.buffer) = size /\ Filling'
         /\ todo' \in Seq(Bytes) /\ asked' \in Bytes
<1>1. /\ Stream(Buffer(size)) \in Streams /\ Len(Stream(Buffer(size)).buffer) = size
      /\ Stream(Buffer(size)).cursor <= Len(Stream(Buffer(size)).buffer)
      /\ Exact(Stream(Buffer(size)), <<>>)
  BY NewStream
<1>2. Fields(p) \in Seq(Bytes)
  BY FieldsBytes
<1>3. os' \in Streams /\ Len(os'.buffer) = size /\ os'.cursor <= Len(os'.buffer)
  BY <1>1
<1>4. Exact(os', asked')
  BY <1>1
<1>5. Filling'
  BY <1>3, <1>4 DEF Filling, Exact
<1>6. QED
  BY <1>2, <1>3, <1>5 DEF Bytes

-----------------------------------------------------------------------------
(* The actions, one lemma each where there is something to say.            *)

(* try_new() touches no stream.                                            *)
LEMMA TryNewIInv == ASSUME IInv, try_new PROVE IInv'
<1> USE DEF answer, output, loop, input
<1>1. pc \in {"open", "tunsetiff", "mac", "socket", "mtu"} /\ pc' # "write" /\ pc' # "sum"
  BY DEF try_new, OpenTun, SetIff, system_addr, OpenSocket, GetMtu, Goto
<1>2. UNCHANGED <<req, frame, pkt, use, os, todo, asked, acc, i, total, wire,
                  decoding, is, got>>
  BY DEF try_new, OpenTun, SetIff, system_addr, OpenSocket, GetMtu
<1>3. pc' \in {"tunsetiff", "mac", "socket", "mtu", "idle", "none", "aborted"}
  BY DEF try_new, OpenTun, SetIff, system_addr, OpenSocket, GetMtu, Goto
<1>4. mtu' \in MTUs \cup {0}
  BY DEF IInv, Typed, TypeOK, try_new, OpenTun, SetIff, system_addr, OpenSocket, GetMtu
<1>5. own_mac' \in {HwAddr, NoMac} \cup AnyMac
  BY DEF IInv, Typed, TypeOK, try_new, OpenTun, SetIff, system_addr, OpenSocket, GetMtu
<1>6. Opened' /\ fds' \subseteq {"tun", "sock"}
  <2>1. CASE OpenTun
    BY <2>1 DEF IInv, Opened, OpenTun, Goto
  <2>2. CASE SetIff
    BY <2>2 DEF IInv, Opened, SetIff, Goto
  <2>3. CASE system_addr
    BY <2>3 DEF IInv, Opened, system_addr, Goto
  <2>4. CASE OpenSocket
    BY <2>4 DEF IInv, Opened, OpenSocket, Goto
  <2>5. CASE GetMtu
    BY <2>5 DEF IInv, Opened, GetMtu, Goto
  <2>6. QED
    BY <2>1, <2>2, <2>3, <2>4, <2>5 DEF try_new
<1>7. Typed'
  BY <1>2, <1>3, <1>4, <1>5, <1>6 DEF IInv, Typed, TypeOK
<1>8. Layered'
  BY <1>2, Zenon DEF IInv, Layered
<1>9. Filling'
  BY <1>1, <1>2, Zenon DEF IInv, Filling
<1>10. Summing'
  BY <1>1, Zenon DEF Summing
<1>11. QED
  BY <1>6, <1>7, <1>8, <1>9, <1>10 DEF IInv

(* A field is written behind the ones before it.                           *)
LEMMA WriteFieldIInv == ASSUME IInv, WriteField PROVE IInv'
<1>1. /\ pc = "write" /\ todo # <<>> /\ pc' = pc
      /\ os' = Write(os, Head(todo)) /\ todo' = Tail(todo) /\ asked' = asked \o Head(todo)
      /\ UNCHANGED <<fds, mtu, own_mac, req, frame, pkt, use, acc, i, total, wire,
                     decoding, is, got>>
  BY DEF WriteField, device, answer, loop, input
<1>2. Head(todo) \in Bytes /\ Tail(todo) \in Seq(Bytes)
  <2>1. todo \in Seq(Bytes)
    BY DEF IInv, Typed
  <2>2. QED
    BY <1>1, <2>1
<1>3. os \in Streams /\ asked \in Bytes /\ os.cursor <= Len(os.buffer) /\ Exact(os, asked)
  BY <1>1 DEF IInv, Typed, TypeOK, Filling
<1>4. /\ os' \in Streams /\ Len(os'.buffer) = Len(os.buffer)
      /\ os'.cursor <= Len(os'.buffer)
  BY <1>1, <1>2, <1>3, WriteStream
<1>5. Exact(os', asked')
  BY <1>1, <1>2, <1>3, WriteExact
<1>6. asked' \in Bytes
  BY <1>1, <1>2, <1>3 DEF Bytes
<1>7. Filling'
  BY <1>4, <1>5 DEF Filling, Exact
<1>8. Typed'
  BY <1>1, <1>2, <1>4, <1>6 DEF IInv, Typed, TypeOK
<1>9. Layered'
  BY <1>1, Zenon DEF IInv, Layered
<1>10. Summing'
  BY <1>1, <1>4, Zenon DEF IInv, Summing
<1>11. Opened'
  BY <1>1 DEF IInv, Opened
<1>12. QED
  BY <1>7, <1>8, <1>9, <1>10, <1>11 DEF IInv

(* A packet is begun: a new stream, large enough to be summed if that is   *)
(* what it is for.                                                         *)
LEMMA BeginIInv ==
  ASSUME IInv, NEW p \in Packet, NEW size \in Nat, NEW u \in {"sum", "payload", "wire"},
         pc \in {"idle", "write", "sum"}, frame' \in EthernetFrame,
         pc' = "write", pkt' = p, use' = u, os' = Stream(Buffer(size)),
         todo' = Fields(p), asked' = <<>>,
         UNCHANGED <<fds, mtu, own_mac, req, acc, i, total, wire, decoding, is, got>>,
         u = "sum" => p \in Icmp \cup Ip /\ size % 2 = 0,
         p \in Icmp \cup Ip => req.kind = "echo"
  PROVE  IInv'
<1>1. /\ pkt' \in Packet /\ use' = u /\ pc' = "write"
      /\ os' \in Streams /\ Len(os'.buffer) = size /\ Filling'
      /\ todo' \in Seq(Bytes) /\ asked' \in Bytes
  BY BeginStream
<1>2. Typed'
  <2>1. TypeOK'
    BY <1>1 DEF IInv, Typed, TypeOK
  <2>2. QED
    BY <1>1, <2>1 DEF IInv, Typed
<1>3. Layered'
  BY Zenon DEF Layered
<1>4. Summing'
  BY <1>1 DEF Summing
<1>5. Opened'
  BY DEF IInv, Opened
<1>6. QED
  BY <1>1, <1>2, <1>3, <1>4, <1>5 DEF IInv

(* The frame of an answer is one, whatever its source address.             *)
LEMMA ResponseFrame ==
  ASSUME IInv, NEW type \in Word16, NEW size \in Nat, EthResponse(type, size)
  PROVE  frame' \in EthernetFrame
<1>1. PICK src \in IF own_mac = NoMac THEN AnyMac ELSE {own_mac} :
        frame' = [kind |-> "eth", dst |-> req.eth.src, src |-> src,
                  ethertype |-> type, payload |-> Buffer(size)]
  BY DEF EthResponse
<1>2. src \in MAC
  <2>1. {HwAddr, NoMac} \cup AnyMac \subseteq MAC
    BY NicAssumption
  <2>2. own_mac \in {HwAddr, NoMac} \cup AnyMac
    BY DEF IInv, Typed, TypeOK
  <2>3. QED
    BY <1>1, <2>1, <2>2
<1>3. req.eth.src \in MAC
  <2>1. req.eth \in EthernetFrame
    BY RequestPackets DEF IInv, Typed
  <2>2. QED
    BY <2>1 DEF EthernetFrame
<1>4. Buffer(size) \in Bytes
  BY BufferBytes
<1>5. QED
  BY <1>1, <1>2, <1>3, <1>4 DEF EthernetFrame

(* clone_as_echo_response(): the reply is to be summed.                    *)
LEMMA EchoAnswerIInv == ASSUME IInv, EchoAnswer PROVE IInv'
<1>1. /\ pc = "idle" /\ req.kind = "echo" /\ req \in Requests /\ frame \in EthernetFrame
      /\ UNCHANGED <<fds, mtu, own_mac, req, frame, acc, i, total, wire,
                     decoding, is, got>>
  BY DEF EchoAnswer, device, answer, loop, input, IInv, Typed
<1>2. CASE req.icmp.type = EchoRequest
  <2> DEFINE p == [req.icmp EXCEPT !.type = EchoReply]
  <2>1. p \in Icmp
    BY <1>1, RequestPackets, AnswerPackets
  <2>2. /\ pc' = "write" /\ pkt' = p /\ use' = "sum"
        /\ os' = Stream(Buffer(Padded(Size(p)))) /\ todo' = Fields(p) /\ asked' = <<>>
    BY <1>2 DEF EchoAnswer, BeginChecksum, Begin
  <2> HIDE DEF p
  <2>3. p \in Packet
    BY <2>1 DEF Packet
  <2>4. Padded(Size(p)) \in Nat /\ Padded(Size(p)) % 2 = 0
    BY <2>3, FieldsBytes, PaddedEven
  <2>5. QED
    BY <1>1, <2>1, <2>2, <2>3, <2>4, BeginIInv
<1>3. CASE req.icmp.type # EchoRequest
  <2>1. pc' = "aborted" /\ UNCHANGED <<pkt, use, os, todo, asked>>
    BY <1>3 DEF EchoAnswer, output
  <2>2. Typed'
    BY <1>1, <2>1 DEF IInv, Typed, TypeOK
  <2>3. Layered'
    BY <1>1, <2>1, Zenon DEF IInv, Layered
  <2>4. Filling' /\ Summing' /\ Opened'
    BY <1>1, <2>1 DEF IInv, Filling, Summing, Opened
  <2>5. QED
    BY <2>2, <2>3, <2>4 DEF IInv
<1>4. QED
  BY <1>2, <1>3

(* The Arp answer is written to the payload of its frame.                  *)
LEMMA ArpAnswerIInv == ASSUME IInv, ArpAnswer PROVE IInv'
<1>1. /\ pc = "idle" /\ req.kind = "arp" /\ req \in Requests
      /\ UNCHANGED <<fds, mtu, own_mac, req, acc, i, total, wire, decoding, is, got>>
  BY DEF ArpAnswer, device, loop, input, IInv, Typed
<1> DEFINE p == copy_as_response(req.arp, own_mac)
<1>2. p \in Arp
  <2>1. own_mac \in MAC
    BY NicAssumption DEF IInv, Typed, TypeOK
  <2>2. QED
    BY <1>1, <2>1, RequestPackets, AnswerPackets
<1>3. /\ pc' = "write" /\ pkt' = p /\ use' = "payload" /\ os' = Stream(Buffer(28))
      /\ todo' = Fields(p) /\ asked' = <<>>
  BY DEF ArpAnswer, Begin
<1> HIDE DEF p
<1>4. frame' \in EthernetFrame
  <2>1. 2054 \in Word16 /\ 28 \in Nat
    BY DEF Word16
  <2>2. QED
    BY <2>1, ResponseFrame DEF ArpAnswer
<1>5. p \in Packet /\ p \notin Icmp \cup Ip
  BY <1>2 DEF Packet, Arp, Icmp, Ip
<1>6. QED
  BY <1>1, <1>3, <1>4, <1>5, BeginIInv

(* The checksum field is blanked; the buffer keeps its even size.          *)
LEMMA StartSumIInv == ASSUME IInv, StartSum PROVE IInv'
<1> DEFINE new == ZeroChecksum(pkt, os.buffer)
<1>1. /\ pc = "write" /\ use = "sum" /\ pc' \in {"sum", "aborted"}
      /\ os' = [os EXCEPT !.buffer = new] /\ acc' = 0 /\ i' = 0 /\ total' = 0
      /\ UNCHANGED <<fds, mtu, own_mac, req, frame, pkt, use, todo, asked, wire,
                     decoding, is, got>>
  BY DEF StartSum, Written, device, answer, input
<1>2. os \in Streams /\ os.cursor <= Len(os.buffer)
  BY DEF IInv, Typed, TypeOK, Filling
<1>3. new \in Seq(Byte) /\ Len(new) = Len(os.buffer)
  <2>1. os.buffer \in Seq(Byte) /\ Len(os.buffer) \in Nat /\ 0 \in Byte
    BY <1>2 DEF Streams, Byte
  <2>2. ASSUME NEW k \in 1..Len(os.buffer) PROVE new[k] \in Byte
    BY <2>1 DEF ZeroChecksum
  <2>3. QED
    BY <2>1, <2>2 DEF ZeroChecksum
<1> HIDE DEF new
<1>4. /\ os' \in Streams /\ Len(os'.buffer) = Len(os.buffer)
      /\ os'.cursor <= Len(os'.buffer)
  BY <1>1, <1>2, <1>3 DEF Streams
<1>5. Congruent(0, 0) /\ 0 % 2 = 0 /\ Len(os.buffer) % 2 = 0
  <2>1. Congruent(0, 0) /\ 0 % 2 = 0
    BY DEF Congruent
  <2>2. Len(os.buffer) % 2 = 0
    BY <1>1, Zenon DEF IInv, Summing
  <2>3. QED
    BY <2>1, <2>2, Zenon
<1>6. Typed'
  BY <1>1, <1>4 DEF IInv, Typed, TypeOK
<1>7. Layered'
  BY <1>1, Zenon DEF IInv, Layered
<1>8. Filling'
  BY <1>1, <1>4 DEF Filling
<1>9. Summing'
  <2>1. i' % 2 = 0 /\ Congruent(acc', total') /\ Len(os'.buffer) % 2 = 0
    BY <1>1, <1>4, <1>5, Zenon
  <2>2. QED
    BY <1>1, <2>1, Zenon DEF Summing
<1>10. Opened'
  BY <1>1 DEF IInv, Opened
<1>11. QED
  BY <1>6, <1>7, <1>8, <1>9, <1>10 DEF IInv

(* Both bytes of a word are in the buffer, and the sums stay congruent.    *)
LEMMA AddWordIInv == ASSUME IInv, AddWord PROVE IInv'
<1>1. /\ pc = "sum" /\ pc' = "sum" /\ i < Len(os.buffer) /\ i' = i + 2
      /\ acc' = AddCarry(acc, Word) /\ total' = total + Word
      /\ UNCHANGED <<fds, mtu, own_mac, req, frame, pkt, use, os, todo, asked, wire,
                     decoding, is, got>>
  BY DEF AddWord, device, answer, output, input
<1>2. /\ os \in Streams /\ i \in Nat /\ acc \in Nat /\ total \in Nat
      /\ i % 2 = 0 /\ Len(os.buffer) % 2 = 0 /\ Congruent(acc, total)
  BY <1>1, Zenon DEF IInv, Typed, TypeOK, Summing
<1>3. Word \in Word16
  <2>1. os.buffer \in Seq(Byte) /\ Len(os.buffer) \in Nat
    BY <1>2 DEF Streams
  <2>2. i + 2 <= Len(os.buffer)
    BY <1>1, <1>2, <2>1, EvenRoom, Zenon
  <2>3. os.buffer[i + 1] \in Byte /\ os.buffer[i + 2] \in Byte
    BY <1>2, <2>1, <2>2
  <2>4. QED
    BY <2>3, TwoBytes DEF Word
<1>4. acc' \in Nat /\ Congruent(acc', total')
  BY <1>1, <1>2, <1>3, CarryCongruent
<1>5. i' \in Nat /\ i' % 2 = 0 /\ total' \in Nat
  <2>1. Word \in Nat
    BY <1>3 DEF Word16
  <2>2. QED
    BY <1>1, <1>2, <2>1
<1>6. Typed'
  BY <1>1, <1>4, <1>5 DEF IInv, Typed, TypeOK
<1>7. Layered'
  BY <1>1, Zenon DEF IInv, Layered
<1>8. Filling'
  BY <1>1 DEF IInv, Filling
<1>9. Summing'
  BY <1>1, <1>4, <1>5, Zenon DEF IInv, Summing
<1>10. Opened'
  BY <1>1 DEF IInv, Opened
<1>11. QED
  BY <1>6, <1>7, <1>8, <1>9, <1>10 DEF IInv

(* The packet is written again, with its checksum.                         *)
LEMMA SetChecksumIInv == ASSUME IInv, SetChecksum PROVE IInv'
<1> DEFINE p == [pkt EXCEPT !.checksum = Complement(acc)]
<1>1. /\ pc = "sum" /\ acc \in Nat /\ frame \in EthernetFrame
      /\ pkt \in Icmp \cup Ip /\ pkt \in Packet /\ req.kind = "echo"
      /\ UNCHANGED <<fds, mtu, own_mac, req, acc, i, total, wire, decoding, is, got>>
  BY DEF SetChecksum, device, loop, input, IInv, Typed, TypeOK, Layered, Summing
<1>2. p \in Icmp \cup Ip
  BY <1>1, ChecksumStored
<1>3. /\ pc' = "write" /\ pkt' = p /\ use' = "payload" /\ os' = Stream(Buffer(Size(pkt)))
      /\ todo' = Fields(p) /\ asked' = <<>>
  BY DEF SetChecksum, Begin
<1> HIDE DEF p
<1>4. Size(pkt) \in Nat /\ p \in Packet
  BY <1>1, <1>2, FieldsBytes DEF Packet
<1>5. frame' \in EthernetFrame
  <2>1. CASE pkt.kind = "ip"
    <3>1. 2048 \in Word16
      BY DEF Word16
    <3>2. QED
      BY <1>4, <2>1, <3>1, ResponseFrame DEF SetChecksum
  <2>2. CASE pkt.kind # "ip"
    BY <1>1, <2>2 DEF SetChecksum
  <2>3. QED
    BY <2>1, <2>2
<1>6. QED
  BY <1>1, <1>2, <1>3, <1>4, <1>5, BeginIInv

(* An Icmp goes into its Ip, an Ip or an Arp into its frame.               *)
LEMMA PayloadWrittenIInv == ASSUME IInv, PayloadWritten PROVE IInv'
<1>1. /\ pc = "write" /\ pkt \in Packet /\ req \in Requests /\ frame \in EthernetFrame
      /\ UNCHANGED <<fds, mtu, own_mac, req, acc, i, total, wire, decoding, is, got>>
  BY DEF PayloadWritten, Written, device, loop, input, IInv, Typed
<1>2. os.buffer \in Bytes
  BY DEF IInv, Typed, TypeOK, Streams, Bytes
<1>3. CASE pkt.kind = "icmp"
  <2> DEFINE p == clone_as_response(req.ip, os.buffer)
  <2>1. req.kind = "echo"
    BY <1>1, <1>3, Kinds DEF IInv, Layered
  <2>2. p \in Ip
    BY <1>1, <1>2, <2>1, RequestPackets, AnswerPackets
  <2>3. /\ pc' = "write" /\ pkt' = p /\ use' = "sum" /\ frame' = frame
        /\ os' = Stream(Buffer(Padded(Size(p)))) /\ todo' = Fields(p) /\ asked' = <<>>
    BY <1>3 DEF PayloadWritten, BeginChecksum, Begin
  <2> HIDE DEF p
  <2>4. p \in Packet
    BY <2>2 DEF Packet
  <2>5. Padded(Size(p)) \in Nat /\ Padded(Size(p)) % 2 = 0
    BY <2>4, FieldsBytes, PaddedEven
  <2>6. QED
    BY <1>1, <2>1, <2>2, <2>3, <2>4, <2>5, BeginIInv
<1>4. CASE pkt.kind # "icmp"
  <2> DEFINE p == [frame EXCEPT !.payload = os.buffer]
  <2>1. p \in EthernetFrame
    BY <1>1, <1>2 DEF EthernetFrame
  <2>2. /\ pc' = "write" /\ pkt' = p /\ use' = "wire" /\ frame' = p
        /\ os' = Stream(Buffer(mtu)) /\ todo' = Fields(p) /\ asked' = <<>>
    BY <1>4 DEF PayloadWritten, BeginWire, Begin
  <2> HIDE DEF p
  <2>3. p \in Packet /\ p \notin Icmp \cup Ip
    BY <2>1, SMTT(20) DEF Packet, EthernetFrame, Icmp, Ip
  <2>4. mtu \in Nat
    BY NicAssumption DEF IInv, Typed, TypeOK
  <2>5. QED
    BY <1>1, <2>1, <2>2, <2>3, <2>4, BeginIInv
<1>5. QED
  BY <1>3, <1>4

(* The actions that leave the output alone, and do not enter its loops.    *)
LEMMA InputIInv ==
  ASSUME IInv, pc' \in {"sent", "read", "decoded", "aborted"},
         pc \notin {"open", "tunsetiff", "mac", "socket", "mtu", "none", "aborted"},
         UNCHANGED <<fds, mtu, own_mac, req, frame, pkt, use, os, todo, asked,
                     acc, i, total>>,
         wire' \in Bytes, decoding' \in {"icmp", "ip", "arp", "eth"},
         is' \in Streams, got' \in Seq(Bytes)
  PROVE  IInv'
<1>1. Typed'
  BY DEF IInv, Typed, TypeOK
<1>2. Layered'
  BY Zenon DEF IInv, Layered
<1>3. Filling'
  BY DEF IInv, Filling
<1>4. Summing'
  BY Zenon DEF Summing
<1>5. Opened'
  BY DEF IInv, Opened
<1>6. QED
  BY <1>1, <1>2, <1>3, <1>4, <1>5 DEF IInv

(* What is sent is the buffer up to the cursor, or nothing.                *)
LEMMA WireWrittenIInv == ASSUME IInv, WireWritten PROVE IInv'
<1>1. /\ pc = "write" /\ pc' = "sent"
      /\ wire' = SubSeq(os.buffer, 1, os.cursor) \/ wire' = wire
      /\ UNCHANGED <<fds, mtu, own_mac, req, frame, pkt, use, os, todo, asked,
                     acc, i, total, decoding, is, got>>
  BY DEF WireWritten, Written, device, answer, output, loop, input
<1>2. wire' \in Bytes
  <2>1. os.buffer \in Seq(Byte) /\ os.cursor \in Nat /\ os.cursor <= Len(os.buffer)
    BY DEF IInv, Typed, TypeOK, Filling, Streams
  <2>2. SubSeq(os.buffer, 1, os.cursor) \in Bytes
    BY <2>1 DEF Bytes
  <2>3. wire \in Bytes
    BY DEF IInv, Typed, TypeOK
  <2>4. QED
    BY <1>1, <2>2, <2>3, Zenon
<1>3. QED
  BY <1>1, <1>2, InputIInv DEF IInv, Typed, TypeOK

(* A decoder is given bytes.                                               *)
LEMMA DecodeIInv ==
  ASSUME IInv, pc \in {"idle", "sent"}, NEW bytes \in Bytes,
         NEW kind \in {"icmp", "ip", "arp", "eth"}, Decode(kind, bytes),
         UNCHANGED <<device, answer, output, loop, wire>>
  PROVE  IInv'
<1>1. /\ pc' = "read" /\ decoding' = kind /\ is' = Stream(bytes) /\ got' = <<>>
      /\ UNCHANGED <<fds, mtu, own_mac, req, frame, pkt, use, os, todo, asked,
                     acc, i, total, wire>>
  BY DEF Decode, device, answer, output, loop
<1>2. is' \in Streams /\ got' \in Seq(Bytes)
  <2>1. bytes \in Seq(Byte)
    BY DEF Bytes
  <2>2. Stream(bytes) \in Streams
    BY <2>1 DEF Stream, Streams
  <2>3. QED
    BY <1>1, <2>2
<1>3. QED
  BY <1>1, <1>2, InputIInv DEF IInv, Typed, TypeOK

(* A frame arrives, or the read fails.                                     *)
LEMMA ReadNextIInv == ASSUME IInv, read_next_eth PROVE IInv'
<1>1. pc = "idle" /\ UNCHANGED <<device, answer, output, loop, wire>>
  BY DEF read_next_eth
<1>2. CASE pc' = "aborted" /\ UNCHANGED input
  <2>1. UNCHANGED <<fds, mtu, own_mac, req, frame, pkt, use, os, todo, asked,
                    acc, i, total, wire, decoding, is, got>>
    BY <1>1, <1>2 DEF device, answer, output, loop, input
  <2>2. QED
    BY <1>1, <1>2, <2>1, InputIInv DEF IInv, Typed, TypeOK
<1>3. ASSUME NEW n \in ReadSizes, Decode("eth", Buffer(n)) PROVE IInv'
  <2>1. Buffer(n) \in Bytes
    BY BufferBytes, NicAssumption
  <2>2. QED
    BY <1>1, <1>3, <2>1, DecodeIInv
<1>4. QED
  BY <1>2, <1>3 DEF read_next_eth

(* The receiver gets a part of the frame.                                  *)
LEMMA ReceiveIInv == ASSUME IInv, Receive PROVE IInv'
<1>1. /\ pc = "sent" /\ UNCHANGED <<device, answer, output, loop, wire>>
      /\ wire \in Seq(Byte) /\ ReadSizes \subseteq Nat
  BY NicAssumption DEF Receive, IInv, Typed, TypeOK, Bytes
<1>2. ASSUME NEW n \in ReadSizes, 14 + n <= Len(wire),
             Decode(IF req.kind = "arp" THEN "arp" ELSE "ip", SubSeq(wire, 15, 14 + n))
      PROVE  IInv'
  <2>1. SubSeq(wire, 15, 14 + n) \in Bytes
    BY <1>1, <1>2 DEF Bytes
  <2>2. CASE req.kind = "arp"
    BY <1>1, <1>2, <2>1, <2>2, DecodeIInv
  <2>3. CASE req.kind # "arp"
    BY <1>1, <1>2, <2>1, <2>3, DecodeIInv
  <2>4. QED
    BY <2>2, <2>3
<1>3. ASSUME NEW n \in ReadSizes, 34 + n <= Len(wire),
             Decode("icmp", SubSeq(wire, 35, 34 + n))
      PROVE  IInv'
  <2>1. SubSeq(wire, 35, 34 + n) \in Bytes
    BY <1>1, <1>3 DEF Bytes
  <2>2. QED
    BY <1>1, <1>3, <2>1, DecodeIInv
<1>4. QED
  BY <1>2, <1>3 DEF Receive

(* A field is taken from the stream, or found missing.                     *)
LEMMA ReadFieldIInv == ASSUME IInv, ReadField PROVE IInv'
<1> DEFINE size == Widths(decoding)[Len(got) + 1]
<1>1. /\ pc = "read" /\ pc' = "read" /\ Len(got) < Len(Widths(decoding))
      /\ got' = Append(got, Taken(is, size)) /\ is' = Advance(is, size)
      /\ UNCHANGED <<fds, mtu, own_mac, req, frame, pkt, use, os, todo, asked,
                     acc, i, total, wire, decoding>>
  BY DEF ReadField, device, answer, output, loop
<1>2. /\ is \in Streams /\ got \in Seq(Bytes) /\ decoding \in {"icmp", "ip", "arp", "eth"}
  BY DEF IInv, Typed, TypeOK
<1>3. size \in Nat
  <2>1. Widths(decoding) \in Seq(Nat)
    BY <1>2 DEF Widths
  <2>2. Len(got) \in Nat
    BY <1>2
  <2>3. QED
    BY <1>1, <2>1, <2>2
<1> HIDE DEF size
<1>4. is.buffer \in Seq(Byte) /\ is.cursor \in Nat
  BY <1>2 DEF Streams
<1>5. Taken(is, size) \in Bytes
  BY <1>3, <1>4 DEF Taken, Fits, Bytes
<1>6. is' \in Streams
  <2>1. CASE Fits(is, size)
    <3>1. is.cursor + size \in Nat
      BY <1>3, <1>4
    <3>2. is' = [is EXCEPT !.cursor = is.cursor + size]
      BY <1>1, <2>1 DEF Advance
    <3>3. QED
      BY <1>2, <3>1, <3>2 DEF Streams
  <2>2. CASE ~Fits(is, size)
    BY <1>1, <1>2, <2>2 DEF Advance, Failed, Streams
  <2>3. QED
    BY <2>1, <2>2
<1>7. got' \in Seq(Bytes)
  BY <1>1, <1>2, <1>5
<1>8. QED
  BY <1>1, <1>2, <1>6, <1>7, InputIInv DEF IInv, Typed, TypeOK

(* The last assertions of a decoder.                                       *)
LEMMA FinishDecodeIInv == ASSUME IInv, FinishDecode PROVE IInv'
<1>1. /\ pc = "read" /\ pc' \in {"decoded", "aborted"}
      /\ UNCHANGED <<fds, mtu, own_mac, req, frame, pkt, use, os, todo, asked,
                     acc, i, total, wire, decoding, is, got>>
  BY DEF FinishDecode, device, answer, output, loop, input
<1>2. QED
  BY <1>1, InputIInv DEF IInv, Typed, TypeOK

-----------------------------------------------------------------------------
(* The theorems.                                                           *)

(* Every step keeps the inductive invariant.                               *)
LEMMA NextIInv == IInv /\ [Next]_vars => IInv'
<1> SUFFICES ASSUME IInv, [Next]_vars PROVE IInv'
  OBVIOUS
<1>1. CASE UNCHANGED vars
  <2> USE <1>1 DEF vars, device, answer, output, loop, input
  <2>1. Typed'
    BY SMTT(20) DEF IInv, Typed, TypeOK
  <2>2. Layered' /\ Filling' /\ Summing' /\ Opened'
    BY Zenon DEF IInv, Layered, Filling, Summing, Opened
  <2>3. QED
    BY <2>1, <2>2 DEF IInv
<1>2. CASE Next
  BY <1>2, TryNewIInv, EchoAnswerIInv, ArpAnswerIInv, ReadNextIInv, ReceiveIInv,
     WriteFieldIInv, StartSumIInv, AddWordIInv, SetChecksumIInv, PayloadWrittenIInv,
     WireWrittenIInv, ReadFieldIInv, FinishDecodeIInv DEF Next, Working
<1>3. QED
  BY <1>1, <1>2

(* Spec keeps the inductive invariant.                                     *)
LEMMA NicInvariant == Spec => []IInv
  BY InitIInv, NextIInv, PTL DEF Spec

(* Type correctness: every byte a stream holds or the device is given fits *)
(* eight bits, whatever the fields of the request.                         *)
THEOREM NicTypeCorrect == Spec => []TypeOK
<1>1. IInv => TypeOK
  BY DEF IInv, Typed
<1>2. QED
  BY NicInvariant, <1>1, PTL

(* A stream without an error holds exactly what was written, for packets   *)
(* and buffers of any size.                                                *)
THEOREM StreamExactHolds == Spec => []StreamExact
<1>1. IInv => StreamExact
  BY DEF IInv, Filling, Exact, StreamExact
<1>2. QED
  BY NicInvariant, <1>1, PTL

(* The carry-as-you-go loop computes the one's complement sum of every     *)
(* buffer that calculate_checksum() gives it.                              *)
THEOREM SumCongruentHolds == Spec => []SumCongruent
<1>1. IInv => SumCongruent
  <2>1. IInv => (pc = "sum" => Congruent(acc, total))
    BY Zenon DEF IInv, Summing
  <2>2. QED
    BY <2>1, SMT DEF Congruent, SumCongruent
<1>2. QED
  BY NicInvariant, <1>1, PTL

(* No path through try_new() keeps the socket, or hands out a Device       *)
(* without its descriptor.                                                 *)
THEOREM FdsAccountedHolds == Spec => []FdsAccounted
<1>1. IInv => FdsAccounted
  BY DEF IInv, Opened, FdsAccounted
<1>2. QED
  BY NicInvariant, <1>1, PTL

-----------------------------------------------------------------------------
(* What is on the wire. The second inductive invariant follows the fields  *)
(* of a packet through its stream into the packet around it.               *)

(* Where each field of a packet starts and, behind the last one, its end.  *)
Starts(p) == CASE p.kind = "icmp" -> <<0, 1, 2, 4, 8, Size(p)>>
               [] p.kind = "ip"   -> <<0, 1, 2, 4, 6, 7, 8, 9, 10, 12, 16, 20, Size(p)>>
               [] p.kind = "arp"  -> <<0, 2, 4, 5, 6, 8, 14, 18, 24, Size(p)>>
               [] p.kind = "eth"  -> <<0, 6, 12, 14, Size(p)>>

(* b is the first m fields of p, each in its place, and nothing else.      *)
Holds(b, p, m) ==
  /\ Len(b) = Starts(p)[m + 1]
  /\ \A k \in 1..m :
       /\ Starts(p)[k + 1] <= Len(b)
       /\ \A j \in 1..Len(Fields(p)[k]) : b[Starts(p)[k] + j] = Fields(p)[k][j]

Encodes(b, p) == Holds(b, p, Len(Fields(p)))

(* rest are the fields still to be written, all the others are in done.    *)
Partway(p, rest, done) ==
  /\ Len(rest) <= Len(Fields(p))
  /\ \A k \in 1..Len(rest) : rest[k] = Fields(p)[Len(Fields(p)) - Len(rest) + k]
  /\ Holds(done, p, Len(Fields(p)) - Len(rest))

(* p answers the Ip of r: its addresses swapped, its bit fields kept.      *)
IpAnswer(p, r) ==
  /\ p \in Ip
  /\ p.version = r.ip.version /\ p.ihl = r.ip.ihl /\ p.dscp = r.ip.dscp /\ p.ecn = r.ip.ecn
  /\ p.flags = r.ip.flags /\ p.fragment_offset = r.ip.fragment_offset
  /\ p.src = r.ip.dst /\ p.dst = r.ip.src

(* The frame f goes back to the sender of r, from the device's address.    *)
Addressed(f, r, mac) == f.dst = r.eth.src /\ (mac # NoMac => f.src = mac)

(* And its payload is the answer to r.                                     *)
Carries(f, r, mac) ==
  /\ r.kind = "echo" => \E p \in Ip : IpAnswer(p, r) /\ Encodes(f.payload, p)
  /\ r.kind = "arp" => Encodes(f.payload, copy_as_response(r.arp, mac))

(* The payload did not fit, and only that.                                 *)
Bare(s, rest, f, m, done) ==
  /\ rest = <<>> /\ m < Size(f)
  /\ s.cursor = 14 /\ \A k \in 1..14 : s.buffer[k] = done[k]

Writing == pc = "write" => Partway(pkt, todo, asked)

(* A payload fits its buffer; a frame does, or its payload alone does not. *)
Room ==
  /\ pc = "write" /\ use = "payload" => Len(os.buffer) = Size(pkt) /\ os.errc = "Ok"
  /\ pc = "write" /\ use = "wire" =>
       /\ pkt = frame /\ Len(os.buffer) = mtu
       /\ os.errc = "Ok" \/ Bare(os, todo, frame, mtu, asked)

(* What is being written, and into what.                                   *)
Answering ==
  pc \in {"write", "sum"} =>
    /\ pkt.kind = "ip" => IpAnswer(pkt, req)
    /\ pkt.kind = "arp" => req.kind = "arp" /\ pkt = copy_as_response(req.arp, own_mac)
    /\ use = "payload" => pkt.kind # "eth"
    /\ use = "payload" /\ pkt.kind # "icmp" => Addressed(frame, req, own_mac)
    /\ use = "wire" => Addressed(frame, req, own_mac) /\ Carries(frame, req, own_mac)

(* Nothing is sent before its time, and then what write_eth() was given.   *)
OnWire ==
  /\ pc \in {"idle", "write", "sum"} => mtu \in MTUs
  /\ pc \notin {"sent", "read", "decoded", "aborted"} => wire = <<>>
  /\ wire # <<>> =>
       /\ Addressed(frame, req, own_mac) /\ Carries(frame, req, own_mac)
       /\ Holds(wire, frame, IF Size(frame) <= mtu THEN 4 ELSE 3)

(* Where Arp::try_from_stream() reads its fields.                          *)
ArpAt == <<0, 2, 4, 5, 6, 8, 14, 18, 24, 28>>

(* s reads from the bytes of b behind the first 14.                        *)
Behind(s, b) == /\ 14 + Len(s.buffer) <= Len(b)
                /\ \A k \in 1..Len(s.buffer) : s.buffer[k] = b[14 + k]

(* fields are what s has been asked for so far.                            *)
TakenFrom(s, fields) ==
  /\ s.cursor = ArpAt[Len(fields) + 1] /\ s.cursor <= Len(s.buffer)
  /\ \A k \in 1..Len(fields) : fields[k] = SubSeq(s.buffer, ArpAt[k] + 1, ArpAt[k + 1])

Reading ==
  /\ pc \in {"read", "decoded"} /\ decoding = "arp" =>
       /\ req.kind = "arp" /\ Behind(is, wire) /\ Len(got) <= 9
       /\ is.errc = "Ok" => TakenFrom(is, got)
  /\ pc = "decoded" => decoding = "arp" /\ Len(got) = 9 /\ is.errc = "Ok"

WInv == Writing /\ Room /\ Answering /\ OnWire /\ Reading

-----------------------------------------------------------------------------
(* Lemmas about the layout of packets.                                     *)

(* What is encoded in a byte has one, in a word two.                       *)
LEMMA EncodedLength ==
  ASSUME NEW n \in Nat
  PROVE  Len(U8(n)) = 1 /\ Len(U16(n)) = 2
  BY DEF U8, U16

(* The starts s of the fields f of a packet of that size: each field ends  *)
(* where the next one starts.                                              *)
Laid(s, f, size) ==
  /\ Len(s) = Len(f) + 1 /\ s[1] = 0 /\ s[Len(f) + 1] = size
  /\ \A k \in 1..Len(f) + 1 : s[k] \in Nat /\ s[k] <= size
  /\ \A k \in 1..Len(f) : s[k + 1] = s[k] + Len(f[k])

(* An EthernetFrame.                                                       *)
LEMMA LaidEth ==
  ASSUME NEW f, Len(f) = 4, Len(f[1]) = 6, Len(f[2]) = 6, Len(f[3]) = 2,
         Len(f[4]) \in Nat
  PROVE  Laid(<<0, 6, 12, 14, 14 + Len(f[4])>>, f, 14 + Len(f[4]))
<1> DEFINE s == <<0, 6, 12, 14, 14 + Len(f[4])>>
<1>1. /\ Len(s) = 5 /\ s[1] = 0 /\ s[2] = 6 /\ s[3] = 12 /\ s[4] = 14
      /\ s[5] = 14 + Len(f[4])
  OBVIOUS
<1> HIDE DEF s
<1>2. \A k \in 1..5 : s[k] \in Nat /\ s[k] <= 14 + Len(f[4])
  BY <1>1
<1>3. /\ s[1 + 1] = s[1] + Len(f[1]) /\ s[2 + 1] = s[2] + Len(f[2])
      /\ s[3 + 1] = s[3] + Len(f[3]) /\ s[4 + 1] = s[4] + Len(f[4])
  BY <1>1
<1>4. \A k \in 1..4 : k = 1 \/ k = 2 \/ k = 3 \/ k = 4
  OBVIOUS
<1>5. \A k \in 1..4 : s[k + 1] = s[k] + Len(f[k])
  BY <1>3, <1>4, Zenon
<1>6. Laid(s, f, 14 + Len(f[4]))
  BY <1>1, <1>2, <1>5 DEF Laid
<1>7. QED
  BY <1>6 DEF s

(* An Icmp.                                                                *)
LEMMA LaidIcmp ==
  ASSUME NEW f, Len(f) = 5, Len(f[1]) = 1, Len(f[2]) = 1, Len(f[3]) = 2,
         Len(f[4]) = 4, Len(f[5]) \in Nat
  PROVE  Laid(<<0, 1, 2, 4, 8, 8 + Len(f[5])>>, f, 8 + Len(f[5]))
<1> DEFINE s == <<0, 1, 2, 4, 8, 8 + Len(f[5])>>
<1>1. /\ Len(s) = 6 /\ s[1] = 0 /\ s[2] = 1 /\ s[3] = 2 /\ s[4] = 4 /\ s[5] = 8
      /\ s[6] = 8 + Len(f[5])
  OBVIOUS
<1> HIDE DEF s
<1>2. \A k \in 1..6 : s[k] \in Nat /\ s[k] <= 8 + Len(f[5])
  BY <1>1
<1>3. /\ s[1 + 1] = s[1] + Len(f[1]) /\ s[2 + 1] = s[2] + Len(f[2])
      /\ s[3 + 1] = s[3] + Len(f[3]) /\ s[4 + 1] = s[4] + Len(f[4])
      /\ s[5 + 1] = s[5] + Len(f[5])
  BY <1>1
<1>4. \A k \in 1..5 : k = 1 \/ k = 2 \/ k = 3 \/ k = 4 \/ k = 5
  OBVIOUS
<1>5. \A k \in 1..5 : s[k + 1] = s[k] + Len(f[k])
  BY <1>3, <1>4, Zenon
<1>6. Laid(s, f, 8 + Len(f[5]))
  BY <1>1, <1>2, <1>5 DEF Laid
<1>7. QED
  BY <1>6 DEF s

(* An Arp.                                                                 *)
LEMMA LaidArp ==
  ASSUME NEW f, Len(f) = 9, Len(f[1]) = 2, Len(f[2]) = 2, Len(f[3]) = 1,
         Len(f[4]) = 1, Len(f[5]) = 2, Len(f[6]) = 6, Len(f[7]) = 4, Len(f[8]) = 6,
         Len(f[9]) = 4
  PROVE  Laid(<<0, 2, 4, 5, 6, 8, 14, 18, 24, 28>>, f, 28)
<1> DEFINE s == <<0, 2, 4, 5, 6, 8, 14, 18, 24, 28>>
<1>1. /\ Len(s) = 10 /\ s[1] = 0 /\ s[2] = 2 /\ s[3] = 4 /\ s[4] = 5 /\ s[5] = 6
      /\ s[6] = 8 /\ s[7] = 14 /\ s[8] = 18 /\ s[9] = 24 /\ s[10] = 28
  OBVIOUS
<1> HIDE DEF s
<1>2. \A k \in 1..10 : s[k] \in Nat /\ s[k] <= 28
  BY <1>1
<1>3. /\ s[1 + 1] = s[1] + Len(f[1]) /\ s[2 + 1] = s[2] + Len(f[2])
      /\ s[3 + 1] = s[3] + Len(f[3]) /\ s[4 + 1] = s[4] + Len(f[4])
      /\ s[5 + 1] = s[5] + Len(f[5]) /\ s[6 + 1] = s[6] + Len(f[6])
      /\ s[7 + 1] = s[7] + Len(f[7]) /\ s[8 + 1] = s[8] + Len(f[8])
      /\ s[9 + 1] = s[9] + Len(f[9])
  BY <1>1
<1>4. \A k \in 1..9 : k = 1 \/ k = 2 \/ k = 3 \/ k = 4 \/ k = 5 \/ k = 6 \/ k = 7 \/ k = 8 \/ k = 9
  OBVIOUS
<1>5. \A k \in 1..9 : s[k + 1] = s[k] + Len(f[k])
  BY <1>3, <1>4, ZenonT(30)
<1>6. Laid(s, f, 28)
  BY <1>1, <1>2, <1>5 DEF Laid
<1>7. QED
  BY <1>6 DEF s

(* An Ip.                                                                  *)
LEMMA LaidIp ==
  ASSUME NEW f, Len(f) = 12, Len(f[1]) = 1, Len(f[2]) = 1, Len(f[3]) = 2,
         Len(f[4]) = 2, Len(f[5]) = 1, Len(f[6]) = 1, Len(f[7]) = 1, Len(f[8]) = 1,
         Len(f[9]) = 2, Len(f[10]) = 4, Len(f[11]) = 4, Len(f[12]) \in Nat
  PROVE  Laid(<<0, 1, 2, 4, 6, 7, 8, 9, 10, 12, 16, 20, 20 + Len(f[12])>>, f, 20 + Len(f[12]))
<1> DEFINE s == <<0, 1, 2, 4, 6, 7, 8, 9, 10, 12, 16, 20, 20 + Len(f[12])>>
<1>1. /\ Len(s) = 13 /\ s[1] = 0 /\ s[2] = 1 /\ s[3] = 2 /\ s[4] = 4 /\ s[5] = 6
      /\ s[6] = 7 /\ s[7] = 8 /\ s[8] = 9 /\ s[9] = 10 /\ s[10] = 12 /\ s[11] = 16
      /\ s[12] = 20 /\ s[13] = 20 + Len(f[12])
  OBVIOUS
<1> HIDE DEF s
<1>2. \A k \in 1..13 : s[k] \in Nat /\ s[k] <= 20 + Len(f[12])
  BY <1>1, SMTT(20)
<1>3. /\ s[1 + 1] = s[1] + Len(f[1]) /\ s[2 + 1] = s[2] + Len(f[2])
      /\ s[3 + 1] = s[3] + Len(f[3]) /\ s[4 + 1] = s[4] + Len(f[4])
      /\ s[5 + 1] = s[5] + Len(f[5]) /\ s[6 + 1] = s[6] + Len(f[6])
      /\ s[7 + 1] = s[7] + Len(f[7]) /\ s[8 + 1] = s[8] + Len(f[8])
      /\ s[9 + 1] = s[9] + Len(f[9]) /\ s[10 + 1] = s[10] + Len(f[10])
      /\ s[11 + 1] = s[11] + Len(f[11]) /\ s[12 + 1] = s[12] + Len(f[12])
  BY <1>1
<1>4. \A k \in 1..12 : \/ k = 1 \/ k = 2 \/ k = 3 \/ k = 4 \/ k = 5 \/ k = 6
                       \/ k \in 7..12
  OBVIOUS
<1>5. \A k \in 7..12 : k = 7 \/ k = 8 \/ k = 9 \/ k = 10 \/ k = 11 \/ k = 12
  OBVIOUS
<1>6. ASSUME NEW k \in 1..12 PROVE s[k + 1] = s[k] + Len(f[k])
  <2>1. CASE k \in 7..12
    BY <1>3, <1>5, <2>1, Zenon
  <2>2. CASE k \notin 7..12
    BY <1>3, <1>4, <2>2, Zenon
  <2>3. QED
    BY <2>1, <2>2
<1>7. Laid(s, f, 20 + Len(f[12]))
  BY <1>1, <1>2, <1>6 DEF Laid
<1>8. QED
  BY <1>7 DEF s

(* size() and buffer_size() count the bytes try_to_stream() writes, and    *)
(* every field before the payload has a place of its own.                  *)
LEMMA Layout ==
  ASSUME NEW p \in Packet
  PROVE  Laid(Starts(p), Fields(p), Size(p))
<1>1. CASE p \in Icmp
  <2>1. /\ p.type \in Nat /\ p.code \in Nat /\ p.checksum \in Nat
        /\ p.rest \in Octets(4) /\ p.payload \in Bytes /\ p.kind = "icmp"
    BY <1>1 DEF Icmp, Byte, Word16
  <2>2. p.rest \in Bytes /\ Len(p.rest) = 4
    BY <2>1, AddressBytes
  <2>3. /\ U8(p.type) \in Bytes /\ U8(p.code) \in Bytes /\ U16(p.checksum) \in Bytes
        /\ Len(U8(p.type)) = 1 /\ Len(U8(p.code)) = 1 /\ Len(U16(p.checksum)) = 2
    BY <2>1, EncodedBytes, EncodedLength, Zenon
  <2>4. Laid(<<0, 1, 2, 4, 8, 8 + Len(p.payload)>>, IcmpFields(p), 8 + Len(p.payload))
    <3>1. /\ Len(IcmpFields(p)) = 5 /\ IcmpFields(p)[1] = U8(p.type)
          /\ IcmpFields(p)[2] = U8(p.code) /\ IcmpFields(p)[3] = U16(p.checksum)
          /\ IcmpFields(p)[4] = p.rest /\ IcmpFields(p)[5] = p.payload
      BY DEF IcmpFields
    <3>2. Len(p.payload) \in Nat
      BY <2>1 DEF Bytes
    <3>3. QED
      BY <2>2, <2>3, <3>1, <3>2, LaidIcmp, Zenon
  <2>5. /\ Starts(p) = <<0, 1, 2, 4, 8, Size(p)>> /\ Fields(p) = IcmpFields(p)
        /\ Size(p) = 8 + Len(p.payload)
    BY <2>1 DEF Starts, Fields, Size
  <2>6. QED
    BY <2>4, <2>5, Zenon
<1>2. CASE p \in Ip
  <2> DEFINE vi == p.version * 16 + p.ihl
             de == p.dscp * 4 + p.ecn
             hi == p.flags * 32 + ((p.fragment_offset \div 256) % 32)
  <2>1. /\ vi \in Nat /\ de \in Nat /\ hi \in Nat
    BY <1>2 DEF Ip
  <2>2. /\ p.total_length \in Nat /\ p.identification \in Nat
        /\ p.fragment_offset \in Nat /\ p.ttl \in Nat /\ p.protocol \in Nat
        /\ p.checksum \in Nat
    BY <1>2 DEF Ip, Byte, Word16
  <2>3. p.src \in IPv4 /\ p.dst \in IPv4 /\ p.payload \in Bytes /\ p.kind = "ip"
    BY <1>2 DEF Ip
  <2>4. p.src \in Bytes /\ Len(p.src) = 4 /\ p.dst \in Bytes /\ Len(p.dst) = 4
    BY <2>3, AddressBytes
  <2> DEFINE a == U8(vi)
             b == U8(de)
             c == U8(hi)
  <2>5. IpFields(p) = <<a, b, U16(p.total_length), U16(p.identification), c,
                        U8(p.fragment_offset), U8(p.ttl), U8(p.protocol),
                        U16(p.checksum), p.src, p.dst, p.payload>>
    BY DEF IpFields
  <2> HIDE DEF vi, de, hi
  <2>6. /\ a \in Bytes /\ b \in Bytes /\ c \in Bytes
        /\ Len(a) = 1 /\ Len(b) = 1 /\ Len(c) = 1
    BY <2>1, EncodedBytes, EncodedLength, Zenon
  <2>7. /\ U16(p.total_length) \in Bytes /\ U16(p.identification) \in Bytes
        /\ U8(p.fragment_offset) \in Bytes /\ U8(p.ttl) \in Bytes
        /\ U8(p.protocol) \in Bytes /\ U16(p.checksum) \in Bytes
        /\ Len(U16(p.total_length)) = 2 /\ Len(U16(p.identification)) = 2
        /\ Len(U8(p.fragment_offset)) = 1 /\ Len(U8(p.ttl)) = 1
        /\ Len(U8(p.protocol)) = 1 /\ Len(U16(p.checksum)) = 2
    BY <2>2, EncodedBytes, EncodedLength, Zenon
  <2> HIDE DEF a, b, c
  <2>8. Laid(<<0, 1, 2, 4, 6, 7, 8, 9, 10, 12, 16, 20, 20 + Len(p.payload)>>,
             IpFields(p), 20 + Len(p.payload))
    <3> DEFINE f == IpFields(p)
    <3>1. /\ Len(f) = 12 /\ f[1] = a /\ f[2] = b /\ f[3] = U16(p.total_length)
          /\ f[4] = U16(p.identification) /\ f[5] = c /\ f[6] = U8(p.fragment_offset)
          /\ f[7] = U8(p.ttl) /\ f[8] = U8(p.protocol) /\ f[9] = U16(p.checksum)
          /\ f[10] = p.src /\ f[11] = p.dst /\ f[12] = p.payload
      BY <2>5
    <3>2. Len(p.payload) \in Nat
      BY <2>3 DEF Bytes
    <3> HIDE DEF f
    <3>3. Laid(<<0, 1, 2, 4, 6, 7, 8, 9, 10, 12, 16, 20, 20 + Len(f[12])>>, f,
               20 + Len(f[12]))
      BY <2>4, <2>6, <2>7, <3>1, <3>2, LaidIp, Zenon
    <3>4. QED
      BY <3>1, <3>3, Zenon DEF f
  <2>9. /\ Starts(p) = <<0, 1, 2, 4, 6, 7, 8, 9, 10, 12, 16, 20, Size(p)>>
        /\ Fields(p) = IpFields(p) /\ Size(p) = 20 + Len(p.payload)
    BY <2>3 DEF Starts, Fields, Size
  <2>10. QED
    BY <2>8, <2>9, Zenon
<1>3. CASE p \in Arp
  <2>1. /\ 1 \in Nat /\ 2048 \in Nat /\ 6 \in Nat /\ 4 \in Nat /\ p.oper \in Nat
        /\ p.sha \in MAC /\ p.spa \in IPv4 /\ p.tha \in MAC /\ p.tpa \in IPv4
        /\ p.kind = "arp"
    BY <1>3 DEF Arp, Word16
  <2>2. /\ p.sha \in Bytes /\ p.spa \in Bytes /\ p.tha \in Bytes /\ p.tpa \in Bytes
        /\ Len(p.sha) = 6 /\ Len(p.spa) = 4 /\ Len(p.tha) = 6 /\ Len(p.tpa) = 4
    BY <2>1, AddressBytes
  <2>3. /\ U16(1) \in Bytes /\ U8(6) \in Bytes /\ U8(4) \in Bytes
        /\ U16(p.oper) \in Bytes /\ Len(U16(1)) = 2
        /\ Len(U8(6)) = 1 /\ Len(U8(4)) = 1 /\ Len(U16(p.oper)) = 2
    BY <2>1, EncodedBytes, EncodedLength
  <2>4. Laid(<<0, 2, 4, 5, 6, 8, 14, 18, 24, 28>>, ArpFields(p), 28)
    <3> DEFINE f == ArpFields(p)
               ptype == U16(2048)
    <3> Len(ptype) = 2
      BY <2>1, EncodedLength
    <3>1. /\ Len(f) = 9 /\ f[1] = U16(1) /\ f[2] = ptype /\ f[3] = U8(6)
          /\ f[4] = U8(4) /\ f[5] = U16(p.oper) /\ f[6] = p.sha /\ f[7] = p.spa
          /\ f[8] = p.tha /\ f[9] = p.tpa
      <4> f = <<U16(1), ptype, U8(6), U8(4), U16(p.oper), p.sha, p.spa, p.tha, p.tpa>>
        BY DEF ArpFields
      <4> HIDE DEF f, ptype
      <4>1. Len(f) = 9
        OBVIOUS
      <4>2. f[1] = U16(1) /\ f[2] = ptype /\ f[3] = U8(6)
        OBVIOUS
      <4>3. f[4] = U8(4) /\ f[5] = U16(p.oper) /\ f[6] = p.sha
        OBVIOUS
      <4>4. f[7] = p.spa /\ f[8] = p.tha /\ f[9] = p.tpa
        OBVIOUS
      <4>5. QED
        BY <4>1, <4>2, <4>3, <4>4, Zenon
    <3> HIDE DEF f, ptype
    <3>2. Len(f[1]) = 2 /\ Len(f[2]) = 2 /\ Len(f[3]) = 1 /\ Len(f[4]) = 1 /\ Len(f[5]) = 2
      BY <2>3, <3>1, Zenon
    <3>3. Len(f[6]) = 6 /\ Len(f[7]) = 4 /\ Len(f[8]) = 6 /\ Len(f[9]) = 4
      BY <2>2, <3>1, Zenon
    <3>4. Laid(<<0, 2, 4, 5, 6, 8, 14, 18, 24, 28>>, f, 28)
      BY <3>1, <3>2, <3>3, LaidArp, Zenon
    <3>5. QED
      BY <3>4 DEF f
  <2>5. /\ Starts(p) = <<0, 2, 4, 5, 6, 8, 14, 18, 24, Size(p)>>
        /\ Fields(p) = ArpFields(p) /\ Size(p) = 28
    BY <2>1 DEF Starts, Fields, Size
  <2>6. QED
    BY <2>4, <2>5, Zenon
<1>4. CASE p \in EthernetFrame
  <2>1. /\ p.dst \in MAC /\ p.src \in MAC /\ p.ethertype \in Nat
        /\ p.payload \in Bytes /\ p.kind = "eth"
    BY <1>4 DEF EthernetFrame, Word16
  <2>2. /\ p.dst \in Bytes /\ p.src \in Bytes /\ Len(p.dst) = 6 /\ Len(p.src) = 6
    BY <2>1, AddressBytes
  <2>3. U16(p.ethertype) \in Bytes /\ Len(U16(p.ethertype)) = 2
    BY <2>1, EncodedBytes, EncodedLength, Zenon
  <2>4. Laid(<<0, 6, 12, 14, 14 + Len(p.payload)>>, EthFields(p), 14 + Len(p.payload))
    <3>1. /\ Len(EthFields(p)) = 4 /\ EthFields(p)[1] = p.dst /\ EthFields(p)[2] = p.src
          /\ EthFields(p)[3] = U16(p.ethertype) /\ EthFields(p)[4] = p.payload
      BY DEF EthFields
    <3>2. Len(p.payload) \in Nat
      BY <2>1 DEF Bytes
    <3>3. QED
      BY <2>2, <2>3, <3>1, <3>2, LaidEth, Zenon
  <2>5. /\ Starts(p) = <<0, 6, 12, 14, Size(p)>> /\ Fields(p) = EthFields(p)
        /\ Size(p) = 14 + Len(p.payload)
    BY <2>1 DEF Starts, Fields, Size
  <2>6. QED
    BY <2>4, <2>5, Zenon
<1>5. QED
  BY <1>1, <1>2, <1>3, <1>4 DEF Packet

-----------------------------------------------------------------------------
(* Field by field.                                                         *)

(* The j-th of n bytes that start behind a of them.                        *)
LEMMA Inside ==
  ASSUME NEW a \in Nat, NEW n \in Nat, NEW size \in Nat, NEW j \in 1..n, a + n <= size
  PROVE  a + j \in 1..size
  OBVIOUS

(* The next field goes behind the ones that are there.                     *)
LEMMA HoldsMore ==
  ASSUME NEW p \in Packet, NEW b \in Bytes, NEW m \in Nat, m < Len(Fields(p)),
         Holds(b, p, m)
  PROVE  Holds(b \o Fields(p)[m + 1], p, m + 1)
<1> DEFINE s == Starts(p)
           f == Fields(p)
           c == b \o f[m + 1]
<1>1. f \in Seq(Bytes) /\ Len(f) \in Nat /\ m < Len(f)
  BY FieldsBytes
<1>2. /\ \A k \in 1..Len(f) + 1 : s[k] \in Nat
      /\ \A k \in 1..Len(f) : s[k + 1] = s[k] + Len(f[k])
  BY Layout, Zenon DEF Laid
<1>3. /\ Len(b) = s[m + 1]
      /\ \A k \in 1..m : s[k + 1] <= Len(b)
      /\ \A k \in 1..m : \A j \in 1..Len(f[k]) : b[s[k] + j] = f[k][j]
  BY Zenon DEF Holds
<1>4. SUFFICES /\ Len(c) = s[m + 2]
               /\ \A k \in 1..m + 1 : /\ s[k + 1] <= Len(c)
                                      /\ \A j \in 1..Len(f[k]) : c[s[k] + j] = f[k][j]
  <2>1. (m + 1) + 1 = m + 2
    OBVIOUS
  <2>2. QED
    BY <2>1, Zenon DEF Holds
<1> HIDE DEF s, f
<1>5. b \in Seq(Byte) /\ f[m + 1] \in Seq(Byte) /\ m + 1 \in 1..Len(f) /\ Len(b) \in Nat
  BY <1>1 DEF Bytes
<1>6. /\ Len(c) = Len(b) + Len(f[m + 1]) /\ Len(f[m + 1]) \in Nat
      /\ \A k \in 1..Len(b) : c[k] = b[k]
      /\ \A k \in 1..Len(f[m + 1]) : c[Len(b) + k] = f[m + 1][k]
  BY <1>5
<1> HIDE DEF c
<1>7. Len(c) = s[m + 2]
  <2>1. s[(m + 1) + 1] = s[m + 1] + Len(f[m + 1])
    BY <1>2, <1>5, Zenon
  <2>2. (m + 1) + 1 = m + 2
    OBVIOUS
  <2>3. QED
    BY <1>3, <1>6, <2>1, <2>2, Zenon
<1>8. ASSUME NEW k \in 1..m
      PROVE  /\ s[k + 1] <= Len(c)
             /\ \A j \in 1..Len(f[k]) : c[s[k] + j] = f[k][j]
  <2>1. /\ k \in 1..Len(f) /\ k + 1 \in 1..Len(f) + 1 /\ k \in 1..Len(f) + 1
    BY <1>1
  <2>2. s[k] \in Nat /\ s[k + 1] \in Nat /\ s[k + 1] = s[k] + Len(f[k])
    BY <1>2, <2>1, Zenon
  <2>3. f[k] \in Seq(Byte) /\ Len(f[k]) \in Nat
    BY <1>1, <2>1 DEF Bytes
  <2>4. s[k + 1] <= Len(b)
    BY <1>3
  <2>5. ASSUME NEW j \in 1..Len(f[k]) PROVE c[s[k] + j] = f[k][j]
    <3>1. s[k] + j \in 1..Len(b)
      BY <1>5, <2>2, <2>3, <2>4, Inside, Zenon
    <3>2. QED
      BY <1>3, <1>6, <3>1, Zenon
  <2>6. s[k + 1] <= Len(c)
    BY <1>5, <1>6, <2>2, <2>4, SMTT(20)
  <2>7. QED
    BY <2>5, <2>6
<1>9. /\ s[(m + 1) + 1] <= Len(c)
      /\ \A j \in 1..Len(f[m + 1]) : c[s[m + 1] + j] = f[m + 1][j]
  <2>1. (m + 1) + 1 = m + 2 /\ Len(c) \in Nat
    BY <1>5, <1>6
  <2>2. s[(m + 1) + 1] = Len(c)
    BY <1>7, <2>1, Zenon
  <2>3. s[(m + 1) + 1] <= Len(c)
    BY <2>1, <2>2
  <2>4. QED
    BY <1>3, <1>6, <2>3, Zenon
<1>10. \A k \in 1..m + 1 : k \in 1..m \/ k = m + 1
  OBVIOUS
<1>11. QED
  BY <1>7, <1>8, <1>9, <1>10, Zenon

(* Begin(): nothing is written, all fields are to be.                      *)
LEMMA PartwayStart ==
  ASSUME NEW p \in Packet
  PROVE  Partway(p, Fields(p), <<>>)
<1>1. Fields(p) \in Seq(Bytes) /\ Len(Fields(p)) \in Nat
  BY FieldsBytes
<1>2. Starts(p)[1] = 0
  BY Layout, Zenon DEF Laid
<1>3. Holds(<<>>, p, 0)
  BY <1>2 DEF Holds
<1> DEFINE n == Len(Fields(p))
<1>4. n <= n /\ n - n = 0 /\ \A k \in 1..n : (n - n) + k = k
  BY <1>1
<1>5. QED
  BY <1>3, <1>4 DEF Partway

(* WriteField: one more is written. Behind it there is room for the rest.  *)
LEMMA PartwayStep ==
  ASSUME NEW p \in Packet, NEW rest \in Seq(Bytes), NEW done \in Bytes, rest # <<>>,
         Partway(p, rest, done)
  PROVE  /\ Partway(p, Tail(rest), done \o Head(rest))
         /\ Len(done) + Len(Head(rest)) = Starts(p)[Len(Fields(p)) - Len(rest) + 2]
         /\ Len(done) + Len(Head(rest)) <= Size(p)
<1> DEFINE n == Len(Fields(p))
           m == n - Len(rest)
<1>1. /\ Len(rest) \in Nat /\ Len(rest) > 0 /\ Head(rest) = rest[1] /\ Head(rest) \in Bytes
      /\ Len(Tail(rest)) = Len(rest) - 1
      /\ \A k \in 1..Len(rest) - 1 : Tail(rest)[k] = rest[k + 1]
  OBVIOUS
<1>2. n \in Nat /\ Fields(p) \in Seq(Bytes)
  BY FieldsBytes
<1>3. /\ Len(rest) <= n /\ \A k \in 1..Len(rest) : rest[k] = Fields(p)[m + k]
      /\ Holds(done, p, m)
  BY DEF Partway
<1>4. m \in Nat /\ m < n /\ n - Len(Tail(rest)) = m + 1 /\ 1 \in 1..Len(rest)
  BY <1>1, <1>2, <1>3
<1> HIDE DEF n, m
<1>5. Head(rest) = Fields(p)[m + 1]
  BY <1>1, <1>3, <1>4, Zenon
<1>6. Holds(done \o Head(rest), p, m + 1)
  <2>1. m < Len(Fields(p))
    BY <1>4 DEF n
  <2>2. QED
    BY <1>3, <1>4, <1>5, <2>1, HoldsMore, Zenon
<1>7. \A k \in 1..Len(Tail(rest)) : Tail(rest)[k] = Fields(p)[(m + 1) + k]
  <2>1. ASSUME NEW k \in 1..Len(Tail(rest)) PROVE Tail(rest)[k] = Fields(p)[(m + 1) + k]
    <3>1. k \in 1..Len(rest) - 1 /\ k + 1 \in 1..Len(rest) /\ m + (k + 1) = (m + 1) + k
      BY <1>1, <1>4
    <3>2. QED
      BY <1>1, <1>3, <3>1, Zenon
  <2>2. QED
    BY <2>1
<1>8. Len(Tail(rest)) <= n
  BY <1>1, <1>2, <1>3
<1>9. Partway(p, Tail(rest), done \o Head(rest))
  BY <1>4, <1>6, <1>7, <1>8 DEF Partway, n
<1>10. Len(done) + Len(Head(rest)) = Starts(p)[m + 2]
  <2>1. Len(done) = Starts(p)[m + 1]
    BY <1>3 DEF Holds
  <2>2. m + 1 \in 1..n /\ (m + 1) + 1 = m + 2
    BY <1>2, <1>4
  <2>3. Starts(p)[(m + 1) + 1] = Starts(p)[m + 1] + Len(Fields(p)[m + 1])
    BY <2>2, Layout, Zenon DEF Laid, n
  <2>4. QED
    BY <1>5, <2>1, <2>2, <2>3, Zenon
<1>11. Starts(p)[m + 2] <= Size(p)
  <2>1. m + 2 \in 1..n + 1
    BY <1>2, <1>4, SMTT(20)
  <2>2. QED
    BY <2>1, Layout, Zenon DEF Laid, n
<1>12. QED
  BY <1>9, <1>10, <1>11 DEF m, n

(* A field that fits is written without an error; one that does not sets   *)
(* errc and nothing else.                                                  *)
LEMMA WriteErrc ==
  ASSUME NEW s \in Streams, NEW b \in Bytes
  PROVE  /\ Fits(s, Len(b)) => Write(s, b).errc = s.errc
         /\ ~Fits(s, Len(b)) => /\ Write(s, b).buffer = s.buffer
                                /\ Write(s, b).cursor = s.cursor
<1>1. CASE Fits(s, Len(b))
  <2> DEFINE new == [k \in 1..Len(s.buffer) |->
                       IF k \in s.cursor + 1 .. s.cursor + Len(b)
                       THEN b[k - s.cursor] ELSE s.buffer[k]]
  <2>1. Write(s, b) = [s EXCEPT !.buffer = new, !.cursor = s.cursor + Len(b)]
    BY <1>1 DEF Write
  <2> HIDE DEF new
  <2>2. QED
    BY <1>1, <2>1 DEF Streams
<1>2. CASE ~Fits(s, Len(b))
  BY <1>2 DEF Write, Failed, Streams
<1>3. QED
  BY <1>1, <1>2

(* What is known of a frame: where its payload starts.                     *)
LEMMA FrameStarts ==
  ASSUME NEW f \in EthernetFrame
  PROVE  /\ Starts(f) = <<0, 6, 12, 14, Size(f)>>
         /\ Fields(f) = <<f.dst, f.src, U16(f.ethertype), f.payload>>
         /\ Size(f) = 14 + Len(f.payload)
  BY DEF EthernetFrame, Starts, Fields, EthFields, Size

(* A sequence without an element.                                          *)
LEMMA EmptySeq ==
  ASSUME NEW S, NEW q \in Seq(S), Len(q) = 0
  PROVE  q = <<>>
  OBVIOUS

(* Two byte sequences, one behind the other.                               *)
LEMMA Joined ==
  ASSUME NEW a \in Bytes, NEW b \in Bytes
  PROVE  /\ a \o b \in Bytes /\ Len(a \o b) = Len(a) + Len(b)
         /\ Len(a) \in Nat /\ Len(b) \in Nat
         /\ \A k \in 1..Len(a) : (a \o b)[k] = a[k]
         /\ \A k \in 1..Len(b) : (a \o b)[Len(a) + k] = b[k]
  BY DEF Bytes

(* A buffer of the packet's size has room for every field.                 *)
LEMMA PayloadRoom ==
  ASSUME NEW p \in Packet, NEW s \in Streams, NEW rest \in Seq(Bytes), NEW done \in Bytes,
         rest # <<>>, Partway(p, rest, done), Exact(s, done), s.errc = "Ok",
         Len(s.buffer) = Size(p)
  PROVE  Write(s, Head(rest)).errc = "Ok"
<1>1. Len(done) + Len(Head(rest)) <= Size(p) /\ Head(rest) \in Bytes
  BY PartwayStep
<1>2. s.cursor = Len(done)
  BY Zenon DEF Exact
<1>3. Fits(s, Len(Head(rest)))
  BY <1>1, <1>2 DEF Fits
<1>4. QED
  BY <1>1, <1>3, WriteErrc, Zenon

(* A buffer of MTU bytes has room for the header, and for the payload or   *)
(* not.                                                                    *)
LEMMA FrameRoom ==
  ASSUME NEW f \in EthernetFrame, NEW s \in Streams, NEW rest \in Seq(Bytes),
         NEW done \in Bytes, NEW m \in Nat, m >= 14, Len(s.buffer) = m,
         rest # <<>>, Partway(f, rest, done), Exact(s, done), s.errc = "Ok"
  PROVE  \/ Write(s, Head(rest)).errc = "Ok"
         \/ Bare(Write(s, Head(rest)), Tail(rest), f, m, done \o Head(rest))
<1> DEFINE b == Head(rest)
           t == Write(s, b)
<1>1. /\ b \in Bytes /\ Len(rest) \in Nat /\ Len(rest) > 0 /\ Len(b) \in Nat
      /\ Tail(rest) \in Seq(Bytes) /\ Len(Tail(rest)) = Len(rest) - 1
  BY DEF Bytes
<1>2. /\ s.cursor = Len(done)
      /\ \A k \in 1..Len(s.buffer) : s.buffer[k] = IF k <= s.cursor THEN done[k] ELSE 0
  BY Zenon DEF Exact
<1>3. f \in Packet
  BY DEF Packet
<1>4. Len(done) + Len(b) = Starts(f)[Len(Fields(f)) - Len(rest) + 2]
  BY <1>3, PartwayStep, Zenon
<1>5. Len(rest) <= Len(Fields(f)) /\ Len(done) = Starts(f)[Len(Fields(f)) - Len(rest) + 1]
  BY DEF Partway, Holds
<1>6. /\ Len(Fields(f)) = 4 /\ Starts(f) = <<0, 6, 12, 14, Size(f)>>
  BY FrameStarts
<1> HIDE DEF b
<1>7. CASE Fits(s, Len(b))
  <2>1. t.errc = "Ok"
    BY <1>1, <1>7, WriteErrc, Zenon
  <2>2. QED
    BY <2>1 DEF t, b
<1>8. CASE ~Fits(s, Len(b))
  <2>1. Len(done) + Len(b) > m
    BY <1>1, <1>2, <1>8 DEF Fits, Bytes
  <2>2. Len(rest) = 1 \/ Len(rest) = 2 \/ Len(rest) = 3 \/ Len(rest) = 4
    <3>1. Len(rest) <= 4
      BY <1>5, <1>6, Zenon
    <3>2. \A n \in Nat : n > 0 /\ n <= 4 => n = 1 \/ n = 2 \/ n = 3 \/ n = 4
      OBVIOUS
    <3>3. QED
      BY <1>1, <3>1, <3>2, Zenon
  <2>3. Len(rest) = 1
    <3>1. ASSUME Len(rest) = 2 PROVE FALSE
      BY <1>4, <1>6, <2>1, <3>1
    <3>2. ASSUME Len(rest) = 3 PROVE FALSE
      BY <1>4, <1>6, <2>1, <3>2
    <3>3. ASSUME Len(rest) = 4 PROVE FALSE
      BY <1>4, <1>6, <2>1, <3>3
    <3>4. QED
      BY <2>2, <3>1, <3>2, <3>3
  <2>4. Len(done) = 14 /\ m < Size(f)
    BY <1>4, <1>5, <1>6, <2>1, <2>3
  <2>5. Tail(rest) = <<>>
    <3>1. Len(Tail(rest)) = 0
      BY <1>1, <2>3
    <3>2. QED
      BY <1>1, <3>1, EmptySeq, Zenon
  <2>6. t.buffer = s.buffer /\ t.cursor = s.cursor
    BY <1>1, <1>8, WriteErrc, Zenon
  <2> HIDE DEF t
  <2>7. ASSUME NEW k \in 1..14 PROVE t.buffer[k] = (done \o b)[k]
    <3>1. (done \o b)[k] = done[k]
      <4>1. k \in 1..Len(done)
        BY <2>4
      <4>2. QED
        BY <1>1, <4>1, Joined, Zenon
    <3>2. k \in 1..Len(s.buffer) /\ k <= s.cursor
      BY <1>2, <2>4
    <3>3. QED
      BY <1>2, <2>6, <3>1, <3>2
  <2>8. Bare(t, Tail(rest), f, m, done \o b)
    BY <1>2, <2>4, <2>5, <2>6, <2>7, ZenonT(30) DEF Bare
  <2>9. QED
    BY <2>8 DEF t, b
<1>9. QED
  BY <1>7, <1>8 DEF b

-----------------------------------------------------------------------------
(* The actions and the second invariant.                                   *)

(* The initial state: nothing is sent.                                     *)
LEMMA InitWInv == Init => WInv
  BY ZenonT(30) DEF Init, WInv, Writing, Room, Answering, OnWire, Reading

(* try_new() sends nothing, and hands out a Device with its MTU.           *)
LEMMA TryNewWInv == ASSUME IInv, WInv, try_new PROVE WInv'
<1>1. pc \in {"open", "tunsetiff", "mac", "socket", "mtu"}
  BY DEF try_new, OpenTun, SetIff, system_addr, OpenSocket, GetMtu, Goto
<1>2. pc' \in {"tunsetiff", "mac", "socket", "mtu", "idle", "none", "aborted"}
  BY DEF try_new, OpenTun, SetIff, system_addr, OpenSocket, GetMtu, Goto
<1>3. pc' = "idle" => mtu' \in MTUs
  BY DEF try_new, OpenTun, SetIff, system_addr, OpenSocket, GetMtu, Goto
<1>4. wire = <<>> /\ wire' = wire
  BY <1>1 DEF WInv, OnWire, try_new, OpenTun, SetIff, system_addr, OpenSocket, GetMtu
<1>5. QED
  BY <1>2, <1>3, <1>4 DEF WInv, Writing, Room, Answering, OnWire, Reading

(* A field is written.                                                     *)
LEMMA WriteFieldWInv == ASSUME IInv, WInv, WriteField PROVE WInv'
<1>1. /\ pc = "write" /\ todo # <<>> /\ pc' = "write"
      /\ os' = Write(os, Head(todo)) /\ todo' = Tail(todo) /\ asked' = asked \o Head(todo)
      /\ UNCHANGED <<mtu, own_mac, req, frame, pkt, use, wire, decoding, is, got>>
  BY DEF WriteField, device, answer, loop, input
<1>2. /\ todo \in Seq(Bytes) /\ pkt \in Packet /\ os \in Streams /\ asked \in Bytes
      /\ frame \in EthernetFrame /\ Exact(os, asked)
  BY <1>1 DEF IInv, Typed, TypeOK, Filling
<1>3. Partway(pkt, todo, asked)
  BY <1>1 DEF WInv, Writing
<1>4. Writing'
  <2>1. Partway(pkt, Tail(todo), asked \o Head(todo))
    BY <1>1, <1>2, <1>3, PartwayStep, Zenon
  <2>2. QED
    BY <1>1, <2>1, Zenon DEF Writing
<1>5. Room'
  <2>1. Len(os'.buffer) = Len(os.buffer)
    <3>1. Head(todo) \in Bytes
      BY <1>1, <1>2
    <3>2. QED
      BY <1>1, <1>2, <3>1, WriteStream, Zenon
  <2>2. ASSUME use = "payload" PROVE Len(os'.buffer) = Size(pkt) /\ os'.errc = "Ok"
    <3>1. Len(os.buffer) = Size(pkt) /\ os.errc = "Ok"
      BY <1>1, <2>2, Zenon DEF WInv, Room
    <3>2. QED
      BY <1>1, <1>2, <1>3, <2>1, <3>1, PayloadRoom, Zenon
  <2>3. ASSUME use = "wire"
        PROVE  /\ pkt = frame /\ Len(os'.buffer) = mtu
               /\ os'.errc = "Ok" \/ Bare(os', todo', frame, mtu, asked')
    <3>1. pkt = frame /\ Len(os.buffer) = mtu /\ os.errc = "Ok"
      <4>1. /\ pkt = frame /\ Len(os.buffer) = mtu
            /\ os.errc = "Ok" \/ Bare(os, todo, frame, mtu, asked)
        BY <1>1, <2>3, Zenon DEF WInv, Room
      <4>2. ~Bare(os, todo, frame, mtu, asked)
        BY <1>1, Zenon DEF Bare
      <4>3. QED
        BY <4>1, <4>2
    <3>2. mtu \in Nat /\ mtu >= 14
      BY <1>1, NicAssumption, ZenonT(30) DEF WInv, OnWire
    <3>3. Partway(frame, todo, asked)
      BY <1>3, <3>1
    <3>4. \/ Write(os, Head(todo)).errc = "Ok"
          \/ Bare(Write(os, Head(todo)), Tail(todo), frame, mtu, asked \o Head(todo))
      BY <1>1, <1>2, <3>1, <3>2, <3>3, FrameRoom, Zenon
    <3>5. QED
      BY <1>1, <2>1, <3>1, <3>4, Zenon
  <2>4. QED
    BY <1>1, <2>2, <2>3, Zenon DEF Room
<1>6. Answering'
  BY <1>1, Zenon DEF WInv, Answering
<1>7. OnWire'
  BY <1>1, Zenon DEF WInv, OnWire
<1>8. Reading'
  BY <1>1 DEF Reading
<1>9. QED
  BY <1>4, <1>5, <1>6, <1>7, <1>8 DEF WInv

(* A packet is begun.                                                      *)
LEMMA BeginWInv ==
  ASSUME WInv, NEW p \in Packet, NEW size \in Nat, NEW u \in {"sum", "payload", "wire"},
         pc \in {"idle", "write", "sum"},
         pc' = "write", pkt' = p, use' = u, os' = Stream(Buffer(size)),
         todo' = Fields(p), asked' = <<>>, UNCHANGED <<mtu, own_mac, req, wire>>,
         u = "payload" => size = Size(p),
         u = "wire" => p = frame' /\ size = mtu,
         p.kind = "ip" => IpAnswer(p, req),
         p.kind = "arp" => req.kind = "arp" /\ p = copy_as_response(req.arp, own_mac),
         u = "payload" => p.kind # "eth",
         u = "payload" /\ p.kind # "icmp" => Addressed(frame', req, own_mac),
         u = "wire" => Addressed(frame', req, own_mac) /\ Carries(frame', req, own_mac)
  PROVE  WInv'
<1>1. Writing'
  <2>1. Partway(p, Fields(p), <<>>)
    BY PartwayStart
  <2>2. QED
    BY <2>1, Zenon DEF Writing
<1>2. os'.errc = "Ok" /\ Len(os'.buffer) = size
  <2>1. Stream(Buffer(size)).errc = "Ok"
    BY DEF Stream
  <2>2. Len(Stream(Buffer(size)).buffer) = size
    BY NewStream, Zenon
  <2>3. QED
    BY <2>1, <2>2, Zenon
<1>3. Room'
  BY <1>2, Zenon DEF Room
<1>4. Answering'
  BY Zenon DEF Answering
<1>5. OnWire'
  <2>1. mtu \in MTUs /\ wire = <<>>
    BY DEF WInv, OnWire
  <2>2. QED
    BY <2>1 DEF OnWire
<1>6. Reading'
  BY DEF Reading
<1>7. QED
  BY <1>1, <1>3, <1>4, <1>5, <1>6 DEF WInv

(* clone_as_echo_response().                                               *)
LEMMA EchoAnswerWInv == ASSUME IInv, WInv, EchoAnswer PROVE WInv'
<1>1. /\ pc = "idle" /\ req.kind = "echo" /\ req \in Requests
      /\ UNCHANGED <<mtu, own_mac, req, frame, wire, decoding, is, got>>
  BY DEF EchoAnswer, device, answer, loop, input, IInv, Typed
<1>2. CASE req.icmp.type = EchoRequest
  <2> DEFINE p == [req.icmp EXCEPT !.type = EchoReply]
  <2>1. p \in Icmp
    BY <1>1, RequestPackets, AnswerPackets
  <2>2. /\ pc' = "write" /\ pkt' = p /\ use' = "sum"
        /\ os' = Stream(Buffer(Padded(Size(p)))) /\ todo' = Fields(p) /\ asked' = <<>>
    BY <1>2 DEF EchoAnswer, BeginChecksum, Begin
  <2> HIDE DEF p
  <2>3. p \in Packet /\ p.kind = "icmp"
    BY <2>1 DEF Packet, Icmp
  <2>4. Padded(Size(p)) \in Nat
    BY <2>3, FieldsBytes, PaddedEven, SMTT(20)
  <2>5. QED
    BY <1>1, <2>2, <2>3, <2>4, BeginWInv
<1>3. CASE req.icmp.type # EchoRequest
  <2>1. pc' = "aborted"
    BY <1>3 DEF EchoAnswer
  <2>2. wire = <<>> /\ wire' = <<>>
    BY <1>1 DEF WInv, OnWire
  <2>3. QED
    BY <2>1, <2>2 DEF WInv, Writing, Room, Answering, OnWire, Reading
<1>4. QED
  BY <1>2, <1>3

(* The frame of an answer goes back to the sender.                         *)
LEMMA ResponseAddressed ==
  ASSUME NEW type, NEW size, EthResponse(type, size)
  PROVE  Addressed(frame', req, own_mac)
<1>1. PICK src \in IF own_mac = NoMac THEN AnyMac ELSE {own_mac} :
        frame' = [kind |-> "eth", dst |-> req.eth.src, src |-> src,
                  ethertype |-> type, payload |-> Buffer(size)]
  BY DEF EthResponse
<1>2. QED
  BY <1>1 DEF Addressed

(* The Arp answer.                                                         *)
LEMMA ArpAnswerWInv == ASSUME IInv, WInv, ArpAnswer PROVE WInv'
<1>1. /\ pc = "idle" /\ req.kind = "arp" /\ req \in Requests
      /\ UNCHANGED <<mtu, own_mac, req, wire, decoding, is, got>>
  BY DEF ArpAnswer, device, loop, input, IInv, Typed
<1> DEFINE p == copy_as_response(req.arp, own_mac)
<1>2. p \in Arp
  <2>1. own_mac \in MAC
    BY NicAssumption DEF IInv, Typed, TypeOK
  <2>2. QED
    BY <1>1, <2>1, RequestPackets, AnswerPackets
<1>3. /\ pc' = "write" /\ pkt' = p /\ use' = "payload" /\ os' = Stream(Buffer(28))
      /\ todo' = Fields(p) /\ asked' = <<>>
  BY DEF ArpAnswer, Begin
<1>4. req.kind = "arp" /\ p = copy_as_response(req.arp, own_mac)
  BY <1>1
<1> HIDE DEF p
<1>5. Addressed(frame', req, own_mac)
  BY ResponseAddressed DEF ArpAnswer
<1>6. p \in Packet /\ p.kind = "arp" /\ 28 = Size(p) /\ 28 \in Nat
  BY <1>2 DEF Packet, Arp, Size
<1>7. QED
  BY <1>1, <1>3, <1>4, <1>5, <1>6, BeginWInv

(* The checksum loop goes on to write a packet only when it is done.       *)
LEMMA SumWInv == ASSUME IInv, WInv, StartSum \/ AddWord PROVE WInv'
<1>1. /\ pc \in {"write", "sum"} /\ pc' \in {"sum", "aborted"}
      /\ UNCHANGED <<mtu, own_mac, req, frame, pkt, use, wire>>
  BY ZenonT(30) DEF StartSum, AddWord, Written, device, answer, output
<1>2. wire = <<>> /\ mtu \in MTUs
  BY <1>1 DEF WInv, OnWire
<1>3. Answering'
  BY <1>1, Zenon DEF WInv, Answering
<1>4. QED
  BY <1>1, <1>2, <1>3 DEF WInv, Writing, Room, OnWire, Reading

(* A stored checksum changes neither size nor the rest of the packet.      *)
LEMMA ChecksumKeeps ==
  ASSUME NEW p \in Icmp \cup Ip, NEW n \in Nat, NEW r
  PROVE  LET q == [p EXCEPT !.checksum = Complement(n)]
         IN  Size(q) = Size(p) /\ (IpAnswer(p, r) => IpAnswer(q, r))
<1> DEFINE q == [p EXCEPT !.checksum = Complement(n)]
<1>1. q \in Icmp \cup Ip /\ q.kind = p.kind
  BY ChecksumStored
<1>2. CASE p \in Icmp
  <2>1. q.payload = p.payload /\ p.kind = "icmp" /\ p \notin Ip
    BY <1>2 DEF Icmp, Ip
  <2>2. QED
    BY <1>1, <2>1 DEF Size, IpAnswer
<1>3. CASE p \in Ip
  <2>1. /\ q.payload = p.payload /\ p.kind = "ip"
        /\ q.version = p.version /\ q.ihl = p.ihl /\ q.dscp = p.dscp /\ q.ecn = p.ecn
        /\ q.flags = p.flags /\ q.fragment_offset = p.fragment_offset
        /\ q.src = p.src /\ q.dst = p.dst
    BY <1>3 DEF Ip
  <2>2. q \in Ip
    BY <1>1, <2>1 DEF Icmp
  <2> HIDE DEF q
  <2>3. Size(q) = Size(p)
    BY <1>1, <2>1 DEF Size
  <2>4. IpAnswer(p, r) => IpAnswer(q, r)
    BY <2>1, <2>2, Zenon DEF IpAnswer
  <2>5. QED
    BY <2>3, <2>4 DEF q
<1>4. QED
  BY <1>2, <1>3

(* The packet is written again, with its checksum.                         *)
LEMMA SetChecksumWInv == ASSUME IInv, WInv, SetChecksum PROVE WInv'
<1> DEFINE p == [pkt EXCEPT !.checksum = Complement(acc)]
<1>1. /\ pc = "sum" /\ acc \in Nat /\ pkt \in Icmp \cup Ip /\ pkt \in Packet
      /\ UNCHANGED <<mtu, own_mac, req, wire, decoding, is, got>>
  BY DEF SetChecksum, device, loop, input, IInv, Typed, TypeOK, Layered, Summing
<1>2. p \in Icmp \cup Ip /\ p.kind = pkt.kind
  BY <1>1, ChecksumStored
<1>3. /\ pc' = "write" /\ pkt' = p /\ use' = "payload" /\ os' = Stream(Buffer(Size(pkt)))
      /\ todo' = Fields(p) /\ asked' = <<>>
  BY DEF SetChecksum, Begin
<1>4. Size(p) = Size(pkt) /\ (IpAnswer(pkt, req) => IpAnswer(p, req))
  BY <1>1, ChecksumKeeps
<1> HIDE DEF p
<1>5. Size(pkt) \in Nat /\ p \in Packet /\ (p.kind = "icmp" \/ p.kind = "ip")
  <2>1. p.kind = "icmp" \/ p.kind = "ip"
    BY <1>2 DEF Icmp, Ip
  <2>2. QED
    BY <1>1, <1>2, <2>1, FieldsBytes DEF Packet
<1>6. p.kind = "ip" => IpAnswer(p, req)
  BY <1>1, <1>2, <1>4 DEF WInv, Answering
<1>7. p.kind # "icmp" => Addressed(frame', req, own_mac)
  BY <1>2, <1>5, ResponseAddressed DEF SetChecksum
<1>8. QED
  BY <1>1, <1>3, <1>4, <1>5, <1>6, <1>7, BeginWInv

(* Byte sequences with the same bytes are the same.                        *)
LEMMA SameBytes ==
  ASSUME NEW a \in Bytes, NEW b \in Bytes, Len(a) = Len(b),
         \A k \in 1..Len(a) : a[k] = b[k]
  PROVE  a = b
  BY DEF Bytes

(* When all fields are written, a buffer of the packet's size holds it.    *)
LEMMA PayloadHolds ==
  ASSUME NEW p \in Packet, NEW s \in Streams, NEW done \in Bytes,
         Partway(p, <<>>, done), Exact(s, done), s.errc = "Ok", Len(s.buffer) = Size(p)
  PROVE  Encodes(s.buffer, p)
<1>1. Len(Fields(p)) \in Nat /\ Size(p) \in Nat
  BY FieldsBytes
<1>2. Holds(done, p, Len(Fields(p)))
  <2>1. Len(Fields(p)) - Len(<<>>) = Len(Fields(p))
    BY <1>1
  <2>2. QED
    BY <2>1 DEF Partway
<1>3. Len(done) = Size(p)
  BY <1>2, Layout, Zenon DEF Holds, Laid
<1>4. /\ s.cursor = Len(done) /\ s.buffer \in Bytes
      /\ \A k \in 1..Len(s.buffer) : s.buffer[k] = IF k <= s.cursor THEN done[k] ELSE 0
  BY Zenon DEF Exact, Streams, Bytes
<1>5. \A k \in 1..Len(s.buffer) : s.buffer[k] = done[k]
  BY <1>1, <1>3, <1>4
<1>6. s.buffer = done
  BY <1>3, <1>4, <1>5, SameBytes, Zenon
<1>7. QED
  BY <1>2, <1>6 DEF Encodes

(* Ip::clone_as_response() swaps the addresses and keeps the bit fields.   *)
LEMMA CloneAnswers ==
  ASSUME NEW r, r.ip \in Ip, NEW b \in Bytes
  PROVE  IpAnswer(clone_as_response(r.ip, b), r)
<1> DEFINE p == r.ip
           n == Size(p) % 65536
           q == clone_as_response(p, b)
<1>1. q \in Ip
  BY AnswerPackets
<1>2. q = [p EXCEPT !.payload = b, !.total_length = n, !.ttl = 64,
                    !.src = p.dst, !.dst = p.src]
  BY DEF clone_as_response
<1> HIDE DEF n
<1>3. /\ q.version = p.version /\ q.ihl = p.ihl /\ q.dscp = p.dscp /\ q.ecn = p.ecn
      /\ q.flags = p.flags /\ q.fragment_offset = p.fragment_offset
      /\ q.src = p.dst /\ q.dst = p.src
  BY <1>2 DEF Ip
<1>4. QED
  BY <1>1, <1>3, Zenon DEF IpAnswer

(* An Icmp goes into its Ip, an Ip or an Arp into its frame.               *)
LEMMA PayloadWrittenWInv == ASSUME IInv, WInv, PayloadWritten PROVE WInv'
<1>1. /\ pc = "write" /\ todo = <<>> /\ use = "payload"
      /\ pkt \in Packet /\ req \in Requests /\ frame \in EthernetFrame
      /\ UNCHANGED <<mtu, own_mac, req, wire, decoding, is, got>>
  BY SMTT(20) DEF PayloadWritten, Written, device, loop, input, IInv, Typed
<1>2. os \in Streams /\ os.buffer \in Bytes /\ asked \in Bytes /\ Exact(os, asked)
  BY <1>1 DEF IInv, Typed, TypeOK, Filling, Streams, Bytes
<1>3. Encodes(os.buffer, pkt)
  <2>1. Partway(pkt, <<>>, asked)
    BY <1>1, Zenon DEF WInv, Writing
  <2>2. Len(os.buffer) = Size(pkt) /\ os.errc = "Ok"
    BY <1>1, Zenon DEF WInv, Room
  <2>3. QED
    BY <1>1, <1>2, <2>1, <2>2, PayloadHolds, Zenon
<1>4. CASE pkt.kind = "icmp"
  <2> DEFINE p == clone_as_response(req.ip, os.buffer)
  <2>1. req.ip \in Ip
    <3>1. req.kind = "echo"
      BY <1>1, <1>4, Kinds DEF IInv, Layered
    <3>2. QED
      BY <1>1, <3>1, RequestPackets
  <2>2. p \in Ip /\ IpAnswer(p, req)
    BY <1>2, <2>1, AnswerPackets, CloneAnswers
  <2>3. /\ pc' = "write" /\ pkt' = p /\ use' = "sum" /\ frame' = frame
        /\ os' = Stream(Buffer(Padded(Size(p)))) /\ todo' = Fields(p) /\ asked' = <<>>
    BY <1>4 DEF PayloadWritten, BeginChecksum, Begin
  <2> HIDE DEF p
  <2>4. p \in Packet /\ p.kind = "ip"
    BY <2>2 DEF Packet, Ip
  <2>5. Padded(Size(p)) \in Nat
    BY <2>4, FieldsBytes, PaddedEven, SMTT(20)
  <2>6. QED
    BY <1>1, <2>2, <2>3, <2>4, <2>5, BeginWInv
<1>5. CASE pkt.kind # "icmp"
  <2> DEFINE p == [frame EXCEPT !.payload = os.buffer]
  <2>1. /\ p \in EthernetFrame /\ p.payload = os.buffer
        /\ p.dst = frame.dst /\ p.src = frame.src /\ p.kind = "eth"
    BY <1>1, <1>2 DEF EthernetFrame
  <2>2. /\ pc' = "write" /\ pkt' = p /\ use' = "wire" /\ frame' = p
        /\ os' = Stream(Buffer(mtu)) /\ todo' = Fields(p) /\ asked' = <<>>
    BY <1>5 DEF PayloadWritten, BeginWire, Begin
  <2> HIDE DEF p
  <2>3. Addressed(p, req, own_mac)
    <3>1. Addressed(frame, req, own_mac)
      BY <1>1, <1>5, SMTT(20) DEF WInv, Answering
    <3>2. QED
      BY <2>1, <3>1, Zenon DEF Addressed
  <2>4. pkt.kind = "ip" \/ pkt.kind = "arp"
    <3>1. pkt.kind # "eth"
      BY <1>1 DEF WInv, Answering
    <3>2. QED
      BY <1>1, <1>5, <3>1 DEF Packet, Icmp, Ip, Arp, EthernetFrame
  <2>5. Carries(p, req, own_mac)
    <3>1. CASE pkt.kind = "ip"
      <4>1. pkt \in Ip /\ req.kind = "echo"
        BY <1>1, <3>1, Kinds DEF IInv, Layered
      <4>2. IpAnswer(pkt, req)
        BY <1>1, <3>1 DEF WInv, Answering
      <4>3. Encodes(p.payload, pkt)
        BY <1>3, <2>1
      <4>4. QED
        BY <4>1, <4>2, <4>3 DEF Carries
    <3>2. CASE pkt.kind = "arp"
      <4>1. req.kind = "arp" /\ pkt = copy_as_response(req.arp, own_mac)
        BY <1>1, <3>2 DEF WInv, Answering
      <4>2. Encodes(p.payload, copy_as_response(req.arp, own_mac))
        BY <1>3, <2>1, <4>1
      <4>3. QED
        BY <4>1, <4>2 DEF Carries
    <3>3. QED
      BY <2>4, <3>1, <3>2
  <2>6. p \in Packet
    BY <2>1 DEF Packet
  <2>7. mtu \in Nat
    BY NicAssumption DEF IInv, Typed, TypeOK
  <2>8. QED
    BY <1>1, <2>1, <2>2, <2>3, <2>5, <2>6, <2>7, BeginWInv
<1>6. QED
  BY <1>4, <1>5

(* The first n bytes of a buffer.                                          *)
LEMMA FirstBytes ==
  ASSUME NEW b \in Bytes, NEW n \in Nat, n <= Len(b)
  PROVE  /\ SubSeq(b, 1, n) \in Bytes /\ Len(SubSeq(b, 1, n)) = n
         /\ \A k \in 1..n : SubSeq(b, 1, n)[k] = b[k]
  BY DEF Bytes

(* A frame that fits is in the buffer up to the cursor.                    *)
LEMMA WireWhole ==
  ASSUME NEW f \in EthernetFrame, NEW s \in Streams, NEW done \in Bytes,
         Partway(f, <<>>, done), Exact(s, done), s.errc = "Ok", s.cursor <= Len(s.buffer)
  PROVE  Holds(SubSeq(s.buffer, 1, s.cursor), f, 4) /\ Size(f) <= Len(s.buffer)
<1>1. Len(Fields(f)) = 4 /\ Starts(f) = <<0, 6, 12, 14, Size(f)>>
  BY FrameStarts
<1>2. Holds(done, f, 4)
  <2>1. 4 - Len(<<>>) = 4
    OBVIOUS
  <2>2. QED
    BY <1>1, <2>1, Zenon DEF Partway
<1>3. Len(done) = Size(f)
  <2>1. Len(done) = Starts(f)[4 + 1]
    BY <1>2, Zenon DEF Holds
  <2>2. Starts(f)[5] = Size(f) /\ 4 + 1 = 5
    BY <1>1
  <2>3. QED
    BY <2>1, <2>2, Zenon
<1>4. /\ s.cursor = Len(done) /\ s.buffer \in Bytes /\ s.cursor \in Nat
      /\ \A k \in 1..Len(s.buffer) : s.buffer[k] = IF k <= s.cursor THEN done[k] ELSE 0
  BY Zenon DEF Exact, Streams, Bytes
<1> DEFINE t == SubSeq(s.buffer, 1, s.cursor)
<1>5. t \in Bytes /\ Len(t) = s.cursor /\ \A k \in 1..s.cursor : t[k] = s.buffer[k]
  BY <1>4, FirstBytes, Zenon
<1> HIDE DEF t
<1>6. \A k \in 1..Len(t) : t[k] = done[k]
  <2>1. Len(s.buffer) \in Nat
    BY <1>4 DEF Bytes
  <2>2. QED
    BY <1>4, <1>5, <2>1
<1>7. t = done
  BY <1>4, <1>5, <1>6, SameBytes, Zenon
<1>8. QED
  BY <1>2, <1>3, <1>4, <1>7, ZenonT(30) DEF t

(* Of one that does not, the header is.                                    *)
LEMMA WireBare ==
  ASSUME NEW f \in EthernetFrame, NEW s \in Streams, NEW done \in Bytes,
         Partway(f, <<>>, done), NEW m \in Nat, m >= 14, Len(s.buffer) = m,
         Bare(s, <<>>, f, m, done)
  PROVE  Holds(SubSeq(s.buffer, 1, s.cursor), f, 3) /\ ~(Size(f) <= m)
<1>1. /\ Len(Fields(f)) = 4 /\ Starts(f) = <<0, 6, 12, 14, Size(f)>>
      /\ Size(f) \in Nat /\ f \in Packet
  <2>1. f \in Packet
    BY DEF Packet
  <2>2. QED
    BY <2>1, FrameStarts, FieldsBytes
<1>2. Holds(done, f, 4)
  <2>1. 4 - Len(<<>>) = 4
    OBVIOUS
  <2>2. QED
    BY <1>1, <2>1, Zenon DEF Partway
<1>3. m < Size(f) /\ s.cursor = 14 /\ \A k \in 1..14 : s.buffer[k] = done[k]
  BY SMTT(20) DEF Bare
<1> DEFINE t == SubSeq(s.buffer, 1, s.cursor)
<1>4. t \in Bytes /\ Len(t) = 14 /\ \A k \in 1..14 : t[k] = s.buffer[k]
  <2>1. s.buffer \in Bytes /\ 14 \in Nat
    BY DEF Streams, Bytes
  <2>2. QED
    BY <1>3, <2>1, FirstBytes, SMTT(20)
<1> HIDE DEF t
<1>5. ASSUME NEW k \in 1..3
      PROVE  /\ Starts(f)[k + 1] <= Len(t)
             /\ \A j \in 1..Len(Fields(f)[k]) : t[Starts(f)[k] + j] = Fields(f)[k][j]
  <2> DEFINE a == Starts(f)[k]
             n == Len(Fields(f)[k])
  <2>1. k \in 1..4 /\ k \in 1..4 + 1 /\ k + 1 \in 1..4 + 1
    OBVIOUS
  <2>2. a \in Nat /\ Starts(f)[k + 1] \in Nat /\ Starts(f)[k + 1] = a + n
    BY <1>1, <2>1, Layout, Zenon DEF Laid
  <2>3. Starts(f)[k + 1] <= 14
    <3>1. Starts(f)[2] <= 14 /\ Starts(f)[3] <= 14 /\ Starts(f)[4] <= 14
      BY <1>1
    <3>2. k + 1 = 2 \/ k + 1 = 3 \/ k + 1 = 4
      OBVIOUS
    <3>3. QED
      BY <3>1, <3>2, Zenon
  <2>4. n \in Nat
    <3>1. Fields(f)[k] \in Bytes
      <4>1. Fields(f) \in Seq(Bytes) /\ k \in 1..Len(Fields(f))
        BY <1>1, <2>1, FieldsBytes, Zenon
      <4>2. QED
        BY <4>1
    <3>2. QED
      BY <3>1 DEF Bytes
  <2>5. ASSUME NEW j \in 1..n PROVE t[a + j] = Fields(f)[k][j]
    <3>1. done[a + j] = Fields(f)[k][j]
      BY <1>2, <2>1, Zenon DEF Holds
    <3> HIDE DEF a, n
    <3>2. a + j \in 1..14
      BY <2>2, <2>3, <2>4, Inside
    <3>3. QED
      BY <1>3, <1>4, <3>1, <3>2, Zenon
  <2>6. QED
    BY <1>4, <2>3, <2>5, Zenon
<1>6. Holds(t, f, 3)
  <2>1. Len(t) = Starts(f)[3 + 1]
    BY <1>1, <1>4, SMTT(20)
  <2>2. QED
    BY <1>5, <2>1, Zenon DEF Holds
<1>7. ~(Size(f) <= m)
  BY <1>1, <1>3
<1>8. QED
  BY <1>6, <1>7 DEF t

(* Nothing after write_eth() touches the frame or the wire.                *)
LEMMA InputWInv ==
  ASSUME WInv, pc \in {"idle", "sent", "read"}, pc' \in {"read", "decoded", "aborted"},
         UNCHANGED <<mtu, own_mac, req, frame, wire>>, Reading'
  PROVE  WInv'
<1>1. OnWire'
  BY Zenon DEF WInv, OnWire
<1>2. Writing' /\ Room' /\ Answering'
  BY DEF Writing, Room, Answering
<1>3. QED
  BY <1>1, <1>2 DEF WInv

(* The frame is sent, or the device refuses it.                            *)
LEMMA WireWrittenWInv == ASSUME IInv, WInv, WireWritten PROVE WInv'
<1>1. /\ pc = "write" /\ todo = <<>> /\ use = "wire" /\ pc' = "sent"
      /\ wire' = SubSeq(os.buffer, 1, os.cursor) \/ wire' = wire
      /\ UNCHANGED <<mtu, own_mac, req, frame, pkt, use, os, todo, asked>>
  BY DEF WireWritten, Written, device, answer, output, loop, input
<1>2. /\ os \in Streams /\ asked \in Bytes /\ frame \in EthernetFrame
      /\ Exact(os, asked) /\ os.cursor <= Len(os.buffer)
  BY <1>1 DEF IInv, Typed, TypeOK, Filling
<1>3. /\ pkt = frame /\ Len(os.buffer) = mtu
      /\ os.errc = "Ok" \/ Bare(os, <<>>, frame, mtu, asked)
  BY <1>1, Zenon DEF WInv, Room
<1>4. Partway(frame, <<>>, asked)
  BY <1>1, <1>3, Zenon DEF WInv, Writing
<1>5. mtu \in MTUs /\ mtu \in Nat /\ mtu >= 14
  BY <1>1, NicAssumption, ZenonT(30) DEF WInv, OnWire
<1>6. ASSUME wire' = SubSeq(os.buffer, 1, os.cursor)
      PROVE  Holds(wire', frame, IF Size(frame) <= mtu THEN 4 ELSE 3)
  <2>1. CASE os.errc = "Ok"
    <3>1. Holds(wire', frame, 4) /\ Size(frame) <= mtu
      BY <1>1, <1>2, <1>3, <1>4, <1>6, <2>1, WireWhole, Zenon
    <3>2. QED
      BY <3>1, Zenon
  <2>2. CASE Bare(os, <<>>, frame, mtu, asked)
    <3>1. Holds(wire', frame, 3) /\ ~(Size(frame) <= mtu)
      BY <1>1, <1>2, <1>3, <1>4, <1>5, <1>6, <2>2, WireBare, Zenon
    <3>2. QED
      BY <3>1, Zenon
  <2>3. QED
    BY <1>3, <2>1, <2>2
<1>7. Addressed(frame, req, own_mac) /\ Carries(frame, req, own_mac)
  BY <1>1 DEF WInv, Answering
<1>8. OnWire'
  <2>1. CASE wire' = SubSeq(os.buffer, 1, os.cursor)
    BY <1>1, <1>6, <1>7, <2>1, Zenon DEF OnWire
  <2>2. CASE wire' = wire
    <3>1. wire' = <<>>
      BY <1>1, <2>2 DEF WInv, OnWire
    <3>2. QED
      BY <1>1, <3>1 DEF WInv, OnWire
  <2>3. QED
    BY <1>1, <2>1, <2>2, Zenon
<1>9. Writing' /\ Room' /\ Answering' /\ Reading'
  BY <1>1 DEF Writing, Room, Answering, Reading
<1>10. QED
  BY <1>8, <1>9 DEF WInv

(* A frame arrives, or the read fails.                                     *)
LEMMA ReadNextWInv == ASSUME IInv, WInv, read_next_eth PROVE WInv'
<1>1. /\ pc = "idle" /\ UNCHANGED <<mtu, own_mac, req, frame, wire>>
      /\ pc' = "aborted" \/ (pc' = "read" /\ decoding' = "eth")
  BY DEF read_next_eth, Decode, device, answer, output, loop
<1>2. Reading'
  BY <1>1 DEF Reading
<1>3. QED
  BY <1>1, <1>2, InputWInv

(* The receiver of an ARP answer starts to read its payload.               *)
LEMMA ReceiveWInv == ASSUME IInv, WInv, Receive PROVE WInv'
<1>1. /\ pc = "sent" /\ UNCHANGED <<mtu, own_mac, req, frame, wire>> /\ pc' = "read"
  BY DEF Receive, Decode, device, answer, output, loop
<1>2. ASSUME decoding' = "arp"
      PROVE  /\ req.kind = "arp" /\ Behind(is', wire) /\ Len(got') <= 9
             /\ is'.errc = "Ok" => TakenFrom(is', got')
  <2>1. PICK n \in ReadSizes :
          /\ 14 + n <= Len(wire) /\ req.kind = "arp"
          /\ Decode("arp", SubSeq(wire, 15, 14 + n))
    BY <1>2 DEF Receive, Decode
  <2>2. n \in Nat /\ wire \in Seq(Byte)
    BY NicAssumption DEF IInv, Typed, TypeOK, Bytes
  <2> DEFINE b == SubSeq(wire, 15, 14 + n)
  <2>3. b \in Seq(Byte) /\ Len(b) = n /\ \A k \in 1..n : b[k] = wire[14 + k]
    BY <2>1, <2>2
  <2>4. is' = Stream(b) /\ got' = <<>>
    BY <2>1 DEF Decode
  <2> HIDE DEF b
  <2>5. is'.buffer = b /\ is'.cursor = 0
    BY <2>4 DEF Stream
  <2>6. Behind(is', wire)
    BY <2>1, <2>2, <2>3, <2>5 DEF Behind
  <2>7. TakenFrom(is', got')
    BY <2>2, <2>3, <2>4, <2>5 DEF TakenFrom, ArpAt
  <2>8. QED
    BY <2>1, <2>4, <2>6, <2>7
<1>3. Reading'
  BY <1>1, <1>2, Zenon DEF Reading
<1>4. QED
  BY <1>1, <1>3, InputWInv

(* Arp::try_from_stream() reads each field where the one before it ended.  *)
LEMMA ArpWidths ==
  /\ Len(Widths("arp")) = 9
  /\ \A k \in 1..10 : ArpAt[k] \in Nat
  /\ \A k \in 1..9 : /\ Widths("arp")[k] \in Nat
                     /\ ArpAt[k + 1] = ArpAt[k] + Widths("arp")[k]
<1> DEFINE w == Widths("arp")
           s == ArpAt
<1>1. w = <<2, 2, 1, 1, 2, 6, 4, 6, 4>>
  BY DEF Widths
<1>2. /\ Len(w) = 9 /\ w[1] = 2 /\ w[2] = 2 /\ w[3] = 1 /\ w[4] = 1 /\ w[5] = 2
      /\ w[6] = 6 /\ w[7] = 4 /\ w[8] = 6 /\ w[9] = 4
  BY <1>1
<1>3. /\ s[1] = 0 /\ s[2] = 2 /\ s[3] = 4 /\ s[4] = 5 /\ s[5] = 6 /\ s[6] = 8
      /\ s[7] = 14 /\ s[8] = 18 /\ s[9] = 24 /\ s[10] = 28
  BY DEF ArpAt
<1> HIDE DEF w, s
<1>4. \A k \in 1..10 : s[k] \in Nat
  BY <1>3
<1>5. \A k \in 1..9 : w[k] \in Nat
  BY <1>2
<1>6. /\ s[1 + 1] = s[1] + w[1] /\ s[2 + 1] = s[2] + w[2] /\ s[3 + 1] = s[3] + w[3]
      /\ s[4 + 1] = s[4] + w[4] /\ s[5 + 1] = s[5] + w[5] /\ s[6 + 1] = s[6] + w[6]
      /\ s[7 + 1] = s[7] + w[7] /\ s[8 + 1] = s[8] + w[8] /\ s[9 + 1] = s[9] + w[9]
  BY <1>2, <1>3
<1>7. \A k \in 1..9 : k = 1 \/ k = 2 \/ k = 3 \/ k = 4 \/ k = 5 \/ k = 6 \/ k = 7 \/ k = 8 \/ k = 9
  OBVIOUS
<1>8. \A k \in 1..9 : s[k + 1] = s[k] + w[k]
  BY <1>6, <1>7, ZenonT(30)
<1>9. QED
  BY <1>2, <1>4, <1>5, <1>8, Zenon DEF w, s

(* The n bytes behind the first a.                                         *)
LEMMA Slice ==
  ASSUME NEW b \in Bytes, NEW a \in Nat, NEW n \in Nat, a + n <= Len(b)
  PROVE  /\ SubSeq(b, a + 1, a + n) \in Bytes /\ Len(SubSeq(b, a + 1, a + n)) = n
         /\ \A k \in 1..n : SubSeq(b, a + 1, a + n)[k] = b[a + k]
  BY DEF Bytes

(* A field behind the others.                                              *)
LEMMA Appended ==
  ASSUME NEW q \in Seq(Bytes), NEW x \in Bytes
  PROVE  /\ Len(Append(q, x)) = Len(q) + 1 /\ Append(q, x)[Len(q) + 1] = x
         /\ \A k \in 1..Len(q) : Append(q, x)[k] = q[k]
  OBVIOUS

(* One more field is read.                                                 *)
LEMMA TakenMore ==
  ASSUME NEW s \in Streams, NEW fields \in Seq(Bytes), Len(fields) < 9,
         TakenFrom(s, fields), NEW size \in Nat,
         size = Widths("arp")[Len(fields) + 1], Fits(s, size)
  PROVE  TakenFrom(Advance(s, size), Append(fields, Taken(s, size)))
<1> DEFINE n == Len(fields)
           x == Taken(s, size)
           t == Advance(s, size)
           g == Append(fields, x)
<1>1. s.buffer \in Seq(Byte) /\ s.cursor \in Nat /\ Len(s.buffer) \in Nat
  BY DEF Streams
<1>2. t.buffer = s.buffer /\ t.cursor = s.cursor + size
  BY DEF Advance, Streams
<1>3. x = SubSeq(s.buffer, s.cursor + 1, s.cursor + size) /\ x \in Bytes
  <2>1. x = SubSeq(s.buffer, s.cursor + 1, s.cursor + size)
    BY ZenonT(30) DEF Taken
  <2>2. s.cursor + size <= Len(s.buffer)
    BY DEF Fits
  <2>3. s.buffer \in Bytes
    BY <1>1 DEF Bytes
  <2>4. QED
    BY <1>1, <2>1, <2>2, <2>3, Slice, ZenonT(30)
<1>4. n \in Nat /\ n + 1 \in 1..9
  OBVIOUS
<1>5. s.cursor = ArpAt[n + 1] /\ \A k \in 1..n : fields[k] = SubSeq(s.buffer, ArpAt[k] + 1, ArpAt[k + 1])
  BY DEF TakenFrom
<1>6. s.cursor + size = ArpAt[(n + 1) + 1]
  BY <1>4, <1>5, ArpWidths, Zenon
<1>7. s.cursor + size <= Len(s.buffer)
  BY DEF Fits
<1> HIDE DEF t, x
<1>8. Len(g) = n + 1 /\ g[n + 1] = x /\ \A k \in 1..n : g[k] = fields[k]
  BY <1>3, Appended, Zenon
<1> HIDE DEF n, g
<1>9. g[n + 1] = SubSeq(t.buffer, ArpAt[n + 1] + 1, ArpAt[(n + 1) + 1])
  BY <1>2, <1>3, <1>5, <1>6, <1>8, Zenon
<1>10. \A k \in 1..n : g[k] = SubSeq(t.buffer, ArpAt[k] + 1, ArpAt[k + 1])
  BY <1>2, <1>5, <1>8, Zenon
<1>11. \A k \in 1..n + 1 : k \in 1..n \/ k = n + 1
  BY <1>4
<1>12. \A k \in 1..Len(g) : g[k] = SubSeq(t.buffer, ArpAt[k] + 1, ArpAt[k + 1])
  BY <1>8, <1>9, <1>10, <1>11, Zenon
<1>13. t.cursor = ArpAt[Len(g) + 1] /\ t.cursor <= Len(t.buffer)
  BY <1>2, <1>6, <1>7, <1>8, Zenon
<1>14. TakenFrom(t, g)
  BY <1>12, <1>13, Zenon DEF TakenFrom
<1>15. QED
  BY <1>14 DEF t, g, x

(* A field is read.                                                        *)
LEMMA ReadFieldWInv == ASSUME IInv, WInv, ReadField PROVE WInv'
<1> DEFINE size == Widths(decoding)[Len(got) + 1]
<1>1. /\ pc = "read" /\ pc' = "read" /\ Len(got) < Len(Widths(decoding))
      /\ got' = Append(got, Taken(is, size)) /\ is' = Advance(is, size)
      /\ UNCHANGED <<mtu, own_mac, req, frame, wire, decoding>>
  BY DEF ReadField, device, answer, output, loop
<1>2. is \in Streams /\ got \in Seq(Bytes)
  BY DEF IInv, Typed, TypeOK
<1>3. ASSUME decoding = "arp"
      PROVE  /\ req.kind = "arp" /\ Behind(is', wire) /\ Len(got') <= 9
             /\ is'.errc = "Ok" => TakenFrom(is', got')
  <2>1. req.kind = "arp" /\ Behind(is, wire) /\ (is.errc = "Ok" => TakenFrom(is, got))
    BY <1>1, <1>3 DEF WInv, Reading
  <2>2. Len(got) \in Nat /\ Len(got) < 9 /\ size = Widths("arp")[Len(got) + 1]
    <3>1. Len(Widths("arp")) = 9
      BY ArpWidths
    <3>2. QED
      BY <1>1, <1>2, <1>3, <3>1
  <2>3. size \in Nat
    <3>1. Len(got) + 1 \in 1..9
      BY <2>2
    <3>2. QED
      BY <2>2, <3>1, ArpWidths, Zenon
  <2> HIDE DEF size
  <2>4. is'.buffer = is.buffer /\ (is'.errc = "Ok" => Fits(is, size) /\ is.errc = "Ok")
    BY <1>1, <1>2 DEF Advance, Failed, Streams
  <2>5. Behind(is', wire)
    BY <2>1, <2>4, Zenon DEF Behind
  <2>6. Len(got') <= 9
    <3>1. Taken(is, size) \in Bytes
      <4>1. is.buffer \in Seq(Byte) /\ is.cursor \in Nat
        BY <1>2 DEF Streams
      <4>2. QED
        BY <2>3, <4>1 DEF Taken, Fits, Bytes
    <3> DEFINE x == Taken(is, size)
    <3>2. x \in Bytes /\ got' = Append(got, x)
      BY <1>1, <3>1
    <3> HIDE DEF x
    <3>3. QED
      BY <1>2, <2>2, <3>2
  <2>7. is'.errc = "Ok" => TakenFrom(is', got')
    BY <1>1, <1>2, <2>1, <2>2, <2>3, <2>4, TakenMore, Zenon
  <2>8. QED
    BY <2>1, <2>5, <2>6, <2>7
<1> HIDE DEF size
<1>4. Reading'
  BY <1>1, <1>3, Zenon DEF Reading
<1>5. QED
  BY <1>1, <1>4, InputWInv

(* Only an Arp whose bytes were all there is decoded.                      *)
LEMMA FinishDecodeWInv == ASSUME IInv, WInv, FinishDecode PROVE WInv'
<1>1. /\ pc = "read" /\ Len(got) = Len(Widths(decoding))
      /\ pc' = IF decoding = "arp" /\ is.errc = "Ok" THEN "decoded" ELSE "aborted"
      /\ UNCHANGED <<mtu, own_mac, req, frame, wire, decoding, is, got>>
  BY DEF FinishDecode, device, answer, output, loop, input
<1>2. Len(Widths("arp")) = 9
  BY ArpWidths
<1>3. Reading'
  BY <1>1, <1>2, Zenon DEF WInv, Reading
<1>4. QED
  BY <1>1, <1>3, InputWInv

(* Every step keeps the second invariant.                                  *)
LEMMA NextWInv == IInv /\ WInv /\ [Next]_vars => WInv'
<1> SUFFICES ASSUME IInv, WInv, [Next]_vars PROVE WInv'
  OBVIOUS
<1>1. CASE UNCHANGED vars
  <2>1. UNCHANGED <<pc, mtu, own_mac, req, frame, pkt, use, os, todo, asked, wire,
                    decoding, is, got>>
    BY <1>1 DEF vars, device, answer, output, loop, input
  <2>2. Writing' /\ Answering'
    BY <2>1, Zenon DEF WInv, Writing, Answering
  <2>3. Room'
    BY <2>1, Zenon DEF WInv, Room
  <2>4. OnWire'
    BY <2>1, Zenon DEF WInv, OnWire
  <2>5. Reading'
    BY <2>1, Zenon DEF WInv, Reading
  <2>6. QED
    BY <2>2, <2>3, <2>4, <2>5 DEF WInv
<1>2. CASE Next
  BY <1>2, TryNewWInv, EchoAnswerWInv, ArpAnswerWInv, ReadNextWInv, ReceiveWInv,
     WriteFieldWInv, SumWInv, SetChecksumWInv, PayloadWrittenWInv, WireWrittenWInv,
     ReadFieldWInv, FinishDecodeWInv DEF Next, Working
<1>3. QED
  BY <1>1, <1>2

(* Spec keeps both.                                                        *)
LEMMA WireInvariant == Spec => [](IInv /\ WInv)
<1>1. Init => IInv /\ WInv
  BY InitIInv, InitWInv
<1>2. (IInv /\ WInv) /\ [Next]_vars => (IInv /\ WInv)'
  BY NextIInv, NextWInv
<1>3. QED
  BY <1>1, <1>2, PTL DEF Spec

(* A field is read from where it was put.                                  *)
LEMMA FieldAt ==
  ASSUME NEW p \in Packet, NEW b \in Bytes, NEW m \in Nat, m <= Len(Fields(p)),
         Holds(b, p, m), NEW k \in 1..m
  PROVE  /\ SubSeq(b, Starts(p)[k] + 1, Starts(p)[k + 1]) = Fields(p)[k]
         /\ Fields(p)[k] \in Bytes
<1> DEFINE s == Starts(p)
           f == Fields(p)
           t == SubSeq(b, s[k] + 1, s[k + 1])
<1>1. f \in Seq(Bytes) /\ Len(f) \in Nat /\ m <= Len(f)
  BY FieldsBytes
<1> HIDE DEF f, s
<1>2. k \in 1..Len(f) /\ k \in 1..Len(f) + 1
  BY <1>1
<1>3. s[k] \in Nat /\ s[k + 1] = s[k] + Len(f[k])
  BY <1>2, Layout, Zenon DEF Laid, s, f
<1>4. f[k] \in Bytes /\ Len(f[k]) \in Nat
  BY <1>1, <1>2 DEF Bytes
<1>5. s[k + 1] <= Len(b) /\ \A j \in 1..Len(f[k]) : b[s[k] + j] = f[k][j]
  BY Zenon DEF Holds, s, f
<1>6. t = SubSeq(b, s[k] + 1, s[k] + Len(f[k]))
  BY <1>3, Zenon
<1>7. s[k] + Len(f[k]) <= Len(b)
  BY <1>3, <1>5, Zenon
<1>8. t \in Bytes /\ Len(t) = Len(f[k]) /\ \A j \in 1..Len(f[k]) : t[j] = b[s[k] + j]
  <2> DEFINE u == SubSeq(b, s[k] + 1, s[k] + Len(f[k]))
  <2>1. u \in Bytes /\ Len(u) = Len(f[k]) /\ \A j \in 1..Len(f[k]) : u[j] = b[s[k] + j]
    BY <1>3, <1>4, <1>7, Slice, ZenonT(30)
  <2> HIDE DEF u, t
  <2>2. t = u
    BY <1>6, ZenonT(30) DEF t, u
  <2>3. QED
    BY <2>1, <2>2, Zenon
<1> HIDE DEF t
<1>9. \A j \in 1..Len(t) : t[j] = f[k][j]
  BY <1>5, <1>8, Zenon
<1>10. t = f[k]
  BY <1>4, <1>8, <1>9, SameBytes, Zenon
<1>11. QED
  BY <1>4, <1>10 DEF t, s, f

(* The header of a frame, and what is behind it.                           *)
LEMMA HeaderIs ==
  ASSUME NEW f \in EthernetFrame, NEW b \in Bytes, NEW m \in {3, 4}, Holds(b, f, m)
  PROVE  /\ SubSeq(b, 1, 6) = f.dst /\ SubSeq(b, 7, 12) = f.src
         /\ SubSeq(b, 13, 14) = U16(f.ethertype)
         /\ m = 3 => Len(b) = 14
         /\ m = 4 => /\ Len(b) = Size(f)
                     /\ SubSeq(b, 15, Len(b)) = f.payload
<1> DEFINE s == Starts(f)
           g == Fields(f)
<1>1. f \in Packet /\ m \in Nat
  BY DEF Packet
<1>2. /\ s[1] = 0 /\ s[2] = 6 /\ s[3] = 12 /\ s[4] = 14 /\ s[5] = Size(f)
      /\ s[1] + 1 = 1 /\ s[2] + 1 = 7 /\ s[3] + 1 = 13 /\ s[4] + 1 = 15
      /\ s[1 + 1] = 6 /\ s[2 + 1] = 12 /\ s[3 + 1] = 14 /\ s[4 + 1] = Size(f)
  BY FrameStarts, SMTT(20)
<1>3. /\ Len(g) = 4 /\ g[1] = f.dst /\ g[2] = f.src /\ g[3] = U16(f.ethertype)
      /\ g[4] = f.payload
  BY FrameStarts, SMTT(20)
<1>4. m <= Len(Fields(f))
  BY <1>3
<1>5. \A k \in 1..m : SubSeq(b, s[k] + 1, s[k + 1]) = g[k]
  BY <1>1, <1>4, FieldAt, Zenon
<1>6. Len(b) = s[m + 1]
  BY DEF Holds
<1> HIDE DEF s, g
<1>7. 1 \in 1..m /\ 2 \in 1..m /\ 3 \in 1..m /\ (m = 4 => 4 \in 1..m)
  OBVIOUS
<1>8. SubSeq(b, 1, 6) = f.dst /\ SubSeq(b, 7, 12) = f.src /\ SubSeq(b, 13, 14) = U16(f.ethertype)
  BY <1>2, <1>3, <1>5, <1>7, Zenon
<1>9. m = 3 => Len(b) = 14
  BY <1>2, <1>6, Zenon
<1>10. m = 4 => Len(b) = Size(f)
  BY <1>2, <1>6, Zenon
<1>11. m = 4 => SubSeq(b, 15, Len(b)) = f.payload
  BY <1>2, <1>3, <1>5, <1>7, <1>10, Zenon
<1>12. QED
  BY <1>8, <1>9, <1>10, <1>11

(* Three parts, one behind the other.                                      *)
LEMMA ThreeParts ==
  ASSUME NEW b \in Bytes, Len(b) >= 14
  PROVE  SubSeq(b, 1, 14) = SubSeq(b, 1, 6) \o SubSeq(b, 7, 12) \o SubSeq(b, 13, 14)
<1> DEFINE x == SubSeq(b, 1, 6)
           y == SubSeq(b, 7, 12)
           z == SubSeq(b, 13, 14)
<1>1. /\ x \in Bytes /\ y \in Bytes /\ z \in Bytes
      /\ Len(x) = 6 /\ Len(y) = 6 /\ Len(z) = 2
  BY DEF Bytes
<1>2. /\ \A k \in 1..6 : x[k] = b[k]
      /\ \A k \in 1..6 : y[k] = b[6 + k]
      /\ \A k \in 1..2 : z[k] = b[12 + k]
  BY DEF Bytes
<1> HIDE DEF x, y, z
<1> DEFINE xy == x \o y
           w == xy \o z
<1>3. /\ xy \in Bytes /\ Len(xy) = 12
      /\ \A k \in 1..6 : xy[k] = x[k]
      /\ \A k \in 1..6 : xy[6 + k] = y[k]
  <2>1. /\ xy \in Bytes /\ Len(xy) = Len(x) + Len(y)
        /\ \A k \in 1..Len(x) : xy[k] = x[k]
        /\ \A k \in 1..Len(y) : xy[Len(x) + k] = y[k]
    BY <1>1, Joined, Zenon
  <2> HIDE DEF xy
  <2>2. 6 + 6 = 12
    OBVIOUS
  <2>3. QED
    BY <1>1, <2>1, <2>2, Zenon
<1> HIDE DEF xy
<1>4. /\ w \in Bytes /\ Len(w) = 14
      /\ \A k \in 1..12 : w[k] = xy[k]
      /\ \A k \in 1..2 : w[12 + k] = z[k]
  <2>1. /\ w \in Bytes /\ Len(w) = Len(xy) + Len(z)
        /\ \A k \in 1..Len(xy) : w[k] = xy[k]
        /\ \A k \in 1..Len(z) : w[Len(xy) + k] = z[k]
    <3>1. xy \in Bytes
      BY <1>3
    <3>2. QED
      BY <1>1, <3>1, Joined, Zenon
  <2> HIDE DEF w
  <2>2. 12 + 2 = 14
    OBVIOUS
  <2>3. QED
    BY <1>1, <1>3, <2>1, <2>2, Zenon
<1> HIDE DEF w
<1>5. ASSUME NEW k \in 1..6 PROVE w[k] = b[k]
  <2>1. w[k] = xy[k]
    BY <1>4
  <2>2. xy[k] = x[k] /\ x[k] = b[k]
    BY <1>2, <1>3, Zenon
  <2>3. QED
    BY <2>1, <2>2
<1>6. ASSUME NEW k \in 1..6 PROVE w[6 + k] = b[6 + k]
  <2>1. 6 + k \in 1..12
    OBVIOUS
  <2>2. w[6 + k] = xy[6 + k]
    BY <1>4, <2>1, Zenon
  <2>3. xy[6 + k] = y[k] /\ y[k] = b[6 + k]
    BY <1>2, <1>3, Zenon
  <2>4. QED
    BY <2>2, <2>3
<1>7. \A k \in 1..2 : w[12 + k] = b[12 + k]
  BY <1>2, <1>4, Zenon
<1>8. ASSUME NEW k \in 1..14 PROVE w[k] = b[k]
  <2>1. CASE k <= 6
    BY <1>5, <2>1
  <2>2. CASE k > 6 /\ k <= 12
    <3>1. k - 6 \in 1..6 /\ 6 + (k - 6) = k
      BY <2>2
    <3>2. QED
      BY <1>6, <3>1, Zenon
  <2>3. CASE k > 12
    <3>1. k - 12 \in 1..2 /\ 12 + (k - 12) = k
      BY <2>3
    <3>2. QED
      BY <1>7, <3>1, Zenon
  <2>4. QED
    BY <2>1, <2>2, <2>3
<1>9. /\ SubSeq(b, 1, 14) \in Bytes /\ Len(SubSeq(b, 1, 14)) = 14
      /\ \A k \in 1..14 : SubSeq(b, 1, 14)[k] = b[k]
  BY FirstBytes
<1>10. SubSeq(b, 1, 14) = w
  <2> DEFINE v == SubSeq(b, 1, 14)
  <2>1. v \in Bytes /\ Len(v) = 14 /\ \A k \in 1..14 : v[k] = b[k]
    BY <1>9
  <2> HIDE DEF v
  <2>2. Len(v) = Len(w) /\ \A k \in 1..Len(v) : v[k] = w[k]
    BY <1>4, <1>8, <2>1
  <2>3. v = w
    BY <1>4, <2>1, <2>2, SameBytes, Zenon
  <2>4. QED
    BY <2>3 DEF v
<1>11. QED
  BY <1>10 DEF w, xy, x, y, z

(* Nothing is behind the last byte.                                        *)
LEMMA NothingBehind ==
  ASSUME NEW b \in Bytes, Len(b) = 14
  PROVE  SubSeq(b, 15, Len(b)) = <<>>
  BY DEF Bytes

(* write_eth() sends a frame whole or, when it exceeds the MTU, its header *)
(* alone, for every payload and every MTU that leaves room for a header.   *)
THEOREM FrameWholeOrBareHolds == Spec => []FrameWholeOrBare
<1>1. ASSUME IInv, WInv PROVE FrameWholeOrBare
  <2>1. SUFFICES ASSUME wire # <<>>
                 PROVE  /\ SubSeq(wire, 1, 14) = frame.dst \o frame.src \o U16(frame.ethertype)
                        /\ SubSeq(wire, 15, Len(wire)) =
                             IF Size(frame) <= mtu THEN frame.payload ELSE <<>>
    BY ZenonT(30) DEF FrameWholeOrBare
  <2> DEFINE m == IF Size(frame) <= mtu THEN 4 ELSE 3
  <2>2. /\ frame \in EthernetFrame /\ wire \in Bytes /\ Holds(wire, frame, m) /\ m \in {3, 4}
    BY <1>1, <2>1, Zenon DEF IInv, Typed, TypeOK, WInv, OnWire
  <2>3. (Size(frame) <= mtu => m = 4) /\ (~(Size(frame) <= mtu) => m = 3)
    BY Zenon
  <2> HIDE DEF m
  <2>4. /\ SubSeq(wire, 1, 6) = frame.dst /\ SubSeq(wire, 7, 12) = frame.src
        /\ SubSeq(wire, 13, 14) = U16(frame.ethertype)
        /\ m = 3 => Len(wire) = 14
        /\ m = 4 => Len(wire) = Size(frame) /\ SubSeq(wire, 15, Len(wire)) = frame.payload
    BY <2>2, HeaderIs, Zenon
  <2>5. /\ frame.dst \in Bytes /\ frame.src \in Bytes /\ U16(frame.ethertype) \in Bytes
        /\ Len(frame.dst) = 6 /\ Len(frame.src) = 6 /\ Len(U16(frame.ethertype)) = 2
        /\ Len(frame.payload) \in Nat /\ Size(frame) = 14 + Len(frame.payload)
    <3>1. /\ frame.dst \in MAC /\ frame.src \in MAC /\ frame.ethertype \in Nat
          /\ frame.payload \in Bytes
      BY <2>2 DEF EthernetFrame, Word16
    <3>2. Size(frame) = 14 + Len(frame.payload)
      BY <2>2, FrameStarts
    <3>3. Len(frame.payload) \in Nat
      BY <3>1 DEF Bytes
    <3>4. QED
      BY <3>1, <3>2, <3>3, AddressBytes, EncodedBytes, EncodedLength, Zenon
  <2>6. Len(wire) >= 14
    <3>1. CASE m = 3
      <4>1. Len(wire) = 14
        BY <2>4, <3>1, Zenon
      <4>2. QED
        BY <4>1
    <3>2. CASE m = 4
      <4>1. Len(wire) = 14 + Len(frame.payload)
        BY <2>4, <2>5, <3>2, Zenon
      <4>2. QED
        BY <2>5, <4>1
    <3>3. QED
      BY <2>2, <3>1, <3>2
  <2>7. SubSeq(wire, 1, 14) = frame.dst \o frame.src \o U16(frame.ethertype)
    <3>1. SubSeq(wire, 1, 14) = SubSeq(wire, 1, 6) \o SubSeq(wire, 7, 12) \o SubSeq(wire, 13, 14)
      BY <2>2, <2>6, ThreeParts, Zenon
    <3>2. QED
      BY <2>4, <3>1, Zenon
  <2>8. m = 3 => SubSeq(wire, 15, Len(wire)) = <<>>
    BY <2>2, <2>4, NothingBehind, Zenon
  <2>9. QED
    BY <2>3, <2>4, <2>7, <2>8, Zenon
<1>2. QED
  BY <1>1, WireInvariant, PTL

(* Where the Ip header has its bit fields and its addresses.               *)
LEMMA IpParts ==
  ASSUME NEW p \in Ip, NEW b \in Bytes, Encodes(b, p)
  PROVE  /\ Len(b) >= 20
         /\ b[1] = (p.version * 16 + p.ihl) % 256
         /\ b[2] = (p.dscp * 4 + p.ecn) % 256
         /\ b[7] = (p.flags * 32 + ((p.fragment_offset \div 256) % 32)) % 256
         /\ b[8] = p.fragment_offset % 256
         /\ SubSeq(b, 13, 16) = p.src /\ SubSeq(b, 17, 20) = p.dst
<1> DEFINE s == Starts(p)
           g == Fields(p)
           vi == p.version * 16 + p.ihl
           de == p.dscp * 4 + p.ecn
           hi == p.flags * 32 + ((p.fragment_offset \div 256) % 32)
<1>1. p \in Packet /\ p.kind = "ip"
  BY DEF Packet, Ip
<1>2. s = <<0, 1, 2, 4, 6, 7, 8, 9, 10, 12, 16, 20, Size(p)>>
  BY <1>1 DEF Starts
<1>3. g = <<U8(vi), U8(de), U16(p.total_length), U16(p.identification), U8(hi),
            U8(p.fragment_offset), U8(p.ttl), U8(p.protocol), U16(p.checksum),
            p.src, p.dst, p.payload>>
  BY <1>1 DEF Fields, IpFields
<1> HIDE DEF vi, de, hi
<1>4. /\ Len(g) = 12 /\ g[1] = U8(vi) /\ g[2] = U8(de) /\ g[5] = U8(hi)
      /\ g[6] = U8(p.fragment_offset) /\ g[10] = p.src /\ g[11] = p.dst
  <2> HIDE DEF s, g
  <2>1. Len(g) = 12
    BY <1>3, SMTT(20)
  <2>2. g[1] = U8(vi) /\ g[2] = U8(de)
    BY <1>3, SMTT(20)
  <2>3. g[5] = U8(hi)
    BY <1>3, SMTT(20)
  <2>4. g[6] = U8(p.fragment_offset)
    BY <1>3, SMTT(20)
  <2>5. g[10] = p.src /\ g[11] = p.dst
    BY <1>3
  <2>6. QED
    BY <2>1, <2>2, <2>3, <2>4, <2>5, Zenon
<1>5. /\ s[1] = 0 /\ s[2] = 1 /\ s[5] = 6 /\ s[6] = 7 /\ s[10] = 12 /\ s[11] = 16
      /\ s[10 + 1] = 16 /\ s[11 + 1] = 20
      /\ 0 + 1 = 1 /\ 1 + 1 = 2 /\ 6 + 1 = 7 /\ 7 + 1 = 8 /\ 12 + 1 = 13 /\ 16 + 1 = 17
  BY <1>2
<1>6. /\ \A k \in 1..12 : s[k + 1] <= Len(b)
      /\ \A k \in 1..12 : \A j \in 1..Len(g[k]) : b[s[k] + j] = g[k][j]
  BY <1>4, Zenon DEF Encodes, Holds
<1>7. \A k \in 1..12 : SubSeq(b, s[k] + 1, s[k + 1]) = g[k]
  <2>1. Holds(b, p, 12) /\ 12 \in Nat /\ 12 <= Len(Fields(p))
    BY <1>4 DEF Encodes
  <2>2. QED
    BY <1>1, <2>1, FieldAt, Zenon
<1>8. /\ 1 \in 1..12 /\ 2 \in 1..12 /\ 5 \in 1..12 /\ 6 \in 1..12
      /\ 10 \in 1..12 /\ 11 \in 1..12 /\ 1 \in 1..1
  OBVIOUS
<1> HIDE DEF s, g
<1>9. \A n : Len(U8(n)) = 1
  BY DEF U8
<1>10. \A k \in 1..12 : Len(g[k]) = 1 => b[s[k] + 1] = g[k][1]
  BY <1>6, <1>8, Zenon
<1>11. /\ b[s[1] + 1] = U8(vi)[1] /\ b[s[2] + 1] = U8(de)[1]
       /\ b[s[5] + 1] = U8(hi)[1] /\ b[s[6] + 1] = U8(p.fragment_offset)[1]
  <2>1. Len(g[1]) = 1 /\ Len(g[2]) = 1 /\ Len(g[5]) = 1 /\ Len(g[6]) = 1
    BY <1>4, <1>9, Zenon
  <2>2. /\ b[s[1] + 1] = g[1][1] /\ b[s[2] + 1] = g[2][1]
        /\ b[s[5] + 1] = g[5][1] /\ b[s[6] + 1] = g[6][1]
    BY <1>8, <1>10, <2>1, Zenon
  <2>3. QED
    BY <1>4, <2>2, Zenon
<1>12. SubSeq(b, 12 + 1, 16) = p.src /\ SubSeq(b, 16 + 1, 20) = p.dst
  BY <1>4, <1>5, <1>7, <1>8, Zenon
<1>13. 20 <= Len(b)
  BY <1>5, <1>6, <1>8, Zenon
<1>14. Len(b) >= 20
  BY <1>13 DEF Bytes
<1>15. /\ b[1] = vi % 256 /\ b[2] = de % 256
       /\ b[7] = hi % 256 /\ b[8] = p.fragment_offset % 256
  <2>1. /\ b[1] = U8(vi)[1] /\ b[2] = U8(de)[1]
        /\ b[7] = U8(hi)[1] /\ b[8] = U8(p.fragment_offset)[1]
    BY <1>5, <1>11, Zenon
  <2>2. \A n : U8(n)[1] = n % 256
    BY DEF U8
  <2>3. QED
    BY <2>1, <2>2
<1>16. SubSeq(b, 13, 16) = p.src /\ SubSeq(b, 17, 20) = p.dst
  BY <1>5, <1>12, Zenon
<1>17. QED
  BY <1>14, <1>15, <1>16, SMTT(20) DEF vi, de, hi

(* The payload of a frame on the wire that is whole.                       *)
LEMMA WholePayload ==
  ASSUME IInv, WInv, wire # <<>>, Len(wire) > 14
  PROVE  /\ frame.payload \in Bytes /\ Len(wire) = 14 + Len(frame.payload)
         /\ \A k \in 1..Len(frame.payload) : wire[14 + k] = frame.payload[k]
<1> DEFINE m == IF Size(frame) <= mtu THEN 4 ELSE 3
<1>1. /\ frame \in EthernetFrame /\ wire \in Bytes /\ Holds(wire, frame, m) /\ m \in {3, 4}
  BY Zenon DEF IInv, Typed, TypeOK, WInv, OnWire
<1> HIDE DEF m
<1>2. /\ m = 3 => Len(wire) = 14
      /\ m = 4 => Len(wire) = Size(frame) /\ SubSeq(wire, 15, Len(wire)) = frame.payload
  BY <1>1, HeaderIs, Zenon
<1>3. frame.payload \in Bytes /\ Size(frame) = 14 + Len(frame.payload)
  BY <1>1, FrameStarts DEF EthernetFrame
<1>4. Len(wire) = 14 + Len(frame.payload) /\ SubSeq(wire, 15, Len(wire)) = frame.payload
  <2>1. ASSUME m = 3 PROVE FALSE
    <3>1. Len(wire) = 14
      BY <1>2, <2>1, Zenon
    <3>2. QED
      BY <3>1
  <2>2. m = 4
    BY <1>1, <2>1
  <2>3. QED
    BY <1>2, <1>3, <2>2, Zenon
<1> DEFINE b == frame.payload
<1>5. b \in Bytes /\ Len(b) \in Nat /\ Len(wire) = 14 + Len(b) /\ SubSeq(wire, 15, Len(wire)) = b
  BY <1>3, <1>4 DEF Bytes
<1> HIDE DEF b
<1>6. \A k \in 1..Len(b) : wire[14 + k] = b[k]
  <2>1. 14 + 1 = 15 /\ 14 \in Nat /\ 14 + Len(b) <= Len(wire)
    BY <1>5
  <2>2. \A k \in 1..Len(b) : SubSeq(wire, 14 + 1, 14 + Len(b))[k] = wire[14 + k]
    BY <1>1, <1>5, <2>1, Slice
  <2>3. QED
    BY <1>5, <2>1, <2>2, Zenon
<1>7. QED
  BY <1>4, <1>5, <1>6 DEF b

(* A part of the payload, seen on the wire.                                *)
LEMMA SliceBehind ==
  ASSUME NEW w \in Bytes, NEW b \in Bytes, Len(w) = 14 + Len(b),
         \A k \in 1..Len(b) : w[14 + k] = b[k],
         NEW a \in Nat, NEW n \in Nat, a + n <= Len(b)
  PROVE  SubSeq(w, (14 + a) + 1, (14 + a) + n) = SubSeq(b, a + 1, a + n)
<1> DEFINE u == SubSeq(w, (14 + a) + 1, (14 + a) + n)
           v == SubSeq(b, a + 1, a + n)
<1>1. 14 + a \in Nat /\ (14 + a) + n <= Len(w) /\ Len(b) \in Nat
  BY DEF Bytes
<1>2. u \in Bytes /\ Len(u) = n /\ \A k \in 1..n : u[k] = w[(14 + a) + k]
  BY <1>1, Slice, Zenon
<1>3. v \in Bytes /\ Len(v) = n /\ \A k \in 1..n : v[k] = b[a + k]
  BY Slice, Zenon
<1> HIDE DEF u, v
<1>4. ASSUME NEW k \in 1..n PROVE u[k] = v[k]
  <2>1. a + k \in 1..Len(b) /\ 14 + (a + k) = (14 + a) + k
    BY <1>1
  <2>2. QED
    BY <1>2, <1>3, <2>1, Zenon
<1>5. u = v
  BY <1>2, <1>3, <1>4, SameBytes, Zenon
<1>6. QED
  BY <1>5 DEF u, v

(* An echo answer that is whole carries the answer to the Ip.              *)
LEMMA EchoOnWire ==
  ASSUME IInv, WInv, wire # <<>>, req.kind = "echo", Whole
  PROVE  \E p \in Ip : /\ IpAnswer(p, req) /\ Encodes(frame.payload, p)
                       /\ frame.payload \in Bytes /\ Len(frame.payload) >= 20
                       /\ wire \in Bytes /\ Len(wire) = 14 + Len(frame.payload)
                       /\ \A k \in 1..Len(frame.payload) : wire[14 + k] = frame.payload[k]
<1>1. PICK p \in Ip : IpAnswer(p, req) /\ Encodes(frame.payload, p)
  BY DEF WInv, OnWire, Carries
<1>2. frame \in EthernetFrame /\ wire \in Bytes
  BY DEF IInv, Typed, TypeOK
<1>3. frame.payload \in Bytes /\ Size(frame) = 14 + Len(frame.payload)
  BY <1>2, FrameStarts DEF EthernetFrame
<1>4. Len(frame.payload) >= 20
  BY <1>1, <1>3, IpParts, ZenonT(30)
<1>5. Len(frame.payload) \in Nat
  BY <1>3 DEF Bytes
<1>6. Len(wire) = 14 + Len(frame.payload)
  BY <1>3, Zenon DEF Whole
<1>7. Len(wire) > 14
  BY <1>4, <1>5, <1>6
<1>8. \A k \in 1..Len(frame.payload) : wire[14 + k] = frame.payload[k]
  BY <1>7, WholePayload, Zenon
<1>9. QED
  BY <1>1, <1>2, <1>3, <1>4, <1>6, <1>8, Zenon

(* Every layer of an answer on the wire goes back to where the request     *)
(* came from, for every request, hardware address and MTU.                 *)
THEOREM AnswersSenderHolds == Spec => []AnswersSender
<1>1. ASSUME IInv, WInv PROVE AnswersSender
  <2>1. SUFFICES ASSUME wire # <<>>
                 PROVE  /\ SubSeq(wire, 1, 6) = req.eth.src
                        /\ own_mac # NoMac => SubSeq(wire, 7, 12) = own_mac
                        /\ req.kind = "echo" /\ Whole => /\ SubSeq(wire, 31, 34) = req.ip.src
                                                         /\ SubSeq(wire, 27, 30) = req.ip.dst
    BY DEF AnswersSender
  <2>2. SubSeq(wire, 1, 6) = req.eth.src /\ (own_mac # NoMac => SubSeq(wire, 7, 12) = own_mac)
    <3> DEFINE m == IF Size(frame) <= mtu THEN 4 ELSE 3
    <3>1. /\ frame \in EthernetFrame /\ wire \in Bytes /\ Holds(wire, frame, m)
          /\ m \in {3, 4} /\ Addressed(frame, req, own_mac)
      BY <1>1, <2>1, Zenon DEF IInv, Typed, TypeOK, WInv, OnWire
    <3> HIDE DEF m
    <3>2. SubSeq(wire, 1, 6) = frame.dst /\ SubSeq(wire, 7, 12) = frame.src
      BY <3>1, HeaderIs, Zenon
    <3>3. QED
      BY <3>1, <3>2, Zenon DEF Addressed
  <2>3. ASSUME req.kind = "echo", Whole
        PROVE  SubSeq(wire, 31, 34) = req.ip.src /\ SubSeq(wire, 27, 30) = req.ip.dst
    <3> DEFINE b == frame.payload
    <3>1. PICK p \in Ip : /\ IpAnswer(p, req) /\ Encodes(b, p)
                          /\ b \in Bytes /\ Len(b) >= 20
                          /\ wire \in Bytes /\ Len(wire) = 14 + Len(b)
                          /\ \A k \in 1..Len(b) : wire[14 + k] = b[k]
      BY <1>1, <2>1, <2>3, EchoOnWire
    <3> HIDE DEF b
    <3>2. SubSeq(b, 13, 16) = p.src /\ SubSeq(b, 17, 20) = p.dst
      <4>1. p \in Ip /\ b \in Bytes /\ Encodes(b, p)
        BY <3>1
      <4>2. QED
        BY <4>1, IpParts
    <3>3. p.src = req.ip.dst /\ p.dst = req.ip.src
      BY <3>1, Zenon DEF IpAnswer
    <3>4. /\ 12 \in Nat /\ 4 \in Nat /\ 16 \in Nat /\ 12 + 4 <= Len(b) /\ 16 + 4 <= Len(b)
          /\ (14 + 12) + 1 = 27 /\ (14 + 12) + 4 = 30 /\ 12 + 1 = 13 /\ 12 + 4 = 16
          /\ (14 + 16) + 1 = 31 /\ (14 + 16) + 4 = 34 /\ 16 + 1 = 17 /\ 16 + 4 = 20
      BY <3>1 DEF Bytes
    <3>5. /\ SubSeq(wire, (14 + 12) + 1, (14 + 12) + 4) = SubSeq(b, 12 + 1, 12 + 4)
          /\ SubSeq(wire, (14 + 16) + 1, (14 + 16) + 4) = SubSeq(b, 16 + 1, 16 + 4)
      BY <3>1, <3>4, SliceBehind, ZenonT(30)
    <3>6. QED
      BY <3>2, <3>3, <3>4, <3>5, Zenon
  <2>4. QED
    BY <2>2, <2>3
<1>2. QED
  BY <1>1, WireInvariant, PTL

(* The bit fields that share a byte come apart again.                      *)
LEMMA BitFieldsApart ==
  /\ \A a \in 0..15, b \in 0..15 :
       /\ ((a * 16 + b) % 256) \div 16 = a
       /\ ((a * 16 + b) % 256) % 16 = b
  /\ \A a \in 0..63, b \in 0..3 :
       /\ ((a * 4 + b) % 256) \div 4 = a
       /\ ((a * 4 + b) % 256) % 4 = b
<1>1. ASSUME NEW a \in 0..15, NEW b \in 0..15
      PROVE  ((a * 16 + b) % 256) \div 16 = a /\ ((a * 16 + b) % 256) % 16 = b
  OBVIOUS
<1>2. ASSUME NEW a \in 0..63, NEW b \in 0..3
      PROVE  ((a * 4 + b) % 256) \div 4 = a /\ ((a * 4 + b) % 256) % 4 = b
  OBVIOUS
<1>3. QED
  BY <1>1, <1>2

(* The flags and the fragment offset share two.                            *)
LEMMA OffsetApart ==
  ASSUME NEW a \in 0..7, NEW o \in Nat, o < 8192
  PROVE  /\ (((a * 32 + ((o \div 256) % 32)) % 256) * 256 + (o % 256)) \div 8192 = a
         /\ (((a * 32 + ((o \div 256) % 32)) % 256) * 256 + (o % 256)) % 8192 = o
<1>1. PICK q \in Nat, r \in Nat : q = o \div 256 /\ r = o % 256 /\ o = q * 256 + r /\ r < 256 /\ q < 32
  OBVIOUS
<1>2. (o \div 256) % 32 = q
  BY <1>1
<1>3. (a * 32 + q) % 256 = a * 32 + q
  BY <1>1
<1>4. (a * 32 + q) * 256 + r = a * 8192 + o
  BY <1>1
<1>5. (a * 8192 + o) \div 8192 = a /\ (a * 8192 + o) % 8192 = o
  BY SMTT(20)
<1>6. QED
  BY <1>1, <1>2, <1>3, <1>4, <1>5

(* What try_to_stream() packs into shared bytes comes apart again, for     *)
(* every value the fields can hold.                                        *)
THEOREM BitFieldsSurviveHolds == Spec => []BitFieldsSurvive
<1>1. ASSUME IInv, WInv PROVE BitFieldsSurvive
  <2>1. SUFFICES ASSUME wire # <<>>, req.kind = "echo", Whole
                 PROVE  LET word == wire[21] * 256 + wire[22]
                        IN  /\ wire[15] \div 16 = req.ip.version
                            /\ wire[15] % 16 = req.ip.ihl
                            /\ wire[16] \div 4 = req.ip.dscp /\ wire[16] % 4 = req.ip.ecn
                            /\ word \div 8192 = req.ip.flags
                            /\ word % 8192 = req.ip.fragment_offset
    BY SMTT(20) DEF BitFieldsSurvive
  <2> DEFINE b == frame.payload
  <2>2. PICK p \in Ip : /\ IpAnswer(p, req) /\ Encodes(b, p)
                        /\ b \in Bytes /\ Len(b) >= 20
                        /\ wire \in Bytes /\ Len(wire) = 14 + Len(b)
                        /\ \A k \in 1..Len(b) : wire[14 + k] = b[k]
    BY <1>1, <2>1, EchoOnWire
  <2> HIDE DEF b
  <2>3. /\ b[1] = (p.version * 16 + p.ihl) % 256
        /\ b[2] = (p.dscp * 4 + p.ecn) % 256
        /\ b[7] = (p.flags * 32 + ((p.fragment_offset \div 256) % 32)) % 256
        /\ b[8] = p.fragment_offset % 256
    <3>1. p \in Ip /\ b \in Bytes /\ Encodes(b, p)
      BY <2>2
    <3>2. QED
      BY <3>1, IpParts
  <2>4. wire[15] = b[1] /\ wire[16] = b[2] /\ wire[21] = b[7] /\ wire[22] = b[8]
    <3>1. /\ 1 \in 1..Len(b) /\ 2 \in 1..Len(b) /\ 7 \in 1..Len(b) /\ 8 \in 1..Len(b)
          /\ 14 + 1 = 15 /\ 14 + 2 = 16 /\ 14 + 7 = 21 /\ 14 + 8 = 22
      BY <2>2 DEF Bytes
    <3>2. QED
      BY <2>2, <3>1, Zenon
  <2>5. /\ p.version \in 0..15 /\ p.ihl \in 0..15 /\ p.dscp \in 0..63 /\ p.ecn \in 0..3
        /\ p.flags \in 0..7 /\ p.fragment_offset \in Nat /\ p.fragment_offset < 8192
    BY DEF Ip
  <2>6. /\ p.version = req.ip.version /\ p.ihl = req.ip.ihl /\ p.dscp = req.ip.dscp
        /\ p.ecn = req.ip.ecn /\ p.flags = req.ip.flags
        /\ p.fragment_offset = req.ip.fragment_offset
    BY <2>2, Zenon DEF IpAnswer
  <2>7. /\ b[1] \div 16 = p.version /\ b[1] % 16 = p.ihl
        /\ b[2] \div 4 = p.dscp /\ b[2] % 4 = p.ecn
    BY <2>3, <2>5, BitFieldsApart
  <2>8. /\ (b[7] * 256 + b[8]) \div 8192 = p.flags
        /\ (b[7] * 256 + b[8]) % 8192 = p.fragment_offset
    <3>1. PICK a \in 0..7, o \in Nat : a = p.flags /\ o = p.fragment_offset /\ o < 8192
      BY <2>5
    <3>2. b[7] = (a * 32 + ((o \div 256) % 32)) % 256 /\ b[8] = o % 256
      BY <2>3, <3>1
    <3>3. (b[7] * 256 + b[8]) \div 8192 = a /\ (b[7] * 256 + b[8]) % 8192 = o
      <4>1. o < 8192
        BY <3>1
      <4>2. QED
        BY <4>1, <3>2, OffsetApart
    <3>4. QED
      BY <3>1, <3>3
  <2>9. QED
    BY <2>4, <2>6, <2>7, <2>8, SMTT(20)
<1>2. QED
  BY <1>1, WireInvariant, PTL

(* An ARP packet is twenty-eight bytes, its fields where they are read.    *)
LEMMA ArpStarts ==
  ASSUME NEW p \in Arp
  PROVE  /\ p \in Packet /\ Starts(p) = ArpAt /\ Len(Fields(p)) = 9
<1>1. p \in Packet /\ p.kind = "arp"
  BY DEF Packet, Arp
<1>2. Size(p) = 28
  BY <1>1 DEF Size
<1>3. Starts(p) = ArpAt
  BY <1>1, <1>2 DEF Starts, ArpAt
<1>4. Len(Fields(p)) = 9
  BY <1>1 DEF Fields, ArpFields
<1>5. QED
  BY <1>1, <1>3, <1>4

(* The numbers of ArpAt ascend to twenty-eight.                            *)
LEMMA ArpAtBounds ==
  \A k \in 1..9 : /\ ArpAt[k] \in Nat /\ ArpAt[k + 1] \in Nat
                  /\ ArpAt[k] <= ArpAt[k + 1] /\ ArpAt[k + 1] <= 28
BY DEF ArpAt

(* A slice of the bytes read is that slice of the bytes behind them.       *)
LEMMA SameSlice ==
  ASSUME NEW u \in Bytes, NEW v \in Bytes, NEW n \in Nat, n <= Len(u), n <= Len(v),
         \A k \in 1..n : u[k] = v[k],
         NEW e \in Nat, NEW j \in Nat, e <= j, j <= n
  PROVE  SubSeq(u, e + 1, j) = SubSeq(v, e + 1, j)
<1> DEFINE c == SubSeq(u, e + 1, j)
           d == SubSeq(v, e + 1, j)
<1>1. c \in Bytes /\ Len(c) = j - e /\ \A k \in 1..(j - e) : c[k] = u[e + k]
  BY DEF Bytes
<1>2. d \in Bytes /\ Len(d) = j - e /\ \A k \in 1..(j - e) : d[k] = v[e + k]
  BY DEF Bytes
<1> HIDE DEF c, d
<1>3. ASSUME NEW k \in 1..(j - e) PROVE c[k] = d[k]
  <2>1. e + k \in 1..n
    OBVIOUS
  <2>2. QED
    BY <1>1, <1>2, <2>1, Zenon
<1>4. c = d
  BY <1>1, <1>2, <1>3, SameBytes
<1>5. QED
  BY <1>4 DEF c, d

(* What copy_as_response() puts into the fields of an answer.              *)
LEMMA ArpAnswerFields ==
  ASSUME NEW p \in Arp, NEW mac \in MAC
  PROVE  Fields(copy_as_response(p, mac)) =
           <<U16(1), U16(2048), U8(6), U8(4), U16(2), mac, p.tpa, p.sha, p.spa>>
<1> DEFINE c == copy_as_response(p, mac)
           htype == U16(1)
           ptype == U16(2048)
           hlen == U8(6)
           plen == U8(4)
<1>1. c.kind = "arp" /\ c.oper = 2 /\ c.sha = mac /\ c.spa = p.tpa /\ c.tha = p.sha /\ c.tpa = p.spa
  BY DEF copy_as_response, Arp
<1> HIDE DEF c
<1>2. Fields(c) = <<htype, ptype, hlen, plen, U16(c.oper), c.sha, c.spa, c.tha, c.tpa>>
  <2>1. Fields(c) = ArpFields(c)
    BY <1>1 DEF Fields
  <2>2. QED
    BY <2>1 DEF ArpFields
<1> HIDE DEF htype, ptype, hlen, plen
<1>3. Fields(c) = <<htype, ptype, hlen, plen, U16(2), mac, p.tpa, p.sha, p.spa>>
  BY <1>1, <1>2, Zenon
<1>4. QED
  BY <1>3 DEF c, htype, ptype, hlen, plen

(* Arp::try_from_stream() reads the answer back, whatever the request.     *)
THEOREM ArpReadBackHolds == Spec => []ArpReadBack
<1>1. ASSUME IInv, WInv PROVE ArpReadBack
  <2>1. SUFFICES ASSUME pc = "decoded"
                 PROVE  /\ Len(is.buffer) >= 28
                        /\ got = <<U16(1), U16(2048), U8(6), U8(4), U16(2), own_mac,
                                   req.arp.tpa, req.arp.sha, req.arp.spa>>
    BY DEF ArpReadBack
  <2> DEFINE p == copy_as_response(req.arp, own_mac)
             b == frame.payload
             u == is.buffer
  <2>2. /\ req.kind = "arp" /\ Behind(is, wire) /\ Len(got) = 9 /\ TakenFrom(is, got)
    BY <1>1, <2>1, Zenon DEF WInv, Reading
  <2>3. /\ req \in Requests /\ own_mac \in MAC /\ wire \in Bytes /\ u \in Bytes
        /\ got \in Seq(Bytes)
    BY <1>1, NicAssumption DEF IInv, Typed, TypeOK, Streams, Bytes
  <2>4. req.arp \in Arp /\ p \in Arp
    BY <2>2, <2>3, RequestPackets, AnswerPackets
  <2>5. is.cursor = 28 /\ 28 <= Len(u)
    <3>1. is.cursor = ArpAt[9 + 1] /\ is.cursor <= Len(u)
      BY <2>2, Zenon DEF TakenFrom
    <3>2. ArpAt[9 + 1] = 28
      BY DEF ArpAt
    <3>3. QED
      BY <3>1, <3>2
  <2>6. /\ 14 + Len(u) <= Len(wire)
        /\ \A k \in 1..Len(u) : u[k] = wire[14 + k]
    BY <2>2, Zenon DEF Behind
  <2>7. /\ \A k \in 1..9 : got[k] = SubSeq(u, ArpAt[k] + 1, ArpAt[k + 1])
    BY <2>2, Zenon DEF TakenFrom
  <2> HIDE DEF u
  <2>8. Len(u) \in Nat /\ Len(wire) \in Nat /\ Len(wire) > 14 /\ wire # <<>>
    <3>1. Len(u) \in Nat /\ Len(wire) \in Nat
      BY <2>3 DEF Bytes
    <3>2. Len(wire) > 14
      BY <2>5, <2>6, <3>1
    <3>3. QED
      BY <3>1, <3>2
  <2>9. Encodes(b, p)
    BY <1>1, <2>2, <2>8, Zenon DEF WInv, OnWire, Carries
  <2>10. /\ b \in Bytes /\ Len(wire) = 14 + Len(b)
         /\ \A k \in 1..Len(b) : wire[14 + k] = b[k]
    BY <1>1, <2>8, WholePayload, Zenon
  <2> HIDE DEF b, p
  <2>11. p \in Packet /\ Starts(p) = ArpAt /\ Len(Fields(p)) = 9 /\ Holds(b, p, 9)
    BY <2>4, <2>9, ArpStarts, Zenon DEF Encodes
  <2>12. 28 <= Len(b) /\ \A k \in 1..28 : u[k] = b[k]
    <3>1. Len(b) \in Nat
      BY <2>10 DEF Bytes
    <3>2. 28 <= Len(b)
      BY <2>5, <2>6, <2>8, <2>10, <3>1
    <3>3. \A k \in 1..28 : k \in 1..Len(u) /\ k \in 1..Len(b)
      BY <2>5, <2>8, <3>1, <3>2
    <3>4. QED
      BY <2>6, <2>10, <3>2, <3>3, Zenon
  <2>13. ASSUME NEW k \in 1..9 PROVE got[k] = Fields(p)[k]
    <3> DEFINE e == ArpAt[k]
               j == ArpAt[k + 1]
    <3>1. e \in Nat /\ j \in Nat /\ e <= j /\ j <= 28
      BY ArpAtBounds
    <3>2. got[k] = SubSeq(u, e + 1, j)
      BY <2>7
    <3>3. Fields(p)[k] = SubSeq(b, e + 1, j)
      <4>1. 9 \in Nat /\ 9 <= Len(Fields(p))
        BY <2>11
      <4>2. SubSeq(b, Starts(p)[k] + 1, Starts(p)[k + 1]) = Fields(p)[k]
        BY <2>10, <2>11, <4>1, FieldAt, Zenon
      <4>3. QED
        BY <2>11, <4>2, Zenon
    <3> HIDE DEF e, j
    <3>4. SubSeq(u, e + 1, j) = SubSeq(b, e + 1, j)
      <4>1. PICK n \in Nat : n = 28
        OBVIOUS
      <4>2. /\ u \in Bytes /\ b \in Bytes /\ n <= Len(u) /\ n <= Len(b)
            /\ \A m \in 1..n : u[m] = b[m]
        BY <2>3, <2>5, <2>10, <2>12, <4>1, Zenon
      <4>3. e \in Nat /\ j \in Nat /\ e <= j /\ j <= n
        BY <3>1, <4>1, Zenon
      <4>4. QED
        BY <4>2, <4>3, SameSlice
    <3>5. QED
      BY <3>2, <3>3, <3>4, Zenon
  <2>14. got = Fields(p)
    <3>1. Fields(p) \in Seq(Bytes)
      BY <2>11, FieldsBytes
    <3>2. QED
      BY <2>2, <2>3, <2>11, <2>13, <3>1
  <2>15. Fields(p) = <<U16(1), U16(2048), U8(6), U8(4), U16(2), own_mac,
                       req.arp.tpa, req.arp.sha, req.arp.spa>>
    BY <2>3, <2>4, ArpAnswerFields DEF p
  <2>16. QED
    BY <2>5, <2>8, <2>14, <2>15 DEF u
<1>2. QED
  BY <1>1, WireInvariant, PTL
=============================================================================
