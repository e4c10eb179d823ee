------------------------------ MODULE Packets ------------------------------
(***************************************************************************)
(* include/nic: the four packet formats. A packet is a record with a kind; *)
(* Fields gives the bytes its try_to_stream() hands to the stream, one     *)
(* element for each call. The bit fields of an Ip hold what the masks of   *)
(* Ip::try_from_stream() let through.                                      *)
(***************************************************************************)
EXTENDS ByteStream

Word16 == {n \in Nat : n < 65536}
Bytes == Seq(Byte)

(* std::array<u8, n>.                                                      *)
Octets(n) == {b \in Bytes : Len(b) = n}

MAC == Octets(6)
IPv4 == Octets(4)

Icmp == [kind : {"icmp"}, type : Byte, code : Byte, checksum : Word16, rest : Octets(4),
         payload : Bytes]

Ip == [kind : {"ip"}, version : 0..15, ihl : 0..15, dscp : 0..63, ecn : 0..3,
       total_length : Word16, identification : Word16, flags : 0..7,
       fragment_offset : {n \in Nat : n < 8192}, ttl : Byte, protocol : Byte, checksum : Word16,
       src : IPv4, dst : IPv4, payload : Bytes]

Arp == [kind : {"arp"}, oper : Word16, sha : MAC, spa : IPv4, tha : MAC, tpa : IPv4]

EthernetFrame == [kind : {"eth"}, dst : MAC, src : MAC, ethertype : Word16,
                  payload : Bytes]

EchoReply == 0
EchoRequest == 8

(* Mutant: the high bits of the fragment offset lose the flags.            *)
IpFields_NoFlags(p) ==
  <<U8(p.version * 16 + p.ihl), U8(p.dscp * 4 + p.ecn),
    U16(p.total_length), U16(p.identification),
    U8((p.fragment_offset \div 256) % 32), U8(p.fragment_offset),
    U8(p.ttl), U8(p.protocol), U16(p.checksum), p.src, p.dst, p.payload>>

IpFields(p) ==
  <<U8(p.version * 16 + p.ihl), U8(p.dscp * 4 + p.ecn),
    U16(p.total_length), U16(p.identification),
    U8(p.flags * 32 + ((p.fragment_offset \div 256) % 32)), U8(p.fragment_offset),
    U8(p.ttl), U8(p.protocol), U16(p.checksum), p.src, p.dst, p.payload>>

IcmpFields(p) == <<U8(p.type), U8(p.code), U16(p.checksum), p.rest, p.payload>>

(* ArpIPv4: htype 1, ptype 0x0800, hlen 6, plen 4.                         *)
ArpFields(p) == <<U16(1), U16(2048), U8(6), U8(4), U16(p.oper),
                  p.sha, p.spa, p.tha, p.tpa>>

EthFields(p) == <<p.dst, p.src, U16(p.ethertype), p.payload>>

Fields(p) == CASE p.kind = "icmp" -> IcmpFields(p)
               [] p.kind = "ip"   -> IpFields(p)
               [] p.kind = "arp"  -> ArpFields(p)
               [] p.kind = "eth"  -> EthFields(p)

(* The sizes try_from_stream() reads, the payload apart.                   *)
Widths(kind) == CASE kind = "icmp" -> <<1, 1, 2, 4>>
                  [] kind = "ip"   -> <<1, 1, 2, 2, 2, 1, 1, 2, 4, 4>>
                  [] kind = "arp"  -> <<2, 2, 1, 1, 2, 6, 4, 6, 4>>
                  [] kind = "eth"  -> <<6, 6, 2>>

(* size() and buffer_size().                                               *)
Size(p) == CASE p.kind = "icmp" -> 8 + Len(p.payload)
             [] p.kind = "ip"   -> 20 + Len(p.payload)
             [] p.kind = "arp"  -> 28
             [] p.kind = "eth"  -> 14 + Len(p.payload)

(* Mutant: nothing is rounded up.                                          *)
Padded_Not(n) == n

(* The round-up to a multiple of two in calculate_checksum().              *)
Padded(n) == n + (n % 2)

(* Where calculate_checksum() blanks the field.                            *)
ChecksumAt(p) == IF p.kind = "icmp" THEN 2 ELSE 10

(* Mutant: the checksum of the request is summed with the rest.            *)
ZeroChecksum_Kept(p, buffer) == buffer

ZeroChecksum(p, buffer) ==
  [i \in 1..Len(buffer) |->
     IF i \in {ChecksumAt(p) + 1, ChecksumAt(p) + 2} THEN 0 ELSE buffer[i]]

(* Mutant: the carry is dropped.                                           *)
AddCarry_Dropped(acc, word) == (acc + word) % 65536

(* One turn of the loop of checksum::checksum(std::span<u8>).              *)
AddCarry(acc, word) ==
  IF acc + word > 65535 THEN ((acc + word) % 65536) + 1 ELSE acc + word

(* After the loop: the last fold, and the complement.                      *)
Complement(acc) == 65535 - (((acc % 65536) + (acc \div 65536)) % 65536)

-----------------------------------------------------------------------------
(* Answers.                                                                *)

(* Mutant: the hardware addresses are swapped, the protocol ones are not.  *)
copy_as_response_SameIps(p, mac) ==
  [p EXCEPT !.oper = 2, !.sha = mac, !.tha = p.sha]

copy_as_response(p, mac) ==
  [p EXCEPT !.oper = 2, !.sha = mac, !.spa = p.tpa, !.tha = p.sha, !.tpa = p.spa]

(* Mutant: the addresses are kept.                                         *)
clone_as_response_NoSwap(p, payload) ==
  [p EXCEPT !.payload = payload, !.total_length = Size(p) % 65536, !.ttl = 64]

(* Up to the call of calculate_checksum(). The length is buffer_size() of  *)
(* the request, not of the response.                                       *)
clone_as_response(p, payload) ==
  [p EXCEPT !.payload = payload, !.total_length = Size(p) % 65536, !.ttl = 64,
            !.src = p.dst, !.dst = p.src]
=============================================================================
