------------------------------- MODULE MCNic -------------------------------
(***************************************************************************)
(* Requests for TLC: bytes at both ends of their range, payloads of even   *)
(* and odd length, and two that fill the smallest MTU exactly and exceed   *)
(* it by one byte.                                                         *)
(***************************************************************************)
EXTENDS Nic

Peer == <<2, 0, 0, 0, 0, 7>>
Own == <<2, 0, 0, 0, 0, 9>>
Zeros == <<0, 0, 0, 0, 0, 0>>
Scrap == {Zeros, <<170, 170, 170, 170, 170, 170>>}

Fill(n, b) == [k \in 1..n |-> b]

Payloads == {<<>>, <<1>>, <<255, 255>>, <<255, 255, 255>>, Fill(6, 0),
             Fill(26, 255), Fill(27, 1)}

Icmps == [kind : {"icmp"}, type : {EchoRequest}, code : {0, 255}, checksum : {4660},
          rest : {<<0, 0, 0, 0>>, <<255, 255, 255, 255>>}, payload : Payloads]
         \cup [kind : {"icmp"}, type : {EchoReply}, code : {0}, checksum : {0},
               rest : {<<0, 0, 0, 1>>}, payload : {<<>>}]

IpOf(message, flags, offset) ==
  [kind |-> "ip", version |-> 4, ihl |-> 5, dscp |-> 63, ecn |-> 1,
   total_length |-> 20 + Size(message), identification |-> 65535, flags |-> flags,
   fragment_offset |-> offset, ttl |-> 1, protocol |-> 1, checksum |-> 1,
   src |-> <<10, 0, 0, 1>>, dst |-> <<10, 0, 0, 2>>, payload |-> Buffer(Size(message))]

Eth(ethertype, size) == [kind |-> "eth", dst |-> Own, src |-> Peer,
                         ethertype |-> ethertype, payload |-> Buffer(size)]

MCRequests ==
  {[kind |-> "echo", icmp |-> m, ip |-> IpOf(m, f[1], f[2]), eth |-> Eth(2048, 20 + Size(m))] :
     m \in Icmps, f \in {<<2, 0>>, <<7, 8191>>}}
  \cup {[kind |-> "arp", eth |-> Eth(2054, 28),
         arp |-> [kind |-> "arp", oper |-> 1, sha |-> Peer, spa |-> <<10, 0, 0, 1>>,
                  tha |-> Zeros, tpa |-> <<10, 0, 0, 2>>]]}
=============================================================================
