-------------------------------- MODULE Nic --------------------------------
(***************************************************************************)
(* include/nic/device.hpp and the packets it carries: a TAP device is set  *)
(* up, a request is answered layer by layer, the answer is written to the  *)
(* device, and an ARP answer is decoded again by the same code. Every      *)
(* field a stream writes or reads and every word of a checksum is a step.  *)
(*                                                                         *)
(* Nothing in the program calls this code yet. Request is the caller: an   *)
(* echo request answered by an Icmp in an Ip in an EthernetFrame, or an    *)
(* ARP request answered by an Arp in an EthernetFrame.                     *)
(***************************************************************************)
EXTENDS Packets

CONSTANTS
  Requests,   \* the requests: an eth record, and arp, or ip and icmp
  MTUs,       \* what SIOCGIFMTU may report
  HwAddr,     \* the hardware address of eth0
  NoMac,      \* the address MAC::is_default() looks for
  AnyMac,     \* what an uninitialised MAC may hold
  ReadSizes   \* how many bytes a decoder may be given

(* The Icmp of an echo request is what its Ip carries. A TAP device's MTU  *)
(* leaves room for an Ethernet header: Linux accepts none below 68.        *)
ASSUME NicAssumption ==
  /\ \A r \in Requests : /\ r.eth \in EthernetFrame
                         /\ r.kind = "echo" => /\ r.icmp \in Icmp /\ r.ip \in Ip
                                              /\ Len(r.ip.payload) = Size(r.icmp)
                         /\ r.kind = "arp" => r.arp \in Arp
  /\ MTUs \subseteq Nat /\ ReadSizes \subseteq Nat
  /\ \A m \in MTUs : m >= 14
  /\ {HwAddr, NoMac} \cup AnyMac \subseteq MAC

VARIABLES
  pc,        \* where the thread is
  fds,       \* the file descriptors try_new() has open
  mtu,       \* Device::maximum_transmission_unit
  own_mac,   \* Device::own_mac
  req,       \* the request being answered
  frame,     \* the EthernetFrame of the answer
  pkt,       \* the packet that is being written
  use,       \* what for: "sum", "payload" or "wire"
  os,        \* the ByteOStream
  todo,      \* the fields its try_to_stream() has still to write
  asked,     \* all it has written or tried to write
  acc,       \* the accumulator of the checksum loop
  i,         \* and its index
  total,     \* the plain sum of the words it has seen
  wire,      \* the frame the device has taken
  decoding,  \* the kind of packet a try_from_stream() reads
  is,        \* its ByteIStream
  got        \* and the fields it has read

device == <<fds, mtu, own_mac>>
answer == <<req, frame>>
output == <<pkt, use, os, todo, asked>>
loop == <<acc, i, total>>
input == <<decoding, is, got>>
vars == <<pc, device, answer, output, loop, wire, input>>

Init ==
  /\ pc = "open"
  /\ fds = {} /\ mtu = 0 /\ own_mac = NoMac
  /\ req \in Requests /\ frame = req.eth
  /\ pkt = req.eth /\ use = "wire" /\ os = Stream(<<>>) /\ todo = <<>> /\ asked = <<>>
  /\ acc = 0 /\ i = 0 /\ total = 0
  /\ wire = <<>>
  /\ decoding = "eth" /\ is = Stream(<<>>) /\ got = <<>>

Goto(from, to) == pc = from /\ pc' = to

-----------------------------------------------------------------------------
(* Device::try_new.                                                        *)

OpenTun ==
  /\ \/ Goto("open", "tunsetiff") /\ fds' = {"tun"}
     \/ Goto("open", "aborted") /\ UNCHANGED fds
  /\ UNCHANGED <<mtu, own_mac, answer, output, loop, wire, input>>

SetIff ==
  /\ \/ Goto("tunsetiff", "mac") /\ UNCHANGED fds
     \/ Goto("tunsetiff", "none") /\ fds' = {}
  /\ UNCHANGED <<mtu, own_mac, answer, output, loop, wire, input>>

(* Its own socket is closed on every path; without an address the MAC      *)
(* returned was never initialised.                                         *)
system_addr ==
  /\ Goto("mac", "socket")
  /\ own_mac' \in {HwAddr} \cup AnyMac
  /\ UNCHANGED <<fds, mtu, answer, output, loop, wire, input>>

OpenSocket ==
  /\ \/ Goto("socket", "mtu") /\ fds' = fds \cup {"sock"}
     \/ Goto("socket", "none") /\ fds' = {}
  /\ UNCHANGED <<mtu, own_mac, answer, output, loop, wire, input>>

(* Mutant: the socket is not closed when the MTU is known.                 *)
GetMtu_Open ==
  /\ \/ Goto("mtu", "idle") /\ mtu' \in MTUs /\ UNCHANGED fds
     \/ Goto("mtu", "none") /\ UNCHANGED mtu /\ fds' = fds \ {"sock"}
  /\ UNCHANGED <<own_mac, answer, output, loop, wire, input>>

(* The ioctls before this one only log a failure. When this one fails the  *)
(* descriptor of /dev/net/tun stays open.                                  *)
GetMtu ==
  /\ \/ Goto("mtu", "idle") /\ mtu' \in MTUs
     \/ Goto("mtu", "none") /\ UNCHANGED mtu
  /\ fds' = fds \ {"sock"}
  /\ UNCHANGED <<own_mac, answer, output, loop, wire, input>>

-----------------------------------------------------------------------------
(* Writing a packet to a stream.                                           *)

Begin(p, u, size) ==
  /\ pc' = "write"
  /\ pkt' = p /\ use' = u
  /\ os' = Stream(Buffer(size))
  /\ todo' = Fields(p) /\ asked' = <<>>

BeginChecksum(p) == Begin(p, "sum", Padded(Size(p)))

(* One write_u8(), write_u16(), write_array() or write_buffer().           *)
WriteField ==
  /\ pc = "write" /\ todo # <<>>
  /\ os' = Write(os, Head(todo))
  /\ todo' = Tail(todo)
  /\ asked' = asked \o Head(todo)
  /\ UNCHANGED <<pc, device, answer, pkt, use, loop, wire, input>>

Written(u) == pc = "write" /\ todo = <<>> /\ use = u

-----------------------------------------------------------------------------
(* Device::write_eth: a buffer of MTU bytes, header included.              *)
BeginWire(f) == Begin(f, "wire", mtu)

(* Icmp::clone_as_echo_response, up to the call of calculate_checksum().   *)
EchoAnswer ==
  /\ pc = "idle" /\ req.kind = "echo"
  /\ IF req.icmp.type = EchoRequest
     THEN BeginChecksum([req.icmp EXCEPT !.type = EchoReply])
     ELSE pc' = "aborted" /\ UNCHANGED output
  /\ UNCHANGED <<device, answer, loop, wire, input>>

(* EthernetFrame::clone_as_response, which sets the source address only    *)
(* for an override_sender that is not all zeros.                           *)
EthResponse(ethertype, size) ==
  \E src \in IF own_mac = NoMac THEN AnyMac ELSE {own_mac} :
    frame' = [kind |-> "eth", dst |-> req.eth.src, src |-> src,
              ethertype |-> ethertype, payload |-> Buffer(size)]

ArpAnswer ==
  /\ pc = "idle" /\ req.kind = "arp"
  /\ EthResponse(2054, 28)
  /\ Begin(copy_as_response(req.arp, own_mac), "payload", 28)
  /\ UNCHANGED <<device, req, loop, wire, input>>

(* calculate_checksum() blanks the field and constructs the checksum,      *)
(* which asserts an even, positive size.                                   *)
StartSum ==
  /\ Written("sum")
  /\ pc' = IF Len(os.buffer) > 0 /\ Len(os.buffer) % 2 = 0 THEN "sum" ELSE "aborted"
  /\ os' = [os EXCEPT !.buffer = ZeroChecksum(pkt, os.buffer)]
  /\ acc' = 0 /\ i' = 0 /\ total' = 0
  /\ UNCHANGED <<device, answer, pkt, use, todo, asked, wire, input>>

Word == os.buffer[i + 1] * 256 + os.buffer[i + 2]

AddWord ==
  /\ pc = "sum" /\ i < Len(os.buffer)
  /\ acc' = AddCarry(acc, Word)
  /\ i' = i + 2
  /\ total' = total + Word
  /\ UNCHANGED <<pc, device, answer, output, wire, input>>

(* The checksum is stored, and the caller writes the packet: an Icmp to    *)
(* the payload of its Ip, an Ip to the payload of its EthernetFrame.       *)
SetChecksum ==
  /\ pc = "sum" /\ i >= Len(os.buffer)
  /\ Begin([pkt EXCEPT !.checksum = Complement(acc)], "payload", Size(pkt))
  /\ IF pkt.kind = "ip" THEN EthResponse(2048, Size(pkt)) ELSE UNCHANGED frame
  /\ UNCHANGED <<device, req, loop, wire, input>>

PayloadWritten ==
  /\ Written("payload")
  /\ IF pkt.kind = "icmp"
     THEN /\ BeginChecksum(clone_as_response(req.ip, os.buffer))
          /\ UNCHANGED frame
     ELSE /\ frame' = [frame EXCEPT !.payload = os.buffer]
          /\ BeginWire(frame')
  /\ UNCHANGED <<device, req, loop, wire, input>>

(* write(): a TAP device takes a frame whole or refuses it, and the result *)
(* is only logged.                                                         *)
WireWritten ==
  /\ Written("wire")
  /\ pc' = "sent"
  /\ wire' = SubSeq(os.buffer, 1, os.cursor) \/ UNCHANGED wire
  /\ UNCHANGED <<device, answer, output, loop, input>>

-----------------------------------------------------------------------------
(* Reading a packet from a stream.                                         *)

Decode(kind, bytes) ==
  pc' = "read" /\ decoding' = kind /\ is' = Stream(bytes) /\ got' = <<>>

(* Device::read_next_eth: a failed or a short read aborts.                 *)
read_next_eth ==
  /\ pc = "idle"
  /\ \/ pc' = "aborted" /\ UNCHANGED input
     \/ \E n \in ReadSizes : n >= 14 /\ Decode("eth", Buffer(n))
  /\ UNCHANGED <<device, answer, output, loop, wire>>

(* The receiver of the frame, running the same code on its payload, or on  *)
(* the payload of its payload, of which n bytes have arrived.              *)
Receive ==
  /\ pc = "sent"
  /\ \E n \in ReadSizes :
       \/ /\ 14 + n <= Len(wire)
          /\ Decode(IF req.kind = "arp" THEN "arp" ELSE "ip", SubSeq(wire, 15, 14 + n))
       \/ /\ req.kind = "echo" /\ 34 + n <= Len(wire)
          /\ Decode("icmp", SubSeq(wire, 35, 34 + n))
  /\ UNCHANGED <<device, answer, output, loop, wire>>

ReadField ==
  /\ pc = "read" /\ Len(got) < Len(Widths(decoding))
  /\ LET size == Widths(decoding)[Len(got) + 1]
     IN  got' = Append(got, Taken(is, size)) /\ is' = Advance(is, size)
  /\ UNCHANGED <<pc, device, answer, output, loop, wire, decoding>>

(* All but Arp go on to read_buffer(), which asserts false; Arp asserts    *)
(* that nothing was missing.                                               *)
FinishDecode ==
  /\ pc = "read" /\ Len(got) = Len(Widths(decoding))
  /\ pc' = IF decoding = "arp" /\ is.errc = "Ok" THEN "decoded" ELSE "aborted"
  /\ UNCHANGED <<device, answer, output, loop, wire, input>>

try_new == OpenTun \/ SetIff \/ system_addr \/ OpenSocket \/ GetMtu

Working ==
  \/ WriteField \/ StartSum \/ AddWord \/ SetChecksum \/ PayloadWritten \/ WireWritten
  \/ ReadField \/ FinishDecode

Next == try_new \/ EchoAnswer \/ ArpAnswer \/ read_next_eth \/ Receive \/ Working

Spec == Init /\ [][Next]_vars /\ WF_vars(Working)

-----------------------------------------------------------------------------
(* The variables stay in their types.                                      *)
TypeOK ==
  /\ pc \in {"open", "tunsetiff", "mac", "socket", "mtu", "none", "idle", "write",
             "sum", "sent", "read", "decoded", "aborted"}
  /\ fds \subseteq {"tun", "sock"}
  /\ mtu \in MTUs \cup {0}
  /\ own_mac \in {HwAddr, NoMac} \cup AnyMac
  /\ use \in {"sum", "payload", "wire"}
  /\ os \in Streams /\ is \in Streams
  /\ asked \in Bytes /\ wire \in Bytes
  /\ acc \in Nat /\ i \in Nat /\ total \in Nat

(* A ByteOStream whose errc is Ok holds exactly what it was asked to       *)
(* write, in order, up to its cursor, and the zeros of the new Buffer      *)
(* behind it; the cursor stays in the buffer whatever was asked.           *)
StreamExact ==
  /\ os.cursor <= Len(os.buffer)
  /\ pc = "write" /\ os.errc = "Ok" =>
       /\ os.cursor = Len(asked)
       /\ \A k \in 1..Len(os.buffer) :
            os.buffer[k] = IF k <= os.cursor THEN asked[k] ELSE 0

(* The checksum loop, which carries after each word, computes the one's    *)
(* complement sum: it differs from the plain sum by a multiple of 65535,   *)
(* fits 16 bits, and is zero only if every word was.                       *)
SumCongruent ==
  pc = "sum" => /\ acc <= 65535
                /\ acc % 65535 = total % 65535
                /\ acc = 0 <=> total = 0

(* The receiver's check: an odd last byte is a word's high byte.           *)
WordSum(bytes) ==
  LET s[k \in 0..Len(bytes)] ==
        IF k = 0 THEN 0 ELSE s[k - 1] + (IF k % 2 = 1 THEN 256 * bytes[k] ELSE bytes[k])
  IN  s[Len(bytes)]

Verifies(bytes) == WordSum(bytes) > 0 /\ WordSum(bytes) % 65535 = 0

Whole == Len(wire) = Size(frame)

(* An echo answer that reaches the wire whole is accepted: the checksums   *)
(* of its Icmp and of its Ip header verify and total_length is its length. *)
(* That calculate_checksum() of Ip sums the payload too does no harm here, *)
(* because a message with a right Icmp checksum adds nothing; nor does     *)
(* taking the length from the request, whose message is as long.           *)
EchoAccepted ==
  wire # <<>> /\ req.kind = "echo" /\ Whole =>
    /\ Verifies(SubSeq(wire, 35, Len(wire)))
    /\ Verifies(SubSeq(wire, 15, 34))
    /\ SubSeq(wire, 17, 18) = U16(Len(wire) - 14)

(* What try_to_stream() packs into shared bytes, the masks and shifts of   *)
(* try_from_stream() take apart again.                                     *)
BitFieldsSurvive ==
  wire # <<>> /\ req.kind = "echo" /\ Whole =>
    LET word == wire[21] * 256 + wire[22]
    IN  /\ wire[15] \div 16 = req.ip.version /\ wire[15] % 16 = req.ip.ihl
        /\ wire[16] \div 4 = req.ip.dscp /\ wire[16] % 4 = req.ip.ecn
        /\ word \div 8192 = req.ip.flags /\ word % 8192 = req.ip.fragment_offset

(* write_eth() sends a frame whole, or, when header and payload exceed the *)
(* MTU, its header alone: never a part of the payload.                     *)
FrameWholeOrBare ==
  wire # <<>> =>
    /\ SubSeq(wire, 1, 14) = frame.dst \o frame.src \o U16(frame.ethertype)
    /\ SubSeq(wire, 15, Len(wire)) = IF Size(frame) <= mtu THEN frame.payload ELSE <<>>

(* Every layer of an answer on the wire goes back to where the request     *)
(* came from. Its Ip comes from where the request went to, its frame from  *)
(* this device, if that knows an address of its own.                       *)
AnswersSender ==
  wire # <<>> =>
    /\ SubSeq(wire, 1, 6) = req.eth.src
    /\ own_mac # NoMac => SubSeq(wire, 7, 12) = own_mac
    /\ req.kind = "echo" /\ Whole => /\ SubSeq(wire, 31, 34) = req.ip.src
                                     /\ SubSeq(wire, 27, 30) = req.ip.dst

(* Arp::try_from_stream() reads back what copy_as_response() and           *)
(* try_to_stream() made of the request, and only from all of its bytes.    *)
ArpReadBack ==
  pc = "decoded" => /\ Len(is.buffer) >= 28
                    /\ got = <<U16(1), U16(2048), U8(6), U8(4), U16(2), own_mac,
                               req.arp.tpa, req.arp.sha, req.arp.spa>>

(* try_new() keeps its socket on no path, and a Device that is handed out  *)
(* owns the descriptor of /dev/net/tun.                                    *)
FdsAccounted ==
  /\ pc \notin {"mtu"} => "sock" \notin fds
  /\ pc \in {"idle", "write", "sum", "sent"} => fds = {"tun"}

(* An answer that was begun is handed to write(), which may still refuse   *)
(* it: the field and checksum loops end, and none of the assertions on the *)
(* way fails.                                                              *)
AnswerSent == pc = "write" ~> pc = "sent"
=============================================================================
