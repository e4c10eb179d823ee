------------------------------- MODULE Socks5 -------------------------------
(***************************************************************************)
(* include/socks5/server.hpp: one connection of the SOCKS5 server, from    *)
(* accept() to the two forwarding loops. Connections share nothing, so one *)
(* stands for all. A peer's bytes arrive in arbitrary pieces; a read takes *)
(* some of those that are there. The submission of a read, its completion  *)
(* in _handle_pending() and the coroutine's code up to its next co_await   *)
(* are one action: only this coroutine touches the buffer in between.      *)
(*                                                                         *)
(* The 2 and 10 constant bytes of the server's replies are one symbol each.*)
(***************************************************************************)
EXTENDS Naturals, Sequences

CONSTANTS
  Streams,       \* what the client may send, as sequences of bytes
  RemoteStream,  \* what the remote sends
  Bytes,         \* what an uninitialised byte may hold
  Garbage,       \* an uninitialised address or port
  MethodReply, ConnectReply,
  Errnos,        \* the errors of a read, other than a connection reset
  MaxRounds      \* bound on the rounds of the forwarding loop from a peer

Byte == 0..255
Addrs == {a \in Seq(Byte) : Len(a) = 4} \cup {Garbage}
Ports == {n \in Nat : n < 65536} \cup {Garbage}

(* The smallest error a read reports is EINTR, 4.                          *)
ASSUME Socks5Assumption ==
  /\ Streams \subseteq Seq(Byte) /\ RemoteStream \in Seq(Byte)
  /\ \A e \in Errnos : e \in Nat /\ e >= 4
  /\ MaxRounds["client"] \in Nat /\ MaxRounds["remote"] \in Nat

VARIABLES
  pc,         \* where handle_client_handshake() awaits
  stream,     \* what each peer sends
  closes,     \* whether the peers close their side after it
  taken,      \* how much of a peer's stream has been read
  buffer,     \* the handshake's vector
  cursor,     \* and its ByteIStream
  target,     \* the address and port parsed so far
  failed,     \* some read reported an error
  forwarding, \* the peers whose forward_connection_data_() is not lost
  fwd,        \* that coroutine's vector
  rounds,     \* and the number of times it went round
  inflight    \* writes submitted for a peer and not carried out yet

handshake == <<pc, buffer, cursor, target>>
relay == <<forwarding, fwd, rounds>>
vars == <<handshake, stream, closes, taken, failed, relay, inflight>>

Peers == {"client", "remote"}
Other(p) == CHOOSE q \in Peers : q # p

Awaiting == {"accept", "greeting", "methods", "request", "address", "port", "connect"}
Stopped == {"closed", "suspended", "terminated"}

TypeOK ==
  /\ pc \in Awaiting \cup Stopped \cup {"relay"}
  /\ \A p \in Peers : taken[p] \in 0..Len(stream[p])
  /\ cursor \in 0..taken["client"] /\ Len(buffer) <= taken["client"]
  /\ target.addr \in Addrs /\ target.port \in Ports
  /\ \A p \in Peers : rounds[p] \in 0..MaxRounds[p] /\ Len(fwd[p]) <= taken[p]
  /\ forwarding \subseteq Peers
  /\ closes \in BOOLEAN /\ failed \in BOOLEAN

Init ==
  /\ pc = "accept"
  /\ \E s \in Streams : stream = [client |-> s, remote |-> RemoteStream]
  /\ closes \in BOOLEAN
  /\ taken = [p \in Peers |-> 0]
  /\ buffer = <<>> /\ cursor = 0
  /\ target = [addr |-> Garbage, port |-> Garbage]
  /\ failed = FALSE
  /\ forwarding = {}
  /\ fwd = [p \in Peers |-> <<>>]
  /\ rounds = [p \in Peers |-> 0]
  /\ inflight = [p \in Peers |-> <<>>]

-----------------------------------------------------------------------------
(* submit_read_some() into a vector                                        *)

(* A negative result converted to sz: larger than any size asked for.      *)
Wrapped == 1000000

(* How many bytes a read of n from p may return; 0 is the end of the stream*)
Counts(p, n) ==
  LET left == Len(stream[p]) - taken[p]
  IN  IF n = 0 THEN {0}
      ELSE {k \in 1..left : k <= n} \cup {k \in {0} : left = 0 /\ closes}

Got(p, buf, k) ==
  [read |-> k, taken |-> taken[p] + k,
   buf |-> buf \o SubSeq(stream[p], taken[p] + 1, taken[p] + k)]

(* resize(initial_size + read) with a negative read takes bytes away.      *)
Cut(p, buf, e) ==
  [read |-> Wrapped, taken |-> taken[p], buf |-> SubSeq(buf, 1, Len(buf) - e)]

Results(p, buf, n) ==
  {Got(p, buf, k) : k \in Counts(p, n)}
    \cup {Cut(p, buf, e) : e \in {e \in Errnos : e <= Len(buf)}}

(* The bookkeeping of a read with result r.                                *)
Returns(p, r) ==
  /\ taken' = [taken EXCEPT ![p] = r.taken]
  /\ failed' = (failed \/ r.read = Wrapped)

(* resize() to a wrapped size throws in the event loop, which nothing      *)
(* catches.                                                                *)
ResizeThrows(buf) == \E e \in Errnos : e > Len(buf)

-----------------------------------------------------------------------------
(* ByteIStream                                                             *)

Fits(buf, w) == cursor + w <= Len(buf)

(* The i-th of several read_u8() in a row; past the end the output keeps   *)
(* what it held, one of old.                                               *)
read_u8(buf, i, old) == IF Fits(buf, i) THEN {buf[cursor + i]} ELSE old

(* Mutant: a read past the end advances the cursor all the same.          *)
Skip_Always(buf, w) == cursor + w

(* A read past the end leaves the cursor.                                  *)
Skip(buf, w) == IF Fits(buf, w) THEN cursor + w ELSE cursor

read_array(buf) ==
  IF Fits(buf, 4) THEN SubSeq(buf, cursor + 1, cursor + 4) ELSE Garbage

(* Mutant: the low byte comes first.                                       *)
read_u16_LowFirst(buf) ==
  IF Fits(buf, 2) THEN buf[cursor + 2] * 256 + buf[cursor + 1] ELSE Garbage

read_u16(buf) ==
  IF Fits(buf, 2) THEN buf[cursor + 1] * 256 + buf[cursor + 2] ELSE Garbage

-----------------------------------------------------------------------------
(* handle_client_handshake()                                               *)

submit_write_some(p, bytes) == inflight' = [inflight EXCEPT ![p] = Append(@, bytes)]

(* serve_socks5() accepts and spawns the handshake. A negative result is   *)
(* accepted too; the first read from it then fails.                        *)
Accept ==
  /\ pc = "accept"
  /\ pc' = "greeting"
  /\ UNCHANGED <<stream, closes, taken, buffer, cursor, target, failed, relay,
                 inflight>>

(* co_return: the frame is destroyed, and with it the client's Socket.     *)
Close == pc' = "closed" /\ UNCHANGED <<cursor, target, inflight>>

AfterGreeting(r) ==
  \/ r.read < 2 /\ Close
  \/ /\ r.read >= 2
     /\ \E version \in read_u8(r.buf, 1, Bytes) :
          pc' = IF version = 5 THEN "methods" ELSE "closed"
     /\ cursor' = Skip(r.buf, 2)
     /\ UNCHANGED <<target, inflight>>

(* nmethods was the second byte. The loop scans all that is left.          *)
nmethods == buffer[2]

Offered(buf) == {buf[i] : i \in cursor + 1..Len(buf)}

(* Mutant: the result of the loop, is_ok, is not looked at.                *)
AfterMethods_Unchecked(r) ==
  /\ r.read >= nmethods
  /\ cursor' = Len(r.buf)
  /\ pc' = "request" /\ submit_write_some("client", <<MethodReply>>)
  /\ UNCHANGED target

AfterMethods(r) ==
  \/ r.read < nmethods /\ Close
  \/ /\ r.read >= nmethods
     /\ cursor' = Len(r.buf)
     /\ IF 0 \in Offered(r.buf)
        THEN pc' = "request" /\ submit_write_some("client", <<MethodReply>>)
        ELSE pc' = "closed" /\ UNCHANGED inflight
     /\ UNCHANGED target

(* Only version still holds a byte, the 5 of the greeting, when the buffer *)
(* was cut.                                                                *)
AfterRequest(r) ==
  \/ r.read < 4 /\ Close
  \/ /\ r.read >= 4
     /\ \E version \in read_u8(r.buf, 1, {5}), command \in read_u8(r.buf, 2, Bytes),
           atype \in read_u8(r.buf, 4, Bytes) :
          pc' = IF version # 5 \/ command # 1 THEN "closed"
                ELSE CASE atype = 1 -> "address"
                       [] atype = 3 -> "port"
                       [] OTHER -> "closed"
     /\ cursor' = Skip(r.buf, 4)
     /\ UNCHANGED <<target, inflight>>

(* Mutant: a short address is waited for, also at the end of the stream.   *)
AfterAddress_Retry(r) ==
  \/ r.read < 4 /\ UNCHANGED <<pc, cursor, target, inflight>>
  \/ /\ r.read >= 4
     /\ target' = [target EXCEPT !.addr = read_array(r.buf)]
     /\ cursor' = Skip(r.buf, 4)
     /\ pc' = "port"
     /\ UNCHANGED inflight

AfterAddress(r) ==
  \/ r.read < 4 /\ Close
  \/ /\ r.read >= 4
     /\ target' = [target EXCEPT !.addr = read_array(r.buf)]
     /\ cursor' = Skip(r.buf, 4)
     /\ pc' = "port"
     /\ UNCHANGED inflight

(* The result of this read is not looked at. A target without an address   *)
(* is the default value of the variant, on which std::get<IPv4> succeeds.  *)
AfterPort(r) ==
  /\ target' = [target EXCEPT !.port = read_u16(r.buf)]
  /\ cursor' = Skip(r.buf, 2)
  /\ pc' = "connect"
  /\ UNCHANGED inflight

(* One co_await of a read of n bytes.                                      *)
HandshakeRead(at, n, After(_)) ==
  /\ pc = at
  /\ \E r \in Results("client", buffer, n) :
       Returns("client", r) /\ buffer' = r.buf /\ After(r)
  /\ UNCHANGED <<stream, closes, relay>>

(* The coroutine that waits is not resumed again: what it awaits completed *)
(* before its future was awaited (Future.tla), serve_socks5()'s accept     *)
(* included, or the connection was reset. Or a read ends the process.      *)
HandshakeLost ==
  /\ pc \in Awaiting \ {"connect"}
  /\ \/ pc' = "suspended"
     \/ pc # "accept" /\ ResizeThrows(buffer) /\ pc' = "terminated"
  /\ UNCHANGED <<stream, closes, taken, buffer, cursor, target, failed, relay,
                 inflight>>

(* Mutant: the port is read with the size the forwarding loops use.        *)
PortSize_Large == 1024

PortSize == 2

Greeting == HandshakeRead("greeting", 2, AfterGreeting)
Methods == HandshakeRead("methods", nmethods, AfterMethods)
Request == HandshakeRead("request", 4, AfterRequest)
Address == HandshakeRead("address", 4, AfterAddress)
Port == HandshakeRead("port", PortSize, AfterPort)

(* co_await handle_connection(), the reply and the two spawn() of the      *)
(* JoinSet, which is never left: neither child returns.                    *)
Connect ==
  /\ pc = "connect"
  /\ \/ /\ pc' = "relay"
        /\ forwarding' = Peers
        /\ submit_write_some("client", <<ConnectReply>>)
     \/ /\ pc' \in {"closed", "suspended"}
        /\ UNCHANGED <<forwarding, inflight>>
  /\ UNCHANGED <<stream, closes, taken, buffer, cursor, target, failed, fwd, rounds>>

-----------------------------------------------------------------------------
(* forward_connection_data_(), from p to the other peer: whatever the read *)
(* returned, the whole vector is sent.                                     *)
Forward(p) ==
  /\ pc = "relay" /\ p \in forwarding
  /\ rounds[p] < MaxRounds[p]
  /\ \/ \E r \in Results(p, fwd[p], 1024) :
          /\ Returns(p, r)
          /\ fwd' = [fwd EXCEPT ![p] = r.buf]
          /\ rounds' = [rounds EXCEPT ![p] = @ + 1]
          /\ submit_write_some(Other(p), r.buf)
          /\ UNCHANGED <<pc, forwarding>>
     \/ /\ forwarding' = forwarding \ {p}
        /\ UNCHANGED <<pc, taken, failed, fwd, rounds, inflight>>
     \/ /\ ResizeThrows(fwd[p])
        /\ pc' = "terminated"
        /\ UNCHANGED <<taken, failed, forwarding, fwd, rounds, inflight>>
  /\ UNCHANGED <<stream, closes, buffer, cursor, target>>

(* The kernel carries out some submitted write: they are not linked, so    *)
(* that they may overtake each other. Nobody looks at how much was written.*)
Written(p) ==
  /\ pc # "terminated"
  /\ \E i \in DOMAIN inflight[p] :
       inflight' = [inflight EXCEPT ![p] = SubSeq(@, 1, i - 1) \o SubSeq(@, i + 1, Len(@))]
  /\ UNCHANGED <<handshake, stream, closes, taken, failed, relay>>

Handshake == Accept \/ Greeting \/ Methods \/ Request \/ Address \/ Port \/ Connect

Next == Handshake \/ HandshakeLost \/ \E p \in Peers : Forward(p) \/ Written(p)

Spec == Init /\ [][Next]_vars

(* The executor runs what is queued and the event loop handles what        *)
(* completes (Executor.tla, IOContext.tla). No read is made to fail.       *)
FairSpec == Spec /\ WF_vars(Handshake /\ failed' = failed)

-----------------------------------------------------------------------------
(* A request as the client laid it out, for comparison.                    *)
Methods_End == 2 + stream["client"][2]
Request_End == Methods_End + 10
IsIPv4 == Len(stream["client"]) >= Methods_End + 4 /\ stream["client"][Methods_End + 4] = 1
Sent(i, j) == SubSeq(stream["client"], i, j)

(* The server connects to the address and port the client asked for,       *)
(* however the request was cut into segments: the checks on the length of  *)
(* every read but the last keep the cursor on the fields. A port that did  *)
(* not arrive in one piece is never read (server.hpp:106).                 *)
ConnectsAsAsked ==
  pc \in {"connect", "relay"} /\ ~failed /\ IsIPv4 =>
    /\ target.addr = Sent(Methods_End + 5, Methods_End + 8)
    /\ target.port = IF Len(buffer) < Request_End THEN Garbage
                     ELSE Sent(Request_End - 1, Request_End - 1)[1] * 256
                            + Sent(Request_End, Request_End)[1]

(* A connection is only made, data only relayed and anything at all only   *)
(* written, for a client that spoke version 5 and offered to go without    *)
(* authentication in the methods it announced, failed and short reads      *)
(* included (server.hpp:35-69, 127, 156).                                  *)
OnlyTrusted ==
  (\/ pc \in {"request", "address", "port", "connect", "relay"}
   \/ \E p \in Peers : inflight[p] # <<>>) =>
    /\ Sent(1, 1) = <<5>>
    /\ 0 \in {stream["client"][i] : i \in 3..Methods_End}

(* The handshake takes no byte of the data that follows the request, also  *)
(* when the client does not wait for the reply, and the forwarding loop    *)
(* goes on where it stopped: between them the two vectors hold all that    *)
(* was read, in order and once, and every write that waits for the remote  *)
(* begins with the first byte behind the request (server.hpp:106, 150-156).*)
HandedOver ==
  pc = "relay" /\ ~failed =>
    /\ Len(buffer) <= Request_End
    /\ buffer \o fwd["client"] = Sent(1, taken["client"])
    /\ \A i \in DOMAIN inflight["remote"] :
         inflight["remote"][i] = Sent(Len(buffer) + 1, Len(buffer) + Len(inflight["remote"][i]))

(* A handshake whose peers close their side after what they send gets to   *)
(* the relay, returns, or ends the process, as long as none of its futures *)
(* is lost: one that is never resumed keeps its frame and its socket       *)
(* (server.hpp:16-18, 28-119).                                             *)
HandshakeEnds ==
  [](pc # "suspended") =>
    (closes /\ pc \in Awaiting ~> pc \in {"closed", "terminated", "relay"})
=============================================================================
