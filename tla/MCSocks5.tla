------------------------------ MODULE MCSocks5 ------------------------------
(***************************************************************************)
(* Byte streams for Socks5: what a client sends, with data it does not     *)
(* wait to send, for each way the handshake can go.                        *)
(***************************************************************************)
EXTENDS Socks5

ToRemote == <<10, 1, 2, 3, 1, 187>>
Data == <<71, 72>>

MCStreams == {
  <<5, 1, 0, 5, 1, 0, 1>> \o ToRemote \o Data,
  <<5, 2, 1, 0, 5, 1, 0, 1>> \o ToRemote,             \* two methods
  <<5, 3, 0, 1, 2, 5, 1, 0, 1>>,                      \* a request that ends early
  <<5, 1, 2, 5, 1, 0, 1>> \o ToRemote,                \* authentication wanted
  <<5, 0, 5, 1, 0, 1>> \o ToRemote,                   \* no method
  <<4, 1, 0, 80>>,                                    \* SOCKS4
  <<5, 1, 0, 5, 2, 0, 1>> \o ToRemote,                \* BIND
  <<5, 1, 0, 4, 1, 0, 1>> \o ToRemote,                \* version 4 in the request
  <<5, 1, 0, 5, 1, 0, 3, 1, 97, 80>>,                 \* a domain name
  <<5, 1, 0, 5, 1, 0, 4>> \o ToRemote }               \* IPv6

MCRemoteStream == <<81>>

(* Two rounds with the client's data, so that bytes are read after a write.*)
MCMaxRounds == [client |-> 2, remote |-> 1]

=============================================================================
