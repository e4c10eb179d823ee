----------------------------- MODULE ByteStream -----------------------------
(***************************************************************************)
(* include/bytes: a Buffer as the sequence of its bytes, and the streams   *)
(* that write and read it. ByteOStream and ByteIStream have the same three *)
(* members; write_u8() to write_buffer() differ only in how many bytes     *)
(* they take, and so do read_u8() to read_array().                         *)
(***************************************************************************)
EXTENDS Naturals, Sequences

Byte == 0..255

U8(n) == <<n % 256>>
U16(n) == <<(n \div 256) % 256, n % 256>>

(* Buffer(sz): the memory is zeroed.                                       *)
Buffer(size) == [i \in 1..size |-> 0]

Streams == [buffer : Seq(Byte), cursor : Nat, errc : {"Ok", "NotEnoughData"}]

Stream(buffer) == [buffer |-> buffer, cursor |-> 0, errc |-> "Ok"]

Fits(s, size) == s.cursor + size <= Len(s.buffer)

Failed(s) == [s EXCEPT !.errc = "NotEnoughData"]

(* Mutant: as much of the field as fits is written.                        *)
Write_Partial(s, bytes) ==
  LET n == IF Fits(s, Len(bytes)) THEN Len(bytes) ELSE Len(s.buffer) - s.cursor
  IN  [s EXCEPT !.buffer = SubSeq(s.buffer, 1, s.cursor) \o SubSeq(bytes, 1, n)
                           \o SubSeq(s.buffer, s.cursor + n + 1, Len(s.buffer)),
                !.cursor = s.cursor + n]

(* Mutant: a field that does not fit moves the cursor.                     *)
Write_MovesOn(s, bytes) ==
  IF Fits(s, Len(bytes))
  THEN [s EXCEPT !.buffer = [i \in 1..Len(s.buffer) |->
                               IF i \in s.cursor + 1 .. s.cursor + Len(bytes)
                               THEN bytes[i - s.cursor] ELSE s.buffer[i]],
                 !.cursor = s.cursor + Len(bytes)]
  ELSE [Failed(s) EXCEPT !.cursor = s.cursor + Len(bytes)]

(* A field that does not fit sets errc and leaves the rest alone. Nothing  *)
(* tests errc, so a later, shorter field may still be written.             *)
Write(s, bytes) ==
  IF Fits(s, Len(bytes))
  THEN [s EXCEPT !.buffer = [i \in 1..Len(s.buffer) |->
                               IF i \in s.cursor + 1 .. s.cursor + Len(bytes)
                               THEN bytes[i - s.cursor] ELSE s.buffer[i]],
                 !.cursor = s.cursor + Len(bytes)]
  ELSE Failed(s)

(* What a read of size bytes takes, and the stream after it.               *)
Taken(s, size) ==
  IF Fits(s, size) THEN SubSeq(s.buffer, s.cursor + 1, s.cursor + size) ELSE <<>>

Advance(s, size) ==
  IF Fits(s, size) THEN [s EXCEPT !.cursor = s.cursor + size] ELSE Failed(s)
=============================================================================
