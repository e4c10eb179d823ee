--------------------------- MODULE ChecksumProofs ---------------------------
(***************************************************************************)
(* An echo reply is accepted, for every request, every payload and every   *)
(* MTU: the checksums that calculate_checksum() stores verify where the    *)
(* receiver sums, over the header of the Ip alone and over the Icmp in it. *)
(* The sums are over bytes of any number, so facts about them need         *)
(* induction; it is taken from the well-foundedness of < and stated for    *)
(* sets. The inductive invariant, SInv, adds to IInv and WInv how much of  *)
(* the buffer the loop has summed and which packets verify already.        *)
(***************************************************************************)
EXTENDS NicProofs, WellFoundedInduction

(* A set of numbers that is not empty has a least one.                     *)
LEMMA LeastNatural ==
  ASSUME NEW T, T \subseteq Nat, T # {}
  PROVE  \E m \in T : \A k \in T : m <= k
<1> DEFINE R == OpToRel(<, Nat)
<1>1. IsWellFoundedOn(R, Nat)
  BY NatLessThanWellFounded
<1>2. \A m, n \in Nat : n < m => <<n, m>> \in R
  BY DEF OpToRel
<1> HIDE DEF R
<1>3. PICK m \in T : \A k \in T : ~ (<<k, m>> \in R)
  BY <1>1, WFMin
<1>4. ASSUME NEW k \in T PROVE m <= k
  <2>1. m \in Nat /\ k \in Nat /\ ~ (<<k, m>> \in R)
    BY <1>3
  <2>2. ~ (k < m)
    BY <1>2, <2>1, Zenon
  <2>3. QED
    BY <2>1, <2>2
<1>5. QED
  BY <1>4

(* Induction, over a set instead of a predicate.                           *)
LEMMA Induction ==
  ASSUME NEW S, 0 \in S, \A n \in Nat : n \in S => n + 1 \in S
  PROVE  \A n \in Nat : n \in S
<1> DEFINE T == {n \in Nat : n \notin S}
<1>1. SUFFICES ASSUME T # {} PROVE FALSE
  OBVIOUS
<1>2. PICK m \in T : \A k \in T : m <= k
  BY <1>1, LeastNatural
<1>3. m \in Nat /\ m # 0
  OBVIOUS
<1>4. m - 1 \in Nat /\ m - 1 \notin T
  BY <1>2, <1>3
<1>5. (m - 1) + 1 \in S
  BY <1>4
<1>6. QED
  BY <1>3, <1>5

-----------------------------------------------------------------------------
(* What the byte at position k adds to the sum of words.                   *)
Part(b, k) == IF k % 2 = 1 THEN 256 * b[k] ELSE b[k]

(* f sums the first bytes of b, up to the n-th.                            *)
Sums(f, b, n) == /\ f \in [0..n -> Nat] /\ f[0] = 0
                 /\ \A k \in 1..n : f[k] = f[k - 1] + Part(b, k)

(* A byte of a sequence is a number.                                       *)
LEMMA ByteNat ==
  ASSUME NEW b \in Bytes, NEW k \in 1..Len(b)
  PROVE  b[k] \in Nat
<1>1. b[k] \in Byte
  BY DEF Bytes
<1>2. \A x \in Byte : x \in Nat
  BY DEF Byte
<1>3. QED
  BY <1>1, <1>2, Zenon

LEMMA PartNat ==
  ASSUME NEW b \in Bytes, NEW k \in 1..Len(b)
  PROVE  Part(b, k) \in Nat
<1>1. b[k] \in Nat
  BY ByteNat
<1>2. QED
  BY <1>1 DEF Part

(* There is such an f.                                                     *)
LEMMA SumExists ==
  ASSUME NEW b \in Bytes
  PROVE  \E f : Sums(f, b, Len(b))
<1> DEFINE S == {n \in Nat : n <= Len(b) => \E f : Sums(f, b, n)}
<1>1. Len(b) \in Nat
  BY DEF Bytes
<1>2. 0 \in S
  <2>1. Sums([k \in 0..0 |-> 0], b, 0)
    BY DEF Sums
  <2>2. QED
    BY <2>1
<1>3. ASSUME NEW n \in Nat, n \in S PROVE n + 1 \in S
  <2>1. SUFFICES ASSUME n + 1 <= Len(b) PROVE \E f : Sums(f, b, n + 1)
    OBVIOUS
  <2>2. PICK f : Sums(f, b, n)
    BY <1>1, <1>3, <2>1
  <2> DEFINE p == Part(b, n + 1)
             g == [k \in 0..n + 1 |-> IF k <= n THEN f[k] ELSE f[n] + p]
  <2>3. p \in Nat
    BY <1>1, <2>1, PartNat
  <2> HIDE DEF p
  <2>4. g \in [0..n + 1 -> Nat] /\ g[0] = 0
    BY <2>2, <2>3 DEF Sums
  <2>5. ASSUME NEW k \in 1..n + 1 PROVE g[k] = g[k - 1] + Part(b, k)
    <3>1. CASE k = n + 1
      BY <3>1, <2>3 DEF p
    <3>2. CASE k <= n
      BY <3>2, <2>2 DEF Sums
    <3>3. QED
      BY <3>1, <3>2
  <2>6. Sums(g, b, n + 1)
    BY <2>4, <2>5 DEF Sums
  <2>7. QED
    BY <2>6
<1> HIDE DEF S
<1>4. Len(b) \in S
  BY <1>1, <1>2, <1>3, Induction
<1>5. QED
  BY <1>1, <1>4 DEF S

(* And it is what WordSum computes.                                        *)
LEMMA SumIs ==
  ASSUME NEW b \in Bytes, NEW f, Sums(f, b, Len(b))
  PROVE  WordSum(b) = f[Len(b)] /\ WordSum(b) \in Nat
<1> DEFINE n == Len(b)
           Q(s) == s = [k \in 0..n |-> IF k = 0 THEN 0 ELSE s[k - 1]
                          + (IF k % 2 = 1 THEN 256 * b[k] ELSE b[k])]
           g == CHOOSE s : Q(s)
<1>1. n \in Nat
  BY DEF Bytes
<1>2. WordSum(b) = g[n]
  BY DEF WordSum
<1> HIDE DEF n
<1>3. Q(f)
  BY <1>1 DEF Sums, Part, n
<1>4. Q(g)
  BY <1>3
<1> HIDE DEF g
<1> DEFINE S == {k \in Nat : k <= n => g[k] = f[k]}
<1>5. 0 \in S
  BY <1>1, <1>3, <1>4
<1>6. ASSUME NEW k \in Nat, k \in S PROVE k + 1 \in S
  BY <1>1, <1>3, <1>4, <1>6
<1> HIDE DEF S
<1>7. n \in S
  BY <1>1, <1>5, <1>6, Induction
<1>8. g[n] = f[n] /\ f[n] \in Nat
  BY <1>1, <1>7 DEF S, Sums, n
<1>9. QED
  BY <1>2, <1>8 DEF n

(* Both at once.                                                           *)
LEMMA SumOf ==
  ASSUME NEW b \in Bytes
  PROVE  \E f : Sums(f, b, Len(b)) /\ WordSum(b) = f[Len(b)] /\ WordSum(b) \in Nat
  BY SumExists, SumIs

(* e is z with a word put in at an even place where z has none; z may be   *)
(* one zero longer.                                                        *)
Patched(z, e, at) ==
  /\ at \in Nat /\ at % 2 = 0 /\ at + 2 <= Len(e)
  /\ Len(z) = Len(e) \/ Len(z) = Len(e) + 1
  /\ \A k \in 1..Len(e) : k \notin {at + 1, at + 2} => z[k] = e[k]
  /\ z[at + 1] = 0 /\ z[at + 2] = 0
  /\ Len(z) = Len(e) + 1 => z[Len(e) + 1] = 0

(* The sum grows by the word.                                              *)
LEMMA SumPatched ==
  ASSUME NEW z \in Bytes, NEW e \in Bytes, NEW at, Patched(z, e, at)
  PROVE  WordSum(e) = WordSum(z) + (256 * e[at + 1] + e[at + 2])
<1> USE DEF Patched
<1>1. PICK f : Sums(f, z, Len(z)) /\ WordSum(z) = f[Len(z)] /\ WordSum(z) \in Nat
  BY SumOf
<1> DEFINE n == Len(e)
           h == e[at + 1]
           l == e[at + 2]
           g == [k \in 0..n |-> IF k <= at THEN f[k]
                                ELSE IF k = at + 1 THEN f[k] + 256 * h
                                ELSE f[k] + (256 * h + l)]
<1>2. n \in Nat /\ h \in Nat /\ l \in Nat
  <2>1. n \in Nat
    BY DEF Bytes
  <2>2. at + 1 \in 1..Len(e) /\ at + 2 \in 1..Len(e)
    BY <2>1
  <2>3. QED
    BY <2>1, <2>2, ByteNat
<1>3. f \in [0..Len(z) -> Nat] /\ f[0] = 0
  BY <1>1 DEF Sums
<1>4. \A k \in 1..Len(z) : f[k] = f[k - 1] + Part(z, k)
  BY <1>1 DEF Sums
<1>5. n <= Len(z) /\ Len(z) \in Nat /\ at + 2 <= n
  BY <1>2
<1>5a. at \in Nat /\ at % 2 = 0
  OBVIOUS
<1> HIDE DEF h, l, n, Patched
<1>6. g \in [0..n -> Nat] /\ g[0] = 0
  <2>1. 256 * h \in Nat /\ 256 * h + l \in Nat
    BY <1>2
  <2>2. ASSUME NEW k \in 0..n PROVE f[k] \in Nat
    BY <1>3, <1>5
  <2>3. ASSUME NEW k \in 0..n PROVE f[k] + 256 * h \in Nat /\ f[k] + (256 * h + l) \in Nat
    BY <2>1, <2>2
  <2>4. g \in [0..n -> Nat]
    BY <2>2, <2>3, SMTT(20)
  <2>5. 0 \in 0..n /\ 0 <= at
    BY <1>2, <1>5, <1>5a, SMTT(20)
  <2>6. QED
    BY <1>3, <2>4, <2>5, SMTT(20)
<1>7. ASSUME NEW k \in 1..n PROVE g[k] = g[k - 1] + Part(e, k)
  <2>1. k \in 1..Len(z) /\ k \in 0..n /\ k - 1 \in 0..n /\ k \in Nat
    BY <1>2, <1>5
  <2>2. f[k] \in Nat /\ f[k - 1] \in Nat /\ f[k] = f[k - 1] + Part(z, k)
    <3>1. k \in 0..Len(z) /\ k - 1 \in 0..Len(z)
      BY <1>2, <1>5
    <3> HIDE DEF g
    <3>2. QED
      BY <1>3, <1>4, <2>1, <3>1, SMTT(20)
  <2>3. CASE k = at + 1
    <3>1. Part(z, k) = 0 /\ Part(e, k) = 256 * h
      BY <1>5a, <2>3 DEF Part, h, Patched
    <3>2. QED
      BY <1>2, <1>5a, <2>1, <2>2, <2>3, <3>1, SMTT(20)
  <2>4. CASE k = at + 2
    <3>1. Part(z, k) = 0 /\ Part(e, k) = l
      BY <1>5a, <2>4 DEF Part, l, Patched
    <3>2. QED
      BY <1>2, <1>5a, <2>1, <2>2, <2>4, <3>1, SMTT(20)
  <2>5. CASE k \notin {at + 1, at + 2}
    <3>1. Part(e, k) = Part(z, k)
      BY <2>5 DEF Part, n, Patched
    <3>2. Part(z, k) \in Nat
      BY <2>1, PartNat
    <3>3. QED
      BY <1>2, <1>5a, <2>1, <2>2, <2>5, <3>1, <3>2, SMTT(20)
  <2>6. QED
    BY <2>3, <2>4, <2>5
<1>8. g[n] = f[n] + (256 * h + l)
  BY <1>2, <1>5, <1>5a
<1> HIDE DEF g
<1>9. Sums(g, e, Len(e))
  BY <1>6, <1>7 DEF Sums, n
<1>10. WordSum(e) = g[n]
  BY <1>9, SumIs DEF n
<1>11. f[Len(z)] = f[n]
  <2>1. CASE Len(z) = n
    BY <2>1
  <2>2. CASE Len(z) = n + 1
    <3>1. n + 1 \in 1..Len(z) /\ (n + 1) - 1 = n
      BY <1>2, <2>2
    <3>2. Part(z, n + 1) = 0
      BY <2>2 DEF Part, n, Patched
    <3>3. f[n] \in Nat
      BY <1>2, <1>3, <1>5
    <3>4. QED
      BY <1>4, <2>2, <3>1, <3>2, <3>3, SMTT(20)
  <2>3. QED
    BY <2>1, <2>2 DEF n, Patched
<1>12. QED
  BY <1>1, <1>8, <1>10, <1>11 DEF h, l

(* A sequence of even length adds what it sums to.                         *)
LEMMA SumJoined ==
  ASSUME NEW b \in Bytes, NEW n \in Nat, n % 2 = 0, n <= Len(b)
  PROVE  WordSum(b) = WordSum(SubSeq(b, 1, n)) + WordSum(SubSeq(b, n + 1, Len(b)))
<1> DEFINE h == SubSeq(b, 1, n)
           m == SubSeq(b, n + 1, Len(b))
           l == Len(b) - n
<1>1. Len(b) \in Nat /\ l \in Nat /\ Len(b) = n + l
  BY DEF Bytes
<1>2. h \in Bytes /\ Len(h) = n /\ \A k \in 1..n : h[k] = b[k]
  BY FirstBytes, SMTT(20)
<1>3. m \in Bytes /\ Len(m) = l /\ \A k \in 1..l : m[k] = b[n + k]
  <2> DEFINE u == SubSeq(b, n + 1, n + l)
  <2>1. n + l <= Len(b)
    BY <1>1, SMTT(20)
  <2>2. u \in Bytes /\ Len(u) = l /\ \A k \in 1..l : u[k] = b[n + k]
    BY <1>1, <2>1, Slice
  <2>3. QED
    BY <1>1, <2>2
<1>4. PICK f : Sums(f, h, n) /\ WordSum(h) = f[n] /\ WordSum(h) \in Nat
  BY <1>2, SumOf
<1>5. PICK g : Sums(g, m, l) /\ WordSum(m) = g[l] /\ WordSum(m) \in Nat
  BY <1>3, SumOf
<1> DEFINE s == [k \in 0..Len(b) |-> IF k <= n THEN f[k] ELSE f[n] + g[k - n]]
<1> HIDE DEF h, m, l
<1>6. /\ f \in [0..n -> Nat] /\ f[0] = 0 /\ \A k \in 1..n : f[k] = f[k - 1] + Part(h, k)
      /\ g \in [0..l -> Nat] /\ g[0] = 0 /\ \A k \in 1..l : g[k] = g[k - 1] + Part(m, k)
  BY <1>4, <1>5 DEF Sums
<1>7. s \in [0..Len(b) -> Nat] /\ s[0] = 0
  <2>1. ASSUME NEW k \in 0..Len(b) PROVE s[k] \in Nat
    <3>1. CASE k <= n
      BY <1>6, <3>1
    <3>2. CASE k > n
      <4>1. k - n \in 0..l
        BY <1>1, <3>2
      <4>2. g[k - n] \in Nat /\ f[n] \in Nat
        <5>1. n \in 0..n
          OBVIOUS
        <5>2. QED
          BY <1>6, <4>1, <5>1, Zenon
      <4>3. QED
        BY <3>2, <4>2
    <3>3. QED
      BY <3>1, <3>2
  <2>2. QED
    BY <1>1, <1>6, <2>1
<1>8. ASSUME NEW k \in 1..Len(b) PROVE s[k] = s[k - 1] + Part(b, k)
  <2>1. k \in 0..Len(b) /\ k - 1 \in 0..Len(b)
    BY <1>1
  <2>2. CASE k <= n
    <3>1. Part(h, k) = Part(b, k)
      BY <1>2, <2>2 DEF Part
    <3>2. QED
      BY <1>6, <2>1, <2>2, <3>1
  <2>3. CASE k > n
    <3> DEFINE j == k - n
    <3>1. j \in 1..l /\ n + j = k /\ j \in Nat
      BY <1>1, <2>3
    <3>2. j % 2 = k % 2
      BY <3>1
    <3>3. Part(m, j) = Part(b, k)
      BY <1>3, <3>1, <3>2 DEF Part
    <3>4. g[j] = g[j - 1] + Part(b, k)
      BY <1>6, <3>1, <3>3
    <3>5. g[j] \in Nat /\ g[j - 1] \in Nat /\ f[n] \in Nat
      <4>1. j \in 0..l /\ j - 1 \in 0..l /\ n \in 0..n
        BY <1>1, <3>1
      <4>2. QED
        BY <1>6, <4>1, Zenon
    <3>6. Part(b, k) \in Nat
      BY PartNat
    <3>7. s[k] = f[n] + g[j]
      BY <2>1, <2>3
    <3>8. s[k - 1] = f[n] + g[j - 1]
      <4>1. CASE k - 1 = n
        <5>1. j - 1 = 0
          BY <4>1
        <5>2. s[k - 1] = f[n] /\ g[j - 1] = 0
          BY <1>6, <2>1, <4>1, <5>1
        <5>3. QED
          BY <3>5, <5>2
      <4>2. CASE k - 1 > n
        <5>1. s[k - 1] = f[n] + g[(k - 1) - n] /\ (k - 1) - n = j - 1
          BY <2>1, <4>2
        <5>2. QED
          BY <5>1
      <4>3. QED
        BY <2>3, <4>1, <4>2
    <3>9. f[n] + g[j] = (f[n] + g[j - 1]) + Part(b, k)
      BY <3>4, <3>5, <3>6
    <3>10. QED
      BY <3>7, <3>8, <3>9, Zenon
  <2>4. QED
    BY <2>2, <2>3
<1>9. Sums(s, b, Len(b))
  BY <1>7, <1>8 DEF Sums
<1>10. WordSum(b) = s[Len(b)]
  BY <1>9, SumIs
<1>11. s[Len(b)] = f[n] + g[l]
  <2>1. f[n] \in Nat /\ Len(b) - n = l /\ Len(b) \in 0..Len(b)
    BY <1>1, <1>6
  <2>2. CASE Len(b) = n
    <3>1. l = 0
      BY <1>1, <2>2
    <3>2. QED
      BY <1>6, <2>1, <2>2, <3>1
  <2>3. CASE Len(b) > n
    BY <2>1, <2>3
  <2>4. QED
    BY <1>1, <2>2, <2>3
<1>12. QED
  BY <1>4, <1>5, <1>10, <1>11 DEF h, m

-----------------------------------------------------------------------------
(* The packets with a checksum.                                            *)
Checksummed == Icmp \cup Ip

(* Which field of a packet is its checksum.                                *)
ChecksumField(p) == IF p.kind = "icmp" THEN 3 ELSE 9

(* It starts at an even place, and is in the packet.                       *)
LEMMA ChecksumPlace ==
  ASSUME NEW p \in Checksummed
  PROVE  /\ ChecksumField(p) \in 1..Len(Fields(p))
         /\ Starts(p)[ChecksumField(p)] = ChecksumAt(p)
         /\ Fields(p)[ChecksumField(p)] = U16(p.checksum)
         /\ ChecksumAt(p) \in Nat /\ ChecksumAt(p) % 2 = 0 /\ ChecksumAt(p) + 2 <= Size(p)
<1>1. CASE p \in Icmp
  <2>1. p.kind = "icmp" /\ Len(p.payload) \in Nat
    BY <1>1 DEF Icmp, Bytes
  <2>2. ChecksumField(p) = 3 /\ ChecksumAt(p) = 2 /\ Size(p) = 8 + Len(p.payload)
    BY <2>1 DEF ChecksumField, ChecksumAt, Size
  <2>3. Starts(p) = <<0, 1, 2, 4, 8, Size(p)>>
    BY <2>1 DEF Starts
  <2>4. Fields(p) = <<U8(p.type), U8(p.code), U16(p.checksum), p.rest, p.payload>>
    BY <2>1 DEF Fields, IcmpFields
  <2>5. QED
    BY <2>1, <2>2, <2>3, <2>4
<1>2. CASE p \in Ip
  <2>1. p.kind = "ip" /\ Len(p.payload) \in Nat
    BY <1>2 DEF Ip, Bytes
  <2>2. ChecksumField(p) = 9 /\ ChecksumAt(p) = 10 /\ Size(p) = 20 + Len(p.payload)
    BY <2>1 DEF ChecksumField, ChecksumAt, Size
  <2>3. Starts(p) = <<0, 1, 2, 4, 6, 7, 8, 9, 10, 12, 16, 20, Size(p)>>
    BY <2>1 DEF Starts
  <2> DEFINE a == U8(p.version * 16 + p.ihl)
             b == U8(p.dscp * 4 + p.ecn)
             c == U8(p.flags * 32 + ((p.fragment_offset \div 256) % 32))
  <2>4. Fields(p) = <<a, b, U16(p.total_length), U16(p.identification), c,
                      U8(p.fragment_offset), U8(p.ttl), U8(p.protocol), U16(p.checksum),
                      p.src, p.dst, p.payload>>
    BY <2>1 DEF Fields, IpFields
  <2> HIDE DEF a, b, c
  <2>5. Len(Fields(p)) = 12 /\ Fields(p)[9] = U16(p.checksum) /\ Starts(p)[9] = 10
    BY <2>3, <2>4, SMTT(20)
  <2>6. QED
    BY <2>1, <2>2, <2>5
<1>3. QED
  BY <1>1, <1>2 DEF Checksummed

(* q is p with another checksum.                                           *)
Stored(q, p, n) == q = [p EXCEPT !.checksum = n]

(* Storing a checksum changes that field alone.                            *)
LEMMA ChecksumOnly ==
  ASSUME NEW p \in Checksummed, NEW q \in Checksummed, NEW n,
         Stored(q, p, n)
  PROVE  /\ Starts(q) = Starts(p) /\ ChecksumAt(q) = ChecksumAt(p) /\ Size(q) = Size(p)
         /\ ChecksumField(q) = ChecksumField(p) /\ q.checksum = n
         /\ Len(Fields(q)) = Len(Fields(p))
         /\ \A k \in 1..Len(Fields(p)) :
              k # ChecksumField(p) => Fields(q)[k] = Fields(p)[k]
<1>1. CASE p \in Icmp
  <2>1. /\ p.kind = "icmp" /\ q.kind = "icmp" /\ q.checksum = n /\ q.type = p.type
        /\ q.code = p.code /\ q.rest = p.rest /\ q.payload = p.payload
    BY <1>1 DEF Icmp, Stored
  <2>2. Size(q) = Size(p) /\ ChecksumField(p) = 3 /\ ChecksumField(q) = 3
    BY <2>1 DEF Size, ChecksumField
  <2>3. Starts(q) = Starts(p) /\ ChecksumAt(q) = ChecksumAt(p)
    BY <2>1, <2>2 DEF Starts, ChecksumAt
  <2>4. /\ Fields(p) = <<U8(p.type), U8(p.code), U16(p.checksum), p.rest, p.payload>>
        /\ Fields(q) = <<U8(p.type), U8(p.code), U16(q.checksum), p.rest, p.payload>>
    BY <2>1 DEF Fields, IcmpFields
  <2>5. QED
    BY <2>1, <2>2, <2>3, <2>4, SMTT(20)
<1>2. CASE p \in Ip
  <2>1. /\ p.kind = "ip" /\ q.kind = "ip" /\ q.checksum = n /\ q.version = p.version
        /\ q.ihl = p.ihl /\ q.dscp = p.dscp /\ q.ecn = p.ecn
        /\ q.total_length = p.total_length /\ q.identification = p.identification
        /\ q.flags = p.flags /\ q.fragment_offset = p.fragment_offset /\ q.ttl = p.ttl
        /\ q.protocol = p.protocol /\ q.src = p.src /\ q.dst = p.dst
        /\ q.payload = p.payload
    BY <1>2 DEF Ip, Stored
  <2>2. Size(q) = Size(p) /\ ChecksumField(p) = 9 /\ ChecksumField(q) = 9
    BY <2>1 DEF Size, ChecksumField
  <2>3. Starts(q) = Starts(p) /\ ChecksumAt(q) = ChecksumAt(p)
    BY <2>1, <2>2 DEF Starts, ChecksumAt
  <2> DEFINE a == U8(p.version * 16 + p.ihl)
             b == U8(p.dscp * 4 + p.ecn)
             c == U8(p.flags * 32 + ((p.fragment_offset \div 256) % 32))
             tuple(x) == <<a, b, U16(p.total_length), U16(p.identification), c,
                           U8(p.fragment_offset), U8(p.ttl), U8(p.protocol), U16(x),
                           p.src, p.dst, p.payload>>
  <2>4. Fields(p) = tuple(p.checksum) /\ Fields(q) = tuple(q.checksum)
    BY <2>1, ZenonT(30) DEF Fields, IpFields
  <2> HIDE DEF a, b, c
  <2>5. /\ Len(Fields(p)) = 12 /\ Len(Fields(q)) = 12
        /\ \A k \in 1..12 : k # 9 => Fields(q)[k] = Fields(p)[k]
    BY <2>4, SMTT(20)
  <2>6. QED
    BY <2>1, <2>2, <2>3, <2>5
<1>3. QED
  BY <1>1, <1>2 DEF Checksummed

(* Every byte of an encoding is in a field.                                *)
LEMMA Covered ==
  ASSUME NEW p \in Checksummed, NEW k \in 1..Size(p)
  PROVE  \E m \in 1..Len(Fields(p)) : \E j \in 1..Len(Fields(p)[m]) : k = Starts(p)[m] + j
<1> DEFINE s == Starts(p)
           f == Fields(p)
<1>1. p \in Packet /\ Size(p) \in Nat /\ f \in Seq(Bytes)
  BY FieldsBytes DEF Packet, Checksummed
<1>2. \E m \in 1..Len(f) : s[m] < k /\ k <= s[m + 1]
  <2>1. CASE p \in Icmp
    <3>1. p.kind = "icmp"
      BY <2>1 DEF Icmp
    <3>2. Len(f) = 5 /\ s = <<0, 1, 2, 4, 8, Size(p)>>
      BY <3>1 DEF Starts, Fields, IcmpFields
    <3>3. \E m \in {1, 2, 3, 4, 5} : s[m] < k /\ k <= s[m + 1]
      BY <1>1, <3>2, SMTT(30)
    <3>4. QED
      BY <3>2, <3>3
  <2>2. CASE p \in Ip
    <3>1. p.kind = "ip"
      BY <2>2 DEF Ip
    <3>2. Len(f) = 12 /\ s = <<0, 1, 2, 4, 6, 7, 8, 9, 10, 12, 16, 20, Size(p)>>
      BY <3>1 DEF Starts, Fields, IpFields
    <3>3. \E m \in {1, 2, 3, 4, 5, 6, 7, 8, 9, 10, 11, 12} : s[m] < k /\ k <= s[m + 1]
      BY <1>1, <3>2, SMTT(30)
    <3>4. QED
      BY <3>2, <3>3
  <2>3. QED
    BY <2>1, <2>2 DEF Checksummed
<1>3. PICK m \in 1..Len(f) : s[m] < k /\ k <= s[m + 1]
  BY <1>2
<1> HIDE DEF s, f
<1>4. s[m] \in Nat /\ s[m + 1] = s[m] + Len(f[m])
  <2>1. m \in 1..Len(f) + 1
    BY <1>1
  <2>2. QED
    BY <1>1, <2>1, Layout, Zenon DEF Laid, s, f
<1>5. Len(f[m]) \in Nat
  <2>1. f[m] \in Bytes
    BY <1>1
  <2>2. QED
    BY <2>1 DEF Bytes
<1>6. k - s[m] \in 1..Len(f[m]) /\ k = s[m] + (k - s[m])
  BY <1>3, <1>4, <1>5, SMTT(20)
<1>7. QED
  BY <1>6, Zenon DEF s, f

(* e is d but for the checksum, which is n.                                *)
Apart(d, e, p, n) ==
  /\ Len(d) = Size(p) /\ Len(e) = Size(p)
  /\ \A k \in 1..Size(p) : k \notin {ChecksumAt(p) + 1, ChecksumAt(p) + 2} => d[k] = e[k]
  /\ e[ChecksumAt(p) + 1] = U16(n)[1] /\ e[ChecksumAt(p) + 2] = U16(n)[2]

(* Two packets that differ in their checksums alone, encoded.              *)
LEMMA EncodedApart ==
  ASSUME NEW p \in Checksummed, NEW q \in Checksummed, NEW n,
         Stored(q, p, n), NEW d \in Bytes, Encodes(d, p),
         NEW e \in Bytes, Encodes(e, q)
  PROVE  Apart(d, e, p, n)
<1> DEFINE s == Starts(p)
           f == Fields(p)
           c == ChecksumField(p)
<1>1. p \in Packet /\ q \in Packet /\ Size(p) \in Nat /\ f \in Seq(Bytes)
  BY FieldsBytes DEF Packet, Checksummed
<1>2. /\ Starts(q) = s /\ ChecksumAt(q) = ChecksumAt(p) /\ Size(q) = Size(p)
      /\ ChecksumField(q) = c /\ q.checksum = n /\ Len(Fields(q)) = Len(f)
      /\ \A k \in 1..Len(f) : k # c => Fields(q)[k] = f[k]
  BY ChecksumOnly
<1>3. /\ Len(d) = s[Len(f) + 1] /\ Len(e) = s[Len(f) + 1]
      /\ \A m \in 1..Len(f) : \A j \in 1..Len(f[m]) : d[s[m] + j] = f[m][j]
      /\ \A m \in 1..Len(f) : \A j \in 1..Len(Fields(q)[m]) : e[s[m] + j] = Fields(q)[m][j]
  <2>1. Holds(d, p, Len(f)) /\ Holds(e, q, Len(f))
    BY <1>2, Zenon DEF Encodes
  <2>2. /\ Len(d) = s[Len(f) + 1]
        /\ \A m \in 1..Len(f) : \A j \in 1..Len(f[m]) : d[s[m] + j] = f[m][j]
    BY <2>1, Zenon DEF Holds
  <2>3. /\ Len(e) = Starts(q)[Len(f) + 1]
        /\ \A m \in 1..Len(f) :
             \A j \in 1..Len(Fields(q)[m]) : e[Starts(q)[m] + j] = Fields(q)[m][j]
    BY <2>1, Zenon DEF Holds
  <2>4. Starts(q) = s
    BY <1>2
  <2> HIDE DEF s, f
  <2>5. QED
    BY <2>2, <2>3, <2>4
<1>4. s[Len(f) + 1] = Size(p)
  BY <1>1, Layout, Zenon DEF Laid
<1>5. /\ c \in 1..Len(f) /\ s[c] = ChecksumAt(p) /\ Fields(q)[c] = U16(n)
  BY <1>2, ChecksumPlace
<1>6. f[c] = U16(p.checksum)
  BY ChecksumPlace
<1> HIDE DEF s, f, c
<1>7. ASSUME NEW k \in 1..Size(p), k \notin {ChecksumAt(p) + 1, ChecksumAt(p) + 2}
      PROVE  d[k] = e[k]
  <2>1. PICK m \in 1..Len(f) : \E j \in 1..Len(f[m]) : k = s[m] + j
    BY Covered DEF s, f
  <2>2. PICK j \in 1..Len(f[m]) : k = s[m] + j
    BY <2>1
  <2>3. ASSUME m = c PROVE FALSE
    <3>1. Len(f[c]) = 2
      BY <1>6 DEF U16
    <3>2. j = 1 \/ j = 2
      BY <2>3, <3>1
    <3>3. k = ChecksumAt(p) + j
      BY <1>5, <2>2, <2>3
    <3>4. QED
      BY <1>7, <3>2, <3>3
  <2>4. Fields(q)[m] = f[m]
    BY <1>2, <2>3, Zenon
  <2>5. d[s[m] + j] = f[m][j] /\ e[s[m] + j] = f[m][j]
    <3>1. d[s[m] + j] = f[m][j]
      BY <1>3
    <3>2. e[s[m] + j] = Fields(q)[m][j]
      <4>1. j \in 1..Len(Fields(q)[m])
        BY <2>4
      <4>2. QED
        BY <1>3, <4>1
    <3>3. QED
      BY <2>4, <3>1, <3>2
  <2>6. QED
    BY <2>2, <2>5
<1>8. e[ChecksumAt(p) + 1] = U16(n)[1] /\ e[ChecksumAt(p) + 2] = U16(n)[2]
  <2>1. 1 \in 1..Len(U16(n)) /\ 2 \in 1..Len(U16(n))
    BY DEF U16
  <2>2. \A j \in 1..Len(U16(n)) : e[ChecksumAt(p) + j] = U16(n)[j]
    BY <1>3, <1>5, ZenonT(30)
  <2>3. QED
    BY <2>1, <2>2, Zenon
<1>9. QED
  BY <1>3, <1>4, <1>7, <1>8 DEF Apart

-----------------------------------------------------------------------------
(* What the receiver accepts. The third inductive invariant follows the    *)
(* sum of the words from the buffer of calculate_checksum() to the wire.   *)

(* z is the encoding d with the checksum of p blank, rounded up.           *)
Blank(z, d, p) ==
  /\ Len(z) = Padded(Len(d))
  /\ \A k \in 1..Len(z) :
       z[k] = IF k \in {ChecksumAt(p) + 1, ChecksumAt(p) + 2} \/ k > Len(d) THEN 0 ELSE d[k]

(* What clone_as_response() gives an Ip for a message with a checksum.     *)
Cloned(p) == Verifies(p.payload) /\ p.ttl = 64 /\ p.total_length = Size(p) % 65536

(* Whatever encodes p has a checksum that verifies.                        *)
Checked(p) == p.kind \in {"icmp", "ip"} => \A e \in Bytes : Encodes(e, p) => Verifies(e)

(* The payload of f is such an Ip, if it answers an echo.                  *)
Acceptable(f, r) ==
  r.kind = "echo" => \E p \in Ip : Encodes(f.payload, p) /\ Verifies(f.payload) /\ Cloned(p)

(* The buffer to be summed has room for the packet.                        *)
Roomy ==
  pc = "write" /\ use = "sum" => Len(os.buffer) = Padded(Size(pkt)) /\ os.errc = "Ok"

(* The loop has summed the words before its index.                         *)
Adding ==
  pc = "sum" => /\ Encodes(asked, pkt) /\ Blank(os.buffer, asked, pkt)
                /\ i <= Len(os.buffer) /\ total = WordSum(SubSeq(os.buffer, 1, i))

(* What is known of the checksums when.                                    *)
Checking ==
  /\ pc \in {"write", "sum"} =>
       /\ pkt.kind = "icmp" => Size(pkt) = Size(req.icmp)
       /\ pkt.kind = "ip" => Cloned(pkt)
       /\ use = "payload" => Checked(pkt)
       /\ use = "wire" => Acceptable(frame, req)
  /\ wire # <<>> => Acceptable(frame, req)

SInv == Roomy /\ Adding /\ Checking

(* The sum of the first n bytes.                                           *)
LEMMA SumPrefix ==
  ASSUME NEW b \in Bytes, NEW f, Sums(f, b, Len(b)), NEW n \in Nat, n <= Len(b)
  PROVE  WordSum(SubSeq(b, 1, n)) = f[n]
<1> DEFINE h == SubSeq(b, 1, n)
           g == [k \in 0..n |-> f[k]]
<1>1. h \in Bytes /\ Len(h) = n /\ \A k \in 1..n : h[k] = b[k]
  BY FirstBytes
<1>2. Len(b) \in Nat
  BY DEF Bytes
<1> HIDE DEF h
<1>3. g \in [0..n -> Nat] /\ g[0] = 0
  BY <1>2 DEF Sums
<1>4. ASSUME NEW k \in 1..n PROVE g[k] = g[k - 1] + Part(h, k)
  <2>1. k \in 1..Len(b) /\ k \in 0..n /\ k - 1 \in 0..n
    BY <1>2
  <2>2. Part(h, k) = Part(b, k)
    BY <1>1 DEF Part
  <2>3. f[k] = f[k - 1] + Part(b, k)
    BY <2>1 DEF Sums
  <2>4. QED
    BY <2>1, <2>2, <2>3
<1>5. Sums(g, h, Len(h))
  BY <1>1, <1>3, <1>4 DEF Sums
<1>6. WordSum(h) = g[n]
  BY <1>1, <1>5, SumIs
<1>7. QED
  BY <1>6 DEF h

(* One more word.                                                          *)
LEMMA WordMore ==
  ASSUME NEW b \in Bytes, NEW n \in Nat, n % 2 = 0, n + 2 <= Len(b)
  PROVE  WordSum(SubSeq(b, 1, n + 2)) =
           WordSum(SubSeq(b, 1, n)) + (b[n + 1] * 256 + b[n + 2])
<1>1. PICK f : Sums(f, b, Len(b))
  BY SumExists
<1>2. Len(b) \in Nat /\ n <= Len(b) /\ n + 2 \in Nat
  BY DEF Bytes
<1>3. WordSum(SubSeq(b, 1, n + 2)) = f[n + 2] /\ WordSum(SubSeq(b, 1, n)) = f[n]
  BY <1>1, <1>2, SumPrefix
<1>4. n + 1 \in 1..Len(b) /\ n + 2 \in 1..Len(b) /\ n \in 0..Len(b)
  BY <1>2
<1>5. b[n + 1] \in Nat /\ b[n + 2] \in Nat
  BY <1>4, ByteNat
<1>6. Part(b, n + 1) = 256 * b[n + 1] /\ Part(b, n + 2) = b[n + 2]
  BY DEF Part
<1>7. f[n + 1] = f[(n + 1) - 1] + Part(b, n + 1) /\ f[n + 2] = f[(n + 2) - 1] + Part(b, n + 2)
  BY <1>1, <1>4 DEF Sums
<1>8. (n + 1) - 1 = n /\ (n + 2) - 1 = n + 1
  OBVIOUS
<1>9. f[n] \in Nat
  BY <1>1, <1>4 DEF Sums
<1>10. QED
  BY <1>3, <1>5, <1>6, <1>7, <1>8, <1>9, SMTT(20)

(* Nothing sums to zero, and all of it is all.                             *)
LEMMA WholePrefix ==
  ASSUME NEW b \in Bytes
  PROVE  WordSum(SubSeq(b, 1, 0)) = 0 /\ SubSeq(b, 1, Len(b)) = b
<1>1. PICK f : Sums(f, b, Len(b))
  BY SumExists
<1>2. 0 \in Nat /\ 0 <= Len(b) /\ Len(b) \in Nat
  BY DEF Bytes
<1>3. WordSum(SubSeq(b, 1, 0)) = f[0]
  BY <1>1, <1>2, SumPrefix
<1>4. f[0] = 0
  BY <1>1 DEF Sums
<1>5. SubSeq(b, 1, Len(b)) = b
  BY DEF Bytes
<1>6. QED
  BY <1>3, <1>4, <1>5

(* A checksum and the sum it was taken of make a multiple of 65535.        *)
LEMMA SumVerifies ==
  ASSUME NEW a \in Nat, NEW t \in Nat, Congruent(a, t)
  PROVE  /\ Complement(a) \in Word16
         /\ t + Complement(a) > 0 /\ (t + Complement(a)) % 65535 = 0
<1>1. a <= 65535 /\ a % 65535 = t % 65535 /\ (a = 0 <=> t = 0)
  BY DEF Congruent
<1>2. Complement(a) = 65535 - a
  BY <1>1 DEF Complement
<1>3. Complement(a) \in Word16
  BY <1>1, <1>2 DEF Word16
<1>4. t + (65535 - a) > 0
  BY <1>1
<1>5. (t + (65535 - a)) % 65535 = 0
  BY <1>1
<1>6. QED
  BY <1>2, <1>3, <1>4, <1>5

(* The two bytes of a word make it again.                                  *)
LEMMA WordOf ==
  ASSUME NEW n \in Word16
  PROVE  256 * U16(n)[1] + U16(n)[2] = n
<1>1. U16(n)[1] = (n \div 256) % 256 /\ U16(n)[2] = n % 256
  BY DEF U16
<1>2. n \in Nat /\ n < 65536
  BY DEF Word16
<1>3. QED
  BY <1>1, <1>2

(* A packet with the checksum that calculate_checksum() computed verifies. *)
LEMMA StoredVerifies ==
  ASSUME NEW p \in Checksummed, NEW q \in Checksummed, NEW a \in Nat, NEW t \in Nat,
         Congruent(a, t), Stored(q, p, Complement(a)),
         NEW d \in Bytes, Encodes(d, p), NEW z \in Bytes, Blank(z, d, p), t = WordSum(z),
         NEW e \in Bytes, Encodes(e, q)
  PROVE  Verifies(e)
<1> DEFINE n == Complement(a)
           at == ChecksumAt(p)
<1>1. n \in Word16 /\ t + n > 0 /\ (t + n) % 65535 = 0
  BY SumVerifies
<1>2. Stored(q, p, n)
  OBVIOUS
<1> HIDE DEF n
<1>3. /\ Len(d) = Size(p) /\ Len(e) = Size(p)
      /\ \A k \in 1..Size(p) : k \notin {at + 1, at + 2} => d[k] = e[k]
      /\ e[at + 1] = U16(n)[1] /\ e[at + 2] = U16(n)[2]
  <2>1. Apart(d, e, p, n)
    BY <1>2, EncodedApart, Zenon
  <2>2. QED
    BY <2>1, Zenon DEF Apart
<1>4. at \in Nat /\ at % 2 = 0 /\ at + 2 <= Size(p)
  BY ChecksumPlace
<1>5. /\ Len(z) = Padded(Len(d))
      /\ \A k \in 1..Len(z) :
           z[k] = IF k \in {at + 1, at + 2} \/ k > Len(d) THEN 0 ELSE d[k]
  BY DEF Blank
<1> HIDE DEF at
<1>6. Len(e) \in Nat /\ Len(d) = Len(e)
  BY <1>3 DEF Bytes
<1>7. Len(z) = Len(e) \/ Len(z) = Len(e) + 1
  BY <1>5, <1>6 DEF Padded
<1>8. \A k \in 1..Len(e) : k \notin {at + 1, at + 2} => z[k] = e[k]
  BY <1>3, <1>5, <1>6, <1>7, SMTT(20)
<1>9. z[at + 1] = 0 /\ z[at + 2] = 0 /\ at + 2 <= Len(e)
  BY <1>3, <1>4, <1>5, <1>6, <1>7, SMTT(20)
<1>10. Len(z) = Len(e) + 1 => z[Len(e) + 1] = 0
  BY <1>5, <1>6
<1>11. WordSum(e) = WordSum(z) + (256 * e[at + 1] + e[at + 2])
  <2>1. Patched(z, e, at)
    BY <1>4, <1>7, <1>8, <1>9, <1>10, SMTT(20) DEF Patched
  <2>2. QED
    BY <2>1, SumPatched
<1>12. WordSum(e) = t + n
  BY <1>1, <1>3, <1>11, WordOf, SMTT(20)
<1>13. QED
  BY <1>1, <1>12 DEF Verifies

-----------------------------------------------------------------------------
(* The actions and the third invariant.                                    *)

(* The initial state: nothing is sent.                                     *)
LEMMA InitSInv == Init => SInv
  BY DEF Init, SInv, Roomy, Adding, Checking

(* What is neither written nor summed is as acceptable as it was.          *)
LEMMA QuietSInv ==
  ASSUME SInv, pc' \notin {"write", "sum"}, wire' = wire,
         UNCHANGED <<req, frame>> \/ wire = <<>>
  PROVE  SInv'
<1>1. Roomy' /\ Adding'
  BY DEF Roomy, Adding
<1>2. Checking'
  BY Zenon DEF SInv, Checking
<1>3. QED
  BY <1>1, <1>2 DEF SInv

(* try_new(), and whatever reads.                                          *)
LEMMA OtherSInv ==
  ASSUME SInv, try_new \/ read_next_eth \/ Receive \/ ReadField \/ FinishDecode
  PROVE  SInv'
<1>1. UNCHANGED <<req, frame, wire>> /\ pc' \notin {"write", "sum"}
  <2>1. CASE try_new
    BY <2>1 DEF try_new, OpenTun, SetIff, system_addr, OpenSocket, GetMtu, Goto, answer
  <2>2. CASE read_next_eth
    BY <2>2 DEF read_next_eth, Decode, answer
  <2>3. CASE Receive
    BY <2>3 DEF Receive, Decode, answer
  <2>4. CASE ReadField
    BY <2>4 DEF ReadField, answer
  <2>5. CASE FinishDecode
    BY <2>5 DEF FinishDecode, answer
  <2>6. QED
    BY <2>1, <2>2, <2>3, <2>4, <2>5, SMTT(20)
<1>2. QED
  BY <1>1, QuietSInv

(* A buffer that is rounded up has room for every field.                   *)
LEMMA SumRoom ==
  ASSUME NEW p \in Packet, NEW s \in Streams, NEW rest \in Seq(Bytes), NEW done \in Bytes,
         rest # <<>>, Partway(p, rest, done), Exact(s, done), s.errc = "Ok",
         Len(s.buffer) = Padded(Size(p))
  PROVE  Write(s, Head(rest)).errc = "Ok"
<1>1. Len(done) + Len(Head(rest)) <= Size(p) /\ Head(rest) \in Bytes
  BY PartwayStep
<1>2. s.cursor = Len(done)
  BY Zenon DEF Exact
<1>3. Size(p) \in Nat /\ Size(p) <= Padded(Size(p)) /\ Padded(Size(p)) \in Nat
  BY FieldsBytes DEF Padded
<1>4. Len(done) \in Nat /\ Len(Head(rest)) \in Nat
  BY <1>1 DEF Bytes
<1>5. Fits(s, Len(Head(rest)))
  BY <1>1, <1>2, <1>3, <1>4, SMTT(20) DEF Fits
<1>6. QED
  BY <1>1, <1>5, WriteErrc, Zenon

(* A field is written.                                                     *)
LEMMA WriteFieldSInv == ASSUME IInv, WInv, SInv, WriteField PROVE SInv'
<1>1. /\ pc = "write" /\ todo # <<>> /\ pc' = "write" /\ os' = Write(os, Head(todo))
      /\ UNCHANGED <<req, frame, pkt, use, wire>>
  BY DEF WriteField, answer
<1>2. /\ todo \in Seq(Bytes) /\ pkt \in Packet /\ os \in Streams /\ asked \in Bytes
      /\ Exact(os, asked) /\ Partway(pkt, todo, asked)
  BY <1>1, Zenon DEF IInv, Typed, TypeOK, Filling, WInv, Writing
<1>3. Roomy'
  <2>1. SUFFICES ASSUME use = "sum"
                 PROVE  Len(os'.buffer) = Padded(Size(pkt)) /\ os'.errc = "Ok"
    BY <1>1, Zenon DEF Roomy
  <2>2. Len(os.buffer) = Padded(Size(pkt)) /\ os.errc = "Ok"
    BY <1>1, <2>1, Zenon DEF SInv, Roomy
  <2>3. os'.errc = "Ok"
    BY <1>1, <1>2, <2>2, SumRoom, Zenon
  <2>4. Head(todo) \in Bytes
    BY <1>1, <1>2
  <2>5. Len(os'.buffer) = Len(os.buffer)
    BY <1>1, <1>2, <2>4, WriteStream, Zenon
  <2>6. QED
    BY <2>2, <2>3, <2>5, Zenon
<1>4. Adding'
  BY <1>1 DEF Adding
<1>5. Checking'
  BY <1>1, Zenon DEF SInv, Checking
<1>6. QED
  BY <1>3, <1>4, <1>5 DEF SInv

(* A packet is begun.                                                      *)
LEMMA BeginSInv ==
  ASSUME WInv, NEW p, NEW size \in Nat, NEW u,
         pc \in {"idle", "write", "sum"},
         pc' = "write", pkt' = p, use' = u, os' = Stream(Buffer(size)),
         UNCHANGED <<req, wire>>,
         u = "sum" => size = Padded(Size(p)),
         p.kind = "icmp" => Size(p) = Size(req.icmp),
         p.kind = "ip" => Cloned(p),
         u = "payload" => Checked(p),
         u = "wire" => Acceptable(frame', req)
  PROVE  SInv'
<1>1. Stream(Buffer(size)).errc = "Ok"
  BY DEF Stream
<1>2. Len(Stream(Buffer(size)).buffer) = size
  BY NewStream, Zenon
<1>3. Roomy'
  BY <1>1, <1>2, ZenonT(30) DEF Roomy
<1>4. Adding'
  BY SMTT(20) DEF Adding
<1>5. wire' = <<>>
  BY DEF WInv, OnWire
<1>6. Checking'
  BY <1>5, Zenon DEF Checking
<1>7. QED
  BY <1>3, <1>4, <1>6, SMTT(20) DEF SInv

(* clone_as_echo_response() keeps the size.                                *)
LEMMA EchoAnswerSInv == ASSUME IInv, WInv, SInv, EchoAnswer PROVE SInv'
<1>1. /\ pc = "idle" /\ req.kind = "echo" /\ req \in Requests /\ req.icmp \in Icmp
      /\ UNCHANGED <<req, frame, wire>>
  BY RequestPackets, SMTT(20) DEF EchoAnswer, answer, IInv, Typed
<1>2. CASE req.icmp.type = EchoRequest
  <2> DEFINE p == [req.icmp EXCEPT !.type = EchoReply]
  <2>1. p \in Icmp
    BY <1>1, AnswerPackets
  <2>2. /\ pc' = "write" /\ pkt' = p /\ use' = "sum"
        /\ os' = Stream(Buffer(Padded(Size(p))))
    BY <1>2 DEF EchoAnswer, BeginChecksum, Begin
  <2>3. p.payload = req.icmp.payload /\ p.kind = "icmp" /\ req.icmp.kind = "icmp"
    BY <1>1 DEF Icmp
  <2> HIDE DEF p
  <2>4. Size(p) = Size(req.icmp)
    BY <2>3 DEF Size
  <2>5. Padded(Size(p)) \in Nat
    BY <2>1, FieldsBytes, PaddedEven DEF Packet
  <2>6. QED
    BY <1>1, <2>2, <2>3, <2>4, <2>5, BeginSInv, SMTT(20)
<1>3. CASE req.icmp.type # EchoRequest
  <2>1. pc' = "aborted"
    BY <1>3 DEF EchoAnswer
  <2>2. QED
    BY <1>1, <2>1, QuietSInv
<1>4. QED
  BY <1>2, <1>3

(* The Arp answer has no checksum.                                         *)
LEMMA ArpAnswerSInv == ASSUME IInv, WInv, SInv, ArpAnswer PROVE SInv'
<1>1. pc = "idle" /\ req.kind = "arp" /\ req \in Requests /\ UNCHANGED <<req, wire>>
  BY DEF ArpAnswer, IInv, Typed
<1> DEFINE p == copy_as_response(req.arp, own_mac)
<1>2. p \in Arp
  <2>1. own_mac \in MAC
    BY NicAssumption DEF IInv, Typed, TypeOK
  <2>2. QED
    BY <1>1, <2>1, RequestPackets, AnswerPackets, SMTT(20)
<1>3. pc' = "write" /\ pkt' = p /\ use' = "payload" /\ os' = Stream(Buffer(28))
  BY DEF ArpAnswer, Begin
<1> HIDE DEF p
<1>4. p.kind = "arp" /\ 28 \in Nat
  BY <1>2 DEF Arp
<1>5. Checked(p)
  BY <1>4 DEF Checked
<1>6. QED
  BY <1>1, <1>3, <1>4, <1>5, BeginSInv, SMTT(20)

(* What is left in the buffer when the checksum in it is blanked.          *)
LEMMA Blanked ==
  ASSUME NEW p \in Checksummed, NEW s \in Streams, NEW d \in Bytes, Exact(s, d),
         s.errc = "Ok", Len(d) = Size(p), Len(s.buffer) = Padded(Size(p))
  PROVE  Blank(ZeroChecksum(p, s.buffer), d, p)
<1> DEFINE b == s.buffer
           z == ZeroChecksum(p, b)
           at == ChecksumAt(p)
<1>1. /\ s.cursor = Len(d)
      /\ \A k \in 1..Len(b) : b[k] = IF k <= s.cursor THEN d[k] ELSE 0
  BY Zenon DEF Exact
<1>2. Len(b) \in Nat /\ Len(d) \in Nat /\ Len(b) = Padded(Len(d))
  BY DEF Streams, Bytes
<1>3. z = [k \in 1..Len(b) |-> IF k \in {at + 1, at + 2} THEN 0 ELSE b[k]]
  BY DEF ZeroChecksum
<1>4. Len(z) = Len(b)
  BY <1>2, <1>3
<1> HIDE DEF b, z, at
<1>5. ASSUME NEW k \in 1..Len(z)
      PROVE  z[k] = IF k \in {at + 1, at + 2} \/ k > Len(d) THEN 0 ELSE d[k]
  <2>1. CASE k \in {at + 1, at + 2}
    BY <1>3, <1>4, <2>1
  <2>2. CASE k \notin {at + 1, at + 2}
    <3>1. z[k] = b[k]
      BY <1>3, <1>4, <2>2
    <3>2. b[k] = IF k > Len(d) THEN 0 ELSE d[k]
      BY <1>1, <1>2, <1>4
    <3>3. QED
      BY <2>2, <3>1, <3>2
  <2>3. QED
    BY <2>1, <2>2
<1>6. QED
  BY <1>2, <1>4, <1>5, Zenon DEF Blank, z, b, at

(* The buffer is summed from the start.                                    *)
LEMMA StartSumSInv == ASSUME IInv, WInv, SInv, StartSum PROVE SInv'
<1> DEFINE z == ZeroChecksum(pkt, os.buffer)
<1>1. /\ pc = "write" /\ use = "sum" /\ todo = <<>> /\ pc' \in {"sum", "aborted"}
      /\ os' = [os EXCEPT !.buffer = z] /\ i' = 0 /\ total' = 0
      /\ UNCHANGED <<req, frame, pkt, use, asked, wire>>
  BY DEF StartSum, Written, answer
<1>2. /\ os \in Streams /\ pkt \in Packet /\ pkt \in Checksummed /\ asked \in Bytes
      /\ Exact(os, asked)
  BY <1>1 DEF IInv, Typed, TypeOK, Layered, Filling, Checksummed
<1>3. Len(os.buffer) = Padded(Size(pkt)) /\ os.errc = "Ok"
  BY <1>1, Zenon DEF SInv, Roomy
<1>4. Encodes(asked, pkt) /\ Len(asked) = Size(pkt)
  <2>1. Partway(pkt, <<>>, asked)
    BY <1>1, Zenon DEF WInv, Writing
  <2>2. Len(Fields(pkt)) \in Nat
    BY <1>2, FieldsBytes
  <2>3. Len(Fields(pkt)) - Len(<<>>) = Len(Fields(pkt))
    BY <2>2
  <2>4. Holds(asked, pkt, Len(Fields(pkt)))
    BY <2>1, <2>3 DEF Partway
  <2>5. QED
    BY <1>2, <2>4, Layout, Zenon DEF Encodes, Holds, Laid
<1>5. Blank(z, asked, pkt)
  BY <1>2, <1>3, <1>4, Blanked, SMTT(20)
<1>6. z \in Bytes /\ os'.buffer = z
  <2>1. os.buffer \in Seq(Byte) /\ Len(os.buffer) \in Nat /\ 0 \in Byte
    BY <1>2 DEF Streams, Byte
  <2>2. ASSUME NEW k \in 1..Len(os.buffer) PROVE z[k] \in Byte
    BY <2>1 DEF ZeroChecksum
  <2>3. z \in Seq(Byte)
    BY <2>1, <2>2 DEF ZeroChecksum
  <2> HIDE DEF z
  <2>4. QED
    BY <1>1, <1>2, <2>3 DEF Streams, Bytes
<1> HIDE DEF z
<1>7. Adding'
  <2>1. 0 <= Len(z) /\ 0 = WordSum(SubSeq(z, 1, 0))
    BY <1>6, WholePrefix DEF Bytes
  <2>2. Encodes(asked', pkt') /\ Blank(os'.buffer, asked', pkt')
    BY <1>1, <1>4, <1>5, <1>6, Zenon
  <2>3. i' <= Len(os'.buffer) /\ total' = WordSum(SubSeq(os'.buffer, 1, i'))
    BY <1>1, <1>6, <2>1, Zenon
  <2>4. QED
    BY <2>2, <2>3 DEF Adding
<1>8. Roomy'
  BY <1>1 DEF Roomy
<1>9. Checking'
  BY <1>1, Zenon DEF SInv, Checking
<1>10. QED
  BY <1>7, <1>8, <1>9 DEF SInv

(* One word more is summed.                                                *)
LEMMA AddWordSInv == ASSUME IInv, WInv, SInv, AddWord PROVE SInv'
<1>1. /\ pc = "sum" /\ pc' = "sum" /\ i < Len(os.buffer) /\ i' = i + 2
      /\ total' = total + Word /\ UNCHANGED <<req, frame, pkt, use, os, asked, wire>>
  BY DEF AddWord, answer, output
<1>2. /\ os.buffer \in Bytes /\ i \in Nat /\ i % 2 = 0 /\ Len(os.buffer) % 2 = 0
      /\ Len(os.buffer) \in Nat
  <2>1. os \in Streams /\ i \in Nat /\ i % 2 = 0 /\ Len(os.buffer) % 2 = 0
    BY <1>1, Zenon DEF IInv, Typed, TypeOK, Summing
  <2>2. QED
    BY <2>1 DEF Streams, Bytes
<1>3. i + 2 <= Len(os.buffer)
  BY <1>1, <1>2, EvenRoom, Zenon
<1>4. /\ Encodes(asked, pkt) /\ Blank(os.buffer, asked, pkt)
      /\ total = WordSum(SubSeq(os.buffer, 1, i))
  BY <1>1, Zenon DEF SInv, Adding
<1>5. WordSum(SubSeq(os.buffer, 1, i + 2)) = WordSum(SubSeq(os.buffer, 1, i)) + Word
  BY <1>2, <1>3, WordMore DEF Word
<1>6. Adding'
  BY <1>1, <1>3, <1>4, <1>5, Zenon DEF Adding
<1>7. Roomy'
  BY <1>1 DEF Roomy
<1>8. Checking'
  BY <1>1, Zenon DEF SInv, Checking
<1>9. QED
  BY <1>6, <1>7, <1>8 DEF SInv

(* A stored checksum leaves size, length and payload as they were.         *)
LEMMA StoredKeeps ==
  ASSUME NEW p \in Checksummed, NEW q \in Checksummed, NEW n, Stored(q, p, n)
  PROVE  /\ q.kind = p.kind /\ Size(q) = Size(p)
         /\ p.kind = "ip" => (Cloned(p) => Cloned(q))
<1>1. Size(q) = Size(p)
  BY ChecksumOnly
<1>2. CASE p \in Icmp
  BY <1>1, <1>2 DEF Icmp, Stored
<1>3. CASE p \in Ip
  <2>1. /\ q.kind = p.kind /\ q.payload = p.payload /\ q.ttl = p.ttl
        /\ q.total_length = p.total_length
    BY <1>3, SMTT(20) DEF Ip, Stored
  <2>2. QED
    BY <1>1, <2>1 DEF Cloned
<1>4. QED
  BY <1>2, <1>3 DEF Checksummed

(* What is written with its checksum verifies.                             *)
LEMMA SetChecksumSInv == ASSUME IInv, WInv, SInv, SetChecksum PROVE SInv'
<1> DEFINE n == Complement(acc)
           p == [pkt EXCEPT !.checksum = n]
<1>1. /\ pc = "sum" /\ i >= Len(os.buffer) /\ acc \in Nat /\ total \in Nat /\ i \in Nat
      /\ pkt \in Checksummed /\ pkt \in Packet /\ asked \in Bytes /\ os \in Streams
      /\ UNCHANGED <<req, wire>>
  BY DEF SetChecksum, IInv, Typed, TypeOK, Layered, Summing, Checksummed
<1>2. p \in Checksummed /\ Stored(p, pkt, n)
  BY <1>1, ChecksumStored DEF Checksummed, Stored
<1>3. pc' = "write" /\ pkt' = p /\ use' = "payload" /\ os' = Stream(Buffer(Size(pkt)))
  BY DEF SetChecksum, Begin
<1> HIDE DEF p
<1>4. /\ p.kind = pkt.kind /\ Size(p) = Size(pkt) /\ Size(pkt) \in Nat
      /\ pkt.kind = "ip" => (Cloned(pkt) => Cloned(p))
  BY <1>1, <1>2, StoredKeeps, FieldsBytes, Zenon
<1>5. /\ Encodes(asked, pkt) /\ Blank(os.buffer, asked, pkt)
      /\ i <= Len(os.buffer) /\ total = WordSum(SubSeq(os.buffer, 1, i))
  BY <1>1, Zenon DEF SInv, Adding
<1>6. Congruent(acc, total)
  BY <1>1, Zenon DEF IInv, Summing
<1>7. os.buffer \in Bytes /\ total = WordSum(os.buffer)
  <2>1. os.buffer \in Bytes
    BY <1>1 DEF Streams, Bytes
  <2>2. i = Len(os.buffer)
    <3>1. Len(os.buffer) \in Nat
      BY <2>1 DEF Bytes
    <3>2. QED
      BY <1>1, <1>5, <3>1
  <2>3. SubSeq(os.buffer, 1, Len(os.buffer)) = os.buffer
    BY <2>1, WholePrefix
  <2>4. QED
    BY <1>5, <2>1, <2>2, <2>3, Zenon
<1>8. Checked(p)
  <2>1. ASSUME NEW e \in Bytes, Encodes(e, p) PROVE Verifies(e)
    BY <1>1, <1>2, <1>5, <1>6, <1>7, <2>1, StoredVerifies, Zenon
  <2>2. QED
    BY <2>1 DEF Checked
<1>9. /\ p.kind = "icmp" => Size(p) = Size(req.icmp)
      /\ p.kind = "ip" => Cloned(p)
  BY <1>1, <1>4, Zenon DEF SInv, Checking
<1>10. QED
  BY <1>1, <1>3, <1>4, <1>8, <1>9, BeginSInv, SMTT(20)

(* clone_as_response() takes the length from the request, whose message    *)
(* is as long as the answer's.                                             *)
LEMMA CloneCloned ==
  ASSUME NEW r, r.ip \in Ip, NEW b \in Bytes, Verifies(b), Len(b) = Len(r.ip.payload)
  PROVE  Cloned(clone_as_response(r.ip, b))
<1> DEFINE p == r.ip
           n == Size(p) % 65536
           q == clone_as_response(p, b)
<1>1. q = [p EXCEPT !.payload = b, !.total_length = n, !.ttl = 64,
                    !.src = p.dst, !.dst = p.src]
  BY DEF clone_as_response
<1> HIDE DEF n
<1>2. q.payload = b /\ q.total_length = n /\ q.ttl = 64 /\ q.kind = "ip" /\ p.kind = "ip"
  BY <1>1 DEF Ip
<1> HIDE DEF q
<1>3. Size(q) = Size(p)
  BY <1>2 DEF Size
<1>4. QED
  BY <1>2, <1>3 DEF Cloned, n, q

(* An Icmp goes into its Ip, an Ip or an Arp into its frame.               *)
LEMMA PayloadWrittenSInv == ASSUME IInv, WInv, SInv, PayloadWritten PROVE SInv'
<1>1. /\ pc = "write" /\ todo = <<>> /\ use = "payload"
      /\ pkt \in Packet /\ req \in Requests /\ frame \in EthernetFrame
      /\ UNCHANGED <<req, wire>>
  BY DEF PayloadWritten, Written, IInv, Typed
<1>2. os \in Streams /\ os.buffer \in Bytes /\ asked \in Bytes /\ Exact(os, asked)
  BY <1>1 DEF IInv, Typed, TypeOK, Filling, Streams, Bytes
<1>3. Encodes(os.buffer, pkt) /\ Len(os.buffer) = Size(pkt)
  <2>1. Partway(pkt, <<>>, asked)
    BY <1>1, Zenon DEF WInv, Writing
  <2>2. Len(os.buffer) = Size(pkt) /\ os.errc = "Ok"
    BY <1>1, Zenon DEF WInv, Room
  <2>3. QED
    BY <1>1, <1>2, <2>1, <2>2, PayloadHolds, Zenon
<1>4. pkt.kind \in {"icmp", "ip"} => Verifies(os.buffer)
  BY <1>1, <1>2, <1>3, SMTT(20) DEF SInv, Checking, Checked
<1>5. CASE pkt.kind = "icmp"
  <2> DEFINE p == clone_as_response(req.ip, os.buffer)
  <2>1. req.ip \in Ip /\ Len(req.ip.payload) = Size(req.icmp)
    <3>1. req.kind = "echo"
      BY <1>1, <1>5, Kinds DEF IInv, Layered
    <3>2. QED
      BY <1>1, <3>1, NicAssumption, SMTT(20)
  <2>2. Len(os.buffer) = Len(req.ip.payload)
    BY <1>1, <1>3, <1>5, <2>1, Zenon DEF SInv, Checking
  <2>3. p \in Ip /\ Cloned(p)
    BY <1>2, <1>4, <1>5, <2>1, <2>2, AnswerPackets, CloneCloned, SMTT(20)
  <2>4. /\ pc' = "write" /\ pkt' = p /\ use' = "sum"
        /\ os' = Stream(Buffer(Padded(Size(p))))
    BY <1>5 DEF PayloadWritten, BeginChecksum, Begin
  <2> HIDE DEF p
  <2>5. p.kind = "ip" /\ p \in Packet
    BY <2>3 DEF Packet, Ip
  <2>6. Padded(Size(p)) \in Nat
    BY <2>5, FieldsBytes, PaddedEven, SMTT(20)
  <2>7. QED
    BY <1>1, <2>3, <2>4, <2>5, <2>6, BeginSInv, SMTT(20)
<1>6. CASE pkt.kind # "icmp"
  <2> DEFINE p == [frame EXCEPT !.payload = os.buffer]
  <2>1. p.payload = os.buffer /\ p.kind = "eth"
    BY <1>1, <1>2 DEF EthernetFrame
  <2>2. /\ pc' = "write" /\ pkt' = p /\ use' = "wire" /\ frame' = p
        /\ os' = Stream(Buffer(mtu))
    BY <1>6 DEF PayloadWritten, BeginWire, Begin
  <2> HIDE DEF p
  <2>3. Acceptable(p, req)
    <3>1. SUFFICES ASSUME req.kind = "echo"
                   PROVE  \E q \in Ip : /\ Encodes(p.payload, q) /\ Verifies(p.payload)
                                        /\ Cloned(q)
      BY DEF Acceptable
    <3>2. pkt.kind = "ip"
      <4>1. pkt.kind # "eth" /\ (pkt.kind = "arp" => req.kind = "arp")
        BY <1>1, SMTT(20) DEF WInv, Answering
      <4>2. pkt.kind \in {"icmp", "ip", "arp", "eth"}
        BY <1>1 DEF Packet, Icmp, Ip, Arp, EthernetFrame
      <4>3. pkt.kind # "arp"
        BY <3>1, <4>1, SMTT(20)
      <4>4. QED
        BY <1>6, <4>1, <4>2, <4>3, ZenonT(30)
    <3>3. pkt \in Ip /\ Cloned(pkt)
      BY <1>1, <3>2, Kinds, SMTT(20) DEF SInv, Checking
    <3>4. QED
      BY <1>3, <1>4, <2>1, <3>2, <3>3, SMTT(20)
  <2>4. mtu \in Nat
    BY NicAssumption DEF IInv, Typed, TypeOK
  <2>5. QED
    BY <1>1, <2>1, <2>2, <2>3, <2>4, BeginSInv, SMTT(20)
<1>7. QED
  BY <1>5, <1>6

(* The frame is sent as it is.                                             *)
LEMMA WireWrittenSInv == ASSUME IInv, WInv, SInv, WireWritten PROVE SInv'
<1>1. pc = "write" /\ use = "wire" /\ pc' = "sent" /\ UNCHANGED <<req, frame>>
  BY DEF WireWritten, Written, answer
<1>2. Acceptable(frame, req)
  BY <1>1, Zenon DEF SInv, Checking
<1>3. QED
  BY <1>1, <1>2, Zenon DEF SInv, Roomy, Adding, Checking

(* Every step keeps the third invariant.                                   *)
LEMMA NextSInv == IInv /\ WInv /\ SInv /\ [Next]_vars => SInv'
<1> SUFFICES ASSUME IInv, WInv, SInv, [Next]_vars PROVE SInv'
  OBVIOUS
<1>1. CASE UNCHANGED vars
  <2>1. UNCHANGED <<pc, req, frame, pkt, use, os, asked, i, total, wire>>
    BY <1>1 DEF vars, device, answer, output, loop, input
  <2>2. Roomy'
    BY <2>1, Zenon DEF SInv, Roomy
  <2>3. Adding'
    BY <2>1, Zenon DEF SInv, Adding
  <2>4. Checking'
    BY <2>1, Zenon DEF SInv, Checking
  <2>5. QED
    BY <2>2, <2>3, <2>4 DEF SInv
<1>2. CASE Next
  BY <1>2, OtherSInv, EchoAnswerSInv, ArpAnswerSInv, WriteFieldSInv, StartSumSInv,
     AddWordSInv, SetChecksumSInv, PayloadWrittenSInv, WireWrittenSInv, SMTT(20) DEF Next, Working
<1>3. QED
  BY <1>1, <1>2

(* Spec keeps all three.                                                   *)
LEMMA ChecksumInvariant == Spec => [](IInv /\ WInv /\ SInv)
<1>1. Init => IInv /\ WInv /\ SInv
  BY InitIInv, InitWInv, InitSInv
<1>2. (IInv /\ WInv /\ SInv) /\ [Next]_vars => (IInv /\ WInv /\ SInv)'
  BY NextIInv, NextWInv, NextSInv
<1>3. QED
  BY <1>1, <1>2, PTL DEF Spec

(* An encoded Ip: its length, its time to live, and what it carries.       *)
LEMMA IpCarries ==
  ASSUME NEW p \in Ip, NEW b \in Bytes, Encodes(b, p)
  PROVE  /\ Len(b) = Size(p) /\ Len(b) >= 20 /\ b[9] = p.ttl % 256
         /\ SubSeq(b, 3, 4) = U16(p.total_length) /\ SubSeq(b, 21, Len(b)) = p.payload
<1> DEFINE s == Starts(p)
           g == Fields(p)
           vi == U8(p.version * 16 + p.ihl)
           de == U8(p.dscp * 4 + p.ecn)
           hi == U8(p.flags * 32 + ((p.fragment_offset \div 256) % 32))
<1>1. p \in Packet /\ p.kind = "ip" /\ Len(p.payload) \in Nat
  BY DEF Packet, Ip, Bytes
<1>2. s = <<0, 1, 2, 4, 6, 7, 8, 9, 10, 12, 16, 20, Size(p)>> /\ Size(p) = 20 + Len(p.payload)
  BY <1>1 DEF Starts, Size
<1>3. g = <<vi, de, U16(p.total_length), U16(p.identification), hi,
            U8(p.fragment_offset), U8(p.ttl), U8(p.protocol), U16(p.checksum),
            p.src, p.dst, p.payload>>
  BY <1>1, SMTT(20) DEF Fields, IpFields
<1> HIDE DEF vi, de, hi
<1>4. Len(g) = 12 /\ g[3] = U16(p.total_length) /\ g[7] = U8(p.ttl) /\ g[12] = p.payload
  BY <1>3, SMTT(20)
<1>5. /\ s[3] = 2 /\ s[3 + 1] = 4 /\ s[7] = 8 /\ s[12] = 20 /\ s[12 + 1] = Size(p)
      /\ 2 + 1 = 3 /\ 8 + 1 = 9 /\ 20 + 1 = 21
  BY <1>2, SMTT(20)
<1>6. Holds(b, p, 12) /\ 12 \in Nat /\ 12 <= Len(Fields(p))
  BY <1>4 DEF Encodes
<1>7. \A k \in 1..12 : SubSeq(b, s[k] + 1, s[k + 1]) = g[k]
  BY <1>1, <1>6, FieldAt, Zenon
<1>8. 3 \in 1..12 /\ 7 \in 1..12 /\ 12 \in 1..12 /\ 1 \in 1..1
  OBVIOUS
<1>9. /\ Len(b) = s[12 + 1]
      /\ \A k \in 1..12 : \A j \in 1..Len(g[k]) : b[s[k] + j] = g[k][j]
  BY <1>6, Zenon DEF Holds
<1> HIDE DEF s, g
<1>10. Len(b) = Size(p)
  BY <1>5, <1>9, Zenon
<1>11. Len(b) >= 20
  BY <1>1, <1>2, <1>10
<1>12. SubSeq(b, 3, 4) = U16(p.total_length) /\ SubSeq(b, 21, Len(b)) = p.payload
  <2>1. SubSeq(b, 2 + 1, 4) = U16(p.total_length) /\ SubSeq(b, 20 + 1, Size(p)) = p.payload
    BY <1>4, <1>5, <1>7, <1>8, Zenon
  <2>2. QED
    BY <1>5, <1>10, <2>1, Zenon
<1>13. b[9] = p.ttl % 256
  <2>1. Len(U8(p.ttl)) = 1 /\ U8(p.ttl)[1] = p.ttl % 256
    BY DEF U8
  <2>2. Len(g[7]) = 1 /\ g[7][1] = p.ttl % 256
    BY <1>4, <2>1, Zenon
  <2>3. b[s[7] + 1] = g[7][1]
    BY <1>8, <1>9, <2>2, ZenonT(30)
  <2>4. QED
    BY <1>5, <2>2, <2>3, Zenon
<1>14. QED
  BY <1>10, <1>11, <1>12, <1>13, SMTT(20)

(* A word keeps the low sixteen bits.                                      *)
LEMMA WordLow ==
  ASSUME NEW n \in Nat
  PROVE  U16(n % 65536) = U16(n)
<1>1. (n % 65536) % 256 = n % 256
  OBVIOUS
<1>2. ((n % 65536) \div 256) % 256 = (n \div 256) % 256
  OBVIOUS
<1>3. QED
  BY <1>1, <1>2 DEF U16

(* Bytes that are not all zero do not sum to zero.                         *)
LEMMA SumPositive ==
  ASSUME NEW b \in Bytes, NEW k \in 1..Len(b), b[k] > 0
  PROVE  WordSum(b) > 0
<1>1. PICK f : Sums(f, b, Len(b)) /\ WordSum(b) = f[Len(b)]
  BY SumOf
<1>2. Len(b) \in Nat
  BY DEF Bytes
<1>3. /\ f \in [0..Len(b) -> Nat]
      /\ \A m \in 1..Len(b) : f[m] = f[m - 1] + Part(b, m)
  BY <1>1 DEF Sums
<1> DEFINE S == {n \in Nat : k + n <= Len(b) => f[k + n] > 0}
<1>4. 0 \in S
  <2>1. k \in 0..Len(b) /\ k - 1 \in 0..Len(b) /\ k + 0 = k
    BY <1>2
  <2>2. f[k] = f[k - 1] + Part(b, k) /\ f[k - 1] \in Nat
    BY <1>3, <2>1
  <2>3. Part(b, k) > 0
    <3>1. b[k] \in Nat
      BY ByteNat
    <3>2. QED
      BY <3>1 DEF Part
  <2>4. f[k] > 0
    <3>1. Part(b, k) \in Nat
      BY PartNat
    <3>2. QED
      BY <2>2, <2>3, <3>1, SMTT(20)
  <2>5. f[k + 0] > 0
    BY <2>1, <2>4
  <2>6. QED
    BY <2>5
<1>5. ASSUME NEW n \in Nat, n \in S PROVE n + 1 \in S
  <2>1. SUFFICES ASSUME k + (n + 1) <= Len(b) PROVE f[k + (n + 1)] > 0
    OBVIOUS
  <2> DEFINE m == k + (n + 1)
  <2>2. m \in 1..Len(b) /\ m - 1 = k + n /\ k + n <= Len(b) /\ k + n \in 0..Len(b)
    BY <1>2, <2>1
  <2>3. f[m] = f[m - 1] + Part(b, m)
    BY <1>3, <2>2, Zenon
  <2>4. Part(b, m) \in Nat
    BY <2>2, PartNat
  <2>5. f[k + n] > 0 /\ f[k + n] \in Nat
    BY <1>3, <1>5, <2>2
  <2> HIDE DEF m
  <2>6. f[m] > 0
    BY <2>2, <2>3, <2>4, <2>5, SMTT(20)
  <2>7. QED
    BY <2>6 DEF m
<1> HIDE DEF S
<1>6. Len(b) - k \in Nat /\ k + (Len(b) - k) = Len(b)
  BY <1>2
<1>7. Len(b) - k \in S
  BY <1>4, <1>5, <1>6, Induction, SMTT(20)
<1>8. f[Len(b)] > 0
  BY <1>2, <1>6, <1>7, SMTT(20) DEF S
<1>9. QED
  BY <1>1, <1>8

(* Both checksums of an acceptable payload verify.                         *)
LEMMA PayloadAccepted ==
  ASSUME NEW p \in Ip, NEW b \in Bytes, Encodes(b, p), Verifies(b), Cloned(p)
  PROVE  /\ Len(b) >= 20 /\ Verifies(SubSeq(b, 21, Len(b))) /\ Verifies(SubSeq(b, 1, 20))
         /\ SubSeq(b, 3, 4) = U16(Len(b))
<1>1. /\ Len(b) = Size(p) /\ Len(b) >= 20 /\ b[9] = p.ttl % 256
      /\ SubSeq(b, 3, 4) = U16(p.total_length) /\ SubSeq(b, 21, Len(b)) = p.payload
  BY IpCarries
<1>2. /\ Verifies(p.payload) /\ p.ttl = 64 /\ p.total_length = Size(p) % 65536
  BY DEF Cloned
<1>3. Len(b) \in Nat
  BY DEF Bytes
<1>4. SubSeq(b, 3, 4) = U16(Len(b))
  BY <1>1, <1>2, <1>3, WordLow, SMTT(20)
<1> DEFINE h == SubSeq(b, 1, 20)
           m == SubSeq(b, 21, Len(b))
<1>5. h \in Bytes /\ Len(h) = 20 /\ \A k \in 1..20 : h[k] = b[k]
  BY <1>1, FirstBytes
<1>6. m = p.payload /\ Verifies(m)
  <2>1. m = p.payload
    BY <1>1
  <2> HIDE DEF m
  <2>2. QED
    BY <1>2, <2>1
<1>7. m \in Bytes
  <2>1. p.payload \in Bytes
    BY DEF Ip
  <2>2. QED
    BY <1>6, <2>1
<1>8. WordSum(b) = WordSum(h) + WordSum(m)
  <2>1. 20 \in Nat /\ 20 % 2 = 0 /\ 20 <= Len(b) /\ 20 + 1 = 21
    BY <1>1, <1>3
  <2>2. WordSum(b) = WordSum(SubSeq(b, 1, 20)) + WordSum(SubSeq(b, 20 + 1, Len(b)))
    BY <2>1, SumJoined
  <2>3. QED
    BY <2>1, <2>2
<1> HIDE DEF h, m
<1>9. WordSum(b) \in Nat /\ WordSum(h) \in Nat /\ WordSum(m) \in Nat
  BY <1>5, <1>7, SumOf, SMTT(20)
<1>10. WordSum(h) > 0
  <2>1. h[9] = 64
    BY <1>1, <1>2, <1>5, SMTT(20)
  <2>2. 9 \in 1..Len(h) /\ h[9] > 0
    BY <1>5, <2>1, SMTT(20)
  <2>3. QED
    BY <1>5, <2>2, SumPositive
<1>11. WordSum(h) % 65535 = 0
  <2>1. WordSum(b) % 65535 = 0 /\ WordSum(m) % 65535 = 0
    BY <1>6 DEF Verifies
  <2>2. QED
    BY <1>8, <1>9, <2>1, SMTT(20)
<1>12. Verifies(h)
  BY <1>10, <1>11 DEF Verifies
<1>13. QED
  BY <1>1, <1>4, <1>6, <1>12, SMTT(20) DEF h, m

(* An echo answer that reaches the wire whole is accepted by its receiver, *)
(* for every request, every payload and every MTU: calculate_checksum()    *)
(* stores what makes the message sum to a multiple of 65535, so that the   *)
(* payload which Ip's sums too adds nothing to its header.                 *)
THEOREM EchoAcceptedHolds == Spec => []EchoAccepted
<1>1. ASSUME IInv, WInv, SInv PROVE EchoAccepted
  <2>1. SUFFICES ASSUME wire # <<>>, req.kind = "echo", Whole
                 PROVE  /\ Verifies(SubSeq(wire, 35, Len(wire)))
                        /\ Verifies(SubSeq(wire, 15, 34))
                        /\ SubSeq(wire, 17, 18) = U16(Len(wire) - 14)
    BY DEF EchoAccepted
  <2> DEFINE b == frame.payload
  <2>2. /\ b \in Bytes /\ wire \in Bytes /\ Len(wire) = 14 + Len(b)
        /\ \A k \in 1..Len(b) : wire[14 + k] = b[k]
    BY <1>1, <2>1, EchoOnWire, SMTT(20)
  <2>3. PICK p \in Ip : Encodes(b, p) /\ Verifies(b) /\ Cloned(p)
    BY <1>1, <2>1 DEF SInv, Checking, Acceptable
  <2> HIDE DEF b
  <2>4. /\ Len(b) >= 20 /\ Verifies(SubSeq(b, 21, Len(b))) /\ Verifies(SubSeq(b, 1, 20))
        /\ SubSeq(b, 3, 4) = U16(Len(b))
    BY <2>2, <2>3, PayloadAccepted, Zenon
  <2> DEFINE l == Len(b) - 20
  <2>5. /\ Len(b) \in Nat /\ l \in Nat /\ 0 \in Nat /\ 2 \in Nat /\ 20 \in Nat
        /\ 0 + 20 <= Len(b) /\ 2 + 2 <= Len(b) /\ 20 + l <= Len(b)
    BY <2>2, <2>4, SMTT(20) DEF Bytes
  <2>6. /\ (14 + 0) + 1 = 15 /\ (14 + 0) + 20 = 34 /\ 0 + 1 = 1 /\ 0 + 20 = 20
        /\ (14 + 2) + 1 = 17 /\ (14 + 2) + 2 = 18 /\ 2 + 1 = 3 /\ 2 + 2 = 4
        /\ (14 + 20) + 1 = 35 /\ (14 + 20) + l = Len(wire) /\ 20 + 1 = 21
        /\ 20 + l = Len(b) /\ Len(wire) - 14 = Len(b)
    BY <2>2, <2>5
  <2> HIDE DEF l
  <2>7. /\ SubSeq(wire, (14 + 0) + 1, (14 + 0) + 20) = SubSeq(b, 0 + 1, 0 + 20)
        /\ SubSeq(wire, (14 + 2) + 1, (14 + 2) + 2) = SubSeq(b, 2 + 1, 2 + 2)
        /\ SubSeq(wire, (14 + 20) + 1, (14 + 20) + l) = SubSeq(b, 20 + 1, 20 + l)
    BY <2>2, <2>5, SliceBehind, ZenonT(30)
  <2>8. /\ SubSeq(wire, 15, 34) = SubSeq(b, 1, 20) /\ SubSeq(wire, 17, 18) = SubSeq(b, 3, 4)
        /\ SubSeq(wire, 35, Len(wire)) = SubSeq(b, 21, Len(b))
    BY <2>6, <2>7, ZenonT(30)
  <2>9. QED
    BY <2>4, <2>6, <2>8, Zenon
<1>2. QED
  BY <1>1, ChecksumInvariant, PTL
=============================================================================
