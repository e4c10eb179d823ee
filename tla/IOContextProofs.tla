-------------------------- MODULE IOContextProofs ---------------------------
(***************************************************************************)
(* Proofs about IOContext, for any operations and any sizes of the queues. *)
(* As long as no accesses to the ring have overlapped, the entries between *)
(* khead and sqe_tail, the operations in the kernel and the completions    *)
(* not handled yet are different operations that are all alive: what       *)
(* PendingAlive and OnePlace rest on.                                      *)
(***************************************************************************)
EXTENDS IOContext, TLAPS

(* The slot of a position.                                                 *)
Sq == [i \in Nat |-> i % SQSize]
Cq == [i \in Nat |-> i % CQSize]

Calm == ~raced /\ fault = "none"

(* The first completion that is not handled: the one in hand when the      *)
(* event loop has marked it as seen.                                       *)
First == IF loop = "handle" THEN cqHead - 1 ELSE cqHead

(* The batch is a run of posted completions that starts at First.          *)
Batched ==
  /\ cqHead =< cqTail
  /\ loop = "peek" => cqHead < cqTail
  /\ loop = "handle" => cqHead > 0
  /\ loop \in {"seen", "handle"} <=> batch # <<>>
  /\ batch # <<>> => First + Len(batch) =< cqTail
  /\ \A i \in 1..Len(batch) : batch[i] = First + i - 1

(* user_data is written last.                                              *)
Written == \A i \in 0..SQSize - 1 : sqes[i] # Null => at[sqes[i]] = "submitted"

(* The submission queue: one submit_*() at a time, slots in order, and an  *)
(* operation behind each entry the kernel has not consumed.                *)
HasEntry(o) == at[o] \in {"prep", "submitted"}

Entered ==
  /\ khead =< sqe_tail /\ sqe_tail =< khead + SQSize
  /\ \A o, p \in Submitting : o = p
  /\ \A o \in Submitting : pending[o] = "live"
  /\ \A o \in Ops : at[o] = "store" => slot[o] = sqe_tail /\ sqe_tail < khead + SQSize
  /\ \A o \in Ops : at[o] = "prep" => slot[o] = sqe_tail - 1 /\ khead =< slot[o]
  /\ \A o, p \in Ops : o # p /\ HasEntry(o) /\ HasEntry(p) => slot[o] # slot[p]
  /\ \A o \in Ops : at[o] = "submitted" => slot[o] < sqe_tail
  /\ \A o \in Ops : at[o] = "submitted" /\ khead =< slot[o]
                      => pending[o] = "live" /\ sqes[Sq[slot[o]]] = o
  /\ \A i \in khead..sqe_tail - 1 : \E o \in Ops : HasEntry(o) /\ slot[o] = i

(* What the kernel has consumed and nobody has handled is either in the    *)
(* kernel or in the completion queue, once, and the queue has not lapped   *)
(* the completion in hand.                                                 *)
Consumed(o) ==
  o \in Ops /\ at[o] = "submitted" /\ pending[o] = "live" /\ slot[o] < khead

InKernel(o) == \E j \in 1..Len(inflight) : inflight[j] = o
Posted(o) == \E i \in First..cqTail - 1 : cqes[Cq[i]] = o

Flying ==
  /\ cqTail =< First + CQSize
  /\ \A j \in 1..Len(inflight) : Consumed(inflight[j])
  /\ \A i, j \in 1..Len(inflight) : i # j => inflight[i] # inflight[j]
  /\ \A i \in First..cqTail - 1 : Consumed(cqes[Cq[i]])
  /\ \A i, j \in First..cqTail - 1 : i # j => cqes[Cq[i]] # cqes[Cq[j]]
  /\ \A o \in Ops : ~(InKernel(o) /\ Posted(o))
  /\ \A o \in Ops : Consumed(o) => InKernel(o) \/ Posted(o)

IInv ==
  /\ TypeOK /\ Batched /\ Written /\ PendingAlive
  /\ Calm => Entered /\ Flying

-----------------------------------------------------------------------------
(* Slots of a queue.                                                       *)
LEMMA Sizes == SQSize \in Nat \ {0} /\ CQSize \in Nat \ {0}
  BY IOContextAssumption DEF SQSize

LEMMA ModRange == \A N \in Nat \ {0}, i \in Nat : i % N \in 0..N - 1
  OBVIOUS

LEMMA DivMod ==
  \A N \in Nat \ {0}, i \in Nat : i = N * (i \div N) + (i % N) /\ (i \div N) \in Nat
  OBVIOUS

LEMMA ModApart ==
  ASSUME NEW N \in Nat \ {0}, NEW i \in Nat, NEW j \in Nat, i < j, j < i + N
  PROVE  i % N # j % N
<1> SUFFICES ASSUME i % N = j % N PROVE FALSE OBVIOUS
<1>1. PICK a \in Nat : a = i \div N BY DivMod, Zenon
<1>2. PICK b \in Nat : b = j \div N BY DivMod, Zenon
<1>3. i = N * a + (i % N) /\ j = N * b + (j % N) BY <1>1, <1>2, DivMod
<1>4. j - i = N * (b - a) BY <1>3, ModRange
<1>5. CASE b - a >= 1
  <2>1. N * (b - a) >= N BY <1>5
  <2> QED BY <1>4, <2>1
<1>6. CASE b - a =< 0
  <2>1. N * (b - a) =< 0 BY <1>6
  <2> QED BY <1>4, <2>1
<1> QED BY <1>5, <1>6

LEMMA SqSlots ==
  /\ \A i \in Nat : Sq[i] \in 0..SQSize - 1
  /\ \A i, j \in Nat : i < j /\ j < i + SQSize => Sq[i] # Sq[j]
<1>1. \A i \in Nat : Sq[i] = i % SQSize BY DEF Sq
<1> QED BY <1>1, Sizes, ModRange, ModApart, Zenon

LEMMA CqSlots ==
  /\ \A i \in Nat : Cq[i] \in 0..CQSize - 1
  /\ \A i, j \in Nat : i < j /\ j < i + CQSize => Cq[i] # Cq[j]
<1>1. \A i \in Nat : Cq[i] = i % CQSize BY DEF Cq
<1> QED BY <1>1, Sizes, ModRange, ModApart, Zenon

(* set_value() is called with one of the answers.                          *)
LEMMA AnswerTyped == \A o \in Ops, res \in Results : Answer(o, res) \in Answers
<1> SUFFICES ASSUME NEW o \in Ops, NEW res \in Results PROVE Answer(o, res) \in Answers
  OBVIOUS
<1>1. CASE o \in Accepts BY <1>1 DEF Answer, Answers
<1>2. CASE o \in Connects BY <1>2 DEF Answer, Answers
<1>3. CASE o \in Writes BY <1>3 DEF Answer, Answers
<1>4. CASE o \in Reads BY <1>4 DEF Answer, Answers
<1>5. CASE o \in BufferReads BY <1>5 DEF Answer, Answers
<1> QED BY <1>1, <1>2, <1>3, <1>4, <1>5 DEF Ops

-----------------------------------------------------------------------------
LEMMA FunIsSeq ==
  ASSUME NEW S, NEW n \in Nat, NEW f \in [1..n -> S] PROVE f \in Seq(S) /\ Len(f) = n
  OBVIOUS

LEMMA ConcatIs ==
  ASSUME NEW S, NEW a \in Seq(S), NEW b \in Seq(S)
  PROVE  /\ a \o b \in Seq(S) /\ Len(a \o b) = Len(a) + Len(b)
         /\ \A j \in 1..Len(a) + Len(b) :
               (a \o b)[j] = IF j <= Len(a) THEN a[j] ELSE b[j - Len(a)]
  OBVIOUS

(* What the kernel copies out of the ring and takes off its list.          *)
LEMMA SubmitCopies ==
  ASSUME TypeOK, Submit
  PROVE  /\ inflight' \in Seq(Ops \cup {Null})
         /\ \A n \in Nat : n = sqe_tail - khead =>
              /\ Len(inflight') = Len(inflight) + n
              /\ \A j \in 1..n : inflight'[Len(inflight) + j] = sqes[Sq[khead + j - 1]]
              /\ \A j \in 1..Len(inflight) : inflight'[j] = inflight[j]
<1>1. inflight \in Seq(Ops \cup {Null}) /\ Len(inflight) \in Nat BY DEF TypeOK
<1>2. PICK k \in Nat : /\ 1..sqe_tail - khead = 1..k
                       /\ sqe_tail - khead \in Nat => k = sqe_tail - khead
  <2>1. sqe_tail - khead \in Int BY DEF TypeOK
  <2>2. CASE sqe_tail - khead \in Nat BY <2>2, Zenon
  <2>3. CASE sqe_tail - khead < 0
    <3>1. 1..sqe_tail - khead = 1..0 BY <2>1, <2>3
    <3>2. 0 \in Nat /\ sqe_tail - khead \notin Nat BY <2>3
    <3> QED BY <3>1, <3>2, Zenon
  <2> QED BY <2>1, <2>2, <2>3
<1>3. \A i \in 1..k : khead + i - 1 \in Nat BY DEF TypeOK
<1>4. \A i \in 1..k : (khead + i - 1) % SQSize = Sq[khead + i - 1] BY <1>3 DEF Sq
<1>5. PICK new : /\ new = [i \in 1..k |-> sqes[Sq[khead + i - 1]]]
                 /\ inflight' = inflight \o new
  <2>1. [i \in 1..k |-> sqes[(khead + i - 1) % SQSize]] = [i \in 1..k |-> sqes[Sq[khead + i - 1]]]
    BY <1>4
  <2> QED BY <1>2, <2>1, Zenon DEF Submit
<1>6. \A i \in 1..k : sqes[Sq[khead + i - 1]] \in Ops \cup {Null}
  BY <1>3, SqSlots DEF TypeOK
<1>7. new \in Seq(Ops \cup {Null}) /\ Len(new) = k
  <2>1. new \in [1..k -> Ops \cup {Null}] BY <1>5, <1>6, Zenon
  <2> QED BY <2>1, FunIsSeq
<1>8. \A j \in 1..k : new[j] = sqes[Sq[khead + j - 1]] BY <1>5
<1>9. /\ inflight \o new \in Seq(Ops \cup {Null})
      /\ Len(inflight \o new) = Len(inflight) + Len(new)
      /\ \A j \in 1..Len(inflight) + Len(new) :
            (inflight \o new)[j]
              = IF j <= Len(inflight) THEN inflight[j] ELSE new[j - Len(inflight)]
  BY <1>1, <1>7, ConcatIs, Zenon
<1>10. /\ inflight' \in Seq(Ops \cup {Null}) /\ Len(inflight') = Len(inflight) + k
       /\ \A j \in 1..Len(inflight) + k :
             inflight'[j] = IF j <= Len(inflight) THEN inflight[j] ELSE new[j - Len(inflight)]
  BY <1>5, <1>7, <1>9, Zenon
<1>11. \A j \in 1..Len(inflight) : inflight'[j] = inflight[j] BY <1>1, <1>10
<1>12. ASSUME NEW j \in 1..k PROVE inflight'[Len(inflight) + j] = new[j]
  <2>1. /\ Len(inflight) + j \in 1..Len(inflight) + k
        /\ ~(Len(inflight) + j <= Len(inflight)) /\ (Len(inflight) + j) - Len(inflight) = j
    BY <1>1
  <2> QED BY <1>10, <2>1
<1> QED BY <1>2, <1>8, <1>10, <1>11, <1>12, Zenon

LEMMA TakenOut ==
  ASSUME NEW S, NEW s \in Seq(S), NEW i \in 1..Len(s)
  PROVE  LET rest == SubSeq(s, 1, i - 1) \o SubSeq(s, i + 1, Len(s)) IN
         /\ rest \in Seq(S) /\ Len(rest) = Len(s) - 1
         /\ \A j \in 1..Len(s) - 1 : rest[j] = s[IF j < i THEN j ELSE j + 1]
<1>1. Len(s) \in Nat OBVIOUS
<1>2. /\ SubSeq(s, 1, i - 1) \in Seq(S) /\ Len(SubSeq(s, 1, i - 1)) = i - 1
      /\ \A j \in 1..i - 1 : SubSeq(s, 1, i - 1)[j] = s[j]
  BY <1>1
<1>3. /\ SubSeq(s, i + 1, Len(s)) \in Seq(S)
      /\ Len(SubSeq(s, i + 1, Len(s))) = Len(s) - i
      /\ \A j \in 1..Len(s) - i : SubSeq(s, i + 1, Len(s))[j] = s[i + j]
  BY <1>1
<1>4. PICK a \in Seq(S) : /\ a = SubSeq(s, 1, i - 1) /\ Len(a) = i - 1
                          /\ \A j \in 1..i - 1 : a[j] = s[j]
  BY <1>2, Zenon
<1>5. PICK b \in Seq(S) : /\ b = SubSeq(s, i + 1, Len(s)) /\ Len(b) = Len(s) - i
                          /\ \A j \in 1..Len(s) - i : b[j] = s[i + j]
  BY <1>3, Zenon
<1>6. /\ a \o b \in Seq(S) /\ Len(a \o b) = Len(a) + Len(b)
      /\ \A j \in 1..Len(a) + Len(b) :
            (a \o b)[j] = IF j <= Len(a) THEN a[j] ELSE b[j - Len(a)]
  BY ConcatIs
<1>7. Len(a) = i - 1 /\ Len(b) = Len(s) - i BY <1>4, <1>5, Zenon
<1>8. Len(a) + Len(b) = Len(s) - 1 BY <1>1, <1>7
<1>9. ASSUME NEW j \in 1..Len(s) - 1
      PROVE  (a \o b)[j] = s[IF j < i THEN j ELSE j + 1]
  <2>1. CASE j < i
    <3>1. \A k \in 1..i - 1 : a[k] = s[k] BY <1>4, Zenon
    <3>2. j \in 1..i - 1 /\ j \in 1..Len(a) + Len(b) /\ j <= Len(a)
      BY <1>1, <1>7, <1>8, <2>1
    <3>3. (a \o b)[j] = a[j] BY <1>6, <3>2, Zenon
    <3> QED BY <2>1, <3>1, <3>2, <3>3, Zenon
  <2>2. CASE j >= i
    <3>1. \A k \in 1..Len(s) - i : b[k] = s[i + k] BY <1>5, Zenon
    <3>2. (a \o b)[j] = b[j - (i - 1)] BY <1>1, <1>6, <1>7, <1>8, <2>2, SMTT(20)
    <3>3. j - (i - 1) \in 1..Len(s) - i /\ i + (j - (i - 1)) = j + 1 BY <1>1, <2>2
    <3>4. b[j - (i - 1)] = s[j + 1] BY <3>1, <3>3
    <3> QED BY <1>1, <2>2, <3>2, <3>4
  <2>3. j < i \/ j >= i BY <1>1
  <2> QED BY <2>1, <2>2, <2>3, Zenon
<1>10. Len(a \o b) = Len(s) - 1 BY <1>6, <1>8
<1> QED BY <1>4, <1>5, <1>6, <1>9, <1>10, Zenon

LEMMA CompleteTakes ==
  ASSUME TypeOK, NEW i \in 1..Len(inflight), Complete(i)
  PROVE  /\ inflight' \in Seq(Ops \cup {Null}) /\ Len(inflight') = Len(inflight) - 1
         /\ \A j \in 1..Len(inflight) - 1 :
               inflight'[j] = inflight[IF j < i THEN j ELSE j + 1]
         /\ inflight[i] \in Ops \cup {Null}
         /\ cqes' = [cqes EXCEPT ![Cq[cqTail]] = inflight[i]]
<1>1. inflight \in Seq(Ops \cup {Null}) BY DEF TypeOK
<1>2. inflight' = SubSeq(inflight, 1, i - 1) \o SubSeq(inflight, i + 1, Len(inflight))
  BY DEF Complete
<1>3. inflight[i] \in Ops \cup {Null} BY <1>1
<1>4. cqTail % CQSize = Cq[cqTail] BY DEF TypeOK, Cq
<1>5. cqes' = [cqes EXCEPT ![Cq[cqTail]] = inflight[i]] BY <1>4, Zenon DEF Complete
<1> QED BY <1>1, <1>2, <1>3, <1>5, TakenOut, Zenon

LEMMA PrepWrites ==
  ASSUME TypeOK, NEW o \in Ops, Prep(o)
  PROVE  sqes' = [sqes EXCEPT ![Sq[slot[o]]] = o]
<1>1. slot[o] % SQSize = Sq[slot[o]] BY DEF TypeOK, Sq
<1> QED BY <1>1, Zenon DEF Prep

(* The completions that one turn of the event loop takes.                  *)
LEMMA PeekTakes ==
  ASSUME TypeOK, Batched, Peek
  PROVE  \E k \in Nat : /\ batch' = [i \in 1..k |-> cqHead + i - 1]
                        /\ k > 0 /\ cqHead + k =< cqTail
<1> DEFINE k == IF cqTail - cqHead < batch_size THEN cqTail - cqHead ELSE batch_size
<1>1. batch' = [i \in 1..k |-> cqHead + i - 1] BY DEF Peek
<1>2. k \in Nat /\ k > 0 /\ cqHead + k =< cqTail
  BY Sizes DEF Peek, LoopAt, TypeOK, Batched, SQSize
<1> QED BY <1>1, <1>2

(* The completion in hand is the first of the batch.                       *)
LEMMA InHand ==
  ASSUME TypeOK, Batched, Handle
  PROVE  /\ batch # <<>> /\ Head(batch) = First /\ First \in Nat /\ First < cqTail
         /\ batch' \in Seq(Nat) /\ Len(batch') = Len(batch) - 1
         /\ \A i \in 1..Len(batch') : batch'[i] = batch[i + 1]
         /\ cqes[Cq[First]] \in Ops \cup {Null}
<1>1. batch \in Seq(Nat) /\ batch # <<>> /\ loop = "handle" /\ batch' = Tail(batch)
  BY DEF Handle, LoopAt, TypeOK, Batched
<1>2. Len(batch) \in Nat /\ Len(batch) > 0 BY <1>1
<1>3. batch[1] = First /\ First \in Nat /\ First < cqTail
  BY <1>1, <1>2 DEF TypeOK, Batched, First
<1>4. Head(batch) = batch[1] BY <1>1
<1>5. /\ batch' \in Seq(Nat) /\ Len(batch') = Len(batch) - 1
      /\ \A i \in 1..Len(batch') : batch'[i] = batch[i + 1]
  BY <1>1, <1>2
<1>6. cqes[Cq[First]] \in Ops \cup {Null} BY <1>3, CqSlots DEF TypeOK
<1> QED BY <1>1, <1>3, <1>4, <1>5, <1>6

(* What Handle does with it.                                               *)
LEMMA HandleDoes ==
  ASSUME TypeOK, Batched, Handle, NEW o, o = cqes[Cq[First]]
  PROVE  IF o # Null /\ pending[o] = "live"
         THEN /\ pending' = [pending EXCEPT ![o] = "deleted"]
              /\ \E res \in Results : /\ answer' = [answer EXCEPT ![o] = Answer(o, res)]
                                     /\ fault' \in ResizeFaults(o, res)
         ELSE fault' = "dead pending" /\ UNCHANGED <<pending, answer>>
<1>1. cqes[Head(batch) % CQSize] = o
  <2>1. Head(batch) = First /\ First \in Nat BY InHand
  <2> QED BY <2>1 DEF Cq
<1> QED BY <1>1 DEF Handle

LEMMA TypeStep == TypeOK /\ Batched /\ [Next]_vars => TypeOK'
<1> SUFFICES ASSUME TypeOK, Batched, [Next]_vars PROVE TypeOK' OBVIOUS
<1> USE DEF At, LoopAt, ring, cq, Faults
<1>1. ASSUME NEW o \in Ops, GetSqe(o) PROVE TypeOK'
  <2>1. raced' \in BOOLEAN BY <1>1, Zenon DEF GetSqe
  <2> QED BY <1>1, <2>1 DEF GetSqe, TypeOK
<1>2. ASSUME NEW o \in Ops, StoreTail(o) PROVE TypeOK'
  BY <1>2 DEF StoreTail, TypeOK
<1>3. ASSUME NEW o \in Ops, Prep(o) PROVE TypeOK'
  <2>1. Sq[slot[o]] \in 0..SQSize - 1 /\ sqes' = [sqes EXCEPT ![Sq[slot[o]]] = o]
    BY <1>3, SqSlots, PrepWrites DEF TypeOK
  <2>2. sqes' \in [0..SQSize - 1 -> Ops \cup {Null}] BY <2>1 DEF TypeOK
  <2> QED BY <1>3, <2>2 DEF Prep, TypeOK
<1>4. ASSUME NEW i \in 1..Len(inflight), Complete(i) PROVE TypeOK'
  <2>1. raced' \in BOOLEAN BY <1>4, Zenon DEF Complete
  <2>2. inflight' \in Seq(Ops \cup {Null}) BY <1>4, CompleteTakes
  <2>3. inflight[i] \in Ops \cup {Null} BY <1>4, CompleteTakes
  <2>4. cqes' = [cqes EXCEPT ![Cq[cqTail]] = inflight[i]] BY <1>4, CompleteTakes
  <2>5. cqes' \in [0..CQSize - 1 -> Ops \cup {Null}] BY <2>3, <2>4 DEF TypeOK
  <2> QED BY <1>4, <2>1, <2>2, <2>5, SMTT(20) DEF Complete, TypeOK
<1>5. CASE Submit
  <2>1. raced' \in BOOLEAN BY <1>5, Zenon DEF Submit
  <2>2. inflight' \in Seq(Ops \cup {Null}) BY <1>5, SubmitCopies
  <2> QED BY <1>5, <2>1, <2>2 DEF Submit, TypeOK
<1>6. CASE Wait \/ WaitFails BY <1>6 DEF Wait, WaitFails, TypeOK
<1>7. CASE Peek
  <2>1. PICK k \in Nat : batch' = [i \in 1..k |-> cqHead + i - 1] BY <1>7, PeekTakes
  <2>2. cqHead \in Nat BY DEF TypeOK
  <2>3. \A i \in 1..k : cqHead + i - 1 \in Nat BY <2>2
  <2>4. batch' \in Seq(Nat) BY <2>1, <2>3
  <2> QED BY <1>7, <2>4 DEF Peek, TypeOK
<1>8. CASE Seen BY <1>8 DEF Seen, TypeOK
<1>9. CASE Handle
  <2>1. PICK o \in Ops \cup {Null} : o = cqes[Cq[First]] BY <1>9, InHand
  <2>2. batch' \in Seq(Nat) BY <1>9, InHand
  <2>3. CASE o # Null /\ pending[o] = "live"
    <3>1. PICK res \in Results : /\ answer' = [answer EXCEPT ![o] = Answer(o, res)]
                                 /\ fault' \in ResizeFaults(o, res)
                                 /\ pending' = [pending EXCEPT ![o] = "deleted"]
      BY <1>9, <2>1, <2>3, HandleDoes
    <3>2. answer' \in [Ops -> Answers] BY <2>3, <3>1, AnswerTyped DEF TypeOK
    <3>3. pending' \in [Ops -> {"none", "live", "deleted"}] BY <3>1 DEF TypeOK
    <3>4. fault' \in Faults BY <3>1 DEF ResizeFaults
    <3> QED BY <1>9, <2>2, <3>2, <3>3, <3>4 DEF Handle, TypeOK
  <2>4. CASE ~(o # Null /\ pending[o] = "live")
    <3>1. fault' = "dead pending" /\ UNCHANGED <<pending, answer>>
      BY <1>9, <2>1, <2>4, HandleDoes
    <3> QED BY <1>9, <2>2, <3>1 DEF Handle, TypeOK
  <2> QED BY <2>3, <2>4
<1>10. CASE UNCHANGED vars BY <1>10 DEF vars, TypeOK
<1> QED BY <1>1, <1>2, <1>3, <1>4, <1>5, <1>6, <1>7, <1>8, <1>9, <1>10
        DEF Next, SubmitStep, KernelStep, LoopStep

(* The event loop's own positions, whatever the workers do to the ring.    *)
LEMMA BatchStep == TypeOK /\ Batched /\ [Next]_vars => Batched'
<1> SUFFICES ASSUME TypeOK, Batched, [Next]_vars PROVE Batched' OBVIOUS
<1> USE DEF LoopAt, cq
<1>1. ASSUME UNCHANGED <<cqHead, loop, batch>>, cqTail' \in {cqTail, cqTail + 1}
      PROVE  Batched'
  BY <1>1 DEF TypeOK, Batched, First
<1>2. ASSUME NEW o \in Ops, SubmitStep(o) PROVE Batched'
  BY <1>1, <1>2 DEF SubmitStep, GetSqe, StoreTail, Prep
<1>3. ASSUME NEW i \in 1..Len(inflight), Complete(i) PROVE Batched'
  BY <1>1, <1>3 DEF Complete
<1>4. CASE Submit \/ Wait \/ WaitFails
  BY <1>4 DEF Submit, Wait, WaitFails, TypeOK, Batched, First
<1>5. CASE Peek
  <2>1. PICK k \in Nat : /\ batch' = [i \in 1..k |-> cqHead + i - 1]
                         /\ k > 0 /\ cqHead + k =< cqTail
    BY <1>5, PeekTakes
  <2>2. Len(batch') = k /\ batch' # <<>> /\ \A i \in 1..k : batch'[i] = cqHead + i - 1
    BY <2>1
  <2> QED BY <1>5, <2>1, <2>2, Zenon DEF Peek, TypeOK, Batched, First
<1>6. CASE Seen
  <2>1. Len(batch) > 0 BY <1>6 DEF Seen, TypeOK
  <2> QED BY <1>6, <2>1 DEF Seen, TypeOK, Batched, First
<1>7. CASE Handle
  <2>1. loop = "handle" /\ loop' = (IF Len(batch) = 1 THEN "submit" ELSE "seen")
        /\ UNCHANGED <<cqHead, cqTail>>
    BY <1>7 DEF Handle
  <2>2. /\ batch # <<>> /\ batch' \in Seq(Nat) /\ Len(batch') = Len(batch) - 1
        /\ \A i \in 1..Len(batch') : batch'[i] = batch[i + 1]
    BY <1>7, InHand
  <2>3. Len(batch) \in Nat /\ Len(batch') \in Nat BY <2>2 DEF TypeOK
  <2>4. batch' # <<>> <=> Len(batch') # 0 BY <2>2
  <2>5. \A i \in 1..Len(batch') : batch'[i] = First' + i - 1
    BY <2>1, <2>2, <2>3, SMTT(20) DEF TypeOK, Batched, First
  <2>6. First' + Len(batch') =< cqTail'
    BY <2>1, <2>2, <2>3 DEF TypeOK, Batched, First
  <2> QED BY <2>1, <2>2, <2>3, <2>4, <2>5, <2>6, SMTT(20) DEF TypeOK, Batched
<1>8. CASE UNCHANGED vars BY <1>1, <1>8 DEF vars
<1> QED BY <1>2, <1>3, <1>4, <1>5, <1>6, <1>7, <1>8 DEF Next, KernelStep, LoopStep

LEMMA WrittenStep == TypeOK /\ Written /\ [Next]_vars => Written'
<1> SUFFICES ASSUME TypeOK, Written, [Next]_vars PROVE Written' OBVIOUS
<1> USE DEF At, ring
<1>1. ASSUME NEW o \in Ops, GetSqe(o) \/ StoreTail(o) PROVE Written'
  <2>1. PICK l \in {"store", "prep"} : at' = [at EXCEPT ![o] = l] BY <1>1 DEF GetSqe, StoreTail
  <2>2. at[o] # "submitted" /\ sqes' = sqes BY <1>1 DEF GetSqe, StoreTail
  <2> QED BY <2>1, <2>2 DEF TypeOK, Written
<1>2. ASSUME NEW o \in Ops, Prep(o) PROVE Written'
  <2>1. Sq[slot[o]] \in 0..SQSize - 1 /\ sqes' = [sqes EXCEPT ![Sq[slot[o]]] = o]
    BY <1>2, SqSlots, PrepWrites DEF TypeOK
  <2> QED BY <1>2, <2>1 DEF Prep, TypeOK, Written
<1>3. CASE UNCHANGED <<at, sqes>> BY <1>3 DEF Written
<1> QED BY <1>1, <1>2, <1>3 DEF Next, SubmitStep, KernelStep, LoopStep, Complete,
        Submit, Wait, WaitFails, Peek, Seen, Handle, vars

-----------------------------------------------------------------------------
(* The steps of a run in which no accesses have overlapped.                *)

LEMMA EnteredStays ==
  ASSUME Entered, UNCHANGED <<at, slot, pending, sqe_tail, khead, sqes>>
  PROVE  Entered'
<1>1. Submitting' = Submitting /\ \A o \in Ops : HasEntry(o)' <=> HasEntry(o)
  BY DEF Submitting, HasEntry
<1> QED BY <1>1 DEF Entered

LEMMA FlyingStays ==
  ASSUME Flying, UNCHANGED <<inflight, cqes, cqTail>>, First' = First,
         \A o : Consumed(o)' <=> Consumed(o)
  PROVE  Flying'
<1>1. \A o : (InKernel(o)' <=> InKernel(o)) /\ (Posted(o)' <=> Posted(o))
  BY DEF InKernel, Posted
<1>2. \A j \in 1..Len(inflight') : (Consumed(inflight[j]))'
  <2>1. ASSUME NEW j \in 1..Len(inflight) PROVE (Consumed(inflight[j]))'
    <3>1. PICK p : p = inflight[j] /\ Consumed(p) BY DEF Flying
    <3>2. Consumed(p)' BY <3>1
    <3> QED BY <3>1, <3>2 DEF Consumed
  <2> QED BY <2>1
<1>3. \A i \in First'..cqTail' - 1 : (Consumed(cqes[Cq[i]]))'
  <2>1. ASSUME NEW i \in First..cqTail - 1 PROVE (Consumed(cqes[Cq[i]]))'
    <3>1. PICK p : p = cqes[Cq[i]] /\ Consumed(p) BY DEF Flying
    <3>2. Consumed(p)' BY <3>1
    <3> QED BY <3>1, <3>2 DEF Consumed
  <2> QED BY <2>1
<1>4. cqTail' =< First' + CQSize BY DEF Flying
<1>5. \A i, j \in 1..Len(inflight') : i # j => inflight'[i] # inflight'[j] BY DEF Flying
<1>6. \A i, j \in First'..cqTail' - 1 : i # j => (cqes[Cq[i]])' # (cqes[Cq[j]])'
  <2>1. \A i : (cqes[Cq[i]])' = cqes[Cq[i]] OBVIOUS
  <2> QED BY <2>1 DEF Flying
<1>7. \A o \in Ops : /\ ~(InKernel(o)' /\ Posted(o)')
                     /\ Consumed(o)' => InKernel(o)' \/ Posted(o)'
  BY <1>1, Zenon DEF Flying
<1> QED BY <1>2, <1>3, <1>4, <1>5, <1>6, <1>7, Zenon DEF Flying

LEMMA GetSqeCalm ==
  ASSUME TypeOK, Entered, Flying, NEW o \in Ops, GetSqe(o), Calm'
  PROVE  Entered' /\ Flying'
<1>1. Submitting = {} /\ sqe_tail - khead < SQSize
  <2>1. Submitting = {} BY Zenon DEF GetSqe, Calm
  <2>2. fault' = "none" /\ fault' = (IF sqe_tail - khead >= SQSize THEN "null sqe" ELSE "none")
    BY Zenon DEF GetSqe, Calm
  <2> QED BY <2>1, <2>2, Sizes DEF TypeOK
<1>2. at[o] = "start" /\ at' = [at EXCEPT ![o] = "store"]
      /\ pending' = [pending EXCEPT ![o] = "live"]
      /\ slot' = [slot EXCEPT ![o] = sqe_tail]
      /\ UNCHANGED <<sqe_tail, khead, sqes, inflight, cqes, cqHead, cqTail, loop>>
  BY DEF GetSqe, At, ring, cq
<1>3. \A p \in Ops \ {o} : at'[p] = at[p] /\ pending'[p] = pending[p] /\ slot'[p] = slot[p]
  BY <1>2 DEF TypeOK
<1>4. at'[o] = "store" /\ pending'[o] = "live" /\ slot'[o] = sqe_tail
  BY <1>2 DEF TypeOK
<1>5. \A p \in Ops : at[p] \notin {"store", "prep"} BY <1>1 DEF Submitting
<1>6. Entered'
  <2>1. \A p \in Ops : HasEntry(p)' <=> HasEntry(p) BY <1>2, <1>3, <1>4 DEF HasEntry
  <2>2. Submitting' = {o} BY <1>3, <1>4, <1>5 DEF Submitting
  <2>3. \A p \in Ops : HasEntry(p)' => slot'[p] = slot[p]
    BY <1>3, <1>4 DEF HasEntry
  <2>4. khead' =< sqe_tail' /\ sqe_tail' =< khead' + SQSize BY <1>2 DEF Entered
  <2>5. \A p \in Ops : at'[p] = "store" => slot'[p] = sqe_tail' /\ sqe_tail' < khead' + SQSize
    BY <1>1, <1>2, <1>3, <1>4, <1>5, Sizes DEF TypeOK
  <2>6. \A p \in Ops : at'[p] # "prep" BY <1>3, <1>4, <1>5
  <2>7. \A p \in Ops : at'[p] = "submitted" => p # o /\ at[p] = "submitted" BY <1>3, <1>4
  <2>8. \A p, q \in Ops : p # q /\ HasEntry(p)' /\ HasEntry(q)' => slot'[p] # slot'[q]
    <3>1. \A p, q \in Ops : p # q /\ HasEntry(p) /\ HasEntry(q) => slot[p] # slot[q]
      BY Zenon DEF Entered
    <3> QED BY <2>1, <2>3, <3>1, Zenon
  <2>9. \A i \in khead'..sqe_tail' - 1 : \E p \in Ops : HasEntry(p)' /\ slot'[p] = i
    <3>1. \A i \in khead..sqe_tail - 1 : \E p \in Ops : HasEntry(p) /\ slot[p] = i
      BY Zenon DEF Entered
    <3>2. khead'..sqe_tail' - 1 = khead..sqe_tail - 1 BY <1>2
    <3> QED BY <2>1, <2>3, <3>1, <3>2, Zenon
  <2>10. \A p \in Ops : at'[p] = "submitted" => slot'[p] < sqe_tail'
    <3>1. \A p \in Ops : at[p] = "submitted" => slot[p] < sqe_tail BY Zenon DEF Entered
    <3> QED BY <1>2, <1>3, <2>7, <3>1
  <2>11. \A p \in Ops : at'[p] = "submitted" /\ khead' =< slot'[p]
                          => pending'[p] = "live" /\ sqes'[Sq[slot'[p]]] = p
    <3>1. \A p \in Ops : at[p] = "submitted" /\ khead =< slot[p]
                            => pending[p] = "live" /\ sqes[Sq[slot[p]]] = p
      BY Zenon DEF Entered
    <3> QED BY <1>2, <1>3, <2>7, <3>1
  <2> QED BY <1>4, <2>2, <2>4, <2>5, <2>6, <2>8, <2>9, <2>10, <2>11, Zenon DEF Entered
<1>7. \A p : Consumed(p)' <=> Consumed(p) BY <1>2, <1>3, <1>4 DEF Consumed
<1>8. First' = First BY <1>2 DEF First
<1> QED BY <1>2, <1>6, <1>7, <1>8, FlyingStays

LEMMA StoreTailCalm ==
  ASSUME TypeOK, Entered, Flying, NEW o \in Ops, StoreTail(o)
  PROVE  Entered' /\ Flying'
<1>1. at[o] = "store" /\ at' = [at EXCEPT ![o] = "prep"] /\ sqe_tail' = slot[o] + 1
      /\ UNCHANGED <<slot, pending, khead, sqes, inflight, cqes, cqHead, cqTail, loop>>
  BY DEF StoreTail, At, cq
<1>2. \A p \in Ops \ {o} : at'[p] = at[p] /\ at[p] \notin {"store", "prep"}
  <2>1. o \in Submitting /\ \A p, q \in Submitting : p = q BY <1>1 DEF Entered, Submitting
  <2>2. \A p \in Ops \ {o} : at[p] \notin {"store", "prep"} BY <2>1 DEF Submitting
  <2> QED BY <1>1, <2>2 DEF TypeOK
<1>3. at'[o] = "prep" /\ pending[o] = "live" /\ slot[o] = sqe_tail
      /\ sqe_tail' = sqe_tail + 1 /\ sqe_tail < khead + SQSize
  BY <1>1 DEF TypeOK, Entered, Submitting
<1>4. Entered'
  <2>1. \A p \in Ops : HasEntry(p)' <=> p = o \/ HasEntry(p) BY <1>1, <1>2, <1>3 DEF HasEntry
  <2>2. Submitting' = {o} BY <1>2, <1>3 DEF Submitting
  <2>3. khead' =< sqe_tail' /\ sqe_tail' =< khead' + SQSize
    BY <1>1, <1>3, Sizes DEF TypeOK, Entered
  <2>4. \A p \in Ops : /\ at'[p] # "store"
                       /\ at'[p] = "prep" => p = o
                       /\ at'[p] = "submitted" => p # o /\ at[p] = "submitted"
    BY <1>2, <1>3
  <2>5. slot'[o] = sqe_tail' - 1 /\ khead' =< slot'[o] BY <1>1, <1>3, SMTT(20) DEF TypeOK, Entered
  <2>6. \A p \in Ops : HasEntry(p) => slot[p] < sqe_tail
    BY <1>1, <1>2 DEF TypeOK, Entered, HasEntry
  <2>7. ASSUME NEW p \in Ops, NEW q \in Ops, p # q, HasEntry(p)', HasEntry(q)'
        PROVE  slot'[p] # slot'[q]
    <3>1. CASE p # o /\ q # o BY <1>1, <2>1, <2>7, <3>1 DEF Entered
    <3>2. \A r \in Ops : HasEntry(r) => slot[r] # slot[o] BY <1>3, <2>6 DEF TypeOK
    <3>3. CASE p = o \/ q = o BY <1>1, <2>1, <2>7, <3>2, <3>3
    <3> QED BY <3>1, <3>3, SMTT(20)
  <2>8. ASSUME NEW i \in khead'..sqe_tail' - 1 PROVE \E p \in Ops : HasEntry(p)' /\ slot'[p] = i
    <3>1. i = sqe_tail \/ i \in khead..sqe_tail - 1 BY <1>1, <1>3 DEF TypeOK
    <3>2. CASE i = sqe_tail BY <1>1, <1>3, <2>1, <3>2
    <3>3. CASE i \in khead..sqe_tail - 1
      <4>1. PICK p \in Ops : HasEntry(p) /\ slot[p] = i BY <3>3, Zenon DEF Entered
      <4> QED BY <1>1, <2>1, <4>1
    <3> QED BY <3>1, <3>2, <3>3
  <2>9. \A p \in Ops : at'[p] = "submitted" => slot'[p] < sqe_tail'
    <3>1. \A p \in Ops : at[p] = "submitted" => slot[p] < sqe_tail BY Zenon DEF Entered
    <3>2. \A p \in Ops : slot[p] \in Nat /\ sqe_tail \in Nat BY DEF TypeOK
    <3> QED BY <1>1, <1>3, <2>4, <3>1, <3>2
  <2>10. \A p \in Ops : at'[p] = "submitted" /\ khead' =< slot'[p]
                          => pending'[p] = "live" /\ sqes'[Sq[slot'[p]]] = p
    BY <1>1, <2>4 DEF Entered
  <2>11. pending'[o] = "live" BY <1>1, <1>3
  <2> QED BY <2>2, <2>3, <2>4, <2>5, <2>7, <2>8, <2>9, <2>10, <2>11, Zenon DEF Entered
<1>5. \A p : Consumed(p)' <=> Consumed(p) BY <1>1, <1>2, <1>3 DEF Consumed
<1>6. First' = First BY <1>1 DEF First
<1> QED BY <1>1, <1>4, <1>5, <1>6, FlyingStays

LEMMA PrepCalm ==
  ASSUME TypeOK, Entered, Flying, NEW o \in Ops, Prep(o)
  PROVE  Entered' /\ Flying'
<1>1. at[o] = "prep" /\ at' = [at EXCEPT ![o] = "submitted"]
      /\ sqes' = [sqes EXCEPT ![Sq[slot[o]]] = o]
      /\ UNCHANGED <<slot, pending, sqe_tail, khead, inflight, cqes, cqHead, cqTail, loop>>
  BY PrepWrites, Zenon DEF Prep, At, cq
<1>2. \A p \in Ops \ {o} : at'[p] = at[p] /\ at[p] \notin {"store", "prep"}
  <2>1. o \in Submitting /\ \A p, q \in Submitting : p = q BY <1>1 DEF Entered, Submitting
  <2>2. \A p \in Ops \ {o} : at[p] \notin {"store", "prep"} BY <2>1 DEF Submitting
  <2> QED BY <1>1, <2>2, SMTT(20) DEF TypeOK
<1>3. at'[o] = "submitted" /\ pending[o] = "live"
      /\ slot[o] = sqe_tail - 1 /\ khead =< slot[o] /\ slot[o] < sqe_tail
  BY <1>1, SMTT(20) DEF TypeOK, Entered, Submitting
<1>4. sqes'[Sq[slot[o]]] = o BY <1>1, SqSlots DEF TypeOK
<1>5. ASSUME NEW p \in Ops, p # o, at[p] = "submitted", khead =< slot[p]
      PROVE  sqes'[Sq[slot[p]]] = p
  <2>1. slot[p] # slot[o] BY <1>1, <1>5, SMTT(20) DEF Entered, HasEntry
  <2>2. slot[p] < slot[o] /\ slot[o] < slot[p] + SQSize
    BY <1>3, <1>5, <2>1, Sizes, SMTT(20) DEF TypeOK, Entered
  <2>3. Sq[slot[p]] # Sq[slot[o]] BY <2>2, SqSlots DEF TypeOK
  <2>4. sqes[Sq[slot[p]]] = p /\ Sq[slot[p]] \in 0..SQSize - 1
    BY <1>5, SqSlots DEF TypeOK, Entered
  <2> QED BY <1>1, <2>3, <2>4 DEF TypeOK
<1>6. Entered'
  <2>1. \A p \in Ops : HasEntry(p)' <=> HasEntry(p) BY <1>1, <1>2, <1>3 DEF HasEntry
  <2>2. Submitting' = {} BY <1>2, <1>3 DEF Submitting
  <2>3. \A p \in Ops : at'[p] \notin {"store", "prep"} BY <1>2, <1>3
  <2>4. \A p \in Ops : at'[p] = "submitted" => p = o \/ at[p] = "submitted" BY <1>2
  <2>5. \A p \in Ops : at'[p] = "submitted" => slot'[p] < sqe_tail'
    BY <1>1, <1>3, <2>4 DEF Entered
  <2>6. \A p \in Ops : at'[p] = "submitted" /\ khead' =< slot'[p]
                          => pending'[p] = "live" /\ sqes'[Sq[slot'[p]]] = p
    <3>1. \A p \in Ops : at[p] = "submitted" /\ khead =< slot[p] => pending[p] = "live"
      BY Zenon DEF Entered
    <3> QED BY <1>1, <1>3, <1>4, <1>5, <2>4, <3>1
  <2>7. khead' =< sqe_tail' /\ sqe_tail' =< khead' + SQSize BY <1>1 DEF Entered
  <2>8. \A p, q \in Ops : p # q /\ HasEntry(p)' /\ HasEntry(q)' => slot'[p] # slot'[q]
    BY <1>1, <2>1 DEF Entered
  <2>9. \A i \in khead'..sqe_tail' - 1 : \E p \in Ops : HasEntry(p)' /\ slot'[p] = i
    BY <1>1, <2>1 DEF Entered
  <2> QED BY <2>2, <2>3, <2>5, <2>6, <2>7, <2>8, <2>9, Zenon DEF Entered
<1>7. \A p : Consumed(p)' <=> Consumed(p) BY <1>1, <1>2, <1>3, SMTT(20) DEF TypeOK, Consumed
<1>8. First' = First BY <1>1 DEF First
<1> QED BY <1>1, <1>6, <1>7, <1>8, FlyingStays

LEMMA SubmitCalm ==
  ASSUME TypeOK, Entered, Flying, Submit, Calm'
  PROVE  Entered' /\ Flying'
<1>1. Submitting = {} BY Zenon DEF Submit, Calm
<1>2. khead' = sqe_tail /\ loop = "submit" /\ loop' = "wait"
      /\ UNCHANGED <<at, slot, pending, sqe_tail, sqes, cqes, cqHead, cqTail>>
  BY DEF Submit, LoopAt, cq
<1>3. PICK n \in Nat : n = sqe_tail - khead BY SMTT(20) DEF TypeOK, Entered
<1>5. /\ Len(inflight') = Len(inflight) + n
      /\ \A j \in 1..n : inflight'[Len(inflight) + j] = sqes[Sq[khead + j - 1]]
      /\ \A j \in 1..Len(inflight) : inflight'[j] = inflight[j]
  BY <1>3, SubmitCopies
<1>6. Len(inflight) \in Nat BY DEF TypeOK
<1>7. \A p \in Ops : at[p] \notin {"store", "prep"} BY <1>1 DEF Submitting
<1>8. ASSUME NEW j \in 1..n
      PROVE  \E p \in Ops : /\ inflight'[Len(inflight) + j] = p /\ slot[p] = khead + j - 1
                            /\ at[p] = "submitted" /\ pending[p] = "live"
  <2>1. khead + j - 1 \in khead..sqe_tail - 1 BY <1>3 DEF TypeOK
  <2>2. PICK p \in Ops : HasEntry(p) /\ slot[p] = khead + j - 1 BY <2>1 DEF Entered
  <2>3. at[p] = "submitted" BY <1>7, <2>2 DEF HasEntry
  <2>4. pending[p] = "live" /\ sqes[Sq[slot[p]]] = p BY <2>1, <2>2, <2>3, SMTT(20) DEF TypeOK, Entered
  <2> QED BY <1>5, <2>2, <2>3, <2>4
<1>9. \A p \in Ops : at[p] = "submitted" => slot[p] < sqe_tail BY ZenonT(30) DEF Entered
<1>10. Entered'
  <2>1. \A p \in Ops : HasEntry(p)' <=> HasEntry(p) BY <1>2 DEF HasEntry
  <2>2. Submitting' = {} BY <1>1, <1>2 DEF Submitting
  <2>3. \A p \in Ops : at[p] = "submitted" => ~(sqe_tail =< slot[p]) BY <1>9 DEF TypeOK
  <2>4. sqe_tail..sqe_tail - 1 = {} BY DEF TypeOK
  <2>5. sqe_tail =< sqe_tail /\ sqe_tail =< sqe_tail + SQSize BY Sizes DEF TypeOK
  <2> QED BY <1>2, <1>7, <1>9, <2>1, <2>2, <2>3, <2>4, <2>5 DEF Entered
<1>11. \A p : Consumed(p) => Consumed(p)' BY <1>2, <1>3 DEF TypeOK, Consumed
<1>12. \A p : Consumed(p)' /\ ~Consumed(p) => khead =< slot[p]
  BY <1>2 DEF TypeOK, Consumed
<1>13. First' = First BY <1>2 DEF First
<1>14. \A p : Posted(p)' <=> Posted(p) BY <1>2, <1>13 DEF Posted
<1>15. ASSUME NEW j \in 1..Len(inflight')
       PROVE  \/ j \in 1..Len(inflight) /\ inflight'[j] = inflight[j] /\ Consumed(inflight[j])
              \/ \E p \in Ops : /\ inflight'[j] = p /\ slot[p] = khead + (j - Len(inflight)) - 1
                                /\ khead =< slot[p] /\ Consumed(p)'
  <2>1. CASE j =< Len(inflight) BY <1>5, <1>6, <2>1, SMTT(20) DEF Flying
  <2>2. CASE j > Len(inflight)
    <3>1. j - Len(inflight) \in 1..n BY <1>5, <1>6, <2>2
    <3>2. PICK k \in 1..n : k = j - Len(inflight) BY <3>1, Zenon
    <3>3. j = Len(inflight) + k BY <1>5, <1>6, <3>2
    <3>4. PICK p \in Ops : /\ inflight'[j] = p /\ slot[p] = khead + k - 1
                           /\ at[p] = "submitted" /\ pending[p] = "live"
      BY <1>8, <3>3
    <3>5. slot[p] < sqe_tail BY <1>9, <3>4
    <3>6. Consumed(p)' BY <1>2, <3>4, <3>5 DEF Consumed
    <3>7. khead =< slot[p] /\ slot[p] = khead + (j - Len(inflight)) - 1
      BY <1>6, <3>2, <3>4 DEF TypeOK
    <3> QED BY <3>4, <3>6, <3>7
  <2> QED BY <1>5, <1>6, <2>1, <2>2, SMTT(20)
<1>16. \A p : InKernel(p) => InKernel(p)'
  <2>1. 1..Len(inflight) \subseteq 1..Len(inflight') BY <1>5, <1>6
  <2> QED BY <1>5, <2>1 DEF InKernel
<1>17. \A p : InKernel(p)' => InKernel(p) \/ khead =< slot[p]
  BY <1>15 DEF InKernel
<1>18. Flying'
  <2>1. cqTail' =< First' + CQSize BY <1>2, <1>13 DEF Flying
  <2>2. ASSUME NEW j \in 1..Len(inflight') PROVE (Consumed(inflight[j]))'
    <3>1. PICK p : p = inflight'[j] /\ Consumed(p)' BY <1>11, <1>15
    <3> QED BY <3>1 DEF Consumed
  <2>3. ASSUME NEW i \in 1..Len(inflight'), NEW j \in 1..Len(inflight'), i # j
        PROVE  inflight'[i] # inflight'[j]
    <3>1. \A p : Consumed(p) => ~(khead =< slot[p]) BY DEF TypeOK, Consumed
    <3>2. CASE i \in 1..Len(inflight) /\ j \in 1..Len(inflight)
      BY <1>5, <2>3, <3>2, ZenonT(30) DEF Flying
    <3>3. CASE i \in 1..Len(inflight) /\ j \notin 1..Len(inflight)
      <4>1. Consumed(inflight[i]) BY <3>3, Zenon DEF Flying
      <4> QED BY <1>5, <1>15, <3>1, <3>3, <4>1
    <3>4. CASE i \notin 1..Len(inflight) /\ j \in 1..Len(inflight)
      <4>1. Consumed(inflight[j]) BY <3>4, Zenon DEF Flying
      <4> QED BY <1>5, <1>15, <3>1, <3>4, <4>1
    <3>5. CASE i \notin 1..Len(inflight) /\ j \notin 1..Len(inflight)
      <4>1. /\ slot[inflight'[i]] = khead + (i - Len(inflight)) - 1
            /\ slot[inflight'[j]] = khead + (j - Len(inflight)) - 1
        BY <1>15, <3>5
      <4>2. i \in Nat /\ j \in Nat BY <1>5, <1>6
      <4>3. khead \in Nat BY DEF TypeOK
      <4> QED BY <1>6, <2>3, <4>1, <4>2, <4>3
    <3> QED BY <3>2, <3>3, <3>4, <3>5
  <2>4. ASSUME NEW i \in First'..cqTail' - 1 PROVE (Consumed(cqes[Cq[i]]))'
    <3>1. PICK p : p = cqes[Cq[i]] /\ Consumed(p) BY <1>2, <1>13, <2>4 DEF Flying
    <3>2. Consumed(p)' BY <1>11, <3>1
    <3> QED BY <1>2, <3>1, <3>2 DEF Consumed
  <2>5. \A i, j \in First'..cqTail' - 1 : i # j => (cqes[Cq[i]])' # (cqes[Cq[j]])'
    BY <1>2, <1>13, SMTT(20) DEF Flying
  <2>6. ASSUME NEW p \in Ops, InKernel(p)', Posted(p)' PROVE FALSE
    <3>1. Posted(p) BY <1>14, <2>6
    <3>2. Consumed(p)
      <4>1. \A i \in First..cqTail - 1 : Consumed(cqes[Cq[i]]) BY Zenon DEF Flying
      <4> QED BY <3>1, <4>1, Zenon DEF Posted
    <3>3. ~InKernel(p) BY <3>1, Zenon DEF Flying
    <3>4. khead =< slot[p] BY <1>17, <2>6, <3>3, Zenon
    <3> QED BY <3>2, <3>4 DEF TypeOK, Consumed
  <2>7. ASSUME NEW p \in Ops, Consumed(p)' PROVE InKernel(p)' \/ Posted(p)'
    <3>1. CASE Consumed(p) BY <1>14, <1>16, <3>1 DEF Flying
    <3>2. CASE ~Consumed(p)
      <4>1. khead =< slot[p] /\ slot[p] < sqe_tail /\ at[p] = "submitted"
        BY <1>2, <1>12, <2>7, <3>2 DEF Consumed
      <4>2. sqes[Sq[slot[p]]] = p BY <4>1 DEF Entered
      <4>3. slot[p] - khead + 1 \in 1..n BY <1>3, <4>1 DEF TypeOK
      <4>4. PICK k \in 1..n : k = slot[p] - khead + 1 BY <4>3, Zenon
      <4>5. slot[p] = khead + k - 1 BY <4>4 DEF TypeOK
      <4>6. inflight'[Len(inflight) + k] = p BY <1>5, <4>2, <4>5
      <4>7. Len(inflight) + k \in 1..Len(inflight') BY <1>5, <1>6
      <4> QED BY <4>6, <4>7 DEF InKernel
    <3> QED BY <3>1, <3>2
  <2> QED BY <2>1, <2>2, <2>3, <2>4, <2>5, <2>6, <2>7, ZenonT(30) DEF Flying
<1> QED BY <1>10, <1>18

(* The kernel posts a completion: the slot is free, as it would otherwise  *)
(* be the one in hand.                                                     *)
LEMMA CompleteCalm ==
  ASSUME TypeOK, Batched, Entered, Flying, NEW n \in 1..Len(inflight), Complete(n), Calm'
  PROVE  Entered' /\ Flying' /\ \A p : Posted(p)' <=> Posted(p) \/ p = inflight[n]
<1>1. /\ cqTail' = cqTail + 1 /\ cqTail - cqHead < CQSize
      /\ cqes' = [cqes EXCEPT ![Cq[cqTail]] = inflight[n]]
      /\ UNCHANGED <<at, slot, pending, sqe_tail, khead, sqes, cqHead, loop, batch>>
  BY CompleteTakes, Zenon DEF Complete, ring
<1>2. /\ Len(inflight') = Len(inflight) - 1
      /\ \A j \in 1..Len(inflight) - 1 :
            inflight'[j] = inflight[IF j < n THEN j ELSE j + 1]
  BY CompleteTakes
<1>3. Len(inflight) \in Nat /\ First \in Nat /\ First =< cqTail /\ First' = First
  BY <1>1, SMTT(20) DEF TypeOK, Batched, First
<1>4. cqTail < First + CQSize
  <2>1. CASE loop = "handle"
    <3>1. cqTail # Head(batch) + CQSize BY <2>1, Zenon DEF Complete, Calm
    <3>2. Head(batch) = First
      <4>1. batch \in Seq(Nat) /\ batch # <<>> BY <2>1 DEF TypeOK, Batched
      <4>2. Head(batch) = batch[1] /\ 1 \in 1..Len(batch) BY <4>1
      <4> QED BY <1>3, <4>2 DEF Batched
    <3>3. cqTail =< First + CQSize BY DEF Flying
    <3>4. cqTail \in Nat /\ cqTail # First + CQSize BY <3>1, <3>2 DEF TypeOK
    <3> QED BY <1>3, <3>3, <3>4, Sizes
  <2>2. CASE loop # "handle" BY <1>1, <2>2, Sizes DEF TypeOK, First
  <2> QED BY <2>1, <2>2
<1>5. Entered' BY <1>1, EnteredStays
<1>6. \A p : Consumed(p)' <=> Consumed(p) BY <1>1 DEF Consumed
<1>7. cqes'[Cq[cqTail]] = inflight[n] BY <1>1, CqSlots DEF TypeOK
<1>8. ASSUME NEW i \in First..cqTail - 1 PROVE cqes'[Cq[i]] = cqes[Cq[i]]
  <2>1. i \in Nat /\ i < cqTail /\ cqTail < i + CQSize
    BY <1>3, <1>4, Sizes DEF TypeOK
  <2>2. Cq[i] # Cq[cqTail] /\ Cq[i] \in 0..CQSize - 1 BY <2>1, CqSlots DEF TypeOK
  <2> QED BY <1>1, <2>2 DEF TypeOK
<1>9. \A i \in First'..cqTail' - 1 : i \in First..cqTail - 1 \/ i = cqTail
  BY <1>1, <1>3 DEF TypeOK
<1>10. \A i : (cqes[Cq[i]])' = cqes'[Cq[i]] OBVIOUS
<1>11. Consumed(inflight[n]) /\ inflight[n] \in Ops BY DEF Flying, Consumed
<1>12. \A p : Posted(p)' <=> Posted(p) \/ p = inflight[n]
  <2>1. First..cqTail - 1 \subseteq First'..cqTail' - 1 /\ cqTail \in First'..cqTail' - 1
    BY <1>1, <1>3 DEF TypeOK
  <2> QED BY <1>7, <1>8, <1>9, <1>10, <2>1 DEF Posted
<1>13. ASSUME NEW j \in 1..Len(inflight')
       PROVE  \E k \in 1..Len(inflight) : /\ k # n /\ inflight'[j] = inflight[k]
                                          /\ k = IF j < n THEN j ELSE j + 1
  <2>1. j \in 1..Len(inflight) - 1 BY <1>2
  <2>2. (IF j < n THEN j ELSE j + 1) \in 1..Len(inflight)
        /\ (IF j < n THEN j ELSE j + 1) # n
    BY <1>3, <2>1
  <2>3. PICK k \in 1..Len(inflight) : k = (IF j < n THEN j ELSE j + 1) /\ k # n
    BY <2>2, Zenon
  <2>4. inflight'[j] = inflight[k] BY <1>2, <2>1, <2>3, Zenon
  <2> QED BY <2>3, <2>4, Zenon
<1>14. \A k \in 1..Len(inflight) : k # n => \E j \in 1..Len(inflight') : inflight'[j] = inflight[k]
  <2>1. ASSUME NEW k \in 1..Len(inflight), k # n
        PROVE  \E j \in 1..Len(inflight') : inflight'[j] = inflight[k]
    <3>1. CASE k < n
      <4>1. k \in 1..Len(inflight) - 1 BY <1>3, <3>1
      <4>2. inflight'[k] = inflight[k] BY <1>2, <3>1, <4>1
      <4> QED BY <1>2, <4>1, <4>2
    <3>2. CASE k > n
      <4>1. k - 1 \in 1..Len(inflight) - 1 /\ ~(k - 1 < n) /\ (k - 1) + 1 = k
        BY <1>3, <3>2
      <4>2. inflight'[k - 1] = inflight[k] BY <1>2, <4>1
      <4> QED BY <1>2, <4>1, <4>2
    <3> QED BY <1>3, <2>1, <3>1, <3>2
  <2> QED BY <2>1
<1>15. \A p : InKernel(p)' <=> InKernel(p) /\ p # inflight[n]
  <2>1. \A k \in 1..Len(inflight) : k # n => inflight[k] # inflight[n] BY DEF Flying
  <2>2. ASSUME NEW p, InKernel(p)' PROVE InKernel(p) /\ p # inflight[n]
    <3>1. PICK j \in 1..Len(inflight') : inflight'[j] = p BY <2>2 DEF InKernel
    <3>2. PICK k \in 1..Len(inflight) : k # n /\ p = inflight[k] BY <1>13, <3>1
    <3> QED BY <2>1, <3>2 DEF InKernel
  <2>3. ASSUME NEW p, InKernel(p), p # inflight[n] PROVE InKernel(p)'
    <3>1. PICK k \in 1..Len(inflight) : inflight[k] = p BY <2>3 DEF InKernel
    <3>2. k # n BY <2>3, <3>1, SMTT(20)
    <3> QED BY <1>14, <3>1, <3>2 DEF InKernel
  <2> QED BY <2>2, <2>3
<1>16. Flying'
  <2>1. cqTail' =< First' + CQSize BY <1>1, <1>3, <1>4, Sizes DEF TypeOK
  <2>2. ASSUME NEW j \in 1..Len(inflight') PROVE (Consumed(inflight[j]))'
    <3>1. PICK p : p = inflight'[j] /\ Consumed(p)' BY <1>6, <1>13 DEF Flying
    <3> QED BY <3>1 DEF Consumed
  <2>3. ASSUME NEW i \in 1..Len(inflight'), NEW j \in 1..Len(inflight'), i # j
        PROVE  inflight'[i] # inflight'[j]
    <3>1. PICK k \in 1..Len(inflight) : inflight'[i] = inflight[k]
                                        /\ k = IF i < n THEN i ELSE i + 1
      BY <1>13
    <3>2. PICK l \in 1..Len(inflight) : inflight'[j] = inflight[l]
                                        /\ l = IF j < n THEN j ELSE j + 1
      BY <1>13
    <3>3. k # l BY <1>2, <1>3, <2>3, <3>1, <3>2
    <3> QED BY <3>1, <3>2, <3>3 DEF Flying
  <2>4. ASSUME NEW i \in First'..cqTail' - 1 PROVE (Consumed(cqes[Cq[i]]))'
    <3>1. PICK p : p = cqes'[Cq[i]] /\ Consumed(p)
      BY <1>7, <1>8, <1>9, <1>11 DEF Flying
    <3> QED BY <1>1, <3>1 DEF Consumed
  <2>5. ASSUME NEW i \in First'..cqTail' - 1, NEW j \in First'..cqTail' - 1, i # j
        PROVE  cqes'[Cq[i]] # cqes'[Cq[j]]
    <3>1. \A k \in First..cqTail - 1 : cqes[Cq[k]] # inflight[n]
      <4>1. InKernel(inflight[n]) BY DEF InKernel
      <4> QED BY <1>11, <4>1 DEF Flying, Posted
    <3> QED BY <1>7, <1>8, <1>9, <2>5, <3>1, SMTT(20) DEF Flying
  <2>6. \A p \in Ops : ~(InKernel(p)' /\ Posted(p)') BY <1>12, <1>15, Zenon DEF Flying
  <2>7. \A p \in Ops : Consumed(p)' => InKernel(p)' \/ Posted(p)'
    BY <1>6, <1>12, <1>15, Zenon DEF Flying
  <2> QED BY <1>10, <2>1, <2>2, <2>3, <2>4, <2>5, <2>6, <2>7 DEF Flying
<1> QED BY <1>5, <1>12, <1>16

(* The completion in hand is of a live operation, and of no other place.   *)
LEMMA InHandAlive ==
  ASSUME TypeOK, Batched, Flying, Handle, NEW o, o = cqes[Cq[First]]
  PROVE  Consumed(o) /\ o # Null
<1>1. First \in First..cqTail - 1 BY InHand DEF TypeOK
<1>2. Consumed(o) BY <1>1 DEF Flying
<1> QED BY <1>2, IOContextAssumption DEF Consumed

LEMMA HandleCalm ==
  ASSUME TypeOK, Batched, Entered, Flying, Handle
  PROVE  /\ Entered' /\ Flying'
         /\ \A p : Posted(p)' <=> Posted(p) /\ p # cqes[Cq[First]]
<1>1. PICK o : o = cqes[Cq[First]] OBVIOUS
<1>2. Consumed(o) /\ o # Null BY <1>1, InHandAlive
<1>3. o \in Ops /\ at[o] = "submitted" /\ pending[o] = "live" /\ slot[o] < khead
  BY <1>2 DEF Consumed
<1>4. pending' = [pending EXCEPT ![o] = "deleted"] BY <1>1, <1>2, <1>3, HandleDoes
<1>5. UNCHANGED <<at, slot, sqe_tail, khead, sqes, inflight, cqes, cqHead, cqTail>>
  BY DEF Handle, ring, cq
<1>6. First' = First + 1 /\ First \in Nat /\ First < cqTail
  <2>1. loop = "handle" /\ loop' # "handle" BY DEF Handle, LoopAt
  <2>2. First \in Nat /\ First < cqTail BY InHand
  <2> QED BY <1>5, <2>1, <2>2 DEF TypeOK, First
<1>7. \A p \in Ops : pending'[p] = IF p = o THEN "deleted" ELSE pending[p]
  BY <1>4, SMTT(20) DEF TypeOK
<1>8. Entered'
  <2>1. Submitting' = Submitting /\ o \notin Submitting BY <1>3, <1>5 DEF Submitting
  <2>2. \A p \in Ops : HasEntry(p)' <=> HasEntry(p) BY <1>5 DEF HasEntry
  <2>3. \A p \in Submitting : pending'[p] = "live"
    BY <1>7, <2>1 DEF Entered, Submitting
  <2>4. \A p \in Ops : at[p] = "submitted" /\ khead =< slot[p]
                         => pending'[p] = "live" /\ sqes[Sq[slot[p]]] = p
    <3>1. ~(khead =< slot[o]) BY <1>3 DEF TypeOK
    <3> QED BY <1>7, <3>1 DEF Entered
  <2> QED BY <1>5, <2>1, <2>2, <2>3, <2>4 DEF Entered
<1>9. \A p : Consumed(p)' <=> Consumed(p) /\ p # o BY <1>5, <1>7 DEF Consumed
<1>10. \A p : InKernel(p)' <=> InKernel(p) BY <1>5 DEF InKernel
<1>11. \A i : i \in First..cqTail - 1 <=> i = First \/ i \in First'..cqTail' - 1
  BY <1>5, <1>6 DEF TypeOK
<1>12. First \notin First'..cqTail' - 1 BY <1>6 DEF TypeOK
<1>13. \A i \in First'..cqTail' - 1 : cqes[Cq[i]] # o
  BY <1>1, <1>11, <1>12 DEF Flying
<1>14. \A i : (cqes[Cq[i]])' = cqes[Cq[i]] BY <1>5
<1>15. \A p : Posted(p)' <=> Posted(p) /\ p # o
  BY <1>1, <1>11, <1>13, <1>14 DEF Posted
<1>16. Posted(o) /\ ~InKernel(o) BY <1>1, <1>3, <1>11, SMTT(20) DEF Flying, Posted
<1>17. Flying'
  <2>1. cqTail' =< First' + CQSize
    <3>1. cqTail =< First + CQSize BY Zenon DEF Flying
    <3> QED BY <1>5, <1>6, <3>1, Sizes DEF TypeOK
  <2>2. ASSUME NEW j \in 1..Len(inflight') PROVE (Consumed(inflight[j]))'
    <3>1. PICK p : p = inflight[j] /\ Consumed(p) /\ InKernel(p)
      BY <1>5 DEF Flying, InKernel
    <3>2. Consumed(p)' BY <1>9, <1>16, <3>1
    <3> QED BY <1>5, <3>1, <3>2, SMTT(20) DEF Consumed
  <2>3. \A i, j \in 1..Len(inflight') : i # j => inflight'[i] # inflight'[j]
    BY <1>5 DEF Flying
  <2>4. ASSUME NEW i \in First'..cqTail' - 1 PROVE (Consumed(cqes[Cq[i]]))'
    <3>1. PICK p : p = cqes[Cq[i]] /\ Consumed(p) /\ p # o BY <1>11, <1>13 DEF Flying
    <3>2. Consumed(p)' BY <1>9, <3>1
    <3> QED BY <1>14, <3>1, <3>2 DEF Consumed
  <2>5. \A i, j \in First'..cqTail' - 1 : i # j => (cqes[Cq[i]])' # (cqes[Cq[j]])'
    BY <1>11, <1>14 DEF Flying
  <2>6. \A p \in Ops : ~(InKernel(p)' /\ Posted(p)') BY <1>10, <1>15, Zenon DEF Flying
  <2>7. \A p \in Ops : Consumed(p)' => InKernel(p)' \/ Posted(p)'
    BY <1>9, <1>10, <1>15 DEF Flying
  <2> QED BY <2>1, <2>2, <2>3, <2>4, <2>5, <2>6, <2>7 DEF Flying
<1> QED BY <1>1, <1>8, <1>15, <1>17

(* The other steps of the event loop move nothing.                         *)
LEMMA LoopCalm ==
  ASSUME TypeOK, Entered, Flying, Wait \/ WaitFails \/ Peek \/ Seen \/ UNCHANGED vars
  PROVE  Entered' /\ Flying'
<1>1. UNCHANGED <<at, slot, pending, sqe_tail, khead, sqes, inflight, cqes, cqTail>>
  BY DEF Wait, WaitFails, Peek, Seen, vars, ring, cq
<1>2. First' = First
  <2>1. CASE Wait \/ WaitFails \/ Peek \/ UNCHANGED vars
    BY <2>1 DEF Wait, WaitFails, Peek, vars, LoopAt, cq, First
  <2>2. CASE Seen
    <3>1. loop # "handle" /\ loop' = "handle" /\ cqHead' = cqHead + 1 BY <2>2 DEF Seen, LoopAt
    <3> QED BY <3>1 DEF First, TypeOK
  <2> QED BY <2>1, <2>2
<1>3. Entered' BY <1>1, EnteredStays
<1>4. \A p : Consumed(p)' <=> Consumed(p) BY <1>1 DEF Consumed
<1> QED BY <1>1, <1>2, <1>3, <1>4, FlyingStays

(* An overlap is never forgotten, and without one nothing dead is visited. *)
LEMMA AliveStep == IInv /\ [Next]_vars => PendingAlive'
<1> SUFFICES ASSUME IInv, [Next]_vars PROVE PendingAlive' OBVIOUS
<1>1. raced => raced'
  BY Zenon DEF Next, SubmitStep, KernelStep, LoopStep, GetSqe, StoreTail, Prep, Complete,
     Submit, Wait, WaitFails, Peek, Seen, Handle, vars
<1>2. CASE raced BY <1>1, <1>2, Zenon DEF PendingAlive
<1>3. CASE ~raced
  <2>1. fault \notin {"dead pending", "torn queue"} BY <1>3, Zenon DEF IInv, PendingAlive
  <2> SUFFICES fault' \notin {"dead pending", "torn queue"} BY Zenon DEF PendingAlive
  <2>2. ASSUME NEW o \in Ops, GetSqe(o) PROVE fault' \in {"null sqe", "none"}
    BY <2>2 DEF GetSqe
  <2>3. CASE Submit
    <3>1. Entered BY <1>3, <2>3, Zenon DEF Submit, LoopAt, IInv, Calm
    <3>2. ~(sqe_tail < khead)
      <4>1. khead =< sqe_tail BY <3>1, Zenon DEF Entered
      <4>2. khead \in Nat /\ sqe_tail \in Nat BY DEF IInv, TypeOK
      <4> QED BY <4>1, <4>2
    <3> QED BY <2>3, <3>2 DEF Submit
  <2>4. CASE Handle
    <3>1. Flying BY <1>3, <2>4, Zenon DEF Handle, LoopAt, IInv, Calm
    <3>2. PICK o : o = cqes[Cq[First]] OBVIOUS
    <3>3. o # Null /\ pending[o] = "live"
      BY <2>4, <3>1, <3>2, InHandAlive DEF IInv, Consumed
    <3>4. PICK res \in Results : fault' \in ResizeFaults(o, res)
      BY <2>4, <3>2, <3>3, HandleDoes DEF IInv
    <3> QED BY <3>4 DEF ResizeFaults
  <2>5. CASE UNCHANGED fault BY <2>1, <2>5
  <2> QED BY <2>2, <2>3, <2>4, <2>5 DEF Next, SubmitStep, KernelStep, LoopStep,
          StoreTail, Prep, Complete, Wait, WaitFails, Peek, Seen, vars
<1> QED BY <1>2, <1>3

LEMMA CalmBefore == [Next]_vars /\ Calm' => Calm
<1> SUFFICES ASSUME [Next]_vars, Calm' PROVE Calm OBVIOUS
<1>1. raced => raced'
  BY Zenon DEF Next, SubmitStep, KernelStep, LoopStep, GetSqe, StoreTail, Prep, Complete,
     Submit, Wait, WaitFails, Peek, Seen, Handle, vars
<1>2. fault = "none"
  BY Zenon DEF Next, SubmitStep, KernelStep, LoopStep, GetSqe, StoreTail, Prep, Complete,
     Submit, Wait, WaitFails, Peek, Seen, Handle, vars, At, LoopAt, Calm
<1> QED BY <1>1, <1>2, Zenon DEF Calm

LEMMA CalmStep == IInv /\ [Next]_vars /\ Calm' => Entered' /\ Flying'
<1> SUFFICES ASSUME IInv, [Next]_vars, Calm' PROVE Entered' /\ Flying' OBVIOUS
<1>1. TypeOK /\ Batched /\ Entered /\ Flying BY CalmBefore, Zenon DEF IInv
<1>2. ASSUME NEW o \in Ops, SubmitStep(o) PROVE Entered' /\ Flying'
  BY <1>1, <1>2, GetSqeCalm, StoreTailCalm, PrepCalm DEF SubmitStep
<1>3. ASSUME NEW n \in 1..Len(inflight), Complete(n) PROVE Entered' /\ Flying'
  BY <1>1, <1>3, CompleteCalm
<1>4. CASE Submit BY <1>1, <1>4, SubmitCalm
<1>5. CASE Handle BY <1>1, <1>5, HandleCalm
<1>6. CASE Wait \/ WaitFails \/ Peek \/ Seen \/ UNCHANGED vars BY <1>1, <1>6, LoopCalm
<1> QED BY <1>2, <1>3, <1>4, <1>5, <1>6 DEF Next, KernelStep, LoopStep

LEMMA InitInv == Init => IInv
<1> SUFFICES ASSUME Init PROVE IInv OBVIOUS
<1>1. raced \in BOOLEAN BY Zenon DEF Init
<1>2. TypeOK BY <1>1, Sizes DEF Init, TypeOK, Answers, Faults
<1>3. Batched BY DEF Init, Batched, First
<1>4. Written BY DEF Init, Written
<1>5. PendingAlive BY DEF Init, PendingAlive
<1>6. Submitting = {} /\ \A o \in Ops : ~HasEntry(o) /\ at[o] = "start"
  BY DEF Init, Submitting, HasEntry
<1>7. Entered BY <1>6, Sizes, SMTT(20) DEF Init, Entered
<1>8. First = 0 /\ cqTail = 0 /\ Len(inflight) = 0 BY DEF Init, First
<1>9. 1..Len(inflight) = {} /\ First..cqTail - 1 = {} /\ cqTail =< First + CQSize
  BY <1>8, Sizes
<1>10. \A o \in Ops : ~InKernel(o) /\ ~Consumed(o) BY <1>6, <1>9 DEF InKernel, Consumed
<1>11. Flying BY <1>9, <1>10 DEF Flying
<1> QED BY <1>2, <1>3, <1>4, <1>5, <1>7, <1>11 DEF IInv

LEMMA IInvHolds == Spec => []IInv
<1>1. IInv /\ [Next]_vars => IInv'
  BY TypeStep, BatchStep, WrittenStep, AliveStep, CalmStep, Zenon DEF IInv
<1> QED BY InitInv, <1>1, PTL DEF Spec

-----------------------------------------------------------------------------
(* Type correctness: positions are numbers and every slot holds an         *)
(* operation or nothing, also when accesses to the ring overlap.           *)
THEOREM IOContextTypeCorrect == Spec => []TypeOK
<1>1. IInv => TypeOK BY DEF IInv
<1> QED BY IInvHolds, <1>1, PTL

(* Without overlapping accesses the event loop never visits a null or      *)
(* deleted PendingVariant and io_uring_submit() never finds a torn queue,  *)
(* for any operations and sizes of the two queues.                         *)
THEOREM PendingAliveHolds == Spec => []PendingAlive
<1>1. IInv => PendingAlive BY DEF IInv
<1> QED BY IInvHolds, <1>1, PTL

-----------------------------------------------------------------------------
(* Where an operation is, as long as no accesses have overlapped.          *)
InRing(o) == at[o] = "submitted" /\ pending[o] = "live" /\ khead =< slot[o]

LEMMA PlacesAre ==
  ASSUME IInv, Calm, NEW o \in Ops
  PROVE  /\ InRing(o) => \E x : Places(o) = {<<"entry", x>>}
         /\ Consumed(o) /\ ~Posted(o) => \E x : Places(o) = {<<"kernel", x>>}
         /\ Consumed(o) /\ Posted(o) => \E x : Places(o) = {<<"completion", x>>}
         /\ at[o] = "submitted" /\ pending[o] = "live" => InRing(o) \/ Consumed(o)
         /\ ~(at[o] = "submitted" /\ pending[o] = "live") => Places(o) = {}
<1> DEFINE S1 == {i \in khead..sqe_tail - 1 : slot[o] = i /\ sqes[Sq[i]] = o}
           S2 == {i \in 1..Len(inflight) : inflight[i] = o}
           S3 == {i \in First..cqTail - 1 : cqes[Cq[i]] = o}
<1>1. TypeOK /\ Batched /\ Written /\ Entered /\ Flying BY Zenon DEF IInv, Calm
<1>2. Unhandled = First..cqTail - 1
  <2>1. CASE batch = <<>> BY <1>1, <2>1 DEF Unhandled, Batched, First
  <2>2. CASE batch # <<>>
    <3>1. batch \in Seq(Nat) /\ First \in Int BY <1>1 DEF TypeOK, First
    <3>2. Head(batch) = batch[1] /\ 1 \in 1..Len(batch) BY <2>2, <3>1
    <3>3. batch[1] = First BY <1>1, <3>1, <3>2, SMTT(20) DEF Batched
    <3> QED BY <2>2, <3>2, <3>3 DEF Unhandled
  <2> QED BY <2>1, <2>2
<1>3. {i \in khead..sqe_tail - 1 : slot[o] = i /\ sqes[i % SQSize] = o} = S1
  <2>1. \A i \in khead..sqe_tail - 1 : i \in Nat BY <1>1 DEF TypeOK
  <2>2. \A i \in khead..sqe_tail - 1 : i % SQSize = Sq[i] BY <2>1 DEF Sq
  <2> QED BY <2>2
<1>4. {i \in Unhandled : cqes[i % CQSize] = o} = S3
  <2>1. \A i \in First..cqTail - 1 : i \in Nat BY <1>1, SMTT(20) DEF TypeOK, Batched, First
  <2>2. \A i \in First..cqTail - 1 : i % CQSize = Cq[i] BY <2>1 DEF Cq
  <2> QED BY <1>2, <2>2
<1>5. Places(o) = ({"entry"} \X S1) \cup ({"kernel"} \X S2) \cup ({"completion"} \X S3)
  BY <1>3, <1>4, Zenon DEF Places
<1>6. S2 # {} <=> InKernel(o) BY DEF InKernel
<1>7. S3 # {} <=> Posted(o) BY DEF Posted
<1>8. InKernel(o) \/ Posted(o) <=> Consumed(o)
  <2>1. InKernel(o) => Consumed(o)
    <3>1. \A j \in 1..Len(inflight) : Consumed(inflight[j]) BY <1>1, Zenon DEF Flying
    <3> QED BY <3>1 DEF InKernel
  <2>2. Posted(o) => Consumed(o)
    <3>1. \A i \in First..cqTail - 1 : Consumed(cqes[Cq[i]]) BY <1>1, Zenon DEF Flying
    <3> QED BY <3>1 DEF Posted
  <2> QED BY <1>1, <2>1, <2>2, Zenon DEF Flying
<1>9. S2 = {} \/ \E x : S2 = {x} BY <1>1, Zenon DEF Flying
<1>10. S3 = {} \/ \E x : S3 = {x} BY <1>1, Zenon DEF Flying
<1>11. S1 # {} <=> at[o] = "submitted" /\ pending[o] = "live" /\ khead =< slot[o]
  <2>1. ASSUME NEW i \in S1 PROVE at[o] = "submitted" /\ pending[o] = "live" /\ khead =< slot[o]
    <3>1. i \in khead..sqe_tail - 1 /\ slot[o] = i /\ sqes[Sq[i]] = o OBVIOUS
    <3>2. i \in Nat /\ khead =< i BY <1>1, <3>1 DEF TypeOK
    <3>3. at[o] = "submitted"
      BY <1>1, <3>1, <3>2, SqSlots, IOContextAssumption DEF Written
    <3> QED BY <1>1, <3>1, <3>2, <3>3, Zenon DEF Entered
  <2>2. ASSUME at[o] = "submitted", khead =< slot[o] PROVE slot[o] \in S1
    <3>1. slot[o] < sqe_tail /\ sqes[Sq[slot[o]]] = o BY <1>1, <2>2, Zenon DEF Entered
    <3>2. slot[o] \in Nat /\ khead \in Nat /\ sqe_tail \in Nat BY <1>1 DEF TypeOK
    <3> QED BY <2>2, <3>1, <3>2
  <2> QED BY <2>1, <2>2
<1>12. S1 = {} \/ \E x : S1 = {x} OBVIOUS
<1> HIDE DEF S1, S2, S3
<1>13. ~(InKernel(o) /\ Posted(o)) BY <1>1, Zenon DEF Flying
<1>14. InRing(o) <=> at[o] = "submitted" /\ pending[o] = "live" /\ khead =< slot[o]
  BY Zenon DEF InRing
<1>15. at[o] = "submitted" /\ pending[o] = "live" => InRing(o) \/ Consumed(o)
  BY <1>1, <1>14 DEF TypeOK, Consumed
<1>16. ~(InRing(o) /\ Consumed(o)) BY <1>1, <1>14 DEF TypeOK, Consumed
<1>17. ASSUME InRing(o) PROVE \E x : Places(o) = {<<"entry", x>>}
  <2>1. S1 # {} /\ S2 = {} /\ S3 = {}
    BY <1>6, <1>7, <1>8, <1>11, <1>14, <1>16, <1>17, Zenon
  <2>2. PICK x : S1 = {x} BY <1>12, <2>1, Zenon
  <2> QED BY <1>5, <2>1, <2>2
<1>18. ASSUME Consumed(o), ~Posted(o) PROVE \E x : Places(o) = {<<"kernel", x>>}
  <2>1. S1 = {} /\ S2 # {} /\ S3 = {}
    BY <1>6, <1>7, <1>8, <1>11, <1>14, <1>16, <1>18, Zenon
  <2>2. PICK x : S2 = {x} BY <1>9, <2>1, Zenon
  <2> QED BY <1>5, <2>1, <2>2
<1>19. ASSUME Consumed(o), Posted(o) PROVE \E x : Places(o) = {<<"completion", x>>}
  <2>1. S1 = {} /\ S2 = {} /\ S3 # {}
    BY <1>6, <1>7, <1>11, <1>13, <1>14, <1>16, <1>19, Zenon
  <2>2. PICK x : S3 = {x} BY <1>10, <2>1, Zenon
  <2> QED BY <1>5, <2>1, <2>2
<1>20. ASSUME ~(at[o] = "submitted" /\ pending[o] = "live") PROVE Places(o) = {}
  <2>1. ~Consumed(o) BY <1>20, Zenon DEF Consumed
  <2>2. S1 = {} /\ S2 = {} /\ S3 = {} BY <1>6, <1>7, <1>8, <1>11, <1>20, <2>1, Zenon
  <2> QED BY <1>5, <2>2
<1> QED BY <1>15, <1>17, <1>18, <1>19, <1>20, Zenon

(* Without overlapping accesses, a submitted operation is in exactly one   *)
(* place until it is handled and in none afterwards, for any operations    *)
(* and sizes of the queues: submit_*() and event_loop() lose none and      *)
(* handle none twice.                                                      *)
THEOREM OnePlaceHolds == Spec => []OnePlace
<1>1. IInv => OnePlace
  <2> SUFFICES ASSUME IInv, ~raced, fault = "none", NEW o \in Ops
               PROVE  IF at[o] = "submitted" /\ pending[o] = "live"
                      THEN \E p \in Places(o) : Places(o) = {p}
                      ELSE Places(o) = {}
    BY Zenon DEF OnePlace
  <2>1. Calm BY Zenon DEF Calm
  <2>2. CASE at[o] = "submitted" /\ pending[o] = "live"
    <3>1. \E p : Places(o) = {p} BY <2>1, <2>2, PlacesAre, ZenonT(30)
    <3> QED BY <2>2, <3>1, Zenon
  <2>3. CASE ~(at[o] = "submitted" /\ pending[o] = "live")
    <3>1. Places(o) = {} BY <2>1, <2>3, PlacesAre, ZenonT(30)
    <3> QED BY <2>3, <3>1, Zenon
  <2> QED BY <2>2, <2>3, Zenon
<1> QED BY IInvHolds, <1>1, PTL

-----------------------------------------------------------------------------
(* The refinement of Flight.                                               *)

(* A PendingVariant is made by the submit_*() of its operation.            *)
Fresh == \A o \in Ops : at[o] = "start" <=> pending[o] = "none"

LEMMA FreshStep == TypeOK /\ Batched /\ Fresh /\ [Next]_vars => Fresh'
<1> SUFFICES ASSUME TypeOK, Batched, Fresh, [Next]_vars, NEW p \in Ops
             PROVE  at'[p] = "start" <=> pending'[p] = "none"
  BY DEF Fresh
<1>1. ASSUME NEW o \in Ops, SubmitStep(o) PROVE at'[p] = "start" <=> pending'[p] = "none"
  BY <1>1 DEF Fresh, TypeOK, SubmitStep, GetSqe, StoreTail, Prep, At
<1>2. CASE Handle
  <2>1. PICK o : o = cqes[Cq[First]] BY Zenon
  <2>2. at' = at /\ o \in Ops \cup {Null} BY <1>2, <2>1, InHand DEF Handle
  <2>3. CASE o # Null /\ pending[o] = "live"
    <3>1. pending' = [pending EXCEPT ![o] = "deleted"] BY <1>2, <2>1, <2>3, HandleDoes, ZenonT(30)
    <3> QED BY <2>2, <2>3, <3>1, SMTT(20) DEF Fresh, TypeOK
  <2>4. CASE ~(o # Null /\ pending[o] = "live")
    <3>1. pending' = pending BY <1>2, <2>1, <2>4, HandleDoes
    <3> QED BY <2>2, <3>1 DEF Fresh
  <2> QED BY <2>3, <2>4
<1>3. CASE UNCHANGED <<at, pending>> BY <1>3 DEF Fresh
<1> QED BY <1>1, <1>2, <1>3 DEF Next, KernelStep, LoopStep, Complete, Submit, Wait,
        WaitFails, Peek, Seen, vars

(* How far an operation has come, without the places.                      *)
Reached(o) ==
  IF pending[o] = "deleted" THEN "handled" ELSE
  IF ~(at[o] = "submitted" /\ pending[o] = "live") THEN "none" ELSE
  IF khead =< slot[o] THEN "entry" ELSE
  IF Posted(o) THEN "completion" ELSE "kernel"

LEMMA StageIs == IInv /\ Calm => \A o \in Ops : Stage(o) = Reached(o)
<1> SUFFICES ASSUME IInv, Calm, NEW o \in Ops PROVE Stage(o) = Reached(o) OBVIOUS
<1>1. ASSUME NEW t, NEW x, Places(o) = {<<t, x>>}
      PROVE  Places(o) # {} /\ (CHOOSE p \in Places(o) : TRUE)[1] = t
  <2>1. (CHOOSE p \in Places(o) : TRUE) = <<t, x>> BY <1>1
  <2> QED BY <1>1, <2>1
<1>2. CASE pending[o] = "deleted" BY <1>2, SMTT(20) DEF Stage, Reached
<1>3. CASE pending[o] # "deleted" /\ ~(at[o] = "submitted" /\ pending[o] = "live")
  BY <1>3, PlacesAre DEF Stage, Reached
<1>4. CASE InRing(o)
  <2>1. PICK x : Places(o) = {<<"entry", x>>} BY <1>4, PlacesAre
  <2> QED BY <1>1, <1>4, <2>1 DEF Stage, Reached, InRing
<1>5. CASE Consumed(o)
  <2>1. ~(khead =< slot[o]) BY <1>5 DEF IInv, TypeOK, Consumed
  <2>2. CASE Posted(o)
    <3>1. PICK x : Places(o) = {<<"completion", x>>} BY <1>5, <2>2, PlacesAre
    <3> QED BY <1>1, <1>5, <2>1, <2>2, <3>1 DEF Stage, Reached, Consumed
  <2>3. CASE ~Posted(o)
    <3>1. PICK x : Places(o) = {<<"kernel", x>>} BY <1>5, <2>3, PlacesAre
    <3> QED BY <1>1, <1>5, <2>1, <2>3, <3>1 DEF Stage, Reached, Consumed
  <2> QED BY <2>2, <2>3
<1> QED BY <1>2, <1>3, <1>4, <1>5, PlacesAre, Zenon

(* A step that changes one operation is a move of Flight.                  *)
LEMMA StageMove ==
  ASSUME NEW o \in Ops, NEW from, NEW to, Stage(o) = from, Stage(o)' = to,
         \A p \in Ops : p # o => Stage(p)' = Stage(p)
  PROVE  Air!Move(o, from, to)
<1>1. stage[o] = from /\ stage' = [stage EXCEPT ![o] = to] BY Zenon DEF stage
<1> QED BY <1>1 DEF Air!Move

(* The steps that leave the completion queue alone.                        *)
LEMMA PostedStays ==
  ASSUME TypeOK, \/ \E o \in Ops : SubmitStep(o)
                 \/ Submit \/ Wait \/ WaitFails \/ Peek \/ Seen \/ UNCHANGED vars
  PROVE  \A p : Posted(p)' <=> Posted(p)
<1>1. cqes' = cqes /\ cqTail' = cqTail
  BY DEF SubmitStep, GetSqe, StoreTail, Prep, Submit, Wait, WaitFails, Peek,
     Seen, vars, cq
<1>2. First' = First
  <2>1. CASE Seen
    <3>1. loop # "handle" /\ loop' = "handle" /\ cqHead' = cqHead + 1
      BY <2>1, SMTT(20) DEF Seen, LoopAt
    <3> QED BY <3>1 DEF First, TypeOK
  <2>2. CASE \E o \in Ops : SubmitStep(o)
    BY <2>2, ZenonT(30) DEF SubmitStep, GetSqe, StoreTail, Prep, cq, First
  <2>3. CASE Submit \/ Wait \/ WaitFails \/ Peek \/ UNCHANGED vars
    BY <2>3 DEF Submit, Wait, WaitFails, Peek, vars, LoopAt, cq, First
  <2> QED BY <2>1, <2>2, <2>3
<1> QED BY <1>1, <1>2, Zenon DEF Posted

(* Without overlapping accesses every step is a step of Flight.            *)
LEMMA FlightStep ==
  IInv /\ IInv' /\ Fresh /\ [Next]_vars /\ ~raced' /\ fault' = "none" =>
    [Air!Next]_stage /\ \A o \in Ops : answer'[o] # answer[o] => Air!Handle(o)
<1> SUFFICES ASSUME IInv, IInv', Fresh, [Next]_vars, ~raced', fault' = "none"
             PROVE  [Air!Next]_stage /\ \A o \in Ops : answer'[o] # answer[o] => Air!Handle(o)
  OBVIOUS
<1>1. Calm' BY Zenon DEF Calm
<1>2. Calm
  BY <1>1, CalmBefore, Zenon
<1>3. TypeOK /\ Batched /\ Entered /\ Flying /\ Entered' /\ Flying'
  BY <1>1, <1>2, Zenon DEF IInv
<1>4. \A o \in Ops : Stage(o) = Reached(o) BY <1>2, StageIs, Zenon
<1>5. \A o \in Ops : Stage(o)' = Reached(o)'
  <2>1. (\A o \in Ops : Stage(o) = Reached(o))' BY <1>1, StageIs, PTL
  <2> QED BY <2>1, Zenon
<1>6. ASSUME \A p \in Ops : Reached(p)' = Reached(p) PROVE [Air!Next]_stage
  <2>1. \A p \in Ops : Stage(p)' = Stage(p) BY <1>4, <1>5, <1>6, Zenon
  <2>2. stage' = stage BY <2>1, Zenon DEF stage
  <2> QED BY <2>2
<1>7. ASSUME NEW o \in Ops, NEW from, NEW to, Reached(o) = from, Reached(o)' = to,
             \A p \in Ops : p # o => Reached(p)' = Reached(p)
      PROVE  Air!Move(o, from, to)
  <2>1. Stage(o) = from /\ Stage(o)' = to BY <1>4, <1>5, <1>7, Zenon
  <2>2. \A p \in Ops : p # o => Stage(p)' = Stage(p) BY <1>4, <1>5, <1>7, Zenon
  <2> QED BY <2>1, <2>2, StageMove
<1>8. ASSUME NEW o \in Ops, GetSqe(o) PROVE [Air!Next]_stage
  <2>1. \A p \in Ops : Posted(p)' <=> Posted(p) BY <1>3, <1>8, PostedStays, Zenon DEF SubmitStep
  <2>2. /\ at[o] = "start" /\ at'[o] = "store" /\ pending'[o] = "live" /\ khead' = khead
        /\ \A p \in Ops : p # o => /\ at'[p] = at[p] /\ pending'[p] = pending[p]
                                   /\ slot'[p] = slot[p]
    BY <1>3, <1>8 DEF GetSqe, At, TypeOK, ring
  <2>3. pending[o] = "none" BY <2>2, SMTT(20) DEF Fresh
  <2>4. Reached(o)' = Reached(o) BY <2>2, <2>3 DEF Reached
  <2>5. \A p \in Ops : p # o => Reached(p)' = Reached(p) BY <2>1, <2>2, Zenon DEF Reached
  <2> QED BY <1>6, <2>4, <2>5, Zenon
<1>9. ASSUME NEW o \in Ops, StoreTail(o) PROVE [Air!Next]_stage
  <2>1. \A p \in Ops : Posted(p)' <=> Posted(p) BY <1>3, <1>9, PostedStays, Zenon DEF SubmitStep
  <2>2. /\ at[o] = "store" /\ at'[o] = "prep" /\ UNCHANGED <<pending, slot, khead>>
        /\ \A p \in Ops : p # o => at'[p] = at[p]
    BY <1>3, <1>9, SMTT(20) DEF StoreTail, At, TypeOK
  <2>3. Reached(o)' = Reached(o) BY <2>2 DEF Reached
  <2>4. \A p \in Ops : p # o => Reached(p)' = Reached(p) BY <2>1, <2>2, ZenonT(30) DEF Reached
  <2> QED BY <1>6, <2>3, <2>4, Zenon
<1>10. ASSUME NEW o \in Ops, Prep(o) PROVE Air!Enter(o)
  <2>1. \A p \in Ops : Posted(p)' <=> Posted(p) BY <1>3, <1>10, PostedStays, Zenon DEF SubmitStep
  <2>2. /\ at[o] = "prep" /\ at'[o] = "submitted" /\ UNCHANGED <<pending, slot, khead>>
        /\ \A p \in Ops : p # o => at'[p] = at[p]
    BY <1>3, <1>10, SMTT(20) DEF Prep, At, TypeOK
  <2>3. pending[o] = "live" /\ khead =< slot[o] BY <1>3, <2>2 DEF Entered, Submitting
  <2>4. Reached(o) = "none" /\ Reached(o)' = "entry" BY <2>2, <2>3 DEF Reached
  <2>5. \A p \in Ops : p # o => Reached(p)' = Reached(p) BY <2>1, <2>2, Zenon DEF Reached
  <2> QED BY <1>7, <2>4, <2>5 DEF Air!Enter
<1>11. ASSUME Submit PROVE [Air!Next]_stage
  <2>1. \A p \in Ops : Posted(p)' <=> Posted(p) BY <1>3, <1>11, PostedStays, Zenon
  <2>2. UNCHANGED <<at, pending, slot>> /\ khead' = sqe_tail BY <1>11, SMTT(20) DEF Submit
  <2>3. ASSUME NEW p \in Ops
        PROVE  Reached(p)' = IF Reached(p) = "entry" THEN "kernel" ELSE Reached(p)
    <3>1. at[p] = "submitted" => ~(sqe_tail =< slot[p])
      <4>1. at[p] = "submitted" => slot[p] < sqe_tail BY <1>3, Zenon DEF Entered
      <4> QED BY <1>3, <4>1 DEF TypeOK
    <3>2. Posted(p) => ~(khead =< slot[p])
      <4>1. ASSUME Posted(p) PROVE Consumed(p)
        <5>1. PICK i \in First..cqTail - 1 : cqes[Cq[i]] = p BY <4>1, Zenon DEF Posted
        <5>2. Consumed(cqes[Cq[i]]) BY <1>3, Zenon DEF Flying
        <5> QED BY <5>1, <5>2, Zenon
      <4> QED BY <1>3, <4>1 DEF TypeOK, Consumed
    <3> QED BY <2>1, <2>2, <3>1, <3>2 DEF Reached
  <2>4. ASSUME NEW p \in Ops
        PROVE  Stage(p)' = IF Stage(p) = "entry" THEN "kernel" ELSE Stage(p)
    BY <1>4, <1>5, <2>3, Zenon
  <2>5. Air!SubmitAll BY <2>4 DEF Air!SubmitAll, stage
  <2> QED BY <2>5 DEF Air!Next
<1>12. ASSUME NEW n \in 1..Len(inflight), Complete(n)
       PROVE  \E o \in Ops : Air!Complete(o)
  <2>1. PICK o : o = inflight[n] BY Zenon
  <2>2. Consumed(o) /\ o \in Ops BY <1>3, <2>1 DEF Flying, Consumed
  <2>3. ~Posted(o)
    <3>1. InKernel(o) BY <2>1 DEF InKernel
    <3> QED BY <1>3, <2>2, <3>1, Zenon DEF Flying
  <2>4. \A p : Posted(p)' <=> Posted(p) \/ p = o
    BY <1>1, <1>3, <1>12, <2>1, CompleteCalm
  <2>5. UNCHANGED <<at, pending, slot, khead>> BY <1>12 DEF Complete, ring
  <2>6. ~(khead =< slot[o]) /\ at[o] = "submitted" /\ pending[o] = "live"
    BY <1>3, <2>2 DEF TypeOK, Consumed
  <2>7. Reached(o) = "kernel" BY <2>3, <2>6 DEF Reached
  <2>8. Reached(o)' = "completion"
    <3>1. Posted(o)' BY <2>4, Zenon
    <3> QED BY <2>5, <2>6, <3>1 DEF Reached
  <2>9. \A p \in Ops : p # o => Reached(p)' = Reached(p) BY <2>4, <2>5, Zenon DEF Reached
  <2> QED BY <1>7, <2>2, <2>7, <2>8, <2>9 DEF Air!Complete
<1>13. CASE Handle
  <2>1. PICK o : o = cqes[Cq[First]] BY Zenon
  <2>2. Consumed(o) /\ o # Null /\ o \in Ops
    BY <1>3, <1>13, <2>1, InHandAlive DEF Consumed
  <2>3. ~(khead =< slot[o]) /\ at[o] = "submitted" /\ pending[o] = "live"
    BY <1>3, <2>2 DEF TypeOK, Consumed
  <2>4. Posted(o)
    <3>1. First \in First..cqTail - 1 BY <1>3, <1>13, InHand DEF TypeOK
    <3> QED BY <2>1, <3>1 DEF Posted
  <2>5. \A p : Posted(p)' <=> Posted(p) /\ p # o BY <1>3, <1>13, <2>1, HandleCalm, SMTT(20)
  <2>6. pending' = [pending EXCEPT ![o] = "deleted"]
    BY <1>3, <1>13, <2>1, <2>2, <2>3, HandleDoes, ZenonT(30)
  <2>7. UNCHANGED <<at, slot, khead>> /\ pending'[o] = "deleted"
        /\ \A p \in Ops : p # o => pending'[p] = pending[p]
    BY <1>3, <1>13, <2>2, <2>6, SMTT(20) DEF Handle, ring, TypeOK
  <2>8. Reached(o) = "completion" /\ Reached(o)' = "handled"
    BY <2>3, <2>4, <2>7 DEF Reached
  <2>9. \A p \in Ops : p # o => Reached(p)' = Reached(p) BY <2>5, <2>7, Zenon DEF Reached
  <2>10. Air!Handle(o) BY <1>7, <2>2, <2>8, <2>9 DEF Air!Handle
  <2>11. \A p \in Ops : p # o => answer'[p] = answer[p]
    <3>1. PICK res \in Results : answer' = [answer EXCEPT ![o] = Answer(o, res)]
      <4>1. \E res \in Results : /\ answer' = [answer EXCEPT ![o] = Answer(o, res)]
                                /\ fault' \in ResizeFaults(o, res)
        BY <1>3, <1>13, <2>1, <2>2, <2>3, HandleDoes
      <4> QED BY <4>1, Zenon
    <3> QED BY <1>3, <3>1 DEF TypeOK
  <2>12. \A p \in Ops : answer'[p] # answer[p] => Air!Handle(p)
    BY <2>10, <2>11, Zenon
  <2> QED BY <2>2, <2>10, <2>12, Zenon DEF Air!Next
<1>14. ASSUME Wait \/ WaitFails \/ Peek \/ Seen \/ UNCHANGED vars
       PROVE  [Air!Next]_stage
  <2>1. \A p \in Ops : Posted(p)' <=> Posted(p) BY <1>3, <1>14, PostedStays, Zenon
  <2>2. UNCHANGED <<at, slot, pending, khead>>
    BY <1>14 DEF Wait, WaitFails, Peek, Seen, vars, ring
  <2> QED BY <1>6, <2>1, <2>2, Zenon DEF Reached
<1>15. ASSUME NEW o \in Ops, SubmitStep(o) PROVE [Air!Next]_stage
  BY <1>8, <1>9, <1>10, <1>15, Zenon DEF SubmitStep, Air!Next
<1>16. ASSUME KernelStep PROVE [Air!Next]_stage
  BY <1>12, <1>16, Zenon DEF KernelStep, Air!Next
<1>17. CASE Handle BY <1>13, <1>17
<1>18. CASE ~Handle
  <2>1. answer' = answer
    BY <1>18, Zenon DEF Next, SubmitStep, KernelStep, LoopStep, GetSqe, StoreTail, Prep,
       Complete, Submit, Wait, WaitFails, Peek, Seen, vars
  <2>2. [Air!Next]_stage
    BY <1>11, <1>14, <1>15, <1>16, <1>18, Zenon DEF Next, LoopStep
  <2> QED BY <2>1, <2>2, Zenon
<1> QED BY <1>17, <1>18

(* As long as accesses to the ring do not overlap, submit_*(), the kernel  *)
(* and event_loop() implement Flight, for any operations and any sizes of  *)
(* the two queues: every operation is entered, given to the kernel with    *)
(* all the entries before it, completed and handled, in turn and once, and *)
(* its future is answered only as it is handled.                           *)
THEOREM IOContextImplementsFlight == Spec => ImplementsFlight
<1>1. Init => Air!Init /\ Fresh
  <2> SUFFICES ASSUME Init PROVE Air!Init /\ Fresh OBVIOUS
  <2>1. \A o \in Ops : at[o] = "start" /\ pending[o] = "none" BY DEF Init
  <2>2. IInv /\ Calm BY InitInv, Zenon DEF Init, Calm
  <2>3. \A o \in Ops : Stage(o) = "none"
    <3>1. \A o \in Ops : Reached(o) = "none" BY <2>1 DEF Reached
    <3> QED BY <2>2, <3>1, StageIs, Zenon
  <2>4. Air!Init BY <2>3, Zenon DEF Air!Init, stage
  <2> QED BY <2>1, <2>4 DEF Fresh
<1>2. IInv => TypeOK /\ Batched BY DEF IInv
<1>3. Spec => []Fresh BY <1>1, <1>2, IInvHolds, FreshStep, PTL DEF Spec
<1>4. IInv /\ IInv' /\ Fresh /\ [Next]_vars
        => [~raced' /\ fault' = "none" =>
              [Air!Next]_stage /\ \A o \in Ops : answer'[o] # answer[o] => Air!Handle(o)]_vars
  BY FlightStep, Zenon
<1> QED BY <1>1, <1>3, <1>4, IInvHolds, PTL DEF Spec, ImplementsFlight
=============================================================================
