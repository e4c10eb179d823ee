----------------------------- MODULE IOContext ------------------------------
(***************************************************************************)
(* include/concurrency/iocontext.hpp: worker threads put operations on an  *)
(* io_uring with submit_*(), the event loop on the main thread submits     *)
(* them and handles the completions. An operation is named by its          *)
(* PendingVariant, whose address is the user_data of its entry.            *)
(*                                                                         *)
(* liburing and the kernel are modelled from their use here: a submission  *)
(* queue whose tail is an ordinary variable, and a completion queue of     *)
(* slots the kernel may reuse once they are seen. Positions grow without   *)
(* wrapping; a slot is a position modulo the size of its queue.            *)
(***************************************************************************)
EXTENDS Integers, Sequences

CONSTANTS
  Accepts, Connects, Writes,  \* the operations, by the submit_* function
  Reads, BufferReads,         \* submit_read_some into a vector, into a Buffer
  Null,                       \* user_data of an entry never written
  batch_size,                 \* IOContext::batch_size
  CQSize                      \* size of the completion queue, 2 * batch_size by
                              \* default; a smaller one fills with fewer operations

Ops == Accepts \cup Connects \cup Writes \cup Reads \cup BufferReads

(* io_uring_queue_init(batch_size); the kernel rounds up to a power of two,*)
(* which batch_size is taken to be.                                        *)
SQSize == batch_size

ASSUME IOContextAssumption ==
  /\ Null \notin Ops
  /\ batch_size \in Nat \ {0} /\ CQSize \in Nat \ {0}

VARIABLES
  at,         \* where the submit_*() of each operation is
  slot,       \* the position io_uring_get_sqe() gave it
  pending,    \* its PendingVariant: "none", "live" or "deleted"
  answer,     \* what set_value() was called with
  sqe_tail,   \* the ring's private tail
  khead,      \* how far the kernel has consumed
  sqes,       \* user_data in each submission slot
  inflight,   \* user_data of the operations the kernel works on
  cqes,       \* user_data in each completion slot
  cqHead,     \* completions seen
  cqTail,     \* completions posted
  loop,       \* where the event loop is
  batch,      \* the positions in cqes still to be handled
  raced,      \* two unsynchronised accesses to the ring have overlapped
  fault       \* what ended the program: nothing is modelled after it

ring == <<sqe_tail, khead, sqes>>
cq == <<cqes, cqHead, cqTail>>
vars == <<at, slot, pending, answer, ring, inflight, cq, loop, batch, raced, fault>>

(* What a completion can report: res > 0, 0, -ECONNRESET, another error.   *)
Results == {"some", "zero", "reset", "error"}

Faults == {"none", "null sqe", "torn queue", "dead pending", "bad resize"}

Answers == {"none", "socket", "bad socket", "nullopt", "size", "buffer", "wrapped"}

Init ==
  /\ at = [o \in Ops |-> "start"]
  /\ slot = [o \in Ops |-> 0]
  /\ pending = [o \in Ops |-> "none"]
  /\ answer = [o \in Ops |-> "none"]
  /\ sqe_tail = 0 /\ khead = 0
  /\ sqes = [i \in 0..SQSize - 1 |-> Null]
  /\ inflight = <<>>
  /\ cqes = [i \in 0..CQSize - 1 |-> Null]
  /\ cqHead = 0 /\ cqTail = 0
  /\ loop = "submit"
  /\ batch = <<>>
  /\ raced = FALSE /\ fault = "none"

(* The operations in the middle of a submit_*().                           *)
Submitting == {o \in Ops : at[o] \in {"store", "prep"}}

At(o, from, to) == fault = "none" /\ at[o] = from /\ at' = [at EXCEPT ![o] = to]
LoopAt(from, to) == fault = "none" /\ loop = from /\ loop' = to

-----------------------------------------------------------------------------
(* submit_*(), on a worker thread.                                         *)

(* new PendingVariant and the first half of io_uring_get_sqe(): it reads   *)
(* the tail and finds a slot, or returns NULL, which is used unchecked.    *)
GetSqe(o) ==
  /\ At(o, "start", "store")
  /\ pending' = [pending EXCEPT ![o] = "live"]
  /\ slot' = [slot EXCEPT ![o] = sqe_tail]
  /\ fault' = IF sqe_tail - khead >= SQSize THEN "null sqe" ELSE "none"
  /\ raced' = (raced \/ Submitting # {})
  /\ UNCHANGED <<answer, ring, inflight, cq, loop, batch>>

(* The second half of io_uring_get_sqe().                                  *)
StoreTail(o) ==
  /\ At(o, "store", "prep")
  /\ sqe_tail' = slot[o] + 1
  /\ UNCHANGED <<slot, pending, answer, khead, sqes, inflight, cq, loop, batch,
                 raced, fault>>

(* io_uring_prep_*() and sqe->user_data = pending.                         *)
Prep(o) ==
  /\ At(o, "prep", "submitted")
  /\ sqes' = [sqes EXCEPT ![slot[o] % SQSize] = o]
  /\ UNCHANGED <<slot, pending, answer, sqe_tail, khead, inflight, cq, loop, batch,
                 raced, fault>>

-----------------------------------------------------------------------------
(* The kernel.                                                             *)

(* An operation completes, in any order, when the queue has room. The slot *)
(* may be one that the event loop has marked as seen and is yet to read.   *)
Complete(i) ==
  /\ fault = "none"
  /\ cqTail - cqHead < CQSize
  /\ cqes' = [cqes EXCEPT ![cqTail % CQSize] = inflight[i]]
  /\ cqTail' = cqTail + 1
  /\ inflight' = SubSeq(inflight, 1, i - 1) \o SubSeq(inflight, i + 1, Len(inflight))
  /\ raced' = (raced \/ (loop = "handle" /\ cqTail = Head(batch) + CQSize))
  /\ UNCHANGED <<at, slot, pending, answer, ring, cqHead, loop, batch, fault>>

-----------------------------------------------------------------------------
(* event_loop(), on the main thread.                                       *)

(* Mutant: only the newest entry is submitted.                             *)
Submit_Newest ==
  /\ LoopAt("submit", "wait")
  /\ inflight' = IF khead < sqe_tail
                 THEN Append(inflight, sqes[(sqe_tail - 1) % SQSize]) ELSE inflight
  /\ khead' = sqe_tail
  /\ raced' = (raced \/ Submitting # {})
  /\ UNCHANGED <<at, slot, pending, answer, sqe_tail, sqes, cq, batch, fault>>

(* io_uring_submit(): the kernel copies every entry up to the tail, also   *)
(* the ones that are not prepared yet. A race of two StoreTail may have    *)
(* moved the tail back behind what was consumed.                           *)
Submit ==
  /\ LoopAt("submit", "wait")
  /\ fault' = IF sqe_tail < khead THEN "torn queue" ELSE "none"
  /\ inflight' = inflight \o [i \in 1..sqe_tail - khead |->
                                sqes[(khead + i - 1) % SQSize]]
  /\ khead' = sqe_tail
  /\ raced' = (raced \/ Submitting # {})
  /\ UNCHANGED <<at, slot, pending, answer, sqe_tail, sqes, cq, batch>>

(* Mutant: a timeout waits again without submitting.                       *)
Wait_NoSubmit ==
  /\ \/ cqHead < cqTail /\ LoopAt("wait", "peek")
     \/ cqHead = cqTail /\ LoopAt("wait", "wait")
  /\ UNCHANGED <<at, slot, pending, answer, ring, inflight, cq, batch, raced, fault>>

(* io_uring_wait_cqe_timeout(): a completion or -ETIME.                    *)
Wait ==
  /\ \/ cqHead < cqTail /\ LoopAt("wait", "peek")
     \/ cqHead = cqTail /\ LoopAt("wait", "submit")
  /\ UNCHANGED <<at, slot, pending, answer, ring, inflight, cq, batch, raced, fault>>

(* It fails with another error, as when it is interrupted: the loop ends.  *)
WaitFails ==
  /\ LoopAt("wait", "exited")
  /\ UNCHANGED <<at, slot, pending, answer, ring, inflight, cq, batch, raced, fault>>

(* io_uring_peek_batch_cqe() returns pointers to the slots.                *)
Peek ==
  /\ LoopAt("peek", "seen")
  /\ batch' = [i \in 1..(IF cqTail - cqHead < batch_size THEN cqTail - cqHead
                         ELSE batch_size) |-> cqHead + i - 1]
  /\ UNCHANGED <<at, slot, pending, answer, ring, inflight, cq, raced, fault>>

(* Mutant: the completion is not marked as seen.                           *)
Seen_Never ==
  /\ batch # <<>>
  /\ LoopAt("seen", "handle")
  /\ UNCHANGED <<at, slot, pending, answer, ring, inflight, cq, batch, raced, fault>>

(* io_uring_cqe_seen(): from here on the kernel may write into the slot.   *)
Seen ==
  /\ batch # <<>>
  /\ LoopAt("seen", "handle")
  /\ cqHead' = cqHead + 1
  /\ UNCHANGED <<at, slot, pending, answer, ring, inflight, cqes, cqTail, batch,
                 raced, fault>>

(* _handle_pending: what set_value() is given. A failed read passes its    *)
(* negative count on as an unsigned size, a vector's reset answers nobody. *)
Answer(o, res) ==
  LET done == res \in {"some", "zero"} IN
  CASE o \in Accepts     -> IF done THEN "socket" ELSE "bad socket"
    [] o \in Connects    -> IF done THEN "socket" ELSE "nullopt"
    [] o \in Writes      -> "none"
    [] o \in Reads       -> IF done THEN "size" ELSE
                            IF res = "reset" THEN "none" ELSE "wrapped"
    [] o \in BufferReads -> IF res = "zero" THEN "nullopt" ELSE
                            IF res = "some" THEN "buffer" ELSE "wrapped"

(* vec.resize(initial_size + read) with a negative read throws, or cuts    *)
(* the vector short, as the amount of data in it happens to be.            *)
ResizeFaults(o, res) ==
  IF o \in Reads /\ res = "error" THEN {"none", "bad resize"} ELSE {"none"}

(* user_data and res are read, the handler runs, the pending is deleted.   *)
(* Nothing looks at res before this, so it is chosen here.                 *)
Handle ==
  LET o == cqes[Head(batch) % CQSize] IN
  /\ LoopAt("handle", IF Len(batch) = 1 THEN "submit" ELSE "seen")
  /\ batch' = Tail(batch)
  /\ IF o # Null /\ pending[o] = "live"
     THEN /\ pending' = [pending EXCEPT ![o] = "deleted"]
          /\ \E res \in Results : /\ answer' = [answer EXCEPT ![o] = Answer(o, res)]
                                 /\ fault' \in ResizeFaults(o, res)
     ELSE fault' = "dead pending" /\ UNCHANGED <<pending, answer>>
  /\ UNCHANGED <<at, slot, ring, inflight, cq, raced>>

-----------------------------------------------------------------------------
SubmitStep(o) == GetSqe(o) \/ StoreTail(o) \/ Prep(o)

KernelStep == \E i \in 1..Len(inflight) : Complete(i)

LoopStep == Submit \/ Wait \/ Peek \/ Seen \/ Handle

Next == (\E o \in Ops : SubmitStep(o)) \/ KernelStep \/ LoopStep \/ WaitFails

Spec == Init /\ [][Next]_vars

(* The main thread runs; peers need not answer, so the kernel may be idle. *)
Fairness == WF_vars(LoopStep)

FairSpec == Spec /\ Fairness

-----------------------------------------------------------------------------
TypeOK ==
  /\ at \in [Ops -> {"start", "store", "prep", "submitted"}]
  /\ slot \in [Ops -> Nat] /\ sqe_tail \in Nat /\ khead \in Nat
  /\ pending \in [Ops -> {"none", "live", "deleted"}]
  /\ answer \in [Ops -> Answers]
  /\ sqes \in [0..SQSize - 1 -> Ops \cup {Null}]
  /\ inflight \in Seq(Ops \cup {Null})
  /\ cqes \in [0..CQSize - 1 -> Ops \cup {Null}]
  /\ cqHead \in Nat /\ cqTail \in Nat
  /\ loop \in {"submit", "wait", "peek", "seen", "handle", "exited"}
  /\ batch \in Seq(Nat)
  /\ raced \in BOOLEAN /\ fault \in Faults

(* Where o is on its way: entries the kernel has not consumed, operations  *)
(* it works on, completions that are not handled.                          *)
Unhandled == (IF batch = <<>> THEN cqHead ELSE Head(batch))..(cqTail - 1)
Places(o) ==
  ({"entry"} \X {i \in khead..sqe_tail - 1 : slot[o] = i /\ sqes[i % SQSize] = o})
  \cup ({"kernel"} \X {i \in 1..Len(inflight) : inflight[i] = o})
  \cup ({"completion"} \X {i \in Unhandled : cqes[i % CQSize] = o})

(* As long as no accesses to the ring overlap, a submitted operation is in *)
(* exactly one place until it is handled and in none afterwards, whatever  *)
(* the timeouts, the batches and the order of completion: none is lost and *)
(* none completes twice. About submit_* and event_loop.                    *)
OnePlace ==
  ~raced /\ fault = "none" =>
    \A o \in Ops : IF at[o] = "submitted" /\ pending[o] = "live"
                   THEN \E p \in Places(o) : Places(o) = {p}
                   ELSE Places(o) = {}

(* How far an operation has come: the place it is in.                      *)
Stage(o) == IF pending[o] = "deleted" THEN "handled" ELSE
            IF Places(o) = {} THEN "none" ELSE (CHOOSE p \in Places(o) : TRUE)[1]

stage == [o \in Ops |-> Stage(o)]
Air == INSTANCE Flight

(* As long as no accesses overlap, submit_*(), the kernel and event_loop   *)
(* do to the operations only what Flight allows: entered, given to the     *)
(* kernel with all the others, completed, handled, each once; and a future *)
(* is answered only in the step that handles its completed operation.      *)
ImplementsFlight ==
  /\ Air!Init
  /\ [][~raced' /\ fault' = "none" =>
          [Air!Next]_stage /\ \A o \in Ops : answer'[o] # answer[o] => Air!Handle(o)]_vars

(* Without such an overlap the event loop never visits a null or deleted   *)
(* PendingVariant.                                                         *)
PendingAlive == fault \in {"dead pending", "torn queue"} => raced

(* Every submitted operation reaches the kernel, and is handled once the   *)
(* kernel has completed it, unless accesses overlapped or the loop ended.  *)
SubmittedIsHandled ==
  \A o \in Ops :
    LET InKernel == \E i \in 1..Len(inflight) : inflight[i] = o IN
    (at[o] = "submitted" /\ ~InKernel)
      ~> (InKernel \/ pending[o] = "deleted" \/ raced \/ fault # "none" \/ loop = "exited")

(* event_loop's SAFETY comment: there is no data race on the ring, so two  *)
(* submissions never get one entry.                                        *)
EntriesDistinct ==
  \A o, p \in Ops : o # p /\ at[o] \in {"prep", "submitted"}
                          /\ at[p] \in {"prep", "submitted"} => slot[o] # slot[p]
=============================================================================
