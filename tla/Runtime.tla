------------------------------ MODULE Runtime -------------------------------
(***************************************************************************)
(* The executor, the futures and the event loop together, as main() wires  *)
(* them: a coroutine on a worker submits a read into its vector and awaits *)
(* the future, the main thread handles the completion, sets the value and  *)
(* spawns the coroutine again. The executor is the TaskPool that Executor  *)
(* implements, the ring the Flight that IOContext implements as long as    *)
(* accesses do not overlap; each operation has a future of its own, the    *)
(* OneShot that Future implements.                                         *)
(* Main ends when the event loop does: the IOContext, declared last, goes  *)
(* first, and the executor then waits for its workers.                     *)
(***************************************************************************)
EXTENDS Naturals, Sequences, FiniteSets

CONSTANTS Coros,   \* the coroutines
          Slots,   \* the worker threads
          MaxOps   \* bound: how many operations a coroutine makes

ASSUME RuntimeAssumption == MaxOps \in Nat /\ Slots \in Nat

VARIABLES
  st,            \* where the executor has each coroutine, as in TaskPool
  pc,            \* where its body is: "body", "made", "suspend" or "await"
  submitted,     \* how many operations it has submitted
  op,            \* where the newest of them is
  continuation,  \* is FutureState::continuation of its future set
  value,         \* the operation whose result set_value() stored, 0 if none
  results,       \* what its co_awaits have returned
  reset,         \* its connection was reset
  main,          \* where the main thread is
  outcome        \* "ok", or how the program ended before main() returned

future == <<continuation, value>>
vars == <<st, pc, submitted, op, future, results, reset, main, outcome>>

Pool == INSTANCE TaskPool

(* How far the k-th operation of coroutine c has come: the ones before the *)
(* newest have been handled.                                               *)
Stage(c, k) == IF k > submitted[c] THEN "none" ELSE
               IF k < submitted[c] \/ op[c] = "none" THEN "handled" ELSE op[c]

Operations == Coros \X (1..MaxOps)
stage == [x \in Operations |-> Stage(x[1], x[2])]
Air == INSTANCE Flight WITH Ops <- Operations

(* What has happened to the future of that operation.                      *)
Phase(c, k) == IF k < submitted[c] \/ (k = submitted[c] /\ pc[c] = "body")
               THEN "taken" ELSE
               IF k > submitted[c] \/ pc[c] # "await" THEN "fresh" ELSE
               IF st[c] = "asleep" THEN "waiting" ELSE "woken"

phase == [x \in Operations |-> Phase(x[1], x[2])]
Cell == INSTANCE OneShot WITH Futures <- Operations

Init ==
  /\ Pool!Init
  /\ pc = [c \in Coros |-> "body"]
  /\ submitted = [c \in Coros |-> 0]
  /\ op = [c \in Coros |-> "none"]
  /\ continuation = [c \in Coros |-> FALSE]
  /\ value = [c \in Coros |-> 0]
  /\ results = [c \in Coros |-> <<>>]
  /\ reset = [c \in Coros |-> FALSE]
  /\ main = "loop"
  /\ outcome = "ok"

BodyAt(c, from, to) ==
  /\ st[c] = "active" /\ pc[c] = from
  /\ pc' = [pc EXCEPT ![c] = to]

-----------------------------------------------------------------------------
(* A coroutine on a worker.                                                *)

(* main() and running coroutines spawn others.                             *)
Spawn(c) ==
  /\ main = "loop" \/ Pool!Active # {}
  /\ Pool!Spawn(c)
  /\ UNCHANGED <<pc, submitted, op, future, results, reset, main, outcome>>

Start(c) ==
  /\ Pool!Start(c)
  /\ UNCHANGED <<pc, submitted, op, future, results, reset, main, outcome>>

(* Mutant: the future of the operation before is used again.               *)
Submit_SameFuture(c) ==
  /\ BodyAt(c, "body", "made")
  /\ main = "loop" /\ submitted[c] < MaxOps
  /\ submitted' = [submitted EXCEPT ![c] = @ + 1]
  /\ op' = [op EXCEPT ![c] = "entry"]
  /\ UNCHANGED <<st, future, results, reset, main, outcome>>

(* submit_read_some() makes the future and the submission entry.           *)
Submit(c) ==
  /\ BodyAt(c, "body", "made")
  /\ main = "loop" /\ submitted[c] < MaxOps
  /\ submitted' = [submitted EXCEPT ![c] = @ + 1]
  /\ op' = [op EXCEPT ![c] = "entry"]
  /\ continuation' = [continuation EXCEPT ![c] = FALSE]
  /\ value' = [value EXCEPT ![c] = 0]
  /\ UNCHANGED <<st, results, reset, main, outcome>>

(* After io_uring_queue_exit() the ring is unmapped, and io_uring_get_sqe()*)
(* reads from it: nothing that follows is modelled.                        *)
SubmitDead(c) ==
  /\ st[c] = "active" /\ pc[c] = "body"
  /\ main # "loop" /\ submitted[c] < MaxOps
  /\ outcome' = "dead_ring"
  /\ UNCHANGED <<st, pc, submitted, op, future, results, reset, main>>

await_ready(c) ==
  /\ BodyAt(c, "made", IF value[c] # 0 THEN "await" ELSE "suspend")
  /\ UNCHANGED <<st, submitted, op, future, results, reset, main, outcome>>

(* Mutant: the continuation is set but the worker runs on.                 *)
await_suspend_Runs(c) ==
  /\ BodyAt(c, "suspend", "body")
  /\ continuation' = [continuation EXCEPT ![c] = TRUE]
  /\ UNCHANGED <<st, submitted, op, value, results, reset, main, outcome>>

await_suspend(c) ==
  /\ BodyAt(c, "suspend", "await")
  /\ IF value[c] # 0
     THEN UNCHANGED <<st, continuation>>
     ELSE Pool!Sleep(c) /\ continuation' = [continuation EXCEPT ![c] = TRUE]
  /\ UNCHANGED <<submitted, op, value, results, reset, main, outcome>>

(* The end of the co_await; the future goes away with it.                  *)
await_resume(c) ==
  /\ BodyAt(c, "await", "body")
  /\ results' = [results EXCEPT ![c] = Append(@, value[c])]
  /\ UNCHANGED <<st, submitted, op, future, reset, main, outcome>>

Finish(c) ==
  /\ pc[c] = "body"
  /\ Pool!Finish(c)
  /\ UNCHANGED <<pc, submitted, op, future, results, reset, main, outcome>>

-----------------------------------------------------------------------------
(* The kernel, and the main thread.                                        *)

Complete(c) ==
  /\ op[c] = "kernel"
  /\ op' = [op EXCEPT ![c] = "completion"]
  /\ UNCHANGED <<st, pc, submitted, future, results, reset, main, outcome>>

(* io_uring_submit().                                                      *)
SubmitAll ==
  /\ main = "loop"
  /\ \E c \in Coros : op[c] = "entry"
  /\ op' = [c \in Coros |-> IF op[c] = "entry" THEN "kernel" ELSE op[c]]
  /\ UNCHANGED <<st, pc, submitted, future, results, reset, main, outcome>>

(* Mutant: the value is stored and nobody is woken.                        *)
Handle_NoSpawn(c) ==
  /\ main = "loop" /\ op[c] = "completion"
  /\ op' = [op EXCEPT ![c] = "none"]
  /\ value' = [value EXCEPT ![c] = IF continuation[c] THEN submitted[c] ELSE @]
  /\ UNCHANGED <<st, pc, submitted, continuation, results, reset, main, outcome>>

(* _handle_pending() resizes the vector, to less than it held if the read  *)
(* failed, and calls set_value(), which throws the value away if no        *)
(* continuation is set.                                                    *)
Handle(c) ==
  /\ main = "loop" /\ op[c] = "completion"
  /\ op' = [op EXCEPT ![c] = "none"]
  /\ IF continuation[c]
     THEN Pool!Wake(c) /\ value' = [value EXCEPT ![c] = submitted[c]]
     ELSE UNCHANGED <<st, value>>
  /\ UNCHANGED <<pc, submitted, continuation, results, reset, main, outcome>>

(* A reset resolves nothing.                                               *)
HandleReset(c) ==
  /\ main = "loop" /\ op[c] = "completion"
  /\ op' = [op EXCEPT ![c] = "none"]
  /\ reset' = [reset EXCEPT ![c] = TRUE]
  /\ UNCHANGED <<st, pc, submitted, future, results, main, outcome>>

(* The error of a failed read is larger than the vector was: resize()      *)
(* throws, which nothing catches.                                          *)
HandleThrows(c) ==
  /\ main = "loop" /\ op[c] = "completion"
  /\ outcome' = "bad_resize"
  /\ UNCHANGED <<st, pc, submitted, op, future, results, reset, main>>

(* The wait fails: the loop ends and ~IOContext() frees the ring.          *)
LeaveLoop ==
  /\ main = "loop" /\ main' = "join"
  /\ UNCHANGED <<st, pc, submitted, op, future, results, reset, outcome>>

(* Mutant: the coroutines that are suspended are waited for, too.          *)
Join_All ==
  /\ main = "join" /\ main' = "gone"
  /\ \A c \in Coros : st[c] \notin {"ready", "active", "asleep"}
  /\ UNCHANGED <<st, pc, submitted, op, future, results, reset, outcome>>

(* ~Executor(): the queue is empty and every worker has left its loop.     *)
Join ==
  /\ main = "join" /\ main' = "gone"
  /\ \A c \in Coros : st[c] \notin {"ready", "active"}
  /\ UNCHANGED <<st, pc, submitted, op, future, results, reset, outcome>>

-----------------------------------------------------------------------------
WorkerStep(c) ==
  /\ outcome = "ok"
  /\ \/ Start(c) \/ Submit(c) \/ SubmitDead(c) \/ await_ready(c) \/ await_suspend(c)
     \/ await_resume(c) \/ Finish(c)

MainStep ==
  /\ outcome = "ok"
  /\ SubmitAll \/ (\E c \in Coros : Handle(c)) \/ Join

(* What need not happen.                                                   *)
FreeStep ==
  /\ outcome = "ok"
  /\ \/ \E c \in Coros : Spawn(c) \/ Complete(c) \/ HandleReset(c) \/ HandleThrows(c)
     \/ LeaveLoop

Next == (\E c \in Coros : WorkerStep(c)) \/ MainStep \/ FreeStep

(* The threads run; peers need not answer and nothing has to fail.         *)
Spec == Init /\ [][Next]_vars /\ WF_vars(MainStep)
             /\ \A c \in Coros : WF_vars(WorkerStep(c))

-----------------------------------------------------------------------------
(* The variables stay in their types; no co_await returns a value that was *)
(* never set.                                                              *)
TypeOK ==
  /\ st \in [Coros -> Pool!States]
  /\ pc \in [Coros -> {"body", "made", "suspend", "await"}]
  /\ submitted \in [Coros -> 0..MaxOps]
  /\ op \in [Coros -> {"none", "entry", "kernel", "completion"}]
  /\ continuation \in [Coros -> BOOLEAN]
  /\ value \in [Coros -> 0..MaxOps]
  /\ results \in [Coros -> Seq(1..MaxOps)]
  /\ reset \in [Coros -> BOOLEAN]
  /\ main \in {"loop", "join", "gone"}
  /\ outcome \in {"ok", "dead_ring", "bad_resize"}

(* A coroutine's co_awaits return the results of its own operations, each  *)
(* once and in the order of their submission, on whatever thread it is     *)
(* resumed: none is skipped, repeated or taken before it is there.         *)
OwnResults ==
  \A c \in Coros :
    /\ results[c] = [k \in 1..Len(results[c]) |-> k]
    /\ Len(results[c]) = IF pc[c] = "body" THEN submitted[c] ELSE submitted[c] - 1

(* "The data passed is considered radioactive until the respective         *)
(* awaitable returns": while an operation is on the ring, in the kernel or *)
(* not handled yet, its coroutine is between submit and resume, does not   *)
(* touch the vector, and its frame, which holds the vector, is alive.      *)
Radioactive ==
  \A c \in Coros : op[c] # "none" => /\ pc[c] \in {"made", "suspend", "await"}
                                     /\ st[c] \in {"active", "asleep"}

(* A coroutine is woken by its own completion only: it is asleep exactly   *)
(* while it awaits a value that is not there.                              *)
AsleepAwaits ==
  \A c \in Coros : st[c] = "asleep" <=> pc[c] = "await" /\ value[c] = 0

(* What happens to the operations is what Flight allows, and to their      *)
(* futures what OneShot allows: no coroutine submits before its last       *)
(* operation was handled and its value taken, no value is taken before it  *)
(* is set or twice, and only the handling of its operation sets a future.  *)
ImplementsParts ==
  /\ Air!Spec /\ Cell!Spec
  /\ [][\A x \in Operations : Cell!Set(x) => Air!Handle(x)]_vars

(* A co_await that was suspended before its operation completed returns,   *)
(* once it has completed, unless the connection was reset, the loop has    *)
(* ended or the program with it: across set_value(), the queue and a free  *)
(* worker.                                                                 *)
AwaitedReturns ==
  \A c \in Coros : \A k \in 1..MaxOps :
    (submitted[c] = k /\ st[c] = "asleep" /\ op[c] = "completion")
      ~> (Len(results[c]) >= k \/ reset[c] \/ main # "loop" \/ outcome # "ok")

(* ~Executor() returns once the event loop has ended, whatever the         *)
(* coroutines wait for: none keeps a worker busy for ever, and those that  *)
(* sleep are not waited for. A coroutine that submits to the ring which    *)
(* ~IOContext() has freed by then is the one thing that keeps main() from  *)
(* returning (main.cpp, executor.hpp, iocontext.hpp:276).                  *)
MainReturns == main = "join" ~> main = "gone" \/ outcome = "dead_ring"
=============================================================================
