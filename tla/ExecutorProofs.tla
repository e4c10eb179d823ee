--------------------------- MODULE ExecutorProofs ---------------------------
(***************************************************************************)
(* Proofs that the executor keeps its safety properties for every number   *)
(* of workers and frames and every bound on suspensions and reuses, and    *)
(* that it implements TaskPool, fairness apart.                            *)
(***************************************************************************)
EXTENDS Executor, FiniteSetTheorems, TLAPS

(* A worker between its pop and the end of its loop body holds a handle.   *)
HoldsTask ==
  \A w \in Workers :
    pc[w] \in {"picked", "run", "notify", "resched", "check", "drop"}
      => task[w] \in Coros

TypeInv == TypeOK /\ HoldsTask

(* push_back() and pop_front() of _queue.                                  *)
LEMMA PushIs ==
  ASSUME NEW S, NEW q \in Seq(S), NEW c \in S
  PROVE  /\ Append(q, c) \in Seq(S) /\ Len(q) \in Nat
         /\ Len(Append(q, c)) = Len(q) + 1 /\ Append(q, c)[Len(q) + 1] = c
         /\ \A i \in 1..Len(q) : Append(q, c)[i] = q[i]
  OBVIOUS

LEMMA PopIs ==
  ASSUME NEW S, NEW q \in Seq(S), q # <<>>
  PROVE  /\ Head(q) \in S /\ Head(q) = q[1] /\ Tail(q) \in Seq(S)
         /\ Len(q) \in Nat \ {0} /\ Len(Tail(q)) = Len(q) - 1
         /\ \A i \in 1..Len(q) - 1 : Tail(q)[i] = q[i + 1]
  OBVIOUS

-----------------------------------------------------------------------------
(* Type correctness. HoldsTask makes it inductive: co_await suspend()      *)
(* pushes the worker's own handle.                                         *)

(* The initial state is type correct.                                      *)
LEMMA TypeInit == Init => TypeInv
<1> SUFFICES ASSUME Init PROVE TypeInv
  OBVIOUS
<1> USE ExecutorAssumption DEF Init
<1>1. queue \in Seq(Coros)
  OBVIOUS
<1>2. /\ pc \in [Threads -> WorkerLocs \cup MainLocs]
      /\ \A w \in Workers : pc[w] = "take"
      /\ pc[Main] = "main"
  BY DEF Threads, WorkerLocs, MainLocs
<1>3. /\ task \in [Workers -> Coros \cup {None}]
      /\ frame \in [Coros -> FrameStates]
  BY DEF FrameStates
<1>4. suspends \in [Coros -> 0..MaxSuspends] /\ reuses \in 0..MaxReuses
  OBVIOUS
<1> QED
  BY <1>1, <1>2, <1>3, <1>4, ZenonT(30) DEF TypeInv, TypeOK, HoldsTask, WorkerLocs, MainLocs

(* Every step of a thread keeps every variable in its type.                *)
LEMMA TypeStep == TypeInv /\ [Next]_vars => TypeInv'
<1> SUFFICES ASSUME TypeInv, [Next]_vars PROVE TypeInv'
  OBVIOUS
<1> USE ExecutorAssumption DEF TypeInv, TypeOK, HoldsTask, Threads, WorkerLocs,
                               MainLocs, FrameStates, Goto
<1>1. ASSUME NEW w \in Workers, Sleep(w) PROVE TypeInv'
  BY <1>1 DEF Sleep
<1>2. ASSUME NEW w \in Workers, Exit(w) PROVE TypeInv'
  BY <1>2 DEF Exit
<1>3. ASSUME NEW w \in Workers, Pop(w) PROVE TypeInv'
  <2>1. Head(queue) \in Coros /\ Tail(queue) \in Seq(Coros)
    BY <1>3, PopIs DEF Pop
  <2> QED
    BY <1>3, <2>1 DEF Pop
<1>4. ASSUME NEW w \in Workers, Resume(w) PROVE TypeInv'
  BY <1>4 DEF Resume
<1>5. ASSUME NEW w \in Workers, Leak(w) PROVE TypeInv'
  BY <1>5 DEF Leak
<1>6. ASSUME NEW w \in Workers, Own(w) PROVE TypeInv'
  BY <1>6 DEF Own
<1>7. ASSUME NEW w \in Workers, Destroy(w) PROVE TypeInv'
  <2>1. outcome' \in {"ok", "bad_destroy"} /\ frame' \in [Coros -> FrameStates]
    BY <1>7 DEF Destroy
  <2> QED
    BY <1>7, <2>1 DEF Destroy
<1>8. ASSUME NEW t \in Threads, NotifyOne(t) PROVE TypeInv'
  <2>1. /\ AfterNotify(t) \in IF t = Main THEN {"main"} ELSE {"check", "run"}
        /\ t # Main => task[t] \in Coros
    BY <1>8 DEF NotifyOne, AfterNotify, Notifying
  <2>2. CASE Goto(t, AfterNotify(t))
    BY <1>8, <2>1, <2>2 DEF NotifyOne
  <2>3. ASSUME NEW w \in Workers, w # t,
               pc' = [pc EXCEPT ![t] = AfterNotify(t), ![w] = "take"]
        PROVE  TypeInv'
    BY <1>8, <2>1, <2>3, ZenonT(30) DEF NotifyOne
  <2>4. \A w \in Waiting : w \in Workers /\ w # t
    BY <1>8 DEF NotifyOne, Notifying, Waiting
  <2> QED
    BY <1>8, <2>2, <2>3, <2>4, ZenonT(30) DEF NotifyOne
<1>9. ASSUME NEW w \in Workers, Park(w) PROVE TypeInv'
  BY <1>9 DEF Park
<1>10. ASSUME NEW w \in Workers, Reschedule(w) PROVE TypeInv'
  BY <1>10 DEF Reschedule, Enqueue
<1>11. ASSUME NEW w \in Workers, Finish(w) PROVE TypeInv'
  BY <1>11 DEF Finish
<1>12. ASSUME NEW t \in Threads, NEW c \in Coros, SpawnNew(t, c) PROVE TypeInv'
  BY <1>12 DEF SpawnNew, MayCall, Enqueue
<1>13. ASSUME NEW t \in Threads, NEW c \in Coros, SpawnParked(t, c) PROVE TypeInv'
  BY <1>13 DEF SpawnParked, MayCall, Enqueue
<1>14. ASSUME NEW w \in Workers, SpuriousWake(w) PROVE TypeInv'
  BY <1>14 DEF SpuriousWake
<1>15. CASE SetDone
  BY <1>15 DEF SetDone
<1>16. CASE NotifyAll
  BY <1>16 DEF NotifyAll
<1>17. CASE Join
  BY <1>17 DEF Join
<1>18. CASE Terminated \/ UNCHANGED vars
  BY <1>18 DEF Terminated, vars
<1> QED
  BY <1>1, <1>2, <1>3, <1>4, <1>5, <1>6, <1>7, <1>8, <1>9, <1>10, <1>11, <1>12,
     <1>13, <1>14, <1>15, <1>16, <1>17, <1>18, ZenonT(30)
     DEF Next, WorkerStep, MainStep, FreeStep

(* Every variable of the executor keeps its type.                          *)
THEOREM TypeCorrect == Spec => []TypeOK
<1>1. Spec => []TypeInv
  BY TypeInit, TypeStep, PTL DEF Spec
<1>2. TypeInv => TypeOK
  BY DEF TypeInv
<1> QED
  BY <1>1, <1>2, PTL

-----------------------------------------------------------------------------
(* Ownership of handles: OneHandle is inductive with type correctness.     *)

Distinct == \A i, j \in 1..Len(queue) : queue[i] = queue[j] => i = j

(* _queue.push_back of a handle that is not in the queue.                  *)
LEMMA PushedQueue ==
  ASSUME NEW c \in Coros, queue \in Seq(Coros), queue' = Append(queue, c)
  PROVE  /\ \A d \in Coros : InQueue(d)' <=> InQueue(d) \/ d = c
         /\ Distinct /\ ~InQueue(c) => Distinct'
<1>1. /\ Len(queue) \in Nat
      /\ Len(queue') = Len(queue) + 1
      /\ \A i \in 1..Len(queue) : queue'[i] = queue[i]
      /\ queue'[Len(queue) + 1] = c
  BY PushIs
<1>2. ASSUME NEW d \in Coros PROVE InQueue(d)' <=> InQueue(d) \/ d = c
  BY <1>1 DEF InQueue
<1>3. ASSUME Distinct, ~InQueue(c) PROVE Distinct'
  BY <1>1, <1>3 DEF Distinct, InQueue
<1> QED
  BY <1>2, <1>3

(* _queue.front() followed by pop_front().                                 *)
LEMMA PoppedQueue ==
  ASSUME queue \in Seq(Coros), queue # <<>>, queue' = Tail(queue), Distinct
  PROVE  /\ Head(queue) \in Coros /\ InQueue(Head(queue))
         /\ \A d \in Coros : InQueue(d)' <=> InQueue(d) /\ d # Head(queue)
         /\ Distinct'
<1>1. /\ Len(queue) \in Nat /\ Len(queue) > 0
      /\ Len(queue') = Len(queue) - 1
      /\ \A i \in 1..Len(queue') : queue'[i] = queue[i + 1]
      /\ Head(queue) = queue[1]
  BY PopIs
<1>2. Head(queue) \in Coros /\ InQueue(Head(queue))
  BY <1>1, PopIs DEF InQueue
<1>3. ASSUME NEW d \in Coros PROVE InQueue(d)' <=> InQueue(d) /\ d # Head(queue)
  <2>1. ASSUME InQueue(d)' PROVE InQueue(d) /\ d # Head(queue)
    BY <1>1, <2>1 DEF InQueue, Distinct
  <2>2. ASSUME InQueue(d), d # Head(queue) PROVE InQueue(d)'
    <3>1. PICK i \in 1..Len(queue) : queue[i] = d
      BY <2>2 DEF InQueue
    <3>2. i - 1 \in 1..Len(queue') /\ queue'[i - 1] = d
      BY <1>1, <2>2, <3>1
    <3> QED
      BY <3>2 DEF InQueue
  <2> QED
    BY <2>1, <2>2
<1>4. Distinct'
  BY <1>1 DEF Distinct
<1> QED
  BY <1>2, <1>3, <1>4

(* What OneHandle says of one coroutine.                                   *)
HandleOf(c) ==
  /\ InQueue(c) => c \notin parked /\ \A w \in Workers : ~Executes(w, c)
  /\ c \in parked => \A w \in Workers : ~Executes(w, c)
  /\ \A v, w \in Workers : Executes(v, c) /\ Executes(w, c) => v = w
  /\ InQueue(c) \/ c \in parked => frame[c] = "suspended"
  /\ \A w \in Workers : Executes(w, c) =>
       frame[c] = IF pc[w] = "picked" THEN "suspended" ELSE "running"

(* OneHandle, coroutine by coroutine.                                      *)
LEMMA HandleSplit == OneHandle <=> Distinct /\ \A c \in Coros : HandleOf(c)
BY DEF OneHandle, Distinct, HandleOf

(* At the start there is no handle at all.                                 *)
LEMMA HandleInit == Init => OneHandle
BY ExecutorAssumption
   DEF Init, OneHandle, InQueue, Executes, Threads

(* notify_one() moves its caller past the call and one sleeper awake.      *)
LEMMA NotifyMoves ==
  ASSUME TypeInv, NEW t \in Threads, NotifyOne(t)
  PROVE  \A v \in Workers :
           \/ pc'[v] = pc[v]
           \/ pc[v] = "wait" /\ pc'[v] = "take"
           \/ pc[v] = "notify" /\ pc'[v] = "run"
           \/ pc[v] = "resched" /\ pc'[v] = "check"
BY ExecutorAssumption
   DEF TypeInv, TypeOK, Threads, Goto, NotifyOne, AfterNotify, Notifying, Waiting

(* For Main the only such move is back from spawn().                       *)
LEMMA NotifyMovesMain ==
  ASSUME TypeInv, NEW t \in Threads, NotifyOne(t)
  PROVE  pc'[Main] = pc[Main] \/ (pc[Main] = "notify" /\ pc'[Main] = "main")
<1>1. pc[Main] # "resched" /\ Main \in Threads /\ Main \notin Waiting
  BY ExecutorAssumption DEF TypeInv, TypeOK, MainLocs, Threads, Waiting
<1>2. pc'[Main] = pc[Main] \/ (t = Main /\ pc'[Main] = AfterNotify(Main))
  BY <1>1 DEF NotifyOne, Goto, TypeInv, TypeOK
<1> QED
  BY <1>1, <1>2 DEF NotifyOne, AfterNotify, Notifying

(* No step duplicates the handle of a coroutine or loses track of who      *)
(* executes it.                                                            *)
LEMMA HandleStep == TypeInv /\ OneHandle /\ [Next]_vars => OneHandle'
<1> SUFFICES ASSUME TypeInv, OneHandle, [Next]_vars PROVE OneHandle'
  OBVIOUS
<1> DEFINE Goal == Distinct' /\ \A c \in Coros : HandleOf(c)'
<1> SUFFICES Goal
  BY HandleSplit DEF OneHandle, Distinct, HandleOf
<1>0. Distinct /\ \A c \in Coros : HandleOf(c)
  BY HandleSplit
<1> USE ExecutorAssumption, <1>0 DEF TypeInv, TypeOK, HoldsTask, Threads, Goto,
                                     Executes
<1>q. ASSUME UNCHANGED queue
      PROVE  /\ Distinct'
             /\ \A c : InQueue(c)' <=> InQueue(c)
  BY <1>q DEF Distinct, InQueue
<1>1. ASSUME NEW w \in Workers, Sleep(w) PROVE Goal
  BY <1>1, <1>q DEF Sleep, HandleOf
<1>2. ASSUME NEW w \in Workers, Exit(w) PROVE Goal
  BY <1>2, <1>q DEF Exit, HandleOf
<1>3. ASSUME NEW w \in Workers, Pop(w) PROVE Goal
  <2>1. /\ Head(queue) \in Coros /\ InQueue(Head(queue))
        /\ \A d \in Coros : InQueue(d)' <=> InQueue(d) /\ d # Head(queue)
        /\ Distinct'
    BY <1>3, PoppedQueue DEF Pop
  <2> QED
    BY <1>3, <2>1 DEF Pop, HandleOf
<1>4. ASSUME NEW w \in Workers, Resume(w) PROVE Goal
  BY <1>4, <1>q DEF Resume, HandleOf
<1>5. ASSUME NEW w \in Workers, Leak(w) PROVE Goal
  BY <1>5, <1>q, SMTT(20) DEF Leak, HandleOf
<1>6. ASSUME NEW w \in Workers, Own(w) PROVE Goal
  BY <1>6, <1>q DEF Own, HandleOf
<1>7. ASSUME NEW w \in Workers, Destroy(w) PROVE Goal
  BY <1>7, <1>q, SMTT(20) DEF Destroy, HandleOf
<1>8. ASSUME NEW t \in Threads, NotifyOne(t) PROVE Goal
  <2>1. \A v \in Workers :
          \/ pc'[v] = pc[v]
          \/ pc[v] = "wait" /\ pc'[v] = "take"
          \/ pc[v] = "notify" /\ pc'[v] = "run"
          \/ pc[v] = "resched" /\ pc'[v] = "check"
    BY <1>8, NotifyMoves
  <2>2. UNCHANGED <<queue, task, frame, parked>>
    BY <1>8 DEF NotifyOne
  <2>3. \A v \in Workers :
          /\ pc'[v] = "picked" <=> pc[v] = "picked"
          /\ \A c : Executes(v, c)' <=> Executes(v, c)
    BY <2>1, <2>2, ZenonT(30)
  <2>4. \A c \in Coros : HandleOf(c)'
    <3> HIDE DEF Executes
    <3> QED
      BY <2>2, <2>3, <1>q DEF HandleOf
  <2> QED
    BY <2>2, <2>3, <2>4, <1>q
<1>9. ASSUME NEW w \in Workers, Park(w) PROVE Goal
  <2>1. /\ pc[w] = "run" /\ task[w] \in Coros
        /\ pc' = [pc EXCEPT ![w] = "check"]
        /\ frame' = [frame EXCEPT ![task[w]] = "suspended"]
        /\ parked' = parked \cup {task[w]}
        /\ UNCHANGED <<queue, task>>
    BY <1>9 DEF Park
  <2>2. /\ ~InQueue(task[w]) /\ frame[task[w]] = "running"
        /\ \A v \in Workers : ~Executes(v, task[w])'
    BY <2>1 DEF HandleOf
  <2>3. ASSUME NEW c \in Coros, c # task[w]
        PROVE  \A v \in Workers : Executes(v, c)' <=> Executes(v, c)
    BY <2>1, <2>3
  <2>4. \A v \in Workers : pc'[v] = "picked" <=> pc[v] = "picked"
    BY <2>1
  <2>5. \A c \in Coros : HandleOf(c)'
    <3> HIDE DEF Executes
    <3>1. HandleOf(task[w])'
      BY <2>1, <2>2, <1>q DEF HandleOf
    <3>2. ASSUME NEW c \in Coros, c # task[w] PROVE HandleOf(c)'
      BY <2>1, <2>3, <2>4, <3>2, <1>q DEF HandleOf
    <3> QED
      BY <2>1, <3>1, <3>2
  <2> QED
    BY <2>1, <2>5, <1>q
<1>10. ASSUME NEW w \in Workers, Reschedule(w) PROVE Goal
  <2>1. /\ ~InQueue(task[w]) /\ task[w] \in Coros
        /\ queue' = Append(queue, task[w])
    BY <1>10 DEF Reschedule, Enqueue, HandleOf
  <2>2. Distinct' /\ \A d \in Coros : InQueue(d)' <=> InQueue(d) \/ d = task[w]
    BY <2>1, PushedQueue
  <2>3. /\ pc' = [pc EXCEPT ![w] = "resched"] /\ pc[w] = "run"
        /\ frame' = [frame EXCEPT ![task[w]] = "suspended"]
        /\ UNCHANGED <<task, parked>>
    BY <1>10 DEF Reschedule, Enqueue
  <2>4. task[w] \notin parked /\ \A v \in Workers : ~Executes(v, task[w])'
    BY <2>1, <2>3 DEF HandleOf
  <2>5. ASSUME NEW c \in Coros, c # task[w]
        PROVE  \A v \in Workers : Executes(v, c)' <=> Executes(v, c)
    BY <2>3, <2>5
  <2>6. \A v \in Workers : pc'[v] = "picked" <=> pc[v] = "picked"
    BY <2>3
  <2>7. \A c \in Coros : HandleOf(c)'
    <3> HIDE DEF Executes
    <3>1. HandleOf(task[w])'
      BY <2>1, <2>2, <2>3, <2>4 DEF HandleOf
    <3>2. ASSUME NEW c \in Coros, c # task[w] PROVE HandleOf(c)'
      BY <2>2, <2>3, <2>5, <2>6, <3>2 DEF HandleOf
    <3> QED
      BY <2>3, <3>1, <3>2
  <2> QED
    BY <2>2, <2>7
<1>11. ASSUME NEW w \in Workers, Finish(w) PROVE Goal
  BY <1>11, <1>q, SMTT(20) DEF Finish, HandleOf
<1>12. ASSUME NEW t \in Threads, NEW c \in Coros, SpawnNew(t, c) PROVE Goal
  <2>1. ~InQueue(c) /\ queue' = Append(queue, c)
    BY <1>12 DEF SpawnNew, Enqueue, HandleOf
  <2>2. Distinct' /\ \A d \in Coros : InQueue(d)' <=> InQueue(d) \/ d = c
    BY <2>1, PushedQueue
  <2> QED
    BY <1>12, <2>2, SMTT(20) DEF SpawnNew, MayCall, Enqueue, HandleOf
<1>13. ASSUME NEW t \in Threads, NEW c \in Coros, SpawnParked(t, c) PROVE Goal
  <2>1. ~InQueue(c) /\ queue' = Append(queue, c)
    BY <1>13 DEF SpawnParked, Enqueue, HandleOf
  <2>2. Distinct' /\ \A d \in Coros : InQueue(d)' <=> InQueue(d) \/ d = c
    BY <2>1, PushedQueue
  <2> QED
    BY <1>13, <2>2, SMTT(20) DEF SpawnParked, MayCall, Enqueue, HandleOf
<1>14. ASSUME NEW w \in Workers, SpuriousWake(w) PROVE Goal
  BY <1>14, <1>q, SMTT(20) DEF SpuriousWake, HandleOf
<1>15. CASE SetDone
  BY <1>15, <1>q, SMTT(20) DEF SetDone, HandleOf
<1>16. CASE NotifyAll
  BY <1>16, <1>q, SMTT(20) DEF NotifyAll, HandleOf
<1>17. CASE Join
  BY <1>17, <1>q DEF Join, HandleOf
<1>18. CASE Terminated \/ UNCHANGED vars
  BY <1>18, <1>q, SMTT(20) DEF Terminated, vars, HandleOf
<1> QED
  BY <1>1, <1>2, <1>3, <1>4, <1>5, <1>6, <1>7, <1>8, <1>9, <1>10, <1>11, <1>12,
     <1>13, <1>14, <1>15, <1>16, <1>17, <1>18, ZenonT(30)
     DEF Next, WorkerStep, MainStep, FreeStep

(* A coroutine's handle has one owner, whatever the threads do.            *)
THEOREM OneHandleHolds == Spec => []OneHandle
  BY TypeInit, TypeStep, HandleInit, HandleStep, PTL DEF Spec

(* No step leaves a finished coroutine without an owner: done() of one is  *)
(* true, so the worker that came back from it does not leak it.            *)
LEMMA OwnedStep == TypeInv /\ FinishedIsOwned /\ [Next]_vars => FinishedIsOwned'
<1> SUFFICES ASSUME TypeInv, FinishedIsOwned, [Next]_vars PROVE FinishedIsOwned'
  OBVIOUS
<1> USE ExecutorAssumption DEF TypeInv, TypeOK, HoldsTask, Threads, Goto
(* Most steps neither finish a coroutine nor move a worker that holds one. *)
<1>k. ASSUME \A c \in Coros : frame'[c] = "final" => frame[c] = "final",
             \A w \in Workers : pc[w] \in {"check", "drop"} =>
               pc'[w] \in {"check", "drop"} /\ task'[w] = task[w]
      PROVE  FinishedIsOwned'
  BY <1>k DEF FinishedIsOwned
<1>1. ASSUME NEW w \in Workers, Sleep(w) PROVE FinishedIsOwned'
  BY <1>1, <1>k DEF Sleep
<1>2. ASSUME NEW w \in Workers, Exit(w) PROVE FinishedIsOwned'
  BY <1>2, <1>k DEF Exit
<1>3. ASSUME NEW w \in Workers, Pop(w) PROVE FinishedIsOwned'
  BY <1>3, <1>k DEF Pop
<1>4. ASSUME NEW w \in Workers, Resume(w) PROVE FinishedIsOwned'
  BY <1>4, <1>k DEF Resume
<1>5. ASSUME NEW w \in Workers, Leak(w) PROVE FinishedIsOwned'
  <2>1. frame[task[w]] # "final"
    BY <1>5 DEF Leak, DoneReads
  <2>2. /\ frame' = frame
        /\ \A v \in Workers : v # w => task'[v] = task[v] /\ pc'[v] = pc[v]
    BY <1>5 DEF Leak
  <2>3. ASSUME NEW c \in Coros, frame'[c] = "final"
        PROVE  \E v \in Workers : task'[v] = c /\ pc'[v] \in {"check", "drop"}
    <3>1. PICK v \in Workers : task[v] = c /\ pc[v] \in {"check", "drop"}
      BY <2>2, <2>3 DEF FinishedIsOwned
    <3> QED
      BY <2>1, <2>2, <2>3, <3>1
  <2> QED
    BY <2>3 DEF FinishedIsOwned
<1>6. ASSUME NEW w \in Workers, Own(w) PROVE FinishedIsOwned'
  BY <1>6, <1>k DEF Own
<1>7. ASSUME NEW w \in Workers, Destroy(w) PROVE FinishedIsOwned'
  <2>1. frame'[task[w]] # "final"
    BY <1>7 DEF Destroy
  <2>2. \A c \in Coros : frame'[c] = "final" => frame[c] = "final" /\ c # task[w]
    BY <1>7, <2>1 DEF Destroy
  <2> QED
    BY <1>7, <2>2 DEF Destroy, FinishedIsOwned
<1>8. ASSUME NEW t \in Threads, NotifyOne(t) PROVE FinishedIsOwned'
  <2>1. \A v \in Workers : pc[v] \in {"check", "drop"} => pc'[v] = pc[v]
    BY <1>8, NotifyMoves, ZenonT(30)
  <2>2. UNCHANGED <<task, frame>>
    BY <1>8 DEF NotifyOne
  <2> QED
    BY <2>1, <2>2, <1>k
<1>9. ASSUME NEW w \in Workers, Park(w) PROVE FinishedIsOwned'
  BY <1>9, <1>k DEF Park
<1>10. ASSUME NEW w \in Workers, Reschedule(w) PROVE FinishedIsOwned'
  BY <1>10, <1>k DEF Reschedule, Enqueue
<1>11. ASSUME NEW w \in Workers, Finish(w) PROVE FinishedIsOwned'
  <2>1. task'[w] = task[w] /\ pc'[w] = "check"
    BY <1>11 DEF Finish
  <2>2. \A c \in Coros : frame'[c] = "final" => frame[c] = "final" \/ c = task[w]
    BY <1>11 DEF Finish
  <2>3. \A v \in Workers : pc[v] \in {"check", "drop"} =>
          pc'[v] \in {"check", "drop"} /\ task'[v] = task[v]
    BY <1>11 DEF Finish
  <2>4. ASSUME NEW c \in Coros, frame'[c] = "final"
        PROVE  \E v \in Workers : task'[v] = c /\ pc'[v] \in {"check", "drop"}
    <3>1. CASE c = task[w]
      BY <2>1, <3>1
    <3>2. CASE frame[c] = "final"
      BY <2>3, <3>2, ZenonT(30) DEF FinishedIsOwned
    <3> QED
      BY <2>2, <2>4, <3>1, <3>2
  <2> QED
    BY <2>4 DEF FinishedIsOwned
<1>12. ASSUME NEW t \in Threads, NEW c \in Coros, SpawnNew(t, c)
       PROVE  FinishedIsOwned'
  BY <1>12, <1>k DEF SpawnNew, MayCall, Enqueue
<1>13. ASSUME NEW t \in Threads, NEW c \in Coros, SpawnParked(t, c)
       PROVE  FinishedIsOwned'
  BY <1>13, <1>k DEF SpawnParked, MayCall, Enqueue
<1>14. ASSUME NEW w \in Workers, SpuriousWake(w) PROVE FinishedIsOwned'
  BY <1>14, <1>k DEF SpuriousWake
<1>15. CASE SetDone
  BY <1>15, <1>k DEF SetDone
<1>16. CASE NotifyAll
  BY <1>16, <1>k DEF NotifyAll
<1>17. CASE Join
  BY <1>17, <1>k DEF Join
<1>18. CASE Terminated \/ UNCHANGED vars
  BY <1>18, <1>k DEF Terminated, vars
<1> QED
  BY <1>1, <1>2, <1>3, <1>4, <1>5, <1>6, <1>7, <1>8, <1>9, <1>10, <1>11, <1>12,
     <1>13, <1>14, <1>15, <1>16, <1>17, <1>18, ZenonT(30)
     DEF Next, WorkerStep, MainStep, FreeStep

(* Until its frame is freed, a finished coroutine is owned by a worker that*)
(* is about to destroy it: the decision between done() and leak() never    *)
(* loses one, whichever thread resumed it last.                            *)
THEOREM FinishedIsOwnedHolds == Spec => []FinishedIsOwned
<1>1. Init => FinishedIsOwned
  BY DEF Init, FinishedIsOwned
<1> QED
  BY <1>1, TypeInit, TypeStep, OwnedStep, PTL DEF Spec

-----------------------------------------------------------------------------
(* No lost wakeup. WorkConserving is inductive with type correctness: the  *)
(* push adds a task and a notifier, notify_one() trades the notifier for a *)
(* woken worker, and the pop takes one task and one awake worker away.     *)

(* The workers about to look at the queue and the threads about to call    *)
(* notify_one() are finitely many.                                         *)
LEMMA FiniteThreads ==
  TypeInv => /\ IsFiniteSet(Taking) /\ Cardinality(Taking) \in Nat
             /\ IsFiniteSet(Notifying) /\ Cardinality(Notifying) \in Nat
<1> SUFFICES ASSUME TypeInv PROVE IsFiniteSet(Taking) /\ IsFiniteSet(Notifying)
  BY FS_CardinalityType
<1>1. IsFiniteSet(Workers \cup {Main})
  BY ExecutorAssumption, FS_AddElement
<1>2. Taking \subseteq Workers \cup {Main} /\ Notifying \subseteq Workers \cup {Main}
  BY DEF Taking, Notifying, Threads
<1> QED
  BY <1>1, <1>2, FS_Subset

(* At the start the queue is empty.                                        *)
LEMMA WorkInit == Init => WorkConserving
<1> SUFFICES ASSUME Init PROVE Waiting = {}
  BY DEF WorkConserving
<1> QED
  BY ExecutorAssumption DEF Init, Waiting, Threads

(* No step strands a queued task while a worker sleeps.                    *)
LEMMA WorkStep == TypeInv /\ WorkConserving /\ [Next]_vars => WorkConserving'
<1> SUFFICES ASSUME TypeInv, WorkConserving, [Next]_vars
             PROVE  WorkConserving'
  OBVIOUS
<1> USE ExecutorAssumption
<1>f. /\ IsFiniteSet(Taking) /\ Cardinality(Taking) \in Nat
      /\ IsFiniteSet(Notifying) /\ Cardinality(Notifying) \in Nat
  BY FiniteThreads
<1>l. queue \in Seq(Coros) /\ Len(queue) \in Nat
  BY DEF TypeInv, TypeOK
(* The ways in which a step changes the three sets and the queue.          *)
<1>quiet. ASSUME UNCHANGED queue, Waiting' = Waiting, Taking' = Taking,
                 Notifying' = Notifying
          PROVE  WorkConserving'
  BY <1>quiet DEF WorkConserving
<1>awake. ASSUME UNCHANGED queue, Waiting' \subseteq Waiting, NEW w \in Workers,
                 w \notin Taking, Taking' = Taking \cup {w},
                 Notifying' = Notifying
          PROVE  WorkConserving'
  <2>1. Cardinality(Taking') = Cardinality(Taking) + 1
    BY <1>awake, <1>f, FS_AddElement, ZenonT(30)
  <2> QED
    BY <1>awake, <1>f, <1>l, <2>1 DEF WorkConserving
<1>push. ASSUME NEW c \in Coros, queue' = Append(queue, c), Waiting' = Waiting,
                Taking' = Taking, NEW t, t \notin Notifying,
                Notifying' = Notifying \cup {t}
         PROVE  WorkConserving'
  <2>1. Cardinality(Notifying') = Cardinality(Notifying) + 1
    BY <1>push, <1>f, FS_AddElement, ZenonT(30)
  <2>2. Len(queue') = Len(queue) + 1
    BY <1>push, <1>l, PushIs
  <2> QED
    BY <1>push, <1>f, <1>l, <2>1, <2>2 DEF WorkConserving
<1>empty. ASSUME queue = <<>>, UNCHANGED queue, NEW w \in Taking,
                 Taking' = Taking \ {w}, Notifying' = Notifying
          PROVE  WorkConserving'
  <2>1. Cardinality(Taking') \in Nat
    BY <1>empty, <1>f, FS_RemoveElement, FS_CardinalityType
  <2> QED
    BY <1>empty, <1>f, <2>1 DEF WorkConserving
<1> USE DEF TypeInv, TypeOK, Threads, Goto
<1>1. ASSUME NEW w \in Workers, Sleep(w) PROVE WorkConserving'
  <2>1. /\ queue = <<>> /\ UNCHANGED queue
        /\ w \in Taking /\ Taking' = Taking \ {w} /\ Notifying' = Notifying
    BY <1>1 DEF Sleep, Waiting, Taking, Notifying
  <2> QED
    BY <2>1, <1>empty
<1>2. ASSUME NEW w \in Workers, Exit(w) PROVE WorkConserving'
  <2>1. /\ queue = <<>> /\ UNCHANGED queue
        /\ w \in Taking /\ Taking' = Taking \ {w} /\ Notifying' = Notifying
    BY <1>2 DEF Exit, Waiting, Taking, Notifying
  <2> QED
    BY <2>1, <1>empty
<1>3. ASSUME NEW w \in Workers, Pop(w) PROVE WorkConserving'
  <2>1. /\ w \in Taking /\ Taking' = Taking \ {w}
        /\ Waiting' = Waiting /\ Notifying' = Notifying
    BY <1>3 DEF Pop, Waiting, Taking, Notifying
  <2>2. Cardinality(Taking') = Cardinality(Taking) - 1
    BY <2>1, <1>f, FS_RemoveElement, ZenonT(30)
  <2>3. Len(queue') = Len(queue) - 1
    BY <1>3, <1>l, PopIs DEF Pop
  <2> QED
    BY <1>f, <1>l, <2>1, <2>2, <2>3 DEF WorkConserving
<1>4. ASSUME NEW w \in Workers, Resume(w) PROVE WorkConserving'
  <2>1. /\ UNCHANGED queue /\ Waiting' = Waiting
        /\ Taking' = Taking /\ Notifying' = Notifying
    BY <1>4 DEF Resume, Waiting, Taking, Notifying
  <2> QED
    BY <2>1, <1>quiet
<1>5. ASSUME NEW w \in Workers, Leak(w) PROVE WorkConserving'
  <2>1. /\ UNCHANGED queue /\ Waiting' \subseteq Waiting
        /\ w \notin Taking /\ Taking' = Taking \cup {w}
        /\ Notifying' = Notifying
    BY <1>5 DEF Leak, Waiting, Taking, Notifying
  <2> QED
    BY <2>1, <1>awake
<1>6. ASSUME NEW w \in Workers, Own(w) PROVE WorkConserving'
  <2>1. /\ UNCHANGED queue /\ Waiting' = Waiting
        /\ Taking' = Taking /\ Notifying' = Notifying
    BY <1>6 DEF Own, Waiting, Taking, Notifying
  <2> QED
    BY <2>1, <1>quiet
<1>7. ASSUME NEW w \in Workers, Destroy(w) PROVE WorkConserving'
  <2>1. /\ UNCHANGED queue /\ Waiting' \subseteq Waiting
        /\ w \notin Taking /\ Taking' = Taking \cup {w}
        /\ Notifying' = Notifying
    BY <1>7 DEF Destroy, Waiting, Taking, Notifying
  <2> QED
    BY <2>1, <1>awake
<1>8. ASSUME NEW t \in Threads, NotifyOne(t) PROVE WorkConserving'
  <2>1. CASE Waiting = {} /\ Goto(t, AfterNotify(t))
    <3>1. Waiting' = {}
      BY <2>1 DEF AfterNotify, Waiting
    <3> QED
      BY <3>1 DEF WorkConserving
  <2>2. ASSUME NEW w \in Waiting,
               pc' = [pc EXCEPT ![t] = AfterNotify(t), ![w] = "take"]
        PROVE  WorkConserving'
    <3>1. t \in Notifying /\ UNCHANGED queue
      BY <1>8 DEF NotifyOne
    <3>2. /\ w \notin Taking /\ Taking' = Taking \cup {w}
          /\ Notifying' = Notifying \ {t} /\ Waiting # {}
      BY <2>2, <3>1 DEF AfterNotify, Waiting, Taking, Notifying
    <3>3. /\ Cardinality(Taking') = Cardinality(Taking) + 1
          /\ Cardinality(Notifying') = Cardinality(Notifying) - 1
      BY <3>1, <3>2, <1>f, FS_AddElement, FS_RemoveElement, ZenonT(30)
    <3> QED
      BY <1>f, <1>l, <3>1, <3>2, <3>3 DEF WorkConserving
  <2> QED
    BY <1>8, <2>1, <2>2, ZenonT(30) DEF NotifyOne
<1>9. ASSUME NEW w \in Workers, Park(w) PROVE WorkConserving'
  <2>1. /\ UNCHANGED queue /\ Waiting' = Waiting
        /\ Taking' = Taking /\ Notifying' = Notifying
    BY <1>9 DEF Park, Waiting, Taking, Notifying
  <2> QED
    BY <2>1, <1>quiet
<1>10. ASSUME NEW w \in Workers, Reschedule(w) PROVE WorkConserving'
  <2>1. /\ task[w] \in Coros
        /\ queue' = Append(queue, task[w]) /\ Waiting' = Waiting
        /\ Taking' = Taking /\ w \notin Notifying
        /\ Notifying' = Notifying \cup {w}
    BY <1>10, SMTT(20) DEF Reschedule, Enqueue, HoldsTask, Waiting, Taking, Notifying
  <2> QED
    BY <2>1, <1>push
<1>11. ASSUME NEW w \in Workers, Finish(w) PROVE WorkConserving'
  <2>1. /\ UNCHANGED queue /\ Waiting' = Waiting
        /\ Taking' = Taking /\ Notifying' = Notifying
    BY <1>11 DEF Finish, Waiting, Taking, Notifying
  <2> QED
    BY <2>1, <1>quiet
<1>12. ASSUME NEW t \in Threads, NEW c \in Coros, SpawnNew(t, c)
       PROVE  WorkConserving'
  <2>1. /\ queue' = Append(queue, c) /\ Waiting' = Waiting
        /\ Taking' = Taking /\ t \notin Notifying
        /\ Notifying' = Notifying \cup {t}
    BY <1>12 DEF SpawnNew, MayCall, Enqueue, Waiting, Taking, Notifying
  <2> QED
    BY <2>1, <1>push
<1>13. ASSUME NEW t \in Threads, NEW c \in Coros, SpawnParked(t, c)
       PROVE  WorkConserving'
  <2>1. /\ queue' = Append(queue, c) /\ Waiting' = Waiting
        /\ Taking' = Taking /\ t \notin Notifying
        /\ Notifying' = Notifying \cup {t}
    BY <1>13 DEF SpawnParked, MayCall, Enqueue, Waiting, Taking, Notifying
  <2> QED
    BY <2>1, <1>push
<1>14. ASSUME NEW w \in Workers, SpuriousWake(w) PROVE WorkConserving'
  <2>1. /\ UNCHANGED queue /\ Waiting' \subseteq Waiting
        /\ w \notin Taking /\ Taking' = Taking \cup {w}
        /\ Notifying' = Notifying
    BY <1>14 DEF SpuriousWake, Waiting, Taking, Notifying
  <2> QED
    BY <2>1, <1>awake
<1>15. CASE SetDone
  <2>1. /\ UNCHANGED queue /\ Waiting' = Waiting
        /\ Taking' = Taking /\ Notifying' = Notifying
    BY <1>15 DEF SetDone, Waiting, Taking, Notifying
  <2> QED
    BY <2>1, <1>quiet
<1>16. CASE NotifyAll
  <2>1. Waiting' = {}
    BY <1>16 DEF NotifyAll, Waiting
  <2> QED
    BY <2>1 DEF WorkConserving
<1>17. CASE Join
  <2>1. /\ UNCHANGED queue /\ Waiting' = Waiting
        /\ Taking' = Taking /\ Notifying' = Notifying
    BY <1>17 DEF Join, Waiting, Taking, Notifying
  <2> QED
    BY <2>1, <1>quiet
<1>18. CASE Terminated \/ UNCHANGED vars
  <2>1. /\ UNCHANGED queue /\ Waiting' = Waiting
        /\ Taking' = Taking /\ Notifying' = Notifying
    BY <1>18 DEF Terminated, vars, Waiting, Taking, Notifying
  <2> QED
    BY <2>1, <1>quiet
<1> QED
  BY <1>1, <1>2, <1>3, <1>4, <1>5, <1>6, <1>7, <1>8, <1>9, <1>10, <1>11, <1>12,
     <1>13, <1>14, <1>15, <1>16, <1>17, <1>18, SMTT(20)
     DEF Next, WorkerStep, MainStep, FreeStep

(* While a worker sleeps, no queued task is without a thread coming for it.*)
THEOREM WorkConservingHolds == Spec => []WorkConserving
BY TypeInit, TypeStep, WorkInit, WorkStep, PTL DEF Spec

-----------------------------------------------------------------------------
(* Shutdown. The induction needs that nobody but a worker that has not     *)
(* exited can still push once is_done is set, and that a live coroutine is *)
(* always in the queue, executing or parked.                               *)

Accounted ==
  \A c \in Coros : frame[c] \in {"suspended", "running"} =>
    c \in parked \/ InQueue(c) \/ \E w \in Workers : Executes(w, c)

AllExited == \A w \in Workers : pc[w] = "exited"

ShutdownInv ==
  /\ is_done <=> pc[Main] \in {"closing", "joining", "joined"}
  /\ \A w \in Workers : pc[w] = "exited" => is_done
  /\ AllExited => queue = <<>>
  /\ pc[Main] = "joined" => AllExited

(* At the start no coroutine exists and no worker has exited.              *)
LEMMA ShutdownInit == Init => Accounted /\ ShutdownInv
BY ExecutorAssumption DEF Init, Accounted, ShutdownInv, AllExited, Threads

(* No step loses a coroutine that still has work to do.                    *)
LEMMA AccountedStep ==
  TypeInv /\ OneHandle /\ Accounted /\ [Next]_vars => Accounted'
<1> SUFFICES ASSUME TypeInv, OneHandle, Accounted, [Next]_vars PROVE Accounted'
  OBVIOUS
<1> USE ExecutorAssumption DEF TypeInv, TypeOK, HoldsTask, Threads, Goto, Executes
<1>q. ASSUME UNCHANGED queue PROVE \A c : InQueue(c)' <=> InQueue(c)
  BY <1>q DEF InQueue
<1>p. ASSUME NEW c \in Coros, queue' = Append(queue, c)
      PROVE  \A d \in Coros : InQueue(d)' <=> InQueue(d) \/ d = c
  BY <1>p, PushedQueue
<1>1. ASSUME NEW w \in Workers, Sleep(w) PROVE Accounted'
  BY <1>1, <1>q, ZenonT(30) DEF Sleep, Accounted
<1>2. ASSUME NEW w \in Workers, Exit(w) PROVE Accounted'
  BY <1>2, <1>q DEF Exit, Accounted
<1>3. ASSUME NEW w \in Workers, Pop(w) PROVE Accounted'
  <2>1. \A d \in Coros : InQueue(d)' <=> InQueue(d) /\ d # Head(queue)
    BY <1>3, PoppedQueue, HandleSplit DEF Pop
  <2>2. \A c \in Coros : c = Head(queue) => Executes(w, c)'
    BY <1>3 DEF Pop
  <2>3. \A v \in Workers, c \in Coros : Executes(v, c) => Executes(v, c)'
    BY <1>3 DEF Pop
  <2> QED
    BY <1>3, <2>1, <2>2, <2>3, SMTT(20) DEF Pop, Accounted
<1>4. ASSUME NEW w \in Workers, Resume(w) PROVE Accounted'
  BY <1>4, <1>q, SMTT(20) DEF Resume, Accounted
<1>5. ASSUME NEW w \in Workers, Leak(w) PROVE Accounted'
  BY <1>5, <1>q, ZenonT(30) DEF Leak, Accounted
<1>6. ASSUME NEW w \in Workers, Own(w) PROVE Accounted'
  BY <1>6, <1>q DEF Own, Accounted
<1>7. ASSUME NEW w \in Workers, Destroy(w) PROVE Accounted'
  <2>1. /\ \A v \in Workers, c \in Coros : Executes(v, c) => Executes(v, c)'
        /\ \A c \in Coros : frame'[c] \in {"suspended", "running"} => frame'[c] = frame[c]
        /\ UNCHANGED <<queue, parked>>
    BY <1>7 DEF Destroy
  <2> HIDE DEF Executes
  <2> QED
    BY <2>1, <1>q DEF Accounted
<1>8. ASSUME NEW t \in Threads, NotifyOne(t) PROVE Accounted'
  <2>1. \A v \in Workers, c \in Coros : Executes(v, c) => Executes(v, c)'
    BY <1>8, NotifyMoves, ZenonT(30) DEF NotifyOne
  <2> QED
    BY <1>8, <2>1, <1>q, SMTT(20) DEF NotifyOne, Accounted
<1>9. ASSUME NEW w \in Workers, Park(w) PROVE Accounted'
  BY <1>9, <1>q, SMTT(20) DEF Park, Accounted
<1>10. ASSUME NEW w \in Workers, Reschedule(w) PROVE Accounted'
  BY <1>10, <1>p, SMTT(20) DEF Reschedule, Enqueue, Accounted
<1>11. ASSUME NEW w \in Workers, Finish(w) PROVE Accounted'
  BY <1>11, <1>q, SMTT(20) DEF Finish, Accounted
<1>12. ASSUME NEW t \in Threads, NEW c \in Coros, SpawnNew(t, c) PROVE Accounted'
  BY <1>12, <1>p, SMTT(20) DEF SpawnNew, MayCall, Enqueue, Accounted
<1>13. ASSUME NEW t \in Threads, NEW c \in Coros, SpawnParked(t, c) PROVE Accounted'
  BY <1>13, <1>p, SMTT(20) DEF SpawnParked, MayCall, Enqueue, Accounted
<1>14. ASSUME NEW w \in Workers, SpuriousWake(w) PROVE Accounted'
  BY <1>14, <1>q, ZenonT(30) DEF SpuriousWake, Accounted
<1>15. CASE SetDone
  BY <1>15, <1>q DEF SetDone, Accounted
<1>16. CASE NotifyAll
  BY <1>16, <1>q, ZenonT(30) DEF NotifyAll, Accounted
<1>17. CASE Join
  BY <1>17, <1>q DEF Join, Accounted
<1>18. CASE Terminated \/ UNCHANGED vars
  BY <1>18, <1>q, SMTT(20) DEF Terminated, vars, Accounted
<1> QED
  BY <1>1, <1>2, <1>3, <1>4, <1>5, <1>6, <1>7, <1>8, <1>9, <1>10, <1>11, <1>12,
     <1>13, <1>14, <1>15, <1>16, <1>17, <1>18, SMTT(20)
     DEF Next, WorkerStep, MainStep, FreeStep

(* Once is_done is set only a worker that has not exited can push, so the  *)
(* queue is empty when the last one has.                                   *)
LEMMA ShutdownStep ==
  TypeInv /\ ShutdownInv /\ [Next]_vars => ShutdownInv'
<1> SUFFICES ASSUME TypeInv, ShutdownInv, [Next]_vars PROVE ShutdownInv'
  OBVIOUS
<1> USE ExecutorAssumption DEF TypeInv, TypeOK, Threads, Goto, ShutdownInv, AllExited
<1>1. ASSUME NEW w \in Workers, Sleep(w) PROVE ShutdownInv'
  BY <1>1 DEF Sleep
<1>2. ASSUME NEW w \in Workers, Exit(w) PROVE ShutdownInv'
  BY <1>2 DEF Exit
<1>3. ASSUME NEW w \in Workers, Pop(w) PROVE ShutdownInv'
  BY <1>3 DEF Pop
<1>4. ASSUME NEW w \in Workers, Resume(w) \/ Leak(w) \/ Own(w) \/ Destroy(w)
      PROVE  ShutdownInv'
  <2>1. /\ UNCHANGED <<queue, is_done>>
        /\ pc[w] # "exited"
        /\ \E loc \in {"run", "take", "drop"} : pc' = [pc EXCEPT ![w] = loc]
    BY <1>4, ZenonT(30) DEF Resume, Leak, Own, Destroy
  <2> QED
    BY <2>1
<1>5. ASSUME NEW t \in Threads, NotifyOne(t) PROVE ShutdownInv'
  <2>1. UNCHANGED <<queue, is_done>>
    BY <1>5 DEF NotifyOne
  <2>2. \A w \in Workers : pc'[w] = "exited" <=> pc[w] = "exited"
    BY <1>5, NotifyMoves, ZenonT(30)
  <2>3. pc'[Main] = pc[Main] \/ (pc[Main] = "notify" /\ pc'[Main] = "main")
    BY <1>5, NotifyMovesMain
  <2> QED
    BY <2>1, <2>2, <2>3
<1>6. ASSUME NEW w \in Workers, Park(w) \/ Reschedule(w) \/ Finish(w)
      PROVE  ShutdownInv'
  BY <1>6, SMTT(20) DEF Park, Reschedule, Enqueue, Finish
<1>7. ASSUME NEW t \in Threads, NEW c \in Coros,
             SpawnNew(t, c) \/ SpawnParked(t, c)
      PROVE  ShutdownInv'
  BY <1>7, SMTT(20) DEF SpawnNew, SpawnParked, MayCall, Enqueue
<1>8. ASSUME NEW w \in Workers, SpuriousWake(w) PROVE ShutdownInv'
  BY <1>8 DEF SpuriousWake
<1>9. CASE SetDone \/ NotifyAll \/ Join
  BY <1>9, ZenonT(30) DEF SetDone, NotifyAll, Join
<1>10. CASE Terminated \/ UNCHANGED vars
  BY <1>10, SMTT(20) DEF Terminated, vars
<1> QED
  BY <1>1, <1>2, <1>3, <1>4, <1>5, <1>6, <1>7, <1>8, <1>9, <1>10, ZenonT(30)
     DEF Next, WorkerStep, MainStep, FreeStep

(* When ~Executor has joined its threads no spawned task was dropped.      *)
THEOREM DrainedAtJoinHolds == Spec => []DrainedAtJoin
<1>1. Spec => [](TypeInv /\ OneHandle /\ Accounted /\ ShutdownInv)
  BY TypeInit, TypeStep, HandleInit, HandleStep, ShutdownInit, AccountedStep,
     ShutdownStep, PTL DEF Spec
<1>2. Accounted /\ ShutdownInv => DrainedAtJoin
  BY DEF Accounted, ShutdownInv, AllExited, DrainedAtJoin, InQueue, Executes
<1> QED
  BY <1>1, <1>2, PTL

-----------------------------------------------------------------------------
(* The executor implements TaskPool: the safety part of ImplementsPool.    *)

(* What TaskPool requires of every behaviour, fairness apart.              *)
PoolSafety == Pool!Init /\ [][Pool!Next]_pool

PoolInv == TypeInv /\ OneHandle /\ Accounted

-----------------------------------------------------------------------------
(* A step that changes one coroutine is a move of the pool.                *)
LEMMA PoolMove ==
  ASSUME NEW c \in Coros, NEW from, NEW to, PoolState(c) = from, PoolState(c)' = to,
         \A d \in Coros : d # c => PoolState(d)' = PoolState(d)
  PROVE  Pool!Move(c, from, to)
<1> HIDE DEF PoolState
<1>1. pool' = [pool EXCEPT ![c] = to] /\ pool[c] = from
  BY Zenon DEF pool
<1>2. QED
  BY <1>1 DEF Pool!Move, pool

(* A step that changes none is a stutter.                                  *)
LEMMA PoolStutter ==
  ASSUME \A c \in Coros : PoolState(c)' = PoolState(c)
  PROVE  pool' = pool
  BY DEF pool

(* A step that leaves the queue, the frames and the kept handles alone.    *)
LEMMA PoolUntouched ==
  ASSUME UNCHANGED <<queue, frame, parked>>
  PROVE  pool' = pool
  BY DEF pool, PoolState, InQueue

(* A coroutine that is executing is active.                                *)
LEMMA ExecutingActive ==
  ASSUME PoolInv, NEW w \in Workers, pc[w] \in {"picked", "run", "notify"}
  PROVE  /\ task[w] \in Coros /\ ~InQueue(task[w]) /\ task[w] \notin parked
         /\ frame[task[w]] \in {"suspended", "running"}
         /\ PoolState(task[w]) = "active"
<1>1. task[w] \in Coros
  BY DEF PoolInv, TypeInv, HoldsTask
<1>2. Executes(w, task[w])
  BY DEF Executes
<1>3. /\ ~InQueue(task[w]) /\ task[w] \notin parked
      /\ frame[task[w]] \in {"suspended", "running"}
  BY <1>1, <1>2 DEF PoolInv, OneHandle
<1>4. QED
  BY <1>1, <1>3 DEF PoolState

(* Both modules count alike.                                               *)
LEMMA SameCardinality ==
  ASSUME NEW S
  PROVE  Pool!Cardinality(S) = Cardinality(S)
  BY DEF Pool!Cardinality, Cardinality

(* While a worker is at the queue, fewer coroutines are active than there  *)
(* are workers: each of them executes on a worker of its own.              *)
LEMMA SlotFree ==
  ASSUME PoolInv, NEW w \in Workers, pc[w] = "take"
  PROVE  Cardinality(Pool!Active) < Cardinality(Workers)
<1> DEFINE A == {c \in Coros : PoolState(c) = "active"}
           Others == Workers \ {w}
           on == [c \in A |-> CHOOSE v \in Workers : Executes(v, c)]
<1>1. Pool!Active = A
  BY DEF Pool!Active, pool
<1>2. ASSUME NEW c \in A PROVE \E v \in Workers : Executes(v, c)
  <2>1. c \in Coros /\ PoolState(c) = "active"
    OBVIOUS
  <2>2. c \notin parked /\ ~InQueue(c) /\ frame[c] \notin {"none", "final", "freed"}
    BY <2>1 DEF PoolState
  <2>3. frame[c] \in {"suspended", "running"}
    BY <2>1, <2>2 DEF PoolInv, TypeInv, TypeOK, FrameStates
  <2>4. QED
    BY <2>1, <2>2, <2>3 DEF PoolInv, Accounted
<1>3. ASSUME NEW c \in A PROVE on[c] \in Others /\ task[on[c]] = c
  <2>1. on[c] \in Workers /\ Executes(on[c], c)
    BY <1>2
  <2>2. QED
    BY <2>1 DEF Executes
<1> HIDE DEF on
<1>4. on \in Injection(A, Others)
  <2>1. on \in [A -> Others]
    BY <1>3 DEF on
  <2>2. \A c, d \in A : on[c] = on[d] => c = d
    BY <1>3
  <2>3. QED
    BY <2>1, <2>2 DEF Injection, IsInjective
<1> HIDE DEF A, Others
<1>5. IsFiniteSet(Others) /\ Cardinality(Others) = Cardinality(Workers) - 1
  BY ExecutorAssumption, FS_RemoveElement DEF Others
<1>6. IsFiniteSet(A) /\ Cardinality(A) <= Cardinality(Others)
  BY <1>4, <1>5, FS_Injection
<1>7. Cardinality(A) \in Nat /\ Cardinality(Workers) \in Nat
  BY <1>6, ExecutorAssumption, FS_CardinalityType
<1>8. QED
  BY <1>1, <1>5, <1>6, <1>7

-----------------------------------------------------------------------------
(* The actions that are steps of the pool.                                 *)

(* spawn() of a new coroutine.                                             *)
LEMMA SpawnNewMoves ==
  ASSUME PoolInv, NEW t \in Threads, NEW c \in Coros, SpawnNew(t, c)
  PROVE  Pool!Spawn(c)
<1>1. /\ frame[c] \in {"none", "freed"} /\ frame' = [frame EXCEPT ![c] = "suspended"]
      /\ queue' = Append(queue, c) /\ parked' = parked
  BY DEF SpawnNew, Enqueue
<1>2. c \notin parked
  BY <1>1 DEF PoolInv, OneHandle
<1>3. frame \in [Coros -> FrameStates] /\ queue \in Seq(Coros)
  BY DEF PoolInv, TypeInv, TypeOK
<1>4. \A d \in Coros : InQueue(d)' <=> InQueue(d) \/ d = c
  BY <1>1, <1>3, PushedQueue
<1>5. PoolState(c) = "new" /\ PoolState(c)' = "ready"
  BY <1>1, <1>2, <1>3, <1>4 DEF PoolState
<1>6. \A d \in Coros : d # c => PoolState(d)' = PoolState(d)
  BY <1>1, <1>3, <1>4 DEF PoolState
<1>7. QED
  BY <1>5, <1>6, PoolMove DEF Pool!Spawn

(* spawn() of a handle an awaitable has kept.                              *)
LEMMA SpawnParkedMoves ==
  ASSUME PoolInv, NEW t \in Threads, NEW c \in Coros, SpawnParked(t, c)
  PROVE  Pool!Wake(c)
<1>1. /\ c \in parked /\ parked' = parked \ {c} /\ frame' = frame
      /\ queue' = Append(queue, c)
  BY DEF SpawnParked, Enqueue
<1>2. frame[c] = "suspended" /\ queue \in Seq(Coros)
  BY <1>1 DEF PoolInv, OneHandle, TypeInv, TypeOK
<1>3. \A d \in Coros : InQueue(d)' <=> InQueue(d) \/ d = c
  BY <1>1, <1>2, PushedQueue
<1>4. PoolState(c) = "asleep" /\ PoolState(c)' = "ready"
  BY <1>1, <1>2, <1>3 DEF PoolState
<1>5. \A d \in Coros : d # c => PoolState(d)' = PoolState(d)
  BY <1>1, <1>3 DEF PoolState
<1>6. QED
  BY <1>4, <1>5, PoolMove DEF Pool!Wake

(* A worker pops a task: there is a slot for it.                           *)
LEMMA PopMoves ==
  ASSUME PoolInv, NEW w \in Workers, Pop(w)
  PROVE  \E c \in Coros : Pool!Start(c)
<1>1. /\ pc[w] = "take" /\ queue # <<>> /\ queue' = Tail(queue)
      /\ frame' = frame /\ parked' = parked
  BY DEF Pop
<1>2. queue \in Seq(Coros) /\ Distinct
  BY DEF PoolInv, TypeInv, TypeOK, OneHandle, Distinct
<1>3. PICK c \in Coros : /\ InQueue(c)
                         /\ \A d \in Coros : InQueue(d)' <=> InQueue(d) /\ d # c
  BY <1>1, <1>2, PoppedQueue
<1>4. c \notin parked /\ frame[c] = "suspended"
  BY <1>3 DEF PoolInv, OneHandle
<1>5. PoolState(c) = "ready" /\ PoolState(c)' = "active"
  BY <1>1, <1>3, <1>4 DEF PoolState
<1>6. \A d \in Coros : d # c => PoolState(d)' = PoolState(d)
  BY <1>1, <1>3 DEF PoolState
<1>7. Pool!Cardinality(Pool!Active) < Cardinality(Workers)
  BY <1>1, SlotFree, SameCardinality
<1>8. Pool!Start(c)
  BY <1>5, <1>6, <1>7, PoolMove DEF Pool!Start
<1>9. QED
  BY <1>8

(* A body suspends: in an awaitable, or back to the queue.                 *)
LEMMA SuspendMoves ==
  ASSUME PoolInv, NEW w \in Workers, Park(w) \/ Reschedule(w)
  PROVE  \E c \in Coros : Pool!Sleep(c) \/ Pool!Reschedule(c)
<1>0. pc[w] = "run"
  BY DEF Park, Reschedule
<1>1. PICK c \in Coros : /\ c = task[w] /\ ~InQueue(c) /\ c \notin parked
                         /\ PoolState(c) = "active"
  BY <1>0, ExecutingActive
<1>2. frame' = [frame EXCEPT ![c] = "suspended"]
  BY <1>1 DEF Park, Reschedule
<1>3. frame \in [Coros -> FrameStates] /\ queue \in Seq(Coros)
  BY DEF PoolInv, TypeInv, TypeOK
<1>4. CASE Park(w)
  <2>1. parked' = parked \cup {c} /\ queue' = queue
    BY <1>1, <1>4 DEF Park
  <2>2. PoolState(c)' = "asleep"
    BY <1>2, <1>1, <1>3, <2>1, SMTT(20) DEF PoolState
  <2>3. \A d \in Coros : d # c => PoolState(d)' = PoolState(d)
    BY <1>2, <1>1, <1>3, <2>1 DEF PoolState, InQueue
  <2>4. Pool!Sleep(c)
    BY <1>1, <2>2, <2>3, PoolMove DEF Pool!Sleep
  <2>5. QED
    BY <1>1, <2>4, SMTT(20)
<1>5. CASE Reschedule(w)
  <2>1. parked' = parked /\ queue' = Append(queue, c)
    BY <1>1, <1>5 DEF Reschedule, Enqueue
  <2>2. \A d \in Coros : InQueue(d)' <=> InQueue(d) \/ d = c
    BY <1>1, <1>3, <2>1, PushedQueue
  <2>3. PoolState(c)' = "ready"
    BY <1>2, <1>1, <1>3, <2>1, <2>2 DEF PoolState
  <2>4. \A d \in Coros : d # c => PoolState(d)' = PoolState(d)
    BY <1>2, <1>1, <1>3, <2>1, <2>2 DEF PoolState
  <2>5. Pool!Reschedule(c)
    BY <1>1, <2>3, <2>4, PoolMove DEF Pool!Reschedule
  <2>6. QED
    BY <1>1, <2>5, SMTT(20)
<1>6. QED
  BY <1>4, <1>5

(* A body ends.                                                            *)
LEMMA FinishMoves ==
  ASSUME PoolInv, NEW w \in Workers, Finish(w)
  PROVE  \E c \in Coros : Pool!Finish(c)
<1>0. pc[w] = "run"
  BY DEF Finish
<1>1. PICK c \in Coros : c = task[w] /\ PoolState(c) = "active"
  BY <1>0, ExecutingActive
<1>2. frame' = [frame EXCEPT ![c] = "final"] /\ queue' = queue /\ parked' = parked
  BY <1>1 DEF Finish
<1>3. frame \in [Coros -> FrameStates]
  BY DEF PoolInv, TypeInv, TypeOK
<1>4. PoolState(c)' = "done"
  BY <1>2, <1>1, <1>3, SMTT(20) DEF PoolState
<1>5. \A d \in Coros : d # c => PoolState(d)' = PoolState(d)
  BY <1>2, <1>1, <1>3 DEF PoolState, InQueue
<1>6. Pool!Finish(c)
  BY <1>1, <1>4, <1>5, PoolMove DEF Pool!Finish
<1>7. QED
  BY <1>1, <1>6

(* ~Task() gives the place of a finished coroutine back. A bad destroy()   *)
(* is the last step there is and changes nothing the pool sees.            *)
LEMMA DestroyMoves ==
  ASSUME PoolInv, NEW w \in Workers, Destroy(w)
  PROVE  pool' = pool \/ \E c \in Coros : Pool!Free(c)
<1>1. pc[w] = "drop" /\ task[w] \in Coros /\ queue' = queue /\ parked' = parked
  BY DEF Destroy, PoolInv, TypeInv, HoldsTask
<1>2. PICK c \in Coros : c = task[w]
  BY <1>1
<1>3. CASE frame[c] # "final"
  <2>1. frame' = frame
    BY <1>2, <1>3 DEF Destroy
  <2> QED
    BY <1>1, <2>1, PoolUntouched
<1>4. CASE frame[c] = "final"
  <2>1. frame' = [frame EXCEPT ![c] = "freed"]
    BY <1>2, <1>4 DEF Destroy
  <2>2. frame \in [Coros -> FrameStates]
    BY DEF PoolInv, TypeInv, TypeOK
  <2>3. PoolState(c) = "done" /\ PoolState(c)' = "new"
    BY <1>4, <2>1, <2>2 DEF PoolState
  <2>4. \A d \in Coros : d # c => PoolState(d)' = PoolState(d)
    BY <1>1, <2>1, <2>2 DEF PoolState, InQueue
  <2>5. Pool!Free(c)
    BY <2>3, <2>4, PoolMove DEF Pool!Free
  <2> QED
    BY <2>5
<1> QED
  BY <1>3, <1>4

-----------------------------------------------------------------------------
(* The actions the pool does not see.                                      *)

(* resume() makes a popped coroutine run: it was active before.            *)
LEMMA ResumeStutters ==
  ASSUME PoolInv, NEW w \in Workers, Resume(w)
  PROVE  pool' = pool
<1>1. pc[w] = "picked"
  BY SMTT(20) DEF Resume
<1>2. PICK c \in Coros : /\ c = task[w] /\ ~InQueue(c) /\ c \notin parked
                         /\ frame[c] \in {"suspended", "running"}
  BY <1>1, ExecutingActive
<1>3. frame' = [frame EXCEPT ![c] = "running"] /\ queue' = queue /\ parked' = parked
  BY <1>2 DEF Resume
<1>4. frame \in [Coros -> FrameStates]
  BY DEF PoolInv, TypeInv, TypeOK
<1>5. \A d \in Coros : PoolState(d)' = PoolState(d)
  BY <1>2, <1>3, <1>4 DEF PoolState, InQueue
<1>6. QED
  BY <1>5, PoolStutter, SMTT(20)

-----------------------------------------------------------------------------
(* The initial states are initial states of the pool.                      *)
LEMMA PoolInit == Init => Pool!Init
<1> SUFFICES ASSUME Init PROVE Pool!Init
  OBVIOUS
<1>1. \A c \in Coros : PoolState(c) = "new"
  BY DEF Init, PoolState
<1> HIDE DEF PoolState
<1>2. QED
  BY <1>1 DEF Pool!Init, pool

(* Every step of the executor is a step of the pool or a stutter.          *)
LEMMA PoolStep == PoolInv /\ [Next]_vars => [Pool!Next]_pool
<1> SUFFICES ASSUME PoolInv, [Next]_vars PROVE Pool!Next \/ pool' = pool
  OBVIOUS
<1>1. CASE UNCHANGED vars
  BY <1>1, PoolUntouched DEF vars
<1>2. ASSUME NEW t \in Threads, NEW c \in Coros, SpawnNew(t, c) \/ SpawnParked(t, c)
      PROVE  Pool!Next
  BY <1>2, SpawnNewMoves, SpawnParkedMoves DEF Pool!Next
<1>3. ASSUME NEW t \in Threads, NotifyOne(t) PROVE pool' = pool
  BY <1>3, PoolUntouched DEF NotifyOne
<1>4. CASE SetDone \/ NotifyAll \/ Join \/ Terminated
  BY <1>4, PoolUntouched DEF SetDone, NotifyAll, Join, Terminated, vars
<1>5. ASSUME NEW w \in Workers,
             Sleep(w) \/ Exit(w) \/ SpuriousWake(w) \/ Leak(w) \/ Own(w)
      PROVE  pool' = pool
  BY <1>5, PoolUntouched, Zenon DEF Sleep, Exit, SpuriousWake, Leak, Own
<1>6. ASSUME NEW w \in Workers, Resume(w) \/ Destroy(w)
      PROVE  Pool!Next \/ pool' = pool
  BY <1>6, ResumeStutters, DestroyMoves DEF Pool!Next
<1>7. ASSUME NEW w \in Workers, Pop(w) \/ Park(w) \/ Reschedule(w) \/ Finish(w)
      PROVE  Pool!Next
  BY <1>7, PopMoves, SuspendMoves, FinishMoves DEF Pool!Next
<1>8. Main \in Threads /\ Workers \subseteq Threads
  BY DEF Threads
<1>9. QED
  BY <1>1, <1>2, <1>3, <1>4, <1>5, <1>6, <1>7, <1>8 DEF Next, WorkerStep, MainStep, FreeStep

(* The executor implements the pool: a coroutine is started once for each  *)
(* time it was spawned or woken, never while it runs or sleeps, never on   *)
(* more workers than there are, and not after it has finished: its place   *)
(* is free for a new one only once it is destroyed.                        *)
THEOREM ImplementsPoolSafety == Spec => PoolSafety
<1>1. Spec => []PoolInv
  BY TypeInit, TypeStep, HandleInit, HandleStep, ShutdownInit, AccountedStep, PTL
     DEF Spec, PoolInv
<1>2. QED
  BY <1>1, PoolInit, PoolStep, PTL DEF Spec, PoolSafety
=============================================================================
