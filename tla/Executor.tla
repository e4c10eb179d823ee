------------------------------ MODULE Executor ------------------------------
(***************************************************************************)
(* The thread pool of include/concurrency/executor.hpp together with the   *)
(* coroutine life cycle of include/concurrency/task.hpp.                   *)
(*                                                                         *)
(* Threads are the workers and Main, the thread that constructed the       *)
(* executor: besides the workers it is the only one on which spawn() finds *)
(* an executor, it runs the I/O event loop, and it runs the destructor.    *)
(* A critical section of _mutex is one step; everything the code does      *)
(* outside it (notify_one, resume, done, destroy) is a step of its own.    *)
(***************************************************************************)
EXTENDS Naturals, Sequences, FiniteSets

CONSTANTS Workers,      \* the threads in _threads
          Main,         \* the constructing thread
          Coros,        \* the addresses coroutine frames are allocated at
          None,         \* null handle
          MaxSuspends,  \* bound: how often the coroutines at one address suspend
          MaxReuses     \* bound: how often a freed address is allocated again

ASSUME ExecutorAssumption ==
  /\ IsFiniteSet(Workers) /\ Workers # {}
  /\ Main \notin Workers
  /\ None \notin Coros
  /\ MaxSuspends \in Nat /\ MaxReuses \in Nat

VARIABLES
  queue,      \* _queue
  is_done,    \* is_done
  pc,         \* where each thread is
  task,       \* each worker's local `Task task` (None: null handle)
  frame,      \* state of the coroutine frame at each address
  parked,     \* coroutines whose handle an awaitable keeps for later
  outcome,    \* "bad_destroy" once ~Task() met a coroutine that is not at its
              \* final suspend point: undefined, nothing is modelled after it
  suspends,   \* how often the coroutines at an address have suspended
  reuses      \* how often a freed address was allocated again

vars == <<queue, is_done, pc, task, frame, parked, outcome, suspends, reuses>>

Threads == Workers \cup {Main}

(* A worker: "take" is about to lock _mutex and evaluate the wait          *)
(* predicate, "wait" sleeps in _condvar, "picked" has popped a task, "run" *)
(* is inside handle_.resume(), "notify" and "resched" are between the push *)
(* and the notify_one() of a spawn, "check" is back from resume() and      *)
(* about to read done(), "drop" is about to run ~Task().                   *)
WorkerLocs == {"take", "wait", "picked", "run", "notify", "resched", "check",
               "drop", "exited"}

(* Main: "main" is alive, "closing" has set is_done in ~Executor().        *)
MainLocs == {"main", "notify", "closing", "joining", "joined"}

(* "suspended": at the initial suspend or at a co_await; "final": at the   *)
(* final suspend point, where done() is true; "freed": destroyed, and the  *)
(* allocator may give the address to the next coroutine.                   *)
FrameStates == {"none", "suspended", "running", "final", "freed"}

Waiting   == {w \in Workers : pc[w] = "wait"}
Taking    == {w \in Workers : pc[w] = "take"}
Notifying == {t \in Threads : pc[t] \in {"notify", "resched"}}

InQueue(c) == \E i \in 1..Len(queue) : queue[i] = c

(* The coroutine a worker executes: popped and not yet back from resume(). *)
Executes(w, c) == task[w] = c /\ pc[w] \in {"picked", "run", "notify"}

Init ==
  /\ queue = <<>>
  /\ is_done = FALSE
  /\ pc = [t \in Threads |-> IF t = Main THEN "main" ELSE "take"]
  /\ task = [w \in Workers |-> None]
  /\ frame = [c \in Coros |-> "none"]
  /\ parked = {}
  /\ outcome = "ok"
  /\ suspends = [c \in Coros |-> 0]
  /\ reuses = 0

Goto(t, loc) == pc' = [pc EXCEPT ![t] = loc]

-----------------------------------------------------------------------------
(* spawn(): by the event loop on Main or by a coroutine body on a worker.  *)

(* The part of Executor::spawn up to the end of the critical section. A    *)
(* handle that gets here is never done, so the early return is not taken:  *)
(* see OneHandle. Correlation ids only reach the log and are left out.     *)
Enqueue(t, c, loc) ==
  /\ queue' = Append(queue, c)
  /\ Goto(t, loc)

MayCall(t) == pc[t] = IF t = Main THEN "main" ELSE "run"

(* A coroutine is created, stops at its initial suspend, and is spawned.   *)
(* Its frame is new memory or memory a destroyed coroutine gave back.      *)
SpawnNew(t, c) ==
  /\ MayCall(t)
  /\ \/ frame[c] = "none" /\ UNCHANGED reuses
     \/ frame[c] = "freed" /\ reuses < MaxReuses /\ reuses' = reuses + 1
  /\ frame' = [frame EXCEPT ![c] = "suspended"]
  /\ Enqueue(t, c, "notify")
  /\ UNCHANGED <<is_done, task, parked, outcome, suspends>>

(* Mutant: the awaitable keeps the handle it handed out. *)
SpawnParked_KeepsHandle(t, c) ==
  /\ MayCall(t)
  /\ c \in parked
  /\ Enqueue(t, c, "notify")
  /\ UNCHANGED <<is_done, task, frame, parked, outcome, suspends, reuses>>

(* A Notify or a FutureHandle hands a kept handle back to spawn().         *)
SpawnParked(t, c) ==
  /\ MayCall(t)
  /\ c \in parked
  /\ parked' = parked \ {c}
  /\ Enqueue(t, c, "notify")
  /\ UNCHANGED <<is_done, task, frame, outcome, suspends, reuses>>

AfterNotify(t) ==
  IF pc[t] = "resched" THEN "check" ELSE IF t = Main THEN "main" ELSE "run"

(* Mutant: notify_one() is forgotten. *)
NotifyOne_Forgotten(t) ==
  /\ t \in Notifying
  /\ Goto(t, AfterNotify(t))
  /\ UNCHANGED <<queue, is_done, task, frame, parked, outcome, suspends, reuses>>

(* _condvar.notify_one(), after _mutex was released: one sleeper, if any.  *)
NotifyOne(t) ==
  /\ t \in Notifying
  /\ \/ /\ Waiting = {}
        /\ Goto(t, AfterNotify(t))
     \/ \E w \in Waiting :
          pc' = [pc EXCEPT ![t] = AfterNotify(t), ![w] = "take"]
  /\ UNCHANGED <<queue, is_done, task, frame, parked, outcome, suspends, reuses>>

-----------------------------------------------------------------------------
(* worker_thread().                                                        *)

(* The critical section of the loop: sleep, leave the loop, or pop.        *)
Sleep(w) ==
  /\ pc[w] = "take"
  /\ ~is_done /\ queue = <<>>
  /\ Goto(w, "wait")
  /\ UNCHANGED <<queue, is_done, task, frame, parked, outcome, suspends, reuses>>

(* Mutant: a worker leaves as soon as is_done is set. *)
Exit_Undrained(w) ==
  /\ pc[w] = "take"
  /\ is_done
  /\ Goto(w, "exited")
  /\ UNCHANGED <<queue, is_done, task, frame, parked, outcome, suspends, reuses>>

Exit(w) ==
  /\ pc[w] = "take"
  /\ is_done /\ queue = <<>>
  /\ Goto(w, "exited")
  /\ UNCHANGED <<queue, is_done, task, frame, parked, outcome, suspends, reuses>>

Pop(w) ==
  /\ pc[w] = "take"
  /\ queue # <<>>
  /\ task' = [task EXCEPT ![w] = Head(queue)]
  /\ queue' = Tail(queue)
  /\ Goto(w, "picked")
  /\ UNCHANGED <<is_done, frame, parked, outcome, suspends, reuses>>

(* A condition variable may wake a thread nobody notified.                 *)
SpuriousWake(w) ==
  /\ pc[w] = "wait"
  /\ Goto(w, "take")
  /\ UNCHANGED <<queue, is_done, task, frame, parked, outcome, suspends, reuses>>

(* task.resume(): a popped coroutine is not done.                          *)
Resume(w) ==
  /\ pc[w] = "picked"
  /\ frame' = [frame EXCEPT ![task[w]] = "running"]
  /\ Goto(w, "run")
  /\ UNCHANGED <<queue, is_done, task, parked, outcome, suspends, reuses>>

(* The body awaits a Notify or a Future: await_suspend stores the handle.  *)
(* From here on another thread may resume the coroutine.                   *)
Park(w) ==
  LET c == task[w] IN
  /\ pc[w] = "run"
  /\ suspends[c] < MaxSuspends
  /\ suspends' = [suspends EXCEPT ![c] = @ + 1]
  /\ frame' = [frame EXCEPT ![c] = "suspended"]
  /\ parked' = parked \cup {c}
  /\ Goto(w, "check")
  /\ UNCHANGED <<queue, is_done, task, outcome, reuses>>

(* co_await suspend(): await_suspend spawns the coroutine's own handle.    *)
Reschedule(w) ==
  LET c == task[w] IN
  /\ pc[w] = "run"
  /\ suspends[c] < MaxSuspends
  /\ suspends' = [suspends EXCEPT ![c] = @ + 1]
  /\ frame' = [frame EXCEPT ![c] = "suspended"]
  /\ Enqueue(w, c, "resched")
  /\ UNCHANGED <<is_done, task, parked, outcome, reuses>>

(* co_return: the coroutine stops at its final suspend point.              *)
Finish(w) ==
  /\ pc[w] = "run"
  /\ frame' = [frame EXCEPT ![task[w]] = "final"]
  /\ Goto(w, "check")
  /\ UNCHANGED <<queue, is_done, task, parked, outcome, suspends, reuses>>

(* Mutant: the task is leaked whatever done() says. *)
DoneReads_Never(c) == {FALSE}

(* What handle_.done() may return; a freed frame holds anything.           *)
DoneReads(c) == IF frame[c] = "freed" THEN BOOLEAN ELSE {frame[c] = "final"}

(* if (!task.done()) task.leak();                                          *)
Leak(w) ==
  /\ pc[w] = "check"
  /\ FALSE \in DoneReads(task[w])
  /\ task' = [task EXCEPT ![w] = None]
  /\ Goto(w, "take")
  /\ UNCHANGED <<queue, is_done, frame, parked, outcome, suspends, reuses>>

Own(w) ==
  /\ pc[w] = "check"
  /\ TRUE \in DoneReads(task[w])
  /\ Goto(w, "drop")
  /\ UNCHANGED <<queue, is_done, task, frame, parked, outcome, suspends, reuses>>

(* The end of the loop body: ~Task() destroys a handle that was not        *)
(* leaked. Since done() was read another worker may have destroyed the     *)
(* same coroutine, and a new one may live at its address.                  *)
Destroy(w) ==
  LET c == task[w] IN
  /\ pc[w] = "drop"
  /\ \/ /\ frame[c] = "final"
        /\ frame' = [frame EXCEPT ![c] = "freed"]
        /\ UNCHANGED outcome
     \/ /\ frame[c] # "final"
        /\ outcome' = "bad_destroy"
        /\ UNCHANGED frame
  /\ task' = [task EXCEPT ![w] = None]
  /\ Goto(w, "take")
  /\ UNCHANGED <<queue, is_done, parked, suspends, reuses>>

-----------------------------------------------------------------------------
(* ~Executor().                                                            *)

SetDone ==
  /\ pc[Main] = "main"
  /\ is_done' = TRUE
  /\ Goto(Main, "closing")
  /\ UNCHANGED <<queue, task, frame, parked, outcome, suspends, reuses>>

(* Mutant: notify_one() instead of notify_all(). *)
NotifyAll_One ==
  /\ pc[Main] = "closing"
  /\ \/ Waiting = {} /\ Goto(Main, "joining")
     \/ \E w \in Waiting : pc' = [pc EXCEPT ![Main] = "joining", ![w] = "take"]
  /\ UNCHANGED <<queue, is_done, task, frame, parked, outcome, suspends, reuses>>

NotifyAll ==
  /\ pc[Main] = "closing"
  /\ pc' = [t \in Threads |-> IF t = Main THEN "joining"
                              ELSE IF pc[t] = "wait" THEN "take" ELSE pc[t]]
  /\ UNCHANGED <<queue, is_done, task, frame, parked, outcome, suspends, reuses>>

Join ==
  /\ pc[Main] = "joining"
  /\ \A w \in Workers : pc[w] = "exited"
  /\ Goto(Main, "joined")
  /\ UNCHANGED <<queue, is_done, task, frame, parked, outcome, suspends, reuses>>

(* After the destructor, or a bad destroy(), nothing happens.              *)
Terminated == (pc[Main] = "joined" \/ outcome # "ok") /\ UNCHANGED vars

-----------------------------------------------------------------------------
WorkerStep(w) ==
  /\ outcome = "ok"
  /\ \/ Sleep(w) \/ Exit(w) \/ Pop(w) \/ Resume(w) \/ Leak(w) \/ Own(w)
     \/ Destroy(w) \/ NotifyOne(w)
     \/ Park(w) \/ Reschedule(w) \/ Finish(w)
     \/ \E c \in Coros : SpawnNew(w, c) \/ SpawnParked(w, c)

MainStep == outcome = "ok" /\ (NotifyOne(Main) \/ NotifyAll \/ Join)

(* What may happen and need not.                                           *)
FreeStep ==
  /\ outcome = "ok"
  /\ \/ \E w \in Workers : SpuriousWake(w)
     \/ \E c \in Coros : SpawnNew(Main, c) \/ SpawnParked(Main, c)
     \/ SetDone

Next ==
  \/ \E w \in Workers : WorkerStep(w)
  \/ MainStep
  \/ FreeStep
  \/ Terminated

Spec == Init /\ [][Next]_vars

(* The operating system runs every thread, and a coroutine body reaches    *)
(* its next suspension or its end. Main need not spawn, wake or destroy.   *)
Fairness == /\ \A w \in Workers : WF_vars(WorkerStep(w))
            /\ WF_vars(MainStep)

FairSpec == Spec /\ Fairness

-----------------------------------------------------------------------------
TypeOK ==
  /\ queue \in Seq(Coros)
  /\ is_done \in BOOLEAN
  /\ pc \in [Threads -> WorkerLocs \cup MainLocs]
  /\ \A w \in Workers : pc[w] \in WorkerLocs
  /\ pc[Main] \in MainLocs
  /\ task \in [Workers -> Coros \cup {None}]
  /\ frame \in [Coros -> FrameStates]
  /\ parked \subseteq Coros
  /\ outcome \in {"ok", "bad_destroy"}
  /\ suspends \in [Coros -> 0..MaxSuspends]
  /\ reuses \in 0..MaxReuses

(* The handle of a coroutine that still has work to do is in one place: a  *)
(* queue position, an executing worker or an awaitable. So no coroutine is *)
(* resumed twice or by two workers at a time, and spawn(), done() before   *)
(* resume() and resume() itself only ever meet a live, suspended frame.    *)
(* About Executor::spawn, worker_thread and Task::resume.                  *)
OneHandle ==
  /\ \A i, j \in 1..Len(queue) : queue[i] = queue[j] => i = j
  /\ \A c \in Coros :
       /\ InQueue(c) => c \notin parked /\ \A w \in Workers : ~Executes(w, c)
       /\ c \in parked => \A w \in Workers : ~Executes(w, c)
       /\ \A v, w \in Workers : Executes(v, c) /\ Executes(w, c) => v = w
       /\ InQueue(c) \/ c \in parked => frame[c] = "suspended"
       /\ \A w \in Workers : Executes(w, c) =>
            frame[c] = IF pc[w] = "picked" THEN "suspended" ELSE "running"

(* No lost wakeup, in its strong form: while some worker sleeps, every     *)
(* queued task has a thread of its own on the way to it, either a worker   *)
(* about to inspect the queue or a spawner about to call notify_one(). The *)
(* notify_one() outside the lock in Executor::spawn does not break this.   *)
WorkConserving ==
  Waiting # {} => Len(queue) <= Cardinality(Taking) + Cardinality(Notifying)

(* A worker leaves its loop only when nothing is left, so after ~Executor  *)
(* has joined the threads no spawned task was dropped and none is still    *)
(* executing; what remains unfinished is parked in an awaitable.           *)
DrainedAtJoin ==
  pc[Main] = "joined" =>
    /\ queue = <<>>
    /\ \A c \in Coros : frame[c] \in {"suspended", "running"} => c \in parked

(* A coroutine that has finished is never lost: until its frame is freed,  *)
(* some worker is back from a resume() of it, still owns its handle and is *)
(* about to destroy it, however many workers hold the same handle by then. *)
(* About the done()/leak() decision of worker_thread, taken after another  *)
(* thread may have resumed the coroutine.                                  *)
FinishedIsOwned ==
  \A c \in Coros : frame[c] = "final" =>
    \E w \in Workers : task[w] = c /\ pc[w] \in {"check", "drop"}

(* Every task that gets into the queue is popped by a worker, also when    *)
(* the destructor is already running, unless a bad destroy() ends the      *)
(* program first. About spawn() and worker_thread.                         *)
QueuedIsPopped == \A c \in Coros : InQueue(c) ~> ~InQueue(c) \/ outcome # "ok"

(* ~Executor returns: every worker is woken, drains the queue and exits,   *)
(* unless a bad destroy() ends the program first.                          *)
ShutdownCompletes == is_done ~> pc[Main] = "joined" \/ outcome # "ok"

(* worker_thread's SAFETY comment: a coroutine that is done is owned by    *)
(* the worker that sees it done, so its ~Task() destroys that coroutine,   *)
(* once: never one that was destroyed, nor one living at its address.      *)
DestroyedOnce == outcome = "ok"

-----------------------------------------------------------------------------
(* The abstract pool this implements.                                      *)
PoolState(c) ==
  IF frame[c] \in {"none", "freed"} THEN "new"
  ELSE IF frame[c] = "final" THEN "done"
  ELSE IF c \in parked THEN "asleep"
  ELSE IF InQueue(c) THEN "ready" ELSE "active"

pool == [c \in Coros |-> PoolState(c)]

Pool == INSTANCE TaskPool WITH st <- pool, Slots <- Cardinality(Workers)

(* The executor implements the abstract pool: exactly-once execution of    *)
(* every activation, at most one coroutine per worker, and progress unless *)
(* a bad destroy() ends the program.                                       *)
ImplementsPool ==
  /\ Pool!Init
  /\ [][Pool!Next]_pool
  /\ <>(outcome # "ok") \/ Pool!Fairness
=============================================================================
