------------------------------- MODULE Future -------------------------------
(***************************************************************************)
(* One Future/FutureHandle pair of include/concurrency/future.hpp. A       *)
(* coroutine, the consumer, awaits the Future or drops it; producers call  *)
(* set_value() on copies of the handle, from other threads. The consumer's *)
(* critical section is one step; set_value() is taken apart, because       *)
(* await_ready() and await_resume() read the shared state without _mutex.  *)
(***************************************************************************)
EXTENDS Naturals, FiniteSets

CONSTANTS Consumer, Producers, Nobody

ASSUME FutureAssumption ==
  /\ Consumer \notin Producers
  /\ Nobody \notin Producers \cup {Consumer}

VARIABLES
  is_ready,       \* FutureState::is_ready
  continuation,   \* is FutureState::continuation set
  value,          \* FutureState::_value: "uninit", "live" or "destroyed"
  mutex,          \* who holds FutureState::_mutex
  owners,         \* who holds a shared_ptr to the FutureState
  cpc,            \* where the consumer is
  ppc,            \* where each producer is
  spawned,        \* how often the consumer was handed to spawn()
  aborted,        \* an ASSERT failed
  misdestroyed    \* ~FutureState() destroyed a value that was not alive

shared == <<is_ready, continuation, value>>
faults == <<aborted, misdestroyed>>
vars == <<shared, mutex, owners, cpc, ppc, spawned, faults>>

(* "made" holds a fresh Future; "suspend" was told await_ready() = false.  *)
ConsumerLocs == {"made", "suspend", "parked", "resume", "drop", "gone"}

ProducerLocs == {"idle", "lock", "cas", "construct", "spawn", "unlock", "release",
                 "done"}

Init ==
  /\ is_ready = FALSE
  /\ continuation = FALSE
  /\ value = "uninit"
  /\ mutex = Nobody
  /\ owners = {Consumer}
  /\ cpc = "made"
  /\ ppc = [p \in Producers |-> "idle"]
  /\ spawned = 0
  /\ aborted = FALSE
  /\ misdestroyed = FALSE

ConsumerAt(from, to) == ~aborted /\ cpc = from /\ cpc' = to
ProducerAt(p, from, to) ==
  ~aborted /\ ppc[p] = from /\ ppc' = [ppc EXCEPT ![p] = to]

(* A shared_ptr goes away; the last one runs ~FutureState().               *)
Release(who) ==
  /\ owners' = owners \ {who}
  /\ IF owners = {who} /\ ~is_ready
     THEN value' = "destroyed" /\ misdestroyed' = (misdestroyed \/ value # "live")
     ELSE UNCHANGED <<value, misdestroyed>>

-----------------------------------------------------------------------------
(* The consumer.                                                           *)

await_ready ==
  /\ ConsumerAt("made", IF is_ready THEN "resume" ELSE "suspend")
  /\ UNCHANGED <<shared, mutex, owners, ppc, spawned, faults>>

await_suspend ==
  /\ mutex = Nobody
  /\ ConsumerAt("suspend", IF is_ready THEN "resume" ELSE "parked")
  /\ continuation' = (continuation \/ ~is_ready)
  /\ UNCHANGED <<is_ready, value, mutex, owners, ppc, spawned, faults>>

(* An executor thread resumes the spawned continuation.                    *)
Resumed ==
  /\ spawned > 0
  /\ ConsumerAt("parked", "resume")
  /\ UNCHANGED <<shared, mutex, owners, ppc, spawned, faults>>

await_resume ==
  /\ IF is_ready
     THEN ConsumerAt("resume", "drop") /\ value' = "destroyed" /\ UNCHANGED aborted
     ELSE ConsumerAt("resume", "resume") /\ aborted' = TRUE /\ UNCHANGED value
  /\ UNCHANGED <<is_ready, continuation, mutex, owners, ppc, spawned, misdestroyed>>

(* The Future goes away after the co_await, or without one.                *)
DropFuture ==
  /\ \/ ConsumerAt("drop", "gone") \/ ConsumerAt("made", "gone")
  /\ Release(Consumer)
  /\ UNCHANGED <<is_ready, continuation, mutex, ppc, spawned, aborted>>

-----------------------------------------------------------------------------
(* FutureHandle::set_value.                                                *)

(* _state.lock(): fails once the FutureState is gone.                      *)
LockState(p) ==
  /\ IF owners = {}
     THEN ProducerAt(p, "idle", "done") /\ UNCHANGED owners
     ELSE ProducerAt(p, "idle", "lock") /\ owners' = owners \cup {p}
  /\ UNCHANGED <<shared, mutex, cpc, spawned, faults>>

(* Mutant: the value is kept for a future that is not awaited yet.         *)
CheckAwaited_Never(p) ==
  /\ mutex = Nobody
  /\ ProducerAt(p, "lock", "cas")
  /\ mutex' = p
  /\ UNCHANGED <<shared, owners, cpc, spawned, faults>>

(* The lock_guard and the early return for a future that "was never        *)
(* awaited", which throws the value away.                                  *)
CheckAwaited(p) ==
  /\ mutex = Nobody
  /\ IF continuation
     THEN ProducerAt(p, "lock", "cas") /\ mutex' = p
     ELSE ProducerAt(p, "lock", "release") /\ UNCHANGED mutex
  /\ UNCHANGED <<shared, owners, cpc, spawned, faults>>

(* Mutant: a failed compare-and-exchange is ignored.                       *)
SetReady_Ignored(p) ==
  /\ ProducerAt(p, "cas", "construct")
  /\ is_ready' = TRUE
  /\ UNCHANGED <<continuation, value, mutex, owners, cpc, spawned, faults>>

SetReady(p) ==
  /\ IF is_ready
     THEN ProducerAt(p, "cas", "cas") /\ aborted' = TRUE
     ELSE ProducerAt(p, "cas", "construct") /\ UNCHANGED aborted
  /\ is_ready' = TRUE
  /\ UNCHANGED <<continuation, value, mutex, owners, cpc, spawned, misdestroyed>>

Construct(p) ==
  /\ ProducerAt(p, "construct", "spawn")
  /\ value' = "live"
  /\ UNCHANGED <<is_ready, continuation, mutex, owners, cpc, spawned, faults>>

(* Mutant: the shared_ptr is given up before the lock_guard.               *)
SpawnContinuation_Unguarded(p) ==
  /\ ProducerAt(p, "spawn", "release")
  /\ spawned' = spawned + 1
  /\ UNCHANGED <<shared, mutex, owners, cpc, faults>>

(* Mutant: the spawn is forgotten.                                         *)
SpawnContinuation_Forgotten(p) ==
  /\ ProducerAt(p, "spawn", "unlock")
  /\ UNCHANGED <<shared, mutex, owners, cpc, spawned, faults>>

(* std::move of a coroutine handle copies it: continuation stays set.      *)
SpawnContinuation(p) ==
  /\ ProducerAt(p, "spawn", "unlock")
  /\ spawned' = spawned + 1
  /\ UNCHANGED <<shared, mutex, owners, cpc, faults>>

Unlock(p) ==
  /\ ProducerAt(p, "unlock", "release")
  /\ mutex' = Nobody
  /\ UNCHANGED <<shared, owners, cpc, spawned, faults>>

ReleaseState(p) ==
  /\ ProducerAt(p, "release", "done")
  /\ Release(p)
  /\ UNCHANGED <<is_ready, continuation, mutex, cpc, spawned, aborted>>

-----------------------------------------------------------------------------
ConsumerStep == await_ready \/ await_suspend \/ Resumed \/ await_resume \/ DropFuture

ProducerStep(p) ==
  \/ LockState(p) \/ CheckAwaited(p) \/ SetReady(p) \/ Construct(p)
  \/ SpawnContinuation(p) \/ Unlock(p) \/ ReleaseState(p)

Next == ConsumerStep \/ \E p \in Producers : ProducerStep(p)

Spec == Init /\ [][Next]_vars

(* Threads run, std::mutex is not held for ever against one of them, the   *)
(* executor resumes what was spawned, and the operation completes.         *)
Fairness == /\ WF_vars(ConsumerStep) /\ SF_vars(await_suspend)
            /\ \A p \in Producers : WF_vars(ProducerStep(p)) /\ SF_vars(CheckAwaited(p))

FairSpec == Spec /\ Fairness

-----------------------------------------------------------------------------
TypeOK ==
  /\ is_ready \in BOOLEAN /\ continuation \in BOOLEAN
  /\ value \in {"uninit", "live", "destroyed"}
  /\ mutex \in Producers \cup {Nobody}
  /\ owners \subseteq Producers \cup {Consumer}
  /\ cpc \in ConsumerLocs
  /\ ppc \in [Producers -> ProducerLocs]
  /\ spawned \in 0..1
  /\ aborted \in BOOLEAN /\ misdestroyed \in BOOLEAN

(* Whoever holds _mutex keeps the FutureState alive: the lock_guard of     *)
(* set_value() never unlocks a mutex the consumer's drop has freed.        *)
MutexOutlived == mutex # Nobody => mutex \in owners

(* await_resume() moves out a value set_value() has finished constructing, *)
(* although is_ready is set before the construction and await_ready() and  *)
(* await_resume() do not take _mutex.                                      *)
ReadsConstructed == [][cpc = "resume" /\ cpc' = "drop" => value = "live"]_vars

(* The continuation is spawned only while its coroutine is suspended, and  *)
(* only once, however many copies of the handle are set.                   *)
SpawnedSuspended ==
  [][spawned' # spawned => cpc = "parked" /\ spawned = 0]_vars

(* What has happened to the Future, seen from outside.                     *)
Phase == IF cpc \in {"made", "suspend"} THEN "fresh" ELSE
         IF cpc \in {"drop", "gone"}
         THEN IF spawned = 0 THEN "dropped" ELSE "taken"
         ELSE IF spawned = 0 THEN "waiting" ELSE "woken"

phase == [f \in {Consumer} |-> Phase]
Shot == INSTANCE OneShot WITH Futures <- {Consumer}

(* With any number of handles and in any order of their critical sections, *)
(* a Future is a one-shot cell: a set_value() before the await is lost,    *)
(* the first one after it wakes the consumer, which takes the value once.  *)
ImplementsOneShot == Shot!Spec

(* A set_value() whose check of the continuation comes after the consumer  *)
(* has suspended resumes it, unless a second set_value() aborts.           *)
SetAfterAwaitResumes ==
  (cpc = "parked" /\ \E p \in Producers : ppc[p] \in {"idle", "lock"})
    ~> (cpc = "gone" \/ aborted)

(* Every submit_*() schedules an operation "to be resolved some time in    *)
(* the future": a coroutine that awaits it is resumed once it completed.   *)
AwaitReturns == cpc = "suspend" ~> cpc = "gone"
=============================================================================
