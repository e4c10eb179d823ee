------------------------------- MODULE Notify -------------------------------
(***************************************************************************)
(* The one-shot event of include/concurrency/notify.hpp: coroutines that   *)
(* co_await it link an Awaiter, kept in their own frame, into a lock-free  *)
(* list; notify_all() takes the whole list and spawns every continuation.  *)
(* Every access to an atomic or to a shared pointer is a step of its own.  *)
(***************************************************************************)
EXTENDS Naturals

CONSTANTS Awaiters,    \* one co_await each, named by the address of its Awaiter
          Notifiers,   \* threads that call notify_all(), once each
          Null,        \* nullptr
          Wild         \* a pointer read from memory that is no longer an Awaiter

ASSUME NotifyAssumption ==
  Null \notin Awaiters /\ Wild \notin Awaiters /\ Null # Wild

VARIABLES
  fired,      \* fired_
  head,       \* head_
  next,       \* Awaiter::next
  old_head,   \* the local of push_awaiter_
  apc,        \* where each awaiting coroutine is
  npc,        \* where each notifier is
  current,    \* the local of notify_all
  spawned,    \* how often each continuation was handed to spawn()
  returned    \* has the thread in wait_blocking() returned

vars == <<fired, head, next, old_head, apc, npc, current, spawned, returned>>

(* A coroutine: "start" is about to run await_ready(), "load", "link" and  *)
(* "cas" are the steps of push_awaiter_, "parked" is suspended, "past" has *)
(* left the co_await, so that its Awaiter is gone.                         *)
AwaiterLocs == {"start", "load", "link", "cas", "parked", "past"}

(* A notifier: "advance" is between spawn() and the read of next; "wild"   *)
(* has followed a pointer out of a dead Awaiter and may do anything.       *)
NotifierLocs == {"store", "exchange", "loop", "advance", "done", "wild"}

Init ==
  /\ fired = FALSE
  /\ head = Null
  /\ next = [a \in Awaiters |-> Null]
  /\ old_head = [a \in Awaiters |-> Null]
  /\ apc = [a \in Awaiters |-> "start"]
  /\ npc = [n \in Notifiers |-> "store"]
  /\ current = [n \in Notifiers |-> Null]
  /\ spawned = [a \in Awaiters |-> 0]
  /\ returned = FALSE

AwaiterAt(a, from, to) == apc[a] = from /\ apc' = [apc EXCEPT ![a] = to]
NotifierAt(n, from, to) == npc[n] = from /\ npc' = [npc EXCEPT ![n] = to]

-----------------------------------------------------------------------------
(* co_await notify.                                                        *)

await_ready(a) ==
  /\ AwaiterAt(a, "start", IF fired THEN "past" ELSE "load")
  /\ UNCHANGED <<fired, head, next, old_head, npc, current, spawned, returned>>

LoadHead(a) ==
  /\ AwaiterAt(a, "load", "link")
  /\ old_head' = [old_head EXCEPT ![a] = head]
  /\ UNCHANGED <<fired, head, next, npc, current, spawned, returned>>

LinkNext(a) ==
  /\ AwaiterAt(a, "link", "cas")
  /\ next' = [next EXCEPT ![a] = old_head[a]]
  /\ UNCHANGED <<fired, head, old_head, npc, current, spawned, returned>>

(* Mutant: a plain store in place of the compare-and-exchange.             *)
Push_Store(a) ==
  /\ AwaiterAt(a, "cas", "parked")
  /\ head' = a
  /\ UNCHANGED <<fired, next, old_head, npc, current, spawned, returned>>

(* compare_exchange_weak succeeds: the coroutine is on the list, suspended.*)
Push(a) ==
  /\ head = old_head[a]
  /\ AwaiterAt(a, "cas", "parked")
  /\ head' = a
  /\ UNCHANGED <<fired, next, old_head, npc, current, spawned, returned>>

(* It fails, which the weak form may also do when the values are equal.    *)
PushFails(a) ==
  /\ AwaiterAt(a, "cas", "link")
  /\ old_head' = [old_head EXCEPT ![a] = head]
  /\ UNCHANGED <<fired, head, next, npc, current, spawned, returned>>

(* An executor thread resumes a spawned continuation.                      *)
Resumed(a) ==
  /\ spawned[a] > 0
  /\ AwaiterAt(a, "parked", "past")
  /\ UNCHANGED <<fired, head, next, old_head, npc, current, spawned, returned>>

-----------------------------------------------------------------------------
(* notify_all() and wait_blocking().                                       *)

StoreFired(n) ==
  /\ NotifierAt(n, "store", "exchange")
  /\ fired' = TRUE
  /\ UNCHANGED <<head, next, old_head, apc, current, spawned, returned>>

(* Mutant: the list is read but left in place.                             *)
ExchangeHead_Load(n) ==
  /\ NotifierAt(n, "exchange", "loop")
  /\ current' = [current EXCEPT ![n] = head]
  /\ UNCHANGED <<fired, head, next, old_head, apc, spawned, returned>>

ExchangeHead(n) ==
  /\ NotifierAt(n, "exchange", "loop")
  /\ current' = [current EXCEPT ![n] = head]
  /\ head' = Null
  /\ UNCHANGED <<fired, next, old_head, apc, spawned, returned>>

(* spawn(current->continuation).                                           *)
SpawnCurrent(n) ==
  /\ current[n] # Null
  /\ NotifierAt(n, "loop", "advance")
  /\ spawned' = [spawned EXCEPT ![current[n]] = @ + 1]
  /\ UNCHANGED <<fired, head, next, old_head, apc, current, returned>>

(* What current->next may read: once the coroutine has left its co_await   *)
(* the Awaiter's memory is reused or freed.                                *)
NextReads(a) == IF apc[a] = "past" THEN {next[a], Wild} ELSE {next[a]}

(* Mutant: the loop stops after the first awaiter.                         *)
Advance_First(n) ==
  /\ current' = [current EXCEPT ![n] = Null]
  /\ NotifierAt(n, "advance", "loop")
  /\ UNCHANGED <<fired, head, next, old_head, apc, spawned, returned>>

Advance(n) ==
  /\ npc[n] = "advance"
  /\ \E p \in NextReads(current[n]) :
       /\ current' = [current EXCEPT ![n] = p]
       /\ NotifierAt(n, "advance", IF p = Wild THEN "wild" ELSE "loop")
  /\ UNCHANGED <<fired, head, next, old_head, apc, spawned, returned>>

NotifyReturns(n) ==
  /\ current[n] = Null
  /\ NotifierAt(n, "loop", "done")
  /\ UNCHANGED <<fired, head, next, old_head, apc, current, spawned, returned>>

wait_blocking ==
  /\ fired /\ ~returned
  /\ returned' = TRUE
  /\ UNCHANGED <<fired, head, next, old_head, apc, npc, current, spawned>>

-----------------------------------------------------------------------------
AwaiterStep(a) ==
  \/ await_ready(a) \/ LoadHead(a) \/ LinkNext(a) \/ Push(a) \/ PushFails(a)
  \/ Resumed(a)

NotifierStep(n) ==
  \/ StoreFired(n) \/ ExchangeHead(n) \/ SpawnCurrent(n) \/ Advance(n)
  \/ NotifyReturns(n)

Next ==
  \/ \E a \in Awaiters : AwaiterStep(a)
  \/ \E n \in Notifiers : NotifierStep(n)
  \/ wait_blocking

Spec == Init /\ [][Next]_vars

(* Threads run; a compare-and-exchange does not fail for ever; an executor *)
(* thread resumes what was spawned (QueuedIsPopped of Executor).           *)
Fairness ==
  /\ \A a \in Awaiters : WF_vars(AwaiterStep(a)) /\ SF_vars(Push(a))
  /\ \A n \in Notifiers : WF_vars(NotifierStep(n))
  /\ WF_vars(wait_blocking)

FairSpec == Spec /\ Fairness

-----------------------------------------------------------------------------
(* S holds, with an awaiter, the one behind it.                            *)
Closed(S) == \A a \in S : next[a] \in Awaiters => next[a] \in S

(* The awaiters on the list that starts at p: the least closed set with p. *)
List(p) == {a \in Awaiters : \A S \in SUBSET Awaiters :
              (p \in Awaiters => p \in S) /\ Closed(S) => a \in S}

(* The awaiters notifier n has taken and not yet spawned.                  *)
Taken(n) == CASE npc[n] = "loop"    -> List(current[n])
              [] npc[n] = "advance" -> List(current[n]) \ {current[n]}
              [] OTHER              -> {}

Unspawned == {a \in Awaiters : apc[a] = "parked" /\ spawned[a] = 0}

TypeOK ==
  /\ fired \in BOOLEAN
  /\ head \in Awaiters \cup {Null}
  /\ next \in [Awaiters -> Awaiters \cup {Null}]
  /\ old_head \in [Awaiters -> Awaiters \cup {Null}]
  /\ apc \in [Awaiters -> AwaiterLocs]
  /\ npc \in [Notifiers -> NotifierLocs]
  /\ current \in [Notifiers -> Awaiters \cup {Null, Wild}]
  /\ spawned \in [Awaiters -> Nat]
  /\ returned \in BOOLEAN

(* Every suspended awaiter that was not spawned yet is on exactly one      *)
(* list, the Notify's or one that a notify_all() is walking, and these     *)
(* hold nothing else; only a notifier that followed a dead Awaiter loses   *)
(* any. About the lock-free push_awaiter_ racing head_.exchange.           *)
ListsPartition ==
  /\ \A n \in Notifiers : Taken(n) \subseteq Unspawned \ List(head)
  /\ \A m, n \in Notifiers : m # n => Taken(m) \cap Taken(n) = {}
  /\ List(head) \subseteq Unspawned
  /\ (\A n \in Notifiers : npc[n] # "wild")
       => Unspawned = List(head) \cup UNION {Taken(n) : n \in Notifiers}

waiting == List(head)
batch == [n \in Notifiers |-> Taken(n)]
woken == {a \in Awaiters : spawned[a] > 0}
Set == INSTANCE WaitList

(* The lock-free list is a set with atomic operations: push_awaiter_ adds  *)
(* one coroutine in the step of its compare-and-exchange, head_.exchange   *)
(* takes them all, and the walk along next spawns each of these once.      *)
ImplementsWaitList == Set!Spec

(* notify_all() spawns a continuation at most once, and only when its      *)
(* coroutine is suspended: two notify_all() calls and late pushes never    *)
(* put one coroutine into the executor twice.                              *)
SpawnedOnce ==
  [][\A a \in Awaiters : spawned'[a] # spawned[a] =>
       apc[a] = "parked" /\ spawned[a] = 0 /\ spawned'[a] = 1]_vars

(* An awaiter on the list before the last notify_all() exchanges head_ is  *)
(* resumed, unless a notifier followed a dead Awaiter.                     *)
EarlyAwaiterResumes ==
  \A a \in Awaiters :
    (apc[a] = "parked" /\ \E n \in Notifiers : npc[n] \in {"store", "exchange"})
      ~> (apc[a] = "past" \/ \E n \in Notifiers : npc[n] = "wild")

(* notify_all() unblocks every coroutine that awaits: nobody waits for     *)
(* ever on an event that has fired. What the test NotifyAllUnblocksWorkers *)
(* is named for and asserts.                                               *)
NotifyAllUnblocks == \A a \in Awaiters : fired ~> apc[a] = "past"
=============================================================================
