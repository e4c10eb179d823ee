------------------------------ MODULE WaitList ------------------------------
(***************************************************************************)
(* What the lock-free list of a Notify promises: a set that coroutines put *)
(* themselves into in one step, that a notify_all() takes away whole in    *)
(* one step, and out of which it then spawns each coroutine once. A        *)
(* notify_all() that follows a dead Awaiter loses what it has taken.       *)
(***************************************************************************)
CONSTANTS Awaiters, Notifiers

VARIABLES waiting,   \* the coroutines on the Notify
          batch,     \* batch[n]: those n has taken and not spawned yet
          woken      \* those that were spawned

Init == waiting = {} /\ batch = [n \in Notifiers |-> {}] /\ woken = {}

Push(a) ==
  /\ a \notin waiting \cup woken /\ \A n \in Notifiers : a \notin batch[n]
  /\ waiting' = waiting \cup {a}
  /\ UNCHANGED <<batch, woken>>

TakeAll(n) ==
  /\ batch[n] = {}
  /\ batch' = [batch EXCEPT ![n] = waiting]
  /\ waiting' = {}
  /\ UNCHANGED woken

Spawn(n, a) ==
  /\ a \in batch[n] /\ a \notin woken
  /\ batch' = [batch EXCEPT ![n] = @ \ {a}]
  /\ woken' = woken \cup {a}
  /\ UNCHANGED waiting

GoAstray(n) == batch' = [batch EXCEPT ![n] = {}] /\ UNCHANGED <<waiting, woken>>

Next == \/ \E a \in Awaiters : Push(a)
        \/ \E n \in Notifiers : TakeAll(n) \/ GoAstray(n) \/ \E a \in Awaiters : Spawn(n, a)

Spec == Init /\ [][Next]_<<waiting, batch, woken>>
=============================================================================
