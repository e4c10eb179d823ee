------------------------------ MODULE TaskPool ------------------------------
(***************************************************************************)
(* What the executor promises the coroutines handed to it: a coroutine     *)
(* alternates between waiting for a thread, running on one, and sleeping   *)
(* until something wakes it; it finishes once, after which its place may   *)
(* be given to a new one; never more than Slots of them run at a time; and *)
(* one that is ready is eventually run.                                    *)
(***************************************************************************)
EXTENDS Naturals, FiniteSets

CONSTANTS Coros,   \* the coroutines
          Slots    \* how many may run at the same time

VARIABLE st        \* st[c]: where coroutine c is in its life

States == {"new", "ready", "active", "asleep", "done"}

Active == {c \in Coros : st[c] = "active"}

Move(c, from, to) == st[c] = from /\ st' = [st EXCEPT ![c] = to]

Init == st = [c \in Coros |-> "new"]

Spawn(c)      == Move(c, "new", "ready")
Start(c)      == Cardinality(Active) < Slots /\ Move(c, "ready", "active")
Reschedule(c) == Move(c, "active", "ready")
Sleep(c)      == Move(c, "active", "asleep")
Wake(c)       == Move(c, "asleep", "ready")
Finish(c)     == Move(c, "active", "done")
Free(c)       == Move(c, "done", "new")

Next == \E c \in Coros : \/ Spawn(c) \/ Start(c) \/ Reschedule(c)
                         \/ Sleep(c) \/ Wake(c)  \/ Finish(c) \/ Free(c)

Fairness == \A c \in Coros : WF_st(Start(c))

Spec == Init /\ [][Next]_st /\ Fairness
=============================================================================
