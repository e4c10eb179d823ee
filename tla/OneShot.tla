------------------------------ MODULE OneShot -------------------------------
(***************************************************************************)
(* What a Future promises the coroutine that awaits it: from the moment    *)
(* the coroutine is suspended, one set_value() wakes it, and it takes the  *)
(* value after that and once. A set_value() before is not seen at all.     *)
(* Future implements it, and Runtime takes no more than this from one.     *)
(***************************************************************************)
CONSTANT Futures

VARIABLE phase   \* phase[f]: what has happened to Future f

Phases == {"fresh", "waiting", "woken", "taken", "dropped"}

Move(f, from, to) == phase[f] = from /\ phase' = [phase EXCEPT ![f] = to]

Init == phase = [f \in Futures |-> "fresh"]

Await(f) == Move(f, "fresh", "waiting")
Set(f)   == Move(f, "waiting", "woken")
Take(f)  == Move(f, "woken", "taken")
Drop(f)  == Move(f, "fresh", "dropped")

Next == \E f \in Futures : Await(f) \/ Set(f) \/ Take(f) \/ Drop(f)

Spec == Init /\ [][Next]_phase
=============================================================================
