------------------------------- MODULE Flight -------------------------------
(***************************************************************************)
(* What the ring and the event loop promise for an operation: it is put on *)
(* the submission queue, given to the kernel, completed and handled, in    *)
(* this order and once; io_uring_submit() leaves no entry behind.          *)
(* IOContext implements it while accesses to the ring do not overlap, and  *)
(* Runtime takes no more than this from the ring.                          *)
(***************************************************************************)
CONSTANT Ops     \* the operations

VARIABLE stage   \* stage[o]: how far operation o has come

Stages == {"none", "entry", "kernel", "completion", "handled"}

Move(o, from, to) == stage[o] = from /\ stage' = [stage EXCEPT ![o] = to]

Init == stage = [o \in Ops |-> "none"]

Enter(o)    == Move(o, "none", "entry")
Complete(o) == Move(o, "kernel", "completion")
Handle(o)   == Move(o, "completion", "handled")

SubmitAll ==
  stage' = [o \in Ops |-> IF stage[o] = "entry" THEN "kernel" ELSE stage[o]]

Next == SubmitAll \/ \E o \in Ops : Enter(o) \/ Complete(o) \/ Handle(o)

Spec == Init /\ [][Next]_stage
=============================================================================
