------------------------------- MODULE JoinSet ------------------------------
(***************************************************************************)
(* The nursery of include/concurrency/join.hpp. A parent spawns children   *)
(* into a JoinSet, joins it with co_await or with wait_blocking(), and     *)
(* destroys it. For every child a proc coroutine waits for the Notify in   *)
(* the child's promise (task.hpp), counts down and fires the JoinSet's own *)
(* Notify. Awaiting an event takes the two steps the Notify module shows   *)
(* to matter, await_ready() and the push; notify_all() is one step.        *)
(*                                                                         *)
(* A step that touches an object that is gone may go on with the old       *)
(* memory or fault; after a fault or a failed ASSERT nothing is modelled.  *)
(* Names that Future has as well begin with Join here, so that a module of *)
(* proofs can extend both.                                                 *)
(***************************************************************************)
EXTENDS Naturals, FiniteSets

CONSTANT Children   \* the tasks given to JoinSet::spawn

ASSUME JoinSetAssumption == IsFiniteSet(Children)

VARIABLES
  awaiting_,   \* JoinSet::awaiting_
  fired,       \* JoinSet::notify.fired_
  parent,      \* where the parent is
  proc,        \* where the proc of each child is
  child,       \* where each child is
  outcome      \* "ok", the ASSERT that failed or the dead object that faulted

joinVars == <<awaiting_, fired, parent, proc, child, outcome>>

(* The parent: "add" has passed the ASSERT of spawn(); "push" was told     *)
(* await_ready() = false; "block" found awaiting_ # 0 in wait_blocking()   *)
(* and "blocked" sleeps in cv_; "joined" is about to destroy the JoinSet.  *)
ParentLocs == {"spawn", "add", "push", "parked", "test", "block", "blocked",
               "joined", "gone"}

(* A proc: "ready" and "push" are its co_await, "past" is behind it.       *)
ProcLocs == {"none", "queued", "ready", "push", "parked", "past", "fire", "cv",
             "done"}

(* A child: "final" has run final_suspend(), so its Notify has fired.      *)
ChildLocs == {"none", "queued", "final", "freed"}

Outcomes == {"ok", "spawn assert", "destructor assert", "dead promise",
             "dead closure", "dead join set"}

JoinInit ==
  /\ awaiting_ = 0
  /\ fired = FALSE
  /\ parent = "spawn"
  /\ proc = [c \in Children |-> "none"]
  /\ child = [c \in Children |-> "none"]
  /\ outcome = "ok"

ParentAt(from, to) == outcome = "ok" /\ parent = from /\ parent' = to
ProcAt(c, from, to) ==
  outcome = "ok" /\ proc[c] = from /\ proc' = [proc EXCEPT ![c] = to]
ChildAt(c, from, to) ==
  outcome = "ok" /\ child[c] = from /\ child' = [child EXCEPT ![c] = to]

(* An access to an object that may be dead.                                *)
Touch(dead, what) == outcome' \in IF dead THEN {"ok", what} ELSE {"ok"}

-----------------------------------------------------------------------------
(* The parent.                                                             *)

(* ASSERT(!notify.done()) of JoinSet::spawn.                               *)
SpawnAssert ==
  /\ \E c \in Children : proc[c] = "none"
  /\ ParentAt("spawn", "add")
  /\ outcome' = IF fired THEN "spawn assert" ELSE "ok"
  /\ UNCHANGED <<awaiting_, fired, proc, child>>

(* awaiting_.fetch_add(1) and the spawn of proc.                           *)
SpawnChild(c) ==
  /\ ParentAt("add", "spawn")
  /\ ProcAt(c, "none", "queued")
  /\ awaiting_' = awaiting_ + 1
  /\ UNCHANGED <<fired, child, outcome>>

(* co_await join_set.                                                      *)
co_await_ready ==
  /\ ParentAt("spawn", IF fired THEN "joined" ELSE "push")
  /\ UNCHANGED <<awaiting_, fired, proc, child, outcome>>

co_await_suspend ==
  /\ ParentAt("push", "parked")
  /\ UNCHANGED <<awaiting_, fired, proc, child, outcome>>

(* The predicate of cv_.wait() is evaluated with mu_ held, but awaiting_   *)
(* changes without mu_, also before the thread really sleeps.              *)
wait_blocking ==
  /\ \/ ParentAt("spawn", "test")
     \/ ParentAt("test", IF awaiting_ = 0 THEN "joined" ELSE "block")
     \/ ParentAt("block", "blocked")
     \/ ParentAt("blocked", "test")      \* a spurious wakeup
  /\ UNCHANGED <<awaiting_, fired, proc, child, outcome>>

(* Mutant: the destructor does not look at awaiting_.                      *)
Destruct_Unchecked ==
  /\ ParentAt("joined", "gone")
  /\ UNCHANGED <<awaiting_, fired, proc, child, outcome>>

(* ~JoinSet().                                                             *)
Destruct ==
  /\ ParentAt("joined", "gone")
  /\ outcome' = IF awaiting_ = 0 THEN "ok" ELSE "destructor assert"
  /\ UNCHANGED <<awaiting_, fired, proc, child>>

-----------------------------------------------------------------------------
(* The proc of child c, and the child.                                     *)

(* It takes a reference to the child's Notify and spawns the child.        *)
ProcStart(c) ==
  /\ ProcAt(c, "queued", "ready")
  /\ ChildAt(c, "none", "queued")
  /\ UNCHANGED <<awaiting_, fired, parent, outcome>>

ProcReady(c) ==
  /\ ProcAt(c, "ready", IF child[c] = "queued" THEN "push" ELSE "past")
  /\ Touch(child[c] = "freed", "dead promise")
  /\ UNCHANGED <<awaiting_, fired, parent, child>>

ProcPush(c) ==
  /\ ProcAt(c, "push", "parked")
  /\ Touch(child[c] = "freed", "dead promise")
  /\ UNCHANGED <<awaiting_, fired, parent, child>>

(* Mutant: the result of fetch_sub is taken for the new count.             *)
ProcCount_OffByOne(c) ==
  /\ ProcAt(c, "past", IF awaiting_ = 0 THEN "fire" ELSE "done")
  /\ awaiting_' = awaiting_ - 1
  /\ Touch(TRUE, "dead closure")
  /\ UNCHANGED <<fired, parent, child>>

(* awaiting_.fetch_sub(1) == 1. The lambda's closure, through which proc   *)
(* finds the JoinSet, died when JoinSet::spawn had created the coroutine.  *)
ProcCount(c) ==
  /\ ProcAt(c, "past", IF awaiting_ = 1 THEN "fire" ELSE "done")
  /\ awaiting_' = awaiting_ - 1
  /\ Touch(TRUE, "dead closure")
  /\ UNCHANGED <<fired, parent, child>>

(* notify.notify_all(): a parent on the list is resumed.                   *)
ProcFire(c) ==
  /\ ProcAt(c, "fire", "cv")
  /\ fired' = TRUE
  /\ parent' = IF parent = "parked" THEN "joined" ELSE parent
  /\ Touch(parent = "gone", "dead join set")
  /\ UNCHANGED <<awaiting_, child>>

(* Mutant: cv_ is not signalled.                                           *)
ProcNotifyOne_Forgotten(c) ==
  /\ ProcAt(c, "cv", "done")
  /\ UNCHANGED <<awaiting_, fired, parent, child, outcome>>

(* cv_.notify_one().                                                       *)
ProcNotifyOne(c) ==
  /\ ProcAt(c, "cv", "done")
  /\ parent' = IF parent = "blocked" THEN "test" ELSE parent
  /\ Touch(parent = "gone", "dead join set")
  /\ UNCHANGED <<awaiting_, fired, child>>

(* The child ends; final_suspend() wakes the proc if it is on the list.    *)
ChildFinish(c) ==
  /\ ChildAt(c, "queued", "final")
  /\ proc' = IF proc[c] = "parked" THEN [proc EXCEPT ![c] = "past"] ELSE proc
  /\ UNCHANGED <<awaiting_, fired, parent, outcome>>

(* ~Task() in the worker that saw it done.                                 *)
ChildDestroy(c) ==
  /\ ChildAt(c, "final", "freed")
  /\ UNCHANGED <<awaiting_, fired, parent, proc, outcome>>

-----------------------------------------------------------------------------
ParentStep ==
  \/ SpawnAssert \/ (\E c \in Children : SpawnChild(c))
  \/ co_await_ready \/ co_await_suspend \/ wait_blocking \/ Destruct

ProcStep(c) ==
  \/ ProcStart(c) \/ ProcReady(c) \/ ProcPush(c) \/ ProcCount(c)
  \/ ProcFire(c) \/ ProcNotifyOne(c)

ChildStep(c) == ChildFinish(c) \/ ChildDestroy(c)

JoinNext == ParentStep \/ \E c \in Children : ProcStep(c) \/ ChildStep(c)

JoinSpec == JoinInit /\ [][JoinNext]_joinVars

(* Threads run, spawned coroutines are resumed and children end. Nothing   *)
(* makes a spurious wakeup happen.                                         *)
JoinFairness ==
  /\ WF_joinVars(ParentStep /\ parent # "blocked")
  /\ \A c \in Children : WF_joinVars(ProcStep(c)) /\ WF_joinVars(ChildStep(c))

JoinFairSpec == JoinSpec /\ JoinFairness

-----------------------------------------------------------------------------
Spawned == {c \in Children : proc[c] # "none"}

(* A proc that joined the list of an event that had fired already.         *)
Stranded(c) == proc[c] = "parked" /\ child[c] \in {"final", "freed"}

(* What sends the parent to sleep no longer holds and nobody will wake it: *)
(* notify_all() came between await_ready() and the push, or the last       *)
(* cv_.notify_one() between the predicate of cv_.wait() and the sleep.     *)
Missed ==
  \/ parent = "push" /\ fired
  \/ /\ parent = "block" /\ awaiting_ = 0
     /\ \A c \in Children : proc[c] \notin {"fire", "cv"}

JoinTypeOK ==
  /\ awaiting_ \in 0..Cardinality(Children)
  /\ fired \in BOOLEAN
  /\ parent \in ParentLocs
  /\ proc \in [Children -> ProcLocs]
  /\ child \in [Children -> ChildLocs]
  /\ outcome \in Outcomes

(* A JoinSet that was destroyed without an abort has waited for all the    *)
(* children spawned into it, also when its event fired too early. About    *)
(* the ASSERT in ~JoinSet and the countdown in proc.                       *)
DestroyedAfterAll ==
  parent = "gone" /\ outcome = "ok" =>
    \A c \in Spawned : child[c] \in {"final", "freed"}

(* Whatever the order of the fetch_subs and of later spawns, when all      *)
(* procs have run to their end one of them has fired the event.            *)
SomeProcFires ==
  Spawned # {} /\ (\A c \in Spawned : proc[c] = "done") => fired

(* A parent that joins a JoinSet with children, by co_await or by          *)
(* wait_blocking(), gets past the join, in all but these cases: a proc     *)
(* missed its child's event (Stranded), the parent missed the event or the *)
(* signal itself (Missed), an ASSERT failed or a dead object was used.     *)
(* About the countdown in proc and its two ways of waking the parent.      *)
JoinReturns ==
  (parent \in {"push", "test"} /\ Spawned # {})
    ~> (parent = "gone" \/ outcome # "ok" \/ Missed \/ \E c \in Children : Stranded(c))
=============================================================================
