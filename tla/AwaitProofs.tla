----------------------------- MODULE AwaitProofs ----------------------------
(***************************************************************************)
(* What a coroutine awaits, for any number of children and of handles: the *)
(* nursery of JoinSet first, then the one-shot Future. The two share no    *)
(* state. Of the nursery: awaiting_ is the number of procs that have not   *)
(* counted down yet; the ASSERT of ~JoinSet is sound and somebody fires    *)
(* the event because of that. Of a Future: it is memory safe, the shared   *)
(* state outlives its mutex, only a constructed value is read, and the     *)
(* awaiting coroutine is spawned once, while suspended.                    *)
(***************************************************************************)
EXTENDS JoinSet, Future, FiniteSetTheorems, TLAPS

Before == {"queued", "ready", "push", "parked", "past"}
Behind == {"past", "fire", "cv", "done"}

Typed ==
  /\ awaiting_ \in Nat
  /\ fired \in BOOLEAN
  /\ parent \in ParentLocs
  /\ proc \in [Children -> ProcLocs]
  /\ child \in [Children -> ChildLocs]
  /\ outcome \in Outcomes

(* The procs that still have their fetch_sub before them.                  *)
Counted == {c \in Children : proc[c] \in Before}

(* The atomic counter says how many they are.                              *)
Counting == awaiting_ = Cardinality(Counted)

(* A proc that awaits its child has spawned it, and one that has passed    *)
(* its co_await has a child that ended.                                    *)
Ended ==
  \A c \in Children :
    /\ proc[c] \in {"ready", "push", "parked"} => child[c] # "none"
    /\ proc[c] \in Behind => child[c] \in {"final", "freed"}

(* The JoinSet is destroyed only when every proc has counted down.         *)
Closed == parent = "gone" /\ outcome = "ok" => Counted = {}

(* The proc that brings the counter to 0 fires the event, or is about to.  *)
Firing ==
  Spawned # {} /\ Counted = {} => fired \/ \E c \in Children : proc[c] = "fire"

IInv == Typed /\ Counting /\ Ended /\ Closed /\ Firing

-----------------------------------------------------------------------------
(* Every subset of the children has a cardinality, which is 0 only when it *)
(* is empty.                                                               *)
LEMMA CountedFinite ==
  ASSUME NEW S \in SUBSET Children
  PROVE  /\ IsFiniteSet(S) /\ Cardinality(S) \in Nat
         /\ Cardinality(S) <= Cardinality(Children)
         /\ Cardinality(S) = 0 <=> S = {}
BY JoinSetAssumption, FS_Subset, FS_CardinalityType, FS_EmptySet

(* A step of a proc that stays on its side of the fetch_sub leaves the     *)
(* counted set as it was.                                                  *)
LEMMA SameSide ==
  ASSUME Typed, NEW c \in Children, NEW to \in ProcLocs,
         proc' = [proc EXCEPT ![c] = to],
         proc[c] \in Before <=> to \in Before
  PROVE  Counted' = Counted
<1>1. \A d \in Children : proc'[d] \in Before <=> proc[d] \in Before
  BY DEF Typed
<1> QED BY <1>1 DEF Counted

LEMMA InitInv == JoinInit => IInv
<1> SUFFICES ASSUME JoinInit PROVE IInv OBVIOUS
<1>1. Counted = {} BY DEF JoinInit, Counted, Before
<1>2. Spawned = {} BY DEF JoinInit, Spawned
<1>3. Counting BY <1>1, FS_EmptySet DEF JoinInit, Counting
<1>4. Typed BY Zenon DEF JoinInit, Typed, ParentLocs, ProcLocs, ChildLocs, Outcomes
<1>5. Ended BY DEF JoinInit, Ended, Behind
<1> QED BY <1>1, <1>2, <1>3, <1>4, <1>5 DEF IInv, Closed, Firing

-----------------------------------------------------------------------------
(* The steps of the parent that move no proc.                              *)
LEMMA ParentAlone ==
  ASSUME IInv,
         SpawnAssert \/ co_await_ready \/ co_await_suspend \/ wait_blocking \/ Destruct
  PROVE  IInv'
<1> USE DEF ParentAt
<1> DEFINE Moves == SpawnAssert \/ co_await_ready \/ co_await_suspend \/ wait_blocking
<1>1. /\ awaiting_' = awaiting_ /\ fired' = fired /\ proc' = proc /\ child' = child
      /\ outcome = "ok" /\ parent # "gone" /\ parent' \in ParentLocs
      /\ outcome' \in Outcomes
  BY DEF IInv, Typed, SpawnAssert, co_await_ready, co_await_suspend, wait_blocking, Destruct,
         ParentLocs, Outcomes
<1>2. Counted' = Counted /\ Spawned' = Spawned BY <1>1 DEF Counted, Spawned
<1>3. parent' = "gone" /\ outcome' = "ok" => Counted = {}
  <2>1. CASE Moves
    BY <2>1 DEF SpawnAssert, co_await_ready, co_await_suspend, wait_blocking
  <2>2. CASE Destruct
    <3>1. outcome' = "ok" => awaiting_ = 0 BY <2>2 DEF Destruct
    <3> QED BY <3>1, CountedFinite DEF IInv, Counting, Counted
  <2> QED BY <2>1, <2>2
<1>4. Typed' BY <1>1 DEF IInv, Typed
<1>5. Counting' BY <1>1, <1>2 DEF IInv, Counting
<1>6. Ended' BY <1>1 DEF IInv, Ended
<1>7. Closed' BY <1>2, <1>3 DEF Closed
<1>8. Firing' BY <1>1, <1>2 DEF IInv, Firing
<1> QED BY <1>4, <1>5, <1>6, <1>7, <1>8 DEF IInv

(* JoinSet::spawn counts the new child.                                    *)
LEMMA SpawnCounts ==
  ASSUME IInv, NEW c \in Children, SpawnChild(c)
  PROVE  IInv'
<1> USE DEF SpawnChild, ParentAt, ProcAt
<1>1. /\ proc[c] = "none" /\ proc' = [proc EXCEPT ![c] = "queued"]
      /\ awaiting_' = awaiting_ + 1 /\ parent' = "spawn" /\ child' = child
      /\ fired' = fired /\ outcome' = outcome
  OBVIOUS
<1>2. Counted' = Counted \cup {c} /\ c \notin Counted
  <2>1. \A d \in Children : proc'[d] \in Before <=> d = c \/ proc[d] \in Before
    BY <1>1 DEF IInv, Typed, Before
  <2> QED BY <1>1, <2>1 DEF Counted, Before
<1>3. Typed' BY <1>1 DEF IInv, Typed, ParentLocs, ProcLocs
<1>4. Counting'
  BY <1>1, <1>2, CountedFinite, FS_AddElement, SMTT(20) DEF IInv, Counting, Counted
<1>5. Ended' BY <1>1 DEF IInv, Typed, Ended, Behind
<1>6. Closed' /\ Firing' BY <1>1, <1>2 DEF Closed, Firing
<1> QED BY <1>3, <1>4, <1>5, <1>6 DEF IInv

(* A proc that still counts takes a step that leaves it counted.           *)
LEMMA StaysCounted ==
  ASSUME IInv, outcome = "ok", NEW c \in Children, NEW to \in Before,
         proc[c] \in Before, proc' = [proc EXCEPT ![c] = to],
         awaiting_' = awaiting_, fired' = fired, parent' = parent,
         outcome' \in Outcomes, child' \in [Children -> ChildLocs], Ended'
  PROVE  IInv'
<1>1. to \in ProcLocs BY DEF Before, ProcLocs
<1>2. Counted' = Counted BY <1>1, SameSide, Zenon DEF IInv
<1>3. c \in Counted BY DEF Counted
<1>4. Typed' BY <1>1, Zenon DEF IInv, Typed
<1>5. Counting' BY <1>2 DEF IInv, Counting
<1>6. Closed' /\ Firing' BY <1>2, <1>3 DEF IInv, Closed, Firing
<1> QED BY <1>4, <1>5, <1>6 DEF IInv

(* The co_await of a proc: it starts, tests its child's event and parks.   *)
LEMMA ProcAwaits ==
  ASSUME IInv, NEW c \in Children, ProcStart(c) \/ ProcReady(c) \/ ProcPush(c)
  PROVE  IInv'
<1> USE DEF ProcAt, ChildAt, Touch, Before, Outcomes
<1>1. CASE ProcStart(c)
  <2>1. Ended' BY <1>1 DEF IInv, Typed, Ended, Behind, ProcStart
  <2>2. child' \in [Children -> ChildLocs]
    BY <1>1 DEF IInv, Typed, ChildLocs, ProcStart
  <2> QED BY <1>1, <2>1, <2>2, StaysCounted, Zenon DEF ProcStart
<1>2. CASE ProcReady(c)
  <2>1. PICK to \in Before : /\ proc' = [proc EXCEPT ![c] = to]
                             /\ to = "push" \/ (to = "past" /\ child[c] # "queued")
    BY <1>2 DEF ProcReady
  <2>2. child' = child /\ proc[c] = "ready" /\ outcome' \in Outcomes
    BY <1>2 DEF ProcReady
  <2>3. Ended' BY <2>1, <2>2 DEF IInv, Typed, Ended, Behind, ChildLocs
  <2>4. child' \in [Children -> ChildLocs] BY <2>2 DEF IInv, Typed
  <2> QED BY <1>2, <2>1, <2>2, <2>3, <2>4, StaysCounted DEF ProcReady
<1>3. CASE ProcPush(c)
  <2>1. Ended' BY <1>3 DEF IInv, Typed, Ended, Behind, ProcPush
  <2>2. child' \in [Children -> ChildLocs] BY <1>3 DEF IInv, Typed, ProcPush
  <2> QED BY <1>3, <2>1, <2>2, StaysCounted DEF ProcPush
<1> QED BY <1>1, <1>2, <1>3

(* The fetch_sub: the proc that finds 1 is the last one and goes on to     *)
(* fire the event.                                                         *)
LEMMA CountsDown ==
  ASSUME IInv, NEW c \in Children, ProcCount(c)
  PROVE  IInv'
<1> DEFINE to == IF awaiting_ = 1 THEN "fire" ELSE "done"
<1>1. /\ outcome = "ok" /\ proc[c] = "past" /\ proc' = [proc EXCEPT ![c] = to]
      /\ awaiting_' = awaiting_ - 1 /\ outcome' \in Outcomes
      /\ fired' = fired /\ parent' = parent /\ child' = child
  BY DEF ProcCount, ProcAt, Touch, Outcomes
<1>2. Counted' = Counted \ {c} /\ c \in Counted
  <2>1. to \notin Before BY DEF Before
  <2>2. \A d \in Children : proc'[d] \in Before <=> d # c /\ proc[d] \in Before
    BY <1>1, <2>1 DEF IInv, Typed
  <2> QED BY <1>1, <2>2 DEF Counted, Before
<1>3. Cardinality(Counted') = Cardinality(Counted) - 1
  <2>1. IsFiniteSet(Counted) BY CountedFinite DEF Counted
  <2>2. Cardinality(Counted \ {c}) = Cardinality(Counted) - 1
    BY <1>2, <2>1, FS_RemoveElement
  <2> QED BY <1>2, <2>2
<1>4. Counting' BY <1>1, <1>3 DEF IInv, Counting
<1>5. awaiting_' \in Nat BY <1>4, CountedFinite DEF Counting, Counted
<1>6. Typed' BY <1>1, <1>5 DEF IInv, Typed, ProcLocs
<1>7. Ended' BY <1>1 DEF IInv, Typed, Ended, Behind
<1>8. Closed' BY <1>1, <1>2 DEF IInv, Closed
<1>9. Firing'
  <2>1. SUFFICES ASSUME Counted' = {} PROVE proc'[c] = "fire" BY DEF Firing
  <2>2. awaiting_' = 0 BY <2>1, <1>4, FS_EmptySet DEF Counting
  <2>3. awaiting_ = 1 BY <1>1, <2>2 DEF IInv, Typed
  <2> QED BY <1>1, <2>3 DEF IInv, Typed
<1> QED BY <1>4, <1>6, <1>7, <1>8, <1>9 DEF IInv

(* notify_all() and cv_.notify_one() of the last proc.                     *)
LEMMA LastFires ==
  ASSUME IInv, NEW c \in Children, ProcFire(c) \/ ProcNotifyOne(c)
  PROVE  IInv'
<1> PICK to \in {"cv", "done"} : /\ proc' = [proc EXCEPT ![c] = to]
                                /\ (to = "cv") = (proc[c] = "fire")
  BY DEF ProcFire, ProcNotifyOne, ProcAt
<1>1. /\ outcome = "ok" /\ proc[c] \in {"fire", "cv"}
      /\ fired' \in BOOLEAN /\ (fired' = fired \/ fired')
      /\ proc[c] = "fire" => fired'
      /\ awaiting_' = awaiting_ /\ child' = child /\ outcome' \in Outcomes
      /\ parent' \in ParentLocs /\ (parent' = "gone" => parent = "gone")
  BY DEF IInv, Typed, ProcFire, ProcNotifyOne, ProcAt, Touch, Outcomes, ParentLocs
<1>2. to \in ProcLocs /\ to \notin Before BY DEF ProcLocs, Before
<1>3. Counted' = Counted BY <1>1, <1>2, SameSide, Zenon DEF IInv, Before
<1>4. Typed' BY <1>1, <1>2 DEF IInv, Typed
<1>5. Counting' BY <1>1, <1>3 DEF IInv, Counting
<1>6. Ended' BY <1>1 DEF IInv, Typed, Ended, Behind
<1>7. Closed' BY <1>1, <1>3 DEF IInv, Closed
<1>8. Firing'
  <2>1. CASE proc[c] = "fire" BY <1>1, <2>1 DEF Firing
  <2>2. CASE proc[c] = "cv"
    <3>1. Spawned # {} BY <2>2 DEF Spawned
    <3>2. \A d \in Children : proc[d] = "fire" => proc'[d] = "fire"
      BY <2>2 DEF IInv, Typed
    <3> QED BY <1>1, <1>3, <3>1, <3>2 DEF IInv, Firing
  <2> QED BY <1>1, <2>1, <2>2
<1> QED BY <1>4, <1>5, <1>6, <1>7, <1>8 DEF IInv

(* final_suspend() wakes a parked proc; ~Task() frees the child.           *)
LEMMA ChildEnds ==
  ASSUME IInv, NEW c \in Children, ChildStep(c)
  PROVE  IInv'
<1>1. /\ child' \in [Children -> ChildLocs]
      /\ child'[c] \in {"final", "freed"} /\ child[c] # "none"
      /\ \A d \in Children : d # c => child'[d] = child[d]
      /\ awaiting_' = awaiting_ /\ fired' = fired /\ parent' = parent
      /\ outcome' = outcome
  BY DEF IInv, Typed, ChildLocs, ChildStep, ChildFinish, ChildDestroy, ChildAt
<1>2. proc' = proc \/ (proc[c] = "parked" /\ proc' = [proc EXCEPT ![c] = "past"])
  BY DEF ChildStep, ChildFinish, ChildDestroy
<1>3. Counted' = Counted
  <2>1. CASE proc' = proc BY <2>1 DEF Counted
  <2>2. CASE proc[c] = "parked" /\ proc' = [proc EXCEPT ![c] = "past"]
    BY <2>2, SameSide, Zenon DEF IInv, Before, ProcLocs
  <2> QED BY <1>2, <2>1, <2>2
<1>4. Typed' BY <1>1, <1>2 DEF IInv, Typed, ProcLocs
<1>5. Counting' BY <1>1, <1>3 DEF IInv, Counting
<1>6. Ended' BY <1>1, <1>2 DEF IInv, Typed, Ended
<1>7. Closed' BY <1>1, <1>3 DEF IInv, Closed
<1>8. Firing'
  <2>1. \A d \in Children : /\ proc'[d] = "fire" <=> proc[d] = "fire"
                            /\ proc'[d] # "none" <=> proc[d] # "none"
    BY <1>2 DEF IInv, Typed
  <2> QED BY <1>1, <1>3, <2>1 DEF IInv, Firing, Spawned
<1> QED BY <1>4, <1>5, <1>6, <1>7, <1>8 DEF IInv

LEMMA NextInv == IInv /\ [JoinNext]_joinVars => IInv'
<1> SUFFICES ASSUME IInv, [JoinNext]_joinVars PROVE IInv' OBVIOUS
<1>1. CASE ParentStep BY <1>1, ParentAlone, SpawnCounts DEF ParentStep
<1>2. ASSUME NEW c \in Children, ProcStep(c) PROVE IInv'
  BY <1>2, ProcAwaits, CountsDown, LastFires DEF ProcStep
<1>3. ASSUME NEW c \in Children, ChildStep(c) PROVE IInv'
  BY <1>3, ChildEnds
<1>4. CASE UNCHANGED joinVars
  BY <1>4 DEF joinVars, IInv, Typed, Counting, Counted, Ended, Closed, Firing, Spawned
<1> QED BY <1>1, <1>2, <1>3, <1>4 DEF JoinNext

LEMMA IInvHolds == JoinSpec => []IInv
BY InitInv, NextInv, PTL DEF JoinSpec

-----------------------------------------------------------------------------
(* The fields keep their types, and awaiting_ never passes the number of   *)
(* children, nor wraps below 0: it counts the procs before their           *)
(* fetch_sub. About JoinSet::spawn and proc.                               *)
THEOREM JoinSetTypeCorrect == JoinSpec => []JoinTypeOK
<1>1. IInv => JoinTypeOK
  <2> SUFFICES ASSUME IInv PROVE JoinTypeOK OBVIOUS
  <2>1. awaiting_ <= Cardinality(Children)
    BY CountedFinite DEF IInv, Counting, Counted
  <2>2. Cardinality(Children) \in Nat BY CountedFinite
  <2> QED BY <2>1, <2>2 DEF IInv, Typed, JoinTypeOK
<1> QED BY <1>1, IInvHolds, PTL

(* A JoinSet destroyed without an abort has waited for all the children    *)
(* spawned into it. About the ASSERT in ~JoinSet and the countdown.        *)
THEOREM DestroyedAfterAllHolds == JoinSpec => []DestroyedAfterAll
<1>1. IInv => DestroyedAfterAll
  <2> SUFFICES ASSUME IInv, parent = "gone", outcome = "ok", NEW c \in Spawned
               PROVE  child[c] \in {"final", "freed"}
    BY DEF DestroyedAfterAll
  <2>1. c \in Children /\ proc[c] # "none" /\ proc[c] \notin Before
    BY DEF IInv, Closed, Counted, Spawned
  <2>2. proc[c] \in Behind
    BY <2>1 DEF IInv, Typed, ProcLocs, Before, Behind
  <2> QED BY <2>1, <2>2 DEF IInv, Ended
<1> QED BY <1>1, IInvHolds, PTL

(* When all procs have run to their end, one of them has fired the event.  *)
(* About the comparison with 1 of the fetch_sub in proc.                   *)
THEOREM SomeProcFiresHolds == JoinSpec => []SomeProcFires
<1>1. IInv => SomeProcFires
  <2> SUFFICES ASSUME IInv, Spawned # {}, \A c \in Spawned : proc[c] = "done"
               PROVE  fired
    BY DEF SomeProcFires
  <2>1. Counted = {} BY DEF Counted, Spawned, Before
  <2>2. \A c \in Children : proc[c] # "fire" BY DEF Spawned
  <2> QED BY <2>1, <2>2 DEF IInv, Firing
<1> QED BY <1>1, IInvHolds, PTL

-----------------------------------------------------------------------------
(* Producer p is inside the lock_guard of set_value().                     *)
InGuard(p) == ppc[p] \in {"cas", "construct", "spawn", "unlock"}

(* Who holds _mutex and who holds a shared_ptr.                            *)
Holds ==
  /\ \A p \in Producers : InGuard(p) <=> mutex = p
  /\ \A p \in Producers : InGuard(p) \/ ppc[p] \in {"lock", "release"} => p \in owners
  /\ cpc # "gone" => Consumer \in owners

(* How far the hand-over has come. The early return of set_value() keeps   *)
(* is_ready false until a continuation is stored, which is why the unlocked*)
(* fast path of await_ready() cannot see a value under construction.       *)
HandOver ==
  /\ cpc \in {"made", "suspend"} => ~continuation
  /\ cpc \in {"parked", "resume", "drop"} => continuation
  /\ is_ready => continuation
  /\ cpc = "gone" /\ continuation => is_ready
  /\ \A p \in Producers : ppc[p] = "cas" => continuation
  /\ \A p \in Producers : ppc[p] \in {"construct", "spawn"} =>
       is_ready /\ spawned = 0 /\ cpc = "parked"
  /\ \A p \in Producers : ppc[p] = "spawn" => value = "live"
  /\ spawned > 0 => is_ready
  /\ cpc \in {"resume", "drop"} => spawned > 0
  /\ spawned > 0 /\ cpc \in {"parked", "resume"} => value = "live"

FutureInv == TypeOK /\ Holds /\ HandOver

(* A fresh Future satisfies the invariant.                                 *)
LEMMA FutureInit == Init => FutureInv
<1> SUFFICES ASSUME Init PROVE FutureInv
  OBVIOUS
<1> USE FutureAssumption DEF Init
<1>1. TypeOK
  <2>1. is_ready \in BOOLEAN /\ continuation \in BOOLEAN /\ aborted \in BOOLEAN
        /\ misdestroyed \in BOOLEAN
    OBVIOUS
  <2>2. /\ spawned \in 0..1 /\ cpc \in ConsumerLocs
        /\ ppc \in [Producers -> ProducerLocs]
    BY DEF ConsumerLocs, ProducerLocs
  <2> QED
    BY <2>1, <2>2 DEF TypeOK
<1>2. Holds
  BY DEF Holds, InGuard
<1>3. HandOver
  BY DEF HandOver
<1> QED
  BY <1>1, <1>2, <1>3 DEF FutureInv

(* Every step of the consumer and of a producer keeps it.                  *)
LEMMA FutureStep == FutureInv /\ [Next]_vars => FutureInv'
<1> SUFFICES ASSUME FutureInv, [Next]_vars PROVE FutureInv'
  OBVIOUS
<1> USE FutureAssumption DEF FutureInv, TypeOK, Holds, HandOver, InGuard,
          ConsumerLocs, ProducerLocs, ConsumerAt, ProducerAt, shared, faults
<1>1. CASE await_ready
  BY <1>1 DEF await_ready
<1>2. CASE await_suspend
  BY <1>2, Zenon DEF await_suspend
<1>3. CASE Resumed
  BY <1>3 DEF Resumed
<1>4. CASE await_resume
  BY <1>4 DEF await_resume
<1>5. CASE DropFuture
  BY <1>5, Zenon DEF DropFuture, Release
<1>6. ASSUME NEW p \in Producers, LockState(p) PROVE FutureInv'
  BY <1>6 DEF LockState
<1>7. ASSUME NEW p \in Producers, CheckAwaited(p) PROVE FutureInv'
  BY <1>7 DEF CheckAwaited
<1>8. ASSUME NEW p \in Producers, SetReady(p) PROVE FutureInv'
  <2>1. CASE is_ready
    BY <1>8, <2>1 DEF SetReady
  <2>2. CASE ~is_ready
    <3>1. cpc = "parked" /\ spawned = 0 /\ continuation
      BY <1>8, <2>2 DEF SetReady
    <3>2. /\ ppc' = [ppc EXCEPT ![p] = "construct"] /\ ppc[p] = "cas"
          /\ is_ready' = TRUE
          /\ UNCHANGED <<continuation, value, mutex, owners, cpc, spawned,
                         aborted, misdestroyed>>
      BY <1>8, <2>2 DEF SetReady
    <3>3. TypeOK' /\ Holds'
      BY <3>2
    <3>4. HandOver'
      BY <3>1, <3>2
    <3> QED
      BY <3>3, <3>4
  <2> QED
    BY <2>1, <2>2
<1>9. ASSUME NEW p \in Producers, Construct(p) PROVE FutureInv'
  BY <1>9 DEF Construct
<1>10. ASSUME NEW p \in Producers, SpawnContinuation(p) PROVE FutureInv'
  BY <1>10 DEF SpawnContinuation
<1>11. ASSUME NEW p \in Producers, Unlock(p) PROVE FutureInv'
  BY <1>11 DEF Unlock
<1>12. ASSUME NEW p \in Producers, ReleaseState(p) PROVE FutureInv'
  BY <1>12, ZenonT(40) DEF ReleaseState, Release
<1>13. CASE UNCHANGED vars
  BY <1>13 DEF vars
<1> QED
  BY <1>1, <1>2, <1>3, <1>4, <1>5, <1>6, <1>7, <1>8, <1>9, <1>10, <1>11,
     <1>12, <1>13 DEF Next, ConsumerStep, ProducerStep

(* The invariant holds in every reachable state.                           *)
LEMMA FutureInvariant == Spec => []FutureInv
BY FutureInit, FutureStep, PTL DEF Spec

(* The variables keep their types; in particular the awaiting coroutine is *)
(* handed to spawn() at most once.                                         *)
THEOREM FutureTypeCorrect == Spec => []TypeOK
<1>1. FutureInv => TypeOK
  BY DEF FutureInv
<1> QED
  BY <1>1, FutureInvariant, PTL

(* set_value() never unlocks the mutex of a freed FutureState.             *)
THEOREM MutexOutlivedHolds == Spec => []MutexOutlived
<1>1. FutureInv => MutexOutlived
  BY DEF FutureInv, TypeOK, Holds, InGuard, MutexOutlived
<1> QED
  BY <1>1, FutureInvariant, PTL

(* await_resume() only reads a value whose construction has finished.      *)
THEOREM ReadsConstructedHolds == Spec => ReadsConstructed
<1>1. FutureInv /\ [Next]_vars
        => [cpc = "resume" /\ cpc' = "drop" => value = "live"]_vars
  BY DEF FutureInv, TypeOK, HandOver
<1> QED
  BY <1>1, FutureInvariant, PTL DEF Spec, ReadsConstructed

(* The continuation is spawned once, and only while it is suspended.       *)
THEOREM SpawnedSuspendedHolds == Spec => SpawnedSuspended
<1>1. FutureInv /\ [Next]_vars
        => [spawned' # spawned => cpc = "parked" /\ spawned = 0]_vars
  <2> SUFFICES ASSUME FutureInv, Next, spawned' # spawned
               PROVE  cpc = "parked" /\ spawned = 0
    BY DEF vars
  <2>1. PICK p \in Producers : SpawnContinuation(p)
    BY DEF Next, ConsumerStep, ProducerStep, await_ready, await_suspend, Resumed,
           await_resume, DropFuture, LockState, CheckAwaited, SetReady,
           Construct, Unlock, ReleaseState, shared, faults
  <2> QED
    BY <2>1 DEF SpawnContinuation, ProducerAt, FutureInv, HandOver
<1> QED
  BY <1>1, FutureInvariant, PTL DEF Spec, SpawnedSuspended

(* A step of the consumer or of a producer is a step of OneShot, or is not *)
(* seen from outside.                                                      *)
LEMMA OneShotStep == FutureInv /\ [Next]_vars => [Shot!Next]_phase
<1> SUFFICES ASSUME FutureInv, [Next]_vars PROVE [Shot!Next]_phase
  OBVIOUS
<1>1. ASSUME Phase' = Phase PROVE [Shot!Next]_phase
  BY <1>1, Zenon DEF phase
<1>2. ASSUME NEW from, NEW to, Phase = from, Phase' = to
      PROVE  Shot!Move(Consumer, from, to)
  BY <1>2 DEF Shot!Move, phase
<1>3. TypeOK /\ HandOver
  BY DEF FutureInv
<1>4. (is_ready => continuation) /\ (spawned # 0 => is_ready) /\ spawned \in Nat
  BY <1>3 DEF TypeOK, HandOver
<1>5. CASE await_ready
  <2>1. cpc = "made" /\ ~is_ready
    BY <1>3, <1>4, <1>5, Zenon DEF await_ready, ConsumerAt, HandOver
  <2>2. cpc' = "suspend" /\ spawned' = spawned
    BY <1>5, <2>1, Zenon DEF await_ready, ConsumerAt
  <2> QED
    BY <1>1, <2>1, <2>2 DEF Phase
<1>6. CASE await_suspend
  <2>1. cpc = "suspend" /\ ~is_ready
    BY <1>3, <1>4, <1>6, Zenon DEF await_suspend, ConsumerAt, HandOver
  <2>2. cpc' = "parked" /\ spawned' = spawned /\ spawned = 0
    BY <1>4, <1>6, <2>1, Zenon DEF await_suspend, ConsumerAt
  <2>3. Phase = "fresh" /\ Phase' = "waiting"
    BY <2>1, <2>2 DEF Phase
  <2> QED
    BY <1>2, <2>3 DEF Shot!Await, Shot!Next
<1>7. CASE Resumed
  <2>1. cpc = "parked" /\ cpc' = "resume" /\ spawned' = spawned
    BY <1>7 DEF Resumed, ConsumerAt
  <2> QED
    BY <1>1, <2>1 DEF Phase
<1>8. CASE await_resume
  <2>1. cpc = "resume"
    BY <1>8, Zenon DEF await_resume, ConsumerAt
  <2>2. spawned # 0 /\ is_ready
    BY <1>3, <1>4, <2>1 DEF HandOver
  <2>3. cpc' = "drop" /\ spawned' = spawned
    BY <1>8, <2>2, Zenon DEF await_resume, ConsumerAt
  <2>4. Phase = "woken" /\ Phase' = "taken"
    BY <2>1, <2>2, <2>3 DEF Phase
  <2> QED
    BY <1>2, <2>4 DEF Shot!Take, Shot!Next
<1>9. CASE DropFuture
  <2>1. cpc' = "gone" /\ spawned' = spawned
    BY <1>9 DEF DropFuture, ConsumerAt
  <2>2. CASE cpc = "drop"
    BY <1>1, <2>1, <2>2 DEF Phase
  <2>3. CASE cpc = "made"
    <3>1. spawned = 0
      BY <1>3, <1>4, <2>3, Zenon DEF HandOver
    <3>2. Phase = "fresh" /\ Phase' = "dropped"
      BY <2>1, <2>3, <3>1 DEF Phase
    <3> QED
      BY <1>2, <3>2 DEF Shot!Drop, Shot!Next
  <2> QED
    BY <1>9, <2>2, <2>3 DEF DropFuture, ConsumerAt
<1>10. ASSUME NEW p \in Producers, SpawnContinuation(p)
       PROVE  [Shot!Next]_phase
  <2>1. cpc = "parked" /\ spawned = 0
    BY <1>3, <1>10 DEF HandOver, SpawnContinuation, ProducerAt
  <2>2. cpc' = cpc /\ spawned' = 1
    BY <1>10, <2>1 DEF SpawnContinuation
  <2>3. Phase = "waiting" /\ Phase' = "woken"
    BY <2>1, <2>2 DEF Phase
  <2> QED
    BY <1>2, <2>3 DEF Shot!Set, Shot!Next
<1>11. CASE UNCHANGED <<cpc, spawned>>
  BY <1>1, <1>11 DEF Phase
<1>12. ASSUME NEW p \in Producers, ProducerStep(p)
       PROVE  SpawnContinuation(p) \/ UNCHANGED <<cpc, spawned>>
  BY <1>12, Zenon DEF ProducerStep, LockState, CheckAwaited, SetReady,
     Construct, Unlock, ReleaseState
<1> QED
  BY <1>5, <1>6, <1>7, <1>8, <1>9, <1>10, <1>11, <1>12, Zenon
  DEF Next, ConsumerStep, vars

(* A Future is a one-shot cell for any number of handles set from any      *)
(* threads: seen from outside, the fine-grained set_value(), with its      *)
(* unlocked reads of is_ready by the consumer, loses what is set before    *)
(* the await, wakes the consumer once, and is taken from once.             *)
THEOREM FutureImplementsOneShot == Spec => ImplementsOneShot
<1>1. Init => Shot!Init
  BY DEF Init, Shot!Init, phase, Phase
<1> QED
  BY <1>1, OneShotStep, FutureInvariant, PTL DEF Spec, ImplementsOneShot, Shot!Spec
=============================================================================
