---------------------------- MODULE NotifyProofs ----------------------------
(***************************************************************************)
(* Proofs about the lock-free list, for any awaiters and any number of     *)
(* concurrent notify_all() calls. The invariant says that there are sets   *)
(* H and T[n] that hold the Notify's list and the lists notifiers have     *)
(* taken: disjoint, closed under next, without two entries that share a    *)
(* successor, and no larger than what next reaches from the first entry.   *)
(* That a list is the least closed set takes the place of an induction     *)
(* along next.                                                             *)
(***************************************************************************)
EXTENDS Notify, TLAPS

Pointers == Awaiters \cup {Null}

(* What a coroutine has linked is what it will compare head_ with.         *)
Linked == \A a \in Awaiters : apc[a] = "cas" => next[a] = old_head[a]

(* Only a suspended coroutine was ever spawned.                            *)
Waited == \A a \in Awaiters : spawned[a] > 0 => apc[a] \in {"parked", "past"}

(* A notifier in its loop holds the list head_ had, never a wild pointer.  *)
Holding ==
  \A n \in Notifiers :
    /\ npc[n] = "loop" => current[n] \in Pointers
    /\ npc[n] = "advance" => current[n] \in Awaiters /\ spawned[current[n]] > 0

(* a is on the Notify's list or on one that was taken.                     *)
On(H, T, a) == a \in H \/ \E n \in Notifiers : a \in T[n]

(* p is the first of the list S: on it, with no entry in front.            *)
First(H, T, S, p) ==
  p \in Awaiters => p \in S /\ \A a \in Awaiters : On(H, T, a) => next[a] # p

(* The lists hold suspended coroutines that were not spawned, they are     *)
(* disjoint and closed under next, and no entry has two predecessors.      *)
Lists(H, T) ==
  /\ \A a \in Awaiters : On(H, T, a) => apc[a] = "parked" /\ spawned[a] = 0
  /\ \A n \in Notifiers : T[n] \cap H = {}
  /\ \A m, n \in Notifiers : m # n => T[m] \cap T[n] = {}
  /\ \A a \in H : next[a] \in Awaiters => next[a] \in H
  /\ \A n \in Notifiers : \A a \in T[n] : next[a] \in Awaiters => next[a] \in T[n]
  /\ \A a, b \in Awaiters : On(H, T, a) /\ On(H, T, b) /\ a # b /\ next[a] \in Awaiters
                              => next[a] # next[b]

(* head_ and the notifiers' locals point at the first entries.             *)
Firsts(H, T) ==
  /\ First(H, T, H, head)
  /\ \A n \in Notifiers :
       /\ npc[n] = "loop" => First(H, T, T[n], current[n])
       /\ npc[n] = "advance" => First(H, T, T[n], next[current[n]])

(* Every set that holds p and is closed under nx contains D.               *)
Spans(nx, p, D) ==
  \A S \in SUBSET Awaiters :
    /\ p \in Awaiters => p \in S
    /\ \A a \in S : nx[a] \in Awaiters => nx[a] \in S
    => D \subseteq S

(* The lists hold nothing that is not behind their first entry, and unless *)
(* a notifier went astray they miss no coroutine that is to be spawned.    *)
Tight(H, T) ==
  /\ Spans(next, head, H)
  /\ \A n \in Notifiers :
       /\ npc[n] = "loop" => Spans(next, current[n], T[n])
       /\ npc[n] = "advance" => Spans(next, next[current[n]], T[n])
       /\ npc[n] \in {"store", "exchange", "done"} => T[n] = {}
  /\ (\A n \in Notifiers : npc[n] # "wild")
       => \A a \in Awaiters : apc[a] = "parked" /\ spawned[a] = 0 => On(H, T, a)

Good(H, T) == Lists(H, T) /\ Firsts(H, T) /\ Tight(H, T)

IInv ==
  /\ TypeOK /\ Linked /\ Waited /\ Holding
  /\ \E H \in SUBSET Awaiters, T \in [Notifiers -> SUBSET Awaiters] : Good(H, T)

LEMMA InitInv == Init => IInv
<1> SUFFICES ASSUME Init PROVE IInv OBVIOUS
<1> DEFINE H == {}
           T == [n \in Notifiers |-> {}]
<1>1. TypeOK BY Zenon DEF Init, TypeOK, AwaiterLocs, NotifierLocs
<1>2. Linked /\ Waited /\ Holding BY DEF Init, Linked, Waited, Holding
<1>3. \A a \in Awaiters : ~On(H, T, a) BY DEF On
<1>4. Lists(H, T) BY <1>3, Zenon DEF Lists
<1>5. Firsts(H, T)
  BY NotifyAssumption DEF Init, Firsts, First
<1>6. H \in SUBSET Awaiters /\ T \in [Notifiers -> SUBSET Awaiters] OBVIOUS
<1>7. Tight(H, T) BY Zenon DEF Init, Tight, Spans
<1>8. Good(H, T) BY <1>4, <1>5, <1>7 DEF Good
<1> HIDE DEF H, T
<1> QED BY <1>1, <1>2, <1>6, <1>8 DEF IInv

-----------------------------------------------------------------------------
(* What is behind p stays behind p when no pointer of the list changes.    *)
LEMMA SpansStays ==
  ASSUME NEW nx, NEW ny, NEW p, NEW D \in SUBSET Awaiters, Spans(nx, p, D),
         p \in Awaiters => p \in D,
         \A a \in D : ny[a] = nx[a] /\ (nx[a] \in Awaiters => nx[a] \in D)
  PROVE  Spans(ny, p, D)
<1> SUFFICES ASSUME NEW S \in SUBSET Awaiters, p \in Awaiters => p \in S,
                    \A a \in S : ny[a] \in Awaiters => ny[a] \in S
             PROVE  D \subseteq S
  BY DEF Spans
<1>1. \A a \in S \cap D : nx[a] \in Awaiters => nx[a] \in S \cap D OBVIOUS
<1>2. p \in Awaiters => p \in S \cap D OBVIOUS
<1>3. S \cap D \in SUBSET Awaiters OBVIOUS
<1>4. D \subseteq S \cap D BY <1>1, <1>2, <1>3, ZenonT(30) DEF Spans
<1> QED BY <1>4

(* One more entry in front.                                                *)
LEMMA SpansPush ==
  ASSUME NEW nx, NEW a \in Awaiters, NEW D \in SUBSET Awaiters, Spans(nx, nx[a], D)
  PROVE  Spans(nx, a, D \cup {a})
BY DEF Spans

(* The first entry taken off.                                              *)
LEMMA SpansPop ==
  ASSUME NEW nx, NEW a \in Awaiters, NEW D \in SUBSET Awaiters, Spans(nx, a, D)
  PROVE  Spans(nx, nx[a], D \ {a})
<1> SUFFICES ASSUME NEW S \in SUBSET Awaiters, nx[a] \in Awaiters => nx[a] \in S,
                    \A b \in S : nx[b] \in Awaiters => nx[b] \in S
             PROVE  D \ {a} \subseteq S
  BY DEF Spans
<1>1. S \cup {a} \in SUBSET Awaiters OBVIOUS
<1>2. D \subseteq S \cup {a} BY <1>1, ZenonT(30) DEF Spans
<1> QED BY <1>2

-----------------------------------------------------------------------------
(* A step of a coroutine that is on no list, its Awaiter included, changes *)
(* no list.                                                                *)
LEMMA OffTheLists ==
  ASSUME TypeOK, Waited, Holding, NEW a \in Awaiters,
         NEW H \in SUBSET Awaiters, NEW T \in [Notifiers -> SUBSET Awaiters],
         Good(H, T), ~On(H, T, a),
         \A b \in Awaiters : b # a => next'[b] = next[b] /\ apc'[b] = apc[b],
         next'[a] = next[a] \/ apc[a] = "link", apc'[a] # "parked",
         UNCHANGED <<spawned, head, npc, current>>
  PROVE  Good(H, T)'
<1>1. \A b \in Awaiters : On(H, T, b) => next'[b] = next[b] /\ apc'[b] = apc[b]
  OBVIOUS
<1>2. \A n \in Notifiers : npc[n] = "advance" => next'[current[n]] = next[current[n]]
  BY DEF Holding, Waited
<1>3. Lists(H, T)'
  <2>1. \A b \in Awaiters : On(H, T, b)' <=> On(H, T, b) BY DEF On
  <2>2. \A b \in H : On(H, T, b) BY DEF On
  <2>3. \A n \in Notifiers : \A b \in T[n] : On(H, T, b) BY DEF On
  <2> QED BY <1>1, <2>1, <2>2, <2>3 DEF Good, Lists
<1>4. \A S, p : First(H, T, S, p) <=>
         (p \in Awaiters => p \in S /\ \A b \in Awaiters : On(H, T, b) => next'[b] # p)
  BY <1>1 DEF First
<1>5. Firsts(H, T)'
  BY <1>2, <1>4 DEF Good, Firsts, First, On
<1>6. Tight(H, T)'
  <2>1. \A b \in H : next'[b] = next[b] /\ (next[b] \in Awaiters => next[b] \in H)
    BY <1>1 DEF Good, Lists, On
  <2>2. ASSUME NEW n \in Notifiers
        PROVE  \A b \in T[n] : next'[b] = next[b] /\ (next[b] \in Awaiters => next[b] \in T[n])
    BY <1>1 DEF Good, Lists, On
  <2>3. Spans(next', head', H)
    <3>1. Spans(next, head, H) /\ (head \in Awaiters => head \in H)
      BY DEF Good, Tight, Firsts, First
    <3> QED BY <2>1, <3>1, SpansStays
  <2>4. ASSUME NEW n \in Notifiers
        PROVE  /\ npc'[n] = "loop" => Spans(next', current'[n], T[n])
               /\ npc'[n] = "advance" => Spans(next', next'[current'[n]], T[n])
               /\ npc'[n] \in {"store", "exchange", "done"} => T[n] = {}
    <3>1. ASSUME NEW q, Spans(next, q, T[n]), q \in Awaiters => q \in T[n]
          PROVE  Spans(next', q, T[n])
      BY <2>2, <3>1, SpansStays
    <3>2. npc[n] = "loop" => /\ Spans(next, current[n], T[n])
                             /\ current[n] \in Awaiters => current[n] \in T[n]
      BY DEF Good, Tight, Firsts, First
    <3>3. npc[n] = "advance" => /\ Spans(next, next[current[n]], T[n])
                                /\ next[current[n]] \in Awaiters => next[current[n]] \in T[n]
      BY DEF Good, Tight, Firsts, First
    <3>4. npc[n] \in {"store", "exchange", "done"} => T[n] = {} BY DEF Good, Tight
    <3> QED BY <1>2, <3>1, <3>2, <3>3, <3>4
  <2>5. (\A n \in Notifiers : npc'[n] # "wild")
          => \A b \in Awaiters : apc'[b] = "parked" /\ spawned'[b] = 0 => On(H, T, b)'
    BY DEF Good, Tight, On
  <2> QED BY <2>3, <2>4, <2>5 DEF Tight
<1> QED BY <1>3, <1>5, <1>6 DEF Good

(* await_ready, the steps of push_awaiter_ before its success and the      *)
(* resumption by the executor.                                             *)
LEMMA CoroutineAlone ==
  ASSUME IInv, NEW a \in Awaiters,
         NEW H \in SUBSET Awaiters, NEW T \in [Notifiers -> SUBSET Awaiters], Good(H, T),
         await_ready(a) \/ LoadHead(a) \/ LinkNext(a) \/ PushFails(a) \/ Resumed(a)
  PROVE  IInv' /\ Good(H, T)'
<1> USE DEF AwaiterAt
<1>1. Good(H, T) OBVIOUS
<1>2. TypeOK'
  BY DEF IInv, TypeOK, AwaiterLocs, await_ready, LoadHead, LinkNext, PushFails, Resumed
<1>3. Linked'
  BY DEF IInv, TypeOK, Linked, await_ready, LoadHead, LinkNext, PushFails, Resumed
<1>4. Waited'
  BY DEF IInv, TypeOK, Waited, await_ready, LoadHead, LinkNext, PushFails, Resumed
<1>5. Holding'
  BY DEF IInv, Holding, await_ready, LoadHead, LinkNext, PushFails, Resumed
<1>6. ~On(H, T, a)
  BY <1>1 DEF IInv, TypeOK, Good, Lists, await_ready, LoadHead, LinkNext, PushFails, Resumed
<1>7. /\ \A b \in Awaiters : b # a => next'[b] = next[b] /\ apc'[b] = apc[b]
      /\ next'[a] = next[a] \/ apc[a] = "link"
      /\ apc'[a] # "parked"
      /\ UNCHANGED <<spawned, head, npc, current>>
  BY DEF IInv, TypeOK, await_ready, LoadHead, LinkNext, PushFails, Resumed
<1>8. Good(H, T)' BY <1>1, <1>6, <1>7, OffTheLists DEF IInv
<1> QED BY <1>2, <1>3, <1>4, <1>5, <1>8 DEF IInv

(* The compare-and-exchange succeeds: the new entry points at what head_   *)
(* still is, so it becomes the first of the Notify's list.                 *)
LEMMA PushLinks ==
  ASSUME IInv, NEW a \in Awaiters, Push(a),
         NEW H \in SUBSET Awaiters, NEW T \in [Notifiers -> SUBSET Awaiters], Good(H, T)
  PROVE  IInv' /\ Good(H \cup {a}, T)'
<1> USE DEF AwaiterAt
<1>1. Good(H, T) OBVIOUS
<1> DEFINE G == H \cup {a}
<1>2. /\ apc[a] = "cas" /\ apc' = [apc EXCEPT ![a] = "parked"] /\ head' = a
      /\ next[a] = head /\ UNCHANGED <<fired, next, old_head, npc, current, spawned, returned>>
  BY DEF IInv, Linked, Push
<1>3. TypeOK' /\ Linked' /\ Waited' /\ Holding'
  <2>1. TypeOK' BY <1>2 DEF IInv, TypeOK, AwaiterLocs
  <2>2. Linked' BY <1>2 DEF IInv, TypeOK, Linked
  <2>3. Waited' BY <1>2 DEF IInv, TypeOK, Waited
  <2>4. Holding' BY <1>2 DEF IInv, Holding
  <2> QED BY <2>1, <2>2, <2>3, <2>4
<1>4. ~On(H, T, a) BY <1>1, <1>2 DEF Good, Lists
<1>5. \A b \in Awaiters : On(G, T, b) <=> b = a \/ On(H, T, b) BY DEF On
<1>6. \A b \in Awaiters : On(H, T, b) => next[b] # a
  BY <1>1, <1>4 DEF Good, Lists, On
<1>7. next[a] # a /\ (head \in Awaiters => head \in H)
  BY <1>1, <1>2, <1>4 DEF Good, Firsts, First, On
<1>8. spawned[a] = 0 BY <1>2 DEF IInv, TypeOK, Waited
<1>9. \A b \in Awaiters : On(H, T, b) /\ head \in Awaiters => next[b] # head
  BY <1>1 DEF Good, Firsts, First
<1>10. Lists(G, T)'
  <2>1. \A b \in Awaiters : On(G, T, b)' => apc'[b] = "parked" /\ spawned'[b] = 0
    BY <1>1, <1>2, <1>5, <1>8 DEF IInv, TypeOK, Good, Lists, On
  <2>2. \A n \in Notifiers : T[n] \cap G = {} BY <1>1, <1>4 DEF Good, Lists, On
  <2>3. \A b \in G : next'[b] \in Awaiters => next'[b] \in G
    BY <1>1, <1>2, <1>7 DEF Good, Lists
  <2>4. \A b, c \in Awaiters :
          On(G, T, b) /\ On(G, T, c) /\ b # c /\ next[b] \in Awaiters => next[b] # next[c]
    BY <1>1, <1>2, <1>5, <1>9 DEF Good, Lists
  <2>5. \A b \in Awaiters : On(G, T, b)' <=> On(G, T, b) BY DEF On
  <2> HIDE DEF G
  <2> QED BY <1>1, <1>2, <2>1, <2>2, <2>3, <2>4, <2>5 DEF Good, Lists
<1>11. Firsts(G, T)'
  <2>1. First(G, T, G, head)' BY <1>2, <1>5, <1>6, <1>7 DEF First, On
  <2>2. ASSUME NEW n \in Notifiers, NEW p, First(H, T, T[n], p)
        PROVE  (First(G, T, T[n], p))'
    <3>1. p \in Awaiters => p \in T[n] /\ p # next[a]
      BY <1>1, <1>2, <1>7, <2>2 DEF First, Good, Lists
    <3> QED BY <1>2, <1>5, <2>2, <3>1 DEF First, On
  <2> HIDE DEF G
  <2>3. \A n \in Notifiers : npc[n] = "loop" => (First(G, T, T[n], current[n]))'
    BY <1>1, <1>2, <2>2 DEF Good, Firsts, First, On
  <2>4. \A n \in Notifiers : npc[n] = "advance" => (First(G, T, T[n], next[current[n]]))'
    BY <1>1, <1>2, <2>2 DEF Good, Firsts, First, On
  <2> QED BY <1>2, <2>1, <2>3, <2>4 DEF Firsts
<1>12. G \in SUBSET Awaiters OBVIOUS
<1>13. Tight(G, T)'
  <2>1. Spans(next, a, G)
    <3>1. Spans(next, next[a], H) BY <1>1, <1>2 DEF Good, Tight
    <3> QED BY <3>1, SpansPush
  <2>2. \A b \in Awaiters : apc'[b] = "parked" => b = a \/ apc[b] = "parked"
    BY <1>2 DEF IInv, TypeOK
  <2>3. \A b \in Awaiters : On(G, T, b)' <=> On(G, T, b) BY DEF On
  <2> HIDE DEF G
  <2>4. (\A n \in Notifiers : npc'[n] # "wild")
          => \A b \in Awaiters : apc'[b] = "parked" /\ spawned'[b] = 0 => On(G, T, b)'
    BY <1>1, <1>2, <1>5, <2>2, <2>3 DEF Good, Tight
  <2> QED BY <1>1, <1>2, <2>1, <2>4 DEF Good, Tight
<1>14. Good(G, T)' BY <1>10, <1>11, <1>13 DEF Good
<1>15. IInv'
  <2> HIDE DEF G
  <2> QED BY <1>3, <1>12, <1>14 DEF IInv
<1> QED BY <1>14, <1>15

(* head_.exchange(nullptr): the whole list changes hands.                  *)
LEMMA ExchangeTakes ==
  ASSUME IInv, NEW n \in Notifiers, ExchangeHead(n),
         NEW H \in SUBSET Awaiters, NEW T \in [Notifiers -> SUBSET Awaiters], Good(H, T)
  PROVE  IInv' /\ Good({}, [T EXCEPT ![n] = @ \cup H])'
<1> USE DEF NotifierAt
<1>1. Good(H, T) OBVIOUS
<1> DEFINE S == [T EXCEPT ![n] = @ \cup H]
<1>2. /\ npc' = [npc EXCEPT ![n] = "loop"] /\ current' = [current EXCEPT ![n] = head]
      /\ head' = Null /\ UNCHANGED <<fired, next, old_head, apc, spawned, returned>>
  BY DEF ExchangeHead
<1>3. TypeOK' /\ Linked' /\ Waited' /\ Holding'
  <2>1. TypeOK' BY <1>2 DEF IInv, TypeOK, NotifierLocs
  <2>2. Linked' /\ Waited' BY <1>2 DEF IInv, Linked, Waited
  <2>3. Holding' BY <1>2 DEF IInv, TypeOK, Holding, Pointers
  <2> QED BY <2>1, <2>2, <2>3
<1>4. S[n] = T[n] \cup H /\ \A m \in Notifiers : m # n => S[m] = T[m] OBVIOUS
<1>5. S \in [Notifiers -> SUBSET Awaiters] OBVIOUS
<1> HIDE DEF S
<1>6. \A a \in Awaiters : On({}, S, a) <=> On(H, T, a) BY <1>4 DEF On
<1>7. Lists({}, S)'
  <2>1. \A a \in Awaiters : On({}, S, a)' <=> On(H, T, a) BY <1>6 DEF On
  <2>2. \A l, m \in Notifiers : l # m => S[l] \cap S[m] = {}
    BY <1>1, <1>4 DEF Good, Lists
  <2>3. \A m \in Notifiers : \A a \in S[m] : next[a] \in Awaiters => next[a] \in S[m]
    BY <1>1, <1>4 DEF Good, Lists
  <2> QED BY <1>1, <1>2, <2>1, <2>2, <2>3 DEF Good, Lists
<1>8. Firsts({}, S)'
  <2>1. (First({}, S, {}, head))' BY <1>2, NotifyAssumption DEF First
  <2>2. \A m \in Notifiers : \A p : First(H, T, T[m], p) => (First({}, S, S[m], p))'
    BY <1>2, <1>4, <1>6 DEF First, On
  <2>3. \A p : First(H, T, H, p) => (First({}, S, S[n], p))'
    BY <1>2, <1>4, <1>6 DEF First, On
  <2>4. \A m \in Notifiers : m # n => npc'[m] = npc[m] /\ current'[m] = current[m]
    BY <1>2 DEF IInv, TypeOK
  <2>5. npc'[n] = "loop" /\ current'[n] = head BY <1>2 DEF IInv, TypeOK
  <2>6. ASSUME NEW m \in Notifiers
        PROVE  /\ npc'[m] = "loop" => (First({}, S, S[m], current[m]))'
               /\ npc'[m] = "advance" => (First({}, S, S[m], next[current[m]]))'
    <3>1. CASE m = n BY <1>1, <2>3, <2>5, <3>1 DEF Good, Firsts, First, On
    <3>2. CASE m # n BY <1>1, <1>2, <2>2, <2>4, <3>2, SMTT(20) DEF Good, Firsts, First, On
    <3> QED BY <3>1, <3>2
  <2> QED BY <2>1, <2>6 DEF Firsts
<1>9. Tight({}, S)'
  <2>1. Spans(next', head', {}) BY SMTT(20) DEF Spans
  <2>2. T[n] = {} BY <1>1 DEF Good, Tight, ExchangeHead
  <2>3. S[n] = H BY <1>4, <2>2
  <2>4. \A m \in Notifiers : m # n => npc'[m] = npc[m] /\ current'[m] = current[m]
    BY <1>2 DEF IInv, TypeOK
  <2>5. npc'[n] = "loop" /\ current'[n] = head BY <1>2 DEF IInv, TypeOK
  <2>6. ASSUME NEW m \in Notifiers
        PROVE  /\ npc'[m] = "loop" => Spans(next', current'[m], S[m])
               /\ npc'[m] = "advance" => Spans(next', next'[current'[m]], S[m])
               /\ npc'[m] \in {"store", "exchange", "done"} => S[m] = {}
    <3>1. CASE m = n BY <1>1, <1>2, <2>3, <2>5, <3>1, SMTT(20) DEF Good, Tight
    <3>2. CASE m # n BY <1>1, <1>2, <1>4, <2>4, <3>2 DEF Good, Tight
    <3> QED BY <3>1, <3>2
  <2>7. (\A m \in Notifiers : npc'[m] # "wild")
          => \A a \in Awaiters : apc'[a] = "parked" /\ spawned'[a] = 0 => On({}, S, a)'
    <3>1. \A a \in Awaiters : On({}, S, a)' <=> On(H, T, a) BY <1>6 DEF On
    <3>2. npc[n] # "wild" BY DEF ExchangeHead
    <3> QED BY <1>1, <1>2, <2>4, <3>1, <3>2 DEF Good, Tight
  <2> QED BY <2>1, <2>6, <2>7 DEF Tight
<1>10. Good({}, S)' BY <1>7, <1>8, <1>9 DEF Good
<1>11. IInv' BY <1>3, <1>5, <1>10 DEF IInv
<1> QED BY <1>10, <1>11 DEF S

(* spawn(current->continuation): the first entry leaves the taken list.    *)
LEMMA SpawnTakesFirst ==
  ASSUME IInv, NEW n \in Notifiers, SpawnCurrent(n), NEW c \in Awaiters, c = current[n],
         NEW H \in SUBSET Awaiters, NEW T \in [Notifiers -> SUBSET Awaiters], Good(H, T)
  PROVE  IInv' /\ Good(H, [T EXCEPT ![n] = @ \ {c}])'
<1> USE DEF NotifierAt
<1>1. Good(H, T) OBVIOUS
<1>2. c = current[n] OBVIOUS
<1> DEFINE S == [T EXCEPT ![n] = @ \ {c}]
<1>3. /\ npc[n] = "loop" /\ npc' = [npc EXCEPT ![n] = "advance"]
      /\ spawned' = [spawned EXCEPT ![c] = @ + 1]
      /\ UNCHANGED <<fired, head, next, old_head, apc, current, returned>>
  BY <1>2, SMTT(20) DEF SpawnCurrent
<1>4. c \in T[n] /\ \A a \in Awaiters : On(H, T, a) => next[a] # c
  BY <1>1, <1>2, <1>3 DEF Good, Firsts, First
<1>5. On(H, T, c) /\ apc[c] = "parked" BY <1>1, <1>4 DEF Good, Lists, On
<1>6. TypeOK' /\ Linked' /\ Waited' /\ Holding'
  <2>1. TypeOK' BY <1>3 DEF IInv, TypeOK, NotifierLocs
  <2>2. Linked' BY <1>3 DEF IInv, Linked
  <2>3. Waited' BY <1>3, <1>5 DEF IInv, TypeOK, Waited
  <2>4. Holding' BY <1>2, <1>3 DEF IInv, TypeOK, Holding, Pointers
  <2> QED BY <2>1, <2>2, <2>3, <2>4
<1>7. S[n] = T[n] \ {c} /\ \A m \in Notifiers : m # n => S[m] = T[m] OBVIOUS
<1>8. S \in [Notifiers -> SUBSET Awaiters] OBVIOUS
<1> HIDE DEF S
<1>9. \A a \in Awaiters : On(H, S, a) <=> On(H, T, a) /\ a # c
  <2>1. c \notin H /\ \A m \in Notifiers : m # n => c \notin T[m]
    BY <1>1, <1>4 DEF Good, Lists
  <2> QED BY <1>7, <2>1 DEF On
<1>10. \A a \in Awaiters : On(H, S, a)' <=> On(H, S, a) BY SMTT(20) DEF On
<1>11. Lists(H, S)'
  <2>1. \A a \in Awaiters : On(H, S, a)' => apc'[a] = "parked" /\ spawned'[a] = 0
    BY <1>1, <1>3, <1>9, <1>10, SMTT(20) DEF IInv, TypeOK, Good, Lists
  <2>2. /\ \A m \in Notifiers : S[m] \cap H = {}
        /\ \A l, m \in Notifiers : l # m => S[l] \cap S[m] = {}
    BY <1>1, <1>7 DEF Good, Lists
  <2>3. \A m \in Notifiers : \A a \in S[m] : next[a] \in Awaiters => next[a] \in S[m]
    BY <1>1, <1>4, <1>7 DEF Good, Lists, On
  <2>4. \A a, b \in Awaiters :
          On(H, S, a) /\ On(H, S, b) /\ a # b /\ next[a] \in Awaiters => next[a] # next[b]
    BY <1>1, <1>9 DEF Good, Lists
  <2> QED BY <1>1, <1>3, <1>10, <2>1, <2>2, <2>3, <2>4 DEF Good, Lists
<1>12. Firsts(H, S)'
  <2>1. \A m \in Notifiers : \A p :
          First(H, T, T[m], p) /\ m # n => (First(H, S, S[m], p))'
    BY <1>3, <1>7, <1>9, <1>10 DEF First
  <2>2. (First(H, S, H, head))' BY <1>1, <1>3, <1>9, <1>10 DEF Good, Firsts, First
  <2>3. \A p : p = next[c] => (First(H, S, S[n], p))'
    <3>1. next[c] \in Awaiters => next[c] \in S[n]
      BY <1>1, <1>4, <1>5, <1>7 DEF Good, Lists
    <3>2. \A a \in Awaiters : On(H, S, a) /\ next[c] \in Awaiters => next[a] # next[c]
      BY <1>1, <1>5, <1>9 DEF Good, Lists
    <3> QED BY <1>3, <1>10, <3>1, <3>2 DEF First
  <2>4. npc'[n] = "advance" /\ \A m \in Notifiers : m # n => npc'[m] = npc[m]
    BY <1>3 DEF IInv, TypeOK
  <2>5. ASSUME NEW m \in Notifiers
        PROVE  /\ npc'[m] = "loop" => (First(H, S, S[m], current[m]))'
               /\ npc'[m] = "advance" => (First(H, S, S[m], next[current[m]]))'
    <3>1. CASE m = n BY <1>2, <1>3, <2>3, <2>4, <3>1, SMTT(20) DEF First, On
    <3>2. CASE m # n
      <4>1. /\ npc[m] = "loop" => First(H, T, T[m], current[m])
            /\ npc[m] = "advance" => First(H, T, T[m], next[current[m]])
        BY <1>1 DEF Good, Firsts
      <4>2. npc'[m] = npc[m] BY <2>4, <3>2
      <4>3. ASSUME npc'[m] = "loop" PROVE (First(H, S, S[m], current[m]))'
        BY <1>3, <2>1, <3>2, <4>1, <4>2, <4>3, SMTT(20) DEF First
      <4>4. ASSUME npc'[m] = "advance" PROVE (First(H, S, S[m], next[current[m]]))'
        BY <1>3, <2>1, <3>2, <4>1, <4>2, <4>4, SMTT(20) DEF First
      <4> QED BY <4>3, <4>4
    <3> QED BY <3>1, <3>2
  <2> QED BY <2>2, <2>5 DEF Firsts
<1>13. Tight(H, S)'
  <2>1. Spans(next, next[c], S[n])
    <3>1. Spans(next, c, T[n]) BY <1>1, <1>2, <1>3 DEF Good, Tight
    <3> QED BY <1>7, <3>1, SpansPop
  <2>2. npc'[n] = "advance" /\ \A m \in Notifiers : m # n => npc'[m] = npc[m]
    BY <1>3 DEF IInv, TypeOK
  <2>3. ASSUME NEW m \in Notifiers
        PROVE  /\ npc'[m] = "loop" => Spans(next', current'[m], S[m])
               /\ npc'[m] = "advance" => Spans(next', next'[current'[m]], S[m])
               /\ npc'[m] \in {"store", "exchange", "done"} => S[m] = {}
    <3>1. CASE m = n BY <1>2, <1>3, <2>1, <2>2, <3>1
    <3>2. CASE m # n BY <1>1, <1>3, <1>7, <2>2, <3>2 DEF Good, Tight
    <3> QED BY <3>1, <3>2
  <2>4. spawned'[c] # 0 /\ \A a \in Awaiters : a # c => spawned'[a] = spawned[a]
    BY <1>3, SMTT(20) DEF IInv, TypeOK
  <2>5. (\A m \in Notifiers : npc'[m] # "wild")
          => \A a \in Awaiters : apc'[a] = "parked" /\ spawned'[a] = 0 => On(H, S, a)'
    BY <1>1, <1>3, <1>9, <1>10, <2>2, <2>4 DEF Good, Tight
  <2> QED BY <1>1, <1>3, <2>3, <2>5 DEF Good, Tight
<1>14. Good(H, S)' BY <1>11, <1>12, <1>13 DEF Good
<1>15. IInv' BY <1>6, <1>8, <1>14 DEF IInv
<1> QED BY <1>14, <1>15 DEF S

(* The other steps of notify_all() move no entry between the lists. The    *)
(* read of next in a dead Awaiter may end in the "wild" state, of which    *)
(* nothing is claimed.                                                     *)
LEMMA NotifierAlone ==
  ASSUME IInv, NEW n \in Notifiers, StoreFired(n) \/ Advance(n) \/ NotifyReturns(n),
         NEW H \in SUBSET Awaiters, NEW T \in [Notifiers -> SUBSET Awaiters], Good(H, T)
  PROVE  IInv' /\ Good(H, T)'
<1> USE DEF NotifierAt
<1>1. Good(H, T) OBVIOUS
<1>2. /\ UNCHANGED <<head, next, old_head, apc, spawned, returned>> /\ fired' \in BOOLEAN
      /\ npc' \in [Notifiers -> NotifierLocs]
      /\ \A m \in Notifiers : m # n => npc'[m] = npc[m] /\ current'[m] = current[m]
  BY Zenon DEF IInv, TypeOK, NotifierLocs, StoreFired, Advance, NotifyReturns
<1>3. /\ npc'[n] # "advance"
      /\ npc'[n] = "loop" => /\ npc[n] = "advance" /\ current[n] \in Awaiters
                             /\ current'[n] = next[current[n]]
  BY DEF IInv, TypeOK, Holding, NextReads, StoreFired, Advance, NotifyReturns
<1>4. TypeOK' /\ Linked' /\ Waited' /\ Holding'
  <2>1. current' \in [Notifiers -> Awaiters \cup {Null, Wild}]
    BY DEF IInv, TypeOK, Holding, NextReads, StoreFired, Advance, NotifyReturns
  <2>2. TypeOK' BY <1>2, <2>1, SMTT(20) DEF IInv, TypeOK
  <2>3. Linked' /\ Waited' BY <1>2 DEF IInv, Linked, Waited
  <2>4. Holding' BY <1>2, <1>3 DEF IInv, TypeOK, Holding, Pointers
  <2> QED BY <2>2, <2>3, <2>4
<1>5. \A a \in Awaiters : On(H, T, a)' <=> On(H, T, a) BY SMTT(20) DEF On
<1>6. Lists(H, T)' BY <1>1, <1>2, <1>5 DEF Good, Lists
<1>7. Firsts(H, T)'
  <2>1. ASSUME NEW m \in Notifiers
        PROVE  /\ npc'[m] = "loop" => (First(H, T, T[m], current[m]))'
               /\ npc'[m] = "advance" => (First(H, T, T[m], next[current[m]]))'
    <3>1. CASE m = n
      <4>1. npc[n] = "advance" => First(H, T, T[n], next[current[n]])
        BY <1>1 DEF Good, Firsts
      <4>2. ASSUME npc'[n] = "loop" PROVE (First(H, T, T[n], current[n]))'
        <5>1. First(H, T, T[n], current'[n]) BY <1>3, <4>1, <4>2, SMTT(20)
        <5> QED BY <1>2, <1>5, <5>1 DEF First
      <4> QED BY <1>3, <3>1, <4>2
    <3>2. CASE m # n
      <4>1. npc'[m] = npc[m] /\ current'[m] = current[m] /\ next' = next
        BY <1>2, <3>2
      <4>2. /\ npc[m] = "loop" => First(H, T, T[m], current[m])
            /\ npc[m] = "advance" => First(H, T, T[m], next[current[m]])
        BY <1>1, SMTT(20) DEF Good, Firsts
      <4> QED BY <1>5, <4>1, <4>2 DEF First
    <3> QED BY <3>1, <3>2
  <2>2. (First(H, T, H, head))' BY <1>1, <1>2, <1>5, SMTT(20) DEF Good, Firsts, First
  <2> QED BY <2>1, <2>2 DEF Firsts
<1>8. Tight(H, T)'
  <2>1. ASSUME NEW m \in Notifiers
        PROVE  /\ npc'[m] = "loop" => Spans(next', current'[m], T[m])
               /\ npc'[m] = "advance" => Spans(next', next'[current'[m]], T[m])
               /\ npc'[m] \in {"store", "exchange", "done"} => T[m] = {}
    <3>1. CASE m = n
      <4>1. npc'[n] = "exchange" => npc[n] = "store"
        BY DEF IInv, TypeOK, StoreFired, Advance, NotifyReturns
      <4>2. npc'[n] # "store"
        BY DEF IInv, TypeOK, StoreFired, Advance, NotifyReturns
      <4>3. npc'[n] = "done" => npc[n] = "loop" /\ current[n] = Null
        BY DEF IInv, TypeOK, StoreFired, Advance, NotifyReturns
      <4>4. Spans(next, Null, T[n]) => T[n] = {}
        <5>1. {} \in SUBSET Awaiters /\ \A a \in {} : FALSE OBVIOUS
        <5>2. Spans(next, Null, T[n]) => T[n] \subseteq {}
          BY <5>1, NotifyAssumption, ZenonT(30) DEF Spans
        <5> QED BY <5>2
      <4> QED BY <1>1, <1>2, <1>3, <3>1, <4>1, <4>2, <4>3, <4>4 DEF Good, Tight
    <3>2. CASE m # n
      <4>1. npc'[m] = npc[m] /\ current'[m] = current[m] /\ next' = next
        BY <1>2, <3>2, Zenon
      <4>2. /\ npc[m] = "loop" => Spans(next, current[m], T[m])
            /\ npc[m] = "advance" => Spans(next, next[current[m]], T[m])
            /\ npc[m] \in {"store", "exchange", "done"} => T[m] = {}
        BY <1>1, ZenonT(30) DEF Good, Tight
      <4> QED BY <4>1, <4>2, ZenonT(30)
    <3> QED BY <3>1, <3>2, Zenon
  <2>2. (\A m \in Notifiers : npc'[m] # "wild")
          => \A a \in Awaiters : apc'[a] = "parked" /\ spawned'[a] = 0 => On(H, T, a)'
    <3>1. npc[n] # "wild" BY DEF StoreFired, Advance, NotifyReturns
    <3> QED BY <1>1, <1>2, <1>5, <3>1 DEF Good, Tight
  <2> QED BY <1>1, <1>2, <2>1, <2>2, ZenonT(30) DEF Good, Tight
<1>9. Good(H, T)' BY <1>6, <1>7, <1>8 DEF Good
<1> QED BY <1>4, <1>9 DEF IInv

(* The blocked thread touches no list.                                     *)
LEMMA OthersAlone ==
  ASSUME IInv, wait_blocking \/ UNCHANGED vars,
         NEW H \in SUBSET Awaiters, NEW T \in [Notifiers -> SUBSET Awaiters], Good(H, T)
  PROVE  IInv' /\ Good(H, T)'
<1>1. UNCHANGED <<fired, head, next, old_head, apc, npc, current, spawned>>
      /\ returned' \in BOOLEAN
  BY ZenonT(30) DEF IInv, TypeOK, wait_blocking, vars
<1>2. TypeOK' BY <1>1 DEF IInv, TypeOK
<1>3. Linked' /\ Waited' /\ Holding' BY <1>1 DEF IInv, Linked, Waited, Holding
<1>4. \A a \in Awaiters : On(H, T, a)' <=> On(H, T, a) BY SMTT(20) DEF On
<1>5. Lists(H, T)' BY <1>1, <1>4 DEF Good, Lists
<1>6. Firsts(H, T)' BY <1>1, <1>4, SMTT(20) DEF Good, Firsts, First
<1>7. Tight(H, T)' BY <1>1, <1>4 DEF Good, Tight
<1>8. Good(H, T)' BY <1>5, <1>6, <1>7 DEF Good
<1> QED BY <1>2, <1>3, <1>8 DEF IInv

LEMMA NextInv == IInv /\ [Next]_vars => IInv'
<1> SUFFICES ASSUME IInv, [Next]_vars PROVE IInv' OBVIOUS
<1>0. PICK H \in SUBSET Awaiters, T \in [Notifiers -> SUBSET Awaiters] : Good(H, T)
  BY DEF IInv
<1>1. ASSUME NEW a \in Awaiters, AwaiterStep(a) PROVE IInv'
  BY <1>0, <1>1, CoroutineAlone, PushLinks DEF AwaiterStep
<1>2. ASSUME NEW n \in Notifiers, NotifierStep(n) PROVE IInv'
  <2>1. SpawnCurrent(n) => current[n] \in Awaiters
    BY DEF IInv, Holding, Pointers, SpawnCurrent, NotifierAt
  <2> QED BY <1>0, <1>2, <2>1, NotifierAlone, ExchangeTakes, SpawnTakesFirst DEF NotifierStep
<1>3. CASE wait_blocking \/ UNCHANGED vars
  BY <1>0, <1>3, OthersAlone
<1> QED BY <1>1, <1>2, <1>3 DEF Next

LEMMA IInvHolds == Spec => []IInv
BY InitInv, NextInv, PTL DEF Spec

-----------------------------------------------------------------------------
(* The fields keep their types; head_ and next never hold the wild pointer *)
(* that a notifier may have read out of a dead Awaiter. About Notify.      *)
THEOREM NotifyTypeCorrect == Spec => []TypeOK
<1>1. IInv => TypeOK BY DEF IInv
<1> QED BY <1>1, IInvHolds, PTL

(* A step that spawns a continuation spawns a suspended one, for the first *)
(* time.                                                                   *)
LEMMA StepSpawnsOnce ==
  ASSUME IInv, [Next]_vars, NEW a \in Awaiters, spawned'[a] # spawned[a]
  PROVE  apc[a] = "parked" /\ spawned[a] = 0 /\ spawned'[a] = 1
<1>1. spawned' # spawned OBVIOUS
<1>2. PICK n \in Notifiers : SpawnCurrent(n)
  BY <1>1, SMTT(20) DEF Next, vars, AwaiterStep, NotifierStep, await_ready, LoadHead, LinkNext,
     Push, PushFails, Resumed, StoreFired, ExchangeHead, Advance, NotifyReturns,
     wait_blocking
<1>3. npc[n] = "loop" /\ current[n] \in Awaiters
  BY <1>2 DEF IInv, Holding, Pointers, SpawnCurrent, NotifierAt
<1>4. a = current[n] /\ spawned'[a] = spawned[a] + 1
  BY <1>2, <1>3 DEF IInv, TypeOK, SpawnCurrent
<1>5. PICK H \in SUBSET Awaiters, T \in [Notifiers -> SUBSET Awaiters] : Good(H, T)
  BY DEF IInv
<1>6. On(H, T, a) BY <1>3, <1>4, <1>5, SMTT(20) DEF Good, Firsts, First, On
<1>7. apc[a] = "parked" /\ spawned[a] = 0 BY <1>5, <1>6 DEF Good, Lists
<1> QED BY <1>4, <1>7

(* notify_all() spawns every continuation at most once and only when its   *)
(* coroutine is suspended, however many notify_all() and push_awaiter_     *)
(* interleave.                                                             *)
THEOREM SpawnedOnceHolds == Spec => SpawnedOnce
<1>1. IInv /\ [Next]_vars =>
        [\A a \in Awaiters : spawned'[a] # spawned[a] =>
           apc[a] = "parked" /\ spawned[a] = 0 /\ spawned'[a] = 1]_vars
  BY StepSpawnsOnce
<1> QED BY <1>1, IInvHolds, PTL DEF Spec, SpawnedOnce

(* List(p), the least closed set that holds p, is what a set of the        *)
(* invariant that starts at p consists of.                                 *)
LEMMA ListIs ==
  ASSUME NEW p, NEW D \in SUBSET Awaiters, Spans(next, p, D),
         p \in Awaiters => p \in D,
         \A a \in D : next[a] \in Awaiters => next[a] \in D
  PROVE  List(p) = D
BY DEF List, Closed, Spans

(* The same when the first entry was spawned and next is not read yet.     *)
LEMMA ListBehind ==
  ASSUME NEW c \in Awaiters, NEW D \in SUBSET Awaiters, Spans(next, next[c], D),
         c \notin D, next[c] \in Awaiters => next[c] \in D,
         \A a \in D : next[a] \in Awaiters => next[a] \in D
  PROVE  List(c) \ {c} = D
<1>1. Spans(next, c, D \cup {c}) BY SpansPush
<1>2. List(c) = D \cup {c} BY <1>1, ListIs
<1> QED BY <1>2

(* The sets of the invariant are the lists one reads along next; nothing   *)
(* is read of a notifier that went astray.                                 *)
LEMMA ListsAre ==
  \A H \in SUBSET Awaiters, T \in [Notifiers -> SUBSET Awaiters] :
    IInv /\ Good(H, T) =>
      /\ List(head) = H
      /\ \A n \in Notifiers : Taken(n) = IF npc[n] = "wild" THEN {} ELSE T[n]
<1> TAKE H \in SUBSET Awaiters, T \in [Notifiers -> SUBSET Awaiters]
<1>1. SUFFICES ASSUME IInv, Good(H, T)
               PROVE  /\ List(head) = H
                      /\ \A n \in Notifiers : Taken(n) = IF npc[n] = "wild" THEN {} ELSE T[n]
  OBVIOUS
<1>2. List(head) = H
  <2>1. Spans(next, head, H) BY <1>1 DEF Good, Tight
  <2>2. head \in Awaiters => head \in H BY <1>1 DEF Good, Firsts, First
  <2>3. \A a \in H : next[a] \in Awaiters => next[a] \in H BY <1>1 DEF Good, Lists
  <2> QED BY <2>1, <2>2, <2>3, ListIs
<1>3. ASSUME NEW n \in Notifiers
      PROVE  Taken(n) = IF npc[n] = "wild" THEN {} ELSE T[n]
  <2>1. CASE npc[n] = "loop"
    <3>1. List(current[n]) = T[n]
      <4>1. Spans(next, current[n], T[n]) BY <1>1, <2>1 DEF Good, Tight
      <4>2. current[n] \in Awaiters => current[n] \in T[n]
        BY <1>1, <2>1 DEF Good, Firsts, First
      <4>3. T[n] \in SUBSET Awaiters /\ \A a \in T[n] : next[a] \in Awaiters => next[a] \in T[n]
        BY <1>1 DEF Good, Lists
      <4> QED BY <4>1, <4>2, <4>3, ListIs
    <3> QED BY <2>1, <3>1 DEF Taken
  <2>2. CASE npc[n] = "advance"
    <3>1. current[n] \in Awaiters /\ spawned[current[n]] > 0
      BY <1>1, <2>2 DEF IInv, Holding
    <3>2. current[n] \notin T[n] BY <1>1, <3>1, SMTT(20) DEF Good, Lists, On
    <3>3. List(current[n]) \ {current[n]} = T[n]
      BY <1>1, <2>2, <3>1, <3>2, ListBehind DEF Good, Lists, Firsts, First, Tight
    <3> QED BY <2>2, <3>3 DEF Taken
  <2>3. CASE npc[n] \in {"store", "exchange", "done"}
    BY <1>1, <2>3 DEF Good, Tight, Taken
  <2>4. CASE npc[n] = "wild" BY <2>4 DEF Taken
  <2> QED BY <1>1, <2>1, <2>2, <2>3, <2>4 DEF IInv, TypeOK, NotifierLocs
<1> QED BY <1>2, <1>3

LEMMA PartitionFollows == IInv => ListsPartition
<1> SUFFICES ASSUME IInv PROVE ListsPartition OBVIOUS
<1>1. PICK H \in SUBSET Awaiters, T \in [Notifiers -> SUBSET Awaiters] : Good(H, T)
  BY DEF IInv
<1>2. List(head) = H BY <1>1, ListsAre
<1>3. \A n \in Notifiers : Taken(n) = IF npc[n] = "wild" THEN {} ELSE T[n] BY <1>1, ListsAre
<1>4. \A n \in Notifiers : T[n] \subseteq Unspawned \ H
  BY <1>1 DEF Good, Lists, On, Unspawned
<1>5. H \subseteq Unspawned BY <1>1 DEF Good, Lists, On, Unspawned
<1>6. \A m, n \in Notifiers : m # n => T[m] \cap T[n] = {} BY <1>1 DEF Good, Lists
<1>7. ASSUME \A n \in Notifiers : npc[n] # "wild"
      PROVE  Unspawned = H \cup UNION {T[n] : n \in Notifiers}
  <2>1. \A a \in Unspawned : On(H, T, a) BY <1>1, <1>7 DEF Good, Tight, Unspawned
  <2> QED BY <1>4, <1>5, <2>1 DEF On
<1>8. /\ \A n \in Notifiers : Taken(n) \subseteq Unspawned \ H
      /\ \A m, n \in Notifiers : m # n => Taken(m) \cap Taken(n) = {}
  BY <1>3, <1>4, <1>6
<1>9. ASSUME \A n \in Notifiers : npc[n] # "wild"
      PROVE  Unspawned = H \cup UNION {Taken(n) : n \in Notifiers}
  BY <1>3, <1>7, <1>9
<1> QED BY <1>2, <1>5, <1>8, <1>9 DEF ListsPartition

(* Every suspended awaiter that was not spawned yet is on exactly one      *)
(* list, the Notify's or one that a notify_all() is walking, and these     *)
(* hold nothing else, for any awaiters and notifiers: push_awaiter_ racing *)
(* head_.exchange loses no entry and shares none.                          *)
THEOREM ListsPartitionHolds == Spec => []ListsPartition
BY PartitionFollows, IInvHolds, PTL

-----------------------------------------------------------------------------
(* The abstract state, before and after a step, from the sets of the       *)
(* invariant.                                                              *)
Batches(T) == [n \in Notifiers |-> IF npc[n] = "wild" THEN {} ELSE T[n]]

LEMMA SetIs ==
  \A H \in SUBSET Awaiters, T \in [Notifiers -> SUBSET Awaiters] :
    IInv /\ Good(H, T) => waiting = H /\ batch = Batches(T)
BY ListsAre DEF waiting, batch, Batches

LEMMA SetBecomes ==
  (\A H \in SUBSET Awaiters, T \in [Notifiers -> SUBSET Awaiters] :
     IInv /\ Good(H, T) => waiting = H /\ batch = Batches(T))'
BY SetIs, PTL

(* The compare-and-exchange puts one coroutine into the set.               *)
LEMMA PushAdds ==
  ASSUME IInv, NEW a \in Awaiters, Push(a)
  PROVE  Set!Push(a)
<1>1. PICK H \in SUBSET Awaiters, T \in [Notifiers -> SUBSET Awaiters] : Good(H, T)
  BY DEF IInv
<1>2. waiting = H /\ batch = Batches(T) BY <1>1, SetIs
<1>3. waiting' = H \cup {a} /\ batch' = Batches(T)'
  <2>1. H \cup {a} \in SUBSET Awaiters OBVIOUS
  <2>2. IInv' /\ Good(H \cup {a}, T)' BY <1>1, PushLinks
  <2> QED BY <2>1, <2>2, SetBecomes
<1>4. apc[a] = "cas" /\ UNCHANGED <<npc, spawned>> BY SMTT(20) DEF Push, AwaiterAt
<1>5. ~On(H, T, a) /\ ~(spawned[a] > 0) BY <1>1, <1>4 DEF IInv, Waited, Good, Lists
<1>6. a \notin H /\ \A n \in Notifiers : a \notin batch[n]
  BY <1>2, <1>5 DEF On, Batches
<1>7. batch' = batch /\ woken' = woken BY <1>2, <1>3, <1>4 DEF Batches, woken
<1> QED BY <1>2, <1>3, <1>5, <1>6, <1>7 DEF Set!Push, woken

(* head_.exchange takes the set.                                           *)
LEMMA ExchangeTakesAll ==
  ASSUME IInv, NEW n \in Notifiers, ExchangeHead(n)
  PROVE  Set!TakeAll(n)
<1>1. PICK H \in SUBSET Awaiters, T \in [Notifiers -> SUBSET Awaiters] : Good(H, T)
  BY DEF IInv
<1> DEFINE S == [T EXCEPT ![n] = @ \cup H]
<1>2. waiting = H /\ batch = Batches(T) BY <1>1, SetIs
<1>3. waiting' = {} /\ batch' = Batches(S)'
  <2>1. S \in [Notifiers -> SUBSET Awaiters] /\ {} \in SUBSET Awaiters OBVIOUS
  <2>2. IInv' /\ Good({}, S)' BY <1>1, ExchangeTakes
  <2> HIDE DEF S
  <2> QED BY <2>1, <2>2, SetBecomes
<1>4. npc[n] = "exchange" /\ npc' = [npc EXCEPT ![n] = "loop"] /\ UNCHANGED spawned
  BY DEF ExchangeHead, NotifierAt
<1>5. T[n] = {} BY <1>1, <1>4 DEF Good, Tight
<1>6. batch[n] = {} /\ woken' = woken BY <1>2, <1>4, <1>5 DEF Batches, woken
<1>7. batch' = [batch EXCEPT ![n] = waiting]
  BY <1>2, <1>3, <1>4, <1>5 DEF Batches, IInv, TypeOK
<1> QED BY <1>3, <1>6, <1>7 DEF Set!TakeAll

(* spawn() takes one coroutine, not spawned before, out of the batch.      *)
LEMMA SpawnRemoves ==
  ASSUME IInv, NEW n \in Notifiers, SpawnCurrent(n)
  PROVE  \E a \in Awaiters : Set!Spawn(n, a)
<1>1. PICK H \in SUBSET Awaiters, T \in [Notifiers -> SUBSET Awaiters] : Good(H, T)
  BY DEF IInv
<1>2. PICK c \in Awaiters : c = current[n]
  BY DEF IInv, Holding, Pointers, SpawnCurrent, NotifierAt
<1> DEFINE S == [T EXCEPT ![n] = @ \ {c}]
<1>3. waiting = H /\ batch = Batches(T) BY <1>1, SetIs
<1>4. waiting' = H /\ batch' = Batches(S)'
  <2>1. S \in [Notifiers -> SUBSET Awaiters] OBVIOUS
  <2>2. IInv' /\ Good(H, S)' BY <1>1, <1>2, SpawnTakesFirst
  <2> HIDE DEF S
  <2> QED BY <2>1, <2>2, SetBecomes
<1>5. /\ npc[n] = "loop" /\ npc' = [npc EXCEPT ![n] = "advance"]
      /\ spawned' = [spawned EXCEPT ![c] = @ + 1]
  BY <1>2 DEF SpawnCurrent, NotifierAt
<1>6. c \in T[n] /\ spawned[c] = 0
  BY <1>1, <1>2, <1>5 DEF Good, Firsts, First, Lists, On
<1>7. c \in batch[n] BY <1>3, <1>5, <1>6 DEF Batches
<1>8. c \notin woken /\ woken' = woken \cup {c} BY <1>5, <1>6 DEF woken, IInv, TypeOK
<1>9. batch' = [batch EXCEPT ![n] = @ \ {c}]
  BY <1>3, <1>4, <1>5 DEF Batches, IInv, TypeOK
<1> QED BY <1>3, <1>4, <1>7, <1>8, <1>9 DEF Set!Spawn

(* Every other step leaves the set and the batches alone, but that a       *)
(* notifier may lose its own by the read of next in a dead Awaiter.        *)
LEMMA OthersKeep ==
  ASSUME IInv,
         \/ \E a \in Awaiters : \/ await_ready(a) \/ LoadHead(a) \/ LinkNext(a)
                                \/ PushFails(a) \/ Resumed(a)
         \/ \E n \in Notifiers : StoreFired(n) \/ NotifyReturns(n) \/ Advance(n)
         \/ wait_blocking \/ UNCHANGED vars
  PROVE  UNCHANGED <<waiting, batch, woken>> \/ \E n \in Notifiers : Set!GoAstray(n)
<1>1. PICK H \in SUBSET Awaiters, T \in [Notifiers -> SUBSET Awaiters] : Good(H, T)
  BY DEF IInv
<1>2. waiting = H /\ batch = Batches(T) BY <1>1, SetIs
<1>3. IInv' /\ Good(H, T)' BY <1>1, CoroutineAlone, NotifierAlone, OthersAlone
<1>4. waiting' = H /\ batch' = Batches(T)' BY <1>3, SetBecomes
<1>5. spawned' = spawned
  BY DEF await_ready, LoadHead, LinkNext, PushFails, Resumed, StoreFired, NotifyReturns,
         Advance, wait_blocking, vars
<1>6. woken' = woken BY <1>5 DEF woken
<1>7. ASSUME \A n \in Notifiers : npc'[n] = "wild" <=> npc[n] = "wild"
      PROVE  UNCHANGED <<waiting, batch, woken>>
  BY <1>2, <1>4, <1>6, <1>7 DEF Batches
<1>8. ASSUME NEW n \in Notifiers, Advance(n), npc'[n] = "wild"
      PROVE  Set!GoAstray(n)
  <2>1. npc' = [npc EXCEPT ![n] = "wild"] BY <1>8 DEF Advance, NotifierAt, IInv, TypeOK
  <2>2. batch' = [batch EXCEPT ![n] = {}]
    BY <1>2, <1>4, <2>1 DEF Batches, IInv, TypeOK
  <2> QED BY <1>2, <1>4, <1>6, <2>2 DEF Set!GoAstray
<1>9. ASSUME NEW n \in Notifiers, StoreFired(n) \/ NotifyReturns(n) \/ (Advance(n) /\ npc'[n] # "wild")
      PROVE  \A m \in Notifiers : npc'[m] = "wild" <=> npc[m] = "wild"
  BY <1>9 DEF StoreFired, NotifyReturns, Advance, NotifierAt, IInv, TypeOK
<1>10. ASSUME \/ \E a \in Awaiters : \/ await_ready(a) \/ LoadHead(a) \/ LinkNext(a)
                                     \/ PushFails(a) \/ Resumed(a)
              \/ wait_blocking \/ UNCHANGED vars
       PROVE  npc' = npc
  BY <1>10 DEF await_ready, LoadHead, LinkNext, PushFails, Resumed, wait_blocking, vars
<1> QED BY <1>7, <1>8, <1>9, <1>10

LEMMA SetStep == IInv /\ [Next]_vars => [Set!Next]_<<waiting, batch, woken>>
BY PushAdds, ExchangeTakesAll, SpawnRemoves, OthersKeep
   DEF Next, AwaiterStep, NotifierStep, Set!Next

LEMMA SetInit == Init => Set!Init
<1> SUFFICES ASSUME Init PROVE Set!Init OBVIOUS
<1>1. waiting = {}
  <2>1. {} \in SUBSET Awaiters /\ Closed({}) BY DEF Closed
  <2> QED BY <2>1, NotifyAssumption DEF Init, waiting, List
<1>2. batch = [n \in Notifiers |-> {}] BY DEF Init, batch, Taken
<1>3. woken = {} BY DEF Init, woken
<1> QED BY <1>1, <1>2, <1>3 DEF Set!Init

(* The lock-free list implements a set with atomic operations, for any     *)
(* awaiters and notifiers: push_awaiter_ adds one coroutine when its       *)
(* compare-and-exchange succeeds, head_.exchange takes them all, the walk  *)
(* along next spawns each of them once, and a notify_all() that reads a    *)
(* dead Awaiter loses only what it had taken itself.                       *)
THEOREM NotifyImplementsWaitList == Spec => ImplementsWaitList
BY SetInit, SetStep, IInvHolds, PTL DEF Spec, ImplementsWaitList, Set!Spec
=============================================================================
