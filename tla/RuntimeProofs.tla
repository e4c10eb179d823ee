--------------------------- MODULE RuntimeProofs ----------------------------
(***************************************************************************)
(* Safety of the composed runtime for any number of coroutines, workers    *)
(* and operations. The inductive invariant says, for each place a body can *)
(* be in, what the executor, the future and the ring know of it.           *)
(***************************************************************************)
EXTENDS Runtime, TLAPS

(* The state of one coroutine, by where its body is.                       *)
Placed(c) ==
  /\ pc[c] = "body" => op[c] = "none" /\ st[c] # "asleep"
  /\ pc[c] \in {"made", "suspend"} => /\ st[c] = "active"
                                      /\ ~continuation[c] /\ value[c] = 0
  /\ pc[c] = "await" /\ st[c] = "asleep" => continuation[c] /\ value[c] = 0
  /\ pc[c] = "await" /\ st[c] # "asleep" => /\ st[c] \in {"ready", "active"}
                                            /\ op[c] = "none"
                                            /\ value[c] = submitted[c]
  /\ pc[c] # "body" => submitted[c] # 0

(* OwnResults for one coroutine.                                           *)
Own(c) ==
  /\ results[c] = [k \in 1..Len(results[c]) |-> k]
  /\ Len(results[c]) = IF pc[c] = "body" THEN submitted[c] ELSE submitted[c] - 1

(* The inductive invariant.                                                *)
IInv == TypeOK /\ \A c \in Coros : Placed(c) /\ Own(c)

(* The actions that concern one coroutine.                                 *)
CoroStep(c) ==
  \/ Spawn(c) \/ Start(c) \/ Submit(c) \/ await_ready(c) \/ await_suspend(c)
  \/ await_resume(c) \/ Finish(c) \/ Complete(c) \/ Handle(c) \/ HandleReset(c)

(* The steps that end the program: they leave everything else alone.       *)
Ends == \E c \in Coros : SubmitDead(c) \/ HandleThrows(c)

LEMMA NextCases ==
  ASSUME [Next]_vars
  PROVE  (\E c \in Coros : CoroStep(c)) \/ SubmitAll \/ Join \/ LeaveLoop \/ Ends
         \/ UNCHANGED vars
BY Zenon DEF Next, WorkerStep, MainStep, FreeStep, CoroStep, Ends

LEMMA EndsIs ==
  ASSUME Ends
  PROVE  /\ UNCHANGED <<st, pc, submitted, op, continuation, value, results, reset, main>>
         /\ outcome' \in {"ok", "dead_ring", "bad_resize"}
BY DEF Ends, SubmitDead, HandleThrows, future

(* Appending the next number to 1, 2, ..., n gives 1, 2, ..., n + 1.       *)
LEMMA AppendNext ==
  ASSUME NEW S, NEW s \in Seq(S), s = [k \in 1..Len(s) |-> k]
  PROVE  LET t == Append(s, Len(s) + 1) IN t = [k \in 1..Len(t) |-> k]
  OBVIOUS

(* The initial state: nothing has been submitted.                          *)
LEMMA InitIInv == Init => IInv
<1> SUFFICES ASSUME Init PROVE IInv
  OBVIOUS
<1>1. TypeOK
  <2>1. results \in [Coros -> Seq(1..MaxOps)]
    BY DEF Init
  <2>2. /\ continuation \in [Coros -> BOOLEAN] /\ reset \in [Coros -> BOOLEAN]
    BY Zenon DEF Init
  <2>3. /\ submitted \in [Coros -> 0..MaxOps] /\ value \in [Coros -> 0..MaxOps]
        /\ st \in [Coros -> Pool!States]
    BY RuntimeAssumption DEF Init, Pool!Init, Pool!States
  <2>4. QED
    BY <2>1, <2>2, <2>3 DEF Init, TypeOK
<1>2. ASSUME NEW c \in Coros PROVE Placed(c)
  BY DEF Init, Placed, Pool!Init
<1>3. ASSUME NEW c \in Coros PROVE Own(c)
  BY DEF Init, Own
<1>4. QED
  BY <1>1, <1>2, <1>3 DEF IInv

(* A step of one coroutine keeps the types.                                *)
LEMMA CoroStepTypes ==
  ASSUME IInv, NEW c \in Coros, CoroStep(c)
  PROVE  TypeOK'
<1> USE RuntimeAssumption DEF TypeOK, Pool!States, Pool!Move, BodyAt, future
<1>1. CASE Spawn(c)
  BY <1>1 DEF IInv, Spawn, Pool!Spawn
<1>2. CASE Start(c)
  BY <1>2 DEF IInv, Start, Pool!Start
<1>3. CASE Submit(c)
  BY <1>3 DEF IInv, Submit
<1>4. CASE await_ready(c)
  BY <1>4 DEF IInv, await_ready
<1>5. CASE await_suspend(c)
  BY <1>5, Zenon DEF IInv, await_suspend, Pool!Sleep
<1>6. CASE await_resume(c)
  <2>1. value[c] \in 1..MaxOps
    <3>1. Placed(c) /\ submitted[c] \in 0..MaxOps
      BY DEF IInv
    <3>2. st[c] = "active" /\ pc[c] = "await"
      BY <1>6 DEF await_resume
    <3>3. QED
      BY <3>1, <3>2 DEF Placed
  <2>2. results' \in [Coros -> Seq(1..MaxOps)]
    BY <1>6, <2>1 DEF IInv, await_resume
  <2>3. QED
    BY <1>6, <2>2 DEF IInv, await_resume
<1>7. CASE Finish(c)
  BY <1>7 DEF IInv, Finish, Pool!Finish
<1>8. CASE Complete(c)
  BY <1>8 DEF IInv, Complete
<1>9. CASE Handle(c)
  <2>1. st' \in [Coros -> Pool!States] /\ value' \in [Coros -> 0..MaxOps]
    <3>1. CASE continuation[c]
      <4>1. Pool!Wake(c) /\ value' = [value EXCEPT ![c] = submitted[c]]
        BY <1>9, <3>1, Zenon DEF Handle
      <4>2. submitted[c] \in 0..MaxOps
        BY DEF IInv
      <4>3. QED
        BY <4>1, <4>2 DEF IInv, Pool!Wake
    <3>2. CASE ~continuation[c]
      <4>1. st' = st /\ value' = value
        BY <1>9, <3>2, Zenon DEF Handle
      <4>2. QED
        BY <4>1 DEF IInv
    <3>3. QED
      BY <3>1, <3>2
  <2>2. QED
    BY <1>9, <2>1, Zenon DEF IInv, Handle
<1>10. CASE HandleReset(c)
  BY <1>10 DEF IInv, HandleReset
<1>11. QED
  BY <1>1, <1>2, <1>3, <1>4, <1>5, <1>6, <1>7, <1>8, <1>9, <1>10
  DEF CoroStep

(* A step of one coroutine leaves the others alone.                        *)
LEMMA CoroStepOthers ==
  ASSUME IInv, NEW c \in Coros, CoroStep(c), NEW d \in Coros, d # c
  PROVE  (Placed(d) /\ Own(d))'
<1>1. /\ st'[d] = st[d] /\ pc'[d] = pc[d] /\ op'[d] = op[d]
      /\ submitted'[d] = submitted[d] /\ results'[d] = results[d]
      /\ continuation'[d] = continuation[d] /\ value'[d] = value[d]
  <2> USE DEF TypeOK, Pool!Move, BodyAt, future
  <2>1. CASE Spawn(c)
    BY <2>1 DEF IInv, Spawn, Pool!Spawn
  <2>2. CASE Start(c)
    BY <2>2 DEF IInv, Start, Pool!Start
  <2>3. CASE Submit(c)
    BY <2>3 DEF IInv, Submit
  <2>4. CASE await_ready(c)
    BY <2>4 DEF IInv, await_ready
  <2>5. CASE await_suspend(c)
    BY <2>5 DEF IInv, await_suspend, Pool!Sleep
  <2>6. CASE await_resume(c)
    BY <2>6 DEF IInv, await_resume
  <2>7. CASE Finish(c)
    BY <2>7 DEF IInv, Finish, Pool!Finish
  <2>8. CASE Complete(c)
    BY <2>8 DEF IInv, Complete
  <2>9. CASE Handle(c)
    BY <2>9 DEF IInv, Handle, Pool!Wake
  <2>10. CASE HandleReset(c)
    BY <2>10, SMTT(20) DEF IInv, HandleReset
  <2>11. QED
    BY <2>1, <2>2, <2>3, <2>4, <2>5, <2>6, <2>7, <2>8, <2>9, <2>10
    DEF CoroStep
<1>2. QED
  BY <1>1 DEF IInv, Placed, Own

(* A step of one coroutine keeps what is known of where its body is.       *)
LEMMA CoroStepPlaced ==
  ASSUME IInv, NEW c \in Coros, CoroStep(c)
  PROVE  Placed(c)'
<1>1. TypeOK /\ Placed(c)
  BY DEF IInv
<1> USE RuntimeAssumption, <1>1 DEF TypeOK, Placed, Pool!Move, BodyAt, future
<1>2. CASE Spawn(c)
  BY <1>2 DEF Spawn, Pool!Spawn
<1>3. CASE Start(c)
  BY <1>3 DEF Start, Pool!Start
<1>4. CASE Submit(c)
  BY <1>4 DEF Submit
<1>5. CASE await_ready(c)
  BY <1>5 DEF await_ready
<1>6. CASE await_suspend(c)
  BY <1>6 DEF await_suspend, Pool!Sleep
<1>7. CASE await_resume(c)
  BY <1>7 DEF await_resume
<1>8. CASE Finish(c)
  BY <1>8 DEF Finish, Pool!Finish
<1>9. CASE Complete(c)
  BY <1>9 DEF Complete
<1>10. CASE Handle(c)
  BY <1>10 DEF Handle, Pool!Wake
<1>11. CASE HandleReset(c)
  BY <1>11 DEF HandleReset
<1>12. QED
  BY <1>2, <1>3, <1>4, <1>5, <1>6, <1>7, <1>8, <1>9, <1>10, <1>11
  DEF CoroStep

(* A step of one coroutine keeps its results in order; only await_resume() *)
(* adds one, and the value it takes is the newest operation's.             *)
LEMMA CoroStepOwn ==
  ASSUME IInv, NEW c \in Coros, CoroStep(c)
  PROVE  Own(c)'
<1>1. CASE await_resume(c)
  <2>1. /\ results[c] \in Seq(1..MaxOps) /\ submitted[c] \in 0..MaxOps
        /\ Placed(c) /\ Own(c)
    BY DEF IInv, TypeOK
  <2>2. st[c] = "active" /\ pc[c] = "await"
    BY <1>1 DEF await_resume, BodyAt
  <2>3. value[c] = submitted[c] /\ submitted[c] = Len(results[c]) + 1
    BY <2>1, <2>2 DEF Placed, Own
  <2>4. /\ results'[c] = Append(results[c], Len(results[c]) + 1)
        /\ pc'[c] = "body" /\ submitted'[c] = submitted[c]
    BY <1>1, <2>3 DEF IInv, TypeOK, await_resume, BodyAt
  <2>5. results'[c] = [k \in 1..Len(results'[c]) |-> k]
    BY <2>1, <2>4, AppendNext DEF Own
  <2>6. Len(results'[c]) = submitted[c]
    BY <2>1, <2>3, <2>4
  <2>7. QED
    BY <2>4, <2>5, <2>6, Zenon DEF Own
<1>2. CASE Submit(c)
  <2>1. /\ results'[c] = results[c] /\ pc[c] = "body" /\ pc'[c] = "made"
        /\ submitted'[c] = submitted[c] + 1 /\ submitted[c] \in 0..MaxOps
    BY <1>2 DEF IInv, TypeOK, Submit, BodyAt
  <2>2. Own(c)
    BY DEF IInv
  <2>3. Len(results[c]) = submitted'[c] - 1
    BY <2>1, <2>2 DEF Own
  <2>4. QED
    BY <2>1, <2>2, <2>3 DEF Own
<1>3. CASE ~await_resume(c) /\ ~Submit(c)
  <2>1. /\ results' = results /\ submitted' = submitted
        /\ pc'[c] = "body" <=> pc[c] = "body"
    BY <1>3 DEF IInv, TypeOK, CoroStep, Spawn, Start, await_ready,
       await_suspend, Finish, Complete, Handle, HandleReset, BodyAt
  <2>2. QED
    BY <2>1, SMTT(20) DEF IInv, Own
<1>4. QED
  BY <1>1, <1>2, <1>3

(* The remaining steps: they touch op, main and outcome only.              *)
LEMMA MainStepIInv ==
  ASSUME IInv, SubmitAll \/ Join \/ LeaveLoop \/ Ends
  PROVE  IInv'
<1>1. CASE SubmitAll
  <2>1. TypeOK'
    BY <1>1 DEF IInv, TypeOK, SubmitAll, future
  <2>2. ASSUME NEW c \in Coros PROVE (Placed(c) /\ Own(c))'
    <3>1. Placed(c) /\ Own(c)
      BY DEF IInv
    <3>2. op'[c] = "none" <=> op[c] = "none"
      BY <1>1 DEF SubmitAll
    <3>3. QED
      BY <1>1, <3>1, <3>2 DEF SubmitAll, Placed, Own, future
  <2>3. QED
    BY <2>1, <2>2 DEF IInv
<1>2. CASE Join \/ LeaveLoop
  <2>1. TypeOK'
    BY <1>2 DEF IInv, TypeOK, Join, LeaveLoop, future
  <2>2. ASSUME NEW c \in Coros PROVE (Placed(c) /\ Own(c))'
    BY <1>2 DEF IInv, Placed, Own, Join, LeaveLoop, future
  <2>3. QED
    BY <2>1, <2>2 DEF IInv
<1>3. CASE Ends
  <2>1. TypeOK'
    BY <1>3, EndsIs DEF IInv, TypeOK
  <2>2. ASSUME NEW c \in Coros PROVE (Placed(c) /\ Own(c))'
    BY <1>3, EndsIs DEF IInv, Placed, Own
  <2>3. QED
    BY <2>1, <2>2 DEF IInv
<1>4. QED
  BY <1>1, <1>2, <1>3

(* Every step keeps the inductive invariant.                               *)
LEMMA NextIInv == IInv /\ [Next]_vars => IInv'
<1> SUFFICES ASSUME IInv, [Next]_vars PROVE IInv'
  OBVIOUS
<1>1. ASSUME NEW c \in Coros, CoroStep(c) PROVE IInv'
  <2>1. TypeOK'
    BY <1>1, CoroStepTypes
  <2>2. ASSUME NEW d \in Coros PROVE (Placed(d) /\ Own(d))'
    BY <1>1, CoroStepOthers, CoroStepPlaced, CoroStepOwn
  <2>3. QED
    BY <2>1, <2>2 DEF IInv
<1>2. CASE SubmitAll \/ Join \/ LeaveLoop \/ Ends
  BY <1>2, MainStepIInv
<1>3. CASE UNCHANGED vars
  BY <1>3 DEF IInv, TypeOK, Placed, Own, vars, future
<1>4. QED
  BY <1>1, <1>2, <1>3, NextCases

(* Spec keeps the inductive invariant.                                     *)
LEMMA RuntimeInvariant == Spec => []IInv
  BY InitIInv, NextIInv, PTL DEF Spec

(* Type correctness: in particular no co_await ever returns a value that   *)
(* set_value() has not stored.                                             *)
THEOREM RuntimeTypeCorrect == Spec => []TypeOK
<1>1. IInv => TypeOK
  BY DEF IInv
<1>2. QED
  BY RuntimeInvariant, <1>1, PTL

(* The co_awaits of every coroutine return the results of its own          *)
(* operations, once each and in order.                                     *)
THEOREM OwnResultsHolds == Spec => []OwnResults
<1>1. IInv => OwnResults
  BY DEF IInv, Own, OwnResults
<1>2. QED
  BY RuntimeInvariant, <1>1, PTL

(* No coroutine runs past its co_await, and none ends, while the kernel or *)
(* the event loop may still write its vector.                              *)
THEOREM RadioactiveHolds == Spec => []Radioactive
<1>1. IInv => Radioactive
  BY DEF IInv, TypeOK, Placed, Radioactive
<1>2. QED
  BY RuntimeInvariant, <1>1, PTL

(* A coroutine is asleep exactly while its value is missing.               *)
THEOREM AsleepAwaitsHolds == Spec => []AsleepAwaits
<1>1. IInv => AsleepAwaits
  BY RuntimeAssumption DEF IInv, TypeOK, Placed, AsleepAwaits
<1>2. QED
  BY RuntimeInvariant, <1>1, PTL

(* set_value() spawns the continuation of a future only while the          *)
(* coroutine behind it is asleep: when a completion is handled, whatever   *)
(* continuation is set belongs to a suspended frame, so none is resumed    *)
(* twice and Pool!Wake never keeps Handle from happening.                  *)
THEOREM WakesOnlySleepers ==
  Spec => [](\A c \in Coros : op[c] # "none" /\ continuation[c] => st[c] = "asleep")
<1>1. IInv => \A c \in Coros : op[c] # "none" /\ continuation[c] => st[c] = "asleep"
  BY DEF IInv, TypeOK, Placed
<1>2. QED
  BY RuntimeInvariant, <1>1, PTL

-----------------------------------------------------------------------------
(* The parts: what the runtime does to the ring and to its futures is what *)
(* their abstract specifications allow.                                    *)

(* A step that changes one operation is a move of Flight.                  *)
LEMMA StageMove ==
  ASSUME NEW c \in Coros, NEW k \in 1..MaxOps, NEW from, NEW to,
         Stage(c, k) = from, Stage(c, k)' = to,
         \A d \in Coros, j \in 1..MaxOps :
            d # c \/ j # k => Stage(d, j)' = Stage(d, j)
  PROVE  <<c, k>> \in Operations /\ Air!Move(<<c, k>>, from, to)
<1>1. <<c, k>> \in Operations
  BY DEF Operations
<1>2. stage[<<c, k>>] = from
  BY <1>1 DEF stage
<1>3. ASSUME NEW x \in Operations
      PROVE  Stage(x[1], x[2])' = IF x = <<c, k>> THEN to ELSE Stage(x[1], x[2])
  <2>1. x[1] \in Coros /\ x[2] \in 1..MaxOps /\ x = <<x[1], x[2]>>
    BY DEF Operations
  <2>2. QED
    BY <2>1
<1>4. stage' = [stage EXCEPT ![<<c, k>>] = to]
  BY <1>3, Zenon DEF stage
<1>5. QED
  BY <1>1, <1>2, <1>4 DEF Air!Move

(* Only the newest operation of a coroutine is on its way.                 *)
LEMMA NewestMoves ==
  ASSUME IInv, NEW c \in Coros, op[c] # "none", submitted' = submitted,
         NEW to, op' = [op EXCEPT ![c] = to]
  PROVE  /\ <<c, submitted[c]>> \in Operations
         /\ Air!Move(<<c, submitted[c]>>, op[c], IF to = "none" THEN "handled" ELSE to)
<1>1. submitted[c] \in 1..MaxOps
  <2>1. submitted[c] \in 0..MaxOps /\ submitted[c] # 0
    BY DEF IInv, TypeOK, Placed
  <2>2. QED
    BY <2>1, RuntimeAssumption
<1>2. op'[c] = to /\ \A d \in Coros : d # c => op'[d] = op[d]
  BY DEF IInv, TypeOK
<1>3. Stage(c, submitted[c]) = op[c]
  BY <1>1 DEF Stage
<1>4. Stage(c, submitted[c])' = IF to = "none" THEN "handled" ELSE to
  BY <1>1, <1>2 DEF Stage
<1>5. ASSUME NEW d \in Coros, NEW j \in 1..MaxOps, d # c \/ j # submitted[c]
      PROVE  Stage(d, j)' = Stage(d, j)
  <2>1. CASE d # c
    BY <1>2, <2>1 DEF Stage
  <2>2. CASE d = c /\ j # submitted[c]
    BY <1>1, <2>2 DEF Stage
  <2>3. QED
    BY <1>5, <2>1, <2>2
<1>6. QED
  BY <1>1, <1>3, <1>4, <1>5, StageMove

(* submit_*() of a coroutine whose last operation was handled.             *)
LEMMA SubmitEnters ==
  ASSUME IInv, NEW c \in Coros, Submit(c)
  PROVE  \E x \in Operations : Air!Enter(x)
<1>1. PICK k \in 1..MaxOps : k = submitted[c] + 1
  BY RuntimeAssumption DEF IInv, TypeOK, Submit
<1>2. /\ submitted[c] \in Nat /\ submitted'[c] = k /\ op[c] = "none" /\ op'[c] = "entry"
      /\ \A d \in Coros : d # c => op'[d] = op[d] /\ submitted'[d] = submitted[d]
  BY <1>1 DEF IInv, TypeOK, Placed, Submit, BodyAt
<1>3. Stage(c, k) = "none" /\ Stage(c, k)' = "entry"
  BY <1>1, <1>2 DEF Stage
<1>4. ASSUME NEW d \in Coros, NEW j \in 1..MaxOps, d # c \/ j # k
      PROVE  Stage(d, j)' = Stage(d, j)
  <2>1. CASE d # c
    BY <1>2, <2>1 DEF Stage
  <2>2. CASE d = c /\ j # k
    BY <1>1, <1>2, <2>2 DEF Stage
  <2>3. QED
    BY <1>4, <2>1, <2>2
<1>5. QED
  BY <1>3, <1>4, StageMove DEF Air!Enter

(* Every step is a step of Flight or leaves the operations alone.          *)
LEMMA FlightStep == IInv /\ [Next]_vars => [Air!Next]_stage
<1> SUFFICES ASSUME IInv, [Next]_vars PROVE [Air!Next]_stage
  OBVIOUS
<1>1. ASSUME NEW c \in Coros, Submit(c) PROVE Air!Next
  BY <1>1, SubmitEnters DEF Air!Next
<1>2. ASSUME NEW c \in Coros, Complete(c) PROVE Air!Next
  <2>1. op[c] = "kernel" /\ submitted' = submitted
        /\ op' = [op EXCEPT ![c] = "completion"]
    BY <1>2 DEF Complete
  <2>2. <<c, submitted[c]>> \in Operations /\ Air!Complete(<<c, submitted[c]>>)
    BY <2>1, NewestMoves DEF Air!Complete
  <2>3. QED
    BY <2>2 DEF Air!Next
<1>3. ASSUME NEW c \in Coros, Handle(c) \/ HandleReset(c) PROVE Air!Next
  <2>1. op[c] = "completion" /\ submitted' = submitted
        /\ op' = [op EXCEPT ![c] = "none"]
    BY <1>3 DEF Handle, HandleReset
  <2>2. <<c, submitted[c]>> \in Operations /\ Air!Handle(<<c, submitted[c]>>)
    BY <2>1, NewestMoves DEF Air!Handle
  <2>3. QED
    BY <2>2 DEF Air!Next
<1>4. CASE SubmitAll
  <2>1. ASSUME NEW x \in Operations
        PROVE  Stage(x[1], x[2])' =
                 IF Stage(x[1], x[2]) = "entry" THEN "kernel" ELSE Stage(x[1], x[2])
    <3>1. x[1] \in Coros
      BY DEF Operations
    <3>2. submitted' = submitted
          /\ op'[x[1]] = IF op[x[1]] = "entry" THEN "kernel" ELSE op[x[1]]
      BY <1>4, <3>1 DEF SubmitAll
    <3>3. QED
      BY <3>2 DEF Stage
  <2>2. Air!SubmitAll
    BY <2>1 DEF Air!SubmitAll, stage
  <2>3. QED
    BY <2>2 DEF Air!Next
<1>5. CASE UNCHANGED <<submitted, op>>
  BY <1>5 DEF stage, Stage
<1>6. CASE Ends
  BY <1>5, <1>6, EndsIs
<1>7. CASE Join \/ LeaveLoop \/ UNCHANGED vars
  BY <1>5, <1>7 DEF Join, LeaveLoop, vars
<1>8. ASSUME NEW c \in Coros, CoroStep(c) PROVE [Air!Next]_stage
  <2>1. CASE Submit(c) \/ Complete(c) \/ Handle(c) \/ HandleReset(c)
    BY <1>1, <1>2, <1>3, <2>1
  <2>2. CASE Spawn(c) \/ Start(c) \/ await_ready(c) \/ await_suspend(c)
             \/ await_resume(c) \/ Finish(c)
    BY <1>5, <2>2 DEF Spawn, Start, await_ready, await_suspend, await_resume, Finish
  <2>3. QED
    BY <1>8, <2>1, <2>2 DEF CoroStep
<1>9. QED
  BY <1>4, <1>6, <1>7, <1>8, NextCases

(* A step that changes one future is a move of OneShot.                    *)
LEMMA PhaseMove ==
  ASSUME NEW c \in Coros, NEW k \in 1..MaxOps, NEW from, NEW to,
         Phase(c, k) = from, Phase(c, k)' = to,
         \A d \in Coros, j \in 1..MaxOps :
            d # c \/ j # k => Phase(d, j)' = Phase(d, j)
  PROVE  <<c, k>> \in Operations /\ Cell!Move(<<c, k>>, from, to)
<1>1. <<c, k>> \in Operations
  BY DEF Operations
<1>2. phase[<<c, k>>] = from
  BY <1>1 DEF phase
<1>3. ASSUME NEW x \in Operations
      PROVE  Phase(x[1], x[2])' = IF x = <<c, k>> THEN to ELSE Phase(x[1], x[2])
  <2>1. x[1] \in Coros /\ x[2] \in 1..MaxOps /\ x = <<x[1], x[2]>>
    BY DEF Operations
  <2>2. QED
    BY <2>1
<1>4. phase' = [phase EXCEPT ![<<c, k>>] = to]
  BY <1>3, Zenon DEF phase
<1>5. QED
  BY <1>1, <1>2, <1>4 DEF Cell!Move

LEMMA PhaseStays ==
  ASSUME \A c \in Coros, k \in 1..MaxOps : Phase(c, k)' = Phase(c, k)
  PROVE  phase' = phase
<1>1. ASSUME NEW x \in Operations PROVE Phase(x[1], x[2])' = Phase(x[1], x[2])
  BY DEF Operations
<1>2. QED
  BY <1>1, Zenon DEF phase

(* Awaiting, being set and being resumed change the future of the newest   *)
(* operation.                                                              *)
LEMMA NewestChanges ==
  ASSUME IInv, NEW c \in Coros, pc[c] # "body", submitted' = submitted,
         \A d \in Coros : d # c => pc'[d] = pc[d] /\ st'[d] = st[d],
         NEW from, NEW to, Phase(c, submitted[c]) = from, Phase(c, submitted[c])' = to
  PROVE  /\ <<c, submitted[c]>> \in Operations
         /\ Cell!Move(<<c, submitted[c]>>, from, to)
<1>1. submitted[c] \in 1..MaxOps
  <2>1. submitted[c] \in 0..MaxOps /\ submitted[c] # 0
    BY DEF IInv, TypeOK, Placed
  <2>2. QED
    BY <2>1, RuntimeAssumption
<1>2. ASSUME NEW d \in Coros, NEW j \in 1..MaxOps, d # c \/ j # submitted[c]
      PROVE  Phase(d, j)' = Phase(d, j)
  <2>1. CASE d # c
    BY <2>1 DEF Phase
  <2>2. CASE d = c /\ j # submitted[c]
    BY <1>1, <2>2, SMTT(20) DEF Phase
  <2>3. QED
    BY <1>2, <2>1, <2>2
<1>3. QED
  BY <1>1, <1>2, PhaseMove

(* What a step of coroutine c does to its futures: await_suspend() waits,  *)
(* Handle sets, await_resume() takes, and the others leave them alone.     *)
LEMMA CoroStepPhase ==
  ASSUME IInv, NEW c \in Coros, CoroStep(c)
  PROVE  \/ phase' = phase
         \/ \E x \in Operations : Cell!Await(x) \/ Cell!Take(x)
         \/ /\ <<c, submitted[c]>> \in Operations
            /\ Cell!Set(<<c, submitted[c]>>) /\ Air!Handle(<<c, submitted[c]>>)
<1>1. /\ TypeOK /\ Placed(c)
      /\ submitted[c] \in Nat
  BY DEF IInv, TypeOK
<1>2. CASE Submit(c)
  <2>1. /\ submitted'[c] = submitted[c] + 1 /\ pc[c] = "body" /\ pc'[c] = "made"
        /\ st' = st
        /\ \A d \in Coros : d # c => submitted'[d] = submitted[d] /\ pc'[d] = pc[d]
    BY <1>1, <1>2 DEF TypeOK, Submit, BodyAt
  <2>2. ASSUME NEW d \in Coros, NEW j \in 1..MaxOps PROVE Phase(d, j)' = Phase(d, j)
    <3>1. CASE d # c
      BY <2>1, <3>1 DEF Phase
    <3>2. CASE d = c
      BY <1>1, <2>1, <3>2 DEF Phase
    <3>3. QED
      BY <3>1, <3>2
  <2>3. QED
    BY <2>2, PhaseStays
<1>3. CASE await_suspend(c)
  <2>1. /\ value[c] = 0 /\ pc[c] = "suspend" /\ pc'[c] = "await" /\ Pool!Sleep(c)
        /\ submitted' = submitted /\ \A d \in Coros : d # c => pc'[d] = pc[d]
    BY <1>1, <1>3 DEF TypeOK, Placed, await_suspend, BodyAt
  <2>2. st'[c] = "asleep" /\ \A d \in Coros : d # c => st'[d] = st[d]
    BY <1>1, <2>1 DEF TypeOK, Pool!Sleep, Pool!Move
  <2>3. Phase(c, submitted[c]) = "fresh" /\ Phase(c, submitted[c])' = "waiting"
    <3>1. ~(submitted[c] < submitted[c]) /\ ~(submitted[c] > submitted[c])
      BY <1>1
    <3>2. Phase(c, submitted[c]) = "fresh"
      BY <2>1, <3>1 DEF Phase
    <3>3. Phase(c, submitted[c])' = "waiting"
      BY <2>1, <2>2, <3>1 DEF Phase
    <3>4. QED
      BY <3>2, <3>3
  <2>4. QED
    BY <2>1, <2>2, <2>3, NewestChanges DEF Cell!Await
<1>4. CASE await_resume(c)
  <2>1. /\ pc[c] = "await" /\ pc'[c] = "body" /\ st[c] = "active" /\ st' = st
        /\ submitted' = submitted /\ \A d \in Coros : d # c => pc'[d] = pc[d]
    BY <1>1, <1>4 DEF TypeOK, await_resume, BodyAt
  <2>2. Phase(c, submitted[c]) = "woken" /\ Phase(c, submitted[c])' = "taken"
    BY <1>1, <2>1 DEF Phase
  <2>3. QED
    BY <2>1, <2>2, NewestChanges DEF Cell!Take
<1>5. CASE Handle(c) /\ continuation[c]
  <2>1. /\ op[c] = "completion" /\ op' = [op EXCEPT ![c] = "none"]
        /\ Pool!Wake(c) /\ pc' = pc /\ submitted' = submitted
    BY <1>5, Zenon DEF Handle
  <2>2. st[c] = "asleep" /\ st'[c] = "ready" /\ \A d \in Coros : d # c => st'[d] = st[d]
    BY <1>1, <2>1 DEF TypeOK, Pool!Wake, Pool!Move
  <2>3. pc[c] = "await"
    BY <1>1, <2>1, <2>2 DEF TypeOK, Placed
  <2>4. Phase(c, submitted[c]) = "waiting" /\ Phase(c, submitted[c])' = "woken"
    BY <1>1, <2>1, <2>2, <2>3 DEF Phase
  <2>5. /\ <<c, submitted[c]>> \in Operations
        /\ Cell!Set(<<c, submitted[c]>>)
    BY <2>1, <2>2, <2>3, <2>4, NewestChanges DEF Cell!Set
  <2>6. Air!Handle(<<c, submitted[c]>>)
    BY <2>1, NewestMoves DEF Air!Handle
  <2>7. QED
    BY <2>5, <2>6
<1>6. CASE /\ Spawn(c) \/ Start(c) \/ await_ready(c) \/ Finish(c) \/ Complete(c)
             \/ (Handle(c) /\ ~continuation[c]) \/ HandleReset(c)
  <2>1. submitted' = submitted /\ \A d \in Coros : st'[d] = "asleep" <=> st[d] = "asleep"
    BY <1>1, <1>6 DEF TypeOK, Spawn, Start, await_ready, Finish, Complete, Handle,
       HandleReset, BodyAt, Pool!Spawn, Pool!Start, Pool!Finish, Pool!Move
  <2>2. \A d \in Coros : /\ pc'[d] = "body" <=> pc[d] = "body"
                         /\ pc'[d] = "await" <=> pc[d] = "await"
    BY <1>1, <1>6 DEF TypeOK, Placed, Spawn, Start, await_ready, Finish, Complete,
       Handle, HandleReset, BodyAt
  <2>3. \A d \in Coros, j \in 1..MaxOps : Phase(d, j)' = Phase(d, j)
    BY <2>1, <2>2, Zenon DEF Phase
  <2>4. QED
    BY <2>3, PhaseStays
<1>7. QED
  BY <1>2, <1>3, <1>4, <1>5, <1>6 DEF CoroStep

(* A future moves on in one way only.                                      *)
LEMMA OneSet ==
  ASSUME NEW x \in Operations, NEW y \in Operations, Cell!Set(x),
         Cell!Await(y) \/ Cell!Take(y) \/ Cell!Set(y)
  PROVE  x = y /\ ~Cell!Await(y) /\ ~Cell!Take(y)
  BY DEF Cell!Set, Cell!Await, Cell!Take, Cell!Move, phase

(* Every step is a step of OneShot or leaves the futures alone, and sets a *)
(* future only together with the handling of its operation.                *)
LEMMA OneShotStep ==
  IInv /\ [Next]_vars => /\ [Cell!Next]_phase
                         /\ \A x \in Operations : Cell!Set(x) => Air!Handle(x)
<1> SUFFICES ASSUME IInv, [Next]_vars
             PROVE  /\ [Cell!Next]_phase
                    /\ \A x \in Operations : Cell!Set(x) => Air!Handle(x)
  OBVIOUS
<1>1. \/ phase' = phase
      \/ \E x \in Operations : Cell!Await(x) \/ Cell!Take(x)
      \/ \E x \in Operations : Cell!Set(x) /\ Air!Handle(x)
  <2>1. ASSUME NEW c \in Coros, CoroStep(c)
        PROVE  \/ phase' = phase
               \/ \E x \in Operations : Cell!Await(x) \/ Cell!Take(x)
               \/ \E x \in Operations : Cell!Set(x) /\ Air!Handle(x)
    BY <2>1, CoroStepPhase, Zenon
  <2>2. CASE SubmitAll \/ Join \/ LeaveLoop \/ UNCHANGED vars
    BY <2>2 DEF SubmitAll, Join, LeaveLoop, vars, phase, Phase
  <2>3. CASE Ends
    BY <2>3, EndsIs DEF phase, Phase
  <2>4. QED
    BY <2>1, <2>2, <2>3, NextCases, Zenon
<1>2. [Cell!Next]_phase
  BY <1>1, Zenon DEF Cell!Next
<1>3. ASSUME NEW x \in Operations, Cell!Set(x) PROVE Air!Handle(x)
  <2>1. phase' # phase
    BY <1>3 DEF Cell!Set, Cell!Move, phase
  <2>2. PICK y \in Operations : \/ Cell!Await(y) \/ Cell!Take(y)
                                \/ Cell!Set(y) /\ Air!Handle(y)
    BY <1>1, <2>1, Zenon
  <2>3. x = y /\ Air!Handle(y)
    BY <1>3, <2>2, OneSet, Zenon
  <2>4. QED
    BY <2>3, Zenon
<1>4. QED
  BY <1>2, <1>3, Zenon

(* The composed runtime implements its parts, for any coroutines and any   *)
(* number of operations. What it does to its operations is what Flight     *)
(* allows, which IOContext implements; what it does to their futures is    *)
(* what OneShot allows, which Future implements; and the two move          *)
(* together: a future is set by the handling of its own operation only.    *)
THEOREM RuntimeImplementsParts == Spec => ImplementsParts
<1>1. Init => Air!Init /\ Cell!Init
  <2>1. ASSUME Init, NEW x \in Operations
        PROVE  Stage(x[1], x[2]) = "none" /\ Phase(x[1], x[2]) = "fresh"
    <3>1. x[1] \in Coros /\ x[2] \in 1..MaxOps
      BY DEF Operations
    <3>2. submitted[x[1]] = 0 /\ pc[x[1]] = "body"
      BY <2>1, <3>1 DEF Init
    <3>3. QED
      BY <3>1, <3>2 DEF Stage, Phase
  <2>2. QED
    BY <2>1, Zenon DEF Air!Init, Cell!Init, stage, phase
<1>2. QED
  BY <1>1, RuntimeInvariant, FlightStep, OneShotStep, PTL
  DEF Spec, ImplementsParts, Air!Spec, Cell!Spec
=============================================================================
