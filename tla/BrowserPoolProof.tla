--------------------------- MODULE BrowserPoolProof ---------------------------
(***************************************************************************)
(* The browser pool never loses and never doubles a slot, and a Start that   *)
(* reports success finds every slot at work, for every number of slots,      *)
(* requests and generations.                                                 *)
(***************************************************************************)
EXTENDS BrowserPool, FiniteSetTheorems, TLAPS

\* A slot that cannot receive a request is neither on offer nor held.
BusyIsUnoffered ==
    \A g \in Gens, s \in Slots :
        pc[g][s] \notin {"wait", "exit"} =>
            idle[g][s] = 0 /\ \A r \in Reqs : ~Holds(r, g, s)

\* The slots of a generation that was never started are off.
UnstartedIsOff ==
    \A g \in Gens : starter[g] = "none" => \A s \in Slots : pc[g][s] = "off"

SlotInv == TypeOK /\ SlotOnce /\ NoSlotLost /\ BusyIsUnoffered /\ UnstartedIsOff

USE DEF Gens

LEMMA OutsideType ==
    ASSUME NEW l \in {"idle", "returned"}
    PROVE  /\ Outside(l) \in [pc : CallPcs, gen : Gens, slot : Slots]
           /\ Outside(l).pc = l
<1>1. (CHOOSE s \in Slots : TRUE) \in Slots
  BY BrowserPoolAssumption
<1>2. 1 \in 1..MaxGen
  BY BrowserPoolAssumption
<1>3. QED  BY <1>1, <1>2 DEF Outside, CallPcs

LEMMA InitSlotInv == Init => SlotInv
<1> SUFFICES ASSUME Init PROVE SlotInv
  OBVIOUS
<1> MaxGen \in Nat /\ MaxGen # 0
  BY BrowserPoolAssumption
<1>1. PoolTypeOK /\ GenTypeOK
  <2>1. cur \in 0..MaxGen /\ ready \in Nat
    BY DEF Init
  <2>2. started \in BOOLEAN /\ startErr \in BOOLEAN /\ closing \in BOOLEAN
    BY DEF Init
  <2>3. GenTypeOK
    BY DEF Init, GenTypeOK
  <2>4. QED  BY <2>1, <2>2, <2>3 DEF PoolTypeOK
<1>2. SlotTypeOK /\ CallTypeOK
  BY OutsideType DEF Init, SlotTypeOK, CallTypeOK, SlotPcs
<1>3. \A r \in Reqs : call[r].pc = "idle"
  BY OutsideType DEF Init
<1>4. SlotOnce /\ NoSlotLost /\ BusyIsUnoffered /\ UnstartedIsOff
  BY <1>3 DEF Init, SlotOnce, NoSlotLost, BusyIsUnoffered, UnstartedIsOff, Holds
<1>5. QED  BY <1>1, <1>2, <1>4 DEF SlotInv, TypeOK

\* Giving a slot back changes only its own count.
LEMMA GiveLemma ==
    ASSUME SlotTypeOK, NEW g \in Gens, NEW s \in Slots
    PROVE  /\ Give(g, s) \in [Gens -> [Slots -> Nat]]
           /\ Give(g, s)[g][s] = idle[g][s] + 1
           /\ \A h \in Gens, t \in Slots :
                 <<h, t>> # <<g, s>> => Give(g, s)[h][t] = idle[h][t]
  BY DEF Give, SlotTypeOK

\* So does moving a slot's goroutine.
LEMMA GotoLemma ==
    ASSUME SlotTypeOK, NEW g \in Gens, NEW s \in Slots, NEW l \in SlotPcs, Goto(g, s, l)
    PROVE  /\ pc' \in [Gens -> [Slots -> SlotPcs]]
           /\ pc'[g][s] = l
           /\ \A h \in Gens, t \in Slots : <<h, t>> # <<g, s>> => pc'[h][t] = pc[h][t]
  BY DEF Goto, SlotTypeOK

\* The slot invariant depends on idle, starter, pc and the holders only.
LEMMA SameSlotsInv ==
    ASSUME SlotInv, TypeOK', UNCHANGED <<idle, pc>>,
           \A g \in Gens : starter'[g] = "none" => starter[g] = "none",
           \A r \in Reqs, g \in Gens, s \in Slots : Holds(r, g, s)' <=> Holds(r, g, s)
    PROVE  SlotInv'
  BY DEF SlotInv, SlotOnce, NoSlotLost, BusyIsUnoffered, UnstartedIsOff

\* The steps that leave slots and requests alone.
LEMMA PoolStepInv ==
    ASSUME SlotInv,
           \/ \E g \in Gens : StartStep(g)
           \/ Stop \/ TeardownSettle \/ TeardownEnd
           \/ UNCHANGED vars
    PROVE  SlotInv'
<1>1. UNCHANGED <<slotVars, callVars>>
  BY DEF StartStep, StartClosed, StartFailing, StartReady, StartTeardown, Starter,
         TeardownBegin, Stop, TeardownSettle, TeardownEnd, vars
<1>2. PoolTypeOK'
  <2>1. (cur' = 0 \/ cur' = cur) /\ ready' = ready
    BY DEF StartStep, StartClosed, StartFailing, StartReady, StartTeardown, Starter,
           TeardownBegin, Stop, TeardownSettle, TeardownEnd, vars, poolVars
  <2>2. started' \in BOOLEAN /\ startErr' \in BOOLEAN /\ closing' \in BOOLEAN
    BY DEF StartStep, StartClosed, StartFailing, StartReady, StartTeardown, Starter,
           TeardownBegin, Stop, TeardownSettle, TeardownEnd, vars, poolVars,
           SlotInv, TypeOK, PoolTypeOK
  <2>3. cur' \in 0..MaxGen /\ ready' \in Nat
    BY <2>1, BrowserPoolAssumption DEF SlotInv, TypeOK, PoolTypeOK
  <2>4. QED  BY <2>2, <2>3 DEF PoolTypeOK
<1>3. GenTypeOK'
  BY DEF StartStep, StartClosed, StartFailing, StartReady, StartTeardown, Starter,
         TeardownBegin, Stop, TeardownSettle, TeardownEnd, vars, genVars,
         SlotInv, TypeOK, GenTypeOK
<1>4. \A g \in Gens : starter'[g] = "none" => starter[g] = "none"
  BY DEF StartStep, StartClosed, StartFailing, StartReady, StartTeardown, Starter,
         TeardownBegin, Stop, TeardownSettle, TeardownEnd, vars, genVars,
         SlotInv, TypeOK, GenTypeOK
<1>5. SlotTypeOK' /\ CallTypeOK'
  BY <1>1 DEF SlotInv, TypeOK, SlotTypeOK, CallTypeOK, slotVars, callVars
<1>6. QED
  BY <1>1, <1>2, <1>3, <1>4, <1>5, SameSlotsInv DEF TypeOK, slotVars, callVars, Holds

LEMMA StartInv ==
    ASSUME SlotInv, NEW g \in Gens, Start(g)
    PROVE  SlotInv'
<1>1. PoolTypeOK' /\ GenTypeOK' /\ CallTypeOK'
  <2>1. cur' \in 0..MaxGen /\ ready' \in Nat
    BY BrowserPoolAssumption DEF Start
  <2>2. started' \in BOOLEAN /\ startErr' \in BOOLEAN /\ closing' \in BOOLEAN
    BY DEF Start, SlotInv, TypeOK, PoolTypeOK
  <2>3. GenTypeOK' /\ CallTypeOK'
    BY DEF Start, SlotInv, TypeOK, GenTypeOK, CallTypeOK, callVars
  <2>4. QED  BY <2>1, <2>2, <2>3 DEF PoolTypeOK
<1>2. SlotTypeOK'
  BY DEF Start, SlotInv, TypeOK, SlotTypeOK, SlotPcs
<1>3. \A h \in Gens, s \in Slots : pc[h][s] # pc'[h][s] =>
          pc[h][s] = "off" /\ pc'[h][s] = "spawn"
  BY DEF Start, SlotInv, TypeOK, SlotTypeOK, UnstartedIsOff
<1>4. UNCHANGED <<idle, call>>
  BY DEF Start, callVars
<1>5. SlotOnce' /\ NoSlotLost' /\ BusyIsUnoffered'
  BY <1>3, <1>4 DEF SlotInv, SlotOnce, NoSlotLost, BusyIsUnoffered, Holds
<1>6. UnstartedIsOff'
  BY DEF Start, SlotInv, TypeOK, SlotTypeOK, GenTypeOK, UnstartedIsOff
<1>7. QED  BY <1>1, <1>2, <1>5, <1>6 DEF SlotInv, TypeOK

LEMMA SlotStepInv ==
    ASSUME SlotInv, NEW g \in Gens, NEW s \in Slots, SlotStep(g, s)
    PROVE  SlotInv'
<1> USE DEF SlotStep, SlotSpawn, SlotBuilt, SlotBuildFailed, SlotOffer, SlotClosed, SlotSolved,
            SlotReplace, SlotReuse
<1>1. UNCHANGED <<call, abandoned, condemned, genVars>>
  BY DEF callVars
<1>2. PoolTypeOK'
  <2>1. UNCHANGED <<cur, started, closing>> /\ (ready' = ready \/ ready' = ready + 1)
    BY DEF poolVars
  <2>2. startErr' \in BOOLEAN
    BY DEF poolVars, SlotInv, TypeOK, PoolTypeOK
  <2>3. cur' \in 0..MaxGen /\ ready' \in Nat
    BY <2>1 DEF SlotInv, TypeOK, PoolTypeOK
  <2>4. started' \in BOOLEAN /\ closing' \in BOOLEAN
    BY <2>1 DEF SlotInv, TypeOK, PoolTypeOK
  <2>5. QED  BY <2>2, <2>3, <2>4 DEF PoolTypeOK
<1>3. GenTypeOK'
  BY <1>1 DEF SlotInv, TypeOK, GenTypeOK, genVars
<1>4. result' \in [Reqs -> BOOLEAN]
  BY DEF SlotInv, TypeOK, CallTypeOK, callVars
<1>5. CallTypeOK'
  BY <1>1, <1>4 DEF SlotInv, TypeOK, CallTypeOK
<1>6. req' \in [Gens -> [Slots -> Reqs \cup {None}]]
  <2>1. req' = [req EXCEPT ![g][s] = None] \/ UNCHANGED req
    BY DEF poolVars
  <2>2. req \in [Gens -> [Slots -> Reqs \cup {None}]]
    BY DEF SlotInv, TypeOK, SlotTypeOK
  <2> HIDE DEF SlotStep, SlotSpawn, SlotBuilt, SlotBuildFailed, SlotOffer, SlotClosed, SlotSolved,
               SlotReplace, SlotReuse
  <2>3. QED  BY <2>1, <2>2
<1>7. PICK l \in SlotPcs \ {"off"} : Goto(g, s, l)
  BY DEF SlotPcs
<1>8. /\ pc' \in [Gens -> [Slots -> SlotPcs]]
      /\ pc'[g][s] = l
      /\ \A h \in Gens, t \in Slots : <<h, t>> # <<g, s>> => pc'[h][t] = pc[h][t]
  BY <1>7, GotoLemma DEF SlotInv, TypeOK
<1>9. pc[g][s] # "off" /\ UNCHANGED starter
  BY <1>1 DEF genVars
<1>10. UnstartedIsOff'
  BY <1>8, <1>9 DEF SlotInv, UnstartedIsOff
<1>11. CASE SlotOffer(g, s)
  <2>1. idle[g][s] = 0 /\ (\A r \in Reqs : ~Holds(r, g, s))
    BY <1>11 DEF SlotInv, BusyIsUnoffered
  <2>2. /\ idle' \in [Gens -> [Slots -> Nat]]
        /\ idle'[g][s] = 1
        /\ \A h \in Gens, t \in Slots : <<h, t>> # <<g, s>> => idle'[h][t] = idle[h][t]
    BY <1>11, <2>1, GiveLemma DEF SlotInv, TypeOK
  <2>3. pc'[g][s] = "wait"
    BY <1>11, GotoLemma DEF SlotInv, TypeOK, SlotPcs
  <2> HIDE DEF SlotStep, SlotSpawn, SlotBuilt, SlotBuildFailed, SlotOffer, SlotClosed, SlotSolved,
               SlotReplace, SlotReuse
  <2>4. \A r \in Reqs, h \in Gens, t \in Slots : Holds(r, h, t)' <=> Holds(r, h, t)
    BY <1>1 DEF Holds
  <2>5. SlotOnce'
    BY <2>1, <2>2, <2>4 DEF SlotInv, SlotOnce
  <2>6. NoSlotLost'
    <3> SUFFICES ASSUME NEW h \in Gens, NEW t \in Slots, pc'[h][t] = "wait"
                 PROVE  idle'[h][t] = 1 \/ \E r \in Reqs : Holds(r, h, t)'
      BY DEF NoSlotLost, Holds
    <3>1. CASE <<h, t>> = <<g, s>>
      BY <3>1, <2>2
    <3>2. CASE <<h, t>> # <<g, s>>
      BY <3>2, <1>8, <2>2, <2>4 DEF SlotInv, NoSlotLost
    <3>3. QED  BY <3>1, <3>2
  <2>7. BusyIsUnoffered'
    BY <1>8, <2>2, <2>3, <2>4 DEF SlotInv, BusyIsUnoffered
  <2>8. QED
    BY <1>2, <1>3, <1>5, <1>6, <1>8, <1>10, <2>2, <2>5, <2>6, <2>7 DEF SlotInv, TypeOK, SlotTypeOK
<1>12. CASE ~SlotOffer(g, s)
  <2>1. UNCHANGED idle /\ l # "wait" /\ (l = "exit" \/ pc[g][s] \notin {"wait", "exit"})
    <3>1. UNCHANGED idle
      BY <1>12
    <3>2. pc'[g][s] # "wait" /\ (pc'[g][s] = "exit" \/ pc[g][s] \notin {"wait", "exit"})
      BY <1>12, GotoLemma DEF SlotInv, TypeOK, SlotPcs
    <3>3. QED  BY <3>1, <3>2, <1>8
  <2> HIDE DEF SlotStep, SlotSpawn, SlotBuilt, SlotBuildFailed, SlotOffer, SlotClosed, SlotSolved,
               SlotReplace, SlotReuse
  <2>2. SlotOnce' /\ NoSlotLost' /\ BusyIsUnoffered'
    BY <1>1, <1>8, <2>1 DEF SlotInv, SlotOnce, NoSlotLost, BusyIsUnoffered, Holds
  <2>3. QED
    BY <1>2, <1>3, <1>5, <1>6, <1>8, <1>10, <2>1, <2>2 DEF SlotInv, TypeOK, SlotTypeOK
<1>13. QED  BY <1>11, <1>12

LEMMA SolveStepInv ==
    ASSUME SlotInv, NEW r \in Reqs, SolveEnter(r) \/ SolveStep(r)
    PROVE  SlotInv'
<1> DEFINE g == call[r].gen
           s == call[r].slot
<1> g \in Gens /\ s \in Slots
  BY DEF SlotInv, TypeOK, CallTypeOK
<1>1. UNCHANGED <<poolVars, genVars>>
  BY DEF SolveEnter, SolveStep, SolveAcquire, SolveUnqueue, HandoffSend, HandoffCanceled,
         HandoffClosed, HandoffReturn, AwaitResult, AwaitTimer, AwaitCondemn, AwaitGiveUp
<1>2. UNCHANGED starter /\ PoolTypeOK' /\ GenTypeOK'
  BY <1>1 DEF SlotInv, TypeOK, PoolTypeOK, GenTypeOK, poolVars, genVars
<1>3. call' \in [Reqs -> [pc : CallPcs, gen : Gens, slot : Slots]]
  <2>1. ASSUME SolveEnter(r)  PROVE call' \in [Reqs -> [pc : CallPcs, gen : Gens, slot : Slots]]
    BY <2>1, OutsideType DEF SolveEnter, Return, SlotInv, TypeOK, PoolTypeOK, CallTypeOK, CallPcs
  <2>2. ASSUME SolveStep(r)  PROVE call' \in [Reqs -> [pc : CallPcs, gen : Gens, slot : Slots]]
    <3>1. \/ call' = [call EXCEPT ![r] = Outside("returned")]
          \/ \E l \in {"await", "expired"} : call' = [call EXCEPT ![r].pc = l]
          \/ \E t \in Slots : call' = [call EXCEPT ![r].pc = "handoff", ![r].slot = t]
      BY <2>2 DEF SolveStep, SolveAcquire, SolveUnqueue, HandoffSend, HandoffCanceled,
           HandoffClosed, HandoffReturn, AwaitResult, AwaitTimer, AwaitCondemn, AwaitGiveUp, Return
    <3>2. QED  BY <3>1, OutsideType DEF SlotInv, TypeOK, CallTypeOK, CallPcs
  <2>3. QED  BY <2>1, <2>2
<1>4. /\ result' \in [Reqs -> BOOLEAN]
      /\ abandoned' \in [Reqs -> BOOLEAN] /\ condemned' \in [Reqs -> BOOLEAN]
  BY DEF SolveEnter, SolveStep, SolveAcquire, SolveUnqueue, HandoffSend, HandoffCanceled,
         HandoffClosed, HandoffReturn, AwaitResult, AwaitTimer, AwaitCondemn, AwaitGiveUp,
         SlotInv, TypeOK, CallTypeOK
<1>5. CallTypeOK'
  BY <1>3, <1>4 DEF CallTypeOK
<1>6. CASE SolveEnter(r) \/ SolveUnqueue(r) \/ AwaitResult(r) \/ AwaitTimer(r)
             \/ AwaitCondemn(r) \/ AwaitGiveUp(r)
  <2>1. UNCHANGED slotVars
    BY <1>6 DEF SolveEnter, SolveUnqueue, AwaitResult, AwaitTimer, AwaitCondemn, AwaitGiveUp
  <2>2. SlotTypeOK'
    BY <2>1 DEF SlotInv, TypeOK, SlotTypeOK, slotVars
  <2>3. call[r].pc # "handoff" /\ call'[r].pc # "handoff"
    BY <1>6, OutsideType DEF SolveEnter, SolveUnqueue, AwaitResult, AwaitTimer, AwaitCondemn,
                AwaitGiveUp, Return, SlotInv, TypeOK, CallTypeOK
  <2>4. \A q \in Reqs : q # r => call'[q] = call[q]
    BY <1>6 DEF SolveEnter, SolveUnqueue, AwaitResult, AwaitTimer, AwaitCondemn, AwaitGiveUp,
                Return, SlotInv, TypeOK, CallTypeOK
  <2>5. \A q \in Reqs, h \in Gens, t \in Slots : Holds(q, h, t)' <=> Holds(q, h, t)
    BY <2>3, <2>4 DEF Holds
  <2>6. QED
    BY <1>2, <1>5, <2>1, <2>2, <2>5, SameSlotsInv DEF TypeOK, slotVars
<1>7. ASSUME NEW t \in Slots, SolveAcquire(r, t)  PROVE SlotInv'
  <2>1. /\ idle[g][t] = 1
        /\ \A q \in Reqs : ~Holds(q, g, t)
    BY <1>7 DEF SolveAcquire, SlotInv, TypeOK, SlotTypeOK, SlotOnce
  <2>2. /\ idle' \in [Gens -> [Slots -> Nat]]
        /\ idle'[g][t] = 0
        /\ \A h \in Gens, u \in Slots : <<h, u>> # <<g, t>> => idle'[h][u] = idle[h][u]
    BY <1>7, <2>1 DEF SolveAcquire, SlotInv, TypeOK, SlotTypeOK
  <2>3. UNCHANGED <<pc, req>> /\ pc[g][t] \in {"wait", "exit"}
    BY <1>7, <2>1 DEF SolveAcquire, SlotInv, BusyIsUnoffered
  <2>4. \A q \in Reqs, h \in Gens, u \in Slots :
            Holds(q, h, u)' <=> Holds(q, h, u) \/ (q = r /\ h = g /\ u = t)
    BY <1>7 DEF SolveAcquire, SlotInv, TypeOK, CallTypeOK, Holds
  <2>5. SlotTypeOK'
    BY <2>2, <2>3 DEF SlotInv, TypeOK, SlotTypeOK
  <2>6. SlotOnce' /\ NoSlotLost' /\ BusyIsUnoffered' /\ UnstartedIsOff'
    BY <1>2, <2>1, <2>2, <2>3, <2>4
    DEF SlotInv, SlotOnce, NoSlotLost, BusyIsUnoffered, UnstartedIsOff
  <2>7. QED  BY <1>2, <1>5, <2>5, <2>6 DEF SlotInv, TypeOK
<1>8. CASE HandoffSend(r)
  <2>1. Holds(r, g, s) /\ idle[g][s] = 0 /\ pc[g][s] = "wait" /\ UNCHANGED idle
    BY <1>8 DEF HandoffSend, Holds, SlotInv, SlotOnce
  <2>2. Goto(g, s, "solve")
    BY <1>8 DEF HandoffSend
  <2>3. /\ pc' \in [Gens -> [Slots -> SlotPcs]]
        /\ pc'[g][s] = "solve"
        /\ \A h \in Gens, u \in Slots : <<h, u>> # <<g, s>> => pc'[h][u] = pc[h][u]
    BY <2>2, GotoLemma DEF SlotInv, TypeOK, SlotPcs
  <2>4. \A q \in Reqs, h \in Gens, u \in Slots : Holds(q, h, u)' <=> Holds(q, h, u) /\ q # r
    BY <1>8 DEF HandoffSend, SlotInv, TypeOK, CallTypeOK, Holds
  <2>5. SlotTypeOK'
    BY <1>8, <2>1, <2>3 DEF HandoffSend, SlotInv, TypeOK, SlotTypeOK
  <2>6. \A q \in Reqs : Holds(q, g, s) => q = r
    BY <2>1 DEF SlotInv, SlotOnce
  <2>7. UnstartedIsOff'
    BY <1>2, <2>1, <2>3 DEF SlotInv, UnstartedIsOff
  <2>8. SlotOnce' /\ NoSlotLost' /\ BusyIsUnoffered'
    BY <2>1, <2>3, <2>4, <2>6
    DEF SlotInv, SlotOnce, NoSlotLost, BusyIsUnoffered, Holds
  <2>9. QED  BY <1>2, <1>5, <2>5, <2>7, <2>8 DEF SlotInv, TypeOK
<1>9. CASE HandoffReturn(r)
  <2>1. Holds(r, g, s) /\ idle[g][s] = 0
    BY <1>9 DEF HandoffReturn, Holds, SlotInv, SlotOnce
  <2>2. /\ idle' \in [Gens -> [Slots -> Nat]]
        /\ idle'[g][s] = 1
        /\ \A h \in Gens, u \in Slots : <<h, u>> # <<g, s>> => idle'[h][u] = idle[h][u]
    BY <1>9, <2>1, GiveLemma DEF HandoffReturn, SlotInv, TypeOK
  <2>3. UNCHANGED <<pc, req>> /\ pc[g][s] \in {"wait", "exit"}
    BY <1>9, <2>1 DEF HandoffReturn, SlotInv, BusyIsUnoffered
  <2>4. \A q \in Reqs, h \in Gens, u \in Slots : Holds(q, h, u)' <=> Holds(q, h, u) /\ q # r
    BY <1>9, OutsideType DEF HandoffReturn, Return, SlotInv, TypeOK, CallTypeOK, Holds
  <2>5. SlotTypeOK'
    BY <2>2, <2>3 DEF SlotInv, TypeOK, SlotTypeOK
  <2>6. \A q \in Reqs : Holds(q, g, s) => q = r
    BY <2>1 DEF SlotInv, SlotOnce
  <2>7. \A h \in Gens, u \in Slots :
            <<h, u>> # <<g, s>> => \A q \in Reqs : Holds(q, h, u)' <=> Holds(q, h, u)
    BY <2>1, <2>4 DEF Holds
  <2>8. SlotOnce' /\ NoSlotLost' /\ BusyIsUnoffered' /\ UnstartedIsOff'
    BY <1>2, <2>2, <2>3, <2>4, <2>6, <2>7
    DEF SlotInv, SlotOnce, NoSlotLost, BusyIsUnoffered, UnstartedIsOff
  <2>9. QED  BY <1>2, <1>5, <2>5, <2>8 DEF SlotInv, TypeOK
<1>10. QED
  BY <1>6, <1>7, <1>8, <1>9 DEF SolveStep, HandoffCanceled, HandoffClosed

LEMMA SpecSlotInv == Spec => []SlotInv
<1>1. SlotInv /\ [Next]_vars => SlotInv'
  BY PoolStepInv, StartInv, SlotStepInv, SolveStepInv DEF Next
<1>2. QED  BY InitSlotInv, <1>1, PTL DEF Spec

\* The state always has its type.
THEOREM BrowserPoolType == Spec => []TypeOK
  BY SpecSlotInv, PTL DEF SlotInv

\* No slot is ever offered twice, held by two requests, or both offered and held.
THEOREM BrowserPoolSlotOnce == Spec => []SlotOnce
  BY SpecSlotInv, PTL DEF SlotInv

\* A waiting slot is always on offer or about to receive a request.
THEOREM BrowserPoolNoSlotLost == Spec => []NoSlotLost
  BY SpecSlotInv, PTL DEF SlotInv

(***************************************************************************)
(* A start that reports success.                                           *)
(***************************************************************************)

Standing(g) == {s \in Slots : pc[g][s] \in {"offer", "wait"}}

LEMMA GensArePositive == 0 \notin Gens /\ (PoolTypeOK => (cur # 0 => cur \in Gens) /\ ready \in Nat)
  BY BrowserPoolAssumption DEF PoolTypeOK, Gens

\* Only a generation that was reported as started is used by requests.
StartedIsOk == started /\ cur # 0 => starter[cur] = "ok"
UsedIsOk == \A r \in Reqs : call[r].pc \in {"queue", "handoff"} => starter[call[r].gen] = "ok"

\* Until then every slot that was counted stands, as nobody can take it.
CountedStand ==
    cur # 0 => (starter[cur] = "poll" /\ ~done[cur] => ready <= Cardinality(Standing(cur)))

ReadyInv == TypeOK /\ StartedIsOk /\ UsedIsOk /\ CountedStand

\* The slots of one generation are finitely many, and more of them count more.
LEMMA StandingCounts ==
    ASSUME NEW A \in SUBSET Slots, NEW B \in SUBSET Slots
    PROVE  /\ Cardinality(A) \in Nat /\ Size \in Nat
           /\ A \subseteq B => Cardinality(A) <= Cardinality(B)
           /\ Cardinality(A) <= Size /\ (Cardinality(A) = Size => A = Slots)
           /\ \A s \in Slots \ A : Cardinality(A \cup {s}) = Cardinality(A) + 1
<1>1. IsFiniteSet(Slots)
  BY BrowserPoolAssumption
<1>2. IsFiniteSet(A) /\ IsFiniteSet(B) /\ Cardinality(A) <= Size /\ (Size = Cardinality(A) => Slots = A)
  BY <1>1, FS_Subset DEF Size
<1>3. Cardinality(A) \in Nat /\ Size \in Nat
  BY <1>1, <1>2, FS_CardinalityType DEF Size
<1>4. A \subseteq B => Cardinality(A) <= Cardinality(B)
  BY <1>2, FS_Subset
<1>5. \A s \in Slots \ A : Cardinality(A \cup {s}) = Cardinality(A) + 1
  BY <1>2, FS_AddElement
<1>6. QED  BY <1>2, <1>3, <1>4, <1>5

LEMMA InitReady == ASSUME Init PROVE StartedIsOk /\ UsedIsOk /\ CountedStand
  BY OutsideType DEF Init, StartedIsOk, UsedIsOk, CountedStand

\* The count stands while no slot of the generation that is starting is lost.
LEMMA CountStays ==
    ASSUME CountedStand, TypeOK, TypeOK', cur' = cur, ready' = ready,
           cur # 0 => (done[cur] => done'[cur]) /\ (starter'[cur] = "poll" => starter[cur] = "poll"),
           cur # 0 /\ starter[cur] = "poll" /\ ~done[cur] => Standing(cur) \subseteq Standing(cur)'
    PROVE  CountedStand'
<1> SUFFICES ASSUME cur # 0, starter'[cur] = "poll", ~done'[cur]
             PROVE  ready <= Cardinality(Standing(cur)')
  BY DEF CountedStand, Standing
<1>1. ready <= Cardinality(Standing(cur)) /\ Standing(cur) \subseteq Standing(cur)'
  BY DEF CountedStand
<1>2. Standing(cur) \in SUBSET Slots /\ Standing(cur)' \in SUBSET Slots
  BY DEF Standing
<1>3. Cardinality(Standing(cur)) <= Cardinality(Standing(cur)')
  BY <1>1, <1>2, StandingCounts
<1>4. Cardinality(Standing(cur)) \in Nat /\ Cardinality(Standing(cur)') \in Nat /\ ready \in Nat
  BY <1>2, StandingCounts DEF TypeOK, PoolTypeOK
<1>5. QED  BY <1>1, <1>3, <1>4

LEMMA StartReadyInv ==
    ASSUME ReadyInv, TypeOK', NEW g \in Gens, Start(g) PROVE StartedIsOk' /\ UsedIsOk' /\ CountedStand'
<1>1. /\ cur' = g /\ ~started' /\ ready' = 0 /\ call' = call
      /\ starter' = [starter EXCEPT ![g] = "poll"] /\ starter[g] = "none"
  BY DEF Start, callVars
<1>2. StartedIsOk'
  BY <1>1 DEF StartedIsOk
<1>3. UsedIsOk'
  BY <1>1 DEF ReadyInv, UsedIsOk, TypeOK, GenTypeOK, CallTypeOK
<1>4. Cardinality(Standing(g)') \in Nat
  BY StandingCounts DEF Standing
<1>5. CountedStand'
  BY <1>1, <1>4 DEF CountedStand
<1>6. QED  BY <1>2, <1>3, <1>5

LEMMA PollReady ==
    ASSUME ReadyInv, TypeOK',
           \/ \E g \in Gens : StartStep(g)
           \/ Stop \/ TeardownSettle \/ TeardownEnd \/ UNCHANGED vars
    PROVE  StartedIsOk' /\ UsedIsOk' /\ CountedStand'
<1>1. UNCHANGED <<ready, idle, pc, req, call>>
  BY DEF StartStep, StartClosed, StartFailing, StartReady, StartTeardown, Starter, TeardownBegin, Stop,
     TeardownSettle, TeardownEnd, vars, poolVars, genVars, slotVars, callVars
<1>2. \A g \in Gens : /\ starter[g] = "ok" => starter'[g] = "ok"
                      /\ starter'[g] = "poll" => starter[g] = "poll"
                      /\ done[g] => done'[g]
  BY DEF StartStep, StartClosed, StartFailing, StartReady, StartTeardown, Starter, TeardownBegin, Stop,
     TeardownSettle, TeardownEnd, vars, poolVars, genVars, slotVars, callVars, ReadyInv, TypeOK,
     GenTypeOK, PoolTypeOK
<1>3. UsedIsOk'
  BY <1>1, <1>2 DEF ReadyInv, UsedIsOk, TypeOK, CallTypeOK
<1>4. StartedIsOk'
  <2>1. CASE \E g \in Gens : StartReady(g)
    <3>1. PICK g \in Gens : cur = g /\ cur' = g /\ starter' = [starter EXCEPT ![g] = "ok"]
      BY <2>1 DEF StartReady, Starter
    <3>2. starter'[g] = "ok"
      BY <3>1 DEF ReadyInv, TypeOK, GenTypeOK
    <3>3. QED  BY <3>1, <3>2 DEF StartedIsOk
  <2>2. ASSUME ~started' \/ (cur' = cur /\ started' = started) \/ cur' = 0 PROVE StartedIsOk'
    <3>1. cur # 0 => cur \in Gens
      BY GensArePositive DEF ReadyInv, TypeOK
    <3>2. QED  BY <1>2, <2>2, <3>1 DEF ReadyInv, StartedIsOk
  <2>3. (\E g \in Gens : StartReady(g)) \/ ~started' \/ (cur' = cur /\ started' = started) \/ cur' = 0
    BY DEF StartStep, StartClosed, StartFailing, StartTeardown, TeardownBegin, Stop, TeardownSettle,
       TeardownEnd, vars, poolVars
  <2>4. QED  BY <2>1, <2>2, <2>3
<1>5. CASE cur' = cur
  <2>1. cur # 0 => cur \in Gens
    BY GensArePositive DEF ReadyInv, TypeOK
  <2>2. Standing(cur) \subseteq Standing(cur)'
    BY <1>1, <1>5 DEF Standing
  <2>3. CountedStand'
    BY <1>1, <1>2, <1>5, <2>1, <2>2, CountStays DEF ReadyInv
  <2>4. QED  BY <1>3, <1>4, <2>3
<1>6. CASE cur' = 0
  BY <1>3, <1>4, <1>6 DEF CountedStand
<1>7. cur' = cur \/ cur' = 0
  BY DEF StartStep, StartClosed, StartFailing, StartReady, StartTeardown, Starter, TeardownBegin, Stop,
     TeardownSettle, TeardownEnd, vars, poolVars
<1>8. QED  BY <1>5, <1>6, <1>7

\* A slot that is counted stands, and goes only when its generation is done.
LEMMA SlotReady ==
    ASSUME ReadyInv, TypeOK', NEW g \in Gens, NEW s \in Slots, SlotStep(g, s)
    PROVE  StartedIsOk' /\ UsedIsOk' /\ CountedStand'
<1>1. UNCHANGED <<cur, started, starter, done, call>>
  BY DEF SlotStep, SlotSpawn, SlotBuilt, SlotBuildFailed, SlotOffer, SlotClosed, SlotSolved, SlotReplace,
     SlotReuse, poolVars, genVars, callVars
<1>2. StartedIsOk' /\ UsedIsOk'
  BY <1>1 DEF ReadyInv, StartedIsOk, UsedIsOk
<1>3. pc \in [Gens -> [Slots -> SlotPcs]] /\ ready \in Nat /\ (cur # 0 => cur \in Gens)
  BY GensArePositive DEF ReadyInv, TypeOK, SlotTypeOK
<1>4. PICK l \in SlotPcs : pc' = [pc EXCEPT ![g][s] = l]
  BY DEF SlotStep, SlotSpawn, SlotBuilt, SlotBuildFailed, SlotOffer, SlotClosed, SlotSolved, SlotReplace,
     SlotReuse, Goto, SlotPcs
<1>5. pc'[g][s] = l /\ \A h \in Gens, u \in Slots : <<h, u>> # <<g, s>> => pc'[h][u] = pc[h][u]
  BY <1>3, <1>4
<1>6. pc[g][s] \in {"offer", "wait"} => l \in {"offer", "wait"} \/ done[g]
  BY <1>5 DEF SlotStep, SlotSpawn, SlotBuilt, SlotBuildFailed, SlotOffer, SlotClosed, SlotSolved, SlotReplace,
     SlotReuse, Goto, ReadyInv, TypeOK, SlotTypeOK
<1>7. cur # 0 /\ ~done[cur] => Standing(cur) \subseteq Standing(cur)'
  <2> SUFFICES ASSUME cur # 0, ~done[cur], NEW u \in Standing(cur) PROVE u \in Standing(cur)'
    OBVIOUS
  <2>1. cur \in Gens /\ u \in Slots /\ pc[cur][u] \in {"offer", "wait"}
    BY <1>3 DEF Standing
  <2>2. CASE <<cur, u>> = <<g, s>>
    BY <1>1, <1>5, <1>6, <2>1, <2>2 DEF Standing
  <2>3. CASE <<cur, u>> # <<g, s>>
    BY <1>1, <1>5, <2>1, <2>3 DEF Standing
  <2>4. QED  BY <2>2, <2>3
<1>8. CASE ready' = ready
  <2>1. cur # 0 => done'[cur] = done[cur] /\ starter'[cur] = starter[cur]
    BY <1>1
  <2>2. CountedStand'
    BY <1>1, <1>7, <1>8, <2>1, CountStays DEF ReadyInv
  <2>3. QED  BY <1>2, <2>2
<1>9. CASE ready' # ready
  <2>1. ready' = ready + 1 /\ cur = g /\ pc[g][s] = "build" /\ l = "offer"
    BY <1>5, <1>9 DEF SlotStep, SlotSpawn, SlotBuilt, SlotBuildFailed, SlotOffer, SlotClosed, SlotSolved,
       SlotReplace, SlotReuse, Goto, Valid, ReadyInv, TypeOK, SlotTypeOK, poolVars
  <2> SUFFICES ASSUME starter[g] = "poll", ~done[g] PROVE ready + 1 <= Cardinality(Standing(g)')
    BY <1>1, <1>2, <2>1 DEF CountedStand, Standing
  <2>2. /\ s \in Slots \ Standing(g) /\ Standing(g)' = Standing(g) \cup {s}
        /\ Standing(g) \in SUBSET Slots
    BY <1>5, <2>1 DEF Standing
  <2>3. Cardinality(Standing(g)') = Cardinality(Standing(g)) + 1 /\ Cardinality(Standing(g)) \in Nat
    BY <2>2, StandingCounts
  <2>4. ready <= Cardinality(Standing(g))
    BY <2>1, <1>1, GensArePositive DEF ReadyInv, CountedStand
  <2>5. QED  BY <1>3, <2>3, <2>4
<1>10. QED  BY <1>2, <1>8, <1>9

LEMMA SolveReady ==
    ASSUME ReadyInv, TypeOK', NEW r \in Reqs, SolveEnter(r) \/ SolveStep(r)
    PROVE  StartedIsOk' /\ UsedIsOk' /\ CountedStand'
<1>1. UNCHANGED <<cur, started, ready, starter, done>>
  BY DEF SolveEnter, SolveStep, SolveAcquire, SolveUnqueue, HandoffSend, HandoffCanceled, HandoffClosed,
     HandoffReturn, AwaitResult, AwaitTimer, AwaitCondemn, AwaitGiveUp, poolVars, genVars
<1>2. call \in [Reqs -> [pc : CallPcs, gen : Gens, slot : Slots]]
  BY DEF ReadyInv, TypeOK, CallTypeOK
<1>3. \A q \in Reqs : \/ call'[q].pc \notin {"queue", "handoff"}
                      \/ call[q].pc \in {"queue", "handoff"} /\ call'[q].gen = call[q].gen
                      \/ started /\ cur # 0 /\ call'[q].gen = cur
  <2>1. CASE SolveEnter(r)
    BY <1>2, <2>1, OutsideType DEF SolveEnter, Return
  <2>2. CASE \E s \in Slots : SolveAcquire(r, s)
    BY <1>2, <2>2 DEF SolveAcquire
  <2>3. CASE HandoffSend(r) \/ AwaitTimer(r)
    BY <1>2, <2>3 DEF HandoffSend, AwaitTimer
  <2>4. CASE SolveUnqueue(r) \/ HandoffReturn(r) \/ AwaitResult(r) \/ AwaitCondemn(r) \/ AwaitGiveUp(r)
    <3>1. call' = [call EXCEPT ![r] = Outside("returned")]
      BY <2>4 DEF SolveUnqueue, HandoffReturn, AwaitResult, AwaitCondemn, AwaitGiveUp, Return
    <3>2. Outside("returned").pc = "returned"
      BY OutsideType
    <3>3. QED  BY <1>2, <3>1, <3>2
  <2>5. QED  BY <2>1, <2>2, <2>3, <2>4 DEF SolveStep, HandoffCanceled, HandoffClosed
<1>4. StartedIsOk' /\ UsedIsOk'
  BY <1>1, <1>3 DEF ReadyInv, StartedIsOk, UsedIsOk
<1>5. CASE pc' = pc
  <2>1. Standing(cur) \subseteq Standing(cur)'
    BY <1>1, <1>5 DEF Standing
  <2>2. QED  BY <1>1, <1>4, <2>1, CountStays DEF ReadyInv
<1>6. CASE HandoffSend(r)
  <2>1. call[r].pc = "handoff" /\ starter[call[r].gen] = "ok" /\ call[r].gen \in Gens /\ call[r].slot \in Slots
        /\ pc' = [pc EXCEPT ![call[r].gen][call[r].slot] = "solve"]
    BY <1>2, <1>6 DEF HandoffSend, Goto, ReadyInv, UsedIsOk
  <2>2. cur # 0 /\ starter[cur] = "poll" => Standing(cur) \subseteq Standing(cur)'
    BY <1>1, <2>1 DEF Standing, ReadyInv, TypeOK, SlotTypeOK, PoolTypeOK
  <2>3. QED  BY <1>1, <1>4, <2>2, CountStays DEF ReadyInv
<1>7. pc' = pc \/ HandoffSend(r)
  BY DEF SolveEnter, SolveStep, SolveAcquire, SolveUnqueue, HandoffCanceled, HandoffClosed, HandoffReturn,
     AwaitResult, AwaitTimer, AwaitCondemn, AwaitGiveUp, slotVars
<1>8. QED  BY <1>5, <1>6, <1>7

LEMMA ReadyStep ==
    ASSUME ReadyInv, TypeOK', [Next]_vars PROVE ReadyInv'
  BY StartReadyInv, PollReady, SlotReady, SolveReady DEF Next, ReadyInv

LEMMA SpecReadyInv == Spec => []ReadyInv
<1>1. Init => ReadyInv
  BY InitSlotInv, InitReady DEF ReadyInv, SlotInv
<1>2. ReadyInv /\ TypeOK' /\ [Next]_vars => ReadyInv'
  BY ReadyStep
<1>3. QED  BY <1>1, <1>2, BrowserPoolType, PTL DEF Spec

\* A Start that reports success finds every slot of its generation at work: what it
\* counted, it counted in its own generation, and nobody has taken it since
\* (pool.go:7, the comparison of generations at pool.go:128).
THEOREM BrowserPoolStartedReady == Spec => StartedAllReady
<1>1. ReadyInv => \A g \in Gens : StartReady(g) /\ ~done[g] => \A s \in Slots : pc[g][s] \in {"offer", "wait"}
  <2> SUFFICES ASSUME ReadyInv, NEW g \in Gens, StartReady(g), ~done[g], NEW s \in Slots
               PROVE  pc[g][s] \in {"offer", "wait"}
    OBVIOUS
  <2>1. cur = g /\ starter[g] = "poll" /\ ready >= Size /\ g # 0 /\ ready \in Nat
    BY GensArePositive DEF StartReady, Starter, ReadyInv, TypeOK, PoolTypeOK
  <2>2. ready <= Cardinality(Standing(g))
    BY <2>1 DEF ReadyInv, CountedStand
  <2>3. Standing(g) \in SUBSET Slots
    BY DEF Standing
  <2>4. Cardinality(Standing(g)) \in Nat /\ Size \in Nat /\ Cardinality(Standing(g)) <= Size
        /\ (Cardinality(Standing(g)) = Size => Standing(g) = Slots)
    BY <2>3, StandingCounts
  <2>5. Standing(g) = Slots
    BY <2>1, <2>2, <2>4
  <2>6. QED  BY <2>5 DEF Standing
<1>2. QED  BY <1>1, SpecReadyInv, PTL DEF Spec, StartedAllReady
=============================================================================
