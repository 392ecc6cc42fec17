----------------------------- MODULE BrowserPool -----------------------------
(***************************************************************************)
(* The bounded pool of browser workers (internal/captcha/pool.go).          *)
(*                                                                         *)
(* A generation is one Start..Stop life of the pool.  Each slot of a        *)
(* generation is a goroutine that builds a worker, offers itself on the     *)
(* generation's idle channel, serves one request at a time and rebuilds a   *)
(* worker that died, was condemned or is due for recycling.  A request is   *)
(* one call of Pool.Solve.  Start polls, Stop tears down, and both run      *)
(* concurrently with everything else.                                       *)
(*                                                                         *)
(* Timers and context cancellation are free to fire at any moment.          *)
(***************************************************************************)
EXTENDS Integers, FiniteSets, FiniteSetsExt

CONSTANTS
    Slots,     \* worker slots (p.size of them)
    Reqs,      \* calls of Pool.Solve
    MaxGen,    \* bound on the number of generations
    None       \* no request

Gens == 1..MaxGen

ASSUME BrowserPoolAssumption ==
    /\ IsFiniteSet(Slots) /\ Slots # {}
    /\ MaxGen \in Nat \ {0}
    /\ None \notin Reqs

VARIABLES
    cur, started, startErr, ready, closing,  \* Pool: cur (0 is nil), started, startErr, readyNum, closeOnce
    done, settled,   \* per generation: the two channels are closed
    starter,         \* per generation: where the Start that created it stands
    idle,            \* per generation and slot: copies of the slot in g.idle
    pc, req,         \* per generation and slot: its goroutine; the last request its worker took
    call,            \* per request: where Solve stands, its generation and slot
    result,          \* per request: req.done holds a result
    abandoned, condemned

poolVars == <<cur, started, startErr, ready, closing>>
genVars == <<done, settled, starter>>
slotVars == <<idle, pc, req>>
callVars == <<call, result, abandoned, condemned>>
vars == <<poolVars, genVars, slotVars, callVars>>

Size == Cardinality(Slots)

IdleLen(g) == SumFunctionOnSet(idle[g], Slots)

Give(g, s) == [idle EXCEPT ![g][s] = @ + 1]

Goto(g, s, l) == pc' = [pc EXCEPT ![g][s] = l]

\* A call outside the pool: its generation and slot do not matter.
Outside(l) == [pc |-> l, gen |-> 1, slot |-> CHOOSE s \in Slots : TRUE]

Return(r) == call' = [call EXCEPT ![r] = Outside("returned")]

----------------------------------------------------------------------------

Init ==
    /\ cur = 0 /\ started = FALSE /\ startErr = FALSE /\ ready = 0 /\ closing = FALSE
    /\ done = [g \in Gens |-> FALSE]
    /\ settled = [g \in Gens |-> FALSE]
    /\ starter = [g \in Gens |-> "none"]
    /\ idle = [g \in Gens |-> [s \in Slots |-> 0]]
    /\ pc = [g \in Gens |-> [s \in Slots |-> "off"]]
    /\ req = [g \in Gens |-> [s \in Slots |-> None]]
    /\ call = [r \in Reqs |-> Outside("idle")]
    /\ result = [r \in Reqs |-> FALSE]
    /\ abandoned = [r \in Reqs |-> FALSE]
    /\ condemned = [r \in Reqs |-> FALSE]

----------------------------------------------------------------------------
(* Start *)

\* Start creates generation g and its slot goroutines.
Start(g) ==
    /\ ~started /\ cur = 0
    /\ starter[g] = "none" /\ \A h \in Gens : h < g => starter[h] # "none"
    /\ cur' = g /\ startErr' = FALSE /\ ready' = 0
    /\ starter' = [starter EXCEPT ![g] = "poll"]
    /\ pc' = [pc EXCEPT ![g] = [s \in Slots |-> "spawn"]]
    /\ UNCHANGED <<started, closing, done, settled, idle, req, callVars>>

Starter(g, from, to) ==
    /\ starter[g] = from
    /\ starter' = [starter EXCEPT ![g] = to]
    /\ UNCHANGED <<done, settled, slotVars, callVars>>

\* The poll finds that another generation, or none, is current.
StartClosed(g) ==
    /\ cur # g
    /\ Starter(g, "poll", "failed")
    /\ UNCHANGED poolVars

\* The poll finds a startup error, or its deadline passes with slots missing.
StartFailing(g) ==
    /\ cur = g
    /\ startErr \/ ready < Size
    /\ Starter(g, "poll", "failing")
    /\ UNCHANGED poolVars

\* The poll finds every slot ready.
StartReady(g) ==
    /\ cur = g /\ ~startErr /\ ready >= Size
    /\ Starter(g, "poll", "ok")
    /\ started' = TRUE
    /\ UNCHANGED <<cur, startErr, ready, closing>>

----------------------------------------------------------------------------
(* teardown: three critical sections *)

TeardownBegin ==
    /\ cur # 0 /\ ~closing
    /\ closing' = TRUE /\ started' = FALSE
    /\ done' = [done EXCEPT ![cur] = TRUE]
    /\ UNCHANGED <<cur, startErr, ready, settled, slotVars, callVars>>

Stop == TeardownBegin /\ UNCHANGED starter

\* A failed Start tears down the generation that is current by now.
StartTeardown(g) ==
    /\ starter[g] = "failing"
    /\ starter' = [starter EXCEPT ![g] = "failed"]
    /\ \/ TeardownBegin
       \/ /\ cur = 0 \/ closing
          /\ UNCHANGED <<poolVars, done, settled, slotVars, callVars>>

\* The slots have ended or the shutdown timeout has passed.
TeardownSettle ==
    /\ closing /\ ~settled[cur]
    /\ settled' = [settled EXCEPT ![cur] = TRUE]
    /\ UNCHANGED <<poolVars, done, starter, slotVars, callVars>>

TeardownEnd ==
    /\ closing /\ settled[cur]
    /\ cur' = 0 /\ closing' = FALSE
    /\ UNCHANGED <<started, startErr, ready, genVars, slotVars, callVars>>

----------------------------------------------------------------------------
(* slotLoop and serveLoop *)

\* Mutant: a slot of an earlier generation counts as current.
ValidUnlessClosing(g) == ~closing

Valid(g) == cur = g /\ ~closing

\* Top of slotLoop (also the restart delay): leave if closed, else build.
SlotSpawn(g, s) ==
    /\ pc[g][s] = "spawn"
    /\ Goto(g, s, IF done[g] THEN "exit" ELSE "build")
    /\ UNCHANGED <<poolVars, genVars, idle, req, callVars>>

\* The factory succeeds: markReady.
SlotBuilt(g, s) ==
    /\ pc[g][s] = "build"
    /\ Goto(g, s, IF Valid(g) THEN "offer" ELSE "exit")
    /\ ready' = IF Valid(g) /\ ready < Size THEN ready + 1 ELSE ready
    /\ UNCHANGED <<cur, started, startErr, closing, genVars, idle, req, callVars>>

\* The factory fails: factoryFailed.
SlotBuildFailed(g, s) ==
    /\ pc[g][s] = "build"
    /\ Goto(g, s, IF Valid(g) /\ started THEN "spawn" ELSE "exit")
    /\ startErr' = (startErr \/ (Valid(g) /\ ~started))
    /\ UNCHANGED <<cur, started, ready, closing, genVars, idle, req, callVars>>

\* The worker offers itself on the idle channel.
SlotOffer(g, s) ==
    /\ pc[g][s] = "offer"
    /\ IdleLen(g) < Size
    /\ idle' = Give(g, s)
    /\ Goto(g, s, "wait")
    /\ UNCHANGED <<poolVars, genVars, req, callVars>>

\* done closes while the worker offers itself or waits for a request.
SlotClosed(g, s) ==
    /\ pc[g][s] \in {"offer", "wait"} /\ done[g]
    /\ Goto(g, s, "exit")
    /\ req' = [req EXCEPT ![g][s] = None]
    /\ UNCHANGED <<poolVars, genVars, idle, callVars>>

\* The worker ends its request, with a token or an error; the result is
\* delivered unless abandoned.
SlotSolved(g, s) ==
    LET r == req[g][s]
    IN  /\ pc[g][s] = "solve"
        /\ result' = [result EXCEPT ![r] = @ \/ ~abandoned[r]]
        /\ Goto(g, s, "judge")
        /\ UNCHANGED <<poolVars, genVars, idle, req, call, abandoned, condemned>>

\* Replace the worker: dead, condemned, or due for recycling (free choice).
SlotReplace(g, s) ==
    /\ pc[g][s] = "judge"
    /\ Goto(g, s, "spawn")
    /\ req' = [req EXCEPT ![g][s] = None]
    /\ UNCHANGED <<poolVars, genVars, idle, callVars>>

\* The worker goes on serving.
SlotReuse(g, s) ==
    /\ pc[g][s] = "judge" /\ ~condemned[req[g][s]]
    /\ Goto(g, s, "offer")
    /\ UNCHANGED <<poolVars, genVars, idle, req, callVars>>

SlotStep(g, s) ==
    \/ SlotSpawn(g, s) \/ SlotBuilt(g, s) \/ SlotBuildFailed(g, s)
    \/ SlotOffer(g, s) \/ SlotClosed(g, s)
    \/ SlotSolved(g, s)
    \/ SlotReplace(g, s) \/ SlotReuse(g, s)

----------------------------------------------------------------------------
(* Solve *)

SolveEnter(r) ==
    /\ call[r].pc = "idle"
    /\ IF started /\ cur # 0
       THEN call' = [call EXCEPT ![r].pc = "queue", ![r].gen = cur]
       ELSE Return(r)
    /\ UNCHANGED <<poolVars, genVars, slotVars, result, abandoned, condemned>>

\* An idle slot.
SolveAcquire(r, s) ==
    LET g == call[r].gen
    IN  /\ call[r].pc = "queue" /\ idle[g][s] > 0
        /\ idle' = [idle EXCEPT ![g][s] = @ - 1]
        /\ call' = [call EXCEPT ![r].pc = "handoff", ![r].slot = s]
        /\ UNCHANGED <<poolVars, genVars, pc, req, result, abandoned, condemned>>

\* Queue timeout, cancelled context or closed pool.
SolveUnqueue(r) ==
    /\ call[r].pc = "queue"
    /\ Return(r)
    /\ UNCHANGED <<poolVars, genVars, slotVars, result, abandoned, condemned>>

\* handoff: the slot receives the request.
HandoffSend(r) ==
    LET g == call[r].gen
        s == call[r].slot
    IN  /\ call[r].pc = "handoff" /\ pc[g][s] = "wait"
        /\ req' = [req EXCEPT ![g][s] = r]
        /\ Goto(g, s, "solve")
        /\ call' = [call EXCEPT ![r].pc = "await"]
        /\ UNCHANGED <<poolVars, genVars, idle, result, abandoned, condemned>>

\* Mutant: the slot is not given back.
HandoffForget(r) ==
    /\ call[r].pc = "handoff"
    /\ abandoned' = [abandoned EXCEPT ![r] = TRUE]
    /\ Return(r)
    /\ UNCHANGED <<poolVars, genVars, idle, pc, req, result, condemned>>

\* handoff: cancelled context or closed pool; the slot goes back to idle.
HandoffReturn(r) ==
    /\ call[r].pc = "handoff"
    /\ IdleLen(call[r].gen) < Size
    /\ idle' = Give(call[r].gen, call[r].slot)
    /\ abandoned' = [abandoned EXCEPT ![r] = TRUE]
    /\ Return(r)
    /\ UNCHANGED <<poolVars, genVars, pc, req, result, condemned>>

HandoffCanceled(r) == HandoffReturn(r)

\* Mutant: the hand-off does not watch done.
HandoffUnwatched(r) == FALSE

HandoffClosed(r) == done[call[r].gen] /\ HandoffReturn(r)

\* The result arrives.
AwaitResult(r) ==
    /\ call[r].pc = "await" /\ result[r]
    /\ result' = [result EXCEPT ![r] = FALSE]
    /\ Return(r)
    /\ UNCHANGED <<poolVars, genVars, slotVars, abandoned, condemned>>

\* The request timer fires and req.done is still empty.
AwaitTimer(r) ==
    /\ call[r].pc = "await" /\ ~result[r]
    /\ call' = [call EXCEPT ![r].pc = "expired"]
    /\ UNCHANGED <<poolVars, genVars, slotVars, result, abandoned, condemned>>

\* ... then the slot is condemned and the request abandoned.
AwaitCondemn(r) ==
    /\ call[r].pc = "expired"
    /\ condemned' = [condemned EXCEPT ![r] = TRUE]
    /\ abandoned' = [abandoned EXCEPT ![r] = TRUE]
    /\ Return(r)
    /\ UNCHANGED <<poolVars, genVars, slotVars, result>>

\* Mutant: giving up gives the busy slot back.
AwaitGiveBack(r) ==
    /\ call[r].pc = "await"
    /\ idle' = Give(call[r].gen, call[r].slot)
    /\ abandoned' = [abandoned EXCEPT ![r] = TRUE]
    /\ Return(r)
    /\ UNCHANGED <<poolVars, genVars, pc, req, result, condemned>>

\* The context is cancelled, or the closed pool gave up on the request.
AwaitGiveUp(r) ==
    /\ call[r].pc = "await"
    /\ abandoned' = [abandoned EXCEPT ![r] = TRUE]
    /\ Return(r)
    /\ UNCHANGED <<poolVars, genVars, slotVars, result, condemned>>

SolveStep(r) ==
    \/ \E s \in Slots : SolveAcquire(r, s)
    \/ SolveUnqueue(r)
    \/ HandoffSend(r) \/ HandoffCanceled(r) \/ HandoffClosed(r)
    \/ AwaitResult(r) \/ AwaitTimer(r) \/ AwaitCondemn(r) \/ AwaitGiveUp(r)

----------------------------------------------------------------------------

StartStep(g) == StartClosed(g) \/ StartFailing(g) \/ StartReady(g) \/ StartTeardown(g)

Next ==
    \/ \E g \in Gens : Start(g) \/ StartStep(g)
    \/ Stop \/ TeardownSettle \/ TeardownEnd
    \/ \E g \in Gens, s \in Slots : SlotStep(g, s)
    \/ \E r \in Reqs : SolveEnter(r) \/ SolveStep(r)

Spec == Init /\ [][Next]_vars

SolveProgress(r) ==
    \/ SolveUnqueue(r) \/ HandoffSend(r) \/ HandoffClosed(r)
    \/ AwaitResult(r) \/ AwaitTimer(r) \/ AwaitCondemn(r)

(***************************************************************************)
(* The goroutine of a request runs, and its queue and request timers fire.  *)
(* Nothing is assumed of slots, Start and Stop, nor about cancellation: a   *)
(* caller may pass a context that never ends, so leaving the hand-off needs *)
(* the slot or the closed generation.                                       *)
(***************************************************************************)
FairSpec == Spec /\ \A r \in Reqs : WF_vars(SolveProgress(r))

----------------------------------------------------------------------------
(* Properties *)

SlotPcs == {"off", "spawn", "build", "offer", "wait", "solve", "judge", "exit"}
CallPcs == {"idle", "queue", "handoff", "await", "expired", "returned"}

PoolTypeOK ==
    /\ cur \in 0..MaxGen /\ ready \in Nat
    /\ started \in BOOLEAN /\ startErr \in BOOLEAN /\ closing \in BOOLEAN

GenTypeOK ==
    /\ done \in [Gens -> BOOLEAN] /\ settled \in [Gens -> BOOLEAN]
    /\ starter \in [Gens -> {"none", "poll", "failing", "failed", "ok"}]

SlotTypeOK ==
    /\ idle \in [Gens -> [Slots -> Nat]]
    /\ pc \in [Gens -> [Slots -> SlotPcs]]
    /\ req \in [Gens -> [Slots -> Reqs \cup {None}]]

CallTypeOK ==
    /\ call \in [Reqs -> [pc : CallPcs, gen : Gens, slot : Slots]]
    /\ result \in [Reqs -> BOOLEAN]
    /\ abandoned \in [Reqs -> BOOLEAN] /\ condemned \in [Reqs -> BOOLEAN]

\* The shape of the state.
TypeOK == PoolTypeOK /\ GenTypeOK /\ SlotTypeOK /\ CallTypeOK

\* Request r took slot s of generation g from the idle channel and has not
\* handed itself over yet.
Holds(r, g, s) == call[r].pc = "handoff" /\ call[r].gen = g /\ call[r].slot = s

\* A slot is offered at most once and held by at most one request, never
\* both.  Hence giving it back to the idle channel never blocks
\* (pool.go:403-404), and two requests never share a worker.
SlotOnce ==
    \A g \in Gens, s \in Slots :
        /\ idle[g][s] <= 1
        /\ \A r1 \in Reqs : Holds(r1, g, s) =>
              /\ idle[g][s] = 0
              /\ \A r2 \in Reqs : Holds(r2, g, s) => r1 = r2

\* A slot that waits for a request is in the idle channel or in the hands of
\* a request: cancelled and timed out requests never cost the pool a slot
\* (pool.go:399-404).
NoSlotLost ==
    \A g \in Gens, s \in Slots :
        pc[g][s] = "wait" => idle[g][s] = 1 \/ \E r \in Reqs : Holds(r, g, s)

\* Start reports success only when every slot of its generation has a worker,
\* even if slots of an earlier generation are still building one
\* (pool.go:7, generation at pool.go:128).
StartedAllReady ==
    [][\A g \in Gens : StartReady(g) /\ ~done[g] =>
          \A s \in Slots : pc[g][s] \in {"offer", "wait"}]_vars

\* Every call of Solve returns, whatever its slot does.
SolveReturns == \A r \in Reqs : call[r].pc = "queue" ~> call[r].pc = "returned"

\* "After closing, Start may be called again" (pool.go:259): a pool that has no
\* generation is not marked as started, else Start is a no-op for ever.
RestartableAfterStop == cur = 0 => ~started

\* "A request timeout condemns the slot: its worker is dropped and rebuilt"
\* (pool.go:8): a worker on offer did not serve a condemned request.
TimeoutReplacesWorker ==
    \A g \in Gens, s \in Slots :
        pc[g][s] \in {"offer", "wait"} /\ req[g][s] # None => ~condemned[req[g][s]]

=============================================================================
