----------------------------- MODULE BrowserSolver -----------------------------
(***************************************************************************)
(* The solver behind the captcha manager (internal/captcha/browser_solver.go:*)
(* acquirePool, Solve, releaseAfterUse, retireCurrentLocked, stopIdlePool,   *)
(* Close): browser pools are started on demand, one per configuration key,   *)
(* outside the lock; a pool in use is not stopped by a change of the key.    *)
(*                                                                         *)
(* One action per critical section, and per blocking call between two of     *)
(* them.  A pool is one of Pools, in the order they are created (the bound    *)
(* on starts); what happens inside a pool is in BrowserPool.                 *)
(***************************************************************************)
EXTENDS Naturals, FiniteSets

CONSTANTS
    Callers,
    Keys,     \* keys of the captcha configuration
    MaxPools, \* bound on the pools that are started
    None

Pools == 1..MaxPools

VARIABLES
    pool, retired,  \* the current pool and the one that waits for its last user
    inFlight,
    starting,       \* the pool whose start is registered: its channel
    cooling, closed,
    created, key,   \* pools created so far, and their key
    up,             \* started and not stopped
    pending,        \* pools whose channel is open
    doomed,         \* taken away by the idle loop or by Close, Stop not yet called
    pc, want, mine  \* each caller

table == <<pool, retired, inFlight, starting, cooling, closed>>
vars == <<table, created, key, up, pending, doomed, pc, want, mine>>

Init ==
    /\ pool = None /\ retired = None /\ inFlight = 0 /\ starting = None
    /\ cooling = FALSE /\ closed = FALSE
    /\ created = 0 /\ key = [p \in Pools |-> None] /\ up = {} /\ pending = {} /\ doomed = {}
    /\ pc = [c \in Callers |-> "idle"] /\ want = [c \in Callers |-> None]
    /\ mine = [c \in Callers |-> None]

Goto(c, where) == pc' = [pc EXCEPT ![c] = where]
Holding(c, p) == mine' = [mine EXCEPT ![c] = p]
Leave(c) == Goto(c, "idle") /\ Holding(c, None) /\ want' = [want EXCEPT ![c] = None]

Call(c) ==
    /\ pc[c] = "idle" /\ Goto(c, "acquire")
    /\ \E k \in Keys : want' = [want EXCEPT ![c] = k]
    /\ UNCHANGED <<table, created, key, up, pending, doomed, mine>>

----------------------------------------------------------------------------
(* acquirePool: the first critical section, one action per exit *)

\* The context has ended, the solver is closed, or it cools.
Refused(c) ==
    /\ pc[c] = "acquire" /\ Leave(c)
    /\ UNCHANGED <<table, created, key, up, pending, doomed>>

Open(c) == pc[c] = "acquire" /\ ~closed /\ ~cooling

Usable(k) == pool # None /\ key[pool] = k

Reuse(c) ==
    /\ Open(c) /\ Usable(want[c])
    /\ inFlight' = inFlight + 1 /\ Goto(c, "got")
    /\ UNCHANGED <<pool, retired, starting, cooling, closed, created, key, up, pending, doomed>>
    /\ UNCHANGED <<want, mine>>

\* return s.pool: read after the lock was given up.
ReadPool(c) ==
    /\ pc[c] = "got" /\ Holding(c, pool) /\ Goto(c, "solving")
    /\ UNCHANGED <<table, created, key, up, pending, doomed, want>>

SameStart(k) == starting # None /\ key[starting] = k

Queue(c) ==
    /\ Open(c) /\ ~Usable(want[c]) /\ SameStart(want[c])
    /\ Holding(c, starting) /\ Goto(c, "waiting")
    /\ UNCHANGED <<table, created, key, up, pending, doomed, want>>

\* The channel is closed, or the context ends.
Wait(c) ==
    /\ pc[c] = "waiting"
    /\ \/ mine[c] \notin pending /\ Goto(c, "acquire") /\ Holding(c, None) /\ UNCHANGED want
       \/ Leave(c)
    /\ UNCHANGED <<table, created, key, up, pending, doomed>>

\* retireCurrentLocked: what has to be stopped at once.
StopNow == IF pool = None THEN None ELSE IF inFlight > 0 THEN retired ELSE pool

RetireCurrent ==
    /\ pool' = None
    /\ retired' = IF pool # None /\ inFlight > 0 THEN pool ELSE retired

\* Registers the start; the old pool is stopped and the new one started outside the lock.
Register(c) ==
    LET p == created + 1
    IN  /\ Open(c) /\ ~Usable(want[c]) /\ ~SameStart(want[c])
        /\ created < MaxPools /\ created' = p /\ key' = [key EXCEPT ![p] = want[c]]
        /\ starting' = p /\ pending' = pending \cup {p} /\ RetireCurrent
        /\ up' = up \ {StopNow}
        /\ Holding(c, p) /\ Goto(c, "starting")
        /\ UNCHANGED <<inFlight, cooling, closed, doomed, want>>

\* pool.Start returns.
Started(c) ==
    /\ pc[c] = "starting" /\ up' = up \cup {mine[c]} /\ Goto(c, "commit")
    /\ UNCHANGED <<table, created, key, pending, doomed, want, mine>>

StartFails(c) ==
    /\ pc[c] = "starting" /\ Goto(c, "commit")
    /\ UNCHANGED <<table, created, key, up, pending, doomed, want, mine>>

\* Mutant: the channel that is registered is closed, not the caller's own.
WakesRegistered(c) == pending' = pending \ {starting}

\* The caller's own channel is closed, whatever start is registered by now.
Wakes(c) == pending' = pending \ {mine[c]}

\* The second critical section; a refused pool is stopped outside the lock.
Commit(c) ==
    /\ pc[c] = "commit" /\ starting' = None /\ Wakes(c)
    /\ UNCHANGED <<retired, closed, created, key, doomed>>
    /\ IF mine[c] \notin up THEN cooling' = TRUE /\ Leave(c) /\ UNCHANGED <<pool, inFlight, up>>
       ELSE IF closed \/ cooling
       THEN up' = up \ {mine[c]} /\ Leave(c) /\ UNCHANGED <<pool, inFlight, cooling>>
       ELSE /\ pool' = mine[c] /\ inFlight' = inFlight + 1 /\ Goto(c, "solving")
            /\ UNCHANGED <<cooling, up, want, mine>>

\* pool.Solve returns, and the use is given back; its last user stops a retired pool.
Release(c) ==
    /\ pc[c] = "solving" /\ inFlight' = inFlight - 1 /\ Leave(c)
    /\ IF inFlight' = 0 /\ retired # None
       THEN retired' = None /\ up' = up \ {retired}
       ELSE UNCHANGED <<retired, up>>
    /\ UNCHANGED <<pool, starting, cooling, closed, created, key, pending, doomed>>

----------------------------------------------------------------------------
(* The idle loop, Close, and the end of the cooling *)

\* No call is under way and the last use is long ago.
Idle == inFlight = 0

StopIdle ==
    /\ ~closed /\ pool # None /\ Idle
    /\ doomed' = doomed \cup {pool} /\ pool' = None
    /\ UNCHANGED <<retired, inFlight, starting, cooling, closed, created, key, up, pending>>
    /\ UNCHANGED <<pc, want, mine>>

Close ==
    /\ ~closed /\ closed' = TRUE
    /\ doomed' = doomed \cup ({pool, retired} \ {None}) /\ pool' = None /\ retired' = None
    /\ UNCHANGED <<inFlight, starting, cooling, created, key, up, pending, pc, want, mine>>

\* pool.Stop, outside the lock.
Stop ==
    /\ doomed # {} /\ \E p \in doomed : doomed' = doomed \ {p} /\ up' = up \ {p}
    /\ UNCHANGED <<table, created, key, pending, pc, want, mine>>

Thaw ==
    /\ cooling /\ cooling' = FALSE
    /\ UNCHANGED <<pool, retired, inFlight, starting, closed, created, key, up, pending, doomed>>
    /\ UNCHANGED <<pc, want, mine>>

CallerStep(c) ==
    \/ Refused(c) \/ Reuse(c) \/ ReadPool(c) \/ Queue(c) \/ Wait(c) \/ Register(c)
    \/ Started(c) \/ StartFails(c) \/ Commit(c) \/ Release(c)

Next == \/ \E c \in Callers : Call(c) \/ CallerStep(c)
        \/ StopIdle \/ Close \/ Stop \/ Thaw

Spec == Init /\ [][Next]_vars

----------------------------------------------------------------------------
(* Properties *)

Users == {c \in Callers : pc[c] \in {"got", "solving"}}
Starters == {c \in Callers : pc[c] \in {"starting", "commit"}}

TypeOK ==
    /\ {pool, retired, starting} \subseteq Pools \cup {None}
    /\ inFlight = Cardinality(Users)
    /\ up \cup pending \cup doomed \subseteq 1..created
    /\ \A c \in Starters : mine[c] \in pending

\* The idle loop never takes a pool somebody solves on (browser_solver.go:172-175).
IdleStopsIdle ==
    [][\A c \in Callers, p \in doomed' \ doomed :
        pc[c] = "solving" /\ mine[c] = p => closed']_vars

\* Whoever waits for another caller's start will be woken, also when a start for a
\* second key was registered meanwhile: the channel is closed, or its starter is
\* still there to close it (browser_solver.go:276-303).
WaitersWake ==
    \A c \in Callers : pc[c] = "waiting" /\ mine[c] \in pending =>
        \E d \in Starters : mine[d] = mine[c]

\* Whoever waits for a pool that is being started is woken, and only a pool that
\* nobody uses is stopped for being idle.
PoolsServe == [](TypeOK /\ WaitersWake) /\ IdleStopsIdle

\* acquirePool returns a usable pool (browser_solver.go:245): a caller solves on a
\* pool of its key.
UsablePool ==
    \A c \in Callers : pc[c] = "solving" => mine[c] # None /\ key[mine[c]] = want[c]

\* Old pools are stopped in the end (browser_solver.go:246-247): no pool runs that
\* nobody holds and nobody will stop.
NoOrphan ==
    up \subseteq {pool, retired} \cup doomed
                 \cup {mine[c] : c \in {d \in Callers : pc[d] \in {"commit", "solving"}}}

=============================================================================
