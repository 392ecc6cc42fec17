------------------------------ MODULE TokenPool ------------------------------
(***************************************************************************)
(* The pool of pre-solved captcha tokens (internal/captcha/token_pool.go). *)
(*                                                                         *)
(* Requests call Take; background goroutines mint tokens by driving a      *)
(* browser and deliver them to the oldest waiting Take or to the bucket of *)
(* the current configuration key.  Every critical section of p.mu is one   *)
(* action; a Take that waits is three of them (register, then either       *)
(* receive from its one-slot channel or remove itself).                    *)
(*                                                                         *)
(* `pool` is the Go struct.  Operators named after a ...Locked method take *)
(* the struct and return the struct that method leaves behind, because the *)
(* code calls several of them inside one critical section.                 *)
(***************************************************************************)
EXTENDS Integers, Sequences, FiniteSets, FiniteSetsExt, SequencesExt

CONSTANTS
    Takers,      \* requests that may call Take concurrently
    Keys,        \* configuration keys sceneId|region|prefix
    Certs,       \* certifyIds the solver may return
    None,        \* nothing in a channel; no configuration yet
    Err,         \* an error in a channel
    TTL,         \* life of a token, in clock units
    Grace,       \* extra life of a registry entry (one minute in the code)
    IdleShrink,  \* idle time after which the target shrinks to 1
    IdleStop,    \* idle time after which background minting stops
    PoolMin, PoolMax, EmptySolve,
    Factors,     \* percentages the CPU governor may answer
    MaxTime      \* bound on the clock

ASSUME TokenPoolAssumption ==
    /\ None \notin Keys
    /\ None \notin [cert : Certs, key : Keys, exp : Nat, fresh : BOOLEAN]
    /\ Err # None
    /\ TTL \in Nat \ {0} /\ Grace \in Nat
    /\ IdleShrink \in Nat /\ IdleStop \in Nat /\ IdleShrink < IdleStop
    /\ PoolMin \in Nat \ {0} /\ PoolMax \in Nat /\ PoolMin <= PoolMax
    /\ EmptySolve \in 1..2
    /\ Factors \subseteq 1..100 /\ Factors # {}
    /\ MaxTime \in Nat

VARIABLES
    now,      \* p.now()
    pool,     \* the tokenPool struct
    chan,     \* the channel of each Take: None, Err or a token
    taker,    \* the key each waiting Take asked for; None: no Take in progress
    spent     \* ghost: unexpired tokens a Take returned since the registry was cleared

vars == <<now, pool, chan, taker, spent>>

\* fresh is a ghost: the registry was not cleared since the token was minted.
Tokens == [cert : Certs, key : Keys, exp : 0..(MaxTime + TTL), fresh : BOOLEAN]

----------------------------------------------------------------------------
(* Helpers on the struct *)

Live(tok) == now < tok.exp

Registered(p, c) == now < p.issued[c]

\* Mutant: issued certifyIds are not recorded.
RegisterNothing(p, cs) == p

Register(p, cs) ==
    [p EXCEPT !.issued = [c \in Certs |-> IF c \in cs THEN now + TTL + Grace ELSE @[c]]]

NoBuckets == [k \in Keys |-> <<>>]

NoIssued == [c \in Certs |-> 0]

AppendBucketLocked(p, k, tok) ==
    LET b == Append(p.buckets[k], tok)
    IN  [p EXCEPT !.buckets[k] =
            IF Len(b) > PoolMax THEN SubSeq(b, Len(b) - PoolMax + 1, Len(b)) ELSE b]

LivePositions(b) == {i \in DOMAIN b : Live(b[i])}

\* Position of the n-th live token of b: popLocked drops the expired ones before it.
NthLive(b, n) ==
    CHOOSE i \in LivePositions(b) : Cardinality({j \in LivePositions(b) : j <= i}) = n

\* What is left of b without the expired tokens, in the same order.
Kept(b) == [i \in 1..Cardinality(LivePositions(b)) |-> b[NthLive(b, i)]]

PruneLocked(p) ==
    [p EXCEPT !.buckets = [k \in Keys |-> Kept(@[k])],
              !.issued = [c \in Certs |-> IF now < @[c] THEN @[c] ELSE 0]]

\* n consecutive calls of popLocked that all succeed.
PopLocked(p, n) ==
    LET b == p.buckets[p.key]
        cut == NthLive(b, n)
    IN  Register([p EXCEPT !.buckets[p.key] = SubSeq(b, cut + 1, Len(b))],
                 {b[NthLive(b, i)].cert : i \in 1..n})

LaunchMintsLocked(p, n) == [p EXCEPT !.inflight[p.key] = @ + n]

WaiterSet(p) == {p.waiters[i] : i \in DOMAIN p.waiters}

Servable(p) == ~p.closed /\ p.active /\ p.solver

(***************************************************************************)
(* failWaitersLocked, deliverBucketToWaitersLocked and ensureMintsLocked    *)
(* write to channels as well, so they return the pair [p, ch].              *)
(***************************************************************************)
FailWaitersLocked(p, ch) ==
    [p  |-> [p EXCEPT !.waiters = <<>>],
     ch |-> [t \in Takers |-> IF t \in WaiterSet(p) THEN Err ELSE ch[t]]]

DeliverBucketToWaitersLocked(p, ch) ==
    LET b == p.buckets[p.key]
        n == Min({Len(p.waiters), Cardinality(LivePositions(b))})
        given == [t \in {p.waiters[i] : i \in 1..n} |->
                    b[NthLive(b, CHOOSE i \in 1..n : p.waiters[i] = t)]]
    IN  [p  |-> [PopLocked(p, n) EXCEPT !.waiters = SubSeq(@, n + 1, Len(@))],
         ch |-> [t \in Takers |-> IF t \in DOMAIN given THEN given[t] ELSE ch[t]]]

EnsureMintsLocked(p, ch) ==
    IF ~Servable(p) THEN FailWaitersLocked(p, ch)
    ELSE IF p.waiters = <<>> \/ p.inflight[p.key] > 0 THEN [p |-> p, ch |-> ch]
    ELSE IF LivePositions(p.buckets[p.key]) # {} THEN DeliverBucketToWaitersLocked(p, ch)
    ELSE LET q == [p EXCEPT !.buckets[p.key] = <<>>]
         IN  IF q.streak >= EmptySolve THEN FailWaitersLocked(q, ch)
             ELSE [p |-> LaunchMintsLocked(q, EmptySolve), ch |-> ch]

BumpTargetLocked(p) == [p EXCEPT !.target = Min({@ + 1, PoolMax})]

Idle == now - pool.lastTake

----------------------------------------------------------------------------
(* Initial state: newTokenPool; SetConfig has not been called yet. *)

Init ==
    /\ now = 0
    /\ \E s \in BOOLEAN :
        pool = [closed |-> FALSE, active |-> FALSE, solver |-> s, key |-> None,
                buckets |-> NoBuckets, issued |-> NoIssued,
                inflight |-> [x \in Keys |-> 0], waiters |-> <<>>, streak |-> 0,
                target |-> PoolMin, lastTake |-> 0]
    /\ chan = [t \in Takers |-> None]
    /\ taker = [t \in Takers |-> None]
    /\ spent = {}

----------------------------------------------------------------------------
(* Take *)

Spend(tok) == spent' = IF Live(tok) /\ tok.fresh THEN spent \cup {tok} ELSE spent

\* Take refuses: closed, inactive, another key, or no solver.
TakeRefused(t, k) ==
    /\ taker[t] = None
    /\ ~(Servable(pool) /\ pool.key = k)
    /\ UNCHANGED vars

\* Take pops a pre-solved token.
TakeHit(t, k) ==
    LET p == [PruneLocked(pool) EXCEPT !.lastTake = now]
        b == p.buckets[k]
    IN  /\ taker[t] = None
        /\ Servable(pool) /\ pool.key = k
        /\ b # <<>>
        /\ pool' = PopLocked(p, 1)
        /\ Spend(b[1])
        /\ UNCHANGED <<now, chan, taker>>

\* Take finds the pool empty: it registers as a waiter and starts the mints.
TakeEmpty(t, k) ==
    LET p == [PruneLocked(pool) EXCEPT !.lastTake = now]
        q == [BumpTargetLocked(p) EXCEPT
                !.streak = IF p.waiters = <<>> THEN 0 ELSE @,
                !.waiters = Append(@, t)]
        e == EnsureMintsLocked(q, chan)
    IN  /\ taker[t] = None
        /\ Servable(pool) /\ pool.key = k
        /\ p.buckets[k] = <<>>
        /\ pool' = e.p /\ chan' = e.ch
        /\ taker' = [taker EXCEPT ![t] = k]
        /\ UNCHANGED <<now, spent>>

Take(t, k) == TakeRefused(t, k) \/ TakeHit(t, k) \/ TakeEmpty(t, k)

\* The waiting Take reads its channel (finishTakeLocked prunes on the way).
Receive(t) ==
    /\ taker[t] # None /\ chan[t] # None
    /\ taker' = [taker EXCEPT ![t] = None]
    /\ chan' = [chan EXCEPT ![t] = None]
    /\ pool' = PruneLocked(pool)
    /\ IF chan[t] = Err THEN UNCHANGED spent ELSE Spend(chan[t])
    /\ UNCHANGED now

(***************************************************************************)
(* The waiting Take leaves because its context ended or the pool stopped:   *)
(* removeWaiter.  If a mint was faster, its token goes back to the bucket.  *)
(***************************************************************************)
Cancel(t) ==
    /\ taker[t] # None
    /\ LET mine == chan[t]
           left == [pool EXCEPT !.waiters = RemoveAt(@, CHOOSE i \in DOMAIN @ : @[i] = t)]
           back == mine \notin {None, Err} /\ pool.active /\ pool.key = taker[t]
       IN  pool' = PruneLocked(IF t \in WaiterSet(pool) THEN left
                               ELSE IF back THEN AppendBucketLocked(pool, pool.key, mine)
                               ELSE pool)
    /\ chan' = [chan EXCEPT ![t] = None]
    /\ taker' = [taker EXCEPT ![t] = None]
    /\ UNCHANGED <<now, spent>>

----------------------------------------------------------------------------
(* mint: the end of one background solve for key k *)

MintEnded(k) == [pool EXCEPT !.inflight[k] = @ - 1]

\* Mutant: failures are not counted.
MintFailedUncounted(p) == p

\* streak is only ever compared with EmptySolve, so it saturates there.
MintFailed(p) == [p EXCEPT !.streak = Min({@ + 1, EmptySolve})]

FinishMint(p, ch) ==
    LET e == EnsureMintsLocked(p, ch)
    IN  /\ pool' = e.p /\ chan' = e.ch
        /\ UNCHANGED <<now, taker, spent>>

\* The solver failed, or answered nothing.
MintFail(k) ==
    /\ pool.inflight[k] > 0
    /\ FinishMint(MintFailed(MintEnded(k)), chan)

\* Mutant: the result of an old configuration is taken for a current one.
MintAlwaysCurrent(k) == pool.active

\* The configuration the mint was started for is still the current one.
MintCurrent(k) == pool.key = k /\ pool.active

\* The solver answered certifyId c, already issued in its window.
MintDuplicate(k, c) ==
    /\ pool.inflight[k] > 0 /\ MintCurrent(k)
    /\ Registered(pool, c)
    /\ FinishMint(MintFailed(MintEnded(k)), chan)

\* A new token, for the oldest waiter or else for the bucket.
MintToken(k, c) ==
    LET tok == [cert |-> c, key |-> k, exp |-> now + TTL, fresh |-> TRUE]
        p == [Register(MintEnded(k), {c}) EXCEPT !.streak = 0]
    IN  /\ pool.inflight[k] > 0 /\ MintCurrent(k)
        /\ ~Registered(pool, c)
        /\ IF pool.waiters = <<>> THEN FinishMint(AppendBucketLocked(p, k, tok), chan)
           ELSE FinishMint([p EXCEPT !.waiters = Tail(@)],
                           [chan EXCEPT ![Head(pool.waiters)] = tok])

\* The configuration changed meanwhile: the result is dropped.
MintStale(k) ==
    /\ pool.inflight[k] > 0 /\ ~MintCurrent(k)
    /\ FinishMint(MintEnded(k), chan)

MintDone(k) ==
    \/ MintFail(k)
    \/ \E c \in Certs : MintDuplicate(k, c) \/ MintToken(k, c)
    \/ MintStale(k)

----------------------------------------------------------------------------
(* refillOnce: one tick of the background loop *)

\* Water level after idle shrink and the governor's factor, at least 1.
WantedTarget(f) ==
    LET t == IF Idle > IdleShrink THEN 1 ELSE pool.target
    IN  Max({1, (t * f + 50) \div 100})

WantedConcurrency(f) == Max({1, (EmptySolve * f + 99) \div 100})

\* Mutant: deep idle is not looked at.
RefillNeedIdle(p, f) ==
    Min({WantedConcurrency(f),
         Max({0, WantedTarget(f) - Len(p.buckets[p.key]) - p.inflight[p.key]})})

\* Mutant: solves in flight are forgotten.
RefillNeedBlind(p, f) ==
    IF Idle > IdleStop THEN 0
    ELSE Min({WantedConcurrency(f), Max({0, WantedTarget(f) - Len(p.buckets[p.key])})})

\* How many mints the tick launches: none in deep idle.
RefillNeed(p, f) ==
    IF Idle > IdleStop THEN 0
    ELSE Min({WantedConcurrency(f),
              Max({0, WantedTarget(f) - Len(p.buckets[p.key]) - p.inflight[p.key]})})

\* With waiters a tick only re-runs ensureMintsLocked.
RefillServe ==
    LET e == EnsureMintsLocked(PruneLocked(pool), chan)
    IN  /\ Servable(pool) /\ pool.waiters # <<>>
        /\ pool' = e.p /\ chan' = e.ch
        /\ UNCHANGED <<now, taker, spent>>

(***************************************************************************)
(* Without waiters it tops the bucket up.  The once-a-minute decay of the   *)
(* target (lastEmpty, lastDecay) is a free choice.                          *)
(***************************************************************************)
RefillLevel(f, decay) ==
    LET p == PruneLocked(pool)
    IN  /\ Servable(pool) /\ pool.waiters = <<>>
        /\ decay => pool.target > PoolMin
        /\ pool' = [LaunchMintsLocked(p, RefillNeed(p, f)) EXCEPT
                        !.target = IF decay THEN @ - 1 ELSE @]
        /\ UNCHANGED <<now, chan, taker, spent>>

Refill == RefillServe \/ \E f \in Factors, d \in BOOLEAN : RefillLevel(f, d)

----------------------------------------------------------------------------
(* Administration *)

\* Warm: one mint ahead of a known need; it does not count as traffic.
Warm ==
    LET p == PruneLocked(pool)
    IN  /\ Servable(pool)
        /\ pool' = IF p.buckets[p.key] # <<>> \/ p.inflight[p.key] > 0 THEN p
                   ELSE LaunchMintsLocked(p, 1)
        /\ UNCHANGED <<now, chan, taker, spent>>

\* The registry is cleared: tokens on their way to a Take outlive it.
ClearRegistry(ch) ==
    /\ chan' = [t \in Takers |-> IF ch[t] \in {None, Err} THEN ch[t]
                                 ELSE [ch[t] EXCEPT !.fresh = FALSE]]
    /\ spent' = {}

\* SetConfig(k, enabled): a changed key or a disabled configuration empties
\* buckets and registry and fails every waiter.
SetConfig(k, enabled) ==
    LET changed == k # pool.key
        p == IF changed
             THEN [pool EXCEPT !.target = PoolMin, !.lastTake = now, !.streak = 0]
             ELSE pool
        f == FailWaitersLocked(p, chan)
    IN  /\ ~pool.closed
        /\ IF changed \/ ~enabled
           THEN /\ pool' = [f.p EXCEPT !.key = k, !.active = enabled,
                                       !.buckets = NoBuckets, !.issued = NoIssued]
                /\ ClearRegistry(f.ch)
           ELSE /\ pool' = [pool EXCEPT !.active = TRUE]
                /\ UNCHANGED <<chan, spent>>
        /\ UNCHANGED <<now, taker>>

SetSolver ==
    /\ pool' = [pool EXCEPT !.solver = TRUE]
    /\ UNCHANGED <<now, chan, taker, spent>>

Clear ==
    /\ ClearRegistry(chan)
    /\ pool' = [pool EXCEPT !.buckets = NoBuckets, !.issued = NoIssued]
    /\ UNCHANGED <<now, taker>>

Close ==
    LET f == FailWaitersLocked(pool, chan)
    IN  /\ ~pool.closed
        /\ pool' = [f.p EXCEPT !.closed = TRUE, !.active = FALSE,
                               !.buckets = NoBuckets, !.issued = NoIssued]
        /\ ClearRegistry(f.ch)
        /\ UNCHANGED <<now, taker>>

Tick ==
    /\ now < MaxTime
    /\ now' = now + 1
    /\ spent' = {tok \in spent : now' < tok.exp}
    /\ UNCHANGED <<pool, chan, taker>>

----------------------------------------------------------------------------

TakerStep(t) == (\E k \in Keys : Take(t, k)) \/ Receive(t) \/ Cancel(t)

Next ==
    \/ \E t \in Takers : TakerStep(t)
    \/ \E k \in Keys : MintDone(k)
    \/ Refill \/ Warm
    \/ \E k \in Keys, e \in BOOLEAN : SetConfig(k, e)
    \/ SetSolver \/ Clear \/ Close
    \/ Tick

Spec == Init /\ [][Next]_vars

(***************************************************************************)
(* Every solve ends (Pool.Solve has a request timeout), and a Take whose    *)
(* channel is filled returns.  No help from the refill ticker is needed.    *)
(***************************************************************************)
Fairness ==
    /\ WF_vars(\E k \in Keys : MintDone(k))
    /\ \A t \in Takers : WF_vars(Receive(t))

FairSpec == Spec /\ Fairness

----------------------------------------------------------------------------
(* Properties *)

\* The shape of the state.
TypeOK ==
    /\ now \in 0..MaxTime
    /\ pool.closed \in BOOLEAN /\ pool.active \in BOOLEAN /\ pool.solver \in BOOLEAN
    /\ pool.key \in Keys \cup {None}
    /\ \A k \in Keys : \A i \in DOMAIN pool.buckets[k] : pool.buckets[k][i] \in Tokens
    /\ pool.issued \in [Certs -> 0..(MaxTime + TTL + Grace)]
    /\ pool.inflight \in [Keys -> Nat]
    /\ WaiterSet(pool) \subseteq Takers
    /\ pool.streak \in 0..EmptySolve /\ pool.target \in PoolMin..PoolMax
    /\ pool.lastTake \in 0..now
    /\ chan \in [Takers -> Tokens \cup {None, Err}]
    /\ taker \in [Takers -> Keys \cup {None}]
    /\ spent \subseteq Tokens

\* A token of one configuration key never reaches a request that asked for
\* another, whatever mints and configuration changes overlap
\* (token_pool.go:4 "token is never reused across configurations").
NoCrossConfigToken ==
    /\ \A t \in Takers : chan[t] \notin {None, Err} => chan[t].key = taker[t]
    /\ \A k \in Keys : \A i \in DOMAIN pool.buckets[k] :
        pool.buckets[k][i].key = k /\ k = pool.key

\* All live copies of a certifyId minted since the registry was cleared: in a
\* bucket, in flight to a Take, or returned.
Copies(c) ==
    LET mine(tok) == tok.cert = c /\ tok.fresh /\ Live(tok)
    IN  Cardinality({t \in Takers : chan[t] \notin {None, Err} /\ mine(chan[t])})
          + Cardinality({place \in Keys \X (1..PoolMax) :
                LET b == pool.buckets[place[1]]
                IN  place[2] \in DOMAIN b /\ mine(b[place[2]])})
          + Cardinality({tok \in spent : mine(tok)})

\* One certifyId is never live in two places: between two clearings of the
\* registry no two requests can submit the same token (token_pool.go:8-9).
OneShot == \A c \in Certs : Copies(c) <= 1

\* Solves in flight for one key and tokens in stock stay bounded, however
\* ticks, empty takes and failures interleave (token_pool.go:6-7, :370).
BoundedMinting ==
    \A k \in Keys : /\ pool.inflight[k] <= Max({EmptySolve, PoolMax})
                    /\ Len(pool.buckets[k]) <= PoolMax

\* Tokens stay with their configuration, are handed out once, and stock and solves
\* in flight stay bounded.
TokensSound == TypeOK /\ NoCrossConfigToken /\ OneShot /\ BoundedMinting

\* In deep idle no mint starts unless a request waits or Warm asked for it:
\* the incident recorded at refillOnce (a solve every TTL, for ever).
DeepIdleLaunch ==
    (\E k \in Keys : pool'.inflight[k] > pool.inflight[k])
        => (Idle <= IdleStop \/ pool.waiters # <<>> \/ pool'.waiters # <<>> \/ Warm)
DeepIdleStopsMinting == [][DeepIdleLaunch]_vars

\* Every Take that waits gets a token or an error.
WaitersAnswered == \A t \in Takers : taker[t] # None ~> taker[t] = None

=============================================================================
