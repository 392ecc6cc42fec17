----------------------------- MODULE MCProgress -----------------------------
(***************************************************************************)
(* What must happen in the end, one run: the browser worker pool (extended),*)
(* the waiting side of the token pool, the configuration cache, the         *)
(* inspection of the lines and the windows of the replay guard (instanced). *)
(* Each of them leaves the outcome of its calls open, so the properties of  *)
(* one need only the behaviours in which that part moves: focus says which. *)
(***************************************************************************)
EXTENDS BrowserPool, TLC

CONSTANTS Err

VARIABLES
    focus,          \* the part that moves
    \* the token pool
    now, tpPool, chan, taker, spent,
    \* the configuration cache
    upstream, lastGood, fresh, backoff, ccPool, manual, failures, ccPc, got,
    for,
    \* the inspection of the lines
    profile, recent, working, policy, hints, pend, pendRev, netRev, due,
    round, nhPc, second, records, moves,
    \* the windows of the replay guard
    entry, rgReq, let

TP == INSTANCE TokenPool WITH
    Takers <- {"t1", "t2"}, Keys <- {"k1", "k2"}, Certs <- {"c1"},
    PoolMin <- 1, TTL <- 1, Grace <- 0, IdleShrink <- 0, IdleStop <- 1,
    PoolMax <- 1, EmptySolve <- 1, Factors <- {100}, MaxTime <- 1,
    pool <- tpPool

CC == INSTANCE CaptchaConfig WITH
    Callers <- {"c1", "c2"}, Versions <- {1, 2}, Disabled <- {2},
    MaxFailures <- 1, pool <- ccPool, pc <- ccPc

HealthRank == [l \in {"l1", "l2"} |-> IF l = "l1" THEN 1 ELSE 2]
HealthGroup == [l \in {"l1", "l2", "direct"} |-> IF l = "l1" THEN "" ELSE "home"]

NH == INSTANCE NetworkHealth WITH
    Lines <- {"l1", "l2"}, Direct <- "direct", Addresses <- {"a", "b"},
    Rank <- HealthRank, Group <- HealthGroup, Batch <- 1, HintLimit <- 1,
    MaxMoves <- 1, pc <- nhPc

RG == INSTANCE ReplayGuard WITH
    Contents <- {"a", "b", "c"}, Lines <- {"l1", "l2"}, Reqs <- Reqs,
    TTL <- 2, MaxEntries <- 2, AllowOnce <- TRUE, Threshold <- 2, req <- rgReq

tpVars == <<now, tpPool, chan, taker, spent>>
ccVars == <<upstream, lastGood, fresh, backoff, ccPool, manual, failures, ccPc, got,
    for>>
nhVars == <<profile, recent, working, policy, hints, pend, pendRev, netRev, due,
    round, nhPc, second, records, moves>>
rgVars == <<entry, rgReq, let>>
allVars == <<focus, vars, tpVars, ccVars, nhVars, rgVars>>

RunInit ==
    /\ focus \in {"slots", "tokens", "config", "inspection", "replay"}
    /\ Init
    /\ TP!Init
    /\ focus = "tokens" \/ tpPool.solver
    /\ CC!Init
    /\ NH!Init
    /\ focus = "inspection" \/ <<profile, working>> = <<[l \in {"l1", "l2"} |-> NH!Absent], {"direct"}>>
    /\ RG!Init

SlotPool(A) ==
    /\ focus = "slots" /\ A
    /\ UNCHANGED <<focus, tpVars, ccVars, nhVars, rgVars>>
Tokens(A) ==
    /\ focus = "tokens" /\ A
    /\ UNCHANGED <<focus, vars, ccVars, nhVars, rgVars>>
Config(A) ==
    /\ focus = "config" /\ A
    /\ UNCHANGED <<focus, vars, tpVars, nhVars, rgVars>>
Inspect(A) ==
    /\ focus = "inspection" /\ A
    /\ UNCHANGED <<focus, vars, tpVars, ccVars, rgVars>>
Replay(A) ==
    /\ focus = "replay" /\ A
    /\ UNCHANGED <<focus, vars, tpVars, ccVars, nhVars>>

RunNext ==
    \/ SlotPool(Next)
    \/ Tokens(TP!Next)
    \/ Config(CC!Next)
    \/ Inspect(NH!Next)
    \/ Replay(RG!Next)

RunSpec ==
    /\ RunInit /\ [][RunNext]_allVars
    /\ \A r \in Reqs : WF_allVars(SlotPool(SolveProgress(r)))
    /\ WF_allVars(Tokens(\E k \in {"k1", "k2"} : TP!MintDone(k)))
    /\ \A t \in {"t1", "t2"} : WF_allVars(Tokens(TP!Receive(t)))
    /\ \A c \in {"c1", "c2"} : WF_allVars(Config(CC!CallerStep(c)))
    /\ WF_allVars(Config(CC!Ages))
    /\ WF_allVars(Inspect(NH!RunNetworkDue))
    /\ WF_allVars(Inspect(NH!IntervalPasses))
    /\ WF_allVars(Replay(RG!Tick))
    /\ \A r \in Reqs : WF_allVars(Replay(RG!End(r)))

(* Whoever asks gets an answer: the caller of Solve (captcha/pool.go), the request
   that waits in Take (token_pool.go), and in the end the content that the replay
   guard blocks (gateway/replayguard.go).  The callers of a part are
   interchangeable and focus never changes: one formula about one caller of each
   stands for SolveReturns, TP!WaitersAnswered and RG!NeverLockedOut. *)
Asks(r) == \/ focus = "slots" /\ call[r].pc = "queue"
           \/ focus = "tokens" /\ taker["t1"] # None
           \/ focus = "replay" /\ RG!Blocked("a")
Answered(r) == CASE focus = "slots" -> call[r].pc = "returned"
                 [] focus = "tokens" -> taker["t1"] = None
                 [] focus = "replay" -> ~RG!Blocked("a")
                 [] OTHER -> TRUE
CallsReturn == LET r == CHOOSE r \in Reqs : TRUE IN Asks(r) ~> Answered(r)

(* Once nothing changes any more, the manager and its pool use the configuration
   the upstream publishes (CaptchaConfig), and every enabled line has been
   inspected under the present policy and configuration (NetworkHealth).  focus
   never changes: the formula stands for ConfigSettles and EveryLineInspected. *)
Settled == CASE focus = "config" -> CC!Settled
             [] focus = "inspection" -> NH!AllInspected
             [] OTHER -> TRUE
Settles == <>[]Settled

(* Whoever asks gets an answer, and what has changed is caught up with. *)
NothingHangs == CallsReturn /\ Settles

=============================================================================
