------------------------------ MODULE MCCaptcha ------------------------------
(***************************************************************************)
(* The parts that solve captchas and the model probe, one run: the token    *)
(* pool (extended), the solver that starts and replaces browser pools, one  *)
(* browser worker, the installation of the browser and the inspection of    *)
(* the lines by small requests (instanced). They share no variable and meet *)
(* only in calls whose outcome each of them leaves open, so the properties  *)
(* of one need only the behaviours in which that part moves: focus says     *)
(* which.                                                                   *)
(***************************************************************************)
EXTENDS TokenPool, TLC

CONSTANTS
    Solvers, MaxPools,  \* the solver's callers, and the pools it starts
    MaxCalls,           \* of the browser worker
    Processes           \* that install the browser

VARIABLES
    focus,          \* the part that moves
    \* the solver and its pools
    bsPool, retired, inFlight, starting, cooling, closed, created, key, up,
    pending, doomed, bsPc, want, mine,
    \* one browser worker
    call, rwPc, dirty, outcome, error, alive, result,
    \* the installation of the browser
    dir, tmp, left, bbPc, sums, archive, used,
    \* the model probe
    mpNow, line, gone, acct, policy, run, lease, sent, paused, incomplete, diagnosed,
    business, proofs, answered, broken, saved, seen, moves

BS == INSTANCE BrowserSolver WITH
    Callers <- Solvers, pool <- bsPool, pc <- bsPc

RW == INSTANCE RodWorker WITH pc <- rwPc

BB == INSTANCE BrowserBinary WITH pc <- bbPc

\* The model probe, four times: one run under changes of everything around it (M1, and M4
\* after a pause), two that see each other's evidence (M2), two that want the same accounts
\* and lines (M3).
\* Instances of the module with its theorems, so that these hold of what is run.
ProbeLines == {"l1", "l2"}
ProbeGroup == [x \in {"l1", "l2", "direct"} |-> x]
ProbeRank == [l \in ProbeLines |-> IF l = "l1" THEN 1 ELSE 2]

M1 == INSTANCE ModelProbeProof WITH
    Lines <- ProbeLines, Direct <- "direct", Accounts <- Takers, Group <- ProbeGroup,
    Protected <- {},
    Rank <- ProbeRank, Gap <- 1, Window <- 2, RankWindow <- 6, Term <- 4, Pause <- 6, DiagnosisGap <- 12,
    Concurrency <- 1, GlobalDailyLimit <- 7, AccountDailyLimit <- 6, MaxAttempts <- 8,
    EvidenceLimit <- 4, MaxBusy <- 0, MaxRuns <- 1, MaxMoves <- 1, MaxTime <- 3,
    now <- mpNow, retired <- gone

M2 == INSTANCE ModelProbeProof WITH
    Lines <- ProbeLines, Direct <- "direct", Accounts <- Takers, Group <- ProbeGroup,
    Protected <- {"l2"},
    Rank <- ProbeRank, Gap <- 1, Window <- 2, RankWindow <- 6, Term <- 4, Pause <- 6, DiagnosisGap <- 12,
    Concurrency <- 2, GlobalDailyLimit <- 5, AccountDailyLimit <- 6, MaxAttempts <- 8,
    EvidenceLimit <- 5, MaxBusy <- 0, MaxRuns <- 2, MaxMoves <- 0, MaxTime <- 2,
    now <- mpNow, retired <- gone

M3 == INSTANCE ModelProbeProof WITH
    Lines <- ProbeLines, Direct <- "direct", Accounts <- Takers, Group <- ProbeGroup,
    Protected <- {},
    Rank <- ProbeRank, Gap <- 1, Window <- 2, RankWindow <- 6, Term <- 4, Pause <- 6, DiagnosisGap <- 12,
    Concurrency <- 2, GlobalDailyLimit <- 2, AccountDailyLimit <- 2, MaxAttempts <- 8,
    EvidenceLimit <- 4, MaxBusy <- 1, MaxRuns <- 2, MaxMoves <- 1, MaxTime <- 1,
    now <- mpNow, retired <- gone

M4 == INSTANCE ModelProbeProof WITH
    Lines <- ProbeLines, Direct <- "direct", Accounts <- Takers, Group <- ProbeGroup,
    Protected <- {},
    Rank <- ProbeRank, Gap <- 1, Window <- 2, RankWindow <- 6, Term <- 4, Pause <- 6, DiagnosisGap <- 12,
    Concurrency <- 1, GlobalDailyLimit <- 5, AccountDailyLimit <- 6, MaxAttempts <- 8,
    EvidenceLimit <- 4, MaxBusy <- 0, MaxRuns <- 1, MaxMoves <- 1, MaxTime <- 2,
    now <- mpNow, retired <- gone

bsVars == <<bsPool, retired, inFlight, starting, cooling, closed, created, key, up,
    pending, doomed, bsPc, want, mine>>
rwVars == <<call, rwPc, dirty, outcome, error, alive, result>>
bbVars == <<dir, tmp, left, bbPc, sums, archive, used>>
mpVars == <<mpNow, line, gone, acct, policy, run, lease, sent, paused, incomplete,
    diagnosed, business, proofs, answered, broken, saved, seen, moves>>
allVars == <<focus, vars, bsVars, rwVars, bbVars, mpVars>>

ProbesRest ==
    /\ mpNow = 0 /\ line = 0 /\ gone = {} /\ acct = 0 /\ policy = 0 /\ run = 0 /\ lease = 0
    /\ sent = 0 /\ paused = 0 /\ incomplete = 0 /\ diagnosed = 0 /\ business = 0 /\ proofs = 0
    /\ answered = 0 /\ broken = FALSE /\ saved = 0 /\ seen = 0 /\ moves = 0

RunInit ==
    /\ focus \in {"tokens", "solver", "worker", "binary", "diagnosis", "resumed", "evidence", "sharing"}
    /\ Init
    /\ focus = "tokens" \/ pool.solver
    /\ BS!Init
    /\ RW!Init
    /\ BB!Init
    /\ CASE focus = "diagnosis" -> M1!Init /\ paused = 0
         [] focus = "resumed"   -> M4!Init /\ paused = 1
         [] focus = "evidence"  -> M2!Init /\ paused = 1
         [] focus = "sharing"   -> M3!Init /\ paused = 0
         [] OTHER               -> ProbesRest

TokenPart(A) ==
    /\ focus = "tokens" /\ A
    /\ UNCHANGED <<focus, bsVars, rwVars, bbVars, mpVars>>
Solver(A) ==
    /\ focus = "solver" /\ A
    /\ UNCHANGED <<focus, vars, rwVars, bbVars, mpVars>>
Worker(A) ==
    /\ focus = "worker" /\ A
    /\ UNCHANGED <<focus, vars, bsVars, bbVars, mpVars>>
Binary(A) ==
    /\ focus = "binary" /\ A
    /\ UNCHANGED <<focus, vars, bsVars, rwVars, mpVars>>
Probe(f, A) ==
    /\ focus = f /\ A
    /\ UNCHANGED <<focus, vars, bsVars, rwVars, bbVars>>

RunNext ==
    \/ TokenPart(Next)
    \/ Solver(BS!Next)
    \/ Worker(RW!Next)
    \/ Binary(BB!Next)
    \/ Probe("diagnosis", M1!Next)
    \/ Probe("resumed", M4!Next)
    \/ Probe("evidence", M2!Next)
    \/ Probe("sharing", M3!Next)

RunSpec ==
    /\ RunInit /\ [][RunNext]_allVars

(* Requests, configuration keys and certifyIds are interchangeable, and so are the
   callers and keys of the solver and the accounts of the model probe that take
   their names. *)
Symmetry == Permutations(Takers) \cup Permutations(Keys) \cup Permutations(Certs)

(* Whoever waits for a pool that is being started is woken, and only a pool that
   nobody uses is stopped for being idle (BrowserSolver). *)
PoolsServe == BS!PoolsServe

(* A captcha call gets the answer to its own page (RodWorker). *)
OwnAnswer == RW!OwnAnswer

(* A browser is started only from the whole of a checked archive (BrowserBinary). *)
OnlyWholeBinaries == BB!OnlyWholeBinaries

(* A line is retired only on proof that stands, also against what other runs saw, and
   two requests of the inspection never share an account or an address (ModelProbe). *)
ProbedFairly ==
    /\ [](focus = "diagnosis" => M1!TypeOK)
    /\ [](focus = "resumed" => M4!TypeOK)
    /\ [](focus = "evidence" => M2!TypeOK /\ M2!OneAtATime)
    /\ [](focus = "sharing" => M3!TypeOK /\ M3!OneAtATime)
    /\ M1!RetiredOnProof

=============================================================================
