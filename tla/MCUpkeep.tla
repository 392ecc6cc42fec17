------------------------------ MODULE MCUpkeep ------------------------------
(***************************************************************************)
(* What runs behind the requests, one run: the quota queries (extended), the*)
(* initialization of a new account, the daily claims and the inspection of  *)
(* the lines (instanced). They meet only in the account and the lines, which*)
(* each of them lets the others change at any time, so the properties of one*)
(* need only the behaviours in which that part moves: focus says which.     *)
(***************************************************************************)
EXTENDS QuotaQuery, TLC

CONSTANTS
    \* of the inspection of the lines
    HealthLines, Direct, Addresses, Rank, Group, PerRound, HintLimit, MaxMoves

\* The host is no line.
ASSUME HostApart == Direct \notin HealthLines

VARIABLES
    focus,          \* the part that moves
    \* the initialization of a new account
    task, acct, lines, izAuto, running, mgr, quota, posts, izEdits, faults,
    \* the daily claims
    now, live, clAuto, slot, queue, job, todo, seen, fired, closing, runs,
    clEdits, pledge, earned,
    \* the inspection of the lines
    profile, recent, working, policy, hints, pend, pendRev, netRev, due,
    round, nhPc, second, records, moves

IZ == INSTANCE Initialization WITH
    Lines <- {"d", "p", "q"}, Default <- "d", Users <- {"u1", "u2"},
    Owner <- "u1", MaxAttempts <- 2, MaxEdits <- 1, MaxFaults <- 1,
    MaxPosts <- 2, auto <- izAuto, edits <- izEdits

CL == INSTANCE Claims WITH
    Accounts <- {"a1"}, Tasks <- {"t1"}, Hands <- {"h1"}, Day <- 4,
    Target <- 2, Window <- 2, Long <- 2, Short <- 1, Plans <- 1, MaxNow <- 2,
    MaxRuns <- 2, MaxEdits <- 1, auto <- clAuto, edits <- clEdits

\* The order of the lines, and where they and the host come out.
HealthRank == [l \in HealthLines |-> IF l = "l1" THEN 1 ELSE 2]
HealthGroup == [l \in HealthLines \cup {Direct} |-> IF l = "l1" THEN "" ELSE "home"]

NH == INSTANCE NetworkHealth WITH
    Lines <- HealthLines, Batch <- PerRound, pc <- nhPc

izVars == <<task, acct, lines, izAuto, running, mgr, quota, posts, izEdits, faults>>
clVars == <<now, live, clAuto, slot, queue, job, todo, seen, fired, closing, runs,
    clEdits, pledge, earned>>
nhVars == <<profile, recent, working, policy, hints, pend, pendRev, netRev, due,
    round, nhPc, second, records, moves>>
allVars == <<focus, vars, izVars, clVars, nhVars>>

RunInit ==
    /\ focus \in {"quota", "initialization", "claims", "inspection"}
    /\ Init
    /\ IZ!Init
    /\ focus = "initialization" \/ quota = [u \in {"u1", "u2"} |-> "missing"]
    /\ CL!Init
    /\ NH!Init
    /\ focus = "inspection" \/ <<profile, working>> = <<[l \in HealthLines |-> NH!Absent], {Direct}>>

Query(A) ==
    /\ focus = "quota" /\ A
    /\ UNCHANGED <<focus, izVars, clVars, nhVars>>
Initialize(A) ==
    /\ focus = "initialization" /\ A
    /\ UNCHANGED <<focus, vars, clVars, nhVars>>
Claim(A) ==
    /\ focus = "claims" /\ A
    /\ UNCHANGED <<focus, vars, izVars, nhVars>>
Inspect(A) ==
    /\ focus = "inspection" /\ A
    /\ UNCHANGED <<focus, vars, izVars, clVars>>

RunNext ==
    \/ Query(Next)
    \/ Initialize(IZ!Next)
    \/ Claim(CL!Next)
    \/ Inspect(NH!Next)

RunSpec ==
    /\ RunInit /\ [][RunNext]_allVars
    /\ \A c \in Callers : WF_allVars(Query(CallerStep(c)))
    /\ \A q \in Queries : WF_allVars(Query(Finish(q)))
    /\ WF_allVars(Initialize(IZ!Begin))
    /\ WF_allVars(Initialize(IZ!Step))
    /\ WF_allVars(Initialize(IZ!DeadlinePasses))
    /\ \A w \in CL!Workers : WF_allVars(Claim(CL!Step(w)))

(* The inspection deletes a line only on full proof (NetworkHealth). *)
DeletedOnProof == []NH!TypeOK /\ NH!DeletedOnProof

(* Nobody is forgotten: the callers of a quota query return (QuotaQuery), the
   attempts to initialize an account are decided (Initialization), and a new
   account that queues for its claim gets its turn (Claims).  Callers are
   interchangeable and focus never changes: the formula stands for CallersReturn,
   IZ!AttemptsDecided and CL!NewAccountsServed. *)
Waits(c) == \/ focus = "quota" /\ pc[c] = "enter"
            \/ focus = "initialization" /\ IZ!Undecided
            \/ focus = "claims" /\ CL!Blocked("t1")
Served(c) == CASE focus = "quota" -> pc[c] \in {"idle", "failed"} \/ (sent = MaxQueries /\ inflight = None)
               [] focus = "initialization" -> ~IZ!Undecided \/ ~izAuto \/ task.deadline = "unset"
               [] focus = "claims" -> slot = "t1" \/ closing \/ job["t1"].pc = "idle"
               [] OTHER -> TRUE
NobodyForgotten == LET c == CHOOSE c \in Callers : TRUE IN Waits(c) ~> Served(c)

=============================================================================
