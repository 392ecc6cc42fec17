----------------------------- MODULE MCStanding -----------------------------
(***************************************************************************)
(* What the store remembers of failures and logins, one run: the state of   *)
(* an account (extended), the soft failures of lines, the times of the daily*)
(* claims and the session of a login (instanced). They share no variable, so*)
(* the properties of one need only the behaviours in which that part moves: *)
(* focus says which.                                                        *)
(***************************************************************************)
EXTENDS MCAccounts

CONSTANTS
    \* of the soft failures
    SoftLines, SoftWindow, RowWindow, CutWindow, Cooldown, TTL, Term, MinAttempts,
    MinFailures, MinRate, RowLimit, CutLimit, SoftTime, MaxSamples, MaxRestarts,
    \* of the claims
    ClaimAccounts, Tasks, Hands, Day, Target, Period, Long, Short, Plans, ClaimTime,
    MaxRuns, MaxEdits,
    \* of the login
    LoginLines, LoginAddrs, Codes, Spared, MaxMoves, Imported

VARIABLES
    focus,          \* the part that moves
    \* the soft failures of lines
    sfNow, soft, disk, samples, restarts,
    \* the daily claims
    clNow, live, auto, slot, queue, job, todo, seen, fired, closing, runs,
    edits, pledge, earned,
    \* the session of a login
    session, known, late, lines, suspect, acct, call, spent, made, greeted,
    crossed, moves

SF == INSTANCE SoftFailures WITH
    Lines <- SoftLines, Window <- SoftWindow, ConsecutiveWindow <- RowWindow,
    TruncateWindow <- CutWindow, Consecutive <- RowLimit, TruncateStrikes <- CutLimit,
    MaxTime <- SoftTime, now <- sfNow

CL == INSTANCE Claims WITH
    Accounts <- ClaimAccounts, Window <- Period, MaxNow <- ClaimTime, now <- clNow

LG == INSTANCE Login WITH Lines <- LoginLines, Addrs <- LoginAddrs

sfVars == <<sfNow, soft, disk, samples, restarts>>
clVars == <<clNow, live, auto, slot, queue, job, todo, seen, fired, closing, runs,
    edits, pledge, earned>>
lgVars == <<session, known, late, lines, suspect, acct, call, spent, made, greeted,
    crossed, moves>>
allVars == <<focus, vars, sfVars, clVars, lgVars>>

\* What the lines of a login are at first: two, with an address each.
TwoLines == [l \in LoginLines |->
    [url |-> IF l = "l1" THEN "u1" ELSE "u2", on |-> TRUE, gen |-> 1]]

RunInit ==
    /\ focus \in {"account", "soft", "claims", "login"}
    /\ Init
    /\ focus = "account" \/ acc.mode = "jwt"
    /\ SF!Init
    /\ CL!Init
    /\ LG!Init /\ lines = Imported
    /\ focus = "login" \/ acct = LG!Nobody

Account(A) ==
    /\ focus = "account" /\ A
    /\ UNCHANGED <<focus, sfVars, clVars, lgVars>>
SoftFailure(A) ==
    /\ focus = "soft" /\ A
    /\ UNCHANGED <<focus, vars, clVars, lgVars>>
Claim(A) ==
    /\ focus = "claims" /\ A
    /\ UNCHANGED <<focus, vars, sfVars, lgVars>>
LogIn(A) ==
    /\ focus = "login" /\ A
    /\ UNCHANGED <<focus, vars, sfVars, clVars>>

RunNext ==
    \/ Account(Next)
    \/ SoftFailure(SF!Next)
    \/ Claim(CL!Next)
    \/ LogIn(LG!Next)

RunSpec ==
    /\ RunInit /\ [][RunNext]_allVars

(* A cooling has an end and is served to it, and a stopped account stays as it is,
   whatever late answers say (Accounts). *)
SentenceServed == [](focus = "account" => CoolingEnds) /\ TermServed /\ StoppedStays

(* What soft failures brought upon a line survives a restart, is cleared only by
   a success and counted once per cooldown or term (SoftFailures). *)
SoftJustice == [](SF!TypeOK /\ SF!SentenceSurvives) /\ SF!OnlySuccessClears /\ SF!OneStrikePerCooldown

(* Automatic claims keep to the times they wrote down, and what a claim writes
   belongs to the login it was made with (Claims). *)
ClaimsKeepTime == CL!RespectsCadence /\ CL!OutcomeOfThisLogin

(* A login redeems its code once, goes out the way it was told to, and what it
   brings is written where it belongs (Login). *)
LoginKept ==
    /\ [](LG!TypeOK /\ LG!RedeemsOnce /\ LG!NewStaysNew)
    /\ LG!ExitKept /\ LG!KeyOfLogin

=============================================================================
