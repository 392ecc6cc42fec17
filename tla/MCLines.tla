------------------------------- MODULE MCLines -------------------------------
(***************************************************************************)
(* Lines and what is sent over them, one run: the replay guard (extended),  *)
(* the quarantine of lines after 405, the strict rule for lines that leak,  *)
(* the binding of accounts to them and the initialization of a new account  *)
(* on one of them (instanced). They share no variable; each lets the others *)
(* change the lines at any time, so the properties of one need only the     *)
(* behaviours in which that part moves: focus says which.                   *)
(***************************************************************************)
EXTENDS ReplayGuard, TLC

CONSTANTS
    \* of the quarantine
    MinStreak, BaseTime, MaxQuarantine, JailTTL, RetireStrikes, MaxTime, MaxGen,
    \* of the strict rule
    StrictLines, MaxFaults, MaxDecisions, MaxLeases,
    \* of the bindings
    BoundLines, Addrs, Accounts, Creds, Requests, Order, MaxOps, MaxRequests,
    \* of the initialization
    Routes, Default, Users, Owner, MaxAttempts, MaxEdits, MaxCrashes, MaxPosts

VARIABLES
    focus,          \* the part that moves
    \* the quarantine of lines
    now, gen, lqEntry, disk, flight, retired, row,
    \* the strict rule
    up, blocks, paused, spProfiles, db, journal, op, retry, leases, force,
    owed, spFaults, decisions,
    \* the binding of accounts to lines
    biProfiles, generation, account, failed, standing, new, request, touched,
    overruled, ops, selections,
    \* the initialization of a new account
    task, acct, lines, auto, running, mgr, quota, posts, edits, izFaults

LQ == INSTANCE LineQuarantine WITH TTL <- JailTTL, entry <- lqEntry

SP == INSTANCE StrictProxy WITH
    Lines <- StrictLines, profiles <- spProfiles, faults <- spFaults

BI == INSTANCE Bindings WITH Lines <- BoundLines, profiles <- biProfiles

IZ == INSTANCE Initialization WITH
    Lines <- Routes, MaxFaults <- MaxCrashes, faults <- izFaults

\* The accounts in the order of the store.
MCOrder == <<"a1">>

lqVars == <<now, gen, lqEntry, disk, flight, retired, row>>
spVars == <<up, blocks, paused, spProfiles, db, journal, op, retry, leases, force,
    owed, spFaults, decisions>>
biVars == <<biProfiles, generation, account, failed, standing, new, request, touched,
    overruled, ops, selections>>
izVars == <<task, acct, lines, auto, running, mgr, quota, posts, edits, izFaults>>
allVars == <<focus, vars, lqVars, spVars, biVars, izVars>>

RunInit ==
    /\ focus \in {"replay", "quarantine", "strict", "binding", "initialization"}
    /\ Init
    /\ LQ!Init
    /\ SP!Init
    /\ BI!Init
    /\ focus = "binding" \/ biProfiles = [l \in BoundLines |-> BI!Gone]
    /\ IZ!Init
    /\ focus = "initialization" \/ quota = [u \in Users |-> "missing"]

Replay(A) ==
    /\ focus = "replay" /\ A
    /\ UNCHANGED <<focus, lqVars, spVars, biVars, izVars>>
Quarantine(A) ==
    /\ focus = "quarantine" /\ A
    /\ UNCHANGED <<focus, vars, spVars, biVars, izVars>>
Strict(A) ==
    /\ focus = "strict" /\ A
    /\ UNCHANGED <<focus, vars, lqVars, biVars, izVars>>
Bind(A) ==
    /\ focus = "binding" /\ A
    /\ UNCHANGED <<focus, vars, lqVars, spVars, izVars>>
Initialize(A) ==
    /\ focus = "initialization" /\ A
    /\ UNCHANGED <<focus, vars, lqVars, spVars, biVars>>

RunNext ==
    \/ Replay(Next)
    \/ Quarantine(LQ!Next)
    \/ Strict(SP!Next)
    \/ Bind(BI!Next)
    \/ Initialize(IZ!Next)

RunSpec ==
    /\ RunInit /\ [][RunNext]_allVars

(* The other parts hold no model values but requests and lines. *)
Symmetry == Permutations(Reqs) \cup Permutations(Lines)

(* A line is quarantined after a row of 405, released by a success and retired
   only when guilty (LineQuarantine). *)
LineJustice == [](LQ!TypeOK /\ LQ!JailNeedsARow) /\ LQ!OnlySuccessFrees /\ LQ!RetiredIsGuilty

(* A decision of the strict rule stands through crashes and refused writes, and
   no traffic is sent over the line afterwards (StrictProxy). *)
DecisionStands == [](SP!TypeOK /\ SP!DecisionStands) /\ SP!NoTrafficAfterDecision

(* An account is bound to the line it names, and leaves it only for a reason
   (Bindings). *)
StaysOnItsLine == [](BI!TypeOK /\ BI!BoundLine) /\ BI!StaysOnItsLine

(* A request goes out over the line its account is bound to at that moment
   (Bindings). *)
DispatchIsCurrent == BI!DispatchIsCurrent

(* A claim is sent upstream at most once per user, and an account is given quota
   only when the upstream has it (Initialization). *)
ClaimedOnce == [](focus = "initialization" => IZ!PostOnce) /\ IZ!GrantIsReal

=============================================================================
