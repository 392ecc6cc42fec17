------------------------------- MODULE Selection -------------------------------
(***************************************************************************)
(* Which account a request gets (internal/store/store.go, selectAccount and *)
(* SelectAvoiding; internal/store/pin.go).                                  *)
(*                                                                         *)
(* A call names the accounts this request has tried (skip), the lines it    *)
(* wants to avoid, and a model ("" for none).  The choice narrows the       *)
(* accounts layer by layer and takes turns among those that are left.       *)
(* What the layers read of an account is its profile; quota pollers, other  *)
(* requests and operators change profiles, quarantines and the pin.         *)
(***************************************************************************)
EXTENDS Integers, Sequences, FiniteSets, SequencesExt

CONSTANTS
    Order,      \* the accounts of the provider, in the order of s.accounts
    Lines,      \* egress lines; Direct stands for no proxy
    Direct,
    Profiles,   \* the profiles an account may have
    Models,     \* model names, "" among them
    None

Accounts == {Order[i] : i \in DOMAIN Order}

ASSUME SelectionAssumption ==
    /\ Direct \in Lines /\ None \notin Accounts /\ "" \in Models
    /\ Order \in Seq(Accounts) /\ IsInjective(Order)
    /\ Profiles \subseteq
        [ok : BOOLEAN,            \* IsSelectable, not in the silent window, binding usable
         line : Lines,            \* boundLineIdentityLocked
         avail : {"available", "unknown", "absent"},   \* ModelAvailability
         truncated : BOOLEAN,     \* TruncateAvoidUntil lies ahead
         expiring : BOOLEAN,      \* quota that ends soon and is not refreshed
         promo : BOOLEAN,         \* one-time quota left
         band : 1..4,             \* uplinkRankOfIdentity
         quota : Int]             \* UsableQuotaForModel, -1 if not known

VARIABLES
    acct,      \* the profile of each account
    blocked,   \* lines in 405 quarantine (line405BlockedLocked)
    cursor,    \* s.rotation, per model
    pin        \* s.pinID, if its time has not passed

vars == <<acct, blocked, cursor, pin>>

Init ==
    /\ acct \in [Accounts -> Profiles]
    /\ blocked = {}
    /\ cursor = [m \in Models |-> 0]
    /\ pin = None

----------------------------------------------------------------------------
(* selectAccount *)

\* Narrow P to its members that satisfy Test, unless there are none.
Prefer(P, Test(_)) ==
    LET kept == {a \in P : Test(a)} IN IF kept # {} THEN kept ELSE P

\* The members of P with the highest value.
Highest(P, Value(_)) == {a \in P : \A b \in P : Value(b) <= Value(a)}

Base(skip, avoid) ==
    {a \in Accounts \ skip : acct[a].ok /\ (acct[a].line = Direct \/ acct[a].line \notin avoid)}

Clean(a) == acct[a].line \notin blocked

OfTier(P, tier) == {a \in P : acct[a].avail = tier}

\* The accounts the first layers leave: with a model, its tier of the base;
\* without one, the accounts on clean lines, or all if there are none.
Tier(base, model) ==
    IF model = "" THEN Prefer(base, Clean)
    ELSE IF OfTier(base, "available") # {} THEN OfTier(base, "available")
    ELSE OfTier(base, "unknown")

\* Mutant: a fast line goes before a promotional quota.
TiedFastFirst(base, model) ==
    LET whole == Prefer(Tier(base, model), LAMBDA a : ~acct[a].truncated)
        soon  == IF model = "" THEN whole ELSE Prefer(whole, LAMBDA a : acct[a].expiring)
        fast  == Highest(soon, LAMBDA a : acct[a].band)
    IN  Highest(Prefer(fast, LAMBDA a : acct[a].promo), LAMBDA a : acct[a].quota)

Tied(base, model) ==
    LET whole == Prefer(Tier(base, model), LAMBDA a : ~acct[a].truncated)
        soon  == IF model = "" THEN whole ELSE Prefer(whole, LAMBDA a : acct[a].expiring)
        promo == Prefer(soon, LAMBDA a : acct[a].promo)
        fast  == Highest(promo, LAMBDA a : acct[a].band)
    IN  Highest(fast, LAMBDA a : acct[a].quota)

\* Mutants: the turn never passes on; the cursor never comes round.
TurnStays(i, n) == i

\* The turn passes on among n accounts.
Turn(i, n) == (i + 1) % n

\* The account of P that i others come before in s.accounts.
Earlier(a, x) == \E i, j \in DOMAIN Order : i < j /\ Order[i] = a /\ Order[j] = x
Nth(P, i) == CHOOSE a \in P : Cardinality({x \in P : Earlier(x, a)}) = i

\* One call with the cursor at c: what it returns, and the cursor it leaves.
Pick(skip, avoid, model, c) ==
    LET base == Base(skip, avoid)
        top == Tied(base, model)
        i == c % Cardinality(top)
    IN  IF pin \in base THEN [acc |-> pin, next |-> c]
        ELSE IF top = {} THEN [acc |-> None, next |-> c]
        ELSE [acc |-> Nth(top, i), next |-> Turn(i, Cardinality(top))]

\* Mutant: lines are avoided at any price.
PickStrictly(skip, avoid, model, c) == Pick(skip, avoid, model, c)

\* SelectAvoiding: the lines to avoid are forgotten when nobody is left.
PickAvoiding(skip, avoid, model, c) ==
    LET first == Pick(skip, avoid, model, c)
    IN  IF first.acc # None \/ avoid = {} THEN first ELSE Pick(skip, {}, model, c)

----------------------------------------------------------------------------

Select(skip, avoid, model) ==
    /\ cursor' = [cursor EXCEPT ![model] = PickAvoiding(skip, avoid, model, @).next]
    /\ UNCHANGED <<acct, blocked, pin>>

\* The profile of an account changes: marks, quota snapshots, a new binding.
Change(a, profile) ==
    /\ acct' = [acct EXCEPT ![a] = profile]
    /\ UNCHANGED <<blocked, cursor, pin>>

\* A line enters or leaves the 405 quarantine.
Quarantine(l) ==
    /\ l # Direct
    /\ blocked' = IF l \in blocked THEN blocked \ {l} ELSE blocked \cup {l}
    /\ UNCHANGED <<acct, cursor, pin>>

PinAccount(a) == pin' = a /\ UNCHANGED <<acct, blocked, cursor>>

\* UnpinAccount, or the pin expires.
UnpinAccount == pin # None /\ pin' = None /\ UNCHANGED <<acct, blocked, cursor>>

\* Lines a request may want to avoid: who goes out directly is never avoided.
Avoidable == SUBSET (Lines \ {Direct})

Next ==
    \/ \E skip \in SUBSET Accounts, avoid \in Avoidable, m \in Models : Select(skip, avoid, m)
    \/ \E a \in Accounts, p \in Profiles : Change(a, p)
    \/ \E l \in Lines : Quarantine(l)
    \/ \E a \in Accounts : PinAccount(a)
    \/ UnpinAccount

Spec == Init /\ [][Next]_vars

----------------------------------------------------------------------------
(* Properties: of every call that could be made in the current state *)

\* The shape of the state; the cursor never outgrows the pool.
TypeOK ==
    /\ acct \in [Accounts -> Profiles] /\ blocked \subseteq Lines \ {Direct}
    /\ cursor \in [Models -> Nat]
    /\ \A m \in Models : cursor[m] = 0 \/ cursor[m] < Cardinality(Accounts)
    /\ pin \in Accounts \cup {None}

EveryCall(P(_, _, _)) ==
    \A skip \in SUBSET Accounts, avoid \in Avoidable, m \in Models : P(skip, avoid, m)

Serves(a, model) == acct[a].ok /\ (model = "" \/ acct[a].avail # "absent")

\* A request is refused only when no untried account could serve it: avoided,
\* quarantined, truncated and slow lines are used before giving up
\* (store.go, SelectAvoiding: avoidance that empties the pool is dropped).
RefusedOnlyWhenEmpty ==
    EveryCall(LAMBDA skip, avoid, m :
        PickAvoiding(skip, avoid, m, cursor[m]).acc = None
            => \A a \in Accounts \ skip : ~Serves(a, m))

\* What the layers rank, most important first (reference definition).
Flag(h) == IF h THEN 1 ELSE 0
Rank(a, model) ==
    IF model = ""
    THEN <<Flag(Clean(a)), Flag(~acct[a].truncated), Flag(acct[a].promo),
           acct[a].band, acct[a].quota>>
    ELSE <<Flag(acct[a].avail = "available"), Flag(~acct[a].truncated),
           Flag(acct[a].expiring), Flag(acct[a].promo), acct[a].band, acct[a].quota>>

Below(s, t) ==
    \E i \in DOMAIN s : s[i] < t[i] /\ \A j \in 1..(i - 1) : s[j] = t[j]

\* The layers amount to one lexicographic order: nobody who could serve the
\* call on a line that is not avoided ranks above the chosen account.
PicksTheBest ==
    EveryCall(LAMBDA skip, avoid, m :
        LET a == Pick(skip, avoid, m, cursor[m]).acc
            rivals == {b \in Base(skip, avoid) : Serves(b, m)}
        IN  a \notin {None, pin} => \A b \in rivals : ~Below(Rank(a, m), Rank(b, m)))

\* The accounts a call takes turns among.
TiedFor(skip, avoid, model) ==
    LET first == Tied(Base(skip, avoid), model)
    IN  IF first # {} THEN first ELSE Tied(Base(skip, {}), model)

\* What n calls in a row return.
InARow(n, skip, avoid, model) ==
    LET c[k \in 0..n] == IF k = 0 THEN cursor[model]
                         ELSE PickAvoiding(skip, avoid, model, c[k - 1]).next
    IN  [k \in 1..n |-> PickAvoiding(skip, avoid, model, c[k - 1]).acc]

\* Wherever other calls left the cursor, a call repeated over an unchanged pool
\* takes turns: no account is picked again before every tied one was.
TakesTurns ==
    EveryCall(LAMBDA skip, avoid, m :
        LET tied == TiedFor(skip, avoid, m)
        IN  pin = None =>
                Range(InARow(Cardinality(tied), skip, avoid, m)) = tied)

\* "Line 405 quarantine affects new dispatches; if no candidate is left, all
\* are used" (store.go:1929): an account on a quarantined line is chosen only
\* when no candidate of the same tier is on a clean one.
QuarantineRespected ==
    EveryCall(LAMBDA skip, avoid, m :
        LET a == Pick(skip, avoid, m, cursor[m]).acc
        IN  a \notin {None, pin} /\ ~Clean(a) =>
                \A b \in Base(skip, avoid) : acct[b].avail = acct[a].avail => ~Clean(b))

=============================================================================
