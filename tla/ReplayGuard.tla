----------------------------- MODULE ReplayGuard -----------------------------
(***************************************************************************)
(* The replay guard (internal/gateway/replayguard.go) and the request-wide  *)
(* verdict that feeds it (internal/gateway/riskscope.go).                   *)
(*                                                                         *)
(* A request whose content is refused with 405 over Threshold different     *)
(* clean lines is judged: its content enters the table, and requests with   *)
(* the same content are turned away until the record expires, except for    *)
(* one allowance.  The engine (/v1/messages) and the async pool keep a      *)
(* table each and share nothing: this is one of them.  Requests run         *)
(* concurrently; a content is a model value, and time is the age of each    *)
(* record.                                                                  *)
(***************************************************************************)
EXTENDS Integers, FiniteSets

CONSTANTS
    Contents,
    Lines,
    Reqs,        \* requests at the same time; a client may retry for ever
    None,
    TTL,         \* config.ReplayGuardTTLSeconds
    MaxEntries,  \* replayGuardMaxEntries
    AllowOnce,   \* config.ReplayAllowOnce
    Threshold    \* config.RiskRequestLevelLines

ASSUME ReplayGuardAssumption ==
    /\ TTL \in Nat \ {0} /\ MaxEntries \in Nat \ {0}
    /\ AllowOnce \in BOOLEAN /\ Threshold \in Nat \ {0}
    /\ IsFiniteSet(Contents) /\ None \notin Contents
    /\ None \notin [age : Nat, left : Nat]

VARIABLES
    entry,   \* g.entries: the age of each record and its allowances
    req,     \* the requests and the clean lines that refused them (RiskScope)
    let      \* ghost: replays let through during the life of a record, up to 2

vars == <<entry, req, let>>

Idle == [body |-> None, lines |-> {}]

Init ==
    /\ entry = [k \in Contents |-> None]
    /\ req = [r \in Reqs |-> Idle]
    /\ let = [k \in Contents |-> 0]

Kept == {k \in Contents : entry[k] # None}

Live(k) == k \in Kept /\ entry[k].age < TTL

Blocked(k) == Live(k) /\ entry[k].left = 0

----------------------------------------------------------------------------

\* Take: what an arriving request with content k does to the table.
TakeExpired(k) ==
    /\ ~Live(k)
    /\ entry' = [entry EXCEPT ![k] = None]
    /\ let' = [let EXCEPT ![k] = 0]

LetThrough(k) == let' = [let EXCEPT ![k] = IF @ = 0 THEN 1 ELSE 2]

TakeAllowance(k) ==
    /\ Live(k) /\ ~Blocked(k)
    /\ entry' = [entry EXCEPT ![k].left = @ - 1]
    /\ LetThrough(k)

\* Mutant: a refused replay prolongs the window.
TakeProlongs(k) ==
    Blocked(k) /\ entry' = [entry EXCEPT ![k].age = 0] /\ UNCHANGED let

TakeRefused(k) == Blocked(k) /\ UNCHANGED <<entry, let>>

Arrive(r, k) ==
    /\ req[r] = Idle
    /\ \/ /\ TakeExpired(k) \/ TakeAllowance(k)
          /\ req' = [req EXCEPT ![r] = [body |-> k, lines |-> {}]]
       \/ TakeRefused(k) /\ UNCHANGED req

\* Mutant: every verdict grants the allowance again.
AllowancesRearmed(k, kept) == IF AllowOnce THEN 1 ELSE 0

Allowances(k, kept) ==
    IF k \in kept THEN entry[k].left ELSE IF AllowOnce THEN 1 ELSE 0

Full(records) == Cardinality(records) >= MaxEntries

\* Record: forget what has expired; a full table is emptied; a record that is
\* still there keeps its allowances.
Record(k) ==
    LET fresh == {x \in Contents : Live(x)}
        kept == IF Full(fresh) THEN {} ELSE fresh
    IN  /\ entry' = [x \in Contents |->
                        IF x = k THEN [age |-> 0, left |-> Allowances(k, kept)]
                        ELSE IF x \in kept THEN entry[x] ELSE None]
        /\ let' = [x \in Contents |-> IF x \in kept THEN let[x] ELSE 0]

\* Verdict: one more 405, over line l; a line known to be dirty proves nothing.
Refused(r, l, dirty) ==
    LET lines == IF dirty THEN req[r].lines ELSE req[r].lines \cup {l}
    IN  /\ req[r] # Idle
        /\ IF Cardinality(lines) >= Threshold
           THEN /\ Record(req[r].body)
                /\ req' = [req EXCEPT ![r] = Idle]
           ELSE req' = [req EXCEPT ![r].lines = lines] /\ UNCHANGED <<entry, let>>

\* The request succeeds, fails otherwise, or has no account left.
End(r) ==
    /\ req[r] # Idle
    /\ req' = [req EXCEPT ![r] = Idle]
    /\ UNCHANGED <<entry, let>>

\* Time passes; beyond the TTL ages are not told apart.
Tick ==
    /\ entry' = [k \in Contents |->
            IF Live(k) THEN [entry[k] EXCEPT !.age = @ + 1] ELSE entry[k]]
    /\ UNCHANGED <<req, let>>

Next ==
    \/ \E r \in Reqs :
        \/ \E k \in Contents : Arrive(r, k)
        \/ \E l \in Lines, dirty \in BOOLEAN : Refused(r, l, dirty)
        \/ End(r)
    \/ Tick

Spec == Init /\ [][Next]_vars

\* Time passes, and a request ends (its attempts are bounded).
FairSpec == Spec /\ WF_vars(Tick) /\ \A r \in Reqs : WF_vars(End(r))

----------------------------------------------------------------------------
(* Properties *)

Records == [age : 0..TTL, left : 0..1]

\* The shape of the state.
TypeOK ==
    /\ entry \in [Contents -> Records \cup {None}]
    /\ req \in [Reqs -> [body : Contents \cup {None}, lines : SUBSET Lines]]
    /\ let \in [Contents -> 0..2]

\* However many verdicts requests already on their way add to a record, it
\* lets one replay through in its whole life (replayguard.go:85-87, 117-118);
\* only the emptying of a full table gives an allowance back.
OncePerWindow == \A k \in Kept : let[k] + entry[k].left <= 1

\* A judged content is not locked out for good, whatever its clients and the
\* verdicts do: retries do not prolong its window (replayguard.go:63).
NeverLockedOut == \A k \in Contents : []<>~Blocked(k)

=============================================================================
