------------------------------- MODULE QuotaQuery -------------------------------
(***************************************************************************)
(* Quota queries of one account (internal/quota/quota.go queryQuotaContext,  *)
(* FetchQuota, FetchQuotaFresh, Close): concurrent callers share a query,     *)
(* a successful answer is reused for a moment, and a caller that needs a      *)
(* fresh observation waits for the old query and sends another one.           *)
(*                                                                         *)
(* Every query has a number, in the order they are sent; the account's        *)
(* identity (credentials and outbound line) is a version.  One action per     *)
(* critical section and per wait.                                             *)
(***************************************************************************)
EXTENDS Naturals

CONSTANTS
    Callers,
    MaxQueries,     \* bound on the queries that are sent
    MaxIdentity,    \* bound on the identities the account has
    None

ASSUME QuotaQueryAssumption == MaxQueries \in Nat /\ MaxIdentity \in Nat

Queries == 1..MaxQueries

VARIABLES
    identity,       \* the identity the account has now
    sent, of, state,\* queries sent; the identity and the state of each
    owner,          \* the caller whose context a query lives in
    inflight, cache, closed,
    pc, fresh, gone,\* each caller; its own context has ended
    snap, mine,     \* the identity it has read, the query it waits for
    since, from     \* history: queries sent, and the identity, when its call began

service == <<inflight, cache, closed>>
query == <<sent, of, state, owner>>
caller == <<pc, fresh, gone, snap, mine, since, from>>
vars == <<identity, query, service, caller>>

Init ==
    /\ identity = 1 /\ sent = 0 /\ of = [q \in Queries |-> 0] /\ state = [q \in Queries |-> "none"]
    /\ owner = [q \in Queries |-> None] /\ inflight = None /\ cache = None /\ closed = FALSE
    /\ pc = [c \in Callers |-> "idle"] /\ fresh = [c \in Callers |-> FALSE]
    /\ gone = [c \in Callers |-> FALSE] /\ snap = [c \in Callers |-> 0]
    /\ mine = [c \in Callers |-> None] /\ since = [c \in Callers |-> 0]
    /\ from = [c \in Callers |-> 0]

Goto(c, where) == pc' = [pc EXCEPT ![c] = where]
Forget(c) ==
    /\ mine' = [mine EXCEPT ![c] = None] /\ snap' = [snap EXCEPT ![c] = 0]
    /\ since' = [since EXCEPT ![c] = 0] /\ from' = [from EXCEPT ![c] = 0]
    /\ fresh' = [fresh EXCEPT ![c] = FALSE] /\ gone' = [gone EXCEPT ![c] = FALSE]

\* With an observation, or with an error of its own.
Returns(c) == Goto(c, "idle") /\ Forget(c)
Fails(c) == Goto(c, "failed") /\ Forget(c)

\* FetchQuota lives in the service's context, FetchQuotaFresh in its caller's.
Call(c) ==
    /\ pc[c] \in {"idle", "failed"} /\ ~closed /\ Goto(c, "snapshot")
    /\ \E f \in BOOLEAN : fresh' = [fresh EXCEPT ![c] = f]
    /\ since' = [since EXCEPT ![c] = sent] /\ from' = [from EXCEPT ![c] = identity]
    /\ UNCHANGED <<identity, query, service, gone, snap, mine>>

\* Outside the lock; the account may be blocked or have been deleted.
Snapshot(c) ==
    /\ pc[c] = "snapshot"
    /\ \/ /\ Goto(c, "enter") /\ snap' = [snap EXCEPT ![c] = identity]
          /\ UNCHANGED <<mine, fresh, gone, since, from>>
       \/ Fails(c)
    /\ UNCHANGED <<identity, query, service>>

Ended(c) == closed \/ gone[c]

Cancelled(c) ==
    /\ pc[c] \in {"enter", "join", "own"} /\ Ended(c) /\ Fails(c)
    /\ UNCHANGED <<identity, query, service>>

Join(c) ==
    /\ pc[c] = "enter" /\ ~Ended(c) /\ inflight # None
    /\ mine' = [mine EXCEPT ![c] = inflight] /\ Goto(c, "join")
    /\ UNCHANGED <<identity, query, service, fresh, gone, snap, since, from>>

\* Mutant: a fresh caller takes the query it has waited for.
UsableShared(c, q) == of[q] = identity

\* Another caller's query will do unless this one needs its own, or the identity is another by now.
Usable(c, q) == ~fresh[c] /\ of[q] = identity

Joined(c) ==
    /\ pc[c] = "join" /\ state[mine[c]] \in {"ok", "error"}
    /\ IF Usable(c, mine[c]) THEN Returns(c)
       ELSE /\ Goto(c, "snapshot") /\ mine' = [mine EXCEPT ![c] = None] /\ snap' = [snap EXCEPT ![c] = 0]
            /\ UNCHANGED <<fresh, gone, since, from>>
    /\ UNCHANGED <<identity, query, service>>

\* A cached answer of the same identity, while it is recent.
Hit(c) == cache # None /\ ~fresh[c] /\ of[cache] = snap[c]

TakeCached(c) ==
    /\ pc[c] = "enter" /\ ~Ended(c) /\ inflight = None /\ Hit(c)
    /\ Returns(c) /\ UNCHANGED <<identity, query, service>>

\* Registered in the same critical section that found neither.
Send(c) ==
    LET q == sent + 1
    IN  /\ pc[c] = "enter" /\ ~Ended(c) /\ inflight = None /\ ~Hit(c) /\ sent < MaxQueries
        /\ sent' = q /\ of' = [of EXCEPT ![q] = snap[c]] /\ state' = [state EXCEPT ![q] = "running"]
        /\ owner' = [owner EXCEPT ![q] = IF fresh[c] THEN c ELSE None]
        /\ inflight' = q /\ cache' = None
        /\ mine' = [mine EXCEPT ![c] = q] /\ Goto(c, "own")
        /\ UNCHANGED <<identity, closed, fresh, gone, snap, since, from>>

\* The query's context is derived from the context of the caller that sent it.
Aborted(q) == closed \/ (owner[q] # None /\ (gone[owner[q]] \/ mine[owner[q]] # q))

\* Mutant: the panic of a parser leaves the registration behind.
Clears(q, how) == IF how = "error" THEN inflight ELSE None

\* The goroutine of the query ends, also by a panic: one critical section.
Cleared(q, how) == IF inflight = q THEN None ELSE inflight

Finish(q) ==
    \E how \in {"ok", "error"} :
        /\ state[q] = "running" /\ (how = "ok" => ~Aborted(q))
        /\ state' = [state EXCEPT ![q] = how]
        /\ cache' = IF how = "ok" THEN q ELSE cache
        /\ inflight' = Cleared(q, how) /\ owner' = [owner EXCEPT ![q] = None]
        /\ UNCHANGED <<identity, sent, of, closed, caller>>

Own(c) ==
    /\ pc[c] = "own" /\ state[mine[c]] \in {"ok", "error"} /\ Returns(c)
    /\ UNCHANGED <<identity, query, service>>

\* The caller's own context ends; FetchQuota has none of its own.
Leave(c) ==
    /\ fresh[c] /\ pc[c] \notin {"idle", "failed"} /\ ~gone[c] /\ gone' = [gone EXCEPT ![c] = TRUE]
    /\ UNCHANGED <<identity, query, service, pc, fresh, snap, mine, since, from>>

\* The account is logged in again, or gets another line.
Change ==
    /\ identity < MaxIdentity /\ identity' = identity + 1
    /\ UNCHANGED <<query, service, caller>>

\* QuotaCacheTTL, or pruneCache.
Expire == cache # None /\ cache' = None /\ UNCHANGED <<identity, query, inflight, closed, caller>>

Close == ~closed /\ closed' = TRUE /\ UNCHANGED <<identity, query, inflight, cache, caller>>

CallerStep(c) ==
    \/ Snapshot(c) \/ Cancelled(c) \/ Join(c) \/ Joined(c) \/ TakeCached(c) \/ Send(c) \/ Own(c)

Next ==
    \/ \E c \in Callers : Call(c) \/ CallerStep(c) \/ Leave(c)
    \/ \E q \in Queries : Finish(q)
    \/ Change \/ Expire \/ Close

\* Callers get on, and a query ends: fetchQuotaOnce has a time limit.
Fairness == (\A c \in Callers : WF_vars(CallerStep(c))) /\ \A q \in Queries : WF_vars(Finish(q))

Spec == Init /\ [][Next]_vars /\ Fairness

----------------------------------------------------------------------------
(* Properties *)

\* What a caller returns was asked for on its behalf: with an identity the account
\* still had when the call began, and for FetchQuotaFresh by a query that was sent
\* after it (quota.go:607-608, 632-633).
AnswersTheCall ==
    [][\A c \in Callers :
        pc[c] \in {"enter", "join", "own"} /\ pc'[c] = "idle" =>
            LET q == IF pc[c] = "enter" THEN cache ELSE mine[c]
            IN  of[q] >= from[c] /\ (fresh[c] => q > since[c])]_vars

\* No caller waits for ever, whatever becomes of the query it waits for; only the
\* bound on queries may stop one.
CallersReturn ==
    \A c \in Callers :
        pc[c] = "enter" ~> pc[c] \in {"idle", "failed"} \/ (sent = MaxQueries /\ inflight = None)

\* A query survives the caller that sent it (quota.go:596-597): whoever shares it
\* and is still there gets no other caller's cancellation.
QueriesOutliveCallers == \A q \in Queries : state[q] = "running" /\ ~closed => ~Aborted(q)

=============================================================================
