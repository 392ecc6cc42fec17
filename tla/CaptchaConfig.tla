----------------------------- MODULE CaptchaConfig -----------------------------
(***************************************************************************)
(* The captcha configuration of the manager (internal/captcha/captcha.go:    *)
(* FetchConfig, getVerifyParam, SetManualParam, Invalidate) and what reaches *)
(* the token pool.  Requests fetch it when the cached one is too old, without *)
(* a lock and without waiting for each other, and tell the pool after the     *)
(* lock has been given up: answers are installed, and reach the pool, in any  *)
(* order.                                                                     *)
(***************************************************************************)
EXTENDS Naturals

CONSTANTS
    Callers,
    Versions,     \* the configurations of the upstream, 1 .. n, in their order
    Disabled,     \* those that switch the captcha off
    MaxFailures,  \* bound on failed fetches
    None

VARIABLES
    upstream,     \* the configuration the upstream has now
    lastGood, fresh,  \* lastGoodConfig; its time to live has not passed
    backoff,      \* now is before configFailUntil
    pool,         \* the configuration of the token pool
    manual,       \* a token an operator has pasted is cached
    failures,
    pc, got, for  \* each request: its place, its configuration, "model" or "claim"

manager == <<lastGood, fresh, backoff, pool, manual>>
vars == <<upstream, manager, failures, pc, got, for>>

Init ==
    /\ upstream = 1 /\ lastGood = None /\ fresh = FALSE /\ backoff = FALSE
    /\ pool = None /\ manual = FALSE /\ failures = 0
    /\ pc = [c \in Callers |-> "idle"] /\ got = [c \in Callers |-> None]
    /\ for = [c \in Callers |-> "model"]

Step(c, from, to) == pc[c] = from /\ pc' = [pc EXCEPT ![c] = to]
Holds(c, v) == got' = [got EXCEPT ![c] = v]

\* A claim looks for a pasted token first; a model request asks for the policy first.
Request(c) ==
    /\ pc[c] = "idle"
    /\ \E kind \in {"model", "claim"} :
        /\ for' = [for EXCEPT ![c] = kind]
        /\ pc' = [pc EXCEPT ![c] = IF kind = "claim" /\ manual THEN "idle" ELSE "fetch"]
    /\ UNCHANGED <<upstream, manager, failures, got>>

\* Fresh enough, or the last fetch failed a moment ago.
FetchCached(c) ==
    /\ lastGood # None /\ (fresh \/ backoff)
    /\ Step(c, "fetch", "use") /\ Holds(c, lastGood)
    /\ UNCHANGED <<upstream, manager, failures, for>>

FetchBegin(c) ==
    /\ lastGood = None \/ ~(fresh \/ backoff)
    /\ Step(c, "fetch", "asking")
    /\ UNCHANGED <<upstream, manager, failures, got, for>>

\* The upstream answers with what it has at this moment.
Answer(c) ==
    /\ Step(c, "asking", "answered") /\ Holds(c, upstream)
    /\ UNCHANGED <<upstream, manager, failures, for>>

\* The last good one stays; without one the default is used.
Fail(c) ==
    /\ failures < MaxFailures /\ failures' = failures + 1
    /\ Step(c, "asking", "use") /\ Holds(c, lastGood)
    /\ backoff' = (backoff \/ lastGood # None)
    /\ UNCHANGED <<upstream, lastGood, fresh, pool, manual, for>>

\* Mutant: the pool is told only when the configuration is another one.
TellsIfChanged(c) == IF lastGood = got[c] THEN "use" ELSE "tell"

\* The pool is told of every configuration that was fetched.
Tells(c) == "tell"

Install(c) ==
    /\ Step(c, "answered", Tells(c))
    /\ lastGood' = got[c] /\ fresh' = TRUE /\ backoff' = FALSE
    /\ UNCHANGED <<upstream, pool, manual, failures, got, for>>

\* tokenPool.SetConfig, outside the manager's lock.
Tell(c) ==
    /\ Step(c, "tell", "use") /\ pool' = got[c]
    /\ UNCHANGED <<upstream, lastGood, fresh, backoff, manual, failures, got, for>>

\* No captcha, a pasted token, a token of the pool if it is ready for this
\* configuration, or a solution of one's own.
Use(c) ==
    /\ Step(c, "use", "idle") /\ Holds(c, None)
    /\ manual' = (manual /\ ~(for[c] = "claim" /\ got[c] \in Disabled))
    /\ UNCHANGED <<upstream, lastGood, fresh, backoff, pool, failures, for>>

\* The upstream refuses a token.
Invalidate == manual /\ manual' = FALSE /\ UNCHANGED <<upstream, lastGood, fresh, backoff, pool, failures, pc, got, for>>

\* An operator pastes a token; its region may come from a configuration.
Paste == ~manual /\ manual' = TRUE /\ UNCHANGED <<upstream, lastGood, fresh, backoff, pool, failures, pc, got, for>>

Ages ==
    /\ \/ fresh /\ fresh' = FALSE /\ UNCHANGED backoff
       \/ backoff /\ backoff' = FALSE /\ UNCHANGED fresh
    /\ UNCHANGED <<upstream, lastGood, pool, manual, failures, pc, got, for>>

Changes ==
    /\ upstream + 1 \in Versions /\ upstream' = upstream + 1
    /\ UNCHANGED <<manager, failures, pc, got, for>>

CallerStep(c) ==
    \/ Request(c) \/ FetchCached(c) \/ FetchBegin(c) \/ Answer(c) \/ Fail(c) \/ Install(c)
    \/ Tell(c) \/ Use(c)

Next == (\E c \in Callers : CallerStep(c)) \/ Invalidate \/ Paste \/ Ages \/ Changes

\* Requests keep coming and getting on; time passes.
Fairness == (\A c \in Callers : WF_vars(CallerStep(c))) /\ WF_vars(Ages)

Spec == Init /\ [][Next]_vars /\ Fairness

----------------------------------------------------------------------------
(* Properties *)

\* However late an answer is installed or told to the pool, the manager and the
\* pool end up with what the upstream ended up with; else the pool would never be
\* ready again and every request would wait for a solution of its own.
Settled == lastGood = upstream /\ pool = upstream
ConfigSettles == <>[]Settled

=============================================================================
