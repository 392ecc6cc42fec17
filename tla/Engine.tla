-------------------------------- MODULE Engine --------------------------------
(***************************************************************************)
(* The synchronous request loop (internal/gateway/engine.go: RunMessages,   *)
(* tryAccount, handleUpstreamError, handleUpstreamJSON, deliverStream,      *)
(* finishDelivery) with the first byte watchdog (firstbyte.go), the uplink  *)
(* gate (uplink.go), the memory of lines that broke (truncateguard.go) and  *)
(* the replay guard as one content sees it.                                 *)
(*                                                                         *)
(* One client sends the same content several times, one request after the   *)
(* other.  The upstream may answer anything; timers, the deadline and the   *)
(* client's departure may happen at any step.  What marks do to accounts is *)
(* in Accounts, which account is chosen is in Selection, how bytes reach    *)
(* the client is in Delivery; here they are what the loop sees of them.     *)
(***************************************************************************)
EXTENDS Integers, FiniteSets

CONSTANTS
    Accounts, None,
    Jwt,             \* accounts that log in with a JWT and need a captcha
    Empty,           \* accounts whose model is exhausted at first
    Line,            \* the proxy line of each account, or None
    MaxAttempts,     \* MaxAccountAttempts
    MaxCaptcha,      \* MaxCaptchaRetries
    MaxBusy,         \* len(BusyRetryDelays)
    MaxRate,         \* MaxRateLimitRetries
    MaxOverload,     \* len(OverloadRetryDelays)
    MaxTimeouts,     \* config.UpstreamTimeoutRetries
    BusySwitchAfter, \* config.BusySwitchAfter; 0 turns it off
    RiskLines,       \* config.RiskRequestLevelLines
    CoolOnFailure,   \* config.CoolOnConnectionFailure
    MaxRounds        \* bound on the requests of the client

VARIABLES
    pc,       \* where the request is
    gone,     \* the context of the request has ended
    late,     \* config.RequestDeadline has passed
    acc,      \* the account of this attempt
    probe,    \* it was taken with AcquireQuotaProbe
    probed,   \* probeTried
    tried, avoid,
    n,        \* timeoutRetries, uplinkSlow, earlyTruncate
    b,        \* attemptBudget, and the rounds of the loop in tryAccount
    guard,    \* the watchdog: "armed", "stopped", "fired", or "slow" (the gate)
    answer,   \* what the upstream answered
    scope,    \* RiskScope: clean lines that refused the content
    reply,    \* what the client has
    mark,     \* what the store says of each account
    cut,      \* truncateRetry: lines that broke this content
    replay,   \* replay guard: "none", "spare" or "spent"
    round,
    broke     \* ghost: lines over which the upstream broke this content

request == <<acc, probe, probed, tried, avoid, n, b, guard, answer, scope>>
shared == <<mark, cut, replay, round, broke>>
vars == <<pc, gone, late, request, reply, shared>>

NoBudget == [captcha |-> 0, busy |-> 0, rate |-> 0, overload |-> 0, rounds |-> 0]
Clean == [timeouts |-> 0, slow |-> 0, early |-> 0]

Fresh ==
    /\ acc = None /\ probe = FALSE /\ probed = FALSE /\ tried = {} /\ avoid = {}
    /\ n = Clean /\ b = NoBudget /\ guard = "stopped" /\ answer = "none"
    /\ scope = {}

Init ==
    /\ pc = "idle" /\ gone = FALSE /\ late = FALSE /\ Fresh /\ reply = "none"
    /\ mark = [a \in Accounts |-> IF a \in Empty THEN "exhausted" ELSE "fine"]
    /\ cut = {} /\ replay = "none" /\ round = 1 /\ broke = {}

----------------------------------------------------------------------------
(* The ways out of an attempt *)

Held == guard' = "stopped" /\ answer' = "none"

\* continue in tryAccount: the permit is given back first.
Retry(budget) ==
    /\ Held /\ pc' = "try" /\ b' = budget
    /\ UNCHANGED <<acc, probe, probed, tried, avoid, n, scope, reply>>

\* switchAccount: a probe is finished without confirmation.
SwitchAnd(line, count) ==
    /\ Held /\ pc' = "loop" /\ probe' = FALSE /\ acc' = None
    /\ avoid' = avoid \cup ({line} \ {None}) /\ n' = count
    /\ UNCHANGED <<probed, tried, b, scope, reply>>

Switch(line) == SwitchAnd(line, n)

Final(result) ==
    /\ Held /\ pc' = "ended" /\ probe' = FALSE /\ reply' = result
    /\ UNCHANGED <<acc, probed, tried, avoid, n, b, scope>>

Marked(kind) ==
    /\ mark' = [mark EXCEPT ![acc] = kind]
    /\ UNCHANGED <<cut, replay, round, broke>>

Unmarked == UNCHANGED shared

Stays == UNCHANGED <<gone, late>>

----------------------------------------------------------------------------
(* RunMessages *)

\* Take: a judged content is let through once; lines that broke it are avoided.
Arrive ==
    /\ pc = "idle" /\ Stays
    /\ IF replay = "spent"
       THEN pc' = "ended" /\ reply' = "cooldown" /\ UNCHANGED <<request, shared>>
       ELSE /\ pc' = "loop" /\ avoid' = cut
            /\ replay' = IF replay = "spare" THEN "spent" ELSE replay
            /\ UNCHANGED <<acc, probe, probed, tried, n, b, guard, answer, scope>>
            /\ UNCHANGED <<reply, mark, cut, round, broke>>

Untried == {a \in Accounts \ tried : mark[a] = "fine"}

\* SelectAvoiding (see Selection): avoided lines only if there are no others.
Choices ==
    LET others == {a \in Untried : Line[a] \notin avoid}
    IN  IF others # {} THEN others ELSE Untried

Looping == pc = "loop" /\ Stays

AttemptsLeft == Cardinality(tried) < MaxAttempts

DeadlineBefore == Looping /\ AttemptsLeft /\ late /\ Final("deadline") /\ Unmarked

More == Looping /\ AttemptsLeft /\ ~late

TryWith(a, lease) ==
    /\ pc' = "try" /\ acc' = a /\ tried' = tried \cup {a} /\ b' = NoBudget
    /\ probe' = lease /\ probed' = (probed \/ lease)
    /\ UNCHANGED <<avoid, n, guard, answer, scope, reply, shared>>

Select == More /\ \E a \in Choices : TryWith(a, FALSE)

\* The lease of an exhausted model, once per request.
SelectProbe ==
    /\ More /\ Choices = {} /\ ~probed /\ ~gone
    /\ \E a \in Accounts \ (tried \cup Jwt) : mark[a] = "exhausted" /\ TryWith(a, TRUE)

\* No account, or MaxAccountAttempts used up.
Exhausted ==
    /\ Looping /\ (AttemptsLeft => ~late /\ Choices = {})
    /\ Final(IF n.slow > 0 THEN "uplink_too_slow"
             ELSE IF n.early > 0 THEN "interrupted" ELSE "no_account")
    /\ Unmarked

----------------------------------------------------------------------------
(* tryAccount, up to the upstream *)

Budget == 1 + MaxCaptcha + MaxBusy + MaxRate + MaxOverload

Trying == pc = "try" /\ Stays

DeadlineInside == Trying /\ late /\ Final("deadline") /\ Unmarked

\* GetModelVerifyParam fails; the manager is told to forget its token.
CaptchaFails ==
    LET c == b.captcha + 1
    IN  /\ Trying /\ ~late /\ acc \in Jwt
        /\ IF c < MaxCaptcha THEN Retry([b EXCEPT !.captcha = c, !.rounds = @ + 1])
           ELSE Final("captcha_required")
        /\ Unmarked

\* Solving takes time: the client or the deadline may be gone afterwards.
Prepare ==
    /\ Trying /\ ~late
    /\ pc' = "ready" /\ b' = [b EXCEPT !.rounds = @ + 1]
    /\ UNCHANGED <<acc, probe, probed, tried, avoid, n, guard, answer, scope>>
    /\ UNCHANGED <<reply, shared>>

Ready == pc = "ready" /\ Stays

\* BuildRequest: the credential is unusable.
BadCredential == Ready /\ Switch(None) /\ Marked("invalid")

\* The caller's card headers, ZAI_UPSTREAM_URL, or BeginProxyAttempt refuses.
NotDispatched ==
    /\ Ready /\ Unmarked
    /\ \E why \in {"bad_request", "bad_url", "route_unavailable"} : Final(why)

\* The rest of the deadline bounds the first byte.
DeadlineReached == Ready /\ late /\ Final("deadline") /\ Unmarked

\* Permit, watchdog, gate, client.Do.
Send ==
    /\ Ready /\ ~late
    /\ pc' = "asked" /\ guard' = "armed"
    /\ UNCHANGED <<acc, probe, probed, tried, avoid, n, b, answer, scope, reply, shared>>

----------------------------------------------------------------------------
(* The watchdog and the gate: the first of them ends the context *)

Ended(cause) ==
    /\ guard = "armed" /\ guard' = cause
    /\ UNCHANGED <<pc, gone, late, acc, probe, probed, tried, avoid, n, b, answer, scope>>
    /\ UNCHANGED <<reply, shared>>

\* The timer runs until Headers is called, after client.Do has returned.
TimerFires == pc \in {"asked", "answered"} /\ Ended("fired")

GateFires == pc = "asked" /\ Ended("slow")

\* client.Do returns an error: the causes in the order the code asks for them.
DoFails ==
    /\ pc = "asked" /\ Stays
    /\ IF gone THEN Final("canceled") /\ Unmarked
       ELSE IF guard = "slow"
       THEN SwitchAnd(Line[acc], [n EXCEPT !.slow = @ + 1]) /\ Unmarked
       ELSE /\ Switch(Line[acc])
            /\ IF guard # "fired" /\ CoolOnFailure THEN Marked("cooling") ELSE Unmarked

Errors == {"captcha", "auth", "paid", "busy", "overload", "quota", "rate", "503", "risk",
           "timeout", "other"}
Jsons == {"1005", "3007", "code", "notSSE", "message"}

\* client.Do returns with a response.
Answers ==
    /\ pc = "asked" /\ Stays /\ ~gone /\ guard = "armed"
    /\ \E what \in Errors \cup Jsons \cup {"redirect", "stream"} :
        /\ what \in {"captcha", "3007"} => acc \in Jwt
        /\ answer' = what
    /\ pc' = "answered"
    /\ UNCHANGED <<acc, probe, probed, tried, avoid, n, b, guard, scope, reply, shared>>

\* Headers stops the timer, whether or not it has fired.
Headers ==
    /\ pc = "answered" /\ Stays
    /\ pc' = IF answer \in Errors THEN "error" ELSE IF answer \in Jsons THEN "json" ELSE answer
    /\ guard' = IF guard = "armed" THEN "stopped" ELSE guard
    /\ UNCHANGED <<acc, probe, probed, tried, avoid, n, b, answer, scope, reply, shared>>

Redirect == pc = "redirect" /\ Stays /\ Final("redirect") /\ Unmarked

----------------------------------------------------------------------------
(* handleUpstreamError *)

\* The body cannot be read: the upstream broke, or the context has ended.
ErrorUnread ==
    /\ pc = "error" /\ Stays
    /\ IF gone THEN Final("canceled") /\ Unmarked
       ELSE Switch(None) /\ Marked("cooling")

ErrorIs(kind) == pc = "error" /\ Stays /\ answer = kind

CaptchaRejected ==
    LET c == b.captcha + 1
    IN  /\ IF c < MaxCaptcha THEN Retry([b EXCEPT !.captcha = c]) ELSE Final("captcha_required")
        /\ Unmarked

Captcha == ErrorIs("captcha") /\ CaptchaRejected

Auth == ErrorIs("auth") /\ Switch(None) /\ Marked("invalid")

\* 402, and the quota codes of 429.
NoQuota == (ErrorIs("paid") \/ ErrorIs("quota")) /\ Switch(None) /\ Marked("exhausted")

\* sleepCtx before a retry on the same account; the permit is kept.
Sleep(budget) ==
    /\ pc' = "sleeping" /\ b' = budget
    /\ UNCHANGED <<acc, probe, probed, tried, avoid, n, guard, answer, scope, reply>>

Busy ==
    /\ ErrorIs("busy") /\ Unmarked
    /\ IF BusySwitchAfter > 0 /\ b.busy >= BusySwitchAfter THEN Switch(None)
       ELSE IF b.busy < MaxBusy THEN Sleep([b EXCEPT !.busy = @ + 1])
       ELSE Final("passed_on")

Overload ==
    /\ ErrorIs("overload") /\ Unmarked
    /\ IF b.overload < MaxOverload THEN Sleep([b EXCEPT !.overload = @ + 1])
       ELSE Final("passed_on")

\* Mutant: a 429 retry is not booked.
RateUnbooked ==
    /\ ErrorIs("rate")
    /\ IF b.rate < MaxRate THEN Sleep(b) /\ Unmarked
       ELSE Switch(None) /\ Marked("cooling")

RateLimited ==
    /\ ErrorIs("rate")
    /\ IF b.rate < MaxRate THEN Sleep([b EXCEPT !.rate = @ + 1]) /\ Unmarked
       ELSE Switch(None) /\ Marked("cooling")

Unavailable == ErrorIs("503") /\ Switch(None) /\ Marked("cooling")

\* Verdict: lines that were clean before this answer count.
Judge(dirty) == IF dirty \/ Line[acc] = None THEN scope ELSE scope \cup {Line[acc]}

\* The replay guard keeps the allowances of a record it has.
Recorded == IF replay = "none" THEN "spare" ELSE replay

\* 405: the content is judged, or the line or the account is blamed.
Risk ==
    /\ ErrorIs("risk") /\ Held
    /\ probe' = FALSE /\ UNCHANGED <<probed, tried, n, b, cut, round, broke>>
    /\ \E dirty \in BOOLEAN, blame \in {"line", "cooling", "invalid"} :
        /\ scope' = Judge(dirty)
        /\ IF Cardinality(scope') >= RiskLines
           THEN /\ blame # "line" /\ mark' = [mark EXCEPT ![acc] = blame]
                /\ replay' = Recorded
                /\ pc' = "ended" /\ reply' = "passed_on" /\ UNCHANGED <<acc, avoid>>
           ELSE /\ blame = "line" => Line[acc] # None
                /\ mark' = IF blame = "line" THEN mark ELSE [mark EXCEPT ![acc] = blame]
                /\ avoid' = avoid \cup ({Line[acc]} \ {None})
                /\ pc' = "loop" /\ acc' = None /\ UNCHANGED <<replay, reply>>

\* 408 and 524: another line, a few times per request.
EdgeTimeout ==
    /\ ErrorIs("timeout") /\ Unmarked
    /\ IF n.timeouts < MaxTimeouts
       THEN SwitchAnd(Line[acc], [n EXCEPT !.timeouts = @ + 1])
       ELSE Final("passed_on")

OtherError == ErrorIs("other") /\ Final("passed_on") /\ Unmarked

\* sleepCtx returns.
Wake ==
    /\ pc = "sleeping" /\ Stays /\ Unmarked
    /\ IF gone THEN Final("canceled") ELSE Retry(b)

HandleUpstreamError ==
    \/ ErrorUnread \/ Captcha \/ Auth \/ NoQuota \/ Busy \/ Overload \/ RateLimited
    \/ Unavailable \/ Risk \/ EdgeTimeout \/ OtherError

----------------------------------------------------------------------------
(* 200: handleUpstreamJSON, deliverStream, finishDelivery *)

\* 200 with a body that breaks, is too large, or is an error.
JsonBad ==
    /\ pc = "json" /\ Stays
    /\ \/ Final("upstream_error") /\ Unmarked
       \/ answer = "1005" /\ Switch(None) /\ Marked("exhausted")
       \/ answer = "3007" /\ CaptchaRejected

\* finishDelivery without an error; a complete answer over a lease frees the model.
Complete(usage) ==
    /\ Final("whole")
    /\ mark' = IF probe /\ usage /\ ~gone THEN [mark EXCEPT ![acc] = "fine"] ELSE mark
    /\ UNCHANGED <<cut, replay, round, broke>>

\* Mutant: a line is remembered only when the client has seen something.
NotedShown(event) ==
    cut' = IF ~event /\ ~gone /\ reply = "part" THEN cut \cup ({Line[acc]} \ {None}) ELSE cut

\* Whatever ends a delivery while the context lives is noted against the line,
\* unless it was an error event.
Noted(event) ==
    cut' = IF ~event /\ ~gone THEN cut \cup ({Line[acc]} \ {None}) ELSE cut

\* finishDelivery with an error.
Broken(event, upstream) ==
    /\ Noted(event)
    /\ broke' = IF upstream /\ ~gone THEN broke \cup ({Line[acc]} \ {None}) ELSE broke
    /\ UNCHANGED <<mark, replay, round>>

\* The message is delivered, or a write to the client fails.
JsonMessage ==
    /\ pc = "json" /\ Stays /\ answer = "message"
    /\ \/ \E usage \in BOOLEAN : Complete(usage)
       \/ Final("cut") /\ Broken(FALSE, FALSE)

\* A content event, or the end of the prebuffering, commits the response.
StreamCommits ==
    /\ pc = "stream" /\ Stays /\ reply = "none"
    /\ reply' = "part" /\ UNCHANGED <<pc, request, shared>>

StreamCompletes == pc = "stream" /\ Stays /\ \E usage \in BOOLEAN : Complete(usage)

\* An error event is passed on; a write to the client fails, which may show
\* before the context ends.
StreamFails ==
    /\ pc = "stream" /\ Stays /\ Final("cut")
    /\ \E event \in BOOLEAN : Broken(event, FALSE)

\* Mutant: a broken stream is retried whatever the client has.
StreamBreaksRetried ==
    /\ pc = "stream" /\ Stays /\ Broken(FALSE, TRUE)
    /\ SwitchAnd(Line[acc], [n EXCEPT !.early = @ + 1])

\* The body breaks: the upstream, the client's context, or a timer that fired
\* after client.Do.  An attempt that has shown nothing is retried.
StreamBreaks ==
    /\ pc = "stream" /\ Stays /\ Broken(FALSE, TRUE)
    /\ IF reply = "none" THEN SwitchAnd(Line[acc], [n EXCEPT !.early = @ + 1])
       ELSE Final("cut")

Handle200 == JsonBad \/ JsonMessage \/ StreamCommits \/ StreamCompletes \/ StreamFails \/ StreamBreaks

----------------------------------------------------------------------------
(* The client, the clock, and the next request of the client *)

Leave == pc # "ended" /\ ~gone /\ gone' = TRUE /\ UNCHANGED <<pc, late, request, reply, shared>>

Deadline == pc # "ended" /\ ~late /\ late' = TRUE /\ UNCHANGED <<pc, gone, request, reply, shared>>

\* The records of this content expire.
Expire ==
    /\ pc = "ended" /\ \/ cut # {} /\ cut' = {} /\ broke' = {} /\ UNCHANGED replay
                       \/ replay # "none" /\ replay' = "none" /\ UNCHANGED <<cut, broke>>
    /\ UNCHANGED <<pc, gone, late, request, reply, mark, round>>

Again ==
    /\ pc = "ended" /\ round < MaxRounds /\ round' = round + 1
    /\ pc' = "idle" /\ gone' = FALSE /\ late' = FALSE /\ reply' = "none"
    /\ acc' = None /\ probe' = FALSE /\ probed' = FALSE /\ tried' = {} /\ avoid' = {}
    /\ n' = Clean /\ b' = NoBudget /\ guard' = "stopped" /\ answer' = "none"
    /\ scope' = {}
    /\ UNCHANGED <<mark, cut, replay, broke>>

Step ==
    \/ Arrive \/ DeadlineBefore \/ Select \/ SelectProbe \/ Exhausted
    \/ DeadlineInside \/ CaptchaFails \/ Prepare
    \/ BadCredential \/ NotDispatched \/ DeadlineReached \/ Send
    \/ DoFails \/ Answers \/ Headers \/ Redirect \/ Wake
    \/ HandleUpstreamError \/ Handle200

Next == Step \/ TimerFires \/ GateFires \/ Leave \/ Deadline \/ Expire \/ Again

Spec == Init /\ [][Next]_vars

----------------------------------------------------------------------------
(* Properties *)

Promise == INSTANCE OneReply WITH
    attempts <- Cardinality(tried),
    reply <- IF reply \in {"none", "part", "whole", "cut"} THEN reply ELSE "error"

\* The loop keeps the promise of OneReply: one reply per request, attempts one
\* after the other and none after the client has received a byte, at most
\* MaxAttempts of them (truncate.go, NothingDeliveredError: after the first byte
\* only an ending can be added).
KeepsPromise == Promise!Spec

\* A line that broke this content, in this request or in an earlier one the
\* client repeats, is used again only if every account left is on a line that
\* failed (truncateguard.go:1-8).
RetryAvoidsCut ==
    [][Select /\ Line[acc'] \in broke => \A a \in Untried : Line[a] \in avoid]_vars

\* The loop in tryAccount ends by one of its budgets, never by running out of
\* rounds: every retry is booked (engine.go:370-372, 684).
EveryRetryBooked == pc = "try" => b.rounds < Budget

\* "Only if every attempt was given up because the body could not be sent": the
\* client is told that the lines are too slow (engine.go:272, 333).
SlowMeansAllSlow == reply = "uplink_too_slow" => n.slow = Cardinality(tried)

\* A timer of ours that ends an attempt is not the account's fault: the account
\* does not cool for it (engine.go:577-579).
TimerNeverCools ==
    [][\A a \in Accounts : mark[a] = "fine" /\ mark'[a] = "cooling"
            => guard \notin {"fired", "slow"} \/ answer \in {"rate", "503", "risk"}]_vars

=============================================================================
