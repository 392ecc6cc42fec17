------------------------------ MODULE AsyncTicket ------------------------------
(***************************************************************************)
(* How one asynchronous ticket is worked off (internal/asyncpool/pool.go,   *)
(* processTicket down to forwardSSE): account after account, captcha after  *)
(* captcha, retry after retry, until one final event has been emitted or    *)
(* the ticket has gone away.                                                *)
(*                                                                         *)
(* The upstream may answer anything at any time.  Other requests change     *)
(* which accounts may be selected; the reader of the ticket may release it  *)
(* at any moment.  A blocked send is the business of AsyncPool: here an     *)
(* event is emitted in one step, or found to have no reader.                *)
(***************************************************************************)
EXTENDS Integers, FiniteSets, FiniteSetsExt

CONSTANTS
    Accounts,       \* accounts of the provider
    Jwt,            \* those of mode "jwt"
    Line,           \* the egress line each account is bound to
    Direct,         \* the line of an account without a proxy
    None,           \* no account
    MaxRetries,     \* config.AsyncMaxRetries
    MaxCaptcha,     \* gateway.MaxCaptchaRetries
    MaxTimeouts,    \* config.UpstreamTimeoutRetries
    MaxRate, MaxBusy, MaxOverload,   \* retries on the same account, each its own budget
    RiskLines       \* config.RiskRequestLevelLines

VARIABLES
    pc,         \* where the work stands
    reader,     \* "here", "released" (out of the table), "canceled" (context ended)
    phase,      \* what has been emitted (TicketProtocol)
    acc,        \* the selected account
    tried, avoid,   \* the two maps of processTicket
    n,          \* its counters and those of attemptUpstream
    hits,       \* RiskScope.lines
    stream,     \* the 200 answer being forwarded: a chunk was sent, usage is final
    usable,     \* accounts that Select may return
    recorded,   \* this ticket registered its content with the replay guard
    usage,      \* ghost: how often tokens were added to an account
    requests    \* ghost: requests sent upstream

envVars == <<reader, usable>>
ghosts == <<usage, requests>>
vars == <<pc, reader, phase, acc, tried, avoid, n, hits, stream, usable, recorded, ghosts>>

NoStream == [chunks |-> FALSE, final |-> FALSE]

Init ==
    /\ pc = "start" /\ reader = "here" /\ phase = "fresh"
    /\ acc = None /\ tried = {} /\ avoid = {}
    /\ n = [retries |-> 0, timeouts |-> 0, captcha |-> 0, rate |-> 0, busy |-> 0, overload |-> 0]
    /\ hits = {} /\ stream = NoStream
    /\ usable \in SUBSET Accounts
    /\ recorded = FALSE /\ usage = 0 /\ requests = 0

----------------------------------------------------------------------------
(* Emitting: lost when the ticket was released *)

Alive == reader = "here"

EmitError == phase' = IF Alive THEN "error" ELSE phase

\* emitError, and the work is over.
Fail ==
    /\ pc' = "ended" /\ EmitError
    /\ UNCHANGED <<envVars, acc, tried, avoid, n, stream>>

Quit ==
    /\ pc' = "ended"
    /\ UNCHANGED <<envVars, phase, acc, tried, avoid, n, hits, stream, recorded>>

----------------------------------------------------------------------------
(* processTicket, up to the upstream request *)

\* Claimed: the ticket was cancelled at once, its snapshot is invalid, the
\* replay guard blocks its content, or the work begins.
Begin ==
    /\ pc = "start"
    /\ \/ reader = "canceled" /\ Quit
       \/ Fail /\ UNCHANGED <<hits, recorded>>
       \/ /\ pc' = "top"
          /\ UNCHANGED <<envVars, phase, acc, tried, avoid, n, hits, stream, recorded>>
    /\ UNCHANGED ghosts

Top ==
    /\ pc = "top"
    /\ pc' = IF reader = "canceled" THEN "ended" ELSE "select"
    /\ UNCHANGED <<reader, phase, acc, tried, avoid, n, hits, stream, usable, recorded, ghosts>>

\* SelectAvoiding: avoided lines are left out unless nothing else is left.
Candidates ==
    LET fresh == usable \ tried
        clear == {a \in fresh : Line[a] = Direct \/ Line[a] \notin avoid}
    IN  IF clear # {} THEN clear ELSE fresh

\* Nobody is left.
SelectNone ==
    /\ pc = "select" /\ Candidates = {}
    /\ Fail /\ UNCHANGED <<hits, recorded, ghosts>>

\* An account that is not of mode jwt is put aside and the next one asked for;
\* a jwt account starts with fresh captcha attempts.
SelectAccount(a) ==
    /\ pc = "select" /\ a \in Candidates
    /\ tried' = tried \cup {a}
    /\ IF a \in Jwt
       THEN pc' = "captcha" /\ acc' = a /\ n' = [n EXCEPT !.captcha = 0]
       ELSE UNCHANGED <<pc, acc, n>>
    /\ UNCHANGED <<reader, phase, avoid, hits, stream, usable, recorded, ghosts>>

\* Mutant: captcha attempts are not counted.
NextCaptchaUncounted ==
    pc' = "captcha" /\ UNCHANGED <<envVars, phase, acc, tried, avoid, n, stream>>

\* A failed solve and a captcha the upstream rejected share one counter.
NextCaptcha ==
    IF n.captcha + 1 < MaxCaptcha
    THEN /\ pc' = "captcha" /\ n' = [n EXCEPT !.captcha = @ + 1]
         /\ UNCHANGED <<envVars, phase, acc, tried, avoid, stream>>
    ELSE Fail

CaptchaFailed ==
    /\ pc = "captcha"
    /\ NextCaptcha /\ UNCHANGED <<hits, recorded, ghosts>>

\* The request could not be built.
BuildFailed ==
    /\ pc = "captcha"
    /\ Fail /\ UNCHANGED <<hits, recorded, ghosts>>

\* Ready is announced once; a reader that has gone ends the work.
CaptchaSolved ==
    /\ pc = "captcha"
    /\ IF phase # "fresh" \/ Alive
       THEN /\ pc' = "attempt"
            /\ phase' = IF phase = "fresh" THEN "ready" ELSE phase
       ELSE pc' = "ended" /\ UNCHANGED phase
    /\ n' = [n EXCEPT !.rate = 0, !.busy = 0, !.overload = 0]
    /\ UNCHANGED <<reader, acc, tried, avoid, hits, stream, usable, recorded, ghosts>>

----------------------------------------------------------------------------
(* What became of one request: attemptUpstreamOnce, and what attemptUpstream *)
(* and processTicket do about it.                                            *)

\* What the four nested budgets allow.
Budget == (MaxRetries + 1) * MaxCaptcha * (1 + MaxRate + MaxBusy + MaxOverload)

Answer == pc = "attempt" /\ requests' = Min({requests + 1, Budget + 1}) /\ UNCHANGED usage

\* Another account is tried next; `lines` are avoided from now on.
SwitchAccount(lines) ==
    /\ pc' = "retry"
    /\ avoid' = avoid \cup lines
    /\ UNCHANGED <<envVars, phase, acc, tried, n, stream>>

Switched == SwitchAccount({}) /\ UNCHANGED <<hits, recorded>>

\* The account is marked: no request selects it for some time.
MarkAndSwitch(lines) ==
    /\ pc' = "retry"
    /\ avoid' = avoid \cup lines
    /\ usable' = usable \ {acc}
    /\ UNCHANGED <<reader, phase, acc, tried, n, stream>>

\* The route is not permitted: no request is sent.
RouteRefused ==
    /\ pc = "attempt"
    /\ Fail /\ UNCHANGED <<hits, recorded, ghosts>>

\* The line could not be used: connection failed, or its uplink is too slow.
LineTransport == Answer /\ SwitchAccount({Line[acc]}) /\ UNCHANGED <<hits, recorded>>

\* No first byte in time, or 408/524: the ticket has a budget of these.
LineTimeout ==
    /\ Answer /\ UNCHANGED <<hits, recorded>>
    /\ IF n.timeouts >= MaxTimeouts
       THEN /\ pc' = "ended" /\ EmitError /\ avoid' = avoid \cup {Line[acc]}
            /\ UNCHANGED <<envVars, acc, tried, n, stream>>
       ELSE /\ pc' = "retry" /\ avoid' = avoid \cup {Line[acc]}
            /\ n' = [n EXCEPT !.timeouts = @ + 1]
            /\ UNCHANGED <<envVars, phase, acc, tried, stream>>

CaptchaRejected == Answer /\ NextCaptcha /\ UNCHANGED <<hits, recorded>>

\* 401, 402, 403, 503, or a quota code: the account is marked.
AccountRefused == Answer /\ MarkAndSwitch({}) /\ UNCHANGED <<hits, recorded>>

RetryHere(counter) ==
    /\ n' = [n EXCEPT ![counter] = @ + 1]
    /\ UNCHANGED <<pc, envVars, phase, acc, tried, avoid, hits, stream, recorded>>

\* The model is busy, or the platform overloaded: the same account again after
\* a pause, until the budget of this kind is spent.
BusyOrOverloaded(counter, budget) ==
    /\ Answer
    /\ IF n[counter] >= budget THEN Fail /\ UNCHANGED <<hits, recorded>>
       ELSE RetryHere(counter)

\* A transient 429: the same account again, then it cools down.
RateLimited ==
    /\ Answer
    /\ IF n.rate >= MaxRate THEN MarkAndSwitch({}) /\ UNCHANGED <<hits, recorded>>
       ELSE RetryHere("rate")

\* The pause before such a retry ends with the ticket's context.
PauseCanceled ==
    /\ pc = "attempt" /\ reader = "canceled"
    /\ Quit /\ UNCHANGED ghosts

\* 405 by risk control.  RiskScope.Verdict counts the lines that were clean
\* before this answer: enough of them condemn the content, otherwise another
\* account on another line is tried and the account may cool down.
RiskControl(dirty, cools) ==
    LET lines == IF dirty THEN hits ELSE hits \cup {Line[acc]}
        proxied == {Line[acc]} \ {Direct}
    IN  /\ Answer
        /\ hits' = lines
        /\ IF Cardinality(lines) >= RiskLines
           THEN /\ pc' = "ended" /\ EmitError /\ recorded' = TRUE
                /\ usable' = usable \ {acc}
                /\ UNCHANGED <<reader, acc, tried, avoid, n, stream>>
           ELSE /\ UNCHANGED recorded
                /\ (proxied = {} => cools)
                /\ IF cools THEN MarkAndSwitch(proxied) ELSE SwitchAccount(proxied)

\* Any other status, and 200 with a JSON body that is an error.
OtherError == Answer /\ Fail /\ UNCHANGED <<hits, recorded>>

\* Reading the error body or the JSON body failed.
Unreadable == Answer /\ Switched

\* 200: forwardSSE.
StreamBegin ==
    /\ Answer
    /\ pc' = "stream" /\ stream' = NoStream
    /\ UNCHANGED <<envVars, phase, acc, tried, avoid, n, hits, recorded>>

----------------------------------------------------------------------------
(* forwardSSE *)

AddUsage(yes) == usage' = (IF yes THEN usage + 1 ELSE usage) /\ UNCHANGED requests

\* An event is forwarded; `final` says that it completes the usage.
Chunk(final) ==
    /\ pc = "stream" /\ Alive
    /\ phase' = "streaming"
    /\ stream' = [chunks |-> TRUE, final |-> stream.final \/ final]
    /\ UNCHANGED <<pc, envVars, acc, tried, avoid, n, hits, recorded, ghosts>>

\* ... but nobody reads it.
ConsumerGone(final) ==
    /\ pc = "stream" /\ ~Alive
    /\ Quit
    /\ AddUsage(stream.final \/ final)

\* Mutant: an interrupted stream is tried again although it was heard.
StreamBrokenRetried ==
    pc = "stream" /\ Switched /\ AddUsage(stream.final)

\* The stream breaks off, or carries an error event.
StreamBroken ==
    /\ pc = "stream"
    /\ IF stream.chunks THEN Fail /\ UNCHANGED <<hits, recorded>>
       ELSE IF reader = "canceled" THEN Quit ELSE Switched
    /\ AddUsage(stream.final)

\* Mutant: an empty stream counts as complete.
StreamDoneEmpty ==
    /\ pc = "stream" /\ pc' = "ended"
    /\ phase' = IF Alive THEN "done" ELSE phase
    /\ AddUsage(TRUE)
    /\ UNCHANGED <<envVars, acc, tried, avoid, n, hits, stream, recorded>>

\* The stream is complete: the usage is booked, the account marked as
\* successful, done is emitted.
StreamDone ==
    /\ pc = "stream" /\ stream.chunks
    /\ pc' = "ended"
    /\ phase' = IF Alive THEN "done" ELSE phase
    /\ AddUsage(TRUE)
    /\ UNCHANGED <<envVars, acc, tried, avoid, n, hits, stream, recorded>>

----------------------------------------------------------------------------
(* The bottom of the account loop *)

\* Mutant: the work gives up without a word.
RetriesExhaustedSilently ==
    pc = "retry" /\ n.retries >= MaxRetries /\ Quit /\ UNCHANGED ghosts

\* All accounts the ticket may try were tried.
RetriesExhausted ==
    /\ pc = "retry" /\ n.retries >= MaxRetries
    /\ Fail /\ UNCHANGED <<hits, recorded, ghosts>>

\* Backoff; it ends early when the context ends.
Backoff ==
    /\ pc = "retry" /\ n.retries < MaxRetries
    /\ n' = [n EXCEPT !.retries = @ + 1]
    /\ pc' = IF reader = "canceled" THEN "ended" ELSE "top"
    /\ UNCHANGED <<reader, phase, acc, tried, avoid, hits, stream, usable, recorded, ghosts>>

----------------------------------------------------------------------------
(* The environment *)

\* releaseTicket, in its two steps, or Close, in one.
ReaderLeaves(to) ==
    /\ reader # "canceled" /\ reader # to
    /\ reader' = to
    /\ UNCHANGED <<pc, phase, acc, tried, avoid, n, hits, stream, usable, recorded, ghosts>>

\* Another request, the quota poller or an operator changes an account.
AccountChanges(a) ==
    /\ usable' = IF a \in usable THEN usable \ {a} ELSE usable \cup {a}
    /\ UNCHANGED <<pc, reader, phase, acc, tried, avoid, n, hits, stream, recorded, ghosts>>

----------------------------------------------------------------------------

Request ==
    \/ RouteRefused \/ LineTransport \/ LineTimeout \/ CaptchaRejected
    \/ AccountRefused \/ RateLimited \/ PauseCanceled
    \/ BusyOrOverloaded("busy", MaxBusy) \/ BusyOrOverloaded("overload", MaxOverload)
    \/ \E dirty, cools \in BOOLEAN : RiskControl(dirty, cools)
    \/ OtherError \/ Unreadable \/ StreamBegin

Forward ==
    \/ \E final \in BOOLEAN : Chunk(final) \/ ConsumerGone(final)
    \/ StreamBroken \/ StreamDone

Retries ==
    \/ Begin \/ Top \/ SelectNone \/ \E a \in Accounts : SelectAccount(a)
    \/ CaptchaFailed \/ BuildFailed \/ CaptchaSolved
    \/ Request \/ RetriesExhausted \/ Backoff

Next ==
    \/ Retries \/ Forward
    \/ \E to \in {"released", "canceled"} : ReaderLeaves(to)
    \/ \E a \in Accounts : AccountChanges(a)

Spec == Init /\ [][Next]_vars

(***************************************************************************)
(* The goroutine runs: requests, pauses and solves end, for each has a      *)
(* deadline.  An upstream may stream for ever, but the context of its       *)
(* request is the ticket's: once that is cancelled, reading ends.           *)
(***************************************************************************)
FairSpec == Spec /\ WF_vars(Retries) /\ WF_vars(reader = "canceled" /\ Forward)

----------------------------------------------------------------------------
(* Properties *)

Counters == {"retries", "timeouts", "captcha", "rate", "busy", "overload"}

\* The shape of the state, with every counter within its budget.
TypeOK ==
    /\ pc \in {"start", "top", "select", "captcha", "attempt", "stream", "retry", "ended"}
    /\ reader \in {"here", "released", "canceled"}
    /\ phase \in {"fresh", "ready", "streaming", "done", "error"}
    /\ acc \in Jwt \cup {None} /\ tried \subseteq Accounts
    /\ DOMAIN n = Counters
    /\ n.retries \in 0..MaxRetries /\ n.timeouts \in 0..MaxTimeouts
    /\ n.captcha \in 0..(MaxCaptcha - 1)
    /\ n.rate \in 0..MaxRate /\ n.busy \in 0..MaxBusy /\ n.overload \in 0..MaxOverload
    /\ stream \in [chunks : BOOLEAN, final : BOOLEAN]
    /\ usable \subseteq Accounts /\ recorded \in BOOLEAN
    /\ usage \in Nat /\ requests \in Nat

\* While somebody reads the ticket, the work never ends without a final event:
\* no path of the retry loops falls silent.
VerdictDelivered == pc = "ended" /\ reader = "here" => phase \in {"done", "error"}

\* The tokens of a ticket are booked at most once, although an interrupted
\* stream books them too and an account may be replaced (pool.go:1349).
UsageOnce == usage <= 1

\* A ticket tries at most AsyncMaxRetries+1 accounts (pool.go:662-663), and its
\* four nested retry budgets never multiply beyond their product.
BoundedAmplification ==
    /\ Cardinality(tried \cap Jwt) <= MaxRetries + 1
    /\ requests <= Budget

\* Once a chunk was sent, or the content was condemned, no further request is
\* sent and no other account selected (pool.go:571, :1172-1176).
NoResend == [][stream.chunks \/ recorded => requests' = requests /\ acc' = acc]_vars

\* What is emitted is a run of the ticket protocol.
Emitted == INSTANCE TicketProtocol WITH Tickets <- {"ticket"}, phase <- [t \in {"ticket"} |-> phase]
EmittedProtocol == Emitted!Spec

\* The retries end, whatever the upstream answers: only an upstream that
\* streams for ever keeps the work busy.
RetriesEnd == pc # "ended" ~> pc \in {"stream", "ended"}

=============================================================================
