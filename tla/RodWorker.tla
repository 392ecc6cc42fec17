------------------------------- MODULE RodWorker -------------------------------
(***************************************************************************)
(* One browser worker (internal/captcha/solve.go: RodWorker.Solve, reload,    *)
(* loadSDKPage, classify).  All calls of a worker share one page and two       *)
(* variables of its window; a verification that was given up lives on in the   *)
(* page and may still answer.                                                  *)
(***************************************************************************)
EXTENDS Naturals

CONSTANTS MaxCalls, None

Calls == 1..MaxCalls

VARIABLES
    call,            \* calls of Solve so far: the number of the latest
    pc,              \* "idle", "open", "init" or "poll"
    dirty,           \* pageDirty
    outcome, error,  \* of the window: the verification that set it, or None
    alive,           \* verifications of the page that have not answered yet
    result           \* what the latest call returned: <<kind, verification>>

page == <<outcome, error, alive>>
vars == <<call, pc, dirty, page, result>>

Init ==
    /\ call = 0 /\ pc = "idle" /\ dirty = FALSE
    /\ outcome = None /\ error = None /\ alive = {} /\ result = <<"none", None>>

Solve ==
    /\ pc = "idle" /\ call < MaxCalls /\ call' = call + 1
    /\ pc' = "open" /\ result' = <<"none", None>> /\ UNCHANGED <<dirty, page>>

Return(kind, from) == pc' = "idle" /\ result' = <<kind, from>> /\ UNCHANGED call

\* A new page forgets the verifications of the old one.
Reload ==
    /\ pc = "open" /\ dirty
    /\ pc' = "init" /\ dirty' = FALSE /\ outcome' = None /\ error' = None /\ alive' = {}
    /\ UNCHANGED <<call, result>>

\* The old page is closed before the new one fails to load.
ReloadFails ==
    /\ pc = "open" /\ dirty /\ Return("failed", None)
    /\ outcome' = None /\ error' = None /\ alive' = {} /\ UNCHANGED dirty

Clean == pc = "open" /\ ~dirty /\ pc' = "init" /\ UNCHANGED <<call, dirty, page, result>>

\* The script clears both variables and starts a verification.
Start ==
    /\ pc = "init" /\ pc' = "poll"
    /\ outcome' = None /\ error' = None /\ alive' = alive \cup {call}
    /\ UNCHANGED <<call, dirty, result>>

\* The script fails half way, or the context has ended; classify asks whether the
\* browser is still alive, and the pool replaces a dead worker.
StartFails ==
    /\ pc = "init" /\ dirty' = TRUE /\ Return("failed", None) /\ UNCHANGED page

\* The SDK calls back, once for every verification.
Callback ==
    \E c \in alive :
        /\ alive' = alive \ {c}
        /\ \/ outcome' = c /\ UNCHANGED error
           \/ error' = c /\ UNCHANGED outcome
        /\ UNCHANGED <<call, pc, dirty, result>>

\* Mutant: a page is reloaded only after an error of the SDK.
KeepsPage == UNCHANGED dirty

\* A call that is given up leaves its verification in the page.
GiveUp == dirty' = TRUE

PollError ==
    /\ pc = "poll" /\ error # None /\ dirty' = TRUE /\ Return("refused", error) /\ UNCHANGED page

PollOutcome ==
    /\ pc = "poll" /\ error = None /\ outcome # None
    /\ Return("solved", outcome) /\ UNCHANGED <<dirty, page>>

\* The time of the call is over, its context has ended, or the browser is gone.
PollEnds ==
    /\ pc = "poll" /\ Return("failed", None) /\ UNCHANGED page
    /\ GiveUp

Next ==
    \/ Solve \/ Reload \/ ReloadFails \/ Clean \/ Start \/ StartFails \/ Callback
    \/ PollError \/ PollOutcome \/ PollEnds

Spec == Init /\ [][Next]_vars

\* What a call returns is the answer of its own verification, never the late one
\* of a call that timed out or was cancelled before.
OwnAnswer == result[1] \in {"solved", "refused"} => result[2] = call

=============================================================================
