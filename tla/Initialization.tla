--------------------------- MODULE Initialization ---------------------------
(* The initialization of one new account (internal/initialization/manager.go,   *)
(* internal/store/initialization*.go, internal/claim/initialization.go).       *)
(*                                                                             *)
(* A persistent task takes the account over the candidate lines, one attempt    *)
(* at a time, until the upstream shows usable quota; then the account is bound  *)
(* to its default line and serves.  The claim is a POST with an effect, so the  *)
(* intention is written before it is sent and a restart may only look, never    *)
(* post again.  While an attempt is out the administrator may pause, retry,     *)
(* bind, disable the account or change its credentials, and the lines may be    *)
(* edited, switched or removed.                                                *)
EXTENDS Naturals, FiniteSets

CONSTANTS
    Lines, Default,     \* the proxy lines, and the line of the business traffic
    Users, Owner,       \* upstream identities a credential can belong to, and the first
    MaxAttempts,        \* policy: candidates of a round
    MaxEdits,           \* bound: actions of administrators, and changes of lines
    MaxFaults,          \* bound: crashes and refused transactions
    MaxPosts            \* bound: POSTs counted per user

Nothing == "none"
Candidates == Lines \ {Default}

VARIABLES
    task,       \* the persisted task
    acct,       \* the account: [user, cred, line, route, enabled]
    lines,      \* per line: [gen, up]
    auto,       \* the policy is enabled and automatic claims are on
    running,    \* initializationRuns, in memory only
    mgr,        \* the step the manager is in and the attempt it holds
    quota,      \* upstream: what a quota query of the user finds
    posts,      \* upstream history: claim POSTs that may have taken effect
    edits, faults

vars == <<task, acct, lines, auto, running, mgr, quota, posts, edits, faults>>

NoAttempt == [at |-> "idle", run |-> 0, user |-> Nothing, cred |-> 0, line |-> Nothing,
              gen |-> 0, route |-> 0, verify |-> FALSE, seen |-> Nothing, out |-> Nothing, left |-> 0]

Init ==
    /\ task = [state |-> "queued", managed |-> TRUE, paused |-> FALSE, granted |-> FALSE,
               uncertain |-> FALSE, run |-> 0, tried |-> {}, cands |-> {}, line |-> Nothing,
               gen |-> 0, route |-> 0, cred |-> 1, deadline |-> "unset"]
    /\ acct = [user |-> Owner, cred |-> 1, line |-> Nothing, route |-> 0, enabled |-> TRUE]
    /\ lines = [l \in Lines |-> [gen |-> 1, up |-> TRUE]]
    /\ auto = TRUE /\ running = 0 /\ mgr = NoAttempt
    /\ quota \in [Users -> {"missing", "allocated"}]
    /\ posts = [u \in Users |-> 0]
    /\ edits = 0 /\ faults = 0

Works == UNCHANGED faults
Fault == faults < MaxFaults /\ faults' = faults + 1
Edit == edits < MaxEdits /\ edits' = edits + 1

--------------------------------------------------------------------------
(* Claiming the work: BeginInitialization.                                     *)

\* proxyBindingAvailableLocked
Available(l) == l \in Lines /\ lines[l].up

Wait(state) == [task EXCEPT !.state = state, !.run = 0]

\* Mutant: only the state tells whether a POST may be out.
ResumeByState == task.state \in {"attempting", "verifying"}
Resume == task.uncertain \/ task.state \in {"attempting", "verifying"}

SameRoute ==
    /\ acct.line = task.line /\ Available(task.line)
    /\ lines[task.line].gen = task.gen /\ acct.route = task.route

\* initializationCandidatesLocked, kept for the round.
RoundCandidates ==
    IF task.cands # {} THEN {task.cands}
    ELSE LET ok == {l \in Candidates : lines[l].up}
         IN  {{<<l, lines[l].gen>> : l \in s} :
                s \in {s \in SUBSET ok : Cardinality(s) = IF Cardinality(ok) < MaxAttempts THEN Cardinality(ok) ELSE MaxAttempts}}

\* Whoever rebinds an account also moves the generation of its route.
Bound(l) == [acct EXCEPT !.line = l, !.route = IF l = acct.line THEN @ ELSE @ + 1]

Token(t, a, verify) ==
    [NoAttempt EXCEPT !.at = "first", !.run = t.run, !.user = a.user, !.cred = a.cred, !.line = a.line,
                      !.gen = t.gen, !.route = a.route, !.verify = verify]

Begun(t, a, verify) ==
    \/ /\ Works
       /\ task' = t /\ acct' = a /\ running' = t.run /\ mgr' = Token(t, a, verify)
    \/ Fault /\ UNCHANGED <<task, acct, running, mgr>>

Refused(state) ==
    /\ task' = Wait(state) /\ task' # task
    /\ UNCHANGED <<acct, running, mgr, faults>>

\* One manager holds one attempt: a run has only to be told from no run.
NextRun(t) == [t EXCEPT !.run = 1]

BeginResumes ==
    IF SameRoute
    THEN Begun(NextRun([task EXCEPT !.state = "verifying"]), acct, TRUE)
    ELSE Refused("waiting")

BeginPicks ==
    \E cands \in RoundCandidates :
        LET open == {l \in Candidates \ task.tried : <<l, lines[l].gen>> \in cands /\ lines[l].up}
        IN  IF cands = {} THEN Refused("starved")
            ELSE IF open = {} \/ Cardinality(task.tried) >= MaxAttempts THEN Refused("waiting")
            ELSE \E l \in open :
                    Begun(NextRun([task EXCEPT !.state = "attempting", !.cands = cands, !.tried = @ \cup {l},
                                               !.line = l, !.gen = lines[l].gen, !.route = Bound(l).route,
                                               !.deadline = IF @ = "unset" THEN "set" ELSE @]),
                          Bound(l), FALSE)

Begin ==
    /\ mgr.at = "idle" /\ running = 0
    /\ task.managed /\ ~task.paused /\ ~task.granted /\ auto /\ acct.enabled
    /\ task.state # "waiting"
    /\ IF acct.cred # task.cred \/ task.deadline = "passed" THEN Refused("waiting")
       ELSE IF Resume THEN BeginResumes
       ELSE BeginPicks
    /\ UNCHANGED <<lines, auto, quota, posts, edits>>

--------------------------------------------------------------------------
(* One attempt: Manager.Step.                                                  *)

\* initializationAttemptCurrentLocked; the permit of every request asks it too.
\* Mutant: the run in memory is enough.
CurrentInMemory ==
    /\ task.managed /\ ~task.paused
    /\ running = mgr.run /\ acct.enabled /\ Available(mgr.line)
Current ==
    /\ task.managed /\ ~task.paused
    /\ task.run # 0 /\ task.run = mgr.run /\ running = task.run
    /\ acct.cred = mgr.cred /\ acct.enabled
    /\ Available(mgr.line) /\ lines[mgr.line].gen = mgr.gen
    /\ acct.line = mgr.line /\ acct.route = mgr.route

\* AcquireInitializationDispatch
MaySend == auto /\ Current

\* The step returns and gives its run back.
\* Mutant: the run is not given back.
ReturnsHolding == mgr' = NoAttempt /\ UNCHANGED running
Returns == mgr' = NoAttempt /\ running' = IF running = mgr.run THEN 0 ELSE running

Goto(at) == mgr' = [mgr EXCEPT !.at = at] /\ UNCHANGED running

\* What a query of the quota can find; "pending" is granted and not yet visible.
Finds == {IF quota[mgr.user] = "pending" THEN "missing" ELSE quota[mgr.user], "unknown"}

Query ==
    /\ mgr.at \in {"first", "check"}
    /\ \E kind \in IF MaySend THEN Finds ELSE {"unknown"} :
           mgr' = [mgr EXCEPT !.at = IF @ = "first" THEN "seen" ELSE "checked", !.seen = kind]
    /\ UNCHANGED <<task, acct, lines, auto, running, quota, posts, edits, faults>>

\* ObserveInitialization commits what was found, or nothing.
Observed ==
    IF mgr.seen = "available"
    THEN task' = [task EXCEPT !.granted = TRUE, !.uncertain = FALSE, !.state = "awaiting"]
    ELSE UNCHANGED task

\* EndInitialization
EndedTask(historical, retry) ==
    IF historical /\ ~task.uncertain
    THEN [task EXCEPT !.run = 0, !.state = "skipped", !.managed = FALSE]
    ELSE [task EXCEPT !.run = 0,
             !.state = IF task.granted THEN "awaiting" ELSE IF retry /\ ~task.uncertain THEN "queued" ELSE "waiting"]

Ended(historical, retry) ==
    \/ Current /\ Works /\ task' = EndedTask(historical, retry)
    \/ Current /\ Fault /\ UNCHANGED task
    \/ ~Current /\ Works /\ UNCHANGED task

FirstSeen ==
    /\ mgr.at = "seen"
    /\ IF ~Current THEN Returns /\ Works /\ UNCHANGED task
       ELSE IF mgr.seen = "available" THEN
            \/ Works /\ Observed /\ Goto("bind")
            \/ Fault /\ UNCHANGED task /\ Returns
       ELSE IF mgr.verify THEN Ended(FALSE, FALSE) /\ Returns
       ELSE IF mgr.seen = "allocated" THEN Ended(TRUE, FALSE) /\ Returns
       ELSE IF mgr.seen = "unknown" THEN \E retry \in BOOLEAN : Ended(FALSE, retry) /\ Returns
       ELSE Goto("preview") /\ Works /\ UNCHANGED task
    /\ UNCHANGED <<acct, lines, auto, quota, posts, edits>>

\* The activation events and the list of plans; no captcha means no POST.
Outcome(out) == mgr' = [mgr EXCEPT !.at = "save", !.out = out] /\ UNCHANGED running

Preview ==
    /\ mgr.at = "preview"
    /\ \/ \E out \in {"no_plans", "unreachable", "failed", "captcha"} : Outcome(out)
       \/ MaySend /\ Goto("record")
    /\ UNCHANGED <<task, acct, lines, auto, quota, posts, edits, faults>>

\* RecordInitializationClaim: the intention is durable before the POST is sent.
Record ==
    /\ mgr.at = "record"
    /\ \/ /\ Current /\ Works
          /\ task' = [task EXCEPT !.uncertain = TRUE, !.state = "verifying"]
          /\ Goto("post")
       \/ ~Current /\ Works /\ UNCHANGED task /\ Outcome("failed")
       \/ Fault /\ UNCHANGED task /\ Outcome("failed")
    /\ UNCHANGED <<acct, lines, auto, quota, posts, edits>>

\* The POST: a refusal, also of the captcha, had no effect; a lost or strange
\* answer may have had one.
Effective ==
    /\ posts' = [posts EXCEPT ![mgr.user] = IF @ < MaxPosts THEN @ + 1 ELSE @]
    /\ quota' = [quota EXCEPT ![mgr.user] = IF @ = "missing" THEN "pending" ELSE @]

Post ==
    /\ mgr.at = "post"
    /\ \/ MaySend /\ Effective /\ \E out \in {"success", "failed", "unreachable"} : Outcome(out)
       \/ /\ MaySend /\ UNCHANGED <<posts, quota>>
          /\ \E out \in {"refused", "unreachable"} : Outcome(out)
       \/ /\ MaySend /\ UNCHANGED <<posts, quota>>
          /\ \/ mgr.out = Nothing /\ mgr' = [mgr EXCEPT !.at = "record", !.out = "captcha"] /\ UNCHANGED running
             \/ mgr.out = "captcha" /\ Outcome("captcha")
       \/ ~MaySend /\ UNCHANGED <<posts, quota>> /\ Outcome("failed")
    /\ UNCHANGED <<task, acct, lines, auto, edits, faults>>

\* SaveInitializationClaim touches the claim record of the account alone.
Save ==
    /\ mgr.at = "save"
    /\ \/ /\ Current \/ mgr.out = "no_plans"
          /\ mgr' = [mgr EXCEPT !.at = "check", !.left = IF mgr.out = "success" THEN 3 ELSE 1]
          /\ Works /\ UNCHANGED running
       \/ ~Current /\ mgr.out # "no_plans" /\ Works /\ Returns
       \/ mgr.out # "no_plans" /\ Fault /\ Returns
    /\ UNCHANGED <<task, acct, lines, auto, quota, posts, edits>>

Retries == mgr.out = "unreachable" \/ (mgr.out = "no_plans" /\ mgr.seen = "missing")

Checked ==
    /\ mgr.at = "checked"
    /\ IF ~Current THEN Returns /\ Works /\ UNCHANGED task
       ELSE IF mgr.seen = "available" THEN
            \/ Works /\ Observed /\ Goto("bind")
            \/ Fault /\ UNCHANGED task /\ Returns
       ELSE IF mgr.left > 1 THEN
            mgr' = [mgr EXCEPT !.at = "check", !.left = @ - 1] /\ Works /\ UNCHANGED <<task, running>>
       ELSE Ended(FALSE, Retries) /\ Returns
    /\ UNCHANGED <<acct, lines, auto, quota, posts, edits>>

\* The attempt's timeout, the deadline of its round, the end of the process's
\* context, or a panic the step recovers from.
Abort ==
    /\ mgr.at \notin {"idle", "bind"}
    /\ Returns
    /\ UNCHANGED <<task, acct, lines, auto, quota, posts, edits, faults>>

DeadlinePasses ==
    /\ task.deadline = "set"
    /\ task' = [task EXCEPT !.deadline = "passed"]
    /\ UNCHANGED <<acct, lines, auto, running, mgr, quota, posts, edits, faults>>

--------------------------------------------------------------------------
(* The default line: BindInitialization, by the manager or by an administrator. *)

Bindable(manual) ==
    /\ task.managed /\ task.granted
    /\ ~task.paused \/ manual
    /\ auto \/ manual
    /\ acct.enabled /\ acct.cred = task.cred
    /\ Available(Default)

Completed ==
    /\ task' = [task EXCEPT !.state = "completed", !.run = 0, !.paused = FALSE]
    /\ acct' = Bound(Default)

Bind ==
    /\ mgr.at = "bind" \/ (mgr.at = "idle" /\ task.granted /\ task.state = "awaiting" /\ ~task.paused)
    /\ \/ Bindable(FALSE) /\ Works /\ Completed
       \/ Bindable(FALSE) /\ Fault /\ UNCHANGED <<task, acct>>
       \/ ~Bindable(FALSE) /\ mgr.at = "bind" /\ Works /\ UNCHANGED <<task, acct>>
    /\ Returns
    /\ UNCHANGED <<lines, auto, quota, posts, edits>>

AdminBinds ==
    /\ Edit /\ Bindable(TRUE) /\ Completed
    /\ UNCHANGED <<lines, auto, running, mgr, quota, posts, faults>>

--------------------------------------------------------------------------
(* The administrator: ChangeInitialization, updateManagedAccountLocked.        *)

Admin(t) == Edit /\ task' = t /\ UNCHANGED <<lines, running, mgr, quota, posts, faults>>

Pause ==
    /\ task.managed /\ task.state # "completed" /\ ~task.paused
    /\ Admin([task EXCEPT !.paused = TRUE, !.run = 0])
    /\ UNCHANGED <<acct, auto>>

Retry ==
    /\ task.managed /\ ~task.granted /\ acct.enabled
    /\ Admin([task EXCEPT !.cred = acct.cred, !.paused = FALSE, !.state = "queued", !.run = 0,
                          !.deadline = "unset",
                          !.cands = IF task.uncertain THEN @ ELSE {},
                          !.tried = IF task.uncertain THEN @ ELSE {}])
    /\ UNCHANGED <<acct, auto>>

\* New credentials: of the user the account has now, or of another one.
EditSecret(u) ==
    LET same == task.granted /\ u = acct.user
    IN  /\ task.managed
        /\ Admin(IF same THEN [task EXCEPT !.cred = acct.cred + 1, !.run = 0]
                 ELSE [task EXCEPT !.state = "waiting", !.paused = TRUE, !.run = 0])
        /\ acct' = [acct EXCEPT !.user = u, !.cred = @ + 1]
        /\ UNCHANGED auto

SetEnabled(on) ==
    /\ task.managed /\ acct.enabled # on
    /\ acct.cred = task.cred
    /\ Admin(IF on THEN [task EXCEPT !.run = 0]
             ELSE [task EXCEPT !.paused = TRUE, !.run = 0, !.state = IF task.granted THEN @ ELSE "waiting"])
    /\ acct' = [acct EXCEPT !.enabled = on]
    /\ UNCHANGED auto

Override ==
    /\ task.managed
    /\ Admin([task EXCEPT !.managed = FALSE, !.state = "cancelled", !.run = 0])
    /\ acct' = Bound(Nothing)
    /\ UNCHANGED auto

Policy ==
    /\ auto' = ~auto
    /\ Admin(task)
    /\ UNCHANGED acct

--------------------------------------------------------------------------
(* The lines: a configuration change carries the tasks it concerns along        *)
(* (initializationProxyMutationsLocked).                                       *)

Mutation(ls, a) ==
    LET ready == a.line = Default /\ ls[Default].up
        moved == task.line # Nothing /\ (a.route # task.route \/ ls[task.line].gen # task.gen \/ a.line # task.line)
    IN  IF ~task.managed THEN task
        ELSE IF task.granted /\ ~ready THEN [task EXCEPT !.state = "awaiting", !.run = 0]
        ELSE IF task.granted /\ task.state = "awaiting" /\ ~task.paused
             THEN [task EXCEPT !.state = "completed", !.run = 0]
        ELSE IF ~task.granted /\ moved
             THEN [task EXCEPT !.run = 0, !.state = IF task.uncertain THEN "waiting" ELSE "queued"]
        ELSE task

Reconfigured(ls, a) ==
    /\ Edit
    /\ lines' = ls /\ acct' = a /\ task' = Mutation(ls, a)
    /\ UNCHANGED <<auto, running, mgr, quota, posts, faults>>

Switch(l) == Reconfigured([lines EXCEPT ![l] = [gen |-> @.gen + 1, up |-> ~@.up]], acct)

\* A new address: the accounts on the line follow it.
Readdress(l) ==
    Reconfigured([lines EXCEPT ![l].gen = @ + 1],
                 IF acct.line = l THEN [acct EXCEPT !.route = @ + 1] ELSE acct)

\* A line that is retired leaves a managed account without one.
Retire(l) ==
    /\ lines[l].up
    /\ Reconfigured([lines EXCEPT ![l] = [gen |-> @.gen + 1, up |-> FALSE]],
                    IF acct.line = l THEN Bound(Nothing) ELSE acct)

--------------------------------------------------------------------------

Crash ==
    /\ Fault
    /\ running' = 0 /\ mgr' = NoAttempt
    /\ UNCHANGED <<task, acct, lines, auto, quota, posts, edits>>

\* Upstream: a granted quota becomes visible.
Arrives ==
    /\ \E u \in Users : quota[u] = "pending" /\ quota' = [quota EXCEPT ![u] = "available"]
    /\ UNCHANGED <<task, acct, lines, auto, running, mgr, posts, edits, faults>>

Step == Query \/ FirstSeen \/ Preview \/ Record \/ Post \/ Save \/ Checked \/ Bind

Next ==
    \/ Begin \/ Step \/ Abort \/ DeadlinePasses
    \/ AdminBinds \/ Pause \/ Retry \/ Override \/ Policy
    \/ \E u \in Users : EditSecret(u)
    \/ \E on \in BOOLEAN : SetEnabled(on)
    \/ \E l \in Lines : Switch(l) \/ Readdress(l) \/ Retire(l)
    \/ Crash \/ Arrives

Spec == Init /\ [][Next]_vars

\* The loop of the manager visits the queue every second, and time passes.
FairSpec == Spec /\ WF_vars(Begin) /\ WF_vars(Step) /\ WF_vars(DeadlinePasses)

--------------------------------------------------------------------------

(* However the process, the transactions, the lines and the administrator      *)
(* interfere, at most one claim POST that may have taken effect is sent for a   *)
(* user: an interrupted or doubtful claim is looked at, never repeated          *)
(* (RecordInitializationClaim, BeginInitialization).                           *)
PostOnce == \A u \in Users : posts[u] <= 1

(* A grant is booked only when the upstream has quota for the user whose        *)
(* credentials the account has at that moment: the late answer of an attempt    *)
(* that lost its line, its credentials or its run books nothing                 *)
(* (initializationAttemptCurrentLocked).                                       *)
GrantIsReal ==
    [][~task.granted /\ task'.granted => quota[acct'.user] = "available"]_vars

(* An attempt is always decided: the task leaves "attempting" and "verifying"   *)
(* although the process may die in between, unless automatic claims are switched *)
(* off or the task has no deadline: a doubtful task that the administrator       *)
(* retries is resumed without one (InitializationQueue, ReleaseInitialization). *)
Undecided == task.managed /\ ~task.paused /\ task.state \in {"attempting", "verifying"}
AttemptsDecided == Undecided ~> (~Undecided \/ ~auto \/ task.deadline = "unset")

(* An account that is free for business traffic has quota upstream: nothing is  *)
(* bound to the default line before its quota was confirmed.                    *)
ServesOnlyGranted ==
    task.managed /\ task.state = "completed" /\ acct.line = Default /\ Available(Default)
        => quota[acct.user] = "available"
=============================================================================
