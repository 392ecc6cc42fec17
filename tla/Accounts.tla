------------------------------- MODULE Accounts -------------------------------
(***************************************************************************)
(* The state of one account (internal/model/account.go) and everybody who   *)
(* writes it: requests in flight on a snapshot of it (gateway/classify.go,  *)
(* gateway/engine.go, asyncpool), the quota poller (quota/quota.go), the    *)
(* recovery of exhausted models by real requests (store/quota_recovery.go), *)
(* the administrator (store/store.go) and restarts.                         *)
(*                                                                         *)
(* Every write happens in one critical section of the store, on the live    *)
(* account; what it writes was decided from a snapshot taken earlier.  No   *)
(* handler touches two accounts, so one account stands for all.             *)
(***************************************************************************)
EXTENDS Integers, Sequences, FiniteSets, SequencesExt, FiniteSetsExt

CONSTANTS
    Reqs,          \* requests in flight at the same time
    Models,
    Routes,        \* proxy bindings of the account
    None,
    RiskSteps,     \* RiskCoolingSteps: cooling per risk hit in a row
    CoolTerms,     \* terms of the other coolings (rateLimitCoolingSteps, CoolingSeconds)
    RetryDelays,   \* quotaRetryDelays; the last is APIKeyQuotaLongWait
    RiskSilent,    \* RiskSilentWindow; 0 turns it off
    Balances,      \* the quota snapshots a poll may bring: [Models -> Balance]
    MaxTime,       \* bound on the clock
    MaxGen         \* bound on the credentials the account has had

\* What a snapshot says of a model: no entry, an entry without a number, some
\* quota left, nothing left.
Balance == {"no", "unknown", "some", "nothing"}

ASSUME AccountsAssumption ==
    /\ None \notin Reqs \cup Models \cup Routes
    /\ RiskSteps \in Seq(Nat \ {0}) /\ CoolTerms \subseteq Nat \ {0}
    /\ \E longest \in CoolTerms : \A term \in CoolTerms : term <= longest
    /\ RetryDelays \in Seq(Nat) /\ RetryDelays # <<>>
    /\ RiskSilent \in Nat /\ Balances \subseteq [Models -> Balance]
    /\ MaxTime \in Nat /\ MaxGen \in Nat \ {0}

VARIABLES
    now,
    acc,       \* the live account
    flight,    \* the snapshot each request works on
    poll,      \* the snapshot of the quota query in flight
    recovery,  \* s.quotaRecovery of the account, per model
    lease,     \* s.quotaProbes, per model
    sentence,  \* ghost: made invalid by risk control, and not pardoned since
    spoiled    \* ghost: models whose lease was overtaken by a failure or a new credential

vars == <<now, acc, flight, poll, recovery, lease, sentence, spoiled>>

NoBalance == [m \in Models |-> "no"]

Init ==
    /\ now = 1
    /\ acc \in [mode : {"jwt", "apiKey"}, gen : {1}, route : Routes, enabled : {TRUE},
                archived : {FALSE}, status : {"active"}, until : {0}, kind : {"other"},
                errAt : {0}, lastRisk : {0}, streak : {0}, empty : {{}}, bal : {NoBalance}]
    /\ flight = [r \in Reqs |-> None]
    /\ poll = None
    /\ recovery = [m \in Models |-> None]
    /\ lease = [m \in Models |-> None]
    /\ sentence = FALSE /\ spoiled = {}

----------------------------------------------------------------------------
(* What the account allows *)

\* ModelAvailability
Availability(a, m) ==
    IF m \in a.empty \/ a.bal[m] = "nothing" THEN "exhausted"
    ELSE IF a.bal[m] = "some" THEN "available"
    ELSE IF a.bal[m] = "no" /\ a.bal # NoBalance THEN "absent"
    ELSE "unknown"

\* IsSelectable
Selectable(a) ==
    /\ ~a.archived /\ a.enabled
    /\ a.status \notin {"disabled", "invalid", "exhausted"}
    /\ a.status = "cooling" => a.until # 0 /\ a.until <= now

InSilentWindow(a) == RiskSilent # 0 /\ a.lastRisk # 0 /\ now < a.lastRisk + RiskSilent

\* IsModelSelectable, and the silent window of selectAccount.
ModelSelectable(a, m) ==
    Selectable(a) /\ ~InSilentWindow(a) /\ Availability(a, m) \in {"available", "unknown"}

\* Mutant: only the credential counts.
AcceptsStopped(snap) == acc.gen = snap.gen

\* AcceptsRequestResult; equal generations mean the same credential.
Accepts(snap) ==
    /\ acc.gen = snap.gen
    /\ acc.enabled /\ acc.status # "disabled" /\ ~acc.archived

Strong(a) == a.status \in {"invalid", "cooling", "disabled"}

\* IsRiskControlInvalid
RiskInvalid(a) == a.status = "invalid" /\ a.kind = "risk_control"

----------------------------------------------------------------------------
(* Requests *)

Dispatch(r, m) ==
    /\ flight[r] = None /\ ModelSelectable(acc, m)
    /\ flight' = [flight EXCEPT ![r] =
            [gen |-> acc.gen, route |-> acc.route, model |-> m, stage |-> "sent"]]
    /\ UNCHANGED <<now, acc, poll, recovery, lease, sentence, spoiled>>

Holds(r) == flight[r] # None /\ lease[flight[r].model] # None /\ lease[flight[r].model].req = r

\* A request with a lease still has to give it back.
Ends(r, stage) ==
    /\ flight[r] # None /\ flight[r].stage = "sent"
    /\ flight' = [flight EXCEPT ![r] = IF Holds(r) THEN [@ EXCEPT !.stage = stage] ELSE None]

\* UpdateForRequest: a result of an older credential, or for a stopped account,
\* is dropped.
Answered(r, result) ==
    /\ Ends(r, "failed")
    /\ acc' = IF Accepts(flight[r]) THEN result ELSE acc
    /\ UNCHANGED <<now, poll, recovery, lease, spoiled>>

\* The kind of the last error matters when it is "risk_control" or
\* "quota_exhausted"; every other kind, and none, is "other".
Stamped(a, kind) == [a EXCEPT !.kind = kind, !.errAt = 0]

Cooled(term) ==
    Stamped([acc EXCEPT !.status = "cooling", !.until = now + term], "other")

\* MarkRateLimited: a 429 that is no quota code.
RateLimited(r) ==
    \E term \in CoolTerms : Answered(r, Cooled(term)) /\ UNCHANGED sentence

\* MarkUpstreamUnavailable: 503.
Unavailable(r) ==
    \E term \in CoolTerms : Answered(r, Cooled(term)) /\ UNCHANGED sentence

\* MarkAccount(cooling): the connection failed, the error could not be read.
ConnectionFailed(r) == Answered(r, Cooled(Max(CoolTerms))) /\ UNCHANGED sentence

\* MarkAccount(invalid): 401, 403.
Refused(r) ==
    Answered(r, Stamped([acc EXCEPT !.status = "invalid"], "other")) /\ UNCHANGED sentence

\* RecordAccountError and bumpFail: the status stays.
Noted(r) == Answered(r, Stamped(acc, "other")) /\ UNCHANGED sentence

\* LastRiskControlAt is read for the silent window only.
RiskTime == IF RiskSilent = 0 THEN 0 ELSE now

\* ApplyRiskControl: each hit in a row cools longer; past the last step the
\* account is invalid.
RiskApplied(a) ==
    LET hits == Min({a.streak + 1, Len(RiskSteps) + 1})
        hit  == Stamped([a EXCEPT !.streak = hits, !.lastRisk = RiskTime], "risk_control")
    IN  IF hits > Len(RiskSteps) THEN [hit EXCEPT !.status = "invalid", !.until = 0]
        ELSE [hit EXCEPT !.status = "cooling", !.until = now + RiskSteps[hits]]

\* RotateAccountProxyAt: a new line, if the account still has the one of the snapshot.
Rotated(a, snap) ==
    {a} \cup (IF a.route = snap.route THEN {[a EXCEPT !.route = x] : x \in Routes} ELSE {})

\* MarkRiskControl: 405 with the words of risk control.
RiskHit(r) ==
    /\ flight[r] # None
    /\ \E a \in Rotated(RiskApplied(acc), flight[r]) : Answered(r, a)
    /\ sentence' = (sentence \/ (acc' # acc /\ acc'.status = "invalid"))

\* NoteRiskControlWithoutCooling: the 405 is put down to the line.
RiskNoted(r) ==
    /\ flight[r] # None
    /\ \E a \in Rotated(Stamped([acc EXCEPT !.lastRisk = RiskTime], "risk_control"), flight[r]) :
            Answered(r, a)
    /\ UNCHANGED sentence

\* Mutant: a late success ends any cooling.
RestoredAtOnce(a) ==
    IF a.status = "invalid" THEN a
    ELSE [a EXCEPT !.streak = 0,
                   !.status = IF @ \in {"cooling", "exhausted"} THEN "active" ELSE @]

\* MarkSuccess: nothing is restored before a cooling has run out.
Restored(a) ==
    IF a.status = "invalid" \/ (a.status = "cooling" /\ a.until > now) THEN a
    ELSE [a EXCEPT !.streak = 0,
                   !.status = IF @ \in {"cooling", "exhausted"} THEN "active" ELSE @]

\* The status line says 200; the stream may still break.
Success(r) ==
    /\ Ends(r, "ok")
    /\ acc' = IF Accepts(flight[r]) THEN Restored(acc) ELSE acc
    /\ UNCHANGED <<now, poll, recovery, lease, sentence, spoiled>>

----------------------------------------------------------------------------
(* Exhausted models *)

\* cloneQuotaRecoveryLocked: what is not exhausted any more is dropped.
Pruned(rec, a) ==
    [m \in Models |-> IF a.mode = "apiKey" /\ m \in a.empty THEN rec[m] ELSE None]

Delay(state) ==
    IF state.long THEN Last(RetryDelays) ELSE RetryDelays[state.step + 1]

\* The state of m for this credential; generations never start over.
Known(m) ==
    LET old == Pruned(recovery, acc)[m]
        generation == IF old = None THEN 0 ELSE old.generation
    IN  IF old # None /\ old.gen = acc.gen THEN old
        ELSE [gen |-> acc.gen, generation |-> generation, step |-> 0, next |-> 0, long |-> FALSE]

\* All entries of the snapshot are exhausted.
AllExhausted(a) ==
    a.bal # NoBalance /\ \A m \in Models : a.bal[m] # "no" => Availability(a, m) = "exhausted"

Emptied(a, m) ==
    LET b == Stamped([a EXCEPT !.empty = @ \cup {m}], "quota_exhausted")
    IN  IF Strong(b) THEN [b EXCEPT !.errAt = now]
        ELSE [b EXCEPT !.errAt = now, !.until = 0,
                       !.status = IF AllExhausted(b) THEN "exhausted" ELSE "active"]

\* Mutant: a failure during a probe leaves its generation alone.
NextFailureSame(m, long) ==
    LET known == [Known(m) EXCEPT !.long = long]
        generation == Max({known.generation, 1})
    IN  [known EXCEPT !.generation = generation, !.next = Max({@, now + Delay(known)})]

\* A failure is a new generation, later than any lease in flight, and waits.
NextFailure(m, long) ==
    LET known == [Known(m) EXCEPT !.long = long]
        inFlight == IF lease[m] = None THEN 0 ELSE lease[m].generation
    IN  [known EXCEPT !.generation = Max({@, inFlight}) + 1,
                      !.next = Max({@, now + Delay(known)})]

\* MarkQuotaExhausted: 402, quota codes of 429, 200 with 1005.  Also for a
\* stopped account, if the credential is the same.
Exhausted(r, long) ==
    LET m == flight[r].model
    IN  /\ Ends(r, "failed")
        /\ IF acc.gen # flight[r].gen THEN UNCHANGED <<acc, recovery, spoiled>>
           ELSE /\ acc' = Emptied(acc, m)
                /\ recovery' = [Pruned(recovery, acc) EXCEPT
                        ![m] = IF acc.mode = "apiKey" THEN NextFailure(m, long) ELSE None]
                /\ spoiled' = IF lease[m] # None THEN spoiled \cup {m} ELSE spoiled
        /\ UNCHANGED <<now, poll, lease, sentence>>

\* quotaProbeEligible
Eligible(m) ==
    /\ acc.mode = "apiKey" /\ ~acc.archived /\ acc.enabled
    /\ acc.status \notin {"invalid", "disabled"}
    /\ acc.until <= now
    /\ acc.status = "cooling" => acc.until # 0
    /\ m \in acc.empty

\* When the first wait of an account without a record began.
WaitBegan(m) ==
    IF recovery[m] = None /\ acc.kind = "quota_exhausted" /\ acc.errAt > 0 THEN acc.errAt ELSE now

Due(m) ==
    IF recovery[m] # None /\ recovery[m].gen = acc.gen THEN recovery[m]
    ELSE [Known(m) EXCEPT !.generation = @ + 1, !.next = WaitBegan(m) + RetryDelays[1]]

\* AcquireQuotaProbe: the record is persisted before the lease is given out.
AcquireProbe(r, m) ==
    /\ flight[r] = None /\ lease[m] = None /\ Eligible(m)
    /\ LET due == Due(m)
           step == Min({due.step + 1, Len(RetryDelays) - 1})
           taken == [due EXCEPT !.step = step, !.next = now + Delay([due EXCEPT !.step = step])]
       IN  IF now < due.next
           THEN /\ recovery[m] # due
                /\ recovery' = [Pruned(recovery, acc) EXCEPT ![m] = due]
                /\ UNCHANGED <<flight, lease, spoiled>>
           ELSE /\ recovery' = [Pruned(recovery, acc) EXCEPT ![m] = taken]
                /\ lease' = [lease EXCEPT ![m] =
                        [req |-> r, gen |-> acc.gen, route |-> acc.route,
                         generation |-> due.generation]]
                /\ flight' = [flight EXCEPT ![r] =
                        [gen |-> acc.gen, route |-> acc.route, model |-> m, stage |-> "sent"]]
                /\ spoiled' = spoiled \ {m}
    /\ UNCHANGED <<now, acc, poll, sentence>>

\* Nothing has overtaken the probe.
StillOwn(m) ==
    /\ acc.gen = lease[m].gen /\ acc.route = lease[m].route
    /\ recovery[m] # None /\ recovery[m].generation = lease[m].generation
    /\ Eligible(m)

\* Its old number is not known any more; other models keep theirs.
Refilled(a, m) ==
    [a EXCEPT !.empty = @ \ {m},
              !.bal = IF a.bal = NoBalance THEN @ ELSE [@ EXCEPT ![m] = "unknown"],
              !.status = IF @ \in {"exhausted", "cooling"} THEN "active" ELSE @,
              !.until = IF a.status \in {"exhausted", "cooling"} THEN 0 ELSE @]

\* FinishQuotaProbe; confirmed only after a complete delivery.
FinishProbe(r, confirmed) ==
    LET m == flight[r].model
    IN  /\ Holds(r) /\ flight[r].stage # "sent"
        /\ confirmed => flight[r].stage = "ok"
        /\ flight' = [flight EXCEPT ![r] = None]
        /\ lease' = [lease EXCEPT ![m] = None]
        /\ spoiled' = spoiled \ {m}
        /\ IF confirmed /\ StillOwn(m)
           THEN acc' = Refilled(acc, m) /\ recovery' = [Pruned(recovery, acc) EXCEPT ![m] = None]
           ELSE UNCHANGED <<acc, recovery>>
        /\ UNCHANGED <<now, poll, sentence>>

----------------------------------------------------------------------------
(* The quota poller *)

\* IsQuotaRefreshTarget; there is one query of an account at a time.
PollBegin ==
    /\ poll = None
    /\ acc.mode = "jwt" /\ ~acc.archived /\ acc.enabled /\ acc.status # "disabled"
    /\ poll' = [gen |-> acc.gen, route |-> acc.route]
    /\ UNCHANGED <<now, acc, flight, recovery, lease, sentence, spoiled>>

\* Mutant: the protection of a cooling forgets its end.
ProtectedNoEnd(result) ==
    LET served == acc.status = "cooling" /\ (acc.until = 0 \/ acc.until > now)
    IN  IF ~RiskInvalid(acc) /\ ~served THEN result
        ELSE IF ~RiskInvalid(acc) /\ result.status = "invalid" THEN result
        ELSE [result EXCEPT !.status = acc.status, !.kind = acc.kind, !.errAt = acc.errAt,
                            !.until = 0]

\* Service.apply keeps the status of a risk sentence and of a running cooling.
Protected(result) ==
    LET served == acc.status = "cooling" /\ (acc.until = 0 \/ acc.until > now)
    IN  IF ~RiskInvalid(acc) /\ ~served THEN result
        ELSE IF ~RiskInvalid(acc) /\ result.status = "invalid" THEN result
        ELSE [result EXCEPT !.status = acc.status, !.kind = acc.kind, !.errAt = acc.errAt,
                            !.until = acc.until]

Polled(result) ==
    /\ poll # None /\ poll' = None
    /\ acc' = IF Accepts(poll) /\ acc.route = poll.route THEN Protected(result) ELSE acc
    /\ UNCHANGED <<now, flight, recovery, lease, sentence, spoiled>>

PollRefused == Polled(Stamped([acc EXCEPT !.status = "invalid"], "other"))
PollFailed == Polled(Stamped(acc, "other"))

\* 405 for a repeated query: with a snapshot at hand, no error.
PollRepeated == Polled(Stamped(acc, "other"))

\* SyncExhaustedModels: the snapshot decides what is exhausted.
Synced(b) == {m \in Models : b[m] = "nothing"}

\* Every number of the snapshot is zero.
AllEmpty(b) == Synced(b) # {} /\ \A m \in Models : b[m] # "some"

\* handleBillingResponse: what a balance makes of the account.
Balanced(b) ==
    LET a == [acc EXCEPT !.bal = b, !.empty = Synced(b)]
    IN  IF b = NoBalance THEN [acc EXCEPT !.bal = b]
        ELSE IF AllEmpty(b) THEN [a EXCEPT !.status = "exhausted"]
        ELSE IF a.status \in {"exhausted", "invalid"} \/ (a.status = "cooling" /\ a.until <= now)
        THEN [a EXCEPT !.status = "active", !.until = 0]
        ELSE a

PollBalance == \E b \in Balances : Polled(Balanced(b))

\* The caller gave up, or the service closes: nothing is written.
PollCanceled ==
    /\ poll # None /\ poll' = None
    /\ UNCHANGED <<now, acc, flight, recovery, lease, sentence, spoiled>>

----------------------------------------------------------------------------
(* The administrator *)

\* applyEnabled
Enabled(a, on) ==
    IF ~on THEN [a EXCEPT !.enabled = FALSE, !.status = IF @ = "invalid" THEN @ ELSE "disabled"]
    ELSE [a EXCEPT !.enabled = TRUE,
                   !.status = IF @ # "disabled" THEN @
                              ELSE IF a.until > now THEN "cooling" ELSE "active"]

Admin(a) == acc' = a /\ UNCHANGED <<now, flight, poll, recovery, lease>>

SetEnabled(on) == Admin(Enabled(acc, on)) /\ acc' # acc /\ UNCHANGED <<sentence, spoiled>>

SetArchived(on) ==
    /\ Admin(IF on THEN [Enabled(acc, FALSE) EXCEPT !.archived = TRUE]
             ELSE [acc EXCEPT !.archived = FALSE])
    /\ acc' # acc /\ UNCHANGED <<sentence, spoiled>>

\* EditAccount with a secret, RenewJWT: a new credential is a new identity.
EditAccount(mode) ==
    /\ acc.gen < MaxGen
    /\ Admin([Stamped(acc, "other") EXCEPT !.mode = mode, !.gen = @ + 1, !.status = "active",
                                          !.streak = 0, !.lastRisk = 0])
    /\ sentence' = FALSE
    /\ spoiled' = {m \in Models : lease[m] # None}

\* SetProxyURL, AssignProxyProfile: the account leaves by another line.
SetProxy(x) ==
    /\ x # acc.route /\ Admin([acc EXCEPT !.route = x])
    /\ UNCHANGED <<sentence, spoiled>>

\* applyRecovered: within the silent window, into a cooling.
Recovered(a) ==
    LET b == Stamped([a EXCEPT !.status = "active", !.until = 0, !.streak = 0], "other")
    IN  IF ~InSilentWindow(a) THEN b
        ELSE Stamped([b EXCEPT !.status = "cooling", !.until = a.lastRisk + RiskSilent],
                     "risk_control")

\* RecoverAccount takes only what risk control has made invalid.
RecoverAccount ==
    /\ ~acc.archived /\ RiskInvalid(acc)
    /\ Admin(Recovered(acc))
    /\ sentence' = FALSE /\ UNCHANGED spoiled

----------------------------------------------------------------------------

\* Requests, queries, leases and streaks are gone; the rest was saved.
Restart ==
    /\ acc' = [acc EXCEPT !.streak = 0]
    /\ flight' = [r \in Reqs |-> None] /\ poll' = None
    /\ lease' = [m \in Models |-> None] /\ spoiled' = {}
    /\ UNCHANGED <<now, recovery, sentence>>

Tick ==
    /\ now < MaxTime /\ now' = now + 1
    /\ UNCHANGED <<acc, flight, poll, recovery, lease, sentence, spoiled>>

Request(r) ==
    \/ \E m \in Models : Dispatch(r, m) \/ AcquireProbe(r, m)
    \/ RateLimited(r) \/ Unavailable(r) \/ ConnectionFailed(r) \/ Refused(r) \/ Noted(r)
    \/ RiskHit(r) \/ RiskNoted(r) \/ Success(r)
    \/ \E long \in BOOLEAN : Exhausted(r, long)
    \/ \E confirmed \in BOOLEAN : FinishProbe(r, confirmed)

Poller == PollBegin \/ PollRefused \/ PollFailed \/ PollRepeated \/ PollBalance \/ PollCanceled

Administrator ==
    \/ \E on \in BOOLEAN : SetEnabled(on) \/ SetArchived(on)
    \/ \E mode \in {"jwt", "apiKey"} : EditAccount(mode)
    \/ \E x \in Routes : SetProxy(x)
    \/ RecoverAccount

Next == (\E r \in Reqs : Request(r)) \/ Poller \/ Administrator \/ Restart \/ Tick

Spec == Init /\ [][Next]_vars

----------------------------------------------------------------------------
(* Properties *)

\* A cooling has an end: the account is never parked without a way back into
\* rotation, whoever writes its status, its deadline and its protection.
CoolingEnds == acc.status = "cooling" => acc.until # 0

\* While a cooling runs, only a new credential makes the account selectable: no
\* late success, quota snapshot, quota recovery, restart, nor switching it off
\* and on, cuts the term short (engine.go, MarkSuccess; quota.go, apply;
\* quota_recovery.go, quotaProbeEligible; store.go, applyEnabled).
TermServed ==
    [][acc.status \in {"cooling", "disabled"} /\ acc.until > now' /\ Selectable(acc)'
            => \E mode \in {"jwt", "apiKey"} : EditAccount(mode)]_vars

\* What is in flight for an account that was switched off changes neither its
\* status nor the deadline it will come back with, whatever it was before: a
\* sentence stays a sentence (model/account.go, AcceptsRequestResult; store.go,
\* applyEnabled).
StoppedStays ==
    [][~acc.enabled /\ acc.status \in {"disabled", "invalid"} /\ ~Administrator
            => acc'.status = acc.status /\ acc'.until = acc.until]_vars

\* A probe lifts the mark of an exhausted model only if, since it began, no
\* other request was told that the model is exhausted and the credential is the
\* same throughout, not just again (quota_recovery.go, FinishQuotaProbe).
RecoveredByProof ==
    [][\A r \in Reqs, m \in Models :
        FinishProbe(r, TRUE) /\ m \in acc.empty \ acc'.empty => m \notin spoiled]_vars

\* "An account made invalid by risk control is a final state that needs a
\* person" (store.go, RecoverAccount; quota.go, apply): until the administrator
\* pardons it, the account is not selectable.
SentenceStands == sentence => ~Selectable(acc)

=============================================================================
