----------------------------- MODULE ModelProbe -----------------------------
(***************************************************************************)
(* The model probe (store/model_probe*.go, modelprobe/manager.go): a run    *)
(* sends a small request over a line (screen); after a 405 it compares the  *)
(* line with another one, one account asking first over the reference and   *)
(* then over the target, in two rounds five minutes apart, and retires a    *)
(* line that fails both.                                                    *)
(*                                                                         *)
(* Automatic targets and accounts only, and the direct control is allowed.  *)
(* A tick is five minutes; a bit of time passes within it, so what is       *)
(* Window ticks old is out of date.  Every line has an address of its own.  *)
(* Left open: when a run is queued, how accounts are ranked and which of    *)
(* them business occupies, and which accounts a retired line had.           *)
(* Elsewhere: what a verdict does to the quarantine of a line               *)
(* (LineQuarantine) and how a retirement that was refused is finished       *)
(* (StrictProxy).  Left out: the limit of 1000 open runs, the pruning after *)
(* seven days, refused writes other than that of an answer.                 *)
(***************************************************************************)
EXTENDS Integers, Sequences, FiniteSets, FiniteSetsExt, SequencesExt

CONSTANTS
    Lines, Direct, Accounts,
    Protected,    \* lines that nothing automatic may retire
    Group,        \* EgressGroups: Lines and Direct to a name, "" if undeclared
    Rank,         \* the order of the identifiers of lines
    Gap,          \* time between two rounds
    Window,       \* life of a piece of evidence
    RankWindow,   \* age of a success that still ranks a reference
    Term,         \* time a run has
    Pause,        \* time without diagnoses after no reference answered
    DiagnosisGap, \* time between two diagnoses of a line
    Concurrency, GlobalDailyLimit, AccountDailyLimit,
    MaxAttempts,  \* requests of a run
    EvidenceLimit, \* pieces of evidence kept
    MaxBusy,      \* bound on the accounts that business occupies
    MaxRuns,      \* bound on the runs
    MaxMoves,     \* bound on the moves of the environment
    MaxTime

Free == "free"
Runs == 1 .. MaxRuns

VARIABLES
    now,
    line,       \* the profiles: enabled and not blocked, their generation
    retired,    \* strictProxy.Blocks
    acct,       \* credential and route version of the accounts, whether they are eligible
    policy,     \* its revision, whether it is on, whether it retires
    run,        \* s.modelProbe.runs in the order of CreatedAt
    lease,      \* s.modelProbe.leases, by run
    sent,       \* model_probe_attempts of the last day
    paused,     \* PausedUntil
    incomplete, \* EvidenceIncompleteUntil
    diagnosed,  \* LastDiagnosis
    business,   \* the last business success over each line
    proofs,     \* the proofs of all runs, in the order of their arrival
    answered,   \* when the last answer in the saved history came
    broken,     \* storageError
    saved,      \* paused and diagnosed as the database has them
    seen,       \* ghost: the saved proofs of the last Window, kept or lost
    moves       \* ghost

vars == <<now, line, retired, acct, policy, run, lease, sent, paused, incomplete,
    diagnosed, business, proofs, answered, broken, saved, seen, moves>>

NoRun == [target |-> Free, state |-> "free", phase |-> "screen", round |-> 0, next |-> 0,
    deadline |-> 0, attempts |-> 0, gen |-> 0, rev |-> 0, accounts |-> <<>>, index |-> 1,
    ref |-> Free]
NoLease == [at |-> Free]
NoSuccess == [at |-> -RankWindow]

Init ==
    /\ now = 1
    /\ line = [l \in Lines |-> [on |-> TRUE, gen |-> 1]]
    /\ retired = {}
    /\ acct = [a \in Accounts |-> [cred |-> 1, bind |-> 1, ready |-> TRUE]]
    /\ policy = [rev |-> 1, on |-> TRUE, retire |-> TRUE]
    /\ run = [i \in Runs |-> NoRun]
    /\ lease = [i \in Runs |-> NoLease]
    /\ sent = [a \in Accounts |-> 0]
    /\ paused \in {0, 1}            \* a pause of an earlier process, over by now
    /\ incomplete = 0
    /\ diagnosed = [l \in Lines |-> -DiagnosisGap]
    /\ business = [l \in Lines |-> NoSuccess]
    /\ proofs = <<>>
    /\ answered = -Window
    /\ broken = FALSE
    /\ saved = [paused |-> paused, diagnosed |-> diagnosed]
    /\ seen = {}
    /\ moves = 0

Open(r) == r.state \in {"waiting", "running"}    \* "queued" and "waiting" are one
Ended(r) == [r EXCEPT !.state = "ended"]
Usable(l) == line[l].on
Works == policy.on /\ ~broken
Leased == {i \in Runs : lease[i] # NoLease}

\* The account as a run froze it: its credential and the version of its route.
Who(a) == [acct |-> a, cred |-> acct[a].cred, bind |-> acct[a].bind]

--------------------------------------------------------------------------
(* Evidence.                                                                *)

Recent(at) == at + Window > now

\* probeEvidenceCurrentLocked
Current(e) ==
    /\ Recent(e.at) /\ acct[e.acct].cred = e.cred
    /\ e.line = Direct \/ (Usable(e.line) /\ line[e.line].gen = e.gen)

\* recentProbeBusinessLocked
RecentBusiness(l, window) ==
    /\ business[l].at + window > now /\ business[l].gen = line[l].gen
    /\ acct[business[l].acct].cred = business[l].cred

\* A later failure over the line of the i-th proof takes it back.
Revoked(ps, i) ==
    \E k \in i + 1 .. Len(ps) : ps[k].line = ps[i].line /\ ~ps[k].ok /\ Current(ps[k])

\* freshModelProbeReferenceLocked
FreshReference(i) ==
    LET good == {k \in DOMAIN proofs :
            /\ proofs[k].run = i /\ proofs[k].role = "reference" /\ proofs[k].ok
            /\ proofs[k].round = run[i].round /\ proofs[k].at = now
            /\ proofs[k].acct = run[i].accounts[run[i].index].acct /\ Current(proofs[k])}
    IN good # {} /\ ~Revoked(proofs, Max(good))

\* A failure over the target counts if the same account was answered over another line
\* in the same round just before.
Paired(ps, k) ==
    \E g \in 1 .. k - 1 :
        /\ <<ps[g].run, ps[g].role, ps[g].round>> = <<ps[k].run, "reference", ps[k].round>>
        /\ ps[g].line # ps[k].line /\ ps[g].ok /\ Current(ps[g])
        /\ <<ps[g].acct, ps[g].cred>> = <<ps[k].acct, ps[k].cred>>
        /\ ps[g].at = ps[k].at /\ ~Revoked(ps, g)

Failures(ps, i) ==
    {k \in DOMAIN ps : ps[k].run = i /\ ps[k].role = "target" /\ ~ps[k].ok /\ Current(ps[k])}

TwoRounds(ps, bad) ==
    \E a, b \in bad :
        /\ Paired(ps, a) /\ Paired(ps, b)
        /\ ps[a].round # ps[b].round /\ ps[b].at - ps[a].at >= Gap
        /\ <<ps[a].acct, ps[a].cred>> = <<ps[b].acct, ps[b].cred>>
        /\ ps[Max(bad)].acct = ps[b].acct

\* probeConfirmedRoundsLocked: two rounds failed with the account of the last failure, and
\* nothing succeeded over the line, whoever asked.
Confirmed(ps, i) ==
    /\ ~\E k \in DOMAIN ps : ps[k].line = run[i].target /\ ps[k].ok /\ Current(ps[k])
    /\ ~RecentBusiness(run[i].target, Window)
    /\ TwoRounds(ps, Failures(ps, i))

--------------------------------------------------------------------------
(* Queueing and taking.                                                     *)

\* Lines that can vouch for l: of another group, declared if a line may be retired.
Apart(x, l) ==
    /\ Group[x] # Group[l] \/ Group[x] = ""
    /\ policy.retire => Group[x] # "" /\ Group[l] # ""

\* probeReferenceLocked: first the line with the latest business success, then by
\* identifier, and the direct route if there is none.
Reference(l) ==
    LET cands == {x \in Lines \ {l} : Usable(x) /\ Apart(x, l)}
        fresh(x) == IF RecentBusiness(x, RankWindow) THEN business[x].at ELSE -1
    IN IF cands # {}
       THEN CHOOSE x \in cands : \A y \in cands \ {x} :
                \/ fresh(x) > fresh(y)
                \/ fresh(x) = fresh(y) /\ Rank[x] < Rank[y]
       ELSE IF policy.retire /\ ~Apart(Direct, l) THEN Free ELSE Direct

\* QueueModelProbe; an open run of the target is returned instead.
Queue(l) ==
    /\ Works /\ Usable(l)
    /\ ~\E i \in Runs : Open(run[i]) /\ run[i].target = l /\ run[i].rev = policy.rev
    /\ \E i \in Runs :
        /\ run[i] = NoRun /\ \A k \in 1 .. i - 1 : run[k] # NoRun
        /\ run' = [run EXCEPT ![i] = [NoRun EXCEPT !.target = l, !.state = "waiting",
                    !.next = now, !.deadline = now + Term, !.gen = line[l].gen, !.rev = policy.rev]]
    /\ UNCHANGED <<now, line, retired, acct, policy, lease, sent, paused, incomplete,
                   diagnosed, business, proofs, answered, broken, saved, seen, moves>>

\* probeBudgetLocked: what is sent and what is reserved.
Total == MapThenSumSet(LAMBDA a : sent[a], Accounts)
Reserved(A) == Cardinality({i \in Leased : lease[i].at # "sent" /\ lease[i].who.acct \in A})

\* probeAccountRowsLocked
Eligible == {a \in Accounts :
    /\ acct[a].ready /\ sent[a] + Reserved({a}) < AccountDailyLimit
    /\ ~\E i \in Leased : lease[i].who.acct = a}

\* The two accounts at the head of the ranking, whatever it is, that business leaves alone.
Heads(E) == {s \in [1 .. Min({2, Cardinality(E)}) -> E] : IsInjective(s)}
Rankings == UNION {Heads(Eligible \ busy) : busy \in {B \in SUBSET Accounts : Cardinality(B) <= MaxBusy}}

\* Before the first request of a run its accounts can still be chosen.
CannotPrepare(r, ranking) ==
    /\ r.attempts = 0
    /\ \/ paused > now
       \/ Total + Reserved(Accounts) >= GlobalDailyLimit
       \/ ranking = <<>>
       \/ paused > 0 /\ Reference(r.target) = Free

\* prepareAutomaticProbeLocked: after a pause the reference is asked first.
Prepared(r, ranking) ==
    IF r.attempts > 0 THEN r
    ELSE LET q == [r EXCEPT !.accounts = [k \in DOMAIN ranking |-> Who(ranking[k])],
                            !.index = 1, !.deadline = now + Term]
         IN IF paused > 0
            THEN [q EXCEPT !.phase = "reference", !.round = 1, !.ref = Reference(r.target)]
            ELSE q

Due(i) == run[i].state = "waiting" /\ run[i].next <= now
Outlived(r) ==
    \/ r.rev # policy.rev
    \/ r.attempts > 0 /\ now >= r.deadline
    \/ r.attempts >= MaxAttempts
    \/ ~Usable(r.target) \/ line[r.target].gen # r.gen

\* A reference answered too long ago is asked again.
Phased(i, r) == IF r.phase = "target" /\ ~FreshReference(i) THEN [r EXCEPT !.phase = "reference"] ELSE r
Route(r) == IF r.phase = "reference" THEN r.ref ELSE r.target
Gone(r) ==
    \/ r.index > Len(r.accounts)
    \/ r.accounts[r.index] # Who(r.accounts[r.index].acct)
    \/ ~acct[r.accounts[r.index].acct].ready
    \/ Route(r) # Direct /\ ~Usable(Route(r))
GenOf(x) == IF x = Direct THEN 0 ELSE line[x].gen
\* Mutant: the address that a request uses is not looked at.
OccupiedAccount(r) == \E k \in Leased : lease[k].who.acct = r.accounts[r.index].acct

Occupied(r) ==
    \E k \in Leased :
        \/ lease[k].who.acct = r.accounts[r.index].acct
        \/ Route(r) # Direct /\ <<lease[k].line, lease[k].gen>> = <<Route(r), GenOf(Route(r))>>

\* What TakeModelProbe does with a run that is due.
Turn(i, ranking) ==
    LET r == Phased(i, Prepared(run[i], ranking)) IN
    IF Outlived(run[i]) THEN [does |-> "end", run |-> Ended(run[i])]
    ELSE IF CannotPrepare(run[i], ranking) THEN [does |-> "wait", run |-> run[i]]
    ELSE IF Gone(r) THEN [does |-> "end", run |-> Ended(run[i])]
    ELSE IF Occupied(r) THEN [does |-> "wait", run |-> run[i]]
    ELSE [does |-> "lease", run |-> [r EXCEPT !.state = "running"]]

\* TakeModelProbe: the first run that can take a step gets a lease; those before it that
\* have outlived themselves end.
Take ==
    /\ Works /\ Cardinality(Leased) < Concurrency /\ \E i \in Runs : Due(i)
    /\ \E ranking \in Rankings :
       LET turn == [i \in {k \in Runs : Due(k)} |-> Turn(i, ranking)]
           able == {i \in DOMAIN turn : turn[i].does = "lease"}
           reach == {i \in DOMAIN turn : able = {} \/ i <= Min(able)}
       IN /\ run' = [i \in Runs |-> IF i \in reach THEN turn[i].run ELSE run[i]]
          /\ run' # run
          /\ lease' = [i \in Runs |->
                IF able = {} \/ i # Min(able) THEN lease[i]
                ELSE LET r == turn[i].run IN
                     [at |-> "taken", who |-> r.accounts[r.index], role |-> r.phase,
                      line |-> Route(r), gen |-> GenOf(Route(r)), round |-> r.round, rev |-> r.rev]]
    /\ UNCHANGED <<now, line, retired, acct, policy, sent, paused, incomplete, diagnosed,
                   business, proofs, answered, broken, saved, seen, moves>>

--------------------------------------------------------------------------
(* Sending and completing.                                                  *)

\* probeLeaseCurrentLocked
LeaseCurrent(l) ==
    /\ Works /\ l.rev = policy.rev /\ acct[l.who.acct].ready /\ l.who = Who(l.who.acct)
    /\ IF l.line = Direct THEN l.role = "reference" ELSE Usable(l.line) /\ line[l.line].gen = l.gen

\* startModelProbeHTTP: the last look before the request leaves.
Start(i) ==
    /\ lease[i].at = "taken"
    /\ LET a == lease[i].who.acct
           current == LeaseCurrent(lease[i])
           affordable == /\ run[i].attempts < MaxAttempts /\ now < run[i].deadline
                         /\ Total < GlobalDailyLimit /\ sent[a] < AccountDailyLimit
       IN /\ lease' = [lease EXCEPT ![i].at =
                IF ~current THEN "conflict" ELSE IF affordable THEN "sent" ELSE "budget"]
          /\ IF current /\ affordable
             THEN /\ run' = [run EXCEPT ![i].attempts = @ + 1]
                  /\ sent' = [sent EXCEPT ![a] = @ + 1]
             ELSE UNCHANGED <<run, sent>>
    /\ UNCHANGED <<now, line, retired, acct, policy, paused, incomplete, diagnosed,
                   business, proofs, answered, broken, saved, seen, moves>>

\* How send (modelprobe/request.go) can end: "risk" is a 405 with the code 3012, "blocked"
\* one without it, "network" the preflight that failed.
Kinds(l) ==
    CASE l.at = "taken" -> {"network", "other"}
      [] l.at = "sent"  -> {"success", "risk", "blocked", "other", "canceled"}
      [] OTHER          -> {l.at}

\* advanceModelProbeLocked: the run, the pause and the diagnosis of its target after an
\* answer; condemned says that the second round confirmed the first.
Waiting(r, phase, round, at) ==
    [r EXCEPT !.phase = phase, !.round = round, !.next = at,
              !.state = IF at >= r.deadline THEN "ended" ELSE "waiting"]
Stays(r) == [run |-> r, paused |-> paused, diagnosed |-> diagnosed, condemned |-> FALSE]

Screened(r, kind) ==
    LET ref == Reference(r.target) IN
    IF kind # "risk" \/ now < diagnosed[r.target] + DiagnosisGap \/ ref = Free
    THEN Stays(Ended(r))
    ELSE [Stays(Waiting([r EXCEPT !.ref = ref], "reference", 1, now + Gap))
            EXCEPT !.diagnosed[r.target] = now]

Referred(r, kind) ==
    IF kind = "success" THEN [Stays(Waiting(r, "target", r.round, now)) EXCEPT !.paused = 0]
    ELSE IF r.index < Len(r.accounts)
         THEN Stays(Waiting([r EXCEPT !.index = @ + 1], "reference", 1, now))
         ELSE [Stays(Ended([r EXCEPT !.index = @ + 1])) EXCEPT !.paused = now + Pause]

Targeted(i, r, kind, ps) ==
    IF kind = "risk" /\ Confirmed(ps, i) THEN [Stays(Ended(r)) EXCEPT !.condemned = TRUE]
    ELSE IF kind = "risk" /\ r.round < 2 THEN Stays(Waiting(r, "reference", r.round + 1, now + Gap))
    ELSE Stays(Ended(r))

Advanced(i, role, kind, ps) ==
    IF kind \in {"canceled", "conflict", "budget"} THEN Stays(Ended(run[i]))
    ELSE CASE role = "screen"    -> Screened(run[i], kind)
           [] role = "reference" -> Referred(run[i], kind)
           [] role = "target"    -> Targeted(i, run[i], kind, ps)

\* boundModelProbeEvidenceLocked: what is dropped suspends the decisions.
Bounded(ps) == IF Len(ps) > EvidenceLimit THEN SubSeq(ps, Len(ps) - EvidenceLimit + 1, Len(ps)) ELSE ps
Suspended(ps) ==
    Max({incomplete} \cup {ps[k].at + Window : k \in 1 .. Len(ps) - EvidenceLimit})

\* CompleteModelProbe, and retireModelProbeLocked for a condemned line; commits says
\* whether commitProbeResultLocked writes the outcome.
Complete(i, kind, commits) ==
    /\ lease[i] # NoLease /\ kind \in Kinds(lease[i])
    /\ LET l == lease[i]
           current == LeaseCurrent(l)
           proof == [run |-> i, role |-> l.role, round |-> l.round, line |-> l.line, gen |-> l.gen,
                     acct |-> l.who.acct, cred |-> l.who.cred, at |-> now, ok |-> kind = "success"]
           counts == current /\ kind \in {"success", "risk"}
           all == IF counts THEN Append(proofs, proof) ELSE proofs
           next == IF current THEN Advanced(i, l.role, kind, all) ELSE Stays(Ended(run[i]))
           again == current /\ run[i].attempts = 0 /\ l.at # "sent"
                    /\ kind \in {"budget", "network", "conflict"}
           retires == /\ next.condemned /\ policy.retire /\ Len(run[i].accounts) >= 2
                      /\ paused <= now /\ incomplete' <= now /\ Confirmed(proofs', i)
                      /\ run[i].target \notin Protected
           \* only a reference that is refused speaks against the account
           blames == current /\ l.role = "reference" /\ kind \in {"risk", "blocked"}
       IN /\ paused' = next.paused /\ diagnosed' = next.diagnosed
          /\ IF ~commits
             THEN /\ run' = [run EXCEPT ![i] = Ended(next.run)]
                  /\ proofs' = all /\ broken' = TRUE
                  /\ UNCHANGED <<incomplete, saved, seen, answered, acct, retired, line>>
             ELSE
             /\ run' = [run EXCEPT ![i] =
                   IF again THEN [next.run EXCEPT !.state = "waiting", !.next = now] ELSE next.run]
             /\ proofs' = Bounded(all) /\ incomplete' = Suspended(all)
             /\ saved' = [paused |-> paused', diagnosed |-> diagnosed']
             /\ seen' = IF counts THEN seen \cup {proof} ELSE seen
             \* any status counts as an answer when the history is read again
             /\ answered' \in IF kind \in {"success", "risk", "blocked"} THEN {now}
                              ELSE IF l.at = "sent" THEN {answered, now} ELSE {answered}
             /\ IF retires
                THEN /\ retired' = retired \cup {run[i].target}
                     /\ line' = [line EXCEPT ![run[i].target].on = FALSE]
                     /\ \E moved \in SUBSET Accounts : acct' = [a \in Accounts |->
                            IF a \in moved THEN [acct[a] EXCEPT !.bind = @ + 1] ELSE acct[a]]
                ELSE /\ acct' = IF blames THEN [acct EXCEPT ![l.who.acct].ready = FALSE] ELSE acct
                     /\ UNCHANGED <<retired, line>>
             /\ UNCHANGED broken
    /\ lease' = [lease EXCEPT ![i] = NoLease]
    /\ UNCHANGED <<now, policy, sent, business>>

--------------------------------------------------------------------------
(* What happens around the runs.                                            *)

\* A bound: the surroundings rest when all MaxRuns runs have ended.
Unfinished == \E i \in Runs : run[i] = NoRun \/ Open(run[i]) \/ lease[i] # NoLease
Move == Unfinished /\ moves < MaxMoves /\ moves' = moves + 1
Interrupted == [i \in Runs |-> IF Open(run[i]) THEN Ended(run[i]) ELSE run[i]]

\* SaveModelProbeSettings: leases stay, and are stale; a write that succeeds ends the stop
\* after one that was refused.
Save(on, retire) ==
    /\ Move
    /\ policy' = [rev |-> policy.rev + 1, on |-> on, retire |-> retire]
    /\ run' = Interrupted
    /\ broken' = FALSE
    /\ saved' = [paused |-> paused, diagnosed |-> diagnosed]
    /\ UNCHANGED <<now, line, retired, acct, lease, sent, paused, incomplete, diagnosed,
                   business, proofs, answered, seen>>

\* A login, a new route, the end of a cooling.
EditAccount(a) ==
    /\ Move
    /\ \/ acct' = [acct EXCEPT ![a].cred = @ + 1]
       \/ acct' = [acct EXCEPT ![a].bind = @ + 1]
       \/ acct' = [acct EXCEPT ![a].ready = ~@]
    /\ UNCHANGED <<now, line, retired, policy, run, lease, sent, paused, incomplete, diagnosed,
                   business, proofs, answered, broken, saved, seen>>

\* Another address, switched on or off.
EditLine(l) ==
    /\ Move /\ l \notin retired
    /\ \E on \in BOOLEAN : line' = [line EXCEPT ![l] = [on |-> on, gen |-> @.gen + 1]]
    /\ UNCHANGED <<now, retired, acct, policy, run, lease, sent, paused, incomplete, diagnosed,
                   business, proofs, answered, broken, saved, seen>>

\* observeModelProbeBusinessLocked: a complete answer.
Business(l, a) ==
    /\ Move /\ policy.on /\ Usable(l)
    /\ business' = [business EXCEPT ![l] =
            [at |-> now, gen |-> line[l].gen, acct |-> a, cred |-> acct[a].cred]]
    /\ UNCHANGED <<now, line, retired, acct, policy, run, lease, sent, paused, incomplete,
                   diagnosed, proofs, answered, broken, saved, seen>>

\* loadModelProbe: the evidence is private to a process; what was answered lately, if its
\* record was saved, suspends the decisions.
Restart ==
    /\ Move
    /\ run' = Interrupted
    /\ lease' = [i \in Runs |-> NoLease]
    /\ proofs' = <<>> /\ business' = [l \in Lines |-> NoSuccess]
    /\ incomplete' = Max({incomplete, answered + Window})
    /\ paused' = saved.paused /\ diagnosed' = saved.diagnosed /\ broken' = FALSE
    /\ UNCHANGED <<now, line, retired, acct, policy, sent, answered, saved, seen>>

\* The proofs are in the order of their arrival: those out of date at a time come first.
Stale(at) == {k \in DOMAIN proofs : proofs[k].at + Window <= at}

Tick ==
    /\ Unfinished /\ now < MaxTime
    /\ now' = now + 1
    /\ proofs' = SubSeq(proofs, Cardinality(Stale(now')) + 1, Len(proofs))
    /\ seen' = {e \in seen : e.at + Window > now'}
    /\ UNCHANGED <<line, retired, acct, policy, run, lease, sent, paused, incomplete,
                   diagnosed, business, answered, broken, saved, moves>>

Next ==
    \/ \E l \in Lines : Queue(l) \/ EditLine(l) \/ \E a \in Accounts : Business(l, a)
    \/ Take
    \/ \E i \in Runs : Start(i)
    \/ \E i \in Leased : \E kind \in Kinds(lease[i]) :
        \/ Complete(i, kind, TRUE) /\ UNCHANGED moves
        \/ Move /\ Complete(i, kind, FALSE)
    \/ \E on, retire \in BOOLEAN : Save(on, retire)
    \/ \E a \in Accounts : EditAccount(a)
    \/ Restart
    \/ Tick

Spec == Init /\ [][Next]_vars

--------------------------------------------------------------------------
(* Properties.                                                              *)

TypeOK ==
    /\ retired \subseteq Lines /\ paused \in Nat /\ incomplete \in Nat /\ moves \in 0 .. MaxMoves
    /\ \A i \in Runs :
        /\ run[i].state \in {"free", "waiting", "running", "ended"}
        /\ run[i].phase \in {"screen", "reference", "target"} /\ run[i].round \in 0 .. 2
        /\ run[i].attempts \in 0 .. MaxAttempts
        /\ run[i].state = "running" => lease[i] # NoLease
    /\ Len(proofs) <= EvidenceLimit + moves     \* a refused write leaves one more
    /\ retired \cap Protected = {}

(* No two requests of the inspection use one account or one address at a time, also
   when the run of one of them was ended under it by a change of the policy. *)
OneAtATime ==
    \A i, k \in Leased : i # k =>
        /\ lease[i].who.acct # lease[k].who.acct
        /\ lease[i].line # Direct => <<lease[i].line, lease[i].gen>> # <<lease[k].line, lease[k].gen>>

(* What a line is retired for: one account was refused over it in two rounds, a gap apart,
   and answered over another line in each of them; the policy lets lines be retired; and
   no request of the inspection whose outcome was saved succeeded over it within the
   window, also none that a restart has forgotten since. *)
Guilty(l) ==
    /\ policy.retire
    /\ ~\E e \in seen' : e.line = l /\ e.ok /\ e.gen = line[l].gen /\ acct[e.acct].cred = e.cred
    /\ \E b, c \in seen' :
        /\ {b.line, c.line} = {l} /\ {b.gen, c.gen} = {line[l].gen} /\ ~b.ok /\ ~c.ok
        /\ b.run = c.run /\ b.round # c.round /\ c.at - b.at >= Gap
        /\ {<<b.acct, b.cred>>, <<c.acct, c.cred>>} = {<<b.acct, acct[b.acct].cred>>}
        /\ \A e \in {b, c} : \E g \in seen' :
            /\ g.ok /\ g.line # l
            /\ <<g.run, g.round, g.acct, g.cred, g.at>> = <<e.run, e.round, e.acct, e.cred, e.at>>
RetiredOnProof == [][\A l \in retired' \ retired : Guilty(l)]_vars
=============================================================================
