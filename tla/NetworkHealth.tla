---------------------------- MODULE NetworkHealth ----------------------------
(***************************************************************************)
(* The network inspection: modelprobe/network.go (the rounds) over          *)
(* store/network_health.go, store/proxy_failure_observation.go (the queue   *)
(* of rechecks) and purgeProxyProfilesIfCurrentLocked (the deletion).       *)
(* A round probes its lines without any lock, waits, probes the bad ones a  *)
(* second time together with independent controls, saves, and only then     *)
(* deletes; administrators, imports, requests and crashes move in between.  *)
(***************************************************************************)
EXTENDS Naturals, FiniteSets

CONSTANTS
  Lines, Direct,     \* proxy profiles; the host's own network
  Rank,              \* Lines -> the place in the list of profiles
  Addresses,         \* what a profile may point at
  Group,             \* Lines \cup {Direct} -> egress group, "" unknown
  Batch,             \* lines of one round (48)
  HintLimit,         \* proxyFailureRecheckLimit
  MaxMoves           \* bound on what the environment does

VARIABLES
  profile,   \* [Lines -> [live, on, addr, gen, safe]]
  recent,    \* lines over which a request succeeded within the protected hours
  working,   \* the addresses, and Direct, that answer now
  policy,    \* ModelProbeSettings: [rev, enabled, retire]
  hints,     \* Store.proxyFailureRechecks
  pend,      \* Manager.netPending: what is asked for outside a full round
  pendRev, netRev, due,  \* netPendingRevision, netRevision, netNext passed
  round,     \* Manager.netRound, or the round being probed
  pc,        \* where RunNetworkDue is; "rest" between two calls
  second,    \* verdicts of the confirming probes
  records,   \* proxy_network_health
  moves      \* of the environment so far

vars == <<profile, recent, working, policy, hints, pend, pendRev, netRev, due, round,
          pc, second, records, moves>>

All == "all"
Places == Lines \cup {Direct}
Absent == [live |-> FALSE, on |-> FALSE, addr |-> Direct, gen |-> 0, safe |-> FALSE]
NoHint == [gen |-> 0, rev |-> 0, stage |-> "none", fresh |-> FALSE,
           account |-> "none", cooling |-> FALSE, age |-> "young"]
NoRound == [rev |-> 0, snap |-> <<>>, first |-> <<>>, late |-> FALSE]
NoRecord == [gen |-> 0, rev |-> 0, state |-> "none"]

TypeOK ==
  /\ profile \in [Lines -> [live : BOOLEAN, on : BOOLEAN, safe : BOOLEAN,
                            addr : Addresses \cup {Direct}, gen : Nat]]
  /\ recent \subseteq Lines /\ working \subseteq Addresses \cup {Direct}
  /\ policy \in [rev : Nat, enabled : BOOLEAN, retire : BOOLEAN]
  /\ hints \in [Lines -> [gen : Nat, rev : Nat, fresh : BOOLEAN, cooling : BOOLEAN,
                          stage : {"none", "pending", "inFlight", "done"},
                          account : {"none", "bound", "moved"},
                          age : {"young", "old", "expired"}]]
  /\ pend \subseteq Lines \cup {All}
  /\ pc \in {"rest", "probing", "confirming", "saved", "applied"}
  /\ DOMAIN second \subseteq Places
  /\ records \in [Lines -> [gen : Nat, rev : Nat,
       state : {"none", "healthy", "waiting", "recovered", "unconfirmed", "failure",
                "protected", "removed", "changed", "interrupted"}]]

Init ==
  /\ \E born \in SUBSET Lines, addr \in [Lines -> Addresses] :
       profile = [l \in Lines |->
         IF l \in born THEN [live |-> TRUE, on |-> TRUE, addr |-> addr[l], gen |-> 1, safe |-> FALSE]
         ELSE Absent]
  /\ recent = {}
  /\ working \in {Addresses \cup {Direct}, {Direct}}
  /\ policy = [rev |-> 1, enabled |-> TRUE, retire |-> TRUE]
  /\ hints = [l \in Lines |-> NoHint]
  /\ pend = {} /\ pendRev = 1 /\ netRev = 1 /\ due = FALSE
  /\ round = NoRound /\ pc = "rest" /\ second = <<>>
  /\ records = [l \in Lines |-> NoRecord]
  /\ moves = 0

Manager == <<pend, pendRev, netRev, due, round, pc, second>>
Moves == moves < MaxMoves /\ moves' = moves + 1

First(S, n) == {l \in S : Cardinality({k \in S : Rank[k] < Rank[l]}) < n}
Enabled == {l \in Lines : profile[l].live /\ profile[l].on}
Queued == {l \in Lines : hints[l].stage # "none"}

-----------------------------------------------------------------------------
(* The queue of rechecks *)

Outdated(l) == hints[l].rev # policy.rev \/ hints[l].age = "expired"
Pruned == [l \in Lines |-> IF Outdated(l) THEN NoHint ELSE hints[l]]
Pending(gen, account, fresh) ==
  [NoHint EXCEPT !.gen = gen, !.rev = policy.rev, !.stage = "pending",
                 !.account = account, !.fresh = fresh]

\* ObserveProxyEndpointFailure: a request over the line failed at the endpoint
Observe(l) ==
  LET h == Pruned[l]
      limited == /\ h.stage \in {"inFlight", "done"} /\ h.cooling
                 /\ h.gen = profile[l].gen
      full == /\ h.stage = "none"
              /\ Cardinality({k \in Lines : Pruned[k].stage # "none"}) >= HintLimit
  IN /\ Moves /\ l \in Enabled /\ policy.enabled
     /\ hints' = IF limited \/ full THEN Pruned
                 ELSE [Pruned EXCEPT ![l] = Pending(profile[l].gen, "bound", FALSE)]
     /\ UNCHANGED <<profile, recent, working, policy, Manager, records>>

Queueable(l) == hints[l].stage = "none" /\ Cardinality(Queued) < HintLimit

\* queueSoftRecheckLocked: a line has just been quarantined for soft failures
Quarantined(l) ==
  /\ Moves /\ l \in Enabled /\ Queueable(l)
  /\ hints' = [hints EXCEPT ![l] = Pending(profile[l].gen, "none", FALSE)]
  /\ UNCHANGED <<profile, recent, working, policy, Manager, records>>

\* FinishSubscriptionRun: the imported profile carries no generation yet
Import(l) ==
  /\ ~profile[l].live /\ profile[l].gen = 0 /\ Moves
  /\ \E a \in Addresses :
       profile' = [profile EXCEPT ![l] = [live |-> TRUE, on |-> TRUE, addr |-> a,
                                          gen |-> @.gen + 1, safe |-> FALSE]]
  /\ hints' = IF Queueable(l) THEN [hints EXCEPT ![l] = Pending(0, "none", TRUE)] ELSE hints
  /\ UNCHANGED <<recent, working, policy, Manager, records>>

\* TakeProxyNetworkRechecks
Stands(l) ==
  /\ profile[l].on /\ profile[l].gen = hints[l].gen
  /\ hints[l].account # "moved"
Taken == {l \in Lines : /\ Pruned[l].stage = "pending" /\ profile[l].live
                        /\ Stands(l)}
AfterTake == [l \in Lines |->
  IF Pruned[l].stage # "pending" \/ ~profile[l].live THEN Pruned[l]
  ELSE IF ~Stands(l) THEN NoHint
  ELSE [Pruned[l] EXCEPT !.stage = "inFlight", !.cooling = TRUE]]

\* proxySelectionBlockedLocked: the gate on a line just imported
Gated(l) == hints[l].fresh /\ hints[l].stage \in {"pending", "inFlight"}
            /\ hints[l].age = "young"

-----------------------------------------------------------------------------
(* RunNetworkDue *)

SwitchedOff ==
  /\ pc = "rest" /\ ~policy.enabled
  /\ round' = NoRound /\ pend' = {}
  /\ UNCHANGED <<profile, recent, working, policy, hints, pendRev, netRev, due, pc, second, records, moves>>

Adopt ==
  /\ pc = "rest" /\ policy.enabled /\ netRev # policy.rev
  /\ round' = NoRound /\ netRev' = policy.rev /\ due' = FALSE
  /\ pend' = IF pendRev # policy.rev THEN {} ELSE pend
  /\ UNCHANGED <<profile, recent, working, policy, hints, pendRev, pc, second, records, moves>>

Calls == pc = "rest" /\ policy.enabled /\ netRev = policy.rev

Discard ==
  /\ Calls /\ round # NoRound /\ round.late
  /\ round' = NoRound
  /\ UNCHANGED <<profile, recent, working, policy, hints, pend, pendRev, netRev, due, pc, second, records, moves>>

Whole(asked) == due \/ All \in asked
Wanted(asked) == IF Whole(asked) THEN Enabled ELSE Enabled \cap asked
Chosen(asked) == First(Wanted(asked), Batch)
LeftoverForgotten(asked) == {}
Leftover(asked) == Wanted(asked) \ Chosen(asked)

Open(chosen) ==
  [rev |-> policy.rev, snap |-> [l \in Enabled |-> profile[l]],
   first |-> [l \in chosen |-> "unknown"], late |-> FALSE]

Start ==
  LET asked == pend \cup Taken
  IN /\ Calls /\ round = NoRound /\ (asked # {} \/ due)
     /\ hints' = AfterTake
     /\ due' = FALSE
     /\ pend' = Leftover(asked)
     /\ IF Chosen(asked) = {} THEN UNCHANGED <<round, pc>>
        ELSE round' = Open(Chosen(asked)) /\ pc' = "probing"
     /\ UNCHANGED <<profile, recent, working, policy, pendRev, netRev, second, records, moves>>

Route(x) == IF x = Direct THEN Direct ELSE round.snap[x].addr
\* acquireNetworkHealth, on the way out of every probe
Admitted(l) ==
  /\ policy.enabled /\ policy.rev = round.rev
  /\ l = Direct \/ (profile[l].live /\ profile[l].gen = round.snap[l].gen)
Verdict(l) ==
  IF ~Admitted(l) THEN "refused"
  ELSE IF Route(l) \in working THEN "ok" ELSE "failed"

ProbeFirst(l) ==
  /\ pc = "probing" /\ l \in DOMAIN round.first /\ round.first[l] = "unknown"
  /\ round' = [round EXCEPT !.first[l] = Verdict(l)]
  /\ UNCHANGED <<profile, recent, working, policy, hints, pend, pendRev, netRev, due, pc, second, records, moves>>

\* SaveNetworkHealth: policy compared, generation compared, the gate released
Saves == policy.enabled /\ policy.rev = round.rev
Recorded(states) == [l \in Lines |->
  IF l \notin DOMAIN states THEN records[l]
  ELSE [gen |-> round.snap[l].gen, rev |-> round.rev,
        state |-> IF profile[l].live /\ profile[l].gen # round.snap[l].gen
                  THEN "changed" ELSE states[l]]]
Released(ls) == [l \in Lines |->
  IF l \in ls /\ hints[l].stage # "none"
  THEN [hints[l] EXCEPT !.fresh = FALSE, !.stage = IF @ = "inFlight" THEN "done" ELSE @]
  ELSE hints[l]]
Save(states) == records' = Recorded(states) /\ hints' = Released(DOMAIN states)

Bad == {l \in DOMAIN round.first : round.first[l] # "ok"}
FirstStates == [l \in DOMAIN round.first |-> IF l \in Bad THEN "waiting" ELSE "healthy"]

FirstDone ==
  /\ pc = "probing" /\ \A l \in DOMAIN round.first : round.first[l] # "unknown"
  /\ pc' = "rest"
  /\ IF Saves THEN Save(FirstStates) ELSE UNCHANGED <<records, hints>>
  /\ round' = IF Saves /\ Bad # {} THEN round ELSE NoRound
  /\ UNCHANGED <<profile, recent, working, policy, pend, pendRev, netRev, due, second, moves>>

\* The bad lines, and the controls: at most two other lines of the pool
Confirm ==
  /\ Calls /\ round # NoRound /\ ~round.late
  /\ second' = [l \in Bad \cup First(DOMAIN round.snap \ Bad, 2) |-> "unknown"]
  /\ pc' = "confirming"
  /\ UNCHANGED <<profile, recent, working, policy, hints, pend, pendRev, netRev, due, round, records, moves>>

Asked == {l \in DOMAIN second : second[l] = "unknown"}
ProbeSecond(l) ==
  /\ pc = "confirming" /\ l \in Asked
  /\ second' = [second EXCEPT ![l] = Verdict(l)]
  /\ UNCHANGED <<profile, recent, working, policy, hints, pend, pendRev, netRev, due, round, pc, records, moves>>

Independent(a, b) == /\ Route(a) # Route(b)
                     /\ Group[a] = "" \/ Group[b] = "" \/ Group[a] # Group[b]
Witness(l) == \E c \in DOMAIN second : second[c] = "ok" /\ Independent(l, c)
NeedsDirect == \E l \in Bad : second[l] # "ok" /\ ~Witness(l)

AskDirect ==
  /\ pc = "confirming" /\ Asked = {} /\ NeedsDirect /\ Direct \notin DOMAIN second
  /\ second' = [l \in DOMAIN second \cup {Direct} |-> IF l = Direct THEN Verdict(Direct) ELSE second[l]]
  /\ UNCHANGED <<profile, recent, working, policy, hints, pend, pendRev, netRev, due, round, pc, records, moves>>

Judgement(l) ==
  IF l \notin Bad THEN "healthy"
  ELSE IF second[l] = "ok" THEN "recovered"
  ELSE IF Witness(l) THEN "failure" ELSE "unconfirmed"
Condemned == {l \in DOMAIN round.first : Judgement(l) = "failure"}
Judgements == [l \in DOMAIN round.first |-> Judgement(l)]

Judge ==
  /\ pc = "confirming" /\ Asked = {} /\ (NeedsDirect => Direct \in DOMAIN second) /\ ~round.late
  /\ IF Saves THEN Save(Judgements) /\ pc' = "saved" /\ UNCHANGED round
     ELSE pc' = "rest" /\ round' = NoRound /\ UNCHANGED <<records, hints>>
  /\ second' = IF Saves THEN second ELSE <<>>
  /\ UNCHANGED <<profile, recent, working, policy, pend, pendRev, netRev, due, moves>>

TooLate ==
  /\ pc = "confirming" /\ Asked = {} /\ round.late
  /\ pc' = "rest" /\ round' = NoRound /\ second' = <<>>
  /\ UNCHANGED <<profile, recent, working, policy, hints, pend, pendRev, netRev, due, records, moves>>

\* ApplyNetworkHealth, purgeProxyProfilesIfCurrentLocked, removeProxiesAvoidingLocked
SameAddress(l) == profile[l].live /\ profile[l].on /\ profile[l].addr = round.snap[l].addr
Unchanged(l) ==
  /\ profile[l].live /\ profile[l].on /\ profile[l].gen = round.snap[l].gen
  /\ profile[l].addr = round.snap[l].addr
Removable == {l \in Condemned : Unchanged(l) /\ ~profile[l].safe /\ l \notin recent}

Apply ==
  /\ pc = "saved"
  /\ IF Saves
     THEN /\ profile' = [l \in Lines |->
                IF policy.retire /\ l \in Removable
                THEN [profile[l] EXCEPT !.live = FALSE, !.on = FALSE] ELSE profile[l]]
          /\ pc' = "applied" /\ UNCHANGED <<round, second>>
     ELSE /\ pc' = "rest" /\ round' = NoRound /\ second' = <<>> /\ UNCHANGED profile
  /\ UNCHANGED <<recent, working, policy, hints, pend, pendRev, netRev, due, records, moves>>

Outcome(l) ==
  IF l \in Condemned /\ ~profile[l].live THEN "removed"
  ELSE IF l \in Condemned /\ (profile[l].safe \/ l \in recent) THEN "protected" ELSE Judgement(l)

Report ==
  /\ pc = "applied"
  /\ pc' = "rest" /\ round' = NoRound /\ second' = <<>>
  /\ IF Saves THEN Save([l \in DOMAIN round.first |-> Outcome(l)]) ELSE UNCHANGED <<records, hints>>
  /\ UNCHANGED <<profile, recent, working, policy, pend, pendRev, netRev, due, moves>>

\* The call's five minutes, or the round's deadline, run out
Abort ==
  /\ Moves /\ pc \in {"probing", "confirming"}
  /\ pc' = "rest" /\ round' = NoRound /\ second' = <<>>
  /\ UNCHANGED <<profile, recent, working, policy, hints, pend, pendRev, netRev, due, records>>

-----------------------------------------------------------------------------
(* Everybody else *)

\* QueueNetwork, RequestHealth: wait for netMu, held for the whole of a call
Request(id) ==
  LET base == IF pendRev # policy.rev THEN {} ELSE pend
  IN /\ Moves /\ pc = "rest" /\ policy.enabled /\ id \in Enabled \cup {All}
     /\ pendRev' = policy.rev
     /\ pend' = IF round # NoRound /\ id \in DOMAIN round.first THEN base ELSE base \cup {id}
     /\ UNCHANGED <<profile, recent, working, policy, hints, netRev, due, round, pc, second, records>>

Edited(l, p) ==
  /\ Moves /\ profile[l].live /\ p # profile[l]
  /\ profile' = [profile EXCEPT ![l] = [p EXCEPT !.gen = profile[l].gen + 1]]
  /\ UNCHANGED <<recent, working, policy, hints, Manager, records>>

Readdress(l) == \E a \in Addresses : Edited(l, [profile[l] EXCEPT !.addr = a])
Toggle(l) == Edited(l, [profile[l] EXCEPT !.on = ~@])
Protect(l) == Edited(l, [profile[l] EXCEPT !.safe = ~@])

\* LastUsedAt of an account bound to the line; ProxyProtectRecentHours go by
Delivers(l) ==
  /\ Moves /\ l \in Enabled
  /\ recent' = IF l \in recent THEN recent \ {l} ELSE recent \cup {l}
  /\ UNCHANGED <<profile, working, policy, hints, Manager, records>>

\* SaveModelProbeSettings, the legacy settings: a new revision every time
Configure ==
  /\ Moves
  /\ \E on \in BOOLEAN, retire \in BOOLEAN :
       policy' = [rev |-> policy.rev + 1, enabled |-> on, retire |-> retire]
  /\ UNCHANGED <<profile, recent, working, hints, Manager, records>>

\* networkPreflight before a model probe over the line
Preflight(l) ==
  /\ Moves /\ l \in Enabled /\ policy.enabled /\ pc = "rest"
  /\ records' = [records EXCEPT ![l] = [gen |-> profile[l].gen, rev |-> policy.rev,
       state |-> IF profile[l].addr \in working THEN "healthy" ELSE "waiting"]]
  /\ hints' = Released({l})
  /\ IF profile[l].addr \in working THEN UNCHANGED <<pend, pendRev>>
     ELSE /\ pendRev' = policy.rev
          /\ pend' = LET base == IF pendRev # policy.rev THEN {} ELSE pend
                     IN IF round # NoRound /\ l \in DOMAIN round.first THEN base ELSE base \cup {l}
  /\ UNCHANGED <<profile, recent, working, policy, netRev, due, round, pc, second>>

Weather(x) ==
  /\ Moves
  /\ working' = IF x \in working THEN working \ {x} ELSE working \cup {x}
  /\ UNCHANGED <<profile, recent, policy, hints, Manager, records>>

\* The interval (30 minutes) outlasts one pass over the pool
IntervalPasses ==
  /\ pc = "rest" /\ round = NoRound /\ pend \cap Enabled = {}
  /\ ~due /\ due' = TRUE
  /\ UNCHANGED <<profile, recent, working, policy, hints, pend, pendRev, netRev, round, pc, second, records, moves>>
DeadlinePasses ==
  /\ Moves /\ round # NoRound /\ ~round.late /\ round' = [round EXCEPT !.late = TRUE]
  /\ UNCHANGED <<profile, recent, working, policy, hints, pend, pendRev, netRev, due, pc, second, records>>
HintAges(l) ==
  /\ Moves /\ hints[l].stage # "none" /\ hints[l].age # "expired"
  /\ hints' = [hints EXCEPT ![l].age = IF @ = "young" THEN "old" ELSE "expired",
                            ![l].cooling = FALSE]
  /\ UNCHANGED <<profile, recent, working, policy, Manager, records>>
AccountMoves(l) ==
  /\ Moves /\ hints[l].account = "bound"
  /\ hints' = [hints EXCEPT ![l].account = "moved"]
  /\ UNCHANGED <<profile, recent, working, policy, Manager, records>>

\* loadModelProbe, ClearInterruptedNetworkHealth; hints and rounds are memory only
Restart ==
  /\ Moves
  /\ hints' = [l \in Lines |-> NoHint]
  /\ pend' = {} /\ pendRev' = policy.rev /\ netRev' = policy.rev /\ due' = FALSE
  /\ round' = NoRound /\ pc' = "rest" /\ second' = <<>>
  /\ records' = [l \in Lines |->
       IF records[l].state = "waiting" THEN [records[l] EXCEPT !.state = "interrupted"] ELSE records[l]]
  /\ UNCHANGED <<profile, recent, working, policy>>

RunNetworkDue ==
  \/ SwitchedOff \/ Adopt \/ Discard \/ Start \/ FirstDone \/ Confirm
  \/ AskDirect \/ Judge \/ TooLate \/ Apply \/ Report
  \/ \E l \in Lines : ProbeFirst(l) \/ ProbeSecond(l)

Next ==
  \/ RunNetworkDue \/ Abort \/ Configure \/ IntervalPasses \/ DeadlinePasses \/ Restart
  \/ Request(All)
  \/ \E l \in Lines : \/ Observe(l) \/ Quarantined(l) \/ Import(l) \/ Request(l)
                      \/ Readdress(l) \/ Toggle(l) \/ Protect(l) \/ Preflight(l)
                      \/ Delivers(l) \/ HintAges(l) \/ AccountMoves(l)
  \/ \E x \in Addresses \cup {Direct} : Weather(x)

Spec == Init /\ [][Next]_vars

FairSpec == Spec /\ WF_vars(RunNetworkDue) /\ WF_vars(IntervalPasses)

-----------------------------------------------------------------------------
(* Properties *)

\* The inspection deletes a line only when two probes that really went out over
\* its present configuration failed, something independent answered in between,
\* the policy of the round still stands and asks for deletion, and nobody
\* protects the line: an edit, a policy change, a probe refused half way or a
\* restart during the round never costs a line (SaveNetworkHealth, PurgeIfCurrent).
DeletedOnProof ==
  [][Apply => \A l \in Lines : profile[l].live /\ ~profile'[l].live =>
       /\ round.first[l] = "failed" /\ second[l] = "failed"
       /\ round.snap[l] = profile[l] /\ ~profile[l].safe /\ l \notin recent
       /\ \E c \in DOMAIN second : second[c] = "ok" /\ Independent(l, c)
       /\ policy.enabled /\ policy.retire /\ policy.rev = round.rev]_vars

\* Once edits and policy changes stop, every enabled line is inspected under the
\* present policy and configuration: the rest of a pool larger than one batch is
\* not forgotten, and single rechecks do not postpone the full round.
AllInspected ==
  policy.enabled => \A l \in Enabled :
    records[l].gen = profile[l].gen /\ records[l].rev = policy.rev
EveryLineInspected == <>[]AllInspected

\* docs/plan-proxy-soft-quarantine-20261017.md (the gate's state table) and
\* proxy_subscription.go:210: an imported line is kept out of the selection until
\* the result of its first check is saved; being taken by the inspection does
\* not open the gate.
TakingKeepsTheGate ==
  [][Start => \A l \in Lines :
       Gated(l) /\ ~Outdated(l) /\ profile[l].on /\ profile[l].gen = 1 => Gated(l)']_vars
=============================================================================
