----------------------------- MODULE UpkeepProof -----------------------------
(***************************************************************************)
(* What runs behind the requests, for any callers, queries, identities,      *)
(* lines and addresses: a quota query answers the call it was made for, and  *)
(* the inspection deletes a line only on full proof.  The theorems are about *)
(* the composed run: whatever part of it moves, a part sees a step of its    *)
(* own or none.                                                              *)
(***************************************************************************)
EXTENDS MCUpkeep, TLAPS

(***************************************************************************)
(* The quota queries.                                                      *)
(***************************************************************************)

Posts == {"idle", "failed", "snapshot", "enter", "join", "own"}

QueryType ==
    /\ identity \in Nat /\ sent \in 0..MaxQueries
    /\ of \in [Queries -> Nat] /\ state \in [Queries -> {"none", "running", "ok", "error"}]
    /\ inflight \in Queries \cup {None} /\ cache \in Queries \cup {None}
    /\ pc \in [Callers -> Posts] /\ fresh \in [Callers -> BOOLEAN]
    /\ gone \in [Callers -> BOOLEAN] /\ snap \in [Callers -> Nat]
    /\ mine \in [Callers -> Queries \cup {None}]
    /\ since \in [Callers -> Nat] /\ from \in [Callers -> Nat]

\* What a caller has in hand is no older than its call: the identity it has read, and the
\* query it has sent itself.
InHand ==
    \A c \in Callers :
        /\ from[c] <= identity /\ since[c] <= sent
        /\ pc[c] = "enter" => snap[c] >= from[c]
        /\ pc[c] \in {"join", "own"} => mine[c] \in Queries
        /\ pc[c] = "own" => of[mine[c]] >= from[c] /\ mine[c] > since[c] /\ mine[c] <= sent

QueryInv == QueryType /\ InHand

LEMMA InitQueryInv == ASSUME Init PROVE QueryInv
  BY QuotaQueryAssumption DEF Init, QueryInv, QueryType, InHand, Posts

LEMMA CallInv == ASSUME QueryInv, NEW c \in Callers, Call(c) PROVE QueryInv'
<1>1. QueryType'
  BY DEF QueryInv, QueryType, Call, Goto, query, service, Posts
<1>2. InHand'
  BY DEF QueryInv, QueryType, InHand, Call, Goto, query, service, Posts
<1>3. QED  BY <1>1, <1>2 DEF QueryInv

\* A caller that returns, or fails, has nothing in hand.
LEMMA LeavesNothing ==
    ASSUME QueryInv, NEW c \in Callers, Returns(c) \/ Fails(c),
           UNCHANGED <<identity, query, service>>
    PROVE  QueryInv'
<1>0. Forget(c) /\ \E w \in {"idle", "failed"} : pc' = [pc EXCEPT ![c] = w]
  BY DEF Returns, Fails, Goto
<1>1. QueryType'
  <2>1. pc' \in [Callers -> Posts]
    BY <1>0 DEF QueryInv, QueryType, Posts
  <2>2. fresh' \in [Callers -> BOOLEAN] /\ gone' \in [Callers -> BOOLEAN]
    BY <1>0 DEF QueryInv, QueryType, Forget
  <2>3. /\ snap' \in [Callers -> Nat] /\ since' \in [Callers -> Nat] /\ from' \in [Callers -> Nat]
        /\ mine' \in [Callers -> Queries \cup {None}]
    BY <1>0 DEF QueryInv, QueryType, Forget
  <2>4. QED  BY <2>1, <2>2, <2>3 DEF QueryInv, QueryType, query, service
<1>2. InHand'
  BY <1>0 DEF QueryInv, QueryType, InHand, Forget, query, service, Posts
<1>3. QED  BY <1>1, <1>2 DEF QueryInv

LEMMA SnapshotInv == ASSUME QueryInv, NEW c \in Callers, Snapshot(c) PROVE QueryInv'
<1>1. CASE Fails(c)
  BY <1>1, LeavesNothing DEF Snapshot
<1>2. CASE Goto(c, "enter") /\ snap' = [snap EXCEPT ![c] = identity] /\ UNCHANGED <<mine, fresh, gone, since, from>>
  <2>1. UNCHANGED <<identity, query, service>>
    BY DEF Snapshot
  <2>2. QueryType'
    BY <1>2, <2>1 DEF QueryInv, QueryType, Goto, query, service, Posts
  <2>3. InHand'
    BY <1>2, <2>1 DEF QueryInv, QueryType, InHand, Goto, query, service, Posts
  <2>4. QED  BY <2>2, <2>3 DEF QueryInv
<1>3. QED  BY <1>1, <1>2 DEF Snapshot

LEMMA JoinInv == ASSUME QueryInv, NEW c \in Callers, Join(c) PROVE QueryInv'
<1>1. QueryType'
  BY DEF QueryInv, QueryType, Join, Goto, query, service, Posts
<1>2. InHand'
  BY DEF QueryInv, QueryType, InHand, Join, Goto, query, service, Posts
<1>3. QED  BY <1>1, <1>2 DEF QueryInv

LEMMA JoinedInv == ASSUME QueryInv, NEW c \in Callers, Joined(c) PROVE QueryInv'
<1>1. CASE Usable(c, mine[c])
  BY <1>1, LeavesNothing DEF Joined
<1>2. CASE ~Usable(c, mine[c])
  <2>1. QueryType'
    BY <1>2 DEF QueryInv, QueryType, Joined, Goto, query, service, Posts
  <2>2. InHand'
    BY <1>2 DEF QueryInv, QueryType, InHand, Joined, Goto, query, service, Posts
  <2>3. QED  BY <2>1, <2>2 DEF QueryInv
<1>3. QED  BY <1>1, <1>2

LEMMA SendInv == ASSUME QueryInv, NEW c \in Callers, Send(c) PROVE QueryInv'
<1> DEFINE q == sent + 1
<1>1. q \in Queries /\ q \in 1..MaxQueries /\ sent \in Nat
  BY QuotaQueryAssumption DEF QueryInv, QueryType, Send, Queries
<1>2. QueryType'
  BY <1>1 DEF QueryInv, QueryType, Send, Goto, query, service, Posts
<1>3. InHand'
  <2> SUFFICES ASSUME NEW d \in Callers
               PROVE  (/\ from[d] <= identity /\ since[d] <= sent
                       /\ pc[d] = "enter" => snap[d] >= from[d]
                       /\ pc[d] \in {"join", "own"} => mine[d] \in Queries
                       /\ pc[d] = "own" => of[mine[d]] >= from[d] /\ mine[d] > since[d] /\ mine[d] <= sent)'
    BY DEF InHand
  <2>1. /\ identity' = identity /\ sent' = q /\ of' = [of EXCEPT ![q] = snap[c]]
        /\ mine' = [mine EXCEPT ![c] = q] /\ pc' = [pc EXCEPT ![c] = "own"]
        /\ UNCHANGED <<snap, since, from>> /\ pc[c] = "enter"
    BY DEF Send, Goto
  <2>2. CASE d = c
    BY <1>1, <2>1, <2>2 DEF QueryInv, QueryType, InHand
  <2>3. CASE d # c
    <3>1. pc'[d] = pc[d] /\ mine'[d] = mine[d]
      BY <2>1, <2>3 DEF QueryInv, QueryType
    <3>2. pc[d] = "own" => of'[mine[d]] = of[mine[d]]
      BY <1>1, <2>1 DEF QueryInv, QueryType, InHand
    <3>3. /\ from[d] <= identity /\ since[d] <= sent /\ (pc[d] = "enter" => snap[d] >= from[d])
          /\ (pc[d] \in {"join", "own"} => mine[d] \in Queries)
          /\ (pc[d] = "own" => of[mine[d]] >= from[d] /\ mine[d] > since[d] /\ mine[d] <= sent)
      BY DEF QueryInv, InHand
    <3>4. pc[d] = "own" => mine[d] <= q
      <4>1. pc[d] = "own" => mine[d] \in Nat
        BY <3>3 DEF Queries
      <4>2. QED  BY <1>1, <3>3, <4>1
    <3>5. since[d] <= q
      BY <1>1, <3>3 DEF QueryInv, QueryType
    <3> HIDE DEF q
    <3>6. QED  BY <2>1, <3>1, <3>2, <3>3, <3>4, <3>5
  <2>4. QED  BY <2>2, <2>3
<1>4. QED  BY <1>2, <1>3 DEF QueryInv

LEMMA OthersInv ==
    ASSUME QueryInv,
           \/ \E q \in Queries : Finish(q)
           \/ \E c \in Callers : Leave(c)
           \/ Change \/ Expire \/ Close \/ UNCHANGED vars
    PROVE  QueryInv'
<1>1. ASSUME NEW q \in Queries, Finish(q) PROVE QueryInv'
  <2>1. QueryType'
    BY <1>1 DEF QueryInv, QueryType, Finish, Cleared, caller, Posts
  <2>2. InHand'
    BY <1>1 DEF QueryInv, QueryType, InHand, Finish, caller
  <2>3. QED  BY <2>1, <2>2 DEF QueryInv
<1>2. ASSUME NEW c \in Callers, Leave(c) PROVE QueryInv'
  BY <1>2 DEF QueryInv, QueryType, InHand, Leave, query, service
<1>3. CASE Change
  BY <1>3 DEF QueryInv, QueryType, InHand, Change, query, service, caller
<1>4. CASE Expire
  BY <1>4 DEF QueryInv, QueryType, InHand, Expire, query, caller
<1>5. CASE Close
  BY <1>5 DEF QueryInv, QueryType, InHand, Close, query, caller
<1>6. CASE UNCHANGED vars
  BY <1>6 DEF QueryInv, QueryType, InHand, vars, query, service, caller
<1>7. QED  BY <1>1, <1>2, <1>3, <1>4, <1>5, <1>6

LEMMA QueryStep == ASSUME QueryInv, [Next]_vars PROVE QueryInv'
<1>1. ASSUME NEW c \in Callers, CallerStep(c) PROVE QueryInv'
  <2>1. CASE Cancelled(c) \/ TakeCached(c) \/ Own(c)
    BY <2>1, LeavesNothing DEF Cancelled, TakeCached, Own
  <2>2. QED  BY <1>1, <2>1, SnapshotInv, JoinInv, JoinedInv, SendInv DEF CallerStep
<1>2. QED  BY <1>1, CallInv, OthersInv DEF Next

\* What a caller returns with is the cached answer, or the query it waited for.
Answers(c) ==
    LET q == IF pc[c] = "enter" THEN cache ELSE mine[c]
    IN  of[q] >= from[c] /\ (fresh[c] => q > since[c])

LEMMA ReturnAnswers ==
    ASSUME QueryInv, [Next]_vars, NEW c \in Callers,
           pc[c] \in {"enter", "join", "own"}, pc'[c] = "idle"
    PROVE  Answers(c)
<1>0. pc \in [Callers -> Posts] /\ pc[c] # "idle"
  BY DEF QueryInv, QueryType
<1>1. CASE TakeCached(c)
  <2>1. pc[c] = "enter" /\ cache # None /\ ~fresh[c] /\ of[cache] = snap[c]
    BY <1>1 DEF TakeCached, Hit
  <2>2. QED  BY <2>1 DEF QueryInv, InHand, Answers
<1>2. CASE Joined(c)
  <2>1. pc[c] = "join" /\ mine[c] \in Queries
    BY <1>2 DEF Joined, QueryInv, InHand
  <2>2. Usable(c, mine[c])
    BY <1>0, <1>2 DEF Joined, Goto
  <2>3. QED  BY <2>1, <2>2 DEF Usable, Answers, QueryInv, InHand
<1>3. CASE Own(c)
  BY <1>3 DEF Own, QueryInv, InHand, Answers
<1>4. ASSUME NEW d \in Callers, Call(d) \/ CallerStep(d), d # c PROVE FALSE
  <2>1. \E w \in Posts : Goto(d, w)
    BY <1>4 DEF Call, CallerStep, Snapshot, Cancelled, Join, Joined, TakeCached, Send, Own,
       Returns, Fails, Posts
  <2>2. QED  BY <1>0, <1>4, <2>1 DEF Goto
<1>5. CASE Call(c) \/ Snapshot(c) \/ Cancelled(c) \/ Join(c) \/ Send(c)
  BY <1>0, <1>5 DEF Call, Snapshot, Cancelled, Join, Send, Fails, Goto
<1>6. CASE \/ \E q \in Queries : Finish(q)
           \/ \E d \in Callers : Leave(d)
           \/ Change \/ Expire \/ Close \/ UNCHANGED vars
  BY <1>0, <1>6 DEF Finish, Leave, Change, Expire, Close, vars, caller
<1>7. QED  BY <1>1, <1>2, <1>3, <1>4, <1>5, <1>6 DEF Next, CallerStep

LEMMA QueryRuns == (RunInit => Init) /\ ([RunNext]_allVars => [Next]_vars)
<1>1. RunInit => Init
  BY DEF RunInit
<1>2. ASSUME RunNext PROVE [Next]_vars
  BY <1>2 DEF RunNext, Query, Initialize, Claim, Inspect
<1>3. ASSUME UNCHANGED allVars PROVE UNCHANGED vars
  BY <1>3 DEF allVars
<1>4. QED  BY <1>1, <1>2, <1>3

LEMMA SpecQueryInv == RunSpec => []QueryInv
<1>1. RunInit => QueryInv
  BY QueryRuns, InitQueryInv
<1>2. QueryInv /\ [RunNext]_allVars => QueryInv'
  BY QueryRuns, QueryStep
<1>3. QED  BY <1>1, <1>2, PTL DEF RunSpec

\* What a caller returns was asked for on its behalf (QuotaQuery).
THEOREM UpkeepAnswersTheCall == RunSpec => AnswersTheCall
<1> DEFINE A == \A c \in Callers :
        pc[c] \in {"enter", "join", "own"} /\ pc'[c] = "idle" =>
            LET q == IF pc[c] = "enter" THEN cache ELSE mine[c]
            IN  of[q] >= from[c] /\ (fresh[c] => q > since[c])
<1>1. QueryInv /\ [RunNext]_allVars => [A]_vars
  BY QueryRuns, ReturnAnswers DEF Answers
<1>2. RunSpec => [][A]_vars
  BY <1>1, SpecQueryInv, PTL DEF RunSpec
<1>3. QED  BY <1>2 DEF AnswersTheCall

(***************************************************************************)
(* The inspection of the lines.                                            *)
(***************************************************************************)

Profiles == [live : BOOLEAN, on : BOOLEAN, safe : BOOLEAN, addr : Addresses \cup {Direct}, gen : Nat]
Hints == [gen : Nat, rev : Nat, fresh : BOOLEAN, cooling : BOOLEAN,
          stage : {"none", "pending", "inFlight", "done"},
          account : {"none", "bound", "moved"}, age : {"young", "old", "expired"}]
States == {"none", "healthy", "waiting", "recovered", "unconfirmed", "failure",
           "protected", "removed", "changed", "interrupted"}
Records == [gen : Nat, rev : Nat, state : States]
Verdicts == {"unknown", "ok", "failed", "refused"}

\* What the round saw of a line is over: the policy, or the line, is another.
Over(l) == \/ policy.rev > round.rev
           \/ ~profile[l].live
           \/ profile[l].gen > round.snap[l].gen

RoundShape ==
    /\ round = [rev |-> round.rev, snap |-> round.snap, first |-> round.first, late |-> round.late]
    /\ round.rev \in Nat /\ round.rev <= policy.rev
    /\ DOMAIN round.first \subseteq DOMAIN round.snap /\ DOMAIN round.snap \subseteq HealthLines
    /\ \A l \in DOMAIN round.first : round.first[l] \in Verdicts

\* A line of the same generation is the line the round saw.
Snapped ==
    \A l \in DOMAIN round.snap :
        /\ round.snap[l] \in Profiles /\ round.snap[l].gen >= 1
        /\ round.snap[l].gen <= profile[l].gen
        /\ profile[l].live /\ profile[l].gen = round.snap[l].gen => profile[l] = round.snap[l]
        /\ policy.rev = round.rev => policy.enabled

\* A probe is refused only when what it was for is over.
Probed ==
    /\ DOMAIN second \subseteq DOMAIN round.snap \cup {Direct}
    /\ \A x \in DOMAIN second : second[x] \in Verdicts
    /\ \A l \in DOMAIN round.first : round.first[l] = "refused" => Over(l)
    /\ \A l \in DOMAIN second \ {Direct} : second[l] = "refused" => Over(l)

\* Which verdicts are out, by the place of the round.
Stage ==
    /\ nhPc \in {"rest", "probing"} => DOMAIN second = {}
    /\ nhPc # "probing" => \A l \in DOMAIN round.first : round.first[l] # "unknown"
    /\ nhPc \in {"saved", "applied"} => \A x \in DOMAIN second : second[x] # "unknown"
    /\ nhPc \in {"confirming", "saved", "applied"} => NH!Bad \subseteq DOMAIN second

Born == \A l \in HealthLines : profile[l].live => profile[l].gen >= 1

RoundInv == Born /\ RoundShape /\ Snapped /\ Probed /\ Stage

HealthInv == NH!TypeOK /\ RoundInv

LEMMA HealthTypes ==
    NH!TypeOK <=>
      /\ profile \in [HealthLines -> Profiles] /\ recent \subseteq HealthLines
      /\ working \subseteq Addresses \cup {Direct}
      /\ policy \in [rev : Nat, enabled : BOOLEAN, retire : BOOLEAN]
      /\ hints \in [HealthLines -> Hints] /\ pend \subseteq HealthLines \cup {NH!All}
      /\ nhPc \in {"rest", "probing", "confirming", "saved", "applied"}
      /\ DOMAIN second \subseteq HealthLines \cup {Direct}
      /\ records \in [HealthLines -> Records]
  BY DEF NH!TypeOK, NH!Places, Profiles, Hints, States, Records

LEMMA NothingIn == DOMAIN <<>> = {}
  OBVIOUS

\* Without a round there is nothing to say of it.
LEMMA NoRoundInv ==
    ASSUME round = NH!NoRound, DOMAIN second = {}, Born, nhPc # "probing", policy.rev \in Nat
    PROVE  RoundInv
<1>1. /\ round.rev = 0 /\ DOMAIN round.snap = {} /\ DOMAIN round.first = {}
      /\ round = [rev |-> round.rev, snap |-> round.snap, first |-> round.first, late |-> round.late]
  BY NothingIn DEF NH!NoRound
<1>2. NH!Bad = {}
  BY <1>1 DEF NH!Bad
<1>3. QED  BY <1>1, <1>2 DEF RoundInv, RoundShape, Snapped, Probed, Stage

LEMMA InitHealthInv == ASSUME NH!Init PROVE HealthInv
<1>1. NH!NoHint \in Hints /\ NH!NoRecord \in Records /\ NH!Absent \in Profiles
  BY DEF NH!NoHint, NH!NoRecord, NH!Absent, Hints, Records, States, Profiles
<1>2. PICK born \in SUBSET HealthLines, addr \in [HealthLines -> Addresses] :
        profile = [l \in HealthLines |->
           IF l \in born THEN [live |-> TRUE, on |-> TRUE, addr |-> addr[l], gen |-> 1, safe |-> FALSE]
           ELSE NH!Absent]
  BY DEF NH!Init
<1>3. profile \in [HealthLines -> Profiles]
  BY <1>1, <1>2 DEF Profiles
<1>4. Born
  BY <1>2 DEF Born, NH!Absent
<1>5. /\ recent = {} /\ working \subseteq Addresses \cup {Direct}
      /\ policy = [rev |-> 1, enabled |-> TRUE, retire |-> TRUE]
      /\ hints = [l \in HealthLines |-> NH!NoHint] /\ pend = {} /\ nhPc = "rest" /\ second = <<>>
      /\ records = [l \in HealthLines |-> NH!NoRecord] /\ round = NH!NoRound
  BY DEF NH!Init
<1>6. NH!TypeOK
  BY <1>1, <1>3, <1>5, HealthTypes, NothingIn
<1>7. RoundInv
  BY <1>4, <1>5, NoRoundInv, NothingIn
<1>8. QED  BY <1>6, <1>7 DEF HealthInv

(***************************************************************************)
(* How the invariant is kept: the round is dropped, or it stays while       *)
(* lines and policy move on.                                               *)
(***************************************************************************)

\* A line is as it was, or of a later generation, or no longer there.
MovesOn(l) == \/ profile'[l] = profile[l]
              \/ profile'[l].gen > profile[l].gen
              \/ ~profile'[l].live /\ profile'[l].gen = profile[l].gen

LEMMA Dropped ==
    ASSUME HealthInv, NH!TypeOK', round' = NH!NoRound, DOMAIN second' = {}, Born', nhPc' # "probing"
    PROVE  HealthInv'
<1>1. /\ round'.rev = 0 /\ DOMAIN round'.snap = {} /\ DOMAIN round'.first = {}
      /\ round' = [rev |-> round'.rev, snap |-> round'.snap, first |-> round'.first, late |-> round'.late]
  BY NothingIn DEF NH!NoRound
<1>2. policy'.rev \in Nat
  BY DEF NH!TypeOK
<1>3. RoundInv'
  BY <1>1, <1>2 DEF NH!Bad, RoundInv, RoundShape, Snapped, Probed, Stage
<1>4. QED  BY <1>3 DEF HealthInv

LEMMA Kept ==
    ASSUME HealthInv, NH!TypeOK', Born', \A l \in HealthLines : MovesOn(l),
           policy' = policy \/ policy'.rev > policy.rev,
           round' = round \/ round' = [round EXCEPT !.late = TRUE], second' = second, Stage'
    PROVE  HealthInv'
<1>1. /\ round'.rev = round.rev /\ round'.snap = round.snap /\ round'.first = round.first
      /\ round' = [rev |-> round'.rev, snap |-> round'.snap, first |-> round'.first, late |-> round'.late]
  BY DEF HealthInv, RoundInv, RoundShape
<1>2. /\ policy'.rev >= policy.rev /\ policy.rev \in Nat /\ policy'.rev \in Nat
      /\ \A l \in HealthLines : profile[l].gen \in Nat /\ profile'[l].gen \in Nat
      /\ \A l \in HealthLines : profile[l] \in Profiles /\ profile'[l] \in Profiles
  BY HealthTypes DEF HealthInv, NH!TypeOK, Profiles
<1>3. RoundShape /\ Snapped /\ Probed /\ DOMAIN round.snap \subseteq HealthLines
  BY DEF HealthInv, RoundInv, RoundShape
<1>4. RoundShape'
  BY <1>1, <1>2, <1>3 DEF RoundShape
<1>5. Snapped'
  <2> SUFFICES ASSUME NEW l \in DOMAIN round.snap
               PROVE  /\ round.snap[l] \in Profiles /\ round.snap[l].gen >= 1
                      /\ round.snap[l].gen <= profile'[l].gen
                      /\ profile'[l].live /\ profile'[l].gen = round.snap[l].gen => profile'[l] = round.snap[l]
                      /\ policy'.rev = round.rev => policy'.enabled
    BY <1>1 DEF Snapped
  <2>1. l \in HealthLines /\ MovesOn(l)
    BY <1>3
  <2>2. /\ round.snap[l] \in Profiles /\ round.snap[l].gen >= 1 /\ round.snap[l].gen <= profile[l].gen
        /\ (profile[l].live /\ profile[l].gen = round.snap[l].gen => profile[l] = round.snap[l])
        /\ (policy.rev = round.rev => policy.enabled)
    BY <1>3 DEF Snapped
  <2>3. round.snap[l].gen \in Nat /\ round.rev \in Nat /\ round.rev <= policy.rev
    BY <1>3, <2>2 DEF RoundShape, Profiles
  <2>4. round.snap[l].gen <= profile'[l].gen
    BY <1>2, <2>1, <2>2, <2>3 DEF MovesOn
  <2>5. profile'[l].live /\ profile'[l].gen = round.snap[l].gen => profile'[l] = round.snap[l]
    BY <1>2, <2>1, <2>2, <2>3 DEF MovesOn
  <2>6. policy'.rev = round.rev => policy'.enabled
    BY <1>2, <2>2, <2>3
  <2>7. QED  BY <2>2, <2>4, <2>5, <2>6
<1>6. \A l \in DOMAIN round.snap : Over(l) => Over(l)'
  <2> SUFFICES ASSUME NEW l \in DOMAIN round.snap, Over(l) PROVE Over(l)'
    OBVIOUS
  <2>1. l \in HealthLines /\ MovesOn(l) /\ round.rev \in Nat
    BY <1>3 DEF RoundShape
  <2>2. round.snap[l].gen \in Nat /\ round.snap[l].gen <= profile[l].gen
    BY <1>3 DEF Snapped, Profiles
  <2>3. QED  BY <1>1, <1>2, <2>1, <2>2 DEF Over, MovesOn
<1>7. Probed'
  <2>1. DOMAIN round.first \subseteq DOMAIN round.snap /\ DOMAIN second \ {Direct} \subseteq DOMAIN round.snap
    BY <1>3 DEF RoundShape, Probed
  <2>2. \A l \in DOMAIN round'.first : round'.first[l] = "refused" => Over(l)'
    BY <1>1, <1>3, <1>6, <2>1 DEF Probed
  <2>3. \A l \in DOMAIN second' \ {Direct} : second'[l] = "refused" => Over(l)'
    BY <1>1, <1>3, <1>6, <2>1 DEF Probed
  <2>4. QED  BY <1>1, <1>3, <2>2, <2>3 DEF Probed
<1>8. QED  BY <1>4, <1>5, <1>7 DEF HealthInv, RoundInv

\* Nothing of the round, the lines and the policy changes.
LEMMA Aside ==
    ASSUME HealthInv, NH!TypeOK', UNCHANGED <<profile, policy, round, nhPc, second>> PROVE HealthInv'
<1>1. Born' /\ Stage' /\ \A l \in HealthLines : MovesOn(l)
  BY DEF HealthInv, RoundInv, Born, Stage, MovesOn, NH!Bad
<1>2. QED  BY <1>1, Kept

(***************************************************************************)
(* Hints and records.                                                      *)
(***************************************************************************)

LEMMA HintIs ==
    ASSUME NH!TypeOK
    PROVE  /\ \A l \in HealthLines : NH!Pruned[l] \in Hints
           /\ \A ls : NH!Released(ls) \in [HealthLines -> Hints]
           /\ NH!AfterTake \in [HealthLines -> Hints]
           /\ \A gen \in Nat, account \in {"none", "bound", "moved"}, f \in BOOLEAN :
                NH!Pending(gen, account, f) \in Hints
           /\ NH!NoHint \in Hints /\ NH!Pruned \in [HealthLines -> Hints]
<1>1. hints \in [HealthLines -> Hints] /\ policy.rev \in Nat
  BY HealthTypes
<1>2. NH!NoHint \in Hints
  BY DEF NH!NoHint, Hints
<1>3. NH!Pruned \in [HealthLines -> Hints]
  BY <1>1, <1>2 DEF NH!Pruned
<1>4. \A ls : NH!Released(ls) \in [HealthLines -> Hints]
  <2> SUFFICES ASSUME NEW ls PROVE NH!Released(ls) \in [HealthLines -> Hints]
    OBVIOUS
  <2>1. \A h \in Hints : [h EXCEPT !.fresh = FALSE, !.stage = IF @ = "inFlight" THEN "done" ELSE @] \in Hints
    BY DEF Hints
  <2>2. QED  BY <1>1, <2>1 DEF NH!Released
<1>5. NH!AfterTake \in [HealthLines -> Hints]
  <2>1. \A h \in Hints : [h EXCEPT !.stage = "inFlight", !.cooling = TRUE] \in Hints
    BY DEF Hints
  <2>2. QED  BY <1>2, <1>3, <2>1 DEF NH!AfterTake
<1>6. \A gen \in Nat, account \in {"none", "bound", "moved"}, f \in BOOLEAN :
        NH!Pending(gen, account, f) \in Hints
  BY <1>1, <1>2 DEF NH!Pending, Hints, NH!NoHint
<1>7. QED  BY <1>2, <1>3, <1>4, <1>5, <1>6

LEMMA SaveIs ==
    ASSUME HealthInv, NEW s, DOMAIN s \subseteq DOMAIN round.first, \A l \in DOMAIN s : s[l] \in States,
           NH!Save(s)
    PROVE  hints' \in [HealthLines -> Hints] /\ records' \in [HealthLines -> Records]
<1>1. hints' \in [HealthLines -> Hints]
  BY HintIs DEF HealthInv, NH!Save
<1>2. records \in [HealthLines -> Records]
  BY HealthTypes DEF HealthInv
<1>3. \A l \in DOMAIN s : round.snap[l].gen \in Nat /\ round.rev \in Nat
  BY DEF HealthInv, RoundInv, RoundShape, Snapped, Profiles
<1>4. \A l \in HealthLines : NH!Recorded(s)[l] \in Records
  <2> SUFFICES ASSUME NEW l \in HealthLines PROVE NH!Recorded(s)[l] \in Records
    OBVIOUS
  <2>1. CASE l \notin DOMAIN s
    BY <1>2, <2>1 DEF NH!Recorded
  <2>2. CASE l \in DOMAIN s
    <3> DEFINE st == IF profile[l].live /\ profile[l].gen # round.snap[l].gen THEN "changed" ELSE s[l]
    <3>1. st \in States
      BY <2>2 DEF States
    <3>2. NH!Recorded(s)[l] = [gen |-> round.snap[l].gen, rev |-> round.rev, state |-> st]
      BY <2>2 DEF NH!Recorded
    <3> HIDE DEF st
    <3>3. QED  BY <1>3, <2>2, <3>1, <3>2 DEF Records
  <2>3. QED  BY <2>1, <2>2
<1>5. NH!Recorded(s) = [l \in HealthLines |-> NH!Recorded(s)[l]]
  BY DEF NH!Recorded
<1>6. QED  BY <1>1, <1>4, <1>5 DEF NH!Save

(***************************************************************************)
(* The environment, and what leaves the round alone.                       *)
(***************************************************************************)

LEMMA StageStays ==
    ASSUME Stage, UNCHANGED <<nhPc, second>>,
           round' = round \/ (RoundShape /\ round' = [round EXCEPT !.late = TRUE])
    PROVE  Stage'
<1>1. round'.first = round.first
  BY DEF RoundShape
<1>2. NH!Bad' = NH!Bad
  BY <1>1 DEF NH!Bad
<1>3. QED  BY <1>1, <1>2 DEF Stage

LEMMA ObserveHealth ==
    ASSUME HealthInv, NEW l \in HealthLines, NH!Observe(l) \/ NH!Quarantined(l) PROVE HealthInv'
<1>1. \A f \in BOOLEAN, a \in {"none", "bound", "moved"} : NH!Pending(profile[l].gen, a, f) \in Hints
  BY HintIs, HealthTypes DEF HealthInv, Profiles
<1>2. hints' \in [HealthLines -> Hints]
  BY <1>1, HintIs, HealthTypes DEF HealthInv, NH!Observe, NH!Quarantined
<1>3. UNCHANGED <<profile, recent, working, policy, NH!Manager, records>>
  BY DEF NH!Observe, NH!Quarantined
<1>4. NH!TypeOK'
  BY <1>2, <1>3, HealthTypes DEF HealthInv, NH!TypeOK, NH!Places, Hints, NH!Manager
<1>5. QED  BY <1>3, <1>4, Aside DEF NH!Manager

LEMMA HintHealth ==
    ASSUME HealthInv, NEW l \in HealthLines, NH!HintAges(l) \/ NH!AccountMoves(l) PROVE HealthInv'
<1>1. \A h \in Hints : /\ [h EXCEPT !.age = IF @ = "young" THEN "old" ELSE "expired", !.cooling = FALSE] \in Hints
                       /\ [h EXCEPT !.account = "moved"] \in Hints
  BY DEF Hints
<1>2. hints \in [HealthLines -> Hints]
  BY HealthTypes DEF HealthInv
<1>3. /\ [hints[l] EXCEPT !.age = IF @ = "young" THEN "old" ELSE "expired", !.cooling = FALSE] \in Hints
      /\ [hints[l] EXCEPT !.account = "moved"] \in Hints
  BY <1>1, <1>2
<1>4. CASE NH!HintAges(l)
  <2>1. hints' = [hints EXCEPT ![l] = [hints[l] EXCEPT !.age = IF @ = "young" THEN "old" ELSE "expired",
                                                       !.cooling = FALSE]]
    BY <1>2, <1>4 DEF NH!HintAges, Hints
  <2> DEFINE h == [hints[l] EXCEPT !.age = IF @ = "young" THEN "old" ELSE "expired", !.cooling = FALSE]
  <2>2. hints' = [hints EXCEPT ![l] = h] /\ h \in Hints
    BY <1>3, <2>1
  <2> HIDE DEF h
  <2>3. hints' \in [HealthLines -> Hints]
    BY <1>2, <2>2
  <2>4. UNCHANGED <<profile, recent, working, policy, NH!Manager, records>>
    BY <1>4 DEF NH!HintAges
  <2>5. NH!TypeOK'
    BY <2>3, <2>4 DEF HealthInv, NH!TypeOK, NH!Places, Hints, NH!Manager
  <2>6. QED  BY <2>4, <2>5, Aside DEF NH!Manager
<1>5. CASE NH!AccountMoves(l)
  <2> DEFINE h == [hints[l] EXCEPT !.account = "moved"]
  <2>1. hints' = [hints EXCEPT ![l] = h] /\ h \in Hints
    BY <1>2, <1>3, <1>5 DEF NH!AccountMoves
  <2> HIDE DEF h
  <2>2. hints' \in [HealthLines -> Hints]
    BY <1>2, <2>1
  <2>3. UNCHANGED <<profile, recent, working, policy, NH!Manager, records>>
    BY <1>5 DEF NH!AccountMoves
  <2>4. NH!TypeOK'
    BY <2>2, <2>3 DEF HealthInv, NH!TypeOK, NH!Places, Hints, NH!Manager
  <2>5. QED  BY <2>3, <2>4, Aside DEF NH!Manager
<1>6. QED  BY <1>4, <1>5

LEMMA RequestHealth ==
    ASSUME HealthInv, NEW id \in HealthLines \cup {NH!All}, NH!Request(id) PROVE HealthInv'
<1>1. pend' \subseteq HealthLines \cup {NH!All}
  BY DEF HealthInv, NH!TypeOK, NH!Request
<1>2. UNCHANGED <<profile, recent, working, policy, hints, round, nhPc, second, records>>
  BY DEF NH!Request
<1>3. NH!TypeOK'
  BY <1>1, <1>2 DEF HealthInv, NH!TypeOK, NH!Places
<1>4. QED  BY <1>2, <1>3, Aside

LEMMA PreflightHealth ==
    ASSUME HealthInv, NEW l \in HealthLines, NH!Preflight(l) PROVE HealthInv'
<1>1. pend' \subseteq HealthLines \cup {NH!All}
  <2>1. pend \subseteq HealthLines \cup {NH!All} /\ l \in HealthLines
    BY DEF HealthInv, NH!TypeOK
  <2>2. pend' = pend \/ \E base \in {{}, pend} : pend' = base \/ pend' = base \cup {l}
    BY DEF NH!Preflight
  <2>3. QED  BY <2>1, <2>2
<1>2. UNCHANGED <<profile, recent, working, policy, round, nhPc, second>>
  BY DEF NH!Preflight
<1>3. hints' \in [HealthLines -> Hints]
  BY HintIs DEF HealthInv, NH!Preflight
<1>4. records' \in [HealthLines -> Records]
  <2> DEFINE r == [gen |-> profile[l].gen, rev |-> policy.rev,
                   state |-> IF profile[l].addr \in working THEN "healthy" ELSE "waiting"]
  <2>1. r \in Records
    BY HealthTypes DEF HealthInv, Records, States, Profiles
  <2>2. records' = [records EXCEPT ![l] = r]
    BY DEF NH!Preflight
  <2> HIDE DEF r
  <2>3. QED  BY <2>1, <2>2, HealthTypes DEF HealthInv
<1>5. NH!TypeOK'
  BY <1>1, <1>2, <1>3, <1>4 DEF HealthInv, NH!TypeOK, NH!Places, Hints, Records, States
<1>6. QED  BY <1>2, <1>5, Aside

LEMMA AroundHealth ==
    ASSUME HealthInv,
           \/ \E l \in HealthLines : NH!Delivers(l)
           \/ \E x \in Addresses \cup {Direct} : NH!Weather(x)
           \/ NH!IntervalPasses
    PROVE  HealthInv'
<1>1. recent' \subseteq HealthLines /\ working' \subseteq Addresses \cup {Direct}
  BY DEF HealthInv, NH!TypeOK, NH!Delivers, NH!Weather, NH!IntervalPasses, NH!Manager
<1>2. UNCHANGED <<profile, policy, hints, pend, round, nhPc, second, records>>
  BY DEF NH!Delivers, NH!Weather, NH!IntervalPasses, NH!Manager
<1>3. NH!TypeOK'
  BY <1>1, <1>2 DEF HealthInv, NH!TypeOK, NH!Places
<1>4. QED  BY <1>2, <1>3, Aside

LEMMA ConfigureHealth == ASSUME HealthInv, NH!Configure PROVE HealthInv'
<1>1. /\ policy.rev \in Nat /\ policy'.rev = policy.rev + 1
      /\ policy' \in [rev : Nat, enabled : BOOLEAN, retire : BOOLEAN]
  BY DEF HealthInv, NH!TypeOK, NH!Configure
<1>2. UNCHANGED <<profile, recent, working, hints, pend, round, nhPc, second, records>>
  BY DEF NH!Configure, NH!Manager
<1>3. NH!TypeOK'
  BY <1>1, <1>2 DEF HealthInv, NH!TypeOK, NH!Places
<1>4. Born' /\ \A l \in HealthLines : MovesOn(l)
  BY <1>2 DEF HealthInv, RoundInv, Born, MovesOn
<1>5. Stage'
  BY <1>2, StageStays DEF HealthInv, RoundInv
<1>6. policy'.rev > policy.rev
  BY <1>1
<1>7. QED  BY <1>2, <1>3, <1>4, <1>5, <1>6, Kept

LEMMA DeadlineHealth == ASSUME HealthInv, NH!DeadlinePasses PROVE HealthInv'
<1>1. UNCHANGED <<profile, recent, working, policy, hints, pend, nhPc, second, records>>
  BY DEF NH!DeadlinePasses
<1>2. round' = [round EXCEPT !.late = TRUE]
  BY DEF NH!DeadlinePasses
<1>3. NH!TypeOK'
  BY <1>1 DEF HealthInv, NH!TypeOK, NH!Places
<1>4. Born' /\ \A l \in HealthLines : MovesOn(l)
  BY <1>1 DEF HealthInv, RoundInv, Born, MovesOn
<1>5. Stage'
  BY <1>1, <1>2, StageStays DEF HealthInv, RoundInv
<1>6. QED  BY <1>1, <1>2, <1>3, <1>4, <1>5, Kept

\* An edit, or an import, makes the line another.
LEMMA LineMoves ==
    ASSUME HealthInv, NEW l \in HealthLines, NEW p \in Profiles, p.gen = profile[l].gen + 1,
           profile' = [profile EXCEPT ![l] = p],
           hints' \in [HealthLines -> Hints],
           UNCHANGED <<recent, working, policy, NH!Manager, records>>
    PROVE  HealthInv'
<1>1. profile \in [HealthLines -> Profiles]
  BY HealthTypes DEF HealthInv
<1>2. profile' \in [HealthLines -> Profiles]
  BY <1>1
<1>3. UNCHANGED <<recent, working, policy, pend, round, nhPc, second, records>>
  BY DEF NH!Manager
<1>4. NH!TypeOK'
  <2>1. /\ recent' \subseteq HealthLines /\ working' \subseteq Addresses \cup {Direct}
        /\ policy' \in [rev : Nat, enabled : BOOLEAN, retire : BOOLEAN]
        /\ pend' \subseteq HealthLines \cup {NH!All}
        /\ nhPc' \in {"rest", "probing", "confirming", "saved", "applied"}
        /\ DOMAIN second' \subseteq HealthLines \cup {Direct}
        /\ records' \in [HealthLines -> Records]
    BY <1>3, HealthTypes DEF HealthInv
  <2>2. QED  BY <1>2, <2>1 DEF NH!TypeOK, NH!Places, Profiles, Hints, States, Records
<1>5. \A m \in HealthLines : profile[m].gen \in Nat
  BY <1>1 DEF Profiles
<1>6. Born'
  BY <1>1, <1>5 DEF HealthInv, RoundInv, Born
<1>7. \A m \in HealthLines : MovesOn(m)
  BY <1>1, <1>5 DEF MovesOn
<1>8. Stage'
  BY <1>3, StageStays DEF HealthInv, RoundInv
<1>9. QED  BY <1>3, <1>4, <1>6, <1>7, <1>8, Kept

LEMMA EditHealth ==
    ASSUME HealthInv, NEW l \in HealthLines,
           NH!Import(l) \/ NH!Readdress(l) \/ NH!Toggle(l) \/ NH!Protect(l)
    PROVE  HealthInv'
<1>1. profile \in [HealthLines -> Profiles] /\ hints \in [HealthLines -> Hints] /\ profile[l].gen \in Nat
  BY HealthTypes DEF HealthInv, Profiles
<1>2. CASE NH!Import(l)
  <2>1. PICK a \in Addresses :
          profile' = [profile EXCEPT ![l] = [live |-> TRUE, on |-> TRUE, addr |-> a,
                                             gen |-> @.gen + 1, safe |-> FALSE]]
    BY <1>2 DEF NH!Import
  <2> DEFINE p == [live |-> TRUE, on |-> TRUE, addr |-> a, gen |-> profile[l].gen + 1, safe |-> FALSE]
  <2>2. p \in Profiles /\ p.gen = profile[l].gen + 1 /\ profile' = [profile EXCEPT ![l] = p]
    BY <1>1, <2>1 DEF Profiles
  <2> HIDE DEF p
  <2>3. NH!Pending(0, "none", TRUE) \in Hints
    BY HintIs DEF HealthInv
  <2>4. hints' \in [HealthLines -> Hints]
    BY <1>1, <1>2, <2>3 DEF NH!Import
  <2>5. UNCHANGED <<recent, working, policy, NH!Manager, records>>
    BY <1>2 DEF NH!Import
  <2>6. QED  BY <2>2, <2>4, <2>5, LineMoves
<1>3. CASE NH!Readdress(l) \/ NH!Toggle(l) \/ NH!Protect(l)
  <2>1. PICK q \in Profiles : NH!Edited(l, q)
    BY <1>1, <1>3 DEF NH!Readdress, NH!Toggle, NH!Protect, Profiles
  <2> DEFINE p == [q EXCEPT !.gen = profile[l].gen + 1]
  <2>2. p \in Profiles /\ p.gen = profile[l].gen + 1 /\ profile' = [profile EXCEPT ![l] = p]
    BY <1>1, <2>1 DEF NH!Edited, Profiles
  <2> HIDE DEF p
  <2>3. UNCHANGED <<recent, working, policy, NH!Manager, records>> /\ hints' \in [HealthLines -> Hints]
    BY <1>1, <2>1 DEF NH!Edited
  <2>4. QED  BY <2>2, <2>3, LineMoves
<1>4. QED  BY <1>2, <1>3

(***************************************************************************)
(* The rounds.                                                             *)
(***************************************************************************)

LEMMA TypesThen ==
    ASSUME HealthInv, profile' \in [HealthLines -> Profiles],
           UNCHANGED <<recent, working, policy>>,
           hints' \in [HealthLines -> Hints], pend' \subseteq HealthLines \cup {NH!All},
           nhPc' \in {"rest", "probing", "confirming", "saved", "applied"},
           DOMAIN second' \subseteq HealthLines \cup {Direct},
           records' \in [HealthLines -> Records]
    PROVE  NH!TypeOK'
<1>1. /\ recent' \subseteq HealthLines /\ working' \subseteq Addresses \cup {Direct}
      /\ policy' \in [rev : Nat, enabled : BOOLEAN, retire : BOOLEAN]
  BY HealthTypes DEF HealthInv
<1>2. QED  BY <1>1 DEF NH!TypeOK, NH!Places, Profiles, Hints, States, Records

LEMMA BornStays ==
    ASSUME HealthInv, UNCHANGED profile
    PROVE  Born' /\ \A l \in HealthLines : MovesOn(l)
  BY DEF HealthInv, RoundInv, Born, MovesOn

LEMMA DropHealth ==
    ASSUME HealthInv, NH!SwitchedOff \/ NH!Adopt \/ NH!Discard \/ NH!TooLate \/ NH!Abort
    PROVE  HealthInv'
<1>1. UNCHANGED <<profile, recent, working, policy, hints, records>>
  BY DEF NH!SwitchedOff, NH!Adopt, NH!Discard, NH!TooLate, NH!Abort, NH!Calls
<1>2. round' = NH!NoRound /\ nhPc' = "rest"
  BY DEF NH!SwitchedOff, NH!Adopt, NH!Discard, NH!TooLate, NH!Abort, NH!Calls
<1>3. pend' \subseteq HealthLines \cup {NH!All}
  BY DEF HealthInv, NH!TypeOK, NH!SwitchedOff, NH!Adopt, NH!Discard, NH!TooLate, NH!Abort
<1>4. DOMAIN second' = {}
  BY NothingIn DEF HealthInv, RoundInv, Stage, NH!SwitchedOff, NH!Adopt, NH!Discard, NH!TooLate,
                   NH!Abort, NH!Calls
<1>5. NH!TypeOK'
  BY <1>1, <1>2, <1>3, <1>4, TypesThen, HealthTypes DEF HealthInv
<1>6. QED  BY <1>1, <1>2, <1>4, <1>5, BornStays, Dropped

LEMMA RestartHealth == ASSUME HealthInv, NH!Restart PROVE HealthInv'
<1>1. UNCHANGED <<profile, recent, working, policy>>
  BY DEF NH!Restart
<1>2. round' = NH!NoRound /\ nhPc' = "rest" /\ DOMAIN second' = {} /\ pend' = {}
  BY NothingIn DEF NH!Restart
<1>3. hints' \in [HealthLines -> Hints]
  BY HintIs DEF HealthInv, NH!Restart
<1>4. records' \in [HealthLines -> Records]
  <2>1. \A r \in Records : [r EXCEPT !.state = "interrupted"] \in Records
    BY DEF Records, States
  <2>2. QED  BY <2>1, HealthTypes DEF HealthInv, NH!Restart
<1>5. NH!TypeOK'
  BY <1>1, <1>2, <1>3, <1>4, TypesThen, HealthTypes DEF HealthInv
<1>6. QED  BY <1>1, <1>2, <1>5, BornStays, Dropped

LEMMA StartHealth == ASSUME HealthInv, NH!Start PROVE HealthInv'
<1>1. UNCHANGED <<profile, recent, working, policy, second, records>>
  BY DEF NH!Start
<1>2. nhPc = "rest" /\ policy.enabled /\ hints' \in [HealthLines -> Hints]
  BY HintIs DEF HealthInv, NH!Start, NH!Calls
<1>3. PICK asked : pend' = NH!Leftover(asked)
                   /\ IF NH!Chosen(asked) = {} THEN UNCHANGED <<round, nhPc>>
                      ELSE round' = NH!Open(NH!Chosen(asked)) /\ nhPc' = "probing"
  BY DEF NH!Start
<1>4. pend' \subseteq HealthLines \cup {NH!All} /\ NH!Chosen(asked) \subseteq NH!Enabled
  BY <1>3 DEF NH!Leftover, NH!Wanted, NH!Enabled, NH!Chosen, NH!First
<1>5. NH!TypeOK'
  <2>1. nhPc' \in {"rest", "probing"}
    BY <1>2, <1>3
  <2>2. QED  BY <1>1, <1>2, <1>4, <2>1, TypesThen, HealthTypes DEF HealthInv
<1>6. CASE NH!Chosen(asked) = {}
  BY <1>1, <1>3, <1>5, <1>6, Aside
<1>7. CASE NH!Chosen(asked) # {}
  <2> DEFINE chosen == NH!Chosen(asked)
  <2>1. round' = NH!Open(chosen) /\ nhPc' = "probing" /\ chosen \subseteq NH!Enabled
    BY <1>3, <1>4, <1>7
  <2> HIDE DEF chosen
  <2>2. /\ round'.rev = policy.rev /\ round'.snap = [l \in NH!Enabled |-> profile[l]]
        /\ round'.first = [l \in chosen |-> "unknown"]
        /\ round' = [rev |-> round'.rev, snap |-> round'.snap, first |-> round'.first, late |-> round'.late]
    BY <2>1 DEF NH!Open
  <2>3. DOMAIN second' = {}
    BY <1>1, <1>2 DEF HealthInv, RoundInv, Stage
  <2>4. /\ DOMAIN round'.snap = NH!Enabled /\ NH!Enabled \subseteq HealthLines
        /\ DOMAIN round'.first = chosen /\ \A l \in chosen : round'.first[l] = "unknown"
        /\ policy.rev \in Nat
    BY <2>2, HealthTypes DEF NH!Enabled, HealthInv
  <2>5. RoundShape'
    BY <1>1, <2>1, <2>2, <2>4 DEF RoundShape, Verdicts
  <2>6. \A l \in NH!Enabled : round'.snap[l] = profile[l] /\ profile[l] \in Profiles /\ profile[l].gen >= 1
    BY <2>2, <2>4, HealthTypes DEF HealthInv, RoundInv, Born, NH!Enabled
  <2>7. \A l \in NH!Enabled : profile[l].gen \in Nat
    BY <2>6 DEF Profiles
  <2>8. Snapped'
    BY <1>1, <1>2, <2>4, <2>6, <2>7 DEF Snapped
  <2>9. Probed'
    BY <2>3, <2>4 DEF Probed
  <2>10. Stage'
    BY <2>1, <2>3 DEF Stage
  <2>11. QED  BY <1>1, <1>5, <2>5, <2>8, <2>9, <2>10, BornStays DEF HealthInv, RoundInv
<1>8. QED  BY <1>6, <1>7

\* A probe that is refused finds the policy, or the line, another.
LEMMA VerdictIs ==
    ASSUME HealthInv, NEW x, x = Direct \/ x \in DOMAIN round.snap
    PROVE  /\ NH!Verdict(x) \in Verdicts /\ NH!Verdict(x) # "unknown"
           /\ x # Direct /\ NH!Verdict(x) = "refused" => Over(x)
<1>1. NH!Verdict(x) \in Verdicts /\ NH!Verdict(x) # "unknown"
  BY DEF NH!Verdict, Verdicts
<1>2. ASSUME x # Direct, NH!Verdict(x) = "refused" PROVE Over(x)
  <2>1. ~NH!Admitted(x)
    BY <1>2 DEF NH!Verdict
  <2>2. \/ ~policy.enabled \/ policy.rev # round.rev
        \/ ~profile[x].live \/ profile[x].gen # round.snap[x].gen
    BY <1>2, <2>1 DEF NH!Admitted
  <2>3. x \in DOMAIN round.snap /\ x \in HealthLines
    BY <1>2 DEF HealthInv, RoundInv, RoundShape
  <2>4. /\ round.rev \in Nat /\ policy.rev \in Nat /\ round.rev <= policy.rev
        /\ policy.rev = round.rev => policy.enabled
    BY <2>3, HealthTypes DEF HealthInv, RoundInv, RoundShape, Snapped
  <2>5. /\ round.snap[x].gen \in Nat /\ profile[x].gen \in Nat /\ round.snap[x].gen <= profile[x].gen
    BY <2>3, HealthTypes DEF HealthInv, RoundInv, Snapped, Profiles
  <2>6. QED  BY <2>2, <2>4, <2>5 DEF Over
<1>3. QED  BY <1>1, <1>2

LEMMA ProbeFirstHealth ==
    ASSUME HealthInv, NEW l \in HealthLines, NH!ProbeFirst(l) PROVE HealthInv'
<1>1. UNCHANGED <<profile, recent, working, policy, hints, pend, nhPc, second, records>>
  BY DEF NH!ProbeFirst
<1>2. nhPc = "probing" /\ l \in DOMAIN round.first /\ round' = [round EXCEPT !.first[l] = NH!Verdict(l)]
  BY DEF NH!ProbeFirst
<1>3. RoundShape /\ Snapped /\ Probed /\ Stage
  BY DEF HealthInv, RoundInv
<1>4. /\ round'.rev = round.rev /\ round'.snap = round.snap
      /\ round'.first = [round.first EXCEPT ![l] = NH!Verdict(l)]
      /\ round' = [rev |-> round'.rev, snap |-> round'.snap, first |-> round'.first, late |-> round'.late]
  BY <1>2, <1>3 DEF RoundShape
<1>5. l \in DOMAIN round.snap /\ l # Direct
  BY <1>2, <1>3, HostApart DEF RoundShape
<1>6. NH!Verdict(l) \in Verdicts /\ NH!Verdict(l) # "unknown" /\ (NH!Verdict(l) = "refused" => Over(l))
  BY <1>5, VerdictIs
<1>7. /\ DOMAIN round'.first = DOMAIN round.first /\ round'.first[l] = NH!Verdict(l)
      /\ \A m \in DOMAIN round.first \ {l} : round'.first[m] = round.first[m]
  BY <1>2, <1>4
<1>8. NH!TypeOK'
  BY <1>1 DEF HealthInv, NH!TypeOK, NH!Places
<1>9. RoundShape'
  BY <1>1, <1>3, <1>4, <1>6, <1>7 DEF RoundShape
<1>10. Snapped'
  BY <1>1, <1>3, <1>4 DEF Snapped
<1>11. \A m \in DOMAIN round.snap : Over(m)' <=> Over(m)
  BY <1>1, <1>4 DEF Over
<1>12. Probed'
  <2>1. DOMAIN round.first \subseteq DOMAIN round.snap /\ DOMAIN second = {}
    BY <1>2, <1>3 DEF RoundShape, Stage
  <2>2. \A m \in DOMAIN round'.first : round'.first[m] = "refused" => Over(m)'
    BY <1>3, <1>5, <1>6, <1>7, <1>11, <2>1 DEF Probed
  <2>3. QED  BY <1>1, <2>1, <2>2 DEF Probed
<1>13. Stage'
  BY <1>1, <1>2, <1>3 DEF Stage
<1>14. QED  BY <1>1, <1>8, <1>9, <1>10, <1>12, <1>13, BornStays DEF HealthInv, RoundInv

\* The confirming probes: the first verdicts stand, the second ones come in.
LEMMA SecondMoves ==
    ASSUME HealthInv, UNCHANGED <<profile, recent, working, policy, hints, pend, round, records>>,
           nhPc' = "confirming",
           \A m \in DOMAIN round.first : round.first[m] # "unknown",
           NH!Bad \subseteq DOMAIN second',
           DOMAIN second' \subseteq DOMAIN round.snap \cup {Direct},
           \A x \in DOMAIN second' : second'[x] \in Verdicts,
           \A m \in DOMAIN second' \ {Direct} : second'[m] = "refused" => Over(m)
    PROVE  HealthInv'
<1>1. RoundShape /\ Snapped /\ Probed
  BY DEF HealthInv, RoundInv
<1>2. NH!TypeOK'
  <2>1. DOMAIN second' \subseteq HealthLines \cup {Direct}
    BY <1>1 DEF RoundShape
  <2>2. QED  BY <2>1, TypesThen, HealthTypes DEF HealthInv
<1>3. RoundShape' /\ Snapped' /\ Born'
  BY <1>1, BornStays DEF RoundShape, Snapped
<1>4. \A m : Over(m)' <=> Over(m)
  BY DEF Over
<1>5. Probed'
  BY <1>1, <1>4 DEF Probed
<1>6. NH!Bad' = NH!Bad
  BY DEF NH!Bad
<1>7. Stage'
  BY <1>6 DEF Stage
<1>8. QED  BY <1>2, <1>3, <1>5, <1>7 DEF HealthInv, RoundInv

LEMMA ConfirmHealth == ASSUME HealthInv, NH!Confirm PROVE HealthInv'
<1> DEFINE asked == NH!Bad \cup NH!First(DOMAIN round.snap \ NH!Bad, 2)
<1>1. second' = [l \in asked |-> "unknown"] /\ nhPc' = "confirming" /\ nhPc = "rest"
  BY DEF NH!Confirm, NH!Calls
<1>2. UNCHANGED <<profile, recent, working, policy, hints, pend, round, records>>
  BY DEF NH!Confirm
<1>3. NH!Bad \subseteq asked /\ asked \subseteq DOMAIN round.snap
  BY DEF HealthInv, RoundInv, RoundShape, NH!Bad, NH!First
<1>4. \A m \in DOMAIN round.first : round.first[m] # "unknown"
  BY <1>1 DEF HealthInv, RoundInv, Stage
<1> HIDE DEF asked
<1>5. DOMAIN second' = asked /\ \A x \in asked : second'[x] = "unknown"
  BY <1>1
<1>6. "unknown" \in Verdicts
  BY DEF Verdicts
<1>7. QED  BY <1>1, <1>2, <1>3, <1>4, <1>5, <1>6, SecondMoves

LEMMA ProbeSecondHealth ==
    ASSUME HealthInv, NEW l \in HealthLines, NH!ProbeSecond(l) PROVE HealthInv'
<1>1. UNCHANGED <<profile, recent, working, policy, hints, pend, round, nhPc, records>> /\ nhPc = "confirming"
  BY DEF NH!ProbeSecond
<1>2. l \in DOMAIN second /\ second' = [second EXCEPT ![l] = NH!Verdict(l)]
  BY DEF NH!ProbeSecond, NH!Asked
<1>3. Probed /\ Stage
  BY DEF HealthInv, RoundInv
<1>4. l # Direct /\ l \in DOMAIN round.snap
  BY <1>2, <1>3, HostApart DEF Probed
<1>5. NH!Verdict(l) \in Verdicts /\ (NH!Verdict(l) = "refused" => Over(l))
  BY <1>4, VerdictIs
<1>6. /\ DOMAIN second' = DOMAIN second /\ second'[l] = NH!Verdict(l)
      /\ \A x \in DOMAIN second \ {l} : second'[x] = second[x]
  BY <1>2
<1>7. /\ \A m \in DOMAIN round.first : round.first[m] # "unknown"
      /\ NH!Bad \subseteq DOMAIN second'
  BY <1>1, <1>3, <1>6 DEF Stage
<1>8. /\ DOMAIN second' \subseteq DOMAIN round.snap \cup {Direct}
      /\ \A x \in DOMAIN second' : second'[x] \in Verdicts
      /\ \A m \in DOMAIN second' \ {Direct} : second'[m] = "refused" => Over(m)
  BY <1>3, <1>5, <1>6 DEF Probed
<1>9. QED  BY <1>1, <1>7, <1>8, SecondMoves

LEMMA AskDirectHealth == ASSUME HealthInv, NH!AskDirect PROVE HealthInv'
<1>1. UNCHANGED <<profile, recent, working, policy, hints, pend, round, nhPc, records>> /\ nhPc = "confirming"
  BY DEF NH!AskDirect
<1>2. second' = [l \in DOMAIN second \cup {Direct} |-> IF l = Direct THEN NH!Verdict(Direct) ELSE second[l]]
  BY DEF NH!AskDirect
<1>3. Probed /\ Stage
  BY DEF HealthInv, RoundInv
<1>4. NH!Verdict(Direct) \in Verdicts
  BY VerdictIs
<1>5. /\ DOMAIN second' = DOMAIN second \cup {Direct} /\ second'[Direct] = NH!Verdict(Direct)
      /\ \A x \in DOMAIN second \ {Direct} : second'[x] = second[x]
  BY <1>2
<1>6. /\ \A m \in DOMAIN round.first : round.first[m] # "unknown"
      /\ NH!Bad \subseteq DOMAIN second'
  BY <1>1, <1>3, <1>5 DEF Stage
<1>7. /\ DOMAIN second' \subseteq DOMAIN round.snap \cup {Direct}
      /\ \A x \in DOMAIN second' : second'[x] \in Verdicts
      /\ \A m \in DOMAIN second' \ {Direct} : second'[m] = "refused" => Over(m)
  BY <1>3, <1>4, <1>5 DEF Probed
<1>8. QED  BY <1>1, <1>6, <1>7, SecondMoves

(***************************************************************************)
(* What a round saves, deletes and reports.                                *)
(***************************************************************************)

LEMMA FirstDoneHealth == ASSUME HealthInv, NH!FirstDone PROVE HealthInv'
<1>1. UNCHANGED <<profile, recent, working, policy, pend, second>>
  BY DEF NH!FirstDone
<1>2. nhPc = "probing" /\ nhPc' = "rest" /\ \A l \in DOMAIN round.first : round.first[l] # "unknown"
  BY DEF NH!FirstDone
<1>3. DOMAIN second = {}
  BY <1>2 DEF HealthInv, RoundInv, Stage
<1>4. hints' \in [HealthLines -> Hints] /\ records' \in [HealthLines -> Records]
  <2>1. CASE NH!Saves
    <3>1. NH!Save(NH!FirstStates)
      BY <2>1 DEF NH!FirstDone
    <3>2. /\ DOMAIN NH!FirstStates = DOMAIN round.first
          /\ \A l \in DOMAIN NH!FirstStates : NH!FirstStates[l] \in States
      BY DEF NH!FirstStates, States
    <3>3. QED  BY <3>1, <3>2, SaveIs
  <2>2. CASE ~NH!Saves
    <3>1. UNCHANGED <<records, hints>>
      BY <2>2 DEF NH!FirstDone
    <3>2. QED  BY <3>1, HealthTypes DEF HealthInv
  <2>3. QED  BY <2>1, <2>2
<1>5. NH!TypeOK'
  BY <1>1, <1>2, <1>4, TypesThen, HealthTypes DEF HealthInv
<1>6. CASE round' = NH!NoRound
  BY <1>1, <1>2, <1>3, <1>5, <1>6, BornStays, Dropped
<1>7. CASE round' = round
  <2>1. Stage'
    BY <1>1, <1>2, <1>3, <1>7 DEF Stage
  <2>2. QED  BY <1>1, <1>5, <1>7, <2>1, BornStays, Kept
<1>8. round' = NH!NoRound \/ round' = round
  BY DEF NH!FirstDone
<1>9. QED  BY <1>6, <1>7, <1>8

LEMMA JudgeHealth == ASSUME HealthInv, NH!Judge PROVE HealthInv'
<1>1. UNCHANGED <<profile, recent, working, policy, pend>>
  BY DEF NH!Judge
<1>2. nhPc = "confirming" /\ \A x \in DOMAIN second : second[x] # "unknown"
  BY DEF NH!Judge, NH!Asked
<1>3. CASE NH!Saves
  <2>1. NH!Save(NH!Judgements) /\ nhPc' = "saved" /\ round' = round /\ second' = second
    BY <1>3 DEF NH!Judge
  <2>2. /\ DOMAIN NH!Judgements = DOMAIN round.first
        /\ \A l \in DOMAIN NH!Judgements : NH!Judgements[l] \in States
    BY DEF NH!Judgements, NH!Judgement, States
  <2>3. hints' \in [HealthLines -> Hints] /\ records' \in [HealthLines -> Records]
    BY <2>1, <2>2, SaveIs
  <2>4. NH!TypeOK'
    BY <1>1, <2>1, <2>3, TypesThen, HealthTypes DEF HealthInv
  <2>5. Stage'
    <3>1. NH!Bad' = NH!Bad
      BY <2>1 DEF NH!Bad
    <3>2. QED  BY <1>2, <2>1, <3>1 DEF HealthInv, RoundInv, Stage
  <2>6. QED  BY <1>1, <2>1, <2>4, <2>5, BornStays, Kept
<1>4. CASE ~NH!Saves
  <2>1. UNCHANGED <<records, hints>> /\ nhPc' = "rest" /\ round' = NH!NoRound /\ DOMAIN second' = {}
    BY <1>4, NothingIn DEF NH!Judge
  <2>2. NH!TypeOK'
    BY <1>1, <2>1, TypesThen, HealthTypes DEF HealthInv
  <2>3. QED  BY <1>1, <2>1, <2>2, BornStays, Dropped
<1>5. QED  BY <1>3, <1>4

LEMMA ApplyHealth == ASSUME HealthInv, NH!Apply PROVE HealthInv'
<1>1. UNCHANGED <<recent, working, policy, hints, pend, records>> /\ nhPc = "saved"
  BY DEF NH!Apply
<1>2. hints \in [HealthLines -> Hints] /\ records \in [HealthLines -> Records]
      /\ profile \in [HealthLines -> Profiles] /\ pend \subseteq HealthLines \cup {NH!All}
      /\ DOMAIN second \subseteq HealthLines \cup {Direct}
  BY HealthTypes DEF HealthInv
<1>3. CASE NH!Saves
  <2>1. nhPc' = "applied" /\ round' = round /\ second' = second
        /\ profile' = [l \in HealthLines |->
              IF policy.retire /\ l \in NH!Removable
              THEN [profile[l] EXCEPT !.live = FALSE, !.on = FALSE] ELSE profile[l]]
    BY <1>3 DEF NH!Apply
  <2>2. \A p \in Profiles : /\ [p EXCEPT !.live = FALSE, !.on = FALSE] \in Profiles
                            /\ ~[p EXCEPT !.live = FALSE, !.on = FALSE].live
                            /\ [p EXCEPT !.live = FALSE, !.on = FALSE].gen = p.gen
    BY DEF Profiles
  <2>3. \A l \in HealthLines : profile[l] \in Profiles
    BY <1>2
  <2>4. profile' \in [HealthLines -> Profiles]
    BY <2>1, <2>2, <2>3
  <2>5. \A l \in HealthLines : \/ profile'[l] = profile[l]
                               \/ ~profile'[l].live /\ profile'[l].gen = profile[l].gen
    BY <2>1, <2>2, <2>3
  <2>6. Born' /\ \A l \in HealthLines : MovesOn(l)
    BY <2>5 DEF HealthInv, RoundInv, Born, MovesOn
  <2>7. NH!TypeOK'
    BY <1>1, <1>2, <2>1, <2>4, TypesThen
  <2>8. Stage'
    <3>1. NH!Bad' = NH!Bad
      BY <2>1 DEF NH!Bad
    <3>2. QED  BY <1>1, <2>1, <3>1 DEF HealthInv, RoundInv, Stage
  <2>9. QED  BY <1>1, <2>1, <2>6, <2>7, <2>8, Kept
<1>4. CASE ~NH!Saves
  <2>1. UNCHANGED profile /\ nhPc' = "rest" /\ round' = NH!NoRound /\ DOMAIN second' = {}
    BY <1>4, NothingIn DEF NH!Apply
  <2>2. NH!TypeOK'
    BY <1>1, <1>2, <2>1, TypesThen
  <2>3. QED  BY <1>1, <2>1, <2>2, BornStays, Dropped
<1>5. QED  BY <1>3, <1>4

LEMMA ReportHealth == ASSUME HealthInv, NH!Report PROVE HealthInv'
<1>1. UNCHANGED <<profile, recent, working, policy, pend>>
  BY DEF NH!Report
<1>2. nhPc' = "rest" /\ round' = NH!NoRound /\ DOMAIN second' = {}
  BY NothingIn DEF NH!Report
<1>3. hints' \in [HealthLines -> Hints] /\ records' \in [HealthLines -> Records]
  <2>1. CASE NH!Saves
    <3> DEFINE s == [l \in DOMAIN round.first |-> NH!Outcome(l)]
    <3>1. NH!Save(s)
      BY <2>1 DEF NH!Report
    <3>2. DOMAIN s = DOMAIN round.first /\ \A l \in DOMAIN s : s[l] \in States
      BY DEF NH!Outcome, NH!Judgement, States
    <3> HIDE DEF s
    <3>3. QED  BY <3>1, <3>2, SaveIs
  <2>2. CASE ~NH!Saves
    <3>1. UNCHANGED <<records, hints>>
      BY <2>2 DEF NH!Report
    <3>2. QED  BY <3>1, HealthTypes DEF HealthInv
  <2>3. QED  BY <2>1, <2>2
<1>4. NH!TypeOK'
  BY <1>1, <1>2, <1>3, TypesThen, HealthTypes DEF HealthInv
<1>5. QED  BY <1>1, <1>2, <1>4, BornStays, Dropped

LEMMA HealthStep == ASSUME HealthInv, NH!Next PROVE HealthInv'
<1>1. CASE NH!RunNetworkDue
  BY <1>1, DropHealth, StartHealth, FirstDoneHealth, ConfirmHealth, AskDirectHealth, JudgeHealth,
     ApplyHealth, ReportHealth, ProbeFirstHealth, ProbeSecondHealth DEF NH!RunNetworkDue
<1>2. CASE NH!Abort \/ NH!Configure \/ NH!IntervalPasses \/ NH!DeadlinePasses \/ NH!Restart
  BY <1>2, DropHealth, ConfigureHealth, AroundHealth, DeadlineHealth, RestartHealth
<1>3. CASE \E id \in HealthLines \cup {NH!All} : NH!Request(id)
  BY <1>3, RequestHealth
<1>4. ASSUME NEW l \in HealthLines,
             \/ NH!Observe(l) \/ NH!Quarantined(l) \/ NH!Import(l)
             \/ NH!Readdress(l) \/ NH!Toggle(l) \/ NH!Protect(l) \/ NH!Preflight(l)
             \/ NH!Delivers(l) \/ NH!HintAges(l) \/ NH!AccountMoves(l)
      PROVE  HealthInv'
  BY <1>4, ObserveHealth, EditHealth, PreflightHealth, AroundHealth, HintHealth
<1>5. CASE \E x \in Addresses \cup {Direct} : NH!Weather(x)
  BY <1>5, AroundHealth
<1>6. QED  BY <1>1, <1>2, <1>3, <1>4, <1>5 DEF NH!Next

LEMMA HealthStutters == ASSUME HealthInv, UNCHANGED NH!vars PROVE HealthInv'
<1>1. UNCHANGED <<profile, recent, working, policy, hints, pend, round, nhPc, second, records>>
  BY DEF NH!vars
<1>2. NH!TypeOK'
  BY <1>1, TypesThen, HealthTypes DEF HealthInv
<1>3. QED  BY <1>1, <1>2, Aside

\* A step of the run is a step of the inspection, or leaves it alone.
LEMMA HealthRuns == ASSUME [RunNext]_allVars PROVE [NH!Next]_NH!vars
<1>1. CASE UNCHANGED nhVars
  BY <1>1 DEF NH!vars, nhVars
<1>2. CASE Inspect(NH!Next)
  BY <1>2 DEF Inspect
<1>3. QED  BY <1>1, <1>2 DEF RunNext, allVars, Query, Initialize, Claim

LEMMA RunHealthInv == RunSpec => []HealthInv
<1>1. RunInit => HealthInv
  BY InitHealthInv DEF RunInit
<1>2. HealthInv /\ [RunNext]_allVars => HealthInv'
  BY HealthRuns, HealthStep, HealthStutters
<1>3. QED  BY <1>1, <1>2, PTL DEF RunSpec

\* The proof a deletion needs: both probes failed, because a line that is still the
\* line the round saw, under the policy the round was for, was never refused one.
LEMMA ProofOfDeletion ==
    ASSUME HealthInv, NH!Apply, NEW l \in HealthLines, profile[l].live, ~profile'[l].live
    PROVE  /\ round.first[l] = "failed" /\ second[l] = "failed"
           /\ round.snap[l] = profile[l] /\ ~profile[l].safe /\ l \notin recent
           /\ \E c \in DOMAIN second : second[c] = "ok" /\ NH!Independent(l, c)
           /\ policy.enabled /\ policy.retire /\ policy.rev = round.rev
<1>1. NH!Saves /\ policy.retire /\ l \in NH!Removable /\ nhPc = "saved"
  BY DEF NH!Apply
<1>2. l \in NH!Condemned /\ NH!Unchanged(l) /\ ~profile[l].safe /\ l \notin recent
  BY <1>1 DEF NH!Removable
<1>3. l \in DOMAIN round.first /\ l \in NH!Bad /\ second[l] # "ok" /\ NH!Witness(l)
  BY <1>2 DEF NH!Condemned, NH!Judgement
<1>4. RoundShape /\ Snapped /\ Probed /\ Stage
  BY DEF HealthInv, RoundInv
<1>5. l \in DOMAIN round.snap /\ l \in DOMAIN second
  BY <1>1, <1>3, <1>4 DEF RoundShape, Stage
<1>6. round.snap[l] = profile[l]
  BY <1>2, <1>4, <1>5 DEF Snapped, NH!Unchanged
<1>7. ~Over(l)
  <2>1. policy.rev = round.rev /\ round.rev \in Nat /\ profile[l].gen = round.snap[l].gen
        /\ profile[l].gen \in Nat
    BY <1>1, <1>2, HealthTypes DEF NH!Saves, NH!Unchanged, HealthInv, RoundInv, RoundShape, Profiles
  <2>2. QED  BY <2>1 DEF Over
<1>8. round.first[l] = "failed"
  <2>1. round.first[l] \in Verdicts /\ round.first[l] # "ok"
    BY <1>3, <1>4 DEF RoundShape, NH!Bad
  <2>2. round.first[l] # "unknown" /\ round.first[l] # "refused"
    BY <1>1, <1>3, <1>4, <1>7 DEF Stage, Probed
  <2>3. QED  BY <2>1, <2>2 DEF Verdicts
<1>9. second[l] = "failed"
  <2>1. second[l] \in Verdicts /\ second[l] # "unknown"
    BY <1>1, <1>4, <1>5 DEF Probed, Stage
  <2>2. second[l] # "refused"
    BY <1>4, <1>5, <1>7, HostApart DEF Probed
  <2>3. QED  BY <1>3, <2>1, <2>2 DEF Verdicts
<1>10. QED  BY <1>1, <1>2, <1>3, <1>6, <1>8, <1>9 DEF NH!Witness, NH!Saves

(* The inspection deletes a line only on full proof, whatever the lines, addresses,
   groups and bounds: both probes of its present configuration really went out and
   failed, something independent answered, the policy of the round stands and asks for
   it, and nobody protects the line (modelprobe/network.go, purgeProxyProfilesIfCurrentLocked). *)
THEOREM UpkeepDeletesOnProof == RunSpec => DeletedOnProof
<1>1. HealthInv /\ [RunNext]_allVars =>
        [NH!Apply => \A l \in HealthLines : profile[l].live /\ ~profile'[l].live =>
           /\ round.first[l] = "failed" /\ second[l] = "failed"
           /\ round.snap[l] = profile[l] /\ ~profile[l].safe /\ l \notin recent
           /\ \E c \in DOMAIN second : second[c] = "ok" /\ NH!Independent(l, c)
           /\ policy.enabled /\ policy.retire /\ policy.rev = round.rev]_NH!vars
  BY ProofOfDeletion
<1>2. HealthInv => NH!TypeOK
  BY DEF HealthInv
<1>3. QED  BY <1>1, <1>2, RunHealthInv, PTL DEF RunSpec, DeletedOnProof, NH!DeletedOnProof
=============================================================================
