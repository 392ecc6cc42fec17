--------------------------- MODULE ModelProbeProof ---------------------------
(***************************************************************************)
(* The model probe retires a line only on proof that stands, and two of its  *)
(* requests never share an account or an address, for any lines, accounts,   *)
(* groups, protected lines, times and limits and any number of runs.         *)
(***************************************************************************)
EXTENDS ModelProbe, FiniteSetTheorems, WellFoundedInduction, TLAPS

\* Lines and accounts are finitely many, the direct route is no line, the order of the
\* identifiers is strict, times and limits are natural, and a success ranks a reference at
\* least as long as it is evidence (model_probe.go:437-491, 768-782).
ProbeTerms ==
    /\ Direct \notin Lines /\ Direct # Free /\ Free \notin Lines /\ IsFiniteSet(Accounts)
    /\ Rank \in [Lines -> Nat] /\ \A x, y \in Lines : Rank[x] = Rank[y] => x = y
    /\ Gap \in Nat /\ Window \in Nat \ {0} /\ RankWindow \in Nat /\ Window <= RankWindow
    /\ Term \in Nat /\ Pause \in Nat /\ DiagnosisGap \in Nat
    /\ MaxAttempts \in Nat /\ EvidenceLimit \in Nat /\ MaxRuns \in Nat /\ MaxMoves \in Nat

(***************************************************************************)
(* The inductive invariant.                                                *)
(***************************************************************************)

Places == Lines \cup {Direct}
Roles == {"screen", "reference", "target"}
Whos == [acct : Accounts, cred : Nat, bind : Nat]
Indices == Nat \ {0}
RunSet == [target : Lines \cup {Free}, state : {"free", "waiting", "running", "ended"},
    phase : Roles, round : 0 .. 2, next : Int, deadline : Int, attempts : 0 .. MaxAttempts,
    gen : Nat, rev : Nat, accounts : Seq(Whos), index : Indices, ref : Places \cup {Free}]
LeaseSet == [at : {"taken", "sent", "conflict", "budget"}, who : Whos, role : Roles,
    line : Places, gen : Nat, round : 0 .. 2, rev : Nat]
ProofSet == [run : Runs, role : Roles, round : 0 .. 2, line : Places, gen : Nat,
    acct : Accounts, cred : Nat, at : Nat, ok : BOOLEAN]
BusinessSet == [at : Nat, gen : Nat, acct : Accounts, cred : Nat]

\* What is set around the runs.
AroundType ==
    /\ now \in Nat
    /\ line \in [Lines -> [on : BOOLEAN, gen : Nat]]
    /\ retired \subseteq Lines
    /\ acct \in [Accounts -> [cred : Nat, bind : Nat, ready : BOOLEAN]]
    /\ policy \in [rev : Nat, on : BOOLEAN, retire : BOOLEAN]
    /\ business \in [Lines -> BusinessSet \cup {NoSuccess}]
    /\ \A l \in Lines : business[l] # NoSuccess => business[l].at <= now
    /\ moves \in 0 .. MaxMoves
    /\ retired \cap Protected = {}

\* What the decisions are kept in.
DecisionType ==
    /\ paused \in Nat /\ incomplete \in Nat
    /\ diagnosed \in [Lines -> Int]
    /\ saved \in [paused : Nat, diagnosed : [Lines -> Int]]
    /\ answered \in Int /\ answered <= now
    /\ proofs \in Seq(ProofSet) /\ Len(proofs) <= EvidenceLimit + moves
    /\ seen \subseteq ProofSet

RunType ==
    /\ run \in [Runs -> RunSet]
    /\ lease \in [Runs -> LeaseSet \cup {NoLease}]

\* A run in use has a line for a target, and, past its first request, a reference.
Chosen(r) ==
    /\ r.state # "free" => r.target \in Lines
    /\ r.state # "free" /\ r.phase # "screen" => r.ref \in Places

\* What a run has to do with its lease.
Bound(i) ==
    /\ run[i].state = "running" => lease[i] # NoLease
    /\ lease[i] # NoLease =>
           /\ run[i].state # "free" /\ lease[i].role = run[i].phase
           /\ lease[i].role = "target" => lease[i].line = run[i].target

RunsStand == \A i \in Runs : Chosen(run[i]) /\ Bound(i)

\* The proofs are in the order of their arrival.
Sorted ==
    \A j, k \in DOMAIN proofs : proofs[k].at <= now /\ (j <= k => proofs[j].at <= proofs[k].at)

\* What was saved within the window is among the proofs, or decisions are suspended
\* until it is out of date.
Remembered ==
    \A e \in seen :
        /\ Recent(e.at) /\ e.at <= answered
        /\ (\E k \in DOMAIN proofs : proofs[k] = e) \/ e.at + Window <= incomplete

\* A proof that could not be saved is of a run that has ended, and a proof over a target is
\* over the target of its run.
Backed(e) ==
    /\ e \in seen \/ (run[e.run].state = "ended" /\ lease[e.run] = NoLease)
    /\ run[e.run].state # "free"
    /\ e.role = "target" => e.line = run[e.run].target

ProofsStand == \A k \in DOMAIN proofs : Backed(proofs[k])

ProbeInv ==
    /\ AroundType /\ DecisionType /\ RunType
    /\ RunsStand /\ Sorted /\ Remembered /\ ProofsStand /\ OneAtATime

(***************************************************************************)
(* Numbers, sequences and choices.                                         *)
(***************************************************************************)

\* A set of naturals that is not empty has a least element.
LEMMA LeastNat ==
    ASSUME NEW D \in SUBSET Nat, D # {}
    PROVE  \E j \in D : \A y \in D : j <= y
<1> DEFINE R == OpToRel(<, Nat)
<1>1. IsWellFoundedOn(R, Nat) /\ \A i, j \in Nat : i < j => <<i, j>> \in R
  BY NatLessThanWellFounded DEF OpToRel
<1> HIDE DEF R
<1>2. D \subseteq Nat /\ D # {}
  OBVIOUS
<1>3. PICK j \in D : \A i \in D : ~(<<i, j>> \in R)
  <2>1. IsWellFoundedOn(R, Nat)
    BY <1>1
  <2>2. \E x \in D : \A y \in D : ~(<<y, x>> \in R)
    BY ONLY <1>2, <2>1, WFMin
  <2>3. QED  BY <2>2
<1>4. \A y \in D : y \in Nat /\ j \in Nat /\ ~(y < j)
  BY <1>1, <1>3
<1>5. QED  BY <1>4

LEMMA MinIs ==
    ASSUME NEW D \in SUBSET Nat, D # {}
    PROVE  Min(D) \in D /\ \A y \in D : Min(D) <= y
<1>1. PICK j \in D : \A y \in D : j <= y
  BY LeastNat
<1>2. QED  BY <1>1 DEF Min

\* A set of integers with a bound that is not empty has a greatest element.
LEMMA MaxIs ==
    ASSUME NEW D \in SUBSET Int, D # {}, NEW b \in Int, \A y \in D : y <= b
    PROVE  Max(D) \in D /\ \A y \in D : y <= Max(D)
<1> DEFINE E == {j \in Nat : b - j \in D}
<1>1. E \in SUBSET Nat /\ E # {}
  <2>1. PICK y \in D : TRUE
    OBVIOUS
  <2>2. b - y \in Nat /\ b - (b - y) = y
    BY <2>1
  <2>3. b - y \in E
    BY <2>1, <2>2
  <2>4. QED  BY <2>3
<1>2. PICK j \in E : \A i \in E : j <= i
  BY <1>1, LeastNat
<1>3. \A y \in D : b - y \in E
  <2>1. ASSUME NEW y \in D PROVE b - y \in E
    <3>1. b - y \in Nat /\ b - (b - y) = y
      OBVIOUS
    <3>2. QED  BY <3>1
  <2>2. QED  BY <2>1
<1>4. b - j \in D /\ \A y \in D : y <= b - j
  BY <1>2, <1>3
<1>5. QED  BY <1>4 DEF Max

\* The proofs that are out of date are the first ones, as many as they are.
LEMMA StaleFirst ==
    ASSUME ProbeTerms, AroundType, DecisionType, Sorted, NEW at \in Nat
    PROVE  /\ Cardinality(Stale(at)) \in 0 .. Len(proofs)
           /\ \A k \in DOMAIN proofs : k <= Cardinality(Stale(at)) <=> proofs[k].at + Window <= at
<1>1. DOMAIN proofs = 1 .. Len(proofs) /\ Len(proofs) \in Nat
      /\ \A k \in 1 .. Len(proofs) : proofs[k] \in ProofSet /\ proofs[k].at \in Nat
  <2>1. proofs \in Seq(ProofSet)
    BY DEF DecisionType
  <2>2. DOMAIN proofs = 1 .. Len(proofs) /\ Len(proofs) \in Nat
        /\ \A k \in 1 .. Len(proofs) : proofs[k] \in ProofSet
    BY <2>1
  <2>3. \A e \in ProofSet : e.at \in Nat
    BY DEF ProofSet
  <2>4. QED  BY <2>2, <2>3
<1>2. CASE Stale(at) = {}
  <2>1. Cardinality(Stale(at)) = 0
    BY <1>2, FS_EmptySet
  <2>2. \A k \in 1 .. Len(proofs) : ~(proofs[k].at + Window <= at) /\ ~(k <= 0)
    BY <1>1, <1>2 DEF Stale
  <2>3. QED  BY <1>1, <2>1, <2>2
<1>3. CASE Stale(at) # {}
  <2>1. Stale(at) \in SUBSET Int /\ \A y \in Stale(at) : y <= Len(proofs)
    BY <1>1 DEF Stale
  <2> DEFINE m == Max(Stale(at))
  <2>2. m \in Stale(at) /\ \A y \in Stale(at) : y <= m
    <3> HIDE DEF Stale
    <3>1. Len(proofs) \in Int
      BY <1>1
    <3>2. QED  BY <1>3, <2>1, <3>1, MaxIs
  <2> HIDE DEF m
  <2>3. m \in 1 .. Len(proofs) /\ proofs[m].at + Window <= at
    BY <1>1, <2>2 DEF Stale
  <2>4. \A k \in 1 .. m : proofs[k].at + Window <= at
    <3>1. Window \in Nat
      BY DEF ProbeTerms
    <3>2. ASSUME NEW k \in 1 .. m PROVE proofs[k].at + Window <= at
      <4>1. k \in DOMAIN proofs /\ m \in DOMAIN proofs /\ k <= m
        BY <1>1, <2>3
      <4>2. proofs[k].at <= proofs[m].at /\ proofs[k].at \in Nat /\ proofs[m].at \in Nat
        BY <1>1, <4>1 DEF Sorted
      <4>3. QED  BY <2>3, <3>1, <4>2
    <3>3. QED  BY <3>2
  <2>5. Stale(at) = 1 .. m
    BY <1>1, <2>2, <2>3, <2>4 DEF Stale
  <2>6. Cardinality(1 .. m) = m
    <3>1. 1 \in Int /\ m \in Int /\ m >= 1
      BY <1>1, <2>3
    <3>2. Cardinality(1 .. m) = m - 1 + 1
      BY <3>1, FS_Interval
    <3>3. QED  BY <3>1, <3>2
  <2>7. \A k \in 1 .. Len(proofs) : k <= m <=> proofs[k].at + Window <= at
    <3>1. \A k \in 1 .. Len(proofs) : proofs[k].at + Window <= at => k \in Stale(at)
      BY <1>1 DEF Stale
    <3>2. QED  BY <1>1, <2>2, <2>3, <2>4, <3>1
  <2>8. QED  BY <1>1, <2>3, <2>5, <2>6, <2>7
<1>4. QED  BY <1>2, <1>3

\* The reference that is chosen is a line or the direct route, if there is one.
LEMMA ReferenceIs ==
    ASSUME ProbeTerms, AroundType, NEW l \in Lines
    PROVE  Reference(l) \in Places \cup {Free}
<1> DEFINE cands == {x \in Lines \ {l} : Usable(x) /\ Apart(x, l)}
           fresh(x) == IF RecentBusiness(x, RankWindow) THEN business[x].at ELSE -1
           best(x) == \A y \in cands \ {x} :
                \/ fresh(x) > fresh(y)
                \/ fresh(x) = fresh(y) /\ Rank[x] < Rank[y]
<1>1. CASE cands = {}
  BY <1>1 DEF Reference, Places
<1>2. CASE cands # {}
  <2>1. \A x \in cands : fresh(x) \in Int /\ fresh(x) <= now
    <3>1. ASSUME NEW x \in cands PROVE fresh(x) \in Int /\ fresh(x) <= now
      <4>1. x \in Lines /\ now \in Nat
        BY DEF AroundType
      <4>2. business[x] # NoSuccess => business[x].at \in Nat /\ business[x].at <= now
        BY <4>1 DEF AroundType, BusinessSet
      <4>3. business[x] = NoSuccess => ~RecentBusiness(x, RankWindow)
        BY <4>1 DEF RecentBusiness, NoSuccess, ProbeTerms
      <4>4. QED  BY <4>1, <4>2, <4>3
    <3>2. QED  BY <3>1
  <2> DEFINE F == {fresh(x) : x \in cands}
  <2>2. F \in SUBSET Int /\ F # {} /\ \A y \in F : y <= now
    BY <1>2, <2>1
  <2>3. Max(F) \in F /\ \A y \in F : y <= Max(F)
    <3> HIDE DEF F
    <3>1. now \in Int
      BY DEF AroundType
    <3>2. QED  BY <2>2, <3>1, MaxIs
  <2> DEFINE m == Max(F)
             top == {x \in cands : fresh(x) = m}
             R == {Rank[x] : x \in top}
  <2>4. top # {} /\ top \subseteq Lines
    BY <2>3
  <2>5. R \in SUBSET Nat /\ R # {}
    <3>1. \A x \in top : Rank[x] \in Nat
      BY <2>4 DEF ProbeTerms
    <3> HIDE DEF top
    <3>2. QED  BY <2>4, <3>1
  <2>6. Min(R) \in R /\ \A y \in R : Min(R) <= y
    <3> HIDE DEF R
    <3>1. QED  BY <2>5, MinIs
  <2>7. PICK x \in top : Rank[x] = Min(R)
    BY <2>6
  <2>8. best(x)
    <3>1. SUFFICES ASSUME NEW y \in cands \ {x}
                   PROVE  fresh(x) > fresh(y) \/ (fresh(x) = fresh(y) /\ Rank[x] < Rank[y])
      OBVIOUS
    <3>2. fresh(y) \in F /\ fresh(y) <= m /\ fresh(x) = m /\ fresh(y) \in Int /\ m \in Int
      BY <2>1, <2>3, <2>7
    <3>3. CASE fresh(y) = m
      <4>1. y \in top
        BY <3>3
      <4>2. Rank[y] \in R
        BY <4>1
      <4>3. Rank[x] <= Rank[y] /\ Rank[x] # Rank[y] /\ Rank[x] \in Nat /\ Rank[y] \in Nat
        BY <2>4, <2>6, <2>7, <4>1, <4>2 DEF ProbeTerms
      <4>4. QED  BY <3>2, <3>3, <4>3
    <3>4. QED  BY <3>2, <3>3
  <2>9. \E z \in cands : best(z)
    BY <2>7, <2>8
  <2>10. Reference(l) = CHOOSE z \in cands : best(z)
    BY <1>2 DEF Reference
  <2> HIDE DEF best
  <2>11. QED  BY <2>9, <2>10 DEF Places
<1>3. QED  BY <1>1, <1>2

(***************************************************************************)
(* Init and what happens around the runs.                                  *)
(***************************************************************************)

LEMMA NoRunIs ==
    ASSUME ProbeTerms PROVE NoRun \in RunSet /\ NoRun.state = "free" /\ NoRun.phase = "screen"
  BY DEF ProbeTerms, NoRun, RunSet, Roles, Indices

LEMMA InitProbe == ASSUME ProbeTerms, Init PROVE ProbeInv
<1>1. NoRun \in RunSet
  BY NoRunIs
<1>2. AroundType
  BY DEF Init, AroundType, ProbeTerms
<1>3. DecisionType
  BY DEF Init, DecisionType, ProbeTerms
<1>4. RunType
  BY <1>1 DEF Init, RunType
<1>5. RunsStand
  BY DEF Init, RunsStand, Chosen, Bound, NoRun
<1>6. Sorted /\ Remembered /\ ProofsStand
  BY DEF Init, Sorted, Remembered, ProofsStand
<1>7. OneAtATime
  BY DEF Init, OneAtATime, Leased
<1>8. QED  BY <1>2, <1>3, <1>4, <1>5, <1>6, <1>7 DEF ProbeInv

\* Whatever moves, what was said of the proofs stays true if no evidence is touched and
\* no run is freed, resumed or given another target.
LEMMA SameProofs ==
    ASSUME ProbeInv, UNCHANGED <<proofs, seen, answered, now>>, incomplete' = incomplete,
           \A i \in Runs :
                /\ run[i].state # "free" => run'[i].state # "free" /\ run'[i].target = run[i].target
                /\ run[i].state = "ended" => run'[i].state = "ended"
                /\ run[i].state = "ended" /\ lease[i] = NoLease => lease'[i] = NoLease
    PROVE  Sorted' /\ Remembered' /\ ProofsStand'
<1>1. Sorted'
  BY DEF ProbeInv, Sorted
<1>2. Remembered'
  BY DEF ProbeInv, Remembered, Recent
<1>3. ProofsStand'
  <2>1. \A k \in DOMAIN proofs : proofs[k].run \in Runs
    <3>1. proofs \in Seq(ProofSet)
      BY DEF ProbeInv, DecisionType
    <3>2. \A k \in DOMAIN proofs : proofs[k] \in ProofSet
      BY <3>1
    <3>3. QED  BY <3>2 DEF ProofSet
  <2>2. \A k \in DOMAIN proofs : Backed(proofs[k])
    BY DEF ProbeInv, ProofsStand
  <2>3. ASSUME NEW k \in DOMAIN proofs PROVE Backed(proofs[k])'
    BY <2>1, <2>2 DEF Backed
  <2>4. QED  BY <2>3 DEF ProofsStand
<1>4. QED  BY <1>1, <1>2, <1>3

LEMMA SameRuns ==
    ASSUME ProbeInv, UNCHANGED <<run, lease>>
    PROVE  /\ RunType' /\ RunsStand' /\ OneAtATime'
           /\ \A i \in Runs :
                /\ run[i].state # "free" => run'[i].state # "free" /\ run'[i].target = run[i].target
                /\ run[i].state = "ended" => run'[i].state = "ended"
                /\ run[i].state = "ended" /\ lease[i] = NoLease => lease'[i] = NoLease
<1>1. RunType'
  BY DEF ProbeInv, RunType
<1>2. RunsStand'
  BY DEF ProbeInv, RunsStand, Chosen, Bound
<1>3. OneAtATime'
  BY DEF ProbeInv, OneAtATime, Leased
<1>4. QED  BY <1>1, <1>2, <1>3

LEMMA EditLineProbe == ASSUME ProbeTerms, ProbeInv, NEW l \in Lines, EditLine(l) PROVE ProbeInv'
<1>1. AroundType'
  <2>1. PICK on \in BOOLEAN : line' = [line EXCEPT ![l] = [on |-> on, gen |-> @.gen + 1]]
    BY DEF EditLine
  <2>2. line' \in [Lines -> [on : BOOLEAN, gen : Nat]]
    BY <2>1 DEF ProbeInv, AroundType
  <2>3. QED  BY <2>2 DEF EditLine, Move, ProbeInv, AroundType, ProbeTerms
<1>2. DecisionType'
  BY DEF EditLine, Move, ProbeInv, DecisionType, AroundType, ProbeTerms
<1>3. UNCHANGED <<run, lease, proofs, seen, answered, now, incomplete>>
  BY DEF EditLine
<1>4. QED  BY <1>1, <1>2, <1>3, SameRuns, SameProofs DEF ProbeInv

LEMMA BusinessProbe ==
    ASSUME ProbeTerms, ProbeInv, NEW l \in Lines, NEW a \in Accounts, Business(l, a) PROVE ProbeInv'
<1>1. AroundType'
  <2> DEFINE b == [at |-> now, gen |-> line[l].gen, acct |-> a, cred |-> acct[a].cred]
  <2>1. b \in BusinessSet /\ b.at = now
    BY DEF ProbeInv, AroundType, BusinessSet
  <2>2. business' = [business EXCEPT ![l] = b]
    BY DEF Business
  <2> HIDE DEF b
  <2>3. business' \in [Lines -> BusinessSet \cup {NoSuccess}]
        /\ \A x \in Lines : business'[x] # NoSuccess => business'[x].at <= now
    BY <2>1, <2>2 DEF ProbeInv, AroundType
  <2>4. QED  BY <2>3 DEF Business, Move, ProbeInv, AroundType, ProbeTerms
<1>2. DecisionType'
  BY DEF Business, Move, ProbeInv, DecisionType, AroundType, ProbeTerms
<1>3. UNCHANGED <<run, lease, proofs, seen, answered, now, incomplete>>
  BY DEF Business
<1>4. QED  BY <1>1, <1>2, <1>3, SameRuns, SameProofs DEF ProbeInv

LEMMA EditAccountProbe ==
    ASSUME ProbeTerms, ProbeInv, NEW a \in Accounts, EditAccount(a) PROVE ProbeInv'
<1>1. AroundType'
  <2>1. acct' \in [Accounts -> [cred : Nat, bind : Nat, ready : BOOLEAN]]
    <3> DEFINE S == [cred : Nat, bind : Nat, ready : BOOLEAN]
    <3>1. acct \in [Accounts -> S] /\ acct[a] \in S
      BY DEF ProbeInv, AroundType
    <3>2. /\ [acct[a] EXCEPT !.cred = @ + 1] \in S
          /\ [acct[a] EXCEPT !.bind = @ + 1] \in S
          /\ \A b \in BOOLEAN : [acct[a] EXCEPT !.ready = b] \in S
      BY <3>1
    <3>3. (~acct[a].ready) \in BOOLEAN
      OBVIOUS
    <3>4. \E v \in S : acct' = [acct EXCEPT ![a] = v]
      BY <3>2, <3>3 DEF EditAccount
    <3> HIDE DEF S
    <3>5. acct' \in [Accounts -> S]
      BY <3>1, <3>4
    <3>6. QED  BY <3>5 DEF S
  <2>2. QED  BY <2>1 DEF EditAccount, Move, ProbeInv, AroundType, ProbeTerms
<1>2. DecisionType'
  <2>1. UNCHANGED <<now, paused, incomplete, diagnosed, saved, answered, proofs, seen>> /\ Move
    BY DEF EditAccount
  <2>2. QED  BY <2>1 DEF Move, ProbeInv, DecisionType, AroundType, ProbeTerms
<1>3. UNCHANGED <<run, lease, proofs, seen, answered, now, incomplete>>
  BY DEF EditAccount
<1>4. QED  BY <1>1, <1>2, <1>3, SameRuns, SameProofs DEF ProbeInv

\* A run that is ended keeps everything else.
LEMMA EndedIs ==
    ASSUME NEW r \in RunSet
    PROVE  /\ Ended(r) \in RunSet /\ Ended(r).state = "ended" /\ Ended(r).target = r.target
           /\ Ended(r).phase = r.phase /\ Ended(r).ref = r.ref
  BY DEF Ended, RunSet

LEMMA InterruptedIs ==
    ASSUME RunType, RunsStand
    PROVE  /\ Interrupted \in [Runs -> RunSet]
           /\ \A i \in Runs :
                /\ Interrupted[i].state = (IF run[i].state = "free" THEN "free" ELSE "ended")
                /\ Interrupted[i].target = run[i].target /\ Interrupted[i].phase = run[i].phase
                /\ Chosen(Interrupted[i])
<1>1. ASSUME NEW i \in Runs
      PROVE  /\ Interrupted[i] \in RunSet
             /\ Interrupted[i].state = (IF run[i].state = "free" THEN "free" ELSE "ended")
             /\ Interrupted[i].target = run[i].target /\ Interrupted[i].phase = run[i].phase
             /\ Chosen(Interrupted[i])
  <2>1. run[i] \in RunSet /\ Chosen(run[i]) /\ run[i].state \in {"free", "waiting", "running", "ended"}
    BY DEF RunType, RunsStand, RunSet
  <2>2. Interrupted[i] = IF Open(run[i]) THEN Ended(run[i]) ELSE run[i]
    BY DEF Interrupted
  <2>3. CASE Open(run[i])
    BY <2>1, <2>2, <2>3, EndedIs DEF Open, Chosen
  <2>4. CASE ~Open(run[i])
    BY <2>1, <2>2, <2>4 DEF Open
  <2>5. QED  BY <2>3, <2>4
<1>2. QED  BY <1>1 DEF Interrupted

LEMMA SaveProbe ==
    ASSUME ProbeTerms, ProbeInv, NEW on \in BOOLEAN, NEW retire \in BOOLEAN, Save(on, retire)
    PROVE  ProbeInv'
<1>1. AroundType'
  <2>1. policy' \in [rev : Nat, on : BOOLEAN, retire : BOOLEAN]
    BY DEF Save, ProbeInv, AroundType
  <2>2. QED  BY <2>1 DEF Save, Move, ProbeInv, AroundType, ProbeTerms
<1>2. DecisionType'
  BY DEF Save, Move, ProbeInv, DecisionType, AroundType, ProbeTerms
<1>3. /\ run' = Interrupted /\ lease' = lease
      /\ UNCHANGED <<proofs, seen, answered, now>> /\ incomplete' = incomplete
  BY DEF Save
<1>4. RunType /\ RunsStand
  BY DEF ProbeInv
<1>5. RunType'
  BY <1>3, <1>4, InterruptedIs DEF RunType
<1>6. RunsStand'
  <2>1. \A i \in Runs : Chosen(run'[i])
    BY <1>3, <1>4, InterruptedIs
  <2>2. \A i \in Runs : Bound(i)'
    BY <1>3, <1>4, InterruptedIs DEF RunsStand, Bound
  <2>3. QED  BY <2>1, <2>2 DEF RunsStand, Chosen
<1>7. OneAtATime'
  BY <1>3 DEF ProbeInv, OneAtATime, Leased
<1>8. Sorted' /\ Remembered' /\ ProofsStand'
  BY <1>3, <1>4, InterruptedIs, SameProofs
<1>9. QED  BY <1>1, <1>2, <1>5, <1>6, <1>7, <1>8 DEF ProbeInv

LEMMA RestartProbe == ASSUME ProbeTerms, ProbeInv, Restart PROVE ProbeInv'
<1>1. now' = now /\ now \in Nat /\ answered \in Int /\ Window \in Nat /\ incomplete \in Nat
  BY DEF Restart, ProbeInv, AroundType, DecisionType, ProbeTerms
<1>2. incomplete' \in Nat /\ incomplete' >= answered + Window
  <2>1. {incomplete, answered + Window} \in SUBSET Int /\ {incomplete, answered + Window} # {}
    BY <1>1
  <2>2. incomplete <= incomplete + now + Window /\ answered + Window <= incomplete + now + Window
    BY <1>1 DEF ProbeInv, DecisionType
  <2>3. incomplete + now + Window \in Int
    BY <1>1
  <2> DEFINE m == Max({incomplete, answered + Window})
  <2>4. m \in {incomplete, answered + Window} /\ m >= incomplete /\ m >= answered + Window
    <3>1. \A y \in {incomplete, answered + Window} : y <= incomplete + now + Window
      BY <2>2
    <3>2. m \in {incomplete, answered + Window} /\ \A y \in {incomplete, answered + Window} : y <= m
      BY <2>1, <2>3, <3>1, MaxIs
    <3> HIDE DEF m
    <3>3. m \in Int
      BY <1>1, <3>2
    <3>4. QED  BY <1>1, <3>2, <3>3
  <2>5. incomplete' = m
    BY DEF Restart
  <2> HIDE DEF m
  <2>6. QED  BY <1>1, <2>4, <2>5
<1>3. AroundType'
  BY DEF Restart, Move, ProbeInv, AroundType, ProbeTerms, NoSuccess
<1>4. DecisionType'
  BY <1>1, <1>2 DEF Restart, Move, ProbeInv, AroundType, DecisionType, ProbeTerms
<1>5. RunType /\ RunsStand
  BY DEF ProbeInv
<1>6. run' = Interrupted /\ lease' = [i \in Runs |-> NoLease] /\ proofs' = <<>> /\ seen' = seen /\ answered' = answered
  BY DEF Restart
<1>7. RunType'
  BY <1>5, <1>6, InterruptedIs DEF RunType
<1>8. RunsStand'
  <2>1. \A i \in Runs : Chosen(run'[i])
    BY <1>5, <1>6, InterruptedIs
  <2>2. \A i \in Runs : Bound(i)'
    BY <1>5, <1>6, InterruptedIs DEF Bound
  <2>3. QED  BY <2>1, <2>2 DEF RunsStand, Chosen
<1>9. OneAtATime'
  BY <1>6 DEF OneAtATime, Leased
<1>10. Sorted' /\ ProofsStand'
  BY <1>6 DEF Sorted, ProofsStand
<1>11. Remembered'
  <2>1. \A e \in seen : e.at \in Nat
    BY DEF ProbeInv, DecisionType, ProofSet
  <2>2. QED  BY <1>1, <1>2, <1>6, <2>1 DEF ProbeInv, Remembered, Recent
<1>12. QED  BY <1>3, <1>4, <1>7, <1>8, <1>9, <1>10, <1>11 DEF ProbeInv

LEMMA TickProbe == ASSUME ProbeTerms, ProbeInv, Tick PROVE ProbeInv'
<1> DEFINE n == Cardinality(Stale(now + 1))
<1>1. now \in Nat /\ now' = now + 1 /\ Window \in Nat /\ proofs \in Seq(ProofSet) /\ Len(proofs) \in Nat
  BY DEF Tick, ProbeInv, AroundType, DecisionType, ProbeTerms
<1>2. /\ n \in 0 .. Len(proofs)
      /\ \A k \in DOMAIN proofs : k <= n <=> proofs[k].at + Window <= now'
  <2>1. now + 1 \in Nat
    BY <1>1
  <2>2. QED  BY <1>1, <2>1, StaleFirst DEF ProbeInv
<1>3. proofs' = SubSeq(proofs, n + 1, Len(proofs))
  BY <1>1 DEF Tick
<1> HIDE DEF n
<1>4. /\ proofs' \in Seq(ProofSet) /\ Len(proofs') = Len(proofs) - n
      /\ DOMAIN proofs' = 1 .. (Len(proofs) - n) /\ DOMAIN proofs = 1 .. Len(proofs)
      /\ \A k \in 1 .. (Len(proofs) - n) : proofs'[k] = proofs[k + n]
  BY <1>1, <1>2, <1>3
<1>5. \A k \in DOMAIN proofs : proofs[k] \in ProofSet /\ proofs[k].at \in Nat
  <2>1. \A k \in DOMAIN proofs : proofs[k] \in ProofSet
    BY <1>1
  <2>2. QED  BY <2>1 DEF ProofSet
<1>6. \A k \in DOMAIN proofs' : k + n \in DOMAIN proofs /\ k + n > n
  BY <1>1, <1>2, <1>4
<1>7. AroundType'
  BY <1>1 DEF Tick, ProbeInv, AroundType, BusinessSet
<1>8. DecisionType'
  <2>1. UNCHANGED <<paused, incomplete, diagnosed, saved, answered, moves>> /\ seen' \subseteq seen
    BY DEF Tick
  <2>2. Len(proofs') <= EvidenceLimit + moves'
    <3>1. Len(proofs) <= EvidenceLimit + moves /\ EvidenceLimit + moves \in Int
      BY DEF ProbeInv, DecisionType, AroundType, ProbeTerms
    <3>2. QED  BY <1>1, <1>2, <1>4, <2>1, <3>1
  <2>3. answered' <= now'
    BY <1>1, <2>1 DEF ProbeInv, DecisionType
  <2>4. QED  BY <1>4, <2>1, <2>2, <2>3 DEF ProbeInv, DecisionType
<1>9. UNCHANGED <<run, lease, answered, incomplete>> /\ seen' = {e \in seen : e.at + Window > now'}
  BY DEF Tick
<1>10. RunType' /\ RunsStand' /\ OneAtATime'
  BY <1>9, SameRuns
<1>11. Sorted'
  <2>1. ASSUME NEW j \in DOMAIN proofs', NEW k \in DOMAIN proofs'
        PROVE  proofs'[k].at <= now' /\ (j <= k => proofs'[j].at <= proofs'[k].at)
    <3>1. proofs'[k] = proofs[k + n] /\ proofs'[j] = proofs[j + n]
          /\ k + n \in DOMAIN proofs /\ j + n \in DOMAIN proofs /\ (j <= k => j + n <= k + n)
      BY <1>2, <1>4, <1>6
    <3>2. QED  BY <1>1, <1>5, <3>1 DEF ProbeInv, Sorted
  <2>2. QED  BY <2>1 DEF Sorted
<1>12. Remembered'
  <2>1. ASSUME NEW e \in seen'
        PROVE  /\ Recent(e.at)' /\ e.at <= answered'
               /\ (\E k \in DOMAIN proofs' : proofs'[k] = e) \/ e.at + Window <= incomplete'
    <3>1. e \in seen /\ e.at + Window > now' /\ e.at <= answered
      BY <1>9, <2>1 DEF ProbeInv, Remembered
    <3>2. ASSUME NEW k \in DOMAIN proofs, proofs[k] = e PROVE \E j \in DOMAIN proofs' : proofs'[j] = e
      <4>1. ~(k <= n)
        BY <1>1, <1>2, <1>5, <3>1, <3>2
      <4>2. k - n \in DOMAIN proofs' /\ proofs'[k - n] = proofs[(k - n) + n] /\ (k - n) + n = k
        BY <1>1, <1>2, <1>4, <4>1
      <4>3. QED  BY <3>2, <4>2
    <3>3. QED  BY <1>9, <3>1, <3>2 DEF ProbeInv, Remembered, Recent
  <2>2. QED  BY <2>1 DEF Remembered
<1>13. ProofsStand'
  <2>1. ASSUME NEW e, NEW k \in DOMAIN proofs', proofs'[k] = e PROVE Backed(e)'
    <3>1. e = proofs[k + n] /\ k + n \in DOMAIN proofs /\ ~(k + n <= n)
      BY <1>1, <1>2, <1>4, <1>6, <2>1
    <3>2. Backed(e)
      BY <3>1 DEF ProbeInv, ProofsStand
    <3>3. e.at + Window > now'
      BY <1>1, <1>2, <1>5, <3>1
    <3>4. QED  BY <1>9, <3>2, <3>3 DEF Backed
  <2>2. QED  BY <2>1 DEF ProofsStand, Backed
<1>14. QED  BY <1>7, <1>8, <1>10, <1>11, <1>12, <1>13 DEF ProbeInv

(***************************************************************************)
(* Queueing, taking and sending.                                           *)
(***************************************************************************)

LEMMA QueueProbe == ASSUME ProbeTerms, ProbeInv, NEW l \in Lines, Queue(l) PROVE ProbeInv'
<1>1. PICK i \in Runs :
        /\ run[i] = NoRun
        /\ run' = [run EXCEPT ![i] = [NoRun EXCEPT !.target = l, !.state = "waiting",
                    !.next = now, !.deadline = now + Term, !.gen = line[l].gen, !.rev = policy.rev]]
  BY DEF Queue
<1> DEFINE q == [NoRun EXCEPT !.target = l, !.state = "waiting", !.next = now,
                    !.deadline = now + Term, !.gen = line[l].gen, !.rev = policy.rev]
<1>2. q \in RunSet /\ q.state = "waiting" /\ Chosen(q)
  <2>1. /\ now \in Int /\ now + Term \in Int /\ line[l].gen \in Nat /\ policy.rev \in Nat
        /\ l \in Lines \cup {Free}
    BY DEF ProbeInv, AroundType, ProbeTerms
  <2>2. /\ q \in RunSet /\ q.state = "waiting" /\ q.target = l /\ q.phase = "screen"
    <3> HIDE DEF NoRun
    <3>1. QED  BY <2>1, NoRunIs DEF RunSet
  <2> HIDE DEF q
  <2>3. QED  BY <2>2 DEF Chosen
<1>3. /\ run' = [run EXCEPT ![i] = q] /\ run[i].state = "free"
      /\ run \in [Runs -> RunSet] /\ lease' = lease
  BY <1>1, NoRunIs DEF Queue, ProbeInv, RunType
<1>4. UNCHANGED <<proofs, seen, answered, now, line, retired, acct, policy, business, moves,
                  paused, incomplete, diagnosed, saved>>
  BY DEF Queue
<1> HIDE DEF q
<1>5. AroundType'
  BY <1>4 DEF ProbeInv, AroundType
<1>6. DecisionType'
  BY <1>4 DEF ProbeInv, DecisionType
<1>7. RunType'
  BY <1>2, <1>3 DEF ProbeInv, RunType
<1>8. RunsStand'
  <2>1. ASSUME NEW k \in Runs PROVE Chosen(run'[k]) /\ Bound(k)'
    BY <1>2, <1>3 DEF ProbeInv, RunsStand, Bound
  <2>2. QED  BY <2>1 DEF RunsStand, Chosen
<1>9. OneAtATime'
  BY <1>3 DEF ProbeInv, OneAtATime, Leased
<1>10. Sorted' /\ Remembered' /\ ProofsStand'
  BY <1>2, <1>3, <1>4, SameProofs
<1>11. QED  BY <1>5, <1>6, <1>7, <1>8, <1>9, <1>10 DEF ProbeInv

LEMMA StartProbe == ASSUME ProbeTerms, ProbeInv, NEW i \in Runs, Start(i) PROVE ProbeInv'
<1>1. PICK at \in {"conflict", "sent", "budget"} : lease' = [lease EXCEPT ![i].at = at]
  BY DEF Start
<1>2. /\ run \in [Runs -> RunSet] /\ lease \in [Runs -> LeaseSet \cup {NoLease}]
      /\ lease[i].at = "taken" /\ lease[i] # NoLease /\ lease[i] \in LeaseSet
  BY DEF Start, ProbeInv, RunType, NoLease, Free
<1> DEFINE m == [lease[i] EXCEPT !.at = at]
<1>3. /\ m \in LeaseSet /\ m # NoLease /\ m.who = lease[i].who /\ m.line = lease[i].line
      /\ m.gen = lease[i].gen /\ m.role = lease[i].role
  <2>1. m \in LeaseSet /\ m.at # Free /\ m.who = lease[i].who /\ m.line = lease[i].line
        /\ m.gen = lease[i].gen /\ m.role = lease[i].role
    BY <1>2 DEF LeaseSet, Free
  <2>2. NoLease.at = Free
    BY DEF NoLease
  <2> HIDE DEF m
  <2>3. QED  BY <2>1, <2>2
<1>4. lease' = [lease EXCEPT ![i] = m]
  BY <1>1
<1> HIDE DEF m
<1>5. PICK n \in 0 .. MaxAttempts : run' = [run EXCEPT ![i].attempts = n]
  <2>1. run[i].attempts \in 0 .. MaxAttempts /\ run = [run EXCEPT ![i].attempts = run[i].attempts]
    BY <1>2 DEF RunSet
  <2>2. CASE run' = run
    BY <2>1, <2>2
  <2>3. CASE run[i].attempts < MaxAttempts /\ run' = [run EXCEPT ![i].attempts = @ + 1]
    <3>1. run[i].attempts + 1 \in 0 .. MaxAttempts
      BY <2>1, <2>3 DEF ProbeTerms
    <3>2. QED  BY <2>3, <3>1
  <2>4. QED  BY <2>2, <2>3 DEF Start
<1>6. run[i] \in RunSet
  BY <1>2
<1> DEFINE q == [run[i] EXCEPT !.attempts = n]
<1>7. q \in RunSet /\ q.state = run[i].state /\ q.target = run[i].target /\ q.phase = run[i].phase /\ q.ref = run[i].ref
  BY <1>6 DEF RunSet
<1>8. run' = [run EXCEPT ![i] = q]
  BY <1>5
<1> HIDE DEF q
<1>9. UNCHANGED <<proofs, seen, answered, now, line, retired, acct, policy, business, moves,
                  paused, incomplete, diagnosed, saved>>
  BY DEF Start
<1>10. AroundType'
  BY <1>9 DEF ProbeInv, AroundType
<1>11. DecisionType'
  BY <1>9 DEF ProbeInv, DecisionType
<1>12. RunType'
  BY <1>2, <1>3, <1>4, <1>7, <1>8 DEF RunType
<1>13. RunsStand'
  <2>1. ASSUME NEW k \in Runs PROVE Chosen(run'[k]) /\ Bound(k)'
    BY <1>2, <1>3, <1>4, <1>7, <1>8 DEF ProbeInv, RunsStand, Bound, Chosen
  <2>2. QED  BY <2>1 DEF RunsStand, Chosen
<1>14. OneAtATime'
  <2>1. \A k \in Runs : /\ lease'[k] = NoLease <=> lease[k] = NoLease
                        /\ lease[k] # NoLease => /\ lease'[k].who = lease[k].who
                                                 /\ lease'[k].line = lease[k].line
                                                 /\ lease'[k].gen = lease[k].gen
    BY <1>2, <1>3, <1>4
  <2>2. QED  BY <2>1 DEF ProbeInv, OneAtATime, Leased
<1>15. Sorted' /\ Remembered' /\ ProofsStand'
  BY <1>2, <1>3, <1>4, <1>7, <1>8, <1>9, SameProofs
<1>16. QED  BY <1>10, <1>11, <1>12, <1>13, <1>14, <1>15 DEF ProbeInv

LEMMA RankingIs ==
    ASSUME ProbeTerms, NEW ranking \in Rankings
    PROVE  \E n \in Nat : ranking \in [1 .. n -> Accounts]
<1>1. PICK E \in SUBSET Accounts : ranking \in Heads(E)
  BY DEF Rankings, Eligible
<1>2. Cardinality(E) \in Nat
  BY FS_Subset, FS_CardinalityType DEF ProbeTerms
<1> DEFINE n == Min({2, Cardinality(E)})
<1>3. n \in Nat
  BY <1>2, MinIs
<1>4. ranking \in [1 .. n -> E]
  BY <1>1 DEF Heads
<1> HIDE DEF n
<1>5. QED  BY <1>3, <1>4

\* The accounts of a run, as they are when they are chosen.
LEMMA FrozenAccounts ==
    ASSUME ProbeTerms, ProbeInv, NEW ranking \in Rankings
    PROVE  [k \in DOMAIN ranking |-> Who(ranking[k])] \in Seq(Whos)
<1>1. PICK n \in Nat : ranking \in [1 .. n -> Accounts]
  BY RankingIs
<1>2. \A a \in Accounts : Who(a) \in Whos
  BY DEF ProbeInv, AroundType, Who, Whos
<1>3. [k \in DOMAIN ranking |-> Who(ranking[k])] \in [1 .. n -> Whos]
  BY <1>1, <1>2
<1>4. QED  BY <1>1, <1>3

LEMMA PreparedIs ==
    ASSUME ProbeTerms, ProbeInv, NEW i \in Runs, run[i].state = "waiting",
           NEW ranking \in Rankings, ~CannotPrepare(run[i], ranking)
    PROVE  LET r == Prepared(run[i], ranking)
           IN  r \in RunSet /\ Chosen(r) /\ r.state = "waiting" /\ r.target = run[i].target
<1>1. run[i] \in RunSet /\ Chosen(run[i]) /\ run[i].target \in Lines
  BY DEF ProbeInv, RunType, RunsStand, Chosen
<1> DEFINE f == [k \in DOMAIN ranking |-> Who(ranking[k])]
           q == [run[i] EXCEPT !.accounts = f, !.index = 1, !.deadline = now + Term]
           p == [q EXCEPT !.phase = "reference", !.round = 1, !.ref = Reference(run[i].target)]
<1>2. f \in Seq(Whos) /\ now + Term \in Int
  BY FrozenAccounts DEF ProbeInv, AroundType, ProbeTerms
<1>3. \/ Prepared(run[i], ranking) \in {run[i], q}
      \/ Prepared(run[i], ranking) = p /\ run[i].attempts = 0 /\ paused > 0
  <2>1. CASE run[i].attempts > 0
    BY <2>1 DEF Prepared
  <2>2. CASE ~(run[i].attempts > 0)
    <3>1. run[i].attempts = 0
      BY <1>1, <2>2 DEF RunSet, ProbeTerms
    <3>2. Prepared(run[i], ranking) = IF paused > 0 THEN p ELSE q
      BY <1>1, <2>2 DEF Prepared
    <3> HIDE DEF p, q
    <3>3. QED  BY <3>1, <3>2
  <2>3. QED  BY <2>1, <2>2
<1> HIDE DEF f
<1>4. /\ q \in RunSet /\ q.state = "waiting" /\ q.target = run[i].target
      /\ q.phase = run[i].phase /\ q.ref = run[i].ref
  <2> DEFINE q1 == [run[i] EXCEPT !.accounts = f]
             q2 == [q1 EXCEPT !.index = 1]
             q3 == [q2 EXCEPT !.deadline = now + Term]
  <2>1. /\ q1 \in RunSet /\ q1.state = "waiting" /\ q1.target = run[i].target
        /\ q1.phase = run[i].phase /\ q1.ref = run[i].ref
    BY <1>1, <1>2 DEF RunSet
  <2> HIDE DEF q1
  <2>2. /\ q2 \in RunSet /\ q2.state = "waiting" /\ q2.target = run[i].target
        /\ q2.phase = run[i].phase /\ q2.ref = run[i].ref
    <3>1. 1 \in Indices
      BY DEF Indices
    <3>2. QED  BY <2>1, <3>1 DEF RunSet
  <2> HIDE DEF q2
  <2>3. /\ q3 \in RunSet /\ q3.state = "waiting" /\ q3.target = run[i].target
        /\ q3.phase = run[i].phase /\ q3.ref = run[i].ref
    BY <1>2, <2>2 DEF RunSet
  <2>4. QED  BY <2>3 DEF q1, q2
<1>5. Chosen(q)
  BY <1>1, <1>4 DEF Chosen
<1> HIDE DEF q
<1>6. ASSUME run[i].attempts = 0, paused > 0
      PROVE  p \in RunSet /\ Chosen(p) /\ p.state = "waiting" /\ p.target = run[i].target
  <2>1. Reference(run[i].target) \in Places \cup {Free} /\ Reference(run[i].target) # Free
    BY <1>1, <1>6, ReferenceIs DEF CannotPrepare, ProbeInv
  <2>2. /\ p \in RunSet /\ p.state = "waiting" /\ p.target = run[i].target
        /\ p.ref = Reference(run[i].target)
    <3>1. "reference" \in Roles /\ 1 \in 0 .. 2
      BY DEF Roles
    <3>2. QED  BY <1>4, <2>1, <3>1 DEF RunSet
  <2> HIDE DEF p
  <2>3. QED  BY <1>1, <2>1, <2>2 DEF Chosen
<1> HIDE DEF p
<1>7. QED  BY <1>1, <1>3, <1>4, <1>5, <1>6

\* The lease that TakeModelProbe gives to a run.
Granted(r) ==
    [at |-> "taken", who |-> r.accounts[r.index], role |-> r.phase, line |-> Route(r),
     gen |-> GenOf(Route(r)), round |-> r.round, rev |-> r.rev]

\* No lease has the account or the address that r asks for.
Unshared(m) ==
    \A k \in Leased :
        /\ lease[k].who.acct # m.who.acct
        /\ m.line # Direct => <<lease[k].line, lease[k].gen>> # <<m.line, m.gen>>

LEMMA GrantedIs ==
    ASSUME ProbeTerms, ProbeInv, NEW r \in RunSet, Chosen(r), r.state = "waiting", ~Gone(r), ~Occupied(r)
    PROVE  LET q == [r EXCEPT !.state = "running"]
           IN  /\ q \in RunSet /\ Chosen(q) /\ q.state = "running" /\ q.target = r.target
               /\ Granted(q) \in LeaseSet /\ Granted(q) # NoLease /\ Unshared(Granted(q))
               /\ Granted(q).role = q.phase
               /\ Granted(q).role = "target" => Granted(q).line = q.target
<1> DEFINE q == [r EXCEPT !.state = "running"]
<1>1. /\ q \in RunSet /\ q.state = "running" /\ q.target = r.target /\ q.phase = r.phase
      /\ q.ref = r.ref /\ q.accounts = r.accounts /\ q.index = r.index /\ q.round = r.round
      /\ q.rev = r.rev
  BY DEF RunSet
<1> HIDE DEF q
<1>2. Chosen(q)
  BY <1>1 DEF Chosen
<1>3. r.accounts[r.index] \in Whos
  <2>1. r.index \in Nat \ {0} /\ r.accounts \in Seq(Whos) /\ ~(r.index > Len(r.accounts))
    BY DEF RunSet, Indices, Gone
  <2>2. QED  BY <2>1
<1>4. Route(q) = Route(r) /\ Route(r) \in Places /\ (r.phase = "target" => Route(r) = r.target)
  <2>1. r.phase \in Roles
    BY DEF RunSet
  <2>2. QED  BY <1>1, <2>1 DEF Route, Chosen, Places, Roles
<1>5. GenOf(Route(r)) \in Nat
  BY <1>4 DEF GenOf, Places, ProbeInv, AroundType, ProbeTerms
<1>6. Granted(q) \in LeaseSet
  <2>1. r.phase \in Roles /\ r.round \in 0 .. 2 /\ r.rev \in Nat
    BY DEF RunSet
  <2>2. QED  BY <1>1, <1>3, <1>4, <1>5, <2>1 DEF Granted, LeaseSet
<1>7. Granted(q) # NoLease
  BY DEF Granted, NoLease, Free
<1>8. /\ Granted(q).who = r.accounts[r.index] /\ Granted(q).line = Route(r)
      /\ Granted(q).gen = GenOf(Route(r)) /\ Granted(q).role = r.phase
  BY <1>1, <1>4 DEF Granted
<1>9. Unshared(Granted(q))
  BY <1>8 DEF Unshared, Occupied
<1>10. QED  BY <1>1, <1>2, <1>4, <1>6, <1>7, <1>8, <1>9 DEF q

LEMMA TurnIs ==
    ASSUME ProbeTerms, ProbeInv, NEW i \in Runs, Due(i), NEW ranking \in Rankings
    PROVE  LET t == Turn(i, ranking)
           IN  /\ t.run \in RunSet /\ Chosen(t.run) /\ t.run.target = run[i].target
               /\ t.run.state # "free"
               /\ t.does # "lease" => t.run.state # "running" /\ t.run.phase = run[i].phase
               /\ t.does = "lease" =>
                    /\ Granted(t.run) \in LeaseSet /\ Granted(t.run) # NoLease
                    /\ Unshared(Granted(t.run)) /\ Granted(t.run).role = t.run.phase
                    /\ Granted(t.run).role = "target" => Granted(t.run).line = t.run.target
<1>1. run[i] \in RunSet /\ Chosen(run[i]) /\ run[i].state = "waiting" /\ run[i].target \in Lines
  BY DEF ProbeInv, RunType, RunsStand, Chosen, Due
<1>2. Ended(run[i]) \in RunSet /\ Chosen(Ended(run[i])) /\ Ended(run[i]).state = "ended"
      /\ Ended(run[i]).target = run[i].target /\ Ended(run[i]).phase = run[i].phase
  BY <1>1, EndedIs DEF Chosen
<1> DEFINE t == Turn(i, ranking)
           r == Phased(i, Prepared(run[i], ranking))
<1>3. CASE t = [does |-> "end", run |-> Ended(run[i])]
  BY <1>2, <1>3
<1>4. CASE t = [does |-> "wait", run |-> run[i]]
  BY <1>1, <1>4
<1>5. CASE /\ t = [does |-> "lease", run |-> [r EXCEPT !.state = "running"]]
           /\ ~CannotPrepare(run[i], ranking) /\ ~Gone(r) /\ ~Occupied(r)
  <2> DEFINE p == Prepared(run[i], ranking)
  <2>1. p \in RunSet /\ Chosen(p) /\ p.state = "waiting" /\ p.target = run[i].target
    BY <1>1, <1>5, PreparedIs
  <2> HIDE DEF p
  <2>2. Phased(i, p) \in RunSet /\ Chosen(Phased(i, p)) /\ Phased(i, p).state = "waiting"
        /\ Phased(i, p).target = run[i].target
    <3>1. CASE Phased(i, p) = p
      BY <2>1, <3>1
    <3> DEFINE h == [p EXCEPT !.phase = "reference"]
    <3>2. CASE p.phase = "target" /\ Phased(i, p) = h
      <4>1. h \in RunSet /\ h.state = "waiting" /\ h.target = p.target /\ h.ref = p.ref
        BY <2>1 DEF RunSet, Roles
      <4> HIDE DEF h
      <4>2. Chosen(h)
        BY <2>1, <3>2, <4>1 DEF Chosen
      <4>3. QED  BY <2>1, <3>2, <4>1, <4>2
    <3>3. QED  BY <3>1, <3>2 DEF Phased
  <2>3. r \in RunSet /\ Chosen(r) /\ r.state = "waiting" /\ r.target = run[i].target
    BY <2>2 DEF p
  <2> HIDE DEF r
  <2> DEFINE q == [r EXCEPT !.state = "running"]
  <2>4. /\ q \in RunSet /\ Chosen(q) /\ q.state = "running" /\ q.target = run[i].target
        /\ Granted(q) \in LeaseSet /\ Granted(q) # NoLease /\ Unshared(Granted(q))
        /\ Granted(q).role = q.phase
        /\ Granted(q).role = "target" => Granted(q).line = q.target
    BY <1>5, <2>3, GrantedIs
  <2>5. t.does = "lease" /\ t.run = q
    BY <1>5
  <2> HIDE DEF q, t
  <2>6. QED  BY <2>4, <2>5 DEF t
<1>6. QED
  <2>1. \/ t = [does |-> "end", run |-> Ended(run[i])]
        \/ t = [does |-> "wait", run |-> run[i]]
        \/ /\ t = [does |-> "lease", run |-> [r EXCEPT !.state = "running"]]
           /\ ~CannotPrepare(run[i], ranking) /\ ~Gone(r) /\ ~Occupied(r)
    BY DEF Turn
  <2>2. QED  BY <1>3, <1>4, <1>5, <2>1

\* What a call of TakeModelProbe does: it ends runs and gives one lease at most.
LEMMA TakeIs ==
    ASSUME ProbeTerms, ProbeInv, Take
    PROVE  /\ run' \in [Runs -> RunSet]
           /\ \A i \in Runs :
                /\ Chosen(run'[i])
                /\ run[i].state # "waiting" => run'[i] = run[i] /\ lease'[i] = lease[i]
                /\ run[i].state # "free" => run'[i].state # "free" /\ run'[i].target = run[i].target
           /\ lease' \in [Runs -> LeaseSet \cup {NoLease}]
           /\ \/ lease' = lease /\ \A i \in Runs : \/ run'[i] = run[i]
                                                   \/ run'[i].state # "running" /\ run'[i].phase = run[i].phase
              \/ \E m \in Runs :
                    /\ lease'[m] # NoLease /\ Unshared(lease'[m]) /\ lease'[m].role = run'[m].phase
                    /\ run'[m].state # "free"
                    /\ lease'[m].role = "target" => lease'[m].line = run'[m].target
                    /\ \A i \in Runs \ {m} :
                        /\ lease'[i] = lease[i]
                        /\ \/ run'[i] = run[i]
                           \/ run'[i].state # "running" /\ run'[i].phase = run[i].phase
<1> DEFINE T(ranking) == [i \in {k \in Runs : Due(k)} |-> Turn(i, ranking)]
           A(ranking) == {i \in DOMAIN T(ranking) : T(ranking)[i].does = "lease"}
<1>1. PICK ranking \in Rankings :
        /\ run' = [i \in Runs |->
                IF i \in {j \in DOMAIN T(ranking) : A(ranking) = {} \/ j <= Min(A(ranking))}
                THEN T(ranking)[i].run ELSE run[i]]
        /\ lease' = [i \in Runs |->
                IF A(ranking) = {} \/ i # Min(A(ranking)) THEN lease[i] ELSE Granted(T(ranking)[i].run)]
  BY DEF Take, Granted
<1> DEFINE turn == T(ranking)
           able == A(ranking)
<1>2. /\ DOMAIN turn = {k \in Runs : Due(k)}
      /\ \A i \in DOMAIN turn : turn[i] = Turn(i, ranking)
      /\ able = {i \in DOMAIN turn : turn[i].does = "lease"}
  OBVIOUS
<1>3. /\ run' = [i \in Runs |-> IF i \in DOMAIN turn /\ (able = {} \/ i <= Min(able)) THEN turn[i].run ELSE run[i]]
      /\ lease' = [i \in Runs |-> IF able = {} \/ i # Min(able) THEN lease[i] ELSE Granted(turn[i].run)]
  BY <1>1
<1>4. \A i \in DOMAIN turn :
        /\ i \in Runs /\ run[i].state = "waiting"
        /\ turn[i].run \in RunSet /\ Chosen(turn[i].run) /\ turn[i].run.target = run[i].target
        /\ turn[i].run.state # "free"
        /\ turn[i].does # "lease" => turn[i].run.state # "running" /\ turn[i].run.phase = run[i].phase
        /\ turn[i].does = "lease" =>
             /\ Granted(turn[i].run) \in LeaseSet /\ Granted(turn[i].run) # NoLease
             /\ Unshared(Granted(turn[i].run)) /\ Granted(turn[i].run).role = turn[i].run.phase
             /\ Granted(turn[i].run).role = "target" => Granted(turn[i].run).line = turn[i].run.target
  <2>1. ASSUME NEW i \in DOMAIN turn PROVE i \in Runs /\ Due(i)
    BY <1>2
  <2>2. \A i \in DOMAIN turn : run[i].state = "waiting"
    BY <2>1 DEF Due
  <2> HIDE DEF turn
  <2>3. QED  BY <1>2, <2>1, <2>2, TurnIs
<1> HIDE DEF turn, able, T, A
<1>5. able = {} \/ (Min(able) \in able /\ \A y \in able : Min(able) <= y)
  <2>1. able \in SUBSET Nat
    BY <1>2, <1>4 DEF Runs
  <2>2. QED  BY <2>1, MinIs
<1>6. \A i \in Runs : run[i] \in RunSet /\ Chosen(run[i]) /\ lease[i] \in LeaseSet \cup {NoLease}
  BY DEF ProbeInv, RunType, RunsStand
<1>7. run' \in [Runs -> RunSet]
  BY <1>3, <1>4, <1>6
<1>8. \A i \in Runs :
        /\ Chosen(run'[i])
        /\ run[i].state # "waiting" => run'[i] = run[i] /\ lease'[i] = lease[i]
        /\ run[i].state # "free" => run'[i].state # "free" /\ run'[i].target = run[i].target
  BY <1>2, <1>3, <1>4, <1>5, <1>6
<1>9. \A i \in Runs : able = {} \/ i # Min(able) =>
        \/ run'[i] = run[i]
        \/ run'[i].state # "running" /\ run'[i].phase = run[i].phase
  <2>1. ASSUME NEW i \in Runs, able = {} \/ i # Min(able), i \in DOMAIN turn, able = {} \/ i <= Min(able)
        PROVE  run'[i].state # "running" /\ run'[i].phase = run[i].phase
    <3>1. i \notin able
      <4>1. CASE able = {}
        BY <4>1
      <4>2. CASE able # {} /\ i # Min(able) /\ i <= Min(able)
        <5>1. Min(able) \in Nat /\ i \in Nat
          BY <1>2, <1>4, <1>5, <4>2 DEF Runs
        <5>2. i \in able => Min(able) <= i
          BY <1>5, <4>2
        <5>3. QED  BY <4>2, <5>1, <5>2
      <4>3. QED  BY <2>1, <4>1, <4>2
    <3>2. run'[i] = turn[i].run
      BY <1>3, <2>1
    <3>3. QED  BY <1>2, <1>4, <2>1, <3>1, <3>2
  <2>2. ASSUME NEW i \in Runs, ~(i \in DOMAIN turn /\ (able = {} \/ i <= Min(able))) PROVE run'[i] = run[i]
    BY <1>3, <2>2
  <2>3. QED  BY <2>1, <2>2
<1>10. CASE able = {}
  <2>1. lease' = lease
    BY <1>3, <1>10 DEF ProbeInv, RunType
  <2>2. lease' \in [Runs -> LeaseSet \cup {NoLease}]
    BY <2>1 DEF ProbeInv, RunType
  <2>3. QED  BY <1>7, <1>8, <1>9, <1>10, <2>1, <2>2
<1>11. CASE able # {}
  <2> DEFINE m == Min(able)
  <2>1. m \in able /\ m \in DOMAIN turn /\ m \in Runs /\ turn[m].does = "lease" /\ m <= m
    BY <1>2, <1>4, <1>5, <1>11 DEF Runs
  <2>2. run'[m] = turn[m].run /\ lease'[m] = Granted(turn[m].run)
    BY <1>3, <2>1
  <2>3. \A i \in Runs \ {m} : lease'[i] = lease[i]
    BY <1>3
  <2>4. lease' \in [Runs -> LeaseSet \cup {NoLease}]
    BY <1>3, <1>4, <1>6, <2>1
  <2>5. \A i \in Runs \ {m} : run'[i] = run[i] \/ (run'[i].state # "running" /\ run'[i].phase = run[i].phase)
    BY <1>9
  <2> HIDE DEF m
  <2>6. /\ lease'[m] # NoLease /\ Unshared(lease'[m]) /\ lease'[m].role = run'[m].phase
        /\ run'[m].state # "free"
        /\ lease'[m].role = "target" => lease'[m].line = run'[m].target
    BY <1>4, <2>1, <2>2
  <2>7. QED  BY <1>7, <1>8, <2>1, <2>3, <2>4, <2>5, <2>6
<1>12. QED  BY <1>10, <1>11

LEMMA TakeProbe == ASSUME ProbeTerms, ProbeInv, Take PROVE ProbeInv'
<1>1. UNCHANGED <<proofs, seen, answered, now, line, retired, acct, policy, business, moves,
                  paused, incomplete, diagnosed, saved>>
  BY DEF Take
<1>2. AroundType'
  BY <1>1 DEF ProbeInv, AroundType
<1>3. DecisionType'
  BY <1>1 DEF ProbeInv, DecisionType
<1>4. RunType'
  BY TakeIs DEF RunType
<1>5. RunsStand'
  <2>1. \A i \in Runs : Bound(i) /\ Chosen(run'[i])
    BY TakeIs DEF ProbeInv, RunsStand
  <2>2. \A i \in Runs : run[i].state # "free" => run'[i].state # "free" /\ run'[i].target = run[i].target
    BY TakeIs
  <2>3. ASSUME NEW i \in Runs, lease'[i] = lease[i],
               run'[i] = run[i] \/ (run'[i].state # "running" /\ run'[i].phase = run[i].phase)
        PROVE  Bound(i)'
    BY <2>1, <2>2, <2>3 DEF Bound
  <2>4. CASE lease' = lease /\ \A i \in Runs : \/ run'[i] = run[i]
                                               \/ run'[i].state # "running" /\ run'[i].phase = run[i].phase
    BY <2>1, <2>3, <2>4 DEF RunsStand, Chosen
  <2>5. ASSUME NEW m \in Runs,
               lease'[m] # NoLease, lease'[m].role = run'[m].phase, run'[m].state # "free",
               lease'[m].role = "target" => lease'[m].line = run'[m].target,
               \A i \in Runs \ {m} : /\ lease'[i] = lease[i]
                                     /\ \/ run'[i] = run[i]
                                        \/ run'[i].state # "running" /\ run'[i].phase = run[i].phase
        PROVE  RunsStand'
    <3>1. Bound(m)'
      BY <2>5 DEF Bound
    <3>2. \A i \in Runs \ {m} : Bound(i)'
      BY <2>3, <2>5
    <3>3. QED  BY <2>1, <3>1, <3>2 DEF RunsStand, Chosen
  <2>6. QED  BY <2>4, <2>5, TakeIs
<1>6. OneAtATime'
  <2>1. CASE lease' = lease
    BY <2>1 DEF ProbeInv, OneAtATime, Leased
  <2>2. ASSUME NEW m \in Runs, Unshared(lease'[m]), \A i \in Runs \ {m} : lease'[i] = lease[i]
        PROVE  OneAtATime'
    BY <2>2 DEF ProbeInv, OneAtATime, Leased, Unshared
  <2>3. QED  BY <2>1, <2>2, TakeIs
<1>7. Sorted' /\ Remembered' /\ ProofsStand'
  <2>1. \A i \in Runs : run[i].state = "ended" => run'[i] = run[i] /\ lease'[i] = lease[i]
    BY TakeIs
  <2>2. QED  BY <1>1, <2>1, TakeIs, SameProofs
<1>8. QED  BY <1>2, <1>3, <1>4, <1>5, <1>6, <1>7 DEF ProbeInv

(***************************************************************************)
(* Completing.                                                             *)
(***************************************************************************)

LEMMA WaitingIs ==
    ASSUME ProbeTerms, NEW r \in RunSet, NEW phase \in Roles, NEW round, NEW at, round \in 0 .. 2, at \in Int
    PROVE  LET w == Waiting(r, phase, round, at)
           IN  /\ w \in RunSet /\ w.state \in {"waiting", "ended"} /\ w.target = r.target
               /\ w.ref = r.ref /\ w.phase = phase
<1> DEFINE st == IF at >= r.deadline THEN "ended" ELSE "waiting"
           w1 == [r EXCEPT !.phase = phase]
           w2 == [w1 EXCEPT !.round = round]
           w3 == [w2 EXCEPT !.next = at]
           w4 == [w3 EXCEPT !.state = st]
<1>1. st \in {"waiting", "ended"}
  OBVIOUS
<1> HIDE DEF st
<1>2. w1 \in RunSet /\ w1.target = r.target /\ w1.ref = r.ref /\ w1.phase = phase
  BY DEF RunSet
<1> HIDE DEF w1
<1>3. w2 \in RunSet /\ w2.target = r.target /\ w2.ref = r.ref /\ w2.phase = phase
  BY <1>2 DEF RunSet
<1> HIDE DEF w2
<1>4. w3 \in RunSet /\ w3.target = r.target /\ w3.ref = r.ref /\ w3.phase = phase
  BY <1>3 DEF RunSet
<1> HIDE DEF w3
<1>5. w4 \in RunSet /\ w4.target = r.target /\ w4.ref = r.ref /\ w4.phase = phase /\ w4.state = st
  BY <1>1, <1>4 DEF RunSet
<1>6. Waiting(r, phase, round, at) = w4
  BY DEF Waiting, w1, w2, w3, st
<1> HIDE DEF w4
<1>7. QED  BY <1>1, <1>5, <1>6

\* What an answer makes of a run, of the pause and of the diagnoses is well formed.
Sound(n, r) ==
    /\ n.run \in RunSet /\ Chosen(n.run) /\ n.run.target = r.target
    /\ n.run.state \in {"waiting", "ended"}
    /\ n.paused \in Nat /\ n.diagnosed \in [Lines -> Int]

LEMMA StaysIs ==
    ASSUME ProbeInv, NEW r \in RunSet, NEW q \in RunSet, Chosen(q), q.target = r.target,
           q.state \in {"waiting", "ended"}
    PROVE  Sound(Stays(q), r) /\ Stays(q).condemned = FALSE
<1>1. /\ Stays(q).run = q /\ Stays(q).paused = paused /\ Stays(q).diagnosed = diagnosed
      /\ Stays(q).condemned = FALSE
  BY DEF Stays
<1>2. paused \in Nat /\ diagnosed \in [Lines -> Int]
  BY DEF ProbeInv, DecisionType
<1>3. QED  BY <1>1, <1>2 DEF Sound

LEMMA EndedStays ==
    ASSUME ProbeInv, NEW r \in RunSet, Chosen(r), r.state # "free"
    PROVE  Sound(Stays(Ended(r)), r) /\ Stays(Ended(r)).condemned = FALSE
<1>1. Ended(r) \in RunSet /\ Chosen(Ended(r)) /\ Ended(r).target = r.target /\ Ended(r).state = "ended"
  BY EndedIs DEF Chosen
<1>2. QED  BY <1>1, StaysIs

LEMMA ScreenedIs ==
    ASSUME ProbeTerms, ProbeInv, NEW r \in RunSet, Chosen(r), r.state # "free", NEW kind
    PROVE  Sound(Screened(r, kind), r) /\ ~Screened(r, kind).condemned
<1> DEFINE ref == Reference(r.target)
           q == [r EXCEPT !.ref = ref]
           at == now + Gap
           w == Waiting(q, "reference", 1, at)
<1>1. r.target \in Lines /\ ref \in Places \cup {Free} /\ now \in Nat /\ at \in Int
  BY ReferenceIs DEF Chosen, ProbeInv, AroundType, ProbeTerms
<1>2. CASE Screened(r, kind) = Stays(Ended(r))
  BY <1>2, EndedStays
<1>3. CASE ref # Free /\ Screened(r, kind) = [Stays(w) EXCEPT !.diagnosed[r.target] = now]
  <2> HIDE DEF ref, at
  <2>1. q \in RunSet /\ q.target = r.target /\ q.ref = ref
    BY <1>1 DEF RunSet
  <2> HIDE DEF q
  <2>2. w \in RunSet /\ w.state \in {"waiting", "ended"} /\ w.target = r.target /\ w.ref = ref
    <3>1. "reference" \in Roles /\ 1 \in 0 .. 2
      BY DEF Roles
    <3>2. QED  BY <1>1, <2>1, <3>1, WaitingIs DEF Roles
  <2> HIDE DEF w
  <2>3. Chosen(w)
    BY <1>1, <1>3, <2>2 DEF Chosen
  <2>4. diagnosed \in [Lines -> Int] /\ paused \in Nat
    BY DEF ProbeInv, DecisionType
  <2>5. [diagnosed EXCEPT ![r.target] = now] \in [Lines -> Int]
    BY <1>1, <2>4
  <2>6. [Stays(w) EXCEPT !.diagnosed[r.target] = now]
          = [Stays(w) EXCEPT !.diagnosed = [diagnosed EXCEPT ![r.target] = now]]
    BY DEF Stays
  <2> DEFINE d == [diagnosed EXCEPT ![r.target] = now]
             n == [Stays(w) EXCEPT !.diagnosed = d]
  <2>7. n.run = w /\ n.paused = paused /\ n.diagnosed = d /\ n.condemned = FALSE
    <3> HIDE DEF d
    <3>1. QED  BY DEF Stays
  <2>8. Screened(r, kind) = n
    BY <1>3, <2>6
  <2> HIDE DEF n, d
  <2>9. d \in [Lines -> Int]
    BY <2>5 DEF d
  <2>10. QED  BY <2>2, <2>3, <2>4, <2>7, <2>8, <2>9 DEF Sound
<1>4. QED  BY <1>2, <1>3 DEF Screened

LEMMA ReferredIs ==
    ASSUME ProbeTerms, ProbeInv, NEW r \in RunSet, Chosen(r), r.state # "free", r.phase # "screen", NEW kind
    PROVE  Sound(Referred(r, kind), r) /\ ~Referred(r, kind).condemned
<1>1. now \in Nat /\ now \in Int /\ r.round \in 0 .. 2 /\ now + Pause \in Nat /\ r.index + 1 \in Indices
      /\ r.target \in Lines /\ r.ref \in Places
  BY DEF ProbeInv, AroundType, RunSet, Indices, ProbeTerms, Chosen
<1> DEFINE pause == now + Pause
           q == [r EXCEPT !.index = @ + 1]
           round == r.round
           w == Waiting(r, "target", round, now)
           v == Waiting(q, "reference", 1, now)
<1>2. q \in RunSet /\ q.target = r.target /\ q.ref = r.ref /\ q.phase = r.phase /\ q.state = r.state
  BY <1>1 DEF RunSet
<1>3. CASE Referred(r, kind) = [Stays(w) EXCEPT !.paused = 0]
  <2>1. w \in RunSet /\ w.state \in {"waiting", "ended"} /\ w.target = r.target /\ w.ref = r.ref
    <3>1. "target" \in Roles
      BY DEF Roles
    <3>2. round \in 0 .. 2
      BY <1>1
    <3> HIDE DEF round
    <3>3. QED  BY <1>1, <3>1, <3>2, WaitingIs DEF Roles
  <2> HIDE DEF w
  <2>2. Chosen(w)
    BY <1>1, <2>1 DEF Chosen
  <2> DEFINE n == [Stays(w) EXCEPT !.paused = 0]
  <2>3. n.run = w /\ n.paused = 0 /\ n.diagnosed = diagnosed /\ n.condemned = FALSE
    BY DEF Stays
  <2>4. Referred(r, kind) = n
    BY <1>3
  <2> HIDE DEF n
  <2>5. QED  BY <2>1, <2>2, <2>3, <2>4 DEF Sound, ProbeInv, DecisionType
<1>4. CASE Referred(r, kind) = Stays(v)
  <2> HIDE DEF q
  <2>1. v \in RunSet /\ v.state \in {"waiting", "ended"} /\ v.target = r.target /\ v.ref = r.ref
    BY <1>1, <1>2, WaitingIs DEF Roles
  <2> HIDE DEF v
  <2>2. Chosen(v)
    BY <1>1, <2>1 DEF Chosen
  <2>3. QED  BY <1>4, <2>1, <2>2, StaysIs
<1>5. CASE Referred(r, kind) = [Stays(Ended(q)) EXCEPT !.paused = pause]
  <2> HIDE DEF q
  <2>1. /\ Ended(q) \in RunSet /\ Ended(q).target = r.target /\ Ended(q).state = "ended"
        /\ Ended(q).ref = r.ref
    BY <1>2, EndedIs
  <2>2. Chosen(Ended(q))
    BY <1>1, <2>1 DEF Chosen
  <2> DEFINE n == [Stays(Ended(q)) EXCEPT !.paused = pause]
  <2>3. n.run = Ended(q) /\ n.paused = pause /\ n.diagnosed = diagnosed /\ n.condemned = FALSE
    <3> HIDE DEF pause
    <3>1. QED  BY DEF Stays
  <2>4. Referred(r, kind) = n /\ pause \in Nat
    BY <1>1, <1>5
  <2> HIDE DEF n, pause
  <2>5. QED  BY <2>1, <2>2, <2>3, <2>4 DEF Sound, ProbeInv, DecisionType
<1>6. QED  BY <1>3, <1>4, <1>5 DEF Referred

LEMMA TargetedIs ==
    ASSUME ProbeTerms, ProbeInv, NEW i \in Runs, NEW r \in RunSet, Chosen(r), r.state # "free",
           r.phase # "screen", NEW kind, NEW ps
    PROVE  /\ Sound(Targeted(i, r, kind, ps), r)
           /\ Targeted(i, r, kind, ps).condemned => kind = "risk" /\ Confirmed(ps, i)
<1>1. now + Gap \in Int /\ r.target \in Lines /\ r.ref \in Places /\ r.round \in 0 .. 2
  BY DEF ProbeInv, AroundType, RunSet, ProbeTerms, Chosen
<1>2. CASE kind = "risk" /\ Confirmed(ps, i)
  <2>1. Targeted(i, r, kind, ps) = [Stays(Ended(r)) EXCEPT !.condemned = TRUE]
    BY <1>2 DEF Targeted
  <2>2. /\ Ended(r) \in RunSet /\ Ended(r).target = r.target /\ Ended(r).state = "ended"
        /\ Ended(r).ref = r.ref
    BY EndedIs
  <2>3. Chosen(Ended(r))
    BY <1>1, <2>2 DEF Chosen
  <2>4. Sound(Targeted(i, r, kind, ps), r)
    <3> DEFINE n == [Stays(Ended(r)) EXCEPT !.condemned = TRUE]
    <3>1. n.run = Ended(r) /\ n.paused = paused /\ n.diagnosed = diagnosed
      BY DEF Stays
    <3>2. Targeted(i, r, kind, ps) = n
      BY <2>1
    <3> HIDE DEF n
    <3>3. QED  BY <2>2, <2>3, <3>1, <3>2 DEF Sound, ProbeInv, DecisionType
  <2>5. QED  BY <1>2, <2>4
<1>3. CASE ~(kind = "risk" /\ Confirmed(ps, i)) /\ kind = "risk" /\ r.round < 2
  <2> DEFINE round == r.round + 1
             at == now + Gap
             w == Waiting(r, "reference", round, at)
  <2>1. round \in 0 .. 2 /\ at \in Int
    BY <1>1, <1>3
  <2>2. w \in RunSet /\ w.state \in {"waiting", "ended"} /\ w.target = r.target /\ w.ref = r.ref
    <3>1. "reference" \in Roles
      BY DEF Roles
    <3> HIDE DEF round, at
    <3>2. QED  BY <1>1, <2>1, <3>1, WaitingIs DEF Roles
  <2>3. Targeted(i, r, kind, ps) = Stays(w)
    BY <1>3 DEF Targeted
  <2> HIDE DEF w
  <2>4. Chosen(w)
    BY <1>1, <2>2 DEF Chosen
  <2>5. QED  BY <2>2, <2>3, <2>4, StaysIs
<1>4. CASE ~(kind = "risk" /\ Confirmed(ps, i)) /\ ~(kind = "risk" /\ r.round < 2)
  <2>1. Targeted(i, r, kind, ps) = Stays(Ended(r))
    BY <1>4 DEF Targeted
  <2>2. QED  BY <2>1, EndedStays
<1>5. QED  BY <1>2, <1>3, <1>4

LEMMA AdvancedIs ==
    ASSUME ProbeTerms, ProbeInv, NEW i \in Runs, lease[i] # NoLease, NEW kind, NEW ps
    PROVE  LET n == Advanced(i, lease[i].role, kind, ps)
           IN  /\ Sound(n, run[i])
               /\ n.condemned => lease[i].role = "target" /\ kind = "risk" /\ Confirmed(ps, i)
<1>1. /\ run[i] \in RunSet /\ Chosen(run[i]) /\ run[i].state # "free"
      /\ lease[i].role = run[i].phase /\ run[i].phase \in Roles
  BY DEF ProbeInv, RunType, RunsStand, Bound, RunSet
<1>2. CASE kind \in {"canceled", "conflict", "budget"}
  BY <1>1, <1>2, EndedStays DEF Advanced
<1>3. CASE ~(kind \in {"canceled", "conflict", "budget"}) /\ lease[i].role = "screen"
  <2>1. Advanced(i, lease[i].role, kind, ps) = Screened(run[i], kind)
    BY <1>3 DEF Advanced
  <2>2. QED  BY <1>1, <2>1, ScreenedIs
<1>4. CASE ~(kind \in {"canceled", "conflict", "budget"}) /\ lease[i].role = "reference"
  <2>1. Advanced(i, lease[i].role, kind, ps) = Referred(run[i], kind)
    BY <1>4 DEF Advanced
  <2>2. QED  BY <1>1, <1>4, <2>1, ReferredIs
<1>5. CASE ~(kind \in {"canceled", "conflict", "budget"}) /\ lease[i].role = "target"
  <2>1. Advanced(i, lease[i].role, kind, ps) = Targeted(i, run[i], kind, ps)
    BY <1>5 DEF Advanced
  <2>2. QED  BY <1>1, <1>5, <2>1, TargetedIs
<1>6. QED  BY <1>1, <1>2, <1>3, <1>4, <1>5 DEF Roles

\* The proofs that are kept are the last ones; what is out of date before those that are
\* dropped suspends the decisions.
LEMMA BoundedIs ==
    ASSUME ProbeTerms, NEW ps \in Seq(ProofSet)
    PROVE  \E d \in 0 .. Len(ps) :
            /\ Bounded(ps) \in Seq(ProofSet) /\ Len(Bounded(ps)) = Len(ps) - d
            /\ Len(Bounded(ps)) <= EvidenceLimit
            /\ \A k \in 1 .. (Len(ps) - d) : Bounded(ps)[k] = ps[k + d]
            /\ d <= 0 \/ d = Len(ps) - EvidenceLimit
<1>1. Len(ps) \in Nat /\ EvidenceLimit \in Nat
  BY DEF ProbeTerms
<1>2. CASE Len(ps) > EvidenceLimit
  <2> DEFINE d == Len(ps) - EvidenceLimit
             b == SubSeq(ps, d + 1, Len(ps))
  <2>1. d \in 0 .. Len(ps) /\ d + 1 \in 1 .. Len(ps) + 1 /\ Len(ps) - d = EvidenceLimit
    BY <1>1, <1>2
  <2>2. Bounded(ps) = b
    BY <1>2 DEF Bounded
  <2>3. b \in Seq(ProofSet) /\ Len(b) = Len(ps) - d /\ \A k \in 1 .. (Len(ps) - d) : b[k] = ps[k + d]
    <3> HIDE DEF d
    <3>1. QED  BY <1>1, <2>1
  <2> HIDE DEF b
  <2>4. Len(b) <= EvidenceLimit /\ d = Len(ps) - EvidenceLimit
    BY <2>1, <2>3
  <2> HIDE DEF d
  <2>5. QED  BY <2>1, <2>2, <2>3, <2>4
<1>3. CASE ~(Len(ps) > EvidenceLimit)
  <2>1. Bounded(ps) = ps
    BY <1>3 DEF Bounded
  <2>2. 0 \in 0 .. Len(ps) /\ Len(ps) <= EvidenceLimit
        /\ \A k \in 1 .. (Len(ps) - 0) : ps[k] = ps[k + 0]
    BY <1>1, <1>3
  <2>3. QED  BY <1>1, <2>1, <2>2
<1>4. QED  BY <1>2, <1>3

LEMMA SuspendedIs ==
    ASSUME ProbeTerms, ProbeInv, NEW ps \in Seq(ProofSet),
           \A k \in DOMAIN ps : ps[k].at <= now
    PROVE  /\ Suspended(ps) \in Nat /\ incomplete <= Suspended(ps)
           /\ \A k \in 1 .. Len(ps) - EvidenceLimit : ps[k].at + Window <= Suspended(ps)
<1> DEFINE D == {ps[k].at + Window : k \in 1 .. Len(ps) - EvidenceLimit}
<1>1. /\ Len(ps) \in Nat /\ EvidenceLimit \in Nat /\ Window \in Nat /\ now \in Nat /\ incomplete \in Nat
      /\ DOMAIN ps = 1 .. Len(ps)
  BY DEF ProbeTerms, ProbeInv, AroundType, DecisionType
<1>2. \A k \in 1 .. Len(ps) - EvidenceLimit : k \in DOMAIN ps /\ ps[k].at \in Nat /\ ps[k].at <= now
  <2>1. \A k \in DOMAIN ps : ps[k] \in ProofSet /\ ps[k].at <= now
    OBVIOUS
  <2>2. \A k \in DOMAIN ps : ps[k].at \in Nat
    BY <2>1 DEF ProofSet
  <2>3. \A k \in 1 .. Len(ps) - EvidenceLimit : k \in DOMAIN ps
    BY <1>1
  <2>4. QED  BY <2>1, <2>2, <2>3
<1>3. \A y \in D : y \in Nat /\ y <= incomplete + now + Window
  BY <1>1, <1>2
<1>4. \A y \in {incomplete} \cup D : y \in Nat /\ y <= incomplete + now + Window
  <2> HIDE DEF D
  <2>1. QED  BY <1>1, <1>3
<1> DEFINE b == incomplete + now + Window
           S == {incomplete} \cup D
<1>5. b \in Int /\ S \in SUBSET Int /\ S # {}
  <2> HIDE DEF D
  <2>1. b \in Int
    BY <1>1
  <2>2. S # {} /\ \A y \in S : y \in Int
    BY <1>4
  <2> HIDE DEF S
  <2>3. QED  BY <2>1, <2>2
<1>6. Max(S) \in S /\ \A y \in S : y <= Max(S)
  <2> HIDE DEF b, S
  <2>1. \A y \in S : y <= b
    BY <1>4 DEF b, S
  <2>2. QED  BY <1>5, <2>1, MaxIs
<1>7. Suspended(ps) = Max(S)
  BY DEF Suspended
<1>8. incomplete \in S /\ \A k \in 1 .. Len(ps) - EvidenceLimit : ps[k].at + Window \in S
  OBVIOUS
<1>9. \A y \in S : y \in Nat
  BY <1>4
<1> HIDE DEF S
<1>10. QED  BY <1>6, <1>7, <1>8, <1>9

\* The proof of an answer, whether it counts, all proofs with it, and what comes of it.
ProofOf(i, kind) ==
    [run |-> i, role |-> lease[i].role, round |-> lease[i].round, line |-> lease[i].line,
     gen |-> lease[i].gen, acct |-> lease[i].who.acct, cred |-> lease[i].who.cred, at |-> now,
     ok |-> kind = "success"]
Counts(i, kind) == LeaseCurrent(lease[i]) /\ kind \in {"success", "risk"}
AllProofs(i, kind) == IF Counts(i, kind) THEN Append(proofs, ProofOf(i, kind)) ELSE proofs
Outcome(i, kind) ==
    IF LeaseCurrent(lease[i]) THEN Advanced(i, lease[i].role, kind, AllProofs(i, kind))
    ELSE Stays(Ended(run[i]))
Retires(i, kind) ==
    /\ Outcome(i, kind).condemned /\ policy.retire /\ Len(run[i].accounts) >= 2
    /\ paused <= now /\ incomplete' <= now /\ Confirmed(proofs', i)
    /\ run[i].target \notin Protected
Again(i, kind) ==
    /\ LeaseCurrent(lease[i]) /\ run[i].attempts = 0 /\ lease[i].at # "sent"
    /\ kind \in {"budget", "network", "conflict"}

LEMMA CompleteIs ==
    ASSUME NEW i, NEW kind, NEW commits \in BOOLEAN, Complete(i, kind, commits)
    PROVE  /\ lease[i] # NoLease /\ lease' = [lease EXCEPT ![i] = NoLease]
           /\ now' = now /\ policy' = policy /\ business' = business
           /\ paused' = Outcome(i, kind).paused /\ diagnosed' = Outcome(i, kind).diagnosed
  BY DEF Complete, Outcome, AllProofs, Counts, ProofOf

\* An answer whose outcome is not written ends the run, and nothing else is decided.
LEMMA CompleteUnsaved ==
    ASSUME NEW i, NEW kind, Complete(i, kind, FALSE)
    PROVE  /\ run' = [run EXCEPT ![i] = Ended(Outcome(i, kind).run)]
           /\ proofs' = AllProofs(i, kind) /\ incomplete' = incomplete
           /\ saved' = saved /\ seen' = seen /\ answered' = answered
           /\ acct' = acct /\ retired' = retired /\ line' = line
  BY DEF Complete, Outcome, AllProofs, Counts, ProofOf

LEMMA CompleteSaved ==
    ASSUME NEW i, NEW kind, Complete(i, kind, TRUE)
    PROVE  /\ proofs' = Bounded(AllProofs(i, kind)) /\ incomplete' = Suspended(AllProofs(i, kind))
           /\ saved' = [paused |-> paused', diagnosed |-> diagnosed']
           /\ seen' = IF Counts(i, kind) THEN seen \cup {ProofOf(i, kind)} ELSE seen
  BY DEF Complete, AllProofs, Counts, ProofOf

LEMMA CompleteGoesOn ==
    ASSUME NEW i, NEW kind, Complete(i, kind, TRUE)
    PROVE  run' = [run EXCEPT ![i] =
              IF Again(i, kind)
              THEN [Outcome(i, kind).run EXCEPT !.state = "waiting", !.next = now]
              ELSE Outcome(i, kind).run]
  BY DEF Complete, Outcome, AllProofs, Counts, ProofOf, Again

LEMMA CompleteAnswered ==
    ASSUME NEW i, NEW kind, Complete(i, kind, TRUE)
    PROVE  answered' \in {answered, now} /\ (Counts(i, kind) => answered' = now)
<1>1. answered' \in IF kind \in {"success", "risk", "blocked"} THEN {now}
                    ELSE IF lease[i].at = "sent" THEN {answered, now} ELSE {answered}
  BY DEF Complete
<1>2. QED  BY <1>1 DEF Counts

\* A line is retired, or an account that a reference refused is set aside, or neither.
LEMMA CompleteDecides ==
    ASSUME NEW i, NEW kind, Complete(i, kind, TRUE)
    PROVE  \/ /\ Retires(i, kind)
              /\ retired' = retired \cup {run[i].target}
              /\ line' = [line EXCEPT ![run[i].target].on = FALSE]
              /\ \E moved \in SUBSET Accounts : acct' = [a \in Accounts |->
                    IF a \in moved THEN [acct[a] EXCEPT !.bind = @ + 1] ELSE acct[a]]
           \/ /\ retired' = retired /\ line' = line
              /\ acct' = acct \/ acct' = [acct EXCEPT ![lease[i].who.acct].ready = FALSE]
  BY DEF Complete, Outcome, AllProofs, Counts, ProofOf, Retires

LEMMA ProofIs ==
    ASSUME ProbeTerms, ProbeInv, NEW i \in Runs, NEW kind, lease[i] # NoLease
    PROVE  /\ ProofOf(i, kind) \in ProofSet /\ ProofOf(i, kind).at = now /\ ProofOf(i, kind).run = i
           /\ ProofOf(i, kind).role = "target" => ProofOf(i, kind).line = run[i].target
<1>1. lease[i] \in LeaseSet /\ now \in Nat
  BY DEF ProbeInv, RunType, AroundType
<1>2. /\ lease[i].role \in Roles /\ lease[i].round \in 0 .. 2 /\ lease[i].line \in Places
      /\ lease[i].gen \in Nat /\ lease[i].who.acct \in Accounts /\ lease[i].who.cred \in Nat
  BY <1>1 DEF LeaseSet, Whos
<1>3. lease[i].role = "target" => lease[i].line = run[i].target
  BY DEF ProbeInv, RunsStand, Bound
<1>4. (kind = "success") \in BOOLEAN
  OBVIOUS
<1>5. ProofOf(i, kind) \in ProofSet
  BY <1>1, <1>2, <1>4 DEF ProofOf, ProofSet
<1>6. QED  BY <1>3, <1>5 DEF ProofOf

LEMMA OutcomeIs ==
    ASSUME ProbeTerms, ProbeInv, NEW i \in Runs, NEW kind, lease[i] # NoLease
    PROVE  /\ Sound(Outcome(i, kind), run[i])
           /\ Outcome(i, kind).condemned =>
                /\ LeaseCurrent(lease[i]) /\ Counts(i, kind) /\ lease[i].role = "target"
                /\ Confirmed(AllProofs(i, kind), i)
<1>1. run[i] \in RunSet /\ Chosen(run[i]) /\ run[i].state # "free"
  BY DEF ProbeInv, RunType, RunsStand, Bound
<1>2. CASE LeaseCurrent(lease[i])
  BY <1>2, AdvancedIs DEF Outcome, Counts
<1>3. CASE ~LeaseCurrent(lease[i])
  BY <1>1, <1>3, EndedStays DEF Outcome
<1>4. QED  BY <1>2, <1>3

\* What all proofs are, with that of the answer: the earlier ones first.
LEMMA AllProofsAre ==
    ASSUME ProbeTerms, ProbeInv, NEW i \in Runs, NEW kind, lease[i] # NoLease
    PROVE  LET ps == AllProofs(i, kind)
           IN  /\ ps \in Seq(ProofSet) /\ Len(ps) \in {Len(proofs), Len(proofs) + 1}
               /\ \A k \in DOMAIN ps : ps[k].at <= now /\ ps[k] \in ProofSet /\ ps[k].at \in Nat
               /\ \A j, k \in DOMAIN ps : j <= k => ps[j].at <= ps[k].at
               /\ \A k \in DOMAIN proofs : k \in DOMAIN ps /\ ps[k] = proofs[k]
               /\ \A k \in DOMAIN ps : \/ k \in DOMAIN proofs /\ ps[k] = proofs[k]
                                       \/ Counts(i, kind) /\ ps[k] = ProofOf(i, kind)
               /\ Counts(i, kind) => \E k \in DOMAIN ps : ps[k] = ProofOf(i, kind)
<1> DEFINE e == ProofOf(i, kind)
           ps == AllProofs(i, kind)
<1>1. /\ proofs \in Seq(ProofSet) /\ now \in Nat /\ e \in ProofSet /\ e.at = now
      /\ DOMAIN proofs = 1 .. Len(proofs) /\ Len(proofs) \in Nat
  BY ProofIs DEF ProbeInv, DecisionType, AroundType
<1>2. \A k \in DOMAIN proofs : proofs[k] \in ProofSet /\ proofs[k].at <= now /\ proofs[k].at \in Nat
  <2>1. \A k \in DOMAIN proofs : proofs[k] \in ProofSet /\ proofs[k].at <= now
    BY <1>1 DEF ProbeInv, Sorted
  <2>2. QED  BY <2>1 DEF ProofSet
<1>3. \A j, k \in DOMAIN proofs : j <= k => proofs[j].at <= proofs[k].at
  BY DEF ProbeInv, Sorted
<1>4. CASE ~Counts(i, kind)
  <2>1. ps = proofs
    BY <1>4 DEF AllProofs
  <2>2. QED  BY <1>1, <1>2, <1>3, <1>4, <2>1
<1>5. CASE Counts(i, kind)
  <2>1. ps = Append(proofs, e)
    BY <1>5 DEF AllProofs
  <2> HIDE DEF e, ps
  <2>2. /\ ps \in Seq(ProofSet) /\ Len(ps) = Len(proofs) + 1 /\ DOMAIN ps = 1 .. Len(proofs) + 1
        /\ ps[Len(proofs) + 1] = e /\ \A k \in 1 .. Len(proofs) : ps[k] = proofs[k]
    BY <1>1, <2>1
  <2>3. \A k \in DOMAIN ps : k \in DOMAIN proofs \/ k = Len(proofs) + 1
    BY <1>1, <2>2
  <2>4. \A k \in DOMAIN ps : ps[k].at <= now /\ ps[k] \in ProofSet /\ ps[k].at \in Nat
    BY <1>1, <1>2, <2>2, <2>3
  <2>5. \A j, k \in DOMAIN ps : j <= k => ps[j].at <= ps[k].at
    <3>1. ASSUME NEW j \in DOMAIN ps, NEW k \in DOMAIN ps, j <= k PROVE ps[j].at <= ps[k].at
      <4>1. CASE k = Len(proofs) + 1
        BY <1>1, <2>2, <2>4, <4>1
      <4>2. CASE k # Len(proofs) + 1
        <5>1. j \in DOMAIN proofs /\ k \in DOMAIN proofs
          BY <1>1, <2>2, <3>1, <4>2
        <5>2. ps[j] = proofs[j] /\ ps[k] = proofs[k]
          BY <1>1, <2>2, <5>1
        <5>3. QED  BY <1>3, <3>1, <5>1, <5>2
      <4>3. QED  BY <4>1, <4>2
    <3>2. QED  BY <3>1
  <2>6. \A k \in DOMAIN proofs : k \in DOMAIN ps /\ ps[k] = proofs[k]
    BY <1>1, <2>2
  <2>7. Len(proofs) + 1 \in DOMAIN ps
    BY <1>1, <2>2
  <2>8. QED  BY <1>5, <2>2, <2>3, <2>4, <2>5, <2>6, <2>7 DEF e, ps
<1>6. QED  BY <1>4, <1>5

\* What an answer leaves of the proofs, whether it could be saved or not.
LEMMA CompleteProofs ==
    ASSUME ProbeTerms, ProbeInv, NEW i \in Runs, NEW kind, NEW commits \in BOOLEAN, Complete(i, kind, commits)
    PROVE  \E d \in Nat :
            /\ proofs' \in Seq(ProofSet) /\ Len(proofs') = Len(AllProofs(i, kind)) - d
            /\ DOMAIN proofs' = 1 .. (Len(AllProofs(i, kind)) - d)
            /\ \A k \in DOMAIN proofs' : /\ proofs'[k] = AllProofs(i, kind)[k + d]
                                         /\ k + d \in DOMAIN AllProofs(i, kind)
            /\ incomplete' \in Nat /\ incomplete <= incomplete'
            /\ \A k \in DOMAIN AllProofs(i, kind) :
                  k <= d => AllProofs(i, kind)[k].at + Window <= incomplete'
            /\ commits = TRUE => Len(proofs') <= EvidenceLimit
<1> DEFINE ps == AllProofs(i, kind)
<1>1. /\ lease[i] # NoLease
      /\ commits = FALSE => proofs' = ps /\ incomplete' = incomplete
      /\ commits = TRUE => proofs' = Bounded(ps) /\ incomplete' = Suspended(ps)
  <2>1. lease[i] # NoLease
    BY CompleteIs
  <2>2. CASE commits = FALSE
    BY <2>1, <2>2, CompleteUnsaved
  <2>3. CASE commits = TRUE
    BY <2>1, <2>3, CompleteSaved
  <2>4. QED  BY <2>2, <2>3
<1>2. ps \in Seq(ProofSet) /\ \A k \in DOMAIN ps : ps[k].at <= now
  BY <1>1, AllProofsAre
<1> HIDE DEF ps
<1>3. DOMAIN ps = 1 .. Len(ps) /\ Len(ps) \in Nat /\ EvidenceLimit \in Nat /\ incomplete \in Nat
  BY <1>2 DEF ProbeTerms, ProbeInv, DecisionType
<1>4. CASE commits = FALSE
  <2>1. /\ proofs' = ps /\ incomplete' = incomplete /\ 0 \in Nat /\ Len(ps) = Len(ps) - 0
        /\ \A k \in DOMAIN ps : k = k + 0 /\ ~(k <= 0)
    BY <1>1, <1>3, <1>4
  <2>2. /\ proofs' \in Seq(ProofSet) /\ DOMAIN proofs' = 1 .. (Len(ps) - 0)
        /\ \A k \in DOMAIN proofs' : proofs'[k] = ps[k + 0] /\ k + 0 \in DOMAIN ps
        /\ incomplete' \in Nat /\ incomplete <= incomplete' /\ Len(proofs') = Len(ps) - 0
        /\ \A k \in DOMAIN ps : k <= 0 => ps[k].at + Window <= incomplete'
    BY <1>2, <1>3, <2>1
  <2>3. commits # TRUE /\ 0 \in Nat
    BY <1>4
  <2>4. QED  BY <2>2, <2>3 DEF ps
<1>5. CASE commits = TRUE
  <2>1. PICK d \in 0 .. Len(ps) :
            /\ Bounded(ps) \in Seq(ProofSet) /\ Len(Bounded(ps)) = Len(ps) - d
            /\ Len(Bounded(ps)) <= EvidenceLimit
            /\ \A k \in 1 .. (Len(ps) - d) : Bounded(ps)[k] = ps[k + d]
            /\ d <= 0 \/ d = Len(ps) - EvidenceLimit
    BY <1>2, BoundedIs
  <2>2. /\ proofs' = Bounded(ps) /\ incomplete' = Suspended(ps)
        /\ Suspended(ps) \in Nat /\ incomplete <= Suspended(ps)
        /\ \A k \in 1 .. Len(ps) - EvidenceLimit : ps[k].at + Window <= Suspended(ps)
    BY <1>1, <1>2, <1>5, SuspendedIs
  <2>3. d \in Nat /\ DOMAIN proofs' = 1 .. (Len(ps) - d)
    <3>1. proofs' \in Seq(ProofSet) /\ Len(proofs') = Len(ps) - d
      BY <2>1, <2>2
    <3>2. d \in Nat /\ DOMAIN proofs' = 1 .. Len(proofs')
      BY <1>3, <3>1
    <3>3. QED  BY <3>1, <3>2
  <2>4. \A k \in DOMAIN proofs' : proofs'[k] = ps[k + d] /\ k + d \in DOMAIN ps
    <3>1. ASSUME NEW k, k \in 1 .. (Len(ps) - d) PROVE k + d \in 1 .. Len(ps)
      BY <1>3, <2>3, <3>1
    <3>2. ASSUME NEW k \in DOMAIN proofs' PROVE proofs'[k] = ps[k + d] /\ k + d \in DOMAIN ps
      <4>1. k \in 1 .. (Len(ps) - d)
        BY <2>3
      <4>2. k + d \in DOMAIN ps
        BY <1>3, <3>1, <4>1
      <4>3. QED  BY <2>1, <2>2, <4>1, <4>2
    <3>3. QED  BY <3>2
  <2>5. \A k \in DOMAIN ps : k <= d => ps[k].at + Window <= incomplete'
    <3>1. ASSUME NEW k \in DOMAIN ps, k <= d PROVE ps[k].at + Window <= incomplete'
      <4>1. k \in 1 .. Len(ps) - EvidenceLimit
        <5>1. k \in 1 .. Len(ps) /\ d \in Nat /\ ~(d <= 0)
          <6>1. DOMAIN ps = 1 .. Len(ps) /\ Len(ps) \in Nat
            BY <1>3
          <6>2. k \in 1 .. Len(ps)
            BY <3>1, <6>1
          <6>3. d \in Nat
            BY <2>3
          <6>4. k <= d
            BY <3>1
          <6>5. QED  BY ONLY <6>1, <6>2, <6>3, <6>4
        <5>2. d = Len(ps) - EvidenceLimit
          BY <2>1, <5>1
        <5>3. QED  BY <1>3, <3>1, <5>1, <5>2
      <4>2. QED  BY <2>2, <4>1
    <3>2. QED  BY <3>1
  <2>6. QED  BY <2>1, <2>2, <2>3, <2>4, <2>5 DEF ps
<1>6. QED  BY <1>4, <1>5

LEMMA CompleteAround ==
    ASSUME ProbeTerms, ProbeInv, NEW i \in Runs, NEW kind, NEW commits \in BOOLEAN, Complete(i, kind, commits)
    PROVE  /\ line' \in [Lines -> [on : BOOLEAN, gen : Nat]]
           /\ retired' \subseteq Lines /\ retired' \cap Protected = {}
           /\ acct' \in [Accounts -> [cred : Nat, bind : Nat, ready : BOOLEAN]]
           /\ policy' = policy /\ business' = business /\ now' = now
<1>1. /\ line \in [Lines -> [on : BOOLEAN, gen : Nat]] /\ retired \subseteq Lines
      /\ acct \in [Accounts -> [cred : Nat, bind : Nat, ready : BOOLEAN]]
      /\ retired \cap Protected = {}
  BY DEF ProbeInv, AroundType
<1>2. policy' = policy /\ business' = business /\ now' = now /\ lease[i] # NoLease
  BY CompleteIs
<1>3. run[i].target \in Lines
  BY <1>2 DEF ProbeInv, RunsStand, Bound, Chosen
<1>4. CASE retired' = retired /\ line' = line /\ acct' = acct
  BY <1>1, <1>2, <1>4
<1>5. CASE retired' = retired /\ line' = line /\ acct' = [acct EXCEPT ![lease[i].who.acct].ready = FALSE]
  BY <1>1, <1>2, <1>5
<1>6. CASE /\ Retires(i, kind)
           /\ retired' = retired \cup {run[i].target}
           /\ line' = [line EXCEPT ![run[i].target].on = FALSE]
           /\ \E moved \in SUBSET Accounts : acct' = [a \in Accounts |->
                 IF a \in moved THEN [acct[a] EXCEPT !.bind = @ + 1] ELSE acct[a]]
  <2>1. retired' \subseteq Lines /\ retired' \cap Protected = {}
    BY <1>1, <1>3, <1>6 DEF Retires
  <2>2. line' \in [Lines -> [on : BOOLEAN, gen : Nat]]
    BY <1>1, <1>3, <1>6
  <2>3. acct' \in [Accounts -> [cred : Nat, bind : Nat, ready : BOOLEAN]]
    <3>1. PICK moved \in SUBSET Accounts : acct' = [a \in Accounts |->
                 IF a \in moved THEN [acct[a] EXCEPT !.bind = @ + 1] ELSE acct[a]]
      BY <1>6
    <3>2. \A a \in Accounts : /\ acct[a] \in [cred : Nat, bind : Nat, ready : BOOLEAN]
                              /\ [acct[a] EXCEPT !.bind = @ + 1] \in [cred : Nat, bind : Nat, ready : BOOLEAN]
      BY <1>1
    <3>3. QED  BY <3>1, <3>2
  <2>4. QED  BY <1>2, <2>1, <2>2, <2>3
<1>7. CASE commits = FALSE
  BY <1>4, <1>7, CompleteUnsaved
<1>8. CASE commits = TRUE
  <2>1. Complete(i, kind, TRUE)
    BY <1>8
  <2>2. QED  BY <1>4, <1>5, <1>6, <2>1, CompleteDecides
<1>9. QED  BY <1>7, <1>8

\* The run that was answered: it goes on or has ended; one whose answer could not be
\* saved has ended.
LEMMA CompleteRun ==
    ASSUME ProbeTerms, ProbeInv, NEW i \in Runs, NEW kind, NEW commits \in BOOLEAN, Complete(i, kind, commits)
    PROVE  \E q \in RunSet :
            /\ run' = [run EXCEPT ![i] = q] /\ Chosen(q) /\ q.target = run[i].target
            /\ q.state \in {"waiting", "ended"} /\ (commits = FALSE => q.state = "ended")
<1>1. lease[i] # NoLease
  BY CompleteIs
<1> DEFINE n == Outcome(i, kind)
<1>2. Sound(n, run[i])
  BY <1>1, OutcomeIs
<1>3. /\ commits = FALSE => run' = [run EXCEPT ![i] = Ended(n.run)]
      /\ commits = TRUE => run' = [run EXCEPT ![i] = IF Again(i, kind)
                                               THEN [n.run EXCEPT !.state = "waiting", !.next = now]
                                               ELSE n.run]
  <2>1. CASE commits = FALSE
    BY <2>1, CompleteUnsaved
  <2>2. CASE commits = TRUE
    BY <2>2, CompleteGoesOn
  <2>3. QED  BY <2>1, <2>2
<1> HIDE DEF n
<1> DEFINE r == n.run
           w1 == [r EXCEPT !.state = "waiting"]
           w == [w1 EXCEPT !.next = now]
<1>4. r \in RunSet /\ Chosen(r) /\ r.target = run[i].target /\ r.state \in {"waiting", "ended"}
  BY <1>2 DEF Sound
<1> HIDE DEF r
<1>5. /\ Ended(r) \in RunSet /\ Ended(r).target = r.target /\ Ended(r).state = "ended"
      /\ Chosen(Ended(r))
  BY <1>4, EndedIs DEF Chosen
<1>6. w \in RunSet /\ w.target = r.target /\ w.state = "waiting" /\ Chosen(w)
  <2>1. /\ w1 \in RunSet /\ w1.target = r.target /\ w1.state = "waiting" /\ w1.ref = r.ref
        /\ w1.phase = r.phase
    BY <1>4 DEF RunSet
  <2> HIDE DEF w1
  <2>2. now \in Int
    BY DEF ProbeInv, AroundType
  <2>3. /\ w \in RunSet /\ w.target = r.target /\ w.state = "waiting" /\ w.ref = r.ref
        /\ w.phase = r.phase
    BY <2>1, <2>2 DEF RunSet
  <2> HIDE DEF w
  <2>4. QED  BY <1>4, <2>3 DEF Chosen
<1>7. [r EXCEPT !.state = "waiting", !.next = now] = w
  OBVIOUS
<1> HIDE DEF w
<1>8. CASE commits = FALSE
  <2>1. run' = [run EXCEPT ![i] = Ended(r)]
    BY <1>3, <1>8 DEF r
  <2>2. QED  BY <1>4, <1>5, <2>1
<1>9. CASE commits = TRUE
  <2>1. run' = [run EXCEPT ![i] = w] \/ run' = [run EXCEPT ![i] = r]
    BY <1>3, <1>7, <1>9 DEF r
  <2>2. QED  BY <1>4, <1>6, <1>9, <2>1
<1>10. QED  BY <1>8, <1>9

LEMMA CompleteProbe ==
    ASSUME ProbeTerms, ProbeInv, NEW i \in Runs, NEW kind, NEW commits \in BOOLEAN, Complete(i, kind, commits),
           (commits = TRUE /\ moves' = moves) \/ (commits = FALSE /\ Move)
    PROVE  ProbeInv'
<1> DEFINE ps == AllProofs(i, kind)
<1>1. /\ lease[i] # NoLease /\ lease' = [lease EXCEPT ![i] = NoLease] /\ now' = now
      /\ run \in [Runs -> RunSet] /\ lease \in [Runs -> LeaseSet \cup {NoLease}]
  BY CompleteIs DEF ProbeInv, RunType
<1>2. PICK q \in RunSet :
            /\ run' = [run EXCEPT ![i] = q] /\ Chosen(q) /\ q.target = run[i].target
            /\ q.state \in {"waiting", "ended"} /\ (commits = FALSE => q.state = "ended")
  BY CompleteRun
<1>3. PICK d \in Nat :
            /\ proofs' \in Seq(ProofSet) /\ Len(proofs') = Len(ps) - d
            /\ DOMAIN proofs' = 1 .. (Len(ps) - d)
            /\ \A k \in DOMAIN proofs' : proofs'[k] = ps[k + d] /\ k + d \in DOMAIN ps
            /\ incomplete' \in Nat /\ incomplete <= incomplete'
            /\ \A k \in DOMAIN ps : k <= d => ps[k].at + Window <= incomplete'
            /\ commits = TRUE => Len(proofs') <= EvidenceLimit
  BY CompleteProofs
<1>4. /\ ps \in Seq(ProofSet) /\ Len(ps) \in {Len(proofs), Len(proofs) + 1}
      /\ \A k \in DOMAIN ps : ps[k].at <= now /\ ps[k] \in ProofSet /\ ps[k].at \in Nat
      /\ \A j, k \in DOMAIN ps : j <= k => ps[j].at <= ps[k].at
      /\ \A k \in DOMAIN proofs : k \in DOMAIN ps /\ ps[k] = proofs[k]
      /\ \A k \in DOMAIN ps : \/ k \in DOMAIN proofs /\ ps[k] = proofs[k]
                              \/ Counts(i, kind) /\ ps[k] = ProofOf(i, kind)
      /\ Counts(i, kind) => \E k \in DOMAIN ps : ps[k] = ProofOf(i, kind)
  BY <1>1, AllProofsAre
<1> HIDE DEF ps
<1>5. DOMAIN ps = 1 .. Len(ps) /\ Len(ps) \in Nat
  BY <1>4
<1>6. /\ seen' = IF commits = TRUE /\ Counts(i, kind) THEN seen \cup {ProofOf(i, kind)} ELSE seen
      /\ answered' \in {answered, now} /\ (commits = TRUE /\ Counts(i, kind) => answered' = now)
      /\ saved' = saved \/ saved' = [paused |-> paused', diagnosed |-> diagnosed']
  <2>1. CASE commits = FALSE
    BY <2>1, CompleteUnsaved
  <2>2. CASE commits = TRUE
    BY <2>2, CompleteSaved, CompleteAnswered
  <2>3. QED  BY <2>1, <2>2
<1>7. /\ ProofOf(i, kind) \in ProofSet /\ ProofOf(i, kind).at = now /\ ProofOf(i, kind).run = i
      /\ ProofOf(i, kind).role = "target" => ProofOf(i, kind).line = run[i].target
  BY <1>1, ProofIs
<1>8. run[i].state # "free"
  BY <1>1 DEF ProbeInv, RunsStand, Bound
<1>9. now \in Nat /\ answered \in Int /\ answered <= now /\ Window \in Nat /\ Window # 0 /\ incomplete \in Nat
  BY DEF ProbeInv, AroundType, DecisionType, ProbeTerms
<1>10. moves' \in 0 .. MaxMoves /\ (commits = TRUE => moves' = moves) /\ (commits = FALSE => moves' = moves + 1)
       /\ moves \in Nat
  BY DEF Move, ProbeInv, AroundType, ProbeTerms
<1>11. AroundType'
  BY <1>10, CompleteAround DEF ProbeInv, AroundType
<1>12. DecisionType'
  <2>1. Sound(Outcome(i, kind), run[i]) /\ paused' = Outcome(i, kind).paused
        /\ diagnosed' = Outcome(i, kind).diagnosed
    BY <1>1, OutcomeIs, CompleteIs
  <2>2. paused' \in Nat /\ diagnosed' \in [Lines -> Int]
    BY <2>1 DEF Sound
  <2>3. saved' \in [paused : Nat, diagnosed : [Lines -> Int]]
    <3>1. saved' = saved \/ saved' = [paused |-> paused', diagnosed |-> diagnosed']
      BY <1>6
    <3>2. QED  BY <2>2, <3>1 DEF ProbeInv, DecisionType
  <2>4. answered' \in Int /\ answered' <= now'
    BY <1>1, <1>6, <1>9
  <2>5. Len(proofs') <= EvidenceLimit + moves'
    <3>1. EvidenceLimit \in Nat /\ Len(proofs) \in Nat /\ Len(proofs) <= EvidenceLimit + moves
      BY DEF ProbeTerms, ProbeInv, DecisionType
    <3>2. CASE commits = TRUE
      BY <1>3, <1>10, <3>1, <3>2
    <3>3. CASE commits = FALSE
      <4>1. Len(ps) <= Len(proofs) + 1 /\ Len(proofs') <= Len(ps) /\ Len(proofs') \in Nat
        BY <1>3, <1>4, <1>5
      <4>2. moves' = moves + 1 /\ moves \in Nat
        BY <1>10, <3>3
      <4>3. QED  BY <1>5, <3>1, <4>1, <4>2
    <3>4. QED  BY <3>2, <3>3
  <2>6. seen' \subseteq ProofSet
    BY <1>6, <1>7 DEF ProbeInv, DecisionType
  <2>7. QED  BY <1>3, <2>2, <2>3, <2>4, <2>5, <2>6 DEF DecisionType
<1>13. RunType'
  BY <1>1, <1>2 DEF RunType
<1>14. RunsStand'
  <2>1. \A k \in Runs : Chosen(run[k]) /\ Bound(k)
    BY DEF ProbeInv, RunsStand
  <2>2. ASSUME NEW k \in Runs PROVE Chosen(run'[k]) /\ Bound(k)'
    <3>1. CASE k = i
      BY <1>1, <1>2, <3>1 DEF Bound
    <3>2. CASE k # i
      <4>1. run'[k] = run[k] /\ lease'[k] = lease[k]
        BY <1>1, <1>2, <3>2
      <4>2. QED  BY <2>1, <4>1 DEF Bound
    <3>3. QED  BY <3>1, <3>2
  <2>3. QED  BY <2>2 DEF RunsStand, Chosen
<1>15. OneAtATime'
  BY <1>1 DEF ProbeInv, OneAtATime, Leased
<1>16. Sorted'
  <2>1. ASSUME NEW j \in DOMAIN proofs', NEW k \in DOMAIN proofs'
        PROVE  proofs'[k].at <= now' /\ (j <= k => proofs'[j].at <= proofs'[k].at)
    <3>1. /\ proofs'[k] = ps[k + d] /\ proofs'[j] = ps[j + d] /\ k + d \in DOMAIN ps
          /\ j + d \in DOMAIN ps /\ (j <= k => j + d <= k + d)
      BY <1>3, <1>5
    <3>2. QED  BY <1>1, <1>4, <3>1
  <2>2. QED  BY <2>1 DEF Sorted
<1>17. Remembered'
  <2>1. ASSUME NEW e, NEW k \in DOMAIN ps, ps[k] = e
        PROVE  (\E j \in DOMAIN proofs' : proofs'[j] = e) \/ e.at + Window <= incomplete'
    <3>1. CASE k <= d
      BY <1>3, <2>1, <3>1
    <3>2. CASE ~(k <= d)
      <4>1. k - d \in DOMAIN proofs' /\ (k - d) + d = k
        BY <1>3, <1>5, <3>2
      <4>2. proofs'[k - d] = ps[(k - d) + d]
        BY <1>3, <4>1
      <4>3. QED  BY <2>1, <4>1, <4>2
    <3>3. QED  BY <3>1, <3>2
  <2>2. ASSUME NEW e \in seen
        PROVE  /\ Recent(e.at)' /\ e.at <= answered'
               /\ (\E j \in DOMAIN proofs' : proofs'[j] = e) \/ e.at + Window <= incomplete'
    <3>1. /\ Recent(e.at) /\ e.at <= answered /\ e.at \in Nat
          /\ (\E k \in DOMAIN proofs : proofs[k] = e) \/ e.at + Window <= incomplete
      BY DEF ProbeInv, Remembered, DecisionType, ProofSet
    <3>2. Recent(e.at)' /\ e.at <= answered'
      BY <1>1, <1>6, <1>9, <3>1 DEF Recent
    <3>3. CASE \E k \in DOMAIN proofs : proofs[k] = e
      BY <1>4, <2>1, <3>2, <3>3
    <3>4. CASE e.at + Window <= incomplete
      BY <1>3, <1>9, <3>1, <3>2, <3>4
    <3>5. QED  BY <3>1, <3>3, <3>4
  <2>3. ASSUME commits = TRUE, Counts(i, kind), NEW e, e = ProofOf(i, kind)
        PROVE  /\ Recent(e.at)' /\ e.at <= answered'
               /\ (\E j \in DOMAIN proofs' : proofs'[j] = e) \/ e.at + Window <= incomplete'
    <3>1. e.at = now /\ answered' = now
      BY <1>6, <1>7, <2>3
    <3>2. Recent(e.at)' /\ e.at <= answered'
      BY <1>1, <1>9, <3>1 DEF Recent
    <3>3. \E k \in DOMAIN ps : ps[k] = e
      BY <1>4, <2>3
    <3>4. QED  BY <2>1, <3>2, <3>3
  <2>4. QED  BY <1>6, <2>2, <2>3 DEF Remembered
<1>18. ProofsStand'
  <2>1. ASSUME NEW e, NEW k \in DOMAIN proofs, proofs[k] = e PROVE Backed(e)'
    <3>1. Backed(e) /\ e.run \in Runs
      <4>1. proofs \in Seq(ProofSet) /\ Backed(e)
        BY <2>1 DEF ProbeInv, DecisionType, ProofsStand
      <4>2. e \in ProofSet
        BY <2>1, <4>1
      <4>3. QED  BY <4>1, <4>2 DEF ProofSet
    <3>2. e \in seen => e \in seen'
      BY <1>6
    <3>3. CASE e.run = i
      BY <1>1, <1>2, <3>1, <3>2, <3>3 DEF Backed
    <3>4. CASE e.run # i
      <4>1. run'[e.run] = run[e.run] /\ lease'[e.run] = lease[e.run]
        BY <1>1, <1>2, <3>1, <3>4
      <4>2. QED  BY <3>1, <3>2, <4>1 DEF Backed
    <3>5. QED  BY <3>3, <3>4
  <2>2. ASSUME Counts(i, kind), NEW e, e = ProofOf(i, kind) PROVE Backed(e)'
    <3>1. e.run = i /\ (e.role = "target" => e.line = run[i].target)
      BY <1>7, <2>2
    <3>2. run'[i] = q /\ lease'[i] = NoLease
      BY <1>1, <1>2
    <3>3. e \in seen' \/ q.state = "ended"
      BY <1>2, <1>6, <2>2
    <3>4. QED  BY <1>2, <3>1, <3>2, <3>3 DEF Backed
  <2>3. ASSUME NEW e, NEW k \in DOMAIN proofs', proofs'[k] = e PROVE Backed(e)'
    <3>1. k + d \in DOMAIN ps /\ ps[k + d] = e
      BY <1>3, <2>3
    <3>2. QED  BY <1>4, <2>1, <2>2, <3>1
  <2>4. QED  BY <2>3 DEF ProofsStand, Backed
<1>19. QED  BY <1>11, <1>12, <1>13, <1>14, <1>15, <1>16, <1>17, <1>18 DEF ProbeInv

LEMMA NextProbe == ASSUME ProbeTerms, ProbeInv, [Next]_vars PROVE ProbeInv'
<1>1. ASSUME NEW l \in Lines, Queue(l) \/ EditLine(l) \/ \E a \in Accounts : Business(l, a) PROVE ProbeInv'
  BY <1>1, QueueProbe, EditLineProbe, BusinessProbe
<1>2. CASE Take
  BY <1>2, TakeProbe
<1>3. ASSUME NEW i \in Runs, Start(i) PROVE ProbeInv'
  BY <1>3, StartProbe
<1>4. ASSUME NEW i \in Leased, NEW kind,
             \/ Complete(i, kind, TRUE) /\ UNCHANGED moves
             \/ Move /\ Complete(i, kind, FALSE)
      PROVE  ProbeInv'
  <2>1. i \in Runs
    BY DEF Leased
  <2>2. CASE Complete(i, kind, TRUE) /\ UNCHANGED moves
    BY <2>1, <2>2, TRUE \in BOOLEAN, CompleteProbe
  <2>3. CASE Move /\ Complete(i, kind, FALSE)
    BY <2>1, <2>3, FALSE \in BOOLEAN, CompleteProbe
  <2>4. QED  BY <1>4, <2>2, <2>3
<1>5. ASSUME NEW on \in BOOLEAN, NEW retire \in BOOLEAN, Save(on, retire) PROVE ProbeInv'
  BY <1>5, SaveProbe
<1>6. ASSUME NEW a \in Accounts, EditAccount(a) PROVE ProbeInv'
  BY <1>6, EditAccountProbe
<1>7. CASE Restart
  BY <1>7, RestartProbe
<1>8. CASE Tick
  BY <1>8, TickProbe
<1>9. CASE UNCHANGED vars
  <2>1. UNCHANGED <<now, line, retired, acct, policy, run, lease, paused, incomplete, diagnosed,
                    business, proofs, answered, saved, seen, moves>>
    BY <1>9 DEF vars
  <2>2. AroundType'
    BY <2>1 DEF ProbeInv, AroundType
  <2>3. DecisionType'
    BY <2>1 DEF ProbeInv, DecisionType
  <2>4. QED  BY <2>1, <2>2, <2>3, SameRuns, SameProofs DEF ProbeInv
<1>10. QED  BY <1>1, <1>2, <1>3, <1>4, <1>5, <1>6, <1>7, <1>8, <1>9 DEF Next

LEMMA SpecProbeInv == ASSUME ProbeTerms PROVE Spec => []ProbeInv
<1>1. Init => ProbeInv
  BY InitProbe
<1>2. ProbeInv /\ [Next]_vars => ProbeInv'
  BY NextProbe
<1>3. QED  BY <1>1, <1>2, PTL DEF Spec

(***************************************************************************)
(* One request at a time.                                                  *)
(***************************************************************************)

LEMMA ProbeInvTyped == ASSUME ProbeTerms, ProbeInv PROVE TypeOK /\ OneAtATime
<1>1. /\ retired \subseteq Lines /\ paused \in Nat /\ incomplete \in Nat /\ moves \in 0 .. MaxMoves
      /\ Len(proofs) <= EvidenceLimit + moves /\ retired \cap Protected = {} /\ OneAtATime
  BY DEF ProbeInv, AroundType, DecisionType
<1>2. ASSUME NEW i \in Runs
      PROVE  /\ run[i].state \in {"free", "waiting", "running", "ended"}
             /\ run[i].phase \in {"screen", "reference", "target"} /\ run[i].round \in 0 .. 2
             /\ run[i].attempts \in 0 .. MaxAttempts
             /\ run[i].state = "running" => lease[i] # NoLease
  <2>1. run[i] \in RunSet
    BY DEF ProbeInv, RunType
  <2>2. run[i].state = "running" => lease[i] # NoLease
    BY DEF ProbeInv, RunsStand, Bound
  <2>3. QED  BY <2>1, <2>2 DEF RunSet, Roles
<1>3. QED  BY <1>1, <1>2 DEF TypeOK

\* No two requests of the inspection use one account or one address at a time, although a
\* settings change ends runs whose requests are still out (model_probe_dispatch.go,
\* TakeModelProbe), and the evidence never outgrows its limit by more than what could not be
\* saved.
THEOREM ProbeOneAtATime == ASSUME ProbeTerms PROVE Spec => [](TypeOK /\ OneAtATime)
<1>1. ProbeInv => TypeOK /\ OneAtATime
  BY ProbeInvTyped
<1>2. QED  BY <1>1, SpecProbeInv, PTL

(***************************************************************************)
(* A line is retired on proof.                                             *)
(***************************************************************************)

\* Only a saved answer retires, and only the target of its run.
LEMMA OnlyAnswersRetire ==
    ASSUME [Next]_vars, NEW l \in retired' \ retired
    PROVE  \E i \in Runs : \E kind : /\ Complete(i, kind, TRUE) /\ moves' = moves
                                     /\ Retires(i, kind) /\ l = run[i].target
<1>1. retired' # retired
  OBVIOUS
<1>2. CASE \E j \in Lines : Queue(j) \/ EditLine(j) \/ \E a \in Accounts : Business(j, a)
  BY <1>1, <1>2 DEF Queue, EditLine, Business
<1>3. CASE Take \/ \E i \in Runs : Start(i)
  BY <1>1, <1>3 DEF Take, Start
<1>4. CASE \/ \E on, retire \in BOOLEAN : Save(on, retire)
           \/ \E a \in Accounts : EditAccount(a)
  BY <1>1, <1>4 DEF Save, EditAccount
<1>5. CASE Restart \/ Tick \/ UNCHANGED vars
  BY <1>1, <1>5 DEF Restart, Tick, vars
<1>6. ASSUME NEW i \in Leased, NEW kind,
             \/ Complete(i, kind, TRUE) /\ UNCHANGED moves
             \/ Move /\ Complete(i, kind, FALSE)
      PROVE  \E k \in Runs : \E w : /\ Complete(k, w, TRUE) /\ moves' = moves
                                    /\ Retires(k, w) /\ l = run[k].target
  <2>1. i \in Runs
    BY DEF Leased
  <2>2. CASE Complete(i, kind, TRUE) /\ UNCHANGED moves
    <3>1. Retires(i, kind) /\ retired' = retired \cup {run[i].target}
      BY <1>1, <2>2, CompleteDecides
    <3>2. l = run[i].target
      BY <3>1
    <3>3. QED  BY <2>1, <2>2, <3>1, <3>2
  <2>3. CASE Move /\ Complete(i, kind, FALSE)
    BY <1>1, <2>3, CompleteUnsaved
  <2>4. QED  BY <1>6, <2>2, <2>3
<1>7. QED  BY <1>2, <1>3, <1>4, <1>5, <1>6 DEF Next

\* The proofs of a run whose answer is saved are all saved.
LEMMA SavedWithTheRun ==
    ASSUME ProbeTerms, ProbeInv, NEW i \in Runs, NEW kind, Complete(i, kind, TRUE),
           NEW k \in DOMAIN proofs', proofs'[k].run = i
    PROVE  proofs'[k] \in seen'
<1>1. lease[i] # NoLease /\ TRUE \in BOOLEAN
  BY CompleteIs
<1>2. PICK d \in Nat :
        \A j \in DOMAIN proofs' : /\ proofs'[j] = AllProofs(i, kind)[j + d]
                                  /\ j + d \in DOMAIN AllProofs(i, kind)
  BY <1>1, CompleteProofs
<1>3. \/ k + d \in DOMAIN proofs /\ proofs'[k] = proofs[k + d]
      \/ Counts(i, kind) /\ proofs'[k] = ProofOf(i, kind)
  BY <1>1, <1>2, AllProofsAre
<1>4. seen' = IF Counts(i, kind) THEN seen \cup {ProofOf(i, kind)} ELSE seen
  BY CompleteSaved
<1>5. CASE k + d \in DOMAIN proofs /\ proofs'[k] = proofs[k + d]
  <2>1. Backed(proofs'[k])
    BY <1>5 DEF ProbeInv, ProofsStand
  <2>2. QED  BY <1>1, <1>4, <2>1 DEF Backed
<1>6. QED  BY <1>3, <1>4, <1>5

LEMMA RetireStep ==
    ASSUME ProbeTerms, ProbeInv, [Next]_vars, NEW l \in retired' \ retired
    PROVE  Guilty(l)
<1>0. PICK i \in Runs : \E w : /\ Complete(i, w, TRUE) /\ moves' = moves
                                /\ Retires(i, w) /\ l = run[i].target
  BY OnlyAnswersRetire
<1>1. PICK kind : /\ Complete(i, kind, TRUE) /\ moves' = moves
                  /\ Retires(i, kind) /\ l = run[i].target
  BY <1>0
<1>2. /\ lease[i] # NoLease /\ now' = now /\ TRUE \in BOOLEAN /\ ProbeInv'
  BY <1>1, CompleteIs, NextProbe
<1>3. /\ policy.retire /\ incomplete' <= now /\ Confirmed(proofs', i) /\ Outcome(i, kind).condemned
  BY <1>1 DEF Retires
<1>4. LeaseCurrent(lease[i]) /\ lease[i].role = "target"
  BY <1>2, <1>3, OutcomeIs
<1>5. l \in Lines /\ l # Direct /\ lease[i].line = l
  <2>1. lease[i].line = l /\ run[i].state # "free" /\ Chosen(run[i])
    BY <1>1, <1>2, <1>4 DEF ProbeInv, RunsStand, Bound
  <2>2. l \in Lines
    BY <1>1, <2>1 DEF Chosen
  <2>3. QED  BY <2>1, <2>2 DEF ProbeTerms
<1>6. Usable(l)
  BY <1>4, <1>5 DEF LeaseCurrent
<1>7. run'[i].target = l /\ i \in DOMAIN run
  <2>1. PICK q \in RunSet : run' = [run EXCEPT ![i] = q] /\ q.target = run[i].target
    BY <1>1, <1>2, CompleteRun
  <2>2. i \in DOMAIN run
    BY DEF ProbeInv, RunType
  <2>3. QED  BY <1>1, <2>1, <2>2
<1>8. /\ proofs' \in Seq(ProofSet) /\ now \in Nat /\ Window \in Nat /\ incomplete' \in Nat
      /\ \A k \in DOMAIN proofs' : proofs'[k] \in ProofSet
  <2>1. proofs' \in Seq(ProofSet) /\ incomplete' \in Nat
    BY <1>2 DEF ProbeInv, DecisionType
  <2>2. \A k \in DOMAIN proofs' : proofs'[k] \in ProofSet
    BY <2>1
  <2>3. QED  BY <2>1, <2>2 DEF ProbeInv, AroundType, ProbeTerms
<1>9. ASSUME NEW e \in seen', e.line = l, e.ok, e.gen = line[l].gen, acct[e.acct].cred = e.cred
      PROVE  FALSE
  <2>1. Recent(e.at)' /\ ((\E k \in DOMAIN proofs' : proofs'[k] = e) \/ e.at + Window <= incomplete')
    BY <1>2 DEF ProbeInv, Remembered
  <2>2. Recent(e.at)
    BY <1>2, <2>1 DEF Recent
  <2>3. CASE \E k \in DOMAIN proofs' : proofs'[k] = e
    <3>1. Current(e)
      BY <1>6, <1>9, <2>2 DEF Current
    <3>2. QED  BY <1>1, <1>3, <1>9, <2>3, <3>1 DEF Confirmed
  <2>4. CASE e.at + Window <= incomplete'
    <3>1. e.at \in Nat
      BY <1>2, <1>9 DEF ProbeInv, DecisionType, ProofSet
    <3>2. QED  BY <1>3, <1>8, <2>2, <2>4, <3>1 DEF Recent
  <2>5. QED  BY <2>1, <2>3, <2>4
<1>10. PICK a \in Failures(proofs', i), b \in Failures(proofs', i) :
        /\ Paired(proofs', a) /\ Paired(proofs', b)
        /\ proofs'[a].round # proofs'[b].round /\ proofs'[b].at - proofs'[a].at >= Gap
        /\ proofs'[a].acct = proofs'[b].acct /\ proofs'[a].cred = proofs'[b].cred
  BY <1>3 DEF Confirmed, TwoRounds
<1>11. ASSUME NEW k \in Failures(proofs', i), Paired(proofs', k)
       PROVE  LET e == proofs'[k] IN
              /\ e \in seen' /\ e.line = l /\ e.gen = line[l].gen /\ ~e.ok /\ e.run = i
              /\ e.cred = acct[e.acct].cred
              /\ \E g \in seen' : /\ g.ok /\ g.line # l
                                  /\ <<g.run, g.round, g.acct, g.cred, g.at>>
                                        = <<e.run, e.round, e.acct, e.cred, e.at>>
  <2> DEFINE e == proofs'[k]
  <2>1. /\ k \in DOMAIN proofs' /\ e.run = i /\ e.role = "target" /\ ~e.ok /\ Current(e)
    BY <1>11 DEF Failures
  <2>2. e \in seen'
    BY <1>1, <2>1, SavedWithTheRun
  <2>3. e.line = l
    <3>1. e.role = "target" => e.line = run'[e.run].target
      BY <1>2, <2>1 DEF ProbeInv, ProofsStand, Backed
    <3>2. QED  BY <1>7, <2>1, <3>1
  <2>4. e.gen = line[l].gen /\ e.cred = acct[e.acct].cred
    BY <1>5, <2>1, <2>3 DEF Current
  <2>5. PICK j \in 1 .. k - 1 :
          /\ <<proofs'[j].run, proofs'[j].role, proofs'[j].round>> = <<e.run, "reference", e.round>>
          /\ proofs'[j].line # e.line /\ proofs'[j].ok
          /\ <<proofs'[j].acct, proofs'[j].cred>> = <<e.acct, e.cred>>
          /\ proofs'[j].at = e.at
    BY <1>11 DEF Paired
  <2>6. j \in DOMAIN proofs'
    <3>1. DOMAIN proofs' = 1 .. Len(proofs') /\ Len(proofs') \in Nat
      BY <1>8
    <3>2. QED  BY <2>1, <3>1
  <2>7. proofs'[j] \in seen'
    BY <1>1, <2>1, <2>5, <2>6, SavedWithTheRun
  <2>8. /\ proofs'[j].ok /\ proofs'[j].line # l
        /\ <<proofs'[j].run, proofs'[j].round, proofs'[j].acct, proofs'[j].cred, proofs'[j].at>>
              = <<e.run, e.round, e.acct, e.cred, e.at>>
    BY <2>3, <2>5
  <2>9. QED  BY <2>1, <2>2, <2>3, <2>4, <2>7, <2>8
<1> DEFINE B == proofs'[a]
           C == proofs'[b]
<1>12. /\ B \in seen' /\ C \in seen' /\ B.line = l /\ C.line = l
       /\ B.gen = line[l].gen /\ C.gen = line[l].gen /\ ~B.ok /\ ~C.ok
       /\ B.run = C.run /\ B.round # C.round /\ C.at - B.at >= Gap
       /\ B.acct = C.acct /\ B.cred = C.cred /\ B.cred = acct[B.acct].cred
  BY <1>10, <1>11
<1>13. \A e \in {B, C} : \E g \in seen' :
            /\ g.ok /\ g.line # l
            /\ <<g.run, g.round, g.acct, g.cred, g.at>> = <<e.run, e.round, e.acct, e.cred, e.at>>
  BY <1>10, <1>11
<1> HIDE DEF B, C
<1>14. /\ {B.line, C.line} = {l} /\ {B.gen, C.gen} = {line[l].gen}
       /\ {<<B.acct, B.cred>>, <<C.acct, C.cred>>} = {<<B.acct, acct[B.acct].cred>>}
  BY <1>12
<1>15. ~\E e \in seen' : e.line = l /\ e.ok /\ e.gen = line[l].gen /\ acct[e.acct].cred = e.cred
  BY <1>9
<1>16. QED  BY <1>3, <1>12, <1>13, <1>14, <1>15 DEF Guilty

\* A line is retired only if one account was refused over it in two rounds that are apart,
\* while another line answered the same account in each of them, and no saved answer came
\* over it within the window: not even one that a restart or the limit of the evidence has
\* made the process forget (model_probe_evidence.go, probeConfirmedRoundsLocked;
\* model_probe.go, retireModelProbeLocked).
THEOREM ProbeRetiresOnProof == ASSUME ProbeTerms PROVE Spec => RetiredOnProof
<1>1. ProbeInv /\ [Next]_vars => \A l \in retired' \ retired : Guilty(l)
  BY RetireStep
<1>2. QED  BY <1>1, SpecProbeInv, PTL DEF Spec, RetiredOnProof
=============================================================================
