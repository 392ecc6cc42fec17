----------------------------- MODULE CaptchaProof -----------------------------
(***************************************************************************)
(* The parts that solve captchas, for any number of callers, keys, pools,    *)
(* calls, processes, requests and tokens: the solver's pools serve whoever   *)
(* waits for them, a worker answers its own call, only whole browsers start, *)
(* and the pool of tokens hands out each token once, to whom it was minted   *)
(* for.  The theorems are about the composed run: whatever part of it        *)
(* moves, a part sees steps of its own or none.                              *)
(***************************************************************************)
EXTENDS MCCaptcha, FiniteSetTheorems, TLAPS

(***************************************************************************)
(* The solver and its pools.                                               *)
(***************************************************************************)

Places == {"idle", "acquire", "got", "solving", "waiting", "starting", "commit"}

\* The pools that are known have been created, and every caller is somewhere.
Shape ==
    /\ created \in 0..MaxPools
    /\ {bsPool, retired} \subseteq 1..created \cup {None}
    /\ bsPc \in [Solvers -> Places]
    /\ mine \in [Solvers -> BS!Pools \cup {None}]

\* A pool is started by one caller, and every open channel has one who will close it.
OneStarter ==
    /\ \A c, d \in BS!Starters : mine[c] = mine[d] => c = d
    /\ \A p \in pending : \E d \in BS!Starters : mine[d] = p

SolverInv == BS!TypeOK /\ Shape /\ OneStarter

Bounded == IsFiniteSet(Solvers) /\ MaxPools \in Nat

\* The instance of the solver counts as everybody does.
LEMMA SameCount == ASSUME NEW S  PROVE BS!Cardinality(S) = Cardinality(S)
  BY DEF BS!Cardinality, Cardinality

\* A move of one caller moves one element in or out of the users.
LEMMA UsersMove ==
    ASSUME Bounded, Shape, NEW c \in Solvers, NEW at \in Places, BS!Goto(c, at)
    PROVE  /\ bsPc' \in [Solvers -> Places] /\ bsPc'[c] = at
           /\ \A d \in Solvers \ {c} : bsPc'[d] = bsPc[d]
           /\ BS!Users' = IF at \in {"got", "solving"} THEN BS!Users \cup {c} ELSE BS!Users \ {c}
           /\ BS!Starters' = IF at \in {"starting", "commit"} THEN BS!Starters \cup {c} ELSE BS!Starters \ {c}
           /\ IsFiniteSet(BS!Users) /\ BS!Cardinality(BS!Users) \in Nat
           /\ BS!Cardinality(BS!Users \cup {c}) = IF c \in BS!Users THEN BS!Cardinality(BS!Users) ELSE BS!Cardinality(BS!Users) + 1
           /\ BS!Cardinality(BS!Users \ {c}) = IF c \in BS!Users THEN BS!Cardinality(BS!Users) - 1 ELSE BS!Cardinality(BS!Users)
<1>1. bsPc' \in [Solvers -> Places] /\ bsPc'[c] = at /\ \A d \in Solvers \ {c} : bsPc'[d] = bsPc[d]
  BY DEF BS!Goto, Shape
<1>2. BS!Users' = IF at \in {"got", "solving"} THEN BS!Users \cup {c} ELSE BS!Users \ {c}
  BY <1>1 DEF BS!Users
<1>3. BS!Starters' = IF at \in {"starting", "commit"} THEN BS!Starters \cup {c} ELSE BS!Starters \ {c}
  BY <1>1 DEF BS!Starters
<1>4. IsFiniteSet(BS!Users)
  BY FS_Subset DEF Bounded, BS!Users
<1>5. QED
  BY <1>1, <1>2, <1>3, <1>4, SameCount, FS_CardinalityType, FS_AddElement, FS_RemoveElement

LEMMA InitSolverInv == Bounded /\ BS!Init => SolverInv
<1> SUFFICES ASSUME Bounded, BS!Init PROVE SolverInv
  OBVIOUS
<1>1. BS!Users = {} /\ BS!Starters = {}
  BY DEF BS!Init, BS!Users, BS!Starters
<1>2. QED
  BY <1>1, SameCount, FS_EmptySet DEF BS!Init, SolverInv, BS!TypeOK, Shape, OneStarter,
     Places, Bounded

\* The steps of a caller that neither starts a pool nor uses one.
LEMMA QuietInv ==
    ASSUME Bounded, SolverInv, NEW c \in Solvers,
           BS!Call(c) \/ BS!Refused(c) \/ BS!Queue(c) \/ BS!Wait(c)
    PROVE  SolverInv'
<1> USE DEF SolverInv
<1>1. PICK at \in {"acquire", "waiting", "idle"} : BS!Goto(c, at)
  BY DEF BS!Call, BS!Refused, BS!Queue, BS!Wait, BS!Leave
<1>2. bsPc[c] \in {"idle", "acquire", "waiting"}
  BY DEF BS!Call, BS!Refused, BS!Queue, BS!Wait, BS!Open
<1>3. BS!Users' = BS!Users /\ BS!Starters' = BS!Starters
  <2>1. at \in Places /\ at \notin {"got", "solving", "starting", "commit"}
    BY DEF Places
  <2>2. BS!Users' = BS!Users \ {c} /\ BS!Starters' = BS!Starters \ {c}
    BY <1>1, <2>1, UsersMove
  <2>3. c \notin BS!Users /\ c \notin BS!Starters
    BY <1>2 DEF BS!Users, BS!Starters
  <2>4. QED  BY <2>2, <2>3
<1>4. /\ UNCHANGED <<bsPool, retired, starting, inFlight, created, up, pending, doomed>>
      /\ \A d \in Solvers \ {c} : mine'[d] = mine[d]
      /\ mine' \in [Solvers -> BS!Pools \cup {None}]
  BY DEF BS!Call, BS!Refused, BS!Queue, BS!Wait, BS!Leave, BS!Holding, BS!table, Shape,
     BS!TypeOK
<1>5. bsPc' \in [Solvers -> Places]
  BY <1>1, UsersMove DEF Places
<1>6. c \notin BS!Starters
  BY <1>2 DEF BS!Starters
<1>7. \A d \in BS!Starters : mine'[d] = mine[d]
  BY <1>4, <1>6 DEF BS!Starters
<1>8. BS!TypeOK'
  BY <1>3, <1>4, <1>7 DEF BS!TypeOK
<1>9. Shape'
  BY <1>4, <1>5 DEF Shape
<1>10. OneStarter'
  BY <1>3, <1>4, <1>7 DEF OneStarter
<1>11. QED  BY <1>8, <1>9, <1>10

\* A caller that uses the current pool, or reads which it is.
LEMMA ReuseInv == ASSUME Bounded, SolverInv, NEW c \in Solvers, BS!Reuse(c)  PROVE SolverInv'
<1> USE DEF SolverInv
<1>1. BS!Goto(c, "got") /\ c \notin BS!Users /\ c \notin BS!Starters
  BY DEF BS!Reuse, BS!Open, BS!Users, BS!Starters
<1>2. /\ BS!Users' = BS!Users \cup {c} /\ BS!Cardinality(BS!Users') = inFlight + 1
      /\ BS!Starters' = BS!Starters /\ bsPc' \in [Solvers -> Places]
  <2>1. "got" \in Places  BY DEF Places
  <2>2. BS!Starters \ {c} = BS!Starters  BY <1>1
  <2>3. QED  BY <1>1, <2>1, <2>2, UsersMove DEF BS!TypeOK
<1>3. UNCHANGED <<bsPool, retired, starting, created, up, pending, doomed, mine>>
  BY DEF BS!Reuse
<1>4. BS!TypeOK'
  BY <1>2, <1>3 DEF BS!Reuse, BS!TypeOK
<1>5. QED  BY <1>2, <1>3, <1>4 DEF Shape, OneStarter

LEMMA ReadPoolInv == ASSUME Bounded, SolverInv, NEW c \in Solvers, BS!ReadPool(c)  PROVE SolverInv'
<1> USE DEF SolverInv
<1>1. BS!Goto(c, "solving") /\ c \in BS!Users /\ c \notin BS!Starters
  BY DEF BS!ReadPool, BS!Users, BS!Starters
<1>2. BS!Users' = BS!Users /\ BS!Starters' = BS!Starters /\ bsPc' \in [Solvers -> Places]
  <2>1. "solving" \in Places  BY DEF Places
  <2>2. BS!Starters \ {c} = BS!Starters /\ BS!Users \cup {c} = BS!Users  BY <1>1
  <2>3. QED  BY <1>1, <2>1, <2>2, UsersMove
<1>3. /\ UNCHANGED <<bsPool, retired, starting, inFlight, created, up, pending, doomed>>
      /\ \A d \in BS!Starters : mine'[d] = mine[d]
      /\ mine' \in [Solvers -> BS!Pools \cup {None}]
  BY <1>1 DEF BS!ReadPool, BS!Holding, BS!table, Shape, BS!TypeOK, BS!Starters
<1>4. BS!TypeOK' /\ Shape' /\ OneStarter'
  BY <1>2, <1>3 DEF BS!TypeOK, Shape, OneStarter
<1>5. QED  BY <1>4

\* A start is registered under a number that no pool has had before.
LEMMA RegisterInv == ASSUME Bounded, SolverInv, NEW c \in Solvers, BS!Register(c)  PROVE SolverInv'
<1> DEFINE p == created + 1
<1> USE DEF SolverInv
<1>1. BS!Goto(c, "starting") /\ c \notin BS!Users /\ c \notin BS!Starters
  BY DEF BS!Register, BS!Open, BS!Users, BS!Starters
<1>2. /\ BS!Users' = BS!Users /\ BS!Starters' = BS!Starters \cup {c} /\ bsPc' \in [Solvers -> Places]
  <2>1. "starting" \in Places  BY DEF Places
  <2>2. BS!Users \ {c} = BS!Users  BY <1>1
  <2>3. QED  BY <1>1, <2>1, <2>2, UsersMove
<1>3. p \in BS!Pools /\ created' = p /\ p \in 0..MaxPools /\ created \in Nat
  BY DEF BS!Register, Shape, Bounded, BS!Pools
<1>4. 1..created \subseteq 1..p /\ p \notin 1..created /\ p \in 1..p
  BY <1>3 DEF Shape
<1>5. /\ UNCHANGED <<inFlight, doomed>> /\ pending' = pending \cup {p} /\ up' \subseteq up
      /\ starting' = p /\ bsPool' = None /\ retired' \in {bsPool, retired}
      /\ mine' = [mine EXCEPT ![c] = p]
  BY DEF BS!Register, BS!RetireCurrent, BS!Holding
<1>6. /\ \A d \in BS!Starters : mine'[d] = mine[d] /\ mine[d] # p /\ d # c
      /\ mine'[c] = p /\ mine' \in [Solvers -> BS!Pools \cup {None}]
  BY <1>1, <1>3, <1>4, <1>5 DEF Shape, BS!TypeOK, BS!Starters
<1>7. BS!TypeOK'
  BY <1>2, <1>3, <1>4, <1>5, <1>6 DEF BS!TypeOK
<1>8. Shape'
  BY <1>2, <1>3, <1>4, <1>5, <1>6 DEF Shape
<1>9. OneStarter'
  BY <1>2, <1>5, <1>6 DEF OneStarter
<1>10. QED  BY <1>7, <1>8, <1>9

\* The start ends, well or not.
LEMMA StartInv ==
    ASSUME Bounded, SolverInv, NEW c \in Solvers, BS!Started(c) \/ BS!StartFails(c)
    PROVE  SolverInv'
<1> USE DEF SolverInv
<1>1. BS!Goto(c, "commit") /\ c \notin BS!Users /\ c \in BS!Starters
  BY DEF BS!Started, BS!StartFails, BS!Users, BS!Starters
<1>2. BS!Users' = BS!Users /\ BS!Starters' = BS!Starters /\ bsPc' \in [Solvers -> Places]
  <2>1. "commit" \in Places  BY DEF Places
  <2>2. BS!Starters \cup {c} = BS!Starters /\ BS!Users \ {c} = BS!Users  BY <1>1
  <2>3. QED  BY <1>1, <2>1, <2>2, UsersMove
<1>3. UNCHANGED <<bsPool, retired, starting, inFlight, created, pending, doomed, mine>>
      /\ up' \subseteq up \cup {mine[c]}
  BY DEF BS!Started, BS!StartFails, BS!table
<1>4. mine[c] \in pending
  BY <1>1 DEF BS!TypeOK
<1>5. QED  BY <1>2, <1>3, <1>4 DEF BS!TypeOK, Shape, OneStarter

\* The starter closes its own channel; those of the other starters stay open.
LEMMA CommitInv == ASSUME Bounded, SolverInv, NEW c \in Solvers, BS!Commit(c)  PROVE SolverInv'
<1> USE DEF SolverInv
<1>1. c \notin BS!Users /\ c \in BS!Starters /\ pending' = pending \ {mine[c]}
  BY DEF BS!Commit, BS!Wakes, BS!Users, BS!Starters
<1>2. mine[c] \in 1..created
  BY <1>1 DEF BS!TypeOK
<1>3. /\ UNCHANGED <<retired, created, doomed>> /\ starting' = None
      /\ up' \subseteq up /\ bsPool' \in {bsPool, mine[c]}
      /\ mine' \in [Solvers -> BS!Pools \cup {None}]
      /\ \A d \in Solvers \ {c} : mine'[d] = mine[d]
  BY DEF BS!Commit, BS!Leave, BS!Holding, Shape
<1>4. /\ BS!Starters' = BS!Starters \ {c} /\ bsPc' \in [Solvers -> Places]
      /\ inFlight' = BS!Cardinality(BS!Users')
  <2>1. "solving" \in Places /\ "idle" \in Places  BY DEF Places
  <2>2. CASE bsPool' = mine[c] /\ inFlight' = inFlight + 1 /\ BS!Goto(c, "solving")
    BY <1>1, <2>1, <2>2, UsersMove DEF BS!TypeOK
  <2>3. CASE inFlight' = inFlight /\ BS!Goto(c, "idle")
    <3>1. BS!Users \ {c} = BS!Users  BY <1>1
    <3>2. QED  BY <2>1, <2>3, <3>1, UsersMove DEF BS!TypeOK
  <2>4. QED  BY <2>2, <2>3 DEF BS!Commit, BS!Leave
<1>5. \A d \in BS!Starters' : d \in BS!Starters /\ d # c /\ mine'[d] = mine[d] /\ mine[d] # mine[c]
  BY <1>1, <1>3, <1>4 DEF OneStarter, BS!Starters
<1>6. BS!TypeOK'
  BY <1>1, <1>2, <1>3, <1>4, <1>5 DEF BS!TypeOK, Shape
<1>7. Shape'
  BY <1>2, <1>3, <1>4 DEF Shape
<1>8. OneStarter'
  <2>1. \A d, e \in BS!Starters' : mine'[d] = mine'[e] => d = e
    BY <1>5 DEF OneStarter
  <2>2. \A p \in pending' : \E d \in BS!Starters' : mine'[d] = p
    BY <1>1, <1>3, <1>4 DEF OneStarter, BS!Starters
  <2>3. QED  BY <2>1, <2>2 DEF OneStarter
<1>9. QED  BY <1>6, <1>7, <1>8

LEMMA ReleaseInv == ASSUME Bounded, SolverInv, NEW c \in Solvers, BS!Release(c)  PROVE SolverInv'
<1> USE DEF SolverInv
<1>1. BS!Goto(c, "idle") /\ c \in BS!Users /\ c \notin BS!Starters
  BY DEF BS!Release, BS!Leave, BS!Users, BS!Starters
<1>2. /\ BS!Cardinality(BS!Users') = inFlight - 1
      /\ BS!Starters' = BS!Starters /\ bsPc' \in [Solvers -> Places]
  <2>1. "idle" \in Places  BY DEF Places
  <2>2. BS!Starters \ {c} = BS!Starters  BY <1>1
  <2>3. QED  BY <1>1, <2>1, <2>2, UsersMove DEF BS!TypeOK
<1>3. /\ UNCHANGED <<bsPool, starting, created, pending, doomed>> /\ inFlight' = inFlight - 1
      /\ retired' \in {retired, None} /\ up' \subseteq up
      /\ \A d \in BS!Starters : mine'[d] = mine[d]
      /\ mine' \in [Solvers -> BS!Pools \cup {None}]
  BY <1>1 DEF BS!Release, BS!Leave, BS!Holding, Shape, BS!Starters
<1>4. BS!TypeOK' /\ Shape' /\ OneStarter'
  BY <1>2, <1>3 DEF BS!TypeOK, Shape, OneStarter
<1>5. QED  BY <1>4

\* What happens outside the calls: the idle loop, Close, Stop, the end of the cooling.
LEMMA OutsideInv ==
    ASSUME Bounded, SolverInv, BS!StopIdle \/ BS!Close \/ BS!Stop \/ BS!Thaw
    PROVE  SolverInv'
<1> USE DEF SolverInv
<1>1. /\ UNCHANGED <<inFlight, starting, created, pending, bsPc, mine>>
      /\ bsPool' \in {bsPool, None} /\ retired' \in {retired, None} /\ up' \subseteq up
      /\ doomed' \subseteq doomed \cup ({bsPool, retired} \ {None})
  BY DEF BS!StopIdle, BS!Close, BS!Stop, BS!Thaw, BS!table
<1>2. BS!Users' = BS!Users /\ BS!Starters' = BS!Starters
  BY <1>1 DEF BS!Users, BS!Starters
<1>3. BS!TypeOK' /\ Shape' /\ OneStarter'
  BY <1>1, <1>2 DEF BS!TypeOK, Shape, OneStarter
<1>4. QED  BY <1>3

LEMMA SolverStep == ASSUME Bounded, SolverInv, [BS!Next]_BS!vars  PROVE SolverInv'
<1>1. CASE BS!Next
  BY <1>1, QuietInv, ReuseInv, ReadPoolInv, RegisterInv, StartInv, CommitInv, ReleaseInv,
     OutsideInv
  DEF BS!Next, BS!CallerStep
<1>2. CASE UNCHANGED BS!vars
  BY <1>2 DEF BS!vars, BS!table, SolverInv, BS!TypeOK, Shape, OneStarter, BS!Users,
     BS!Starters
<1>3. QED  BY <1>1, <1>2

\* Whatever part of the run moves, what the solver sees is a solver.
LEMMA SolverRuns == (RunInit => BS!Init) /\ ([RunNext]_allVars => [BS!Next]_BS!vars)
<1>1. RunInit => BS!Init
  BY DEF RunInit
<1>2. [RunNext]_allVars => [BS!Next]_BS!vars
  BY DEF RunNext, TokenPart, Solver, Worker, Binary, Probe, allVars, bsVars, BS!vars,
     BS!table
<1>3. QED  BY <1>1, <1>2

LEMMA SpecSolverInv ==
    ASSUME IsFiniteSet(Solvers), MaxPools \in Nat
    PROVE  RunSpec => []SolverInv
<1>1. RunInit => SolverInv
  BY SolverRuns, InitSolverInv DEF Bounded
<1>2. SolverInv /\ [RunNext]_allVars => SolverInv'
  BY SolverRuns, SolverStep DEF Bounded
<1>3. QED  BY <1>1, <1>2, PTL DEF RunSpec

LEMMA Woken == SolverInv => BS!WaitersWake
  BY DEF SolverInv, OneStarter, BS!WaitersWake

\* The idle loop acts when no call is counted, so nobody solves on what it takes.
LEMMA IdleStep ==
    ASSUME Bounded, SolverInv, [BS!Next]_BS!vars
    PROVE  \A c \in Solvers, p \in doomed' \ doomed : bsPc[c] = "solving" /\ mine[c] = p => closed'
<1>1. CASE BS!StopIdle
  <2>1. IsFiniteSet(BS!Users)
    BY FS_Subset DEF Bounded, BS!Users
  <2>2. BS!Users = {}
    BY <1>1, <2>1, SameCount, FS_EmptySet DEF BS!StopIdle, BS!Idle, SolverInv, BS!TypeOK
  <2>3. QED  BY <2>2 DEF BS!Users
<1>2. CASE BS!Close
  BY <1>2 DEF BS!Close
<1>3. CASE ~BS!StopIdle /\ ~BS!Close
  <2>1. doomed' \subseteq doomed
    BY <1>3 DEF BS!Next, BS!CallerStep, BS!Call, BS!Refused, BS!Reuse, BS!ReadPool,
       BS!Queue,
                BS!Wait, BS!Register, BS!Started, BS!StartFails, BS!Commit, BS!Release, BS!Stop,
                BS!Thaw, BS!vars
  <2>2. QED  BY <2>1
<1>4. QED  BY <1>1, <1>2, <1>3

\* However starts, changes of the key, cancellations, idle stops and Close overlap, whoever
\* waits for a start has somebody who will wake him, and a pool that a caller solves on is
\* not stopped for being idle.
THEOREM BrowserSolverServes ==
    ASSUME IsFiniteSet(Solvers), MaxPools \in Nat
    PROVE  RunSpec => PoolsServe
<1>1. SolverInv => BS!TypeOK /\ BS!WaitersWake
  BY Woken DEF SolverInv
<1>2. SolverInv /\ [RunNext]_allVars => [BS!Next]_BS!vars
  BY SolverRuns
<1>3. SolverInv /\ [BS!Next]_BS!vars =>
        [\A c \in Solvers, p \in doomed' \ doomed : bsPc[c] = "solving" /\ mine[c] = p => closed']_BS!vars
  BY IdleStep DEF Bounded
<1>4. QED
  BY SpecSolverInv, <1>1, <1>2, <1>3, PTL DEF RunSpec, PoolsServe, BS!PoolsServe,
     BS!IdleStopsIdle

(***************************************************************************)
(* One browser worker.                                                     *)
(***************************************************************************)

\* A verification that has answered is over, and a page that is not dirty has none left of
\* an earlier call: while a call is polled, everything in its page is its own.
PageInv ==
    /\ rwPc \in {"idle", "open", "init", "poll"}
    /\ ~dirty /\ rwPc # "poll" => alive = {}
    /\ rwPc = "init" => alive = {}
    /\ rwPc = "poll" => /\ alive \subseteq {call}
                        /\ outcome # None => outcome = call /\ alive = {}
                        /\ error # None => error = call /\ alive = {}

WorkerInv == PageInv /\ RW!OwnAnswer

LEMMA WorkerStep == ASSUME WorkerInv, [RW!Next]_RW!vars  PROVE WorkerInv'
<1> USE DEF WorkerInv, PageInv, RW!OwnAnswer, RW!Return, RW!page
<1>1. ASSUME RW!Solve PROVE WorkerInv'       BY <1>1 DEF RW!Solve
<1>2. ASSUME RW!Reload PROVE WorkerInv'      BY <1>2 DEF RW!Reload
<1>3. ASSUME RW!ReloadFails PROVE WorkerInv' BY <1>3 DEF RW!ReloadFails
<1>4. ASSUME RW!Clean PROVE WorkerInv'       BY <1>4 DEF RW!Clean
<1>5. ASSUME RW!Start PROVE WorkerInv'       BY <1>5 DEF RW!Start
<1>6. ASSUME RW!StartFails PROVE WorkerInv'  BY <1>6 DEF RW!StartFails
<1>7. ASSUME RW!Callback PROVE WorkerInv'    BY <1>7 DEF RW!Callback
<1>8. ASSUME RW!PollError PROVE WorkerInv'   BY <1>8 DEF RW!PollError
<1>9. ASSUME RW!PollOutcome PROVE WorkerInv' BY <1>9 DEF RW!PollOutcome
<1>10. ASSUME RW!PollEnds PROVE WorkerInv'   BY <1>10 DEF RW!PollEnds, RW!GiveUp
<1>11. CASE UNCHANGED RW!vars                BY <1>11 DEF RW!vars
<1>12. QED
  BY <1>1, <1>2, <1>3, <1>4, <1>5, <1>6, <1>7, <1>8, <1>9, <1>10, <1>11 DEF RW!Next

\* A late answer of a call that timed out or was cancelled never becomes the answer of a
\* later call of the same page.
THEOREM RodWorkerOwnAnswer == RunSpec => []OwnAnswer
<1>1. RunInit => WorkerInv
  BY DEF RunInit, RW!Init, WorkerInv, PageInv, RW!OwnAnswer
<1>2. [RunNext]_allVars => [RW!Next]_RW!vars
  BY DEF RunNext, TokenPart, Solver, Worker, Binary, Probe, allVars, rwVars, RW!vars,
     RW!page
<1>3. WorkerInv => OwnAnswer
  BY DEF WorkerInv, OwnAnswer
<1>4. QED  BY <1>1, <1>2, <1>3, WorkerStep, PTL DEF RunSpec

(***************************************************************************)
(* The installation of the browser.                                        *)
(***************************************************************************)

Stages == {"idle", "sums", "verify", "archive", "check", "extract", "extracting", "rename"}

\* A list is used once its signature held, an archive once its digest was on that list.
Listed == {p \in Processes : bbPc[p] \in {"archive", "check", "extract", "extracting", "rename"}}
Checked == {p \in Processes : bbPc[p] \in {"extract", "extracting", "rename"}}

\* Only whole directories of checked archives are renamed.
InstallInv ==
    /\ dir \in {None, "good"}
    /\ bbPc \in [Processes -> Stages]
    /\ sums \in [Processes -> {None, "good", "other"}]
    /\ archive \in [Processes -> {None, "good", "other"}]
    /\ tmp \in [Processes -> {None, "part", "good"}]
    /\ \A p \in Listed : sums[p] = "good"
    /\ \A p \in Checked : archive[p] = "good"
    /\ \A p \in Processes : bbPc[p] = "rename" => tmp[p] = "good"
    /\ BB!OnlyWholeBinaries

LEMMA InstallStep == ASSUME InstallInv, [BB!Next]_BB!vars  PROVE InstallInv'
<1> USE DEF InstallInv, Stages, Listed, Checked, BB!OnlyWholeBinaries, BB!Step
<1>1. ASSUME NEW p \in Processes, BB!Discover(p) PROVE InstallInv'      BY <1>1 DEF BB!Discover
<1>2. ASSUME NEW p \in Processes, BB!Missing(p) PROVE InstallInv'       BY <1>2 DEF BB!Missing
<1>3. ASSUME NEW p \in Processes, BB!FetchSums(p) PROVE InstallInv'     BY <1>3 DEF BB!FetchSums
<1>4. ASSUME NEW p \in Processes, BB!Verify(p) PROVE InstallInv'        BY <1>4 DEF BB!Verify
<1>5. ASSUME NEW p \in Processes, BB!FetchArchive(p) PROVE InstallInv'  BY <1>5 DEF BB!FetchArchive
<1>6. ASSUME NEW p \in Processes, BB!Check(p) PROVE InstallInv'         BY <1>6 DEF BB!Check
<1>7. ASSUME NEW p \in Processes, BB!Extract(p) PROVE InstallInv'
  <2> DEFINE Into(what) == tmp' = [tmp EXCEPT ![p] = what]
  <2>1. UNCHANGED <<dir, sums, archive, used>>
    BY <1>7 DEF BB!Extract
  <2>2. CASE bbPc[p] = "extract" /\ bbPc' = [bbPc EXCEPT ![p] = "extracting"] /\ Into("part")
    BY <2>1, <2>2
  <2>3. CASE bbPc[p] = "extracting" /\ bbPc' = [bbPc EXCEPT ![p] = "rename"] /\ Into(archive[p])
    BY <2>1, <2>3
  <2>4. CASE bbPc[p] = "extracting" /\ bbPc' = [bbPc EXCEPT ![p] = "idle"] /\ Into(None)
    BY <2>1, <2>4
  <2>5. QED  BY <1>7, <2>2, <2>3, <2>4 DEF BB!Extract
<1>8. ASSUME NEW p \in Processes, BB!Rename(p) PROVE InstallInv'        BY <1>8 DEF BB!Rename
<1>9. ASSUME NEW p \in Processes, BB!Crash(p) PROVE InstallInv'         BY <1>9 DEF BB!Crash
<1>10. CASE UNCHANGED BB!vars                                           BY <1>10 DEF BB!vars
<1>11. QED
  BY <1>1, <1>2, <1>3, <1>4, <1>5, <1>6, <1>7, <1>8, <1>9, <1>10 DEF BB!Next

\* Whatever the sources deliver and wherever a process dies, no worker is started from
\* anything but the whole of an archive whose digest is on the publisher's signed list.
THEOREM BrowserBinaryWhole == RunSpec => []OnlyWholeBinaries
<1>1. RunInit => InstallInv
  BY DEF RunInit, BB!Init, InstallInv, Stages, Listed, Checked, BB!OnlyWholeBinaries
<1>2. [RunNext]_allVars => [BB!Next]_BB!vars
  BY DEF RunNext, TokenPart, Solver, Worker, Binary, Probe, allVars, bbVars, BB!vars
<1>3. InstallInv => OnlyWholeBinaries
  BY DEF InstallInv, OnlyWholeBinaries
<1>4. QED  BY <1>1, <1>2, <1>3, InstallStep, PTL DEF RunSpec

(***************************************************************************)
(* The token pool.                                                         *)
(***************************************************************************)

LEMMA MinOfTwo ==
    ASSUME NEW a \in Int, NEW b \in Int
    PROVE  Min({a, b}) = IF a <= b THEN a ELSE b
<1> DEFINE m == IF a <= b THEN a ELSE b
<1>1. m \in {a, b} /\ \A y \in {a, b} : m <= y
  OBVIOUS
<1>2. \A x \in {a, b} : (\A y \in {a, b} : x <= y) => x = m
  OBVIOUS
<1>3. QED  BY <1>1, <1>2 DEF Min

LEMMA MaxOfTwo ==
    ASSUME NEW a \in Int, NEW b \in Int
    PROVE  Max({a, b}) = IF a >= b THEN a ELSE b
<1> DEFINE m == IF a >= b THEN a ELSE b
<1>1. m \in {a, b} /\ \A y \in {a, b} : m >= y
  OBVIOUS
<1>2. \A x \in {a, b} : (\A y \in {a, b} : x >= y) => x = m
  OBVIOUS
<1>3. QED  BY <1>1, <1>2 DEF Max

\* The n-th element of a finite set of numbers is one of them, and the order of the
\* numbers is the order of the elements.
Rank(S, i) == Cardinality({j \in S : j <= i})

LEMMA RankGrows ==
    ASSUME NEW S \in SUBSET Nat, IsFiniteSet(S), NEW i \in S, NEW j \in S, i < j
    PROVE  /\ Rank(S, i) \in Nat /\ Rank(S, j) \in Nat
           /\ Rank(S, i) < Rank(S, j)
<1> DEFINE A == {x \in S : x <= i}
           B == {x \in S : x <= j}
<1>1. A \in SUBSET B /\ A # B /\ B \in SUBSET S
  <2>1. j \in B /\ j \notin A
    OBVIOUS
  <2>2. \A x \in A : x \in B
    OBVIOUS
  <2>3. B \in SUBSET S
    OBVIOUS
  <2>4. QED  BY <2>1, <2>2, <2>3
<1>2. IsFiniteSet(B)
  BY <1>1, FS_Subset
<1>3. IsFiniteSet(A) /\ Cardinality(A) <= Cardinality(B) /\ (Cardinality(A) = Cardinality(B) => A = B)
  <2> HIDE DEF A, B
  <2>1. QED  BY <1>1, <1>2, FS_Subset
<1>4. Cardinality(A) \in Nat /\ Cardinality(B) \in Nat
  BY <1>2, <1>3, FS_CardinalityType
<1>5. QED  BY <1>1, <1>3, <1>4 DEF Rank

LEMMA NthElement ==
    ASSUME NEW S \in SUBSET Nat, IsFiniteSet(S), NEW n \in 1..Cardinality(S)
    PROVE  \E i \in S : Rank(S, i) = n
<1> DEFINE f == [i \in S |-> Rank(S, i)]
           T == 1..Cardinality(S)
<1>1. Cardinality(S) \in Nat
  BY FS_CardinalityType
<1>2. \A i \in S : Rank(S, i) \in T
  <2> SUFFICES ASSUME NEW i \in S PROVE Rank(S, i) \in T
    OBVIOUS
  <2> DEFINE A == {x \in S : x <= i}
  <2>1. A \in SUBSET S /\ i \in A
    OBVIOUS
  <2>2. IsFiniteSet(A) /\ Cardinality(A) <= Cardinality(S)
    BY <2>1, FS_Subset
  <2>3. Cardinality(A) \in Nat /\ Cardinality(A) # 0
    BY <2>1, <2>2, FS_CardinalityType, FS_EmptySet
  <2>4. QED  BY <1>1, <2>2, <2>3 DEF Rank
<1>3. \A i, j \in S : Rank(S, i) = Rank(S, j) => i = j
  <2> SUFFICES ASSUME NEW i \in S, NEW j \in S, i # j PROVE Rank(S, i) # Rank(S, j)
    OBVIOUS
  <2>1. CASE i < j
    BY <2>1, RankGrows
  <2>2. CASE j < i
    BY <2>2, RankGrows
  <2>3. QED  BY <2>1, <2>2
<1>4. f \in Injection(S, T)
  BY <1>2, <1>3 DEF Injection, IsInjective
<1>5. IsFiniteSet(T) /\ Cardinality(T) = Cardinality(S)
  BY <1>1, FS_Interval
<1>6. f \in Surjection(S, T)
  <2> HIDE DEF f, T
  <2>1. QED  BY <1>4, <1>5, FS_Injection
<1>7. QED  BY <1>6 DEF Surjection

\* The places of the live tokens of a bucket.
LEMMA NthLiveIs ==
    ASSUME NEW b, DOMAIN b \in SUBSET Nat, IsFiniteSet(DOMAIN b)
    PROVE  /\ IsFiniteSet(LivePositions(b)) /\ Cardinality(LivePositions(b)) \in Nat
           /\ \A n \in 1..Cardinality(LivePositions(b)) :
                NthLive(b, n) \in LivePositions(b)
           /\ \A m, n \in 1..Cardinality(LivePositions(b)) :
                m < n => NthLive(b, m) < NthLive(b, n)
<1> DEFINE S == LivePositions(b)
<1>1. S \in SUBSET Nat /\ S \in SUBSET DOMAIN b
  BY DEF LivePositions
<1>2. IsFiniteSet(S) /\ Cardinality(S) \in Nat
  BY <1>1, FS_Subset, FS_CardinalityType
<1>3. \A n : NthLive(b, n) = CHOOSE i \in S : Rank(S, i) = n
  BY DEF NthLive, Rank
<1> HIDE DEF S
<1>4. \A n \in 1..Cardinality(S) : NthLive(b, n) \in S /\ Rank(S, NthLive(b, n)) = n
  <2> SUFFICES ASSUME NEW n \in 1..Cardinality(S)
               PROVE  NthLive(b, n) \in S /\ Rank(S, NthLive(b, n)) = n
    OBVIOUS
  <2>1. \E i \in S : Rank(S, i) = n
    BY <1>1, <1>2, NthElement
  <2>2. QED  BY <1>3, <2>1
<1>5. \A m, n \in 1..Cardinality(S) : m < n => NthLive(b, m) < NthLive(b, n)
  <2> SUFFICES ASSUME NEW m \in 1..Cardinality(S), NEW n \in 1..Cardinality(S), m < n
               PROVE  NthLive(b, m) < NthLive(b, n)
    OBVIOUS
  <2> DEFINE i == NthLive(b, m)
             j == NthLive(b, n)
  <2>1. i \in S /\ j \in S /\ Rank(S, i) = m /\ Rank(S, j) = n
    BY <1>4
  <2> HIDE DEF i, j
  <2>2. i # j
    BY <2>1
  <2>3. ~(j < i)
    BY <1>1, <1>2, <2>1, RankGrows
  <2>4. i < j
    BY <1>1, <2>1, <2>2, <2>3
  <2>5. QED  BY <2>4 DEF i, j
<1>6. QED  BY <1>2, <1>4, <1>5 DEF S

(***************************************************************************)
(* The invariant of the token pool, in terms of the parts of the struct     *)
(* that its operations change: the buckets bk of the key in force, the      *)
(* registry iss, the waiters w, the channels ch, who waits (tk) and what    *)
(* was spent (sp).                                                          *)
(***************************************************************************)
NoTokens == {None, Err}
Good(tok) == tok.fresh /\ Live(tok)
Held(ch, t) == ch[t] \notin NoTokens /\ Good(ch[t])

\* The tokens of this moment.
Minted == {tok \in Tokens : tok.exp <= now + TTL}

Stock(bk, kf) ==
    /\ bk \in [Keys -> Seq(Minted)]
    /\ \A k \in Keys : \A i \in DOMAIN bk[k] : bk[k][i].key = k /\ k = kf

Registry(iss) == iss \in [Certs -> 0..(now + TTL + Grace)]

\* A waiter has nothing in its channel and asked for the key in force.
Queue(w, kf, ch, tk) ==
    /\ w \in Seq(Takers)
    /\ ch \in [Takers -> Minted \cup NoTokens]
    /\ tk \in [Takers -> Keys \cup {None}]
    /\ \A i, j \in DOMAIN w : w[i] = w[j] => i = j
    /\ \A i \in DOMAIN w : ch[w[i]] = None /\ tk[w[i]] = kf /\ kf # None
    /\ \A t \in Takers : ch[t] # None => tk[t] # None
    /\ \A t \in Takers : ch[t] \notin NoTokens => ch[t].key = tk[t]

\* Whatever can still be submitted is registered for longer.
Backed(bk, iss, ch, sp) ==
    /\ \A t \in Takers : Held(ch, t) => iss[ch[t].cert] >= ch[t].exp + Grace
    /\ \A k \in Keys : \A i \in DOMAIN bk[k] :
         Good(bk[k][i]) => iss[bk[k][i].cert] >= bk[k][i].exp + Grace
    /\ \A x \in sp : Good(x) => iss[x.cert] >= x.exp + Grace

\* No certifyId is in two places.
Apart(bk, ch, sp) ==
    /\ \A s, t \in Takers : Held(ch, s) /\ Held(ch, t) /\ ch[s].cert = ch[t].cert => s = t
    /\ \A k \in Keys : \A i, j \in DOMAIN bk[k] :
         Good(bk[k][i]) /\ Good(bk[k][j]) /\ bk[k][i].cert = bk[k][j].cert => i = j
    /\ \A x, y \in sp : Good(x) /\ Good(y) /\ x.cert = y.cert => x = y
    /\ \A t \in Takers, k \in Keys : \A i \in DOMAIN bk[k] :
         Held(ch, t) /\ Good(bk[k][i]) => ch[t].cert # bk[k][i].cert
    /\ \A t \in Takers, x \in sp : Held(ch, t) /\ Good(x) => ch[t].cert # x.cert
    /\ \A x \in sp, k \in Keys : \A i \in DOMAIN bk[k] :
         Good(x) /\ Good(bk[k][i]) => x.cert # bk[k][i].cert

Sound(bk, iss, w, kf, ch, tk, sp) ==
    /\ Stock(bk, kf) /\ Registry(iss) /\ Queue(w, kf, ch, tk)
    /\ sp \subseteq Minted
    /\ Backed(bk, iss, ch, sp) /\ Apart(bk, ch, sp)

SoundPool(p, ch, tk, sp) == Sound(p.buckets, p.issued, p.waiters, p.key, ch, tk, sp)

MostFlight == Max({EmptySolve, PoolMax})

Struct ==
    [closed : BOOLEAN, active : BOOLEAN, solver : BOOLEAN, key : Keys \cup {None},
     buckets : [Keys -> Seq(Tokens)], issued : [Certs -> Nat],
     inflight : [Keys -> 0..MostFlight], waiters : Seq(Takers),
     streak : 0..EmptySolve, target : PoolMin..PoolMax, lastTake : Nat]

LEMMA MostFlightIs ==
    MostFlight \in Nat /\ EmptySolve <= MostFlight /\ PoolMax <= MostFlight /\ 1 <= MostFlight
  BY MaxOfTwo, TokenPoolAssumption DEF MostFlight

\* The struct, and the tokens around it.
PoolInv(p, ch, tk, sp) ==
    /\ p \in Struct /\ (p.active => p.key # None) /\ p.lastTake <= now
    /\ \A k \in Keys : Len(p.buckets[k]) <= PoolMax
    /\ SoundPool(p, ch, tk, sp)

TokenInv == now \in 0..MaxTime /\ PoolInv(pool, chan, taker, spent)

(***************************************************************************)
(* Lemmas about the buckets.                                               *)
(***************************************************************************)

\* Each token of d was at a place of its own in b.
Drawn(d, b) ==
    \E f \in [DOMAIN d -> DOMAIN b] :
        /\ \A i, j \in DOMAIN d : f[i] = f[j] => i = j
        /\ \A i \in DOMAIN d : d[i] = b[f[i]]

LEMMA DrawnSound ==
    ASSUME NEW bk, NEW bk2, NEW iss, NEW w, NEW kf, NEW ch, NEW tk, NEW sp,
           Sound(bk, iss, w, kf, ch, tk, sp),
           bk2 \in [Keys -> Seq(Minted)],
           \A k \in Keys : Drawn(bk2[k], bk[k])
    PROVE  Sound(bk2, iss, w, kf, ch, tk, sp)
<1>1. \A k \in Keys : \A i \in DOMAIN bk2[k] : \E j \in DOMAIN bk[k] : bk2[k][i] = bk[k][j]
  BY DEF Drawn
<1>2. Stock(bk2, kf)
  BY <1>1 DEF Sound, Stock
<1>3. Backed(bk2, iss, ch, sp)
  BY <1>1 DEF Sound, Backed
<1>4. Apart(bk2, ch, sp)
  <2>1. \A k \in Keys : \A i, j \in DOMAIN bk2[k] :
          Good(bk2[k][i]) /\ Good(bk2[k][j]) /\ bk2[k][i].cert = bk2[k][j].cert => i = j
    <3> SUFFICES ASSUME NEW k \in Keys, NEW i \in DOMAIN bk2[k], NEW j \in DOMAIN bk2[k],
                        Good(bk2[k][i]), Good(bk2[k][j]), bk2[k][i].cert = bk2[k][j].cert
                 PROVE  i = j
      OBVIOUS
    <3>1. PICK f \in [DOMAIN bk2[k] -> DOMAIN bk[k]] :
            /\ \A x, y \in DOMAIN bk2[k] : f[x] = f[y] => x = y
            /\ \A x \in DOMAIN bk2[k] : bk2[k][x] = bk[k][f[x]]
      BY DEF Drawn
    <3>2. f[i] \in DOMAIN bk[k] /\ f[j] \in DOMAIN bk[k]
      OBVIOUS
    <3>3. Good(bk[k][f[i]]) /\ Good(bk[k][f[j]]) /\ bk[k][f[i]].cert = bk[k][f[j]].cert
      BY <3>1
    <3>4. f[i] = f[j]
      BY <3>2, <3>3 DEF Sound, Apart
    <3>5. QED  BY <3>1, <3>4
  <2>2. \A t \in Takers, k \in Keys : \A i \in DOMAIN bk2[k] :
          Held(ch, t) /\ Good(bk2[k][i]) => ch[t].cert # bk2[k][i].cert
    BY <1>1 DEF Sound, Apart
  <2>3. \A x \in sp, k \in Keys : \A i \in DOMAIN bk2[k] :
          Good(x) /\ Good(bk2[k][i]) => x.cert # bk2[k][i].cert
    BY <1>1 DEF Sound, Apart
  <2>4. QED  BY <2>1, <2>2, <2>3 DEF Sound, Apart
<1>5. QED  BY <1>2, <1>3, <1>4 DEF Sound

LEMMA BucketPlaces ==
    ASSUME NEW S, NEW b \in Seq(S)
    PROVE  DOMAIN b = 1..Len(b) /\ Len(b) \in Nat /\ DOMAIN b \in SUBSET Nat /\ IsFiniteSet(DOMAIN b)
<1>1. DOMAIN b = 1..Len(b) /\ Len(b) \in Nat
  OBVIOUS
<1>2. QED  BY <1>1, FS_Interval

\* What pruning keeps of a bucket is live.
LEMMA KeptIs ==
    ASSUME NEW b \in Seq(Minted)
    PROVE  /\ Kept(b) \in Seq(Minted) /\ Drawn(Kept(b), b) /\ Len(Kept(b)) <= Len(b)
           /\ \A i \in DOMAIN Kept(b) : Live(Kept(b)[i])
<1> DEFINE n == Cardinality(LivePositions(b))
<1>1. DOMAIN b = 1..Len(b) /\ Len(b) \in Nat /\ DOMAIN b \in SUBSET Nat /\ IsFiniteSet(DOMAIN b)
  BY BucketPlaces
<1>2. /\ n \in Nat
      /\ \A m \in 1..n : NthLive(b, m) \in LivePositions(b)
      /\ \A i, j \in 1..n : i < j => NthLive(b, i) < NthLive(b, j)
  BY <1>1, NthLiveIs
<1>3. n <= Len(b)
  <2>1. LivePositions(b) \in SUBSET DOMAIN b
    BY DEF LivePositions
  <2>2. n <= Cardinality(DOMAIN b)
    BY <1>1, <2>1, FS_Subset
  <2>3. Cardinality(1..Len(b)) = Len(b)
    BY <1>1, FS_Interval
  <2>4. QED  BY <1>1, <2>2, <2>3
<1>4. \A m \in 1..n : NthLive(b, m) \in DOMAIN b /\ Live(b[NthLive(b, m)]) /\ NthLive(b, m) \in Nat
  BY <1>1, <1>2 DEF LivePositions
<1>5. Kept(b) = [i \in 1..n |-> b[NthLive(b, i)]]
  BY DEF Kept
<1> HIDE DEF n
<1>6. \A m \in 1..n : b[NthLive(b, m)] \in Minted
  BY <1>1, <1>4
<1>7. Kept(b) \in [1..n -> Minted]
  BY <1>5, <1>6
<1>8. Kept(b) \in Seq(Minted) /\ Len(Kept(b)) = n /\ DOMAIN Kept(b) = 1..n
  BY <1>2, <1>7
<1>9. Drawn(Kept(b), b)
  <2> DEFINE f == [i \in 1..n |-> NthLive(b, i)]
  <2>1. f \in [1..n -> DOMAIN b]
    BY <1>4
  <2>2. \A i, j \in 1..n : f[i] = f[j] => i = j
    BY <1>2, <1>4
  <2>3. \A i \in 1..n : Kept(b)[i] = b[f[i]]
    BY <1>5
  <2> HIDE DEF f
  <2>4. QED  BY <1>8, <2>1, <2>2, <2>3 DEF Drawn
<1>10. QED  BY <1>3, <1>4, <1>5, <1>8, <1>9

\* The end of a bucket.
LEMMA SuffixIs ==
    ASSUME NEW b \in Seq(Minted), NEW c \in 0..Len(b)
    PROVE  LET d == SubSeq(b, c + 1, Len(b))
           IN  /\ d \in Seq(Minted) /\ Drawn(d, b) /\ Len(d) = Len(b) - c
               /\ DOMAIN d = 1..(Len(b) - c)
               /\ \A i \in DOMAIN d : d[i] = b[i + c] /\ i + c \in DOMAIN b
<1> DEFINE d == SubSeq(b, c + 1, Len(b))
<1>1. /\ d \in Seq(Minted) /\ Len(d) = Len(b) - c /\ DOMAIN d = 1..(Len(b) - c)
      /\ \A i \in DOMAIN d : d[i] = b[i + c] /\ i + c \in DOMAIN b
  OBVIOUS
<1>2. Drawn(d, b)
  <2> HIDE DEF d
  <2> DEFINE f == [i \in DOMAIN d |-> i + c]
  <2>1. f \in [DOMAIN d -> DOMAIN b] /\ \A i \in DOMAIN d : d[i] = b[f[i]]
    BY <1>1
  <2>2. \A i, j \in DOMAIN d : f[i] = f[j] => i = j
    BY <1>1
  <2> HIDE DEF f
  <2>3. QED  BY <2>1, <2>2 DEF Drawn
<1>3. QED  BY <1>1, <1>2

LEMMA DrawnSelf == ASSUME NEW S, NEW b \in Seq(S) PROVE Drawn(b, b)
<1> DEFINE f == [i \in DOMAIN b |-> i]
<1>1. f \in [DOMAIN b -> DOMAIN b] /\ (\A i, j \in DOMAIN b : f[i] = f[j] => i = j)
      /\ \A i \in DOMAIN b : b[i] = b[f[i]]
  OBVIOUS
<1> HIDE DEF f
<1>2. QED  BY <1>1 DEF Drawn

(***************************************************************************)
(* Lemmas about single moves of a token.                                   *)
(***************************************************************************)

\* No live token of certifyId c.
Absent(c, bk, ch, sp) ==
    /\ \A t \in Takers : Held(ch, t) => ch[t].cert # c
    /\ \A k \in Keys : \A i \in DOMAIN bk[k] : Good(bk[k][i]) => bk[k][i].cert # c
    /\ \A x \in sp : Good(x) => x.cert # c

\* A token that is nowhere else, and is registered.
Alone(tok, bk, iss, ch, sp) ==
    Good(tok) => iss[tok.cert] >= tok.exp + Grace /\ Absent(tok.cert, bk, ch, sp)

LEMMA AddSound ==
    ASSUME NEW bk, NEW iss, NEW w, NEW kf \in Keys, NEW ch, NEW tk, NEW sp,
           Sound(bk, iss, w, kf, ch, tk, sp), NEW tok \in Minted, tok.key = kf,
           Alone(tok, bk, iss, ch, sp)
    PROVE  Sound([bk EXCEPT ![kf] = Append(@, tok)], iss, w, kf, ch, tk, sp)
<1> DEFINE b2 == [bk EXCEPT ![kf] = Append(@, tok)]
<1>1. bk \in [Keys -> Seq(Minted)]
  BY DEF Sound, Stock
<1>2. /\ b2 \in [Keys -> Seq(Minted)]
      /\ \A k \in Keys \ {kf} : b2[k] = bk[k]
      /\ DOMAIN b2[kf] = DOMAIN bk[kf] \cup {Len(bk[kf]) + 1}
      /\ \A i \in DOMAIN bk[kf] : b2[kf][i] = bk[kf][i] /\ i # Len(bk[kf]) + 1
      /\ b2[kf][Len(bk[kf]) + 1] = tok
  BY <1>1
<1> HIDE DEF b2
<1>3. \A k \in Keys : \A i \in DOMAIN b2[k] :
        \/ i \in DOMAIN bk[k] /\ b2[k][i] = bk[k][i]
        \/ k = kf /\ i = Len(bk[kf]) + 1 /\ b2[k][i] = tok
  BY <1>2
<1>4. Stock(b2, kf)
  BY <1>2, <1>3 DEF Sound, Stock
<1>5. Backed(b2, iss, ch, sp)
  BY <1>3 DEF Sound, Backed, Alone
<1>6. Apart(b2, ch, sp)
  <2>1. \A k \in Keys : \A i, j \in DOMAIN b2[k] :
          Good(b2[k][i]) /\ Good(b2[k][j]) /\ b2[k][i].cert = b2[k][j].cert => i = j
    BY <1>3 DEF Sound, Apart, Alone, Absent
  <2>2. \A t \in Takers, k \in Keys : \A i \in DOMAIN b2[k] :
          Held(ch, t) /\ Good(b2[k][i]) => ch[t].cert # b2[k][i].cert
    BY <1>3 DEF Sound, Apart, Alone, Absent
  <2>3. \A x \in sp, k \in Keys : \A i \in DOMAIN b2[k] :
          Good(x) /\ Good(b2[k][i]) => x.cert # b2[k][i].cert
    BY <1>3 DEF Sound, Apart, Alone, Absent
  <2>4. QED  BY <2>1, <2>2, <2>3 DEF Sound, Apart
<1>7. QED  BY <1>4, <1>5, <1>6 DEF Sound, b2

LEMMA PutSound ==
    ASSUME NEW bk, NEW iss, NEW w, NEW kf, NEW ch, NEW tk, NEW sp,
           Sound(bk, iss, w, kf, ch, tk, sp), NEW tok \in Minted, NEW t \in Takers,
           tk[t] = tok.key, tk[t] # None, \A i \in DOMAIN w : w[i] # t,
           ch[t] = None, Alone(tok, bk, iss, ch, sp)
    PROVE  Sound(bk, iss, w, kf, [ch EXCEPT ![t] = tok], tk, sp)
<1> DEFINE c2 == [ch EXCEPT ![t] = tok]
<1>1. /\ c2[t] = tok /\ (\A s \in Takers \ {t} : c2[s] = ch[s])
      /\ c2 \in [Takers -> Minted \cup NoTokens]
  BY DEF Sound, Queue
<1> HIDE DEF c2
<1>2. Queue(w, kf, c2, tk)
  <2>1. \A i \in DOMAIN w : w[i] \in Takers \ {t}
    BY DEF Sound, Queue
  <2>2. QED  BY <1>1, <2>1 DEF Sound, Queue
<1>3. \A s \in Takers : Held(c2, s) => (s = t /\ Good(tok)) \/ (s # t /\ Held(ch, s))
  <2> SUFFICES ASSUME NEW s \in Takers, Held(c2, s)
               PROVE  (s = t /\ Good(tok)) \/ (s # t /\ Held(ch, s))
    OBVIOUS
  <2>1. CASE s = t
    BY <1>1, <2>1 DEF Held
  <2>2. CASE s # t
    BY <1>1, <2>2 DEF Held
  <2>3. QED  BY <2>1, <2>2
<1>4. Backed(bk, iss, c2, sp)
  BY <1>1, <1>3 DEF Sound, Backed, Alone
<1>5. Apart(bk, c2, sp)
  <2>1. \A r, s \in Takers : Held(c2, r) /\ Held(c2, s) /\ c2[r].cert = c2[s].cert => r = s
    BY <1>1, <1>3 DEF Sound, Apart, Alone, Absent
  <2>2. \A s \in Takers, k \in Keys : \A i \in DOMAIN bk[k] :
          Held(c2, s) /\ Good(bk[k][i]) => c2[s].cert # bk[k][i].cert
    BY <1>1, <1>3 DEF Sound, Apart, Alone, Absent
  <2>3. \A s \in Takers, x \in sp : Held(c2, s) /\ Good(x) => c2[s].cert # x.cert
    BY <1>1, <1>3 DEF Sound, Apart, Alone, Absent
  <2>4. QED  BY <2>1, <2>2, <2>3 DEF Sound, Apart
<1>6. QED  BY <1>2, <1>4, <1>5 DEF Sound, c2

LEMMA SpendSound ==
    ASSUME NEW bk, NEW iss, NEW w, NEW kf, NEW ch, NEW tk, NEW sp,
           Sound(bk, iss, w, kf, ch, tk, sp), NEW tok \in Minted, Alone(tok, bk, iss, ch, sp)
    PROVE  Sound(bk, iss, w, kf, ch, tk, sp \cup {tok})
<1> DEFINE s2 == sp \cup {tok}
<1>1. \A x \in s2 : x \in sp \/ x = tok
  OBVIOUS
<1>2. s2 \subseteq Minted
  BY DEF Sound
<1> HIDE DEF s2
<1>3. Backed(bk, iss, ch, s2)
  BY <1>1 DEF Sound, Backed, Alone
<1>4. Apart(bk, ch, s2)
  BY <1>1 DEF Sound, Apart, Alone, Absent
<1>5. QED  BY <1>2, <1>3, <1>4 DEF Sound, s2

\* The channel of somebody who does not wait is emptied.
LEMMA EmptySound ==
    ASSUME NEW bk, NEW iss, NEW w, NEW kf, NEW ch, NEW tk, NEW sp,
           Sound(bk, iss, w, kf, ch, tk, sp), NEW t \in Takers, \A i \in DOMAIN w : w[i] # t
    PROVE  /\ Sound(bk, iss, w, kf, [ch EXCEPT ![t] = None], tk, sp)
           /\ Sound(bk, iss, w, kf, [ch EXCEPT ![t] = None], [tk EXCEPT ![t] = None], sp)
           /\ Held(ch, t) => Alone(ch[t], bk, iss, [ch EXCEPT ![t] = None], sp)
<1> DEFINE c2 == [ch EXCEPT ![t] = None]
           t2 == [tk EXCEPT ![t] = None]
<1>1. /\ c2[t] = None /\ (\A s \in Takers \ {t} : c2[s] = ch[s])
      /\ c2 \in [Takers -> Minted \cup NoTokens]
      /\ t2 \in [Takers -> Keys \cup {None}] /\ (\A s \in Takers \ {t} : t2[s] = tk[s])
  BY DEF Sound, Queue, NoTokens
<1> HIDE DEF c2, t2
<1>2. \A i \in DOMAIN w : w[i] \in Takers \ {t}
  BY DEF Sound, Queue
<1>3. \A s \in Takers : c2[s] # None => s # t
  BY <1>1
<1>4. Queue(w, kf, c2, tk) /\ Queue(w, kf, c2, t2)
  BY <1>1, <1>2, <1>3 DEF Sound, Queue, NoTokens
<1>5. \A s \in Takers : Held(c2, s) => s # t /\ Held(ch, s) /\ c2[s] = ch[s]
  BY <1>1 DEF Held, NoTokens
<1>6. Backed(bk, iss, c2, sp)
  BY <1>5 DEF Sound, Backed
<1>7. Apart(bk, c2, sp)
  BY <1>5 DEF Sound, Apart
<1>8. Held(ch, t) => Alone(ch[t], bk, iss, c2, sp)
  BY <1>5 DEF Sound, Apart, Backed, Alone, Absent
<1>9. QED  BY <1>4, <1>6, <1>7, <1>8 DEF Sound, c2, t2

\* The registry may forget what has expired, and learn more.
LEMMA RegistrySound ==
    ASSUME NEW bk, NEW iss, NEW w, NEW kf, NEW ch, NEW tk, NEW sp,
           Sound(bk, iss, w, kf, ch, tk, sp), NEW i2, Registry(i2), now \in Nat,
           TTL \in Nat, Grace \in Nat,
           \A c \in Certs : i2[c] >= iss[c] \/ now >= iss[c]
    PROVE  Sound(bk, i2, w, kf, ch, tk, sp)
<1>1. \A tok \in Minted : Good(tok) /\ iss[tok.cert] >= tok.exp + Grace => i2[tok.cert] >= tok.exp + Grace
  <2> SUFFICES ASSUME NEW tok \in Minted, Good(tok), iss[tok.cert] >= tok.exp + Grace
               PROVE  i2[tok.cert] >= tok.exp + Grace
    OBVIOUS
  <2>1. tok.cert \in Certs /\ tok.exp \in Int
    BY DEF Minted, Tokens
  <2>2. now < tok.exp
    BY DEF Good, Live
  <2>3. iss[tok.cert] \in Int /\ i2[tok.cert] \in Int
    BY <2>1 DEF Sound, Registry
  <2>4. QED  BY <2>1, <2>2, <2>3
<1>2. /\ \A t \in Takers : Held(ch, t) => ch[t] \in Minted /\ Good(ch[t])
      /\ \A k \in Keys : \A i \in DOMAIN bk[k] : bk[k][i] \in Minted
      /\ \A x \in sp : x \in Minted
  BY DEF Sound, Queue, Stock, Held
<1>3. Backed(bk, i2, ch, sp)
  BY <1>1, <1>2 DEF Sound, Backed
<1>4. QED  BY <1>3 DEF Sound

\* The first n waiters get the first n live tokens of the bucket; the bucket keeps what
\* comes after them.
LEMMA DeliverSound ==
    ASSUME NEW bk, NEW iss, NEW w, NEW kf \in Keys, NEW ch, NEW tk, NEW sp,
           Sound(bk, iss, w, kf, ch, tk, sp), TTL \in Nat, Grace \in Nat, now \in Nat,
           NEW n \in 1..Len(w), n <= Cardinality(LivePositions(bk[kf])),
           NEW c2, c2 \in [Takers -> Minted \cup NoTokens],
           \A i \in 1..n : c2[w[i]] = bk[kf][NthLive(bk[kf], i)],
           \A t \in Takers : (\A i \in 1..n : w[i] # t) => c2[t] = ch[t]
    PROVE  /\ NthLive(bk[kf], n) \in 1..Len(bk[kf])
           /\ Sound([bk EXCEPT ![kf] = SubSeq(@, NthLive(bk[kf], n) + 1, Len(@))], iss,
                    SubSeq(w, n + 1, Len(w)), kf, c2, tk, sp)
<1> DEFINE b == bk[kf]
           cut == NthLive(b, n)
           b2 == SubSeq(b, cut + 1, Len(b))
           bk2 == [bk EXCEPT ![kf] = b2]
           w2 == SubSeq(w, n + 1, Len(w))
<1>1. /\ bk \in [Keys -> Seq(Minted)] /\ b \in Seq(Minted)
      /\ w \in Seq(Takers) /\ ch \in [Takers -> Minted \cup NoTokens]
      /\ \A i \in DOMAIN b : b[i] \in Minted /\ b[i].key = kf
  BY DEF Sound, Stock, Queue
<1>2. DOMAIN b = 1..Len(b) /\ Len(b) \in Nat /\ DOMAIN b \in SUBSET Nat /\ IsFiniteSet(DOMAIN b)
  BY <1>1, BucketPlaces
<1> DEFINE N == Cardinality(LivePositions(b))
<1>a. n \in Nat /\ n <= N
  BY <1>1
<1> HIDE DEF b
<1>b. /\ N \in Nat
      /\ \A i \in 1..N : NthLive(b, i) \in LivePositions(b)
      /\ \A i, j \in 1..N : i < j => NthLive(b, i) < NthLive(b, j)
  BY <1>2, NthLiveIs
<1> HIDE DEF N
<1>c. \A i \in 1..n : i \in 1..N
  BY <1>a, <1>b
<1>3. \A i \in 1..n : NthLive(b, i) \in DOMAIN b /\ Live(b[NthLive(b, i)])
  BY <1>b, <1>c DEF LivePositions
<1>4. \A i, j \in 1..n : i < j => NthLive(b, i) < NthLive(b, j)
  BY <1>b, <1>c
<1> USE DEF b
<1>5. cut \in 1..Len(b) /\ \A i \in 1..n : NthLive(b, i) <= cut
  <2>1. n \in 1..n /\ cut \in DOMAIN b
    BY <1>1, <1>3
  <2>2. ASSUME NEW i \in 1..n PROVE NthLive(b, i) <= cut
    <3>1. CASE i = n  BY <1>2, <2>1, <3>1
    <3>2. CASE i < n  BY <1>2, <1>3, <1>4, <2>1, <3>2
    <3>3. QED  BY <3>1, <3>2
  <2>3. QED  BY <1>2, <2>1, <2>2
<1>6. /\ b2 \in Seq(Minted) /\ Drawn(b2, b)
      /\ \A i \in DOMAIN b2 : b2[i] = b[i + cut] /\ i + cut \in DOMAIN b /\ i \in Nat \ {0}
  <2> HIDE DEF b, cut
  <2>1. cut \in 0..Len(b)
    BY <1>2, <1>5
  <2>2. b \in Seq(Minted)
    BY <1>1
  <2>3. /\ b2 \in Seq(Minted) /\ Drawn(b2, b) /\ DOMAIN b2 = 1..(Len(b) - cut)
        /\ \A i \in DOMAIN b2 : b2[i] = b[i + cut] /\ i + cut \in DOMAIN b
    BY ONLY <2>1, <2>2, SuffixIs DEF b2
  <2> HIDE DEF b2
  <2>4. QED  BY <1>2, <2>1, <2>3
<1>7. /\ w2 \in Seq(Takers)
      /\ \A i \in DOMAIN w2 : w2[i] = w[i + n] /\ i + n \in DOMAIN w /\ i \in Nat \ {0}
      /\ 1..n \subseteq DOMAIN w
  BY <1>1
<1>8. \A i, j \in DOMAIN w : w[i] = w[j] => i = j
  BY DEF Sound, Queue
<1> HIDE DEF b2, w2, cut
<1>9. \A t \in Takers : (\E i \in 1..n : w[i] = t /\ c2[t] = b[NthLive(b, i)])
                        \/ ((\A i \in 1..n : w[i] # t) /\ c2[t] = ch[t])
  OBVIOUS
<1>10. bk2 \in [Keys -> Seq(Minted)] /\ bk2[kf] = b2 /\ \A k \in Keys \ {kf} : bk2[k] = bk[k]
  BY <1>1, <1>6
<1> HIDE DEF bk2
<1>11. Sound(bk2, iss, w, kf, ch, tk, sp)
  <2>1. \A k \in Keys : Drawn(bk2[k], bk[k])
    BY <1>1, <1>6, <1>10, DrawnSelf
  <2>2. QED  BY <1>10, <2>1, DrawnSound
<1>12. Queue(w2, kf, c2, tk)
  <2>1. \A i \in DOMAIN w2 : \A j \in 1..n : w[j] # w2[i]
    BY <1>7, <1>8
  <2>2. \A i \in DOMAIN w2 : w2[i] \in Takers /\ c2[w2[i]] = ch[w2[i]]
    BY <1>7, <2>1
  <2>3. \A i, j \in DOMAIN w2 : w2[i] = w2[j] => i = j
    BY <1>7, <1>8
  <2>4. \A i \in DOMAIN w2 : c2[w2[i]] = None /\ tk[w2[i]] = kf /\ kf # None
    BY <1>7, <2>2 DEF Sound, Queue
  <2>5. \A t \in Takers : c2[t] # None => tk[t] # None
    BY <1>7, <1>9 DEF Sound, Queue
  <2>6. \A t \in Takers : c2[t] \notin NoTokens => c2[t].key = tk[t]
    <3> SUFFICES ASSUME NEW t \in Takers, c2[t] \notin NoTokens PROVE c2[t].key = tk[t]
      OBVIOUS
    <3>1. CASE \E i \in 1..n : w[i] = t /\ c2[t] = b[NthLive(b, i)]
      <4>1. PICK i \in 1..n : w[i] = t /\ c2[t] = b[NthLive(b, i)]
        BY <3>1
      <4>2. c2[t].key = kf
        BY <1>1, <1>3, <4>1
      <4>3. tk[t] = kf
        BY <1>7, <4>1 DEF Sound, Queue
      <4>4. QED  BY <4>2, <4>3
    <3>2. CASE c2[t] = ch[t]
      BY <3>2 DEF Sound, Queue
    <3>3. QED  BY <1>9, <3>1, <3>2
  <2>7. QED  BY <1>7, <2>3, <2>4, <2>5, <2>6 DEF Sound, Queue
<1>13. ASSUME NEW t \in Takers, Held(c2, t)
       PROVE  \/ Held(ch, t) /\ c2[t] = ch[t] /\ \A i \in 1..n : w[i] # t
              \/ \E i \in 1..n : /\ w[i] = t /\ c2[t] = b[NthLive(b, i)]
                                /\ Good(b[NthLive(b, i)])
  BY <1>9, <1>13 DEF Held
<1>14. Backed(bk2, iss, c2, sp)
  <2>1. \A t \in Takers : Held(c2, t) => iss[c2[t].cert] >= c2[t].exp + Grace
    <3> SUFFICES ASSUME NEW t \in Takers, Held(c2, t)
                 PROVE  iss[c2[t].cert] >= c2[t].exp + Grace
      OBVIOUS
    <3>1. CASE Held(ch, t) /\ c2[t] = ch[t]
      BY <3>1 DEF Sound, Backed
    <3>2. CASE \E i \in 1..n : c2[t] = b[NthLive(b, i)] /\ Good(b[NthLive(b, i)])
      BY <1>3, <3>2 DEF Sound, Backed
    <3>3. QED  BY <1>13, <3>1, <3>2
  <2>2. QED  BY <1>11, <2>1 DEF Sound, Backed
<1>15. Apart(bk2, c2, sp)
  <2>1. \A s, t \in Takers : Held(c2, s) /\ Held(c2, t) /\ c2[s].cert = c2[t].cert => s = t
    <3> SUFFICES ASSUME NEW s \in Takers, NEW t \in Takers, Held(c2, s), Held(c2, t),
                        c2[s].cert = c2[t].cert
                 PROVE  s = t
      OBVIOUS
    <3>1. \A x \in Takers : Held(ch, x) => \A i \in 1..n :
            Good(b[NthLive(b, i)]) => ch[x].cert # b[NthLive(b, i)].cert
      BY <1>3 DEF Sound, Apart
    <3>2. CASE Held(ch, s) /\ c2[s] = ch[s]
      <4>1. Held(ch, t) /\ c2[t] = ch[t]
        BY <1>13, <3>1, <3>2
      <4>2. QED  BY <3>2, <4>1 DEF Sound, Apart
    <3>3. CASE \E i \in 1..n : w[i] = s /\ c2[s] = b[NthLive(b, i)] /\ Good(b[NthLive(b, i)])
      <4>1. PICK i \in 1..n : w[i] = s /\ c2[s] = b[NthLive(b, i)] /\ Good(b[NthLive(b, i)])
        BY <3>3
      <4>2. PICK j \in 1..n : w[j] = t /\ c2[t] = b[NthLive(b, j)] /\ Good(b[NthLive(b, j)])
        BY <1>13, <3>1, <4>1
      <4>3. NthLive(b, i) = NthLive(b, j)
        BY <1>3, <4>1, <4>2 DEF Sound, Apart
      <4>4. i = j
        <5>1. NthLive(b, i) \in Nat /\ NthLive(b, j) \in Nat
          BY <1>2, <1>3
        <5> HIDE DEF b
        <5>2. ~(i < j) /\ ~(j < i)
          BY <1>4, <4>3, <5>1
        <5>3. QED  BY <5>2
      <4>5. QED  BY <4>1, <4>2, <4>4
    <3>4. QED  BY <1>13, <3>2, <3>3
  <2>2. \A t \in Takers, k \in Keys : \A i \in DOMAIN bk2[k] :
          Held(c2, t) /\ Good(bk2[k][i]) => c2[t].cert # bk2[k][i].cert
    <3> SUFFICES ASSUME NEW t \in Takers, NEW k \in Keys, NEW i \in DOMAIN bk2[k],
                        Held(c2, t), Good(bk2[k][i]), c2[t].cert = bk2[k][i].cert
                 PROVE  FALSE
      OBVIOUS
    <3>1. CASE Held(ch, t) /\ c2[t] = ch[t]
      BY <1>11, <3>1 DEF Sound, Apart
    <3>2. CASE \E j \in 1..n : c2[t] = b[NthLive(b, j)] /\ Good(b[NthLive(b, j)])
      <4>1. PICK j \in 1..n : c2[t] = b[NthLive(b, j)] /\ Good(b[NthLive(b, j)])
        BY <3>2
      <4>2. k = kf
        BY <1>11 DEF Sound, Stock
      <4>3. bk2[k][i] = b[i + cut] /\ i + cut \in DOMAIN b /\ i \in Nat \ {0}
        BY <1>6, <1>10, <4>2
      <4>4. NthLive(b, j) = i + cut
        BY <1>3, <4>1, <4>3 DEF Sound, Apart
      <4>5. QED  BY <1>5, <4>3, <4>4
    <3>3. QED  BY <1>13, <3>1, <3>2
  <2>3. \A t \in Takers, x \in sp : Held(c2, t) /\ Good(x) => c2[t].cert # x.cert
    <3> SUFFICES ASSUME NEW t \in Takers, NEW x \in sp, Held(c2, t), Good(x), c2[t].cert = x.cert
                 PROVE  FALSE
      OBVIOUS
    <3>1. CASE Held(ch, t) /\ c2[t] = ch[t]
      BY <3>1 DEF Sound, Apart
    <3>2. CASE \E j \in 1..n : c2[t] = b[NthLive(b, j)] /\ Good(b[NthLive(b, j)])
      BY <1>3, <3>2 DEF Sound, Apart
    <3>3. QED  BY <1>13, <3>1, <3>2
  <2>4. QED  BY <1>11, <2>1, <2>2, <2>3 DEF Sound, Apart
<1>16. Sound(bk2, iss, w2, kf, c2, tk, sp)
  BY <1>11, <1>12, <1>14, <1>15 DEF Sound
<1>17. QED  BY <1>5, <1>16 DEF bk2, b2, w2, cut

\* All waiters are refused; the key may be another one if there are no tokens.
LEMMA FailSound ==
    ASSUME NEW bk, NEW iss, NEW w, NEW kf, NEW ch, NEW tk, NEW sp,
           Sound(bk, iss, w, kf, ch, tk, sp), NEW c2,
           c2 = [t \in Takers |-> IF t \in {w[i] : i \in DOMAIN w} THEN Err ELSE ch[t]]
    PROVE  Sound(bk, iss, <<>>, kf, c2, tk, sp)
<1>1. /\ c2 \in [Takers -> Minted \cup NoTokens]
      /\ \A t \in Takers : c2[t] = ch[t] \/ (c2[t] = Err /\ \E i \in DOMAIN w : w[i] = t)
  BY DEF Sound, Queue, NoTokens
<1>2. Queue(<<>>, kf, c2, tk)
  <2>1. \A t \in Takers : c2[t] # None => tk[t] # None
    BY <1>1 DEF Sound, Queue
  <2>2. \A t \in Takers : c2[t] \notin NoTokens => c2[t].key = tk[t]
    BY <1>1 DEF Sound, Queue, NoTokens
  <2>3. <<>> \in Seq(Takers) /\ DOMAIN <<>> = {}
    OBVIOUS
  <2>4. QED  BY <1>1, <2>1, <2>2, <2>3 DEF Sound, Queue
<1>3. \A t \in Takers : Held(c2, t) => Held(ch, t) /\ c2[t] = ch[t]
  BY <1>1 DEF Held, NoTokens
<1>4. Backed(bk, iss, c2, sp)
  BY <1>3 DEF Sound, Backed
<1>5. Apart(bk, c2, sp)
  BY <1>3 DEF Sound, Apart
<1>6. QED  BY <1>2, <1>4, <1>5 DEF Sound

(***************************************************************************)
(* Lemmas about the operations on the struct.                              *)
(***************************************************************************)

\* The settings of the pool are numbers of the sizes the code gives them.
USE TokenPoolAssumption

LEMMA PruneInv ==
    ASSUME NEW p, NEW ch, NEW tk, NEW sp, PoolInv(p, ch, tk, sp), now \in Nat
    PROVE  LET q == PruneLocked(p)
           IN  /\ PoolInv(q, ch, tk, sp)
               /\ \A f \in {"closed", "active", "solver", "key", "inflight", "waiters",
                           "streak", "target", "lastTake"} : q[f] = p[f]
               /\ \A k \in Keys : Len(q.buckets[k]) <= Len(p.buckets[k])
               /\ \A k \in Keys : \A i \in DOMAIN q.buckets[k] : Live(q.buckets[k][i])
<1> DEFINE q == PruneLocked(p)
           bk == [k \in Keys |-> Kept(p.buckets[k])]
           iss == [c \in Certs |-> IF now < p.issued[c] THEN p.issued[c] ELSE 0]
<1>1. /\ p \in Struct /\ p.buckets \in [Keys -> Seq(Minted)]
      /\ p.issued \in [Certs -> 0..(now + TTL + Grace)]
  BY DEF PoolInv, SoundPool, Sound, Stock, Registry
<1>2. q = [p EXCEPT !.buckets = bk, !.issued = iss]
  BY <1>1 DEF PruneLocked, Struct
<1>3. \A k \in Keys : /\ bk[k] \in Seq(Minted) /\ Drawn(bk[k], p.buckets[k])
                     /\ Len(bk[k]) <= Len(p.buckets[k])
                     /\ \A i \in DOMAIN bk[k] : Live(bk[k][i])
  BY <1>1, KeptIs
<1>4. bk \in [Keys -> Seq(Minted)] /\ bk \in [Keys -> Seq(Tokens)]
  <2>1. \A k \in Keys : bk[k] \in Seq(Tokens)
    <3>1. Minted \subseteq Tokens
      BY DEF Minted
    <3>2. QED  BY <1>3, <3>1
  <2>2. QED  BY <1>3, <2>1
<1>5. Registry(iss) /\ iss \in [Certs -> Nat] /\ \A c \in Certs : iss[c] >= p.issued[c] \/ now >= p.issued[c]
  BY <1>1 DEF Registry
<1> HIDE DEF bk, iss, q
<1>6. Sound(bk, iss, p.waiters, p.key, ch, tk, sp)
  <2>1. Sound(p.buckets, p.issued, p.waiters, p.key, ch, tk, sp)
    BY DEF PoolInv, SoundPool
  <2>2. Sound(bk, p.issued, p.waiters, p.key, ch, tk, sp)
    BY <1>3, <1>4, <2>1, DrawnSound
  <2>3. QED  BY <1>5, <2>2, RegistrySound
<1>7. /\ q \in Struct /\ q.buckets = bk /\ q.issued = iss
      /\ \A f \in {"closed", "active", "solver", "key", "inflight", "waiters",
                           "streak", "target", "lastTake"} : q[f] = p[f]
  BY <1>1, <1>2, <1>4, <1>5 DEF Struct
<1>8. \A k \in Keys : Len(bk[k]) <= PoolMax
  <2>1. \A k \in Keys : Len(p.buckets[k]) <= PoolMax /\ Len(p.buckets[k]) \in Nat /\ Len(bk[k]) \in Nat
    BY <1>1, <1>3 DEF PoolInv
  <2>2. QED  BY <1>3, <2>1
<1>9. PoolInv(q, ch, tk, sp)
  BY <1>6, <1>7, <1>8 DEF PoolInv, SoundPool
<1>10. QED  BY <1>3, <1>7, <1>9 DEF q

LEMMA FailInv ==
    ASSUME NEW p, NEW ch, NEW tk, NEW sp, PoolInv(p, ch, tk, sp)
    PROVE  LET e == FailWaitersLocked(p, ch)
           IN  /\ PoolInv(e.p, e.ch, tk, sp) /\ e.p = [p EXCEPT !.waiters = <<>>]
               /\ \A t \in Takers : e.ch[t] \in {ch[t], Err}
<1> DEFINE q == [p EXCEPT !.waiters = <<>>]
           c2 == [t \in Takers |-> IF t \in WaiterSet(p) THEN Err ELSE ch[t]]
<1>1. q \in Struct /\ \A f \in {"closed", "active", "solver", "key", "buckets", "issued", "inflight",
                           "streak", "target", "lastTake"} : q[f] = p[f]
  <2>1. p \in Struct /\ <<>> \in Seq(Takers)
    BY DEF PoolInv
  <2>2. QED  BY <2>1 DEF Struct
<1>2. q.waiters = <<>>
  BY DEF PoolInv, Struct
<1>3. c2 = [t \in Takers |-> IF t \in {p.waiters[i] : i \in DOMAIN p.waiters} THEN Err ELSE ch[t]]
  BY DEF WaiterSet
<1>4. FailWaitersLocked(p, ch).p = q /\ FailWaitersLocked(p, ch).ch = c2
  BY DEF FailWaitersLocked
<1> HIDE DEF q, c2
<1>5. Sound(p.buckets, p.issued, <<>>, p.key, c2, tk, sp)
  BY <1>3, FailSound DEF PoolInv, SoundPool
<1>6. PoolInv(q, c2, tk, sp)
  BY <1>1, <1>2, <1>5 DEF PoolInv, SoundPool
<1>7. \A t \in Takers : c2[t] \in {ch[t], Err}
  BY <1>3
<1>8. QED  BY <1>4, <1>6, <1>7 DEF q

\* Raising the registry.
LEMMA RegisterIs ==
    ASSUME NEW p, p \in Struct, Registry(p.issued), now \in Nat, NEW cs
    PROVE  LET q == Register(p, cs)
           IN  /\ q \in Struct /\ Registry(q.issued)
               /\ \A c \in Certs : q.issued[c] >= p.issued[c]
               /\ \A c \in Certs \cap cs : q.issued[c] = now + TTL + Grace
               /\ \A f \in {"closed", "active", "solver", "key", "buckets", "inflight", "waiters",
                           "streak", "target", "lastTake"} : q[f] = p[f]
<1> DEFINE iss == [c \in Certs |-> IF c \in cs THEN now + TTL + Grace ELSE p.issued[c]]
<1>1. p.issued \in [Certs -> 0..(now + TTL + Grace)]
  BY DEF Registry
<1>2. /\ iss \in [Certs -> 0..(now + TTL + Grace)] /\ iss \in [Certs -> Nat]
      /\ \A c \in Certs : iss[c] >= p.issued[c]
  BY <1>1
<1>3. \A c \in Certs \cap cs : iss[c] = now + TTL + Grace
  OBVIOUS
<1>4. Register(p, cs) = [p EXCEPT !.issued = iss]
  BY DEF Register, Struct
<1> HIDE DEF iss
<1>5. QED  BY <1>2, <1>3, <1>4 DEF Registry, Struct

LEMMA DeliverInv ==
    ASSUME NEW p, NEW ch, NEW tk, NEW sp, PoolInv(p, ch, tk, sp), now \in Nat,
           p.waiters # <<>>, p.key \in Keys, LivePositions(p.buckets[p.key]) # {}
    PROVE  LET e == DeliverBucketToWaitersLocked(p, ch)
           IN  PoolInv(e.p, e.ch, tk, sp) /\ e.p.inflight = p.inflight
<1> DEFINE b == p.buckets[p.key]
           n == Min({Len(p.waiters), Cardinality(LivePositions(b))})
           given == [t \in {p.waiters[i] : i \in 1..n} |->
                       b[NthLive(b, CHOOSE i \in 1..n : p.waiters[i] = t)]]
           c2 == [t \in Takers |-> IF t \in DOMAIN given THEN given[t] ELSE ch[t]]
           r == Register([p EXCEPT !.buckets[p.key] = SubSeq(b, NthLive(b, n) + 1, Len(b))],
                         {b[NthLive(b, i)].cert : i \in 1..n})
           q == [r EXCEPT !.waiters = SubSeq(@, n + 1, Len(@))]
<1>1. DeliverBucketToWaitersLocked(p, ch).p = q /\ DeliverBucketToWaitersLocked(p, ch).ch = c2
  BY DEF DeliverBucketToWaitersLocked, PopLocked
<1>2. /\ p \in Struct /\ Sound(p.buckets, p.issued, p.waiters, p.key, ch, tk, sp)
      /\ b \in Seq(Minted) /\ p.waiters \in Seq(Takers)
      /\ p.buckets \in [Keys -> Seq(Minted)]
      /\ \A i, j \in DOMAIN p.waiters : p.waiters[i] = p.waiters[j] => i = j
      /\ ch \in [Takers -> Minted \cup NoTokens] /\ Registry(p.issued)
  BY DEF PoolInv, SoundPool, Sound, Stock, Queue
<1>3. /\ DOMAIN b = 1..Len(b) /\ Len(b) \in Nat /\ IsFiniteSet(DOMAIN b) /\ DOMAIN b \in SUBSET Nat
      /\ IsFiniteSet(LivePositions(b)) /\ Cardinality(LivePositions(b)) \in Nat
      /\ \A i \in 1..Cardinality(LivePositions(b)) : NthLive(b, i) \in LivePositions(b)
  <2> HIDE DEF b
  <2>1. DOMAIN b = 1..Len(b) /\ Len(b) \in Nat /\ IsFiniteSet(DOMAIN b) /\ DOMAIN b \in SUBSET Nat
    BY <1>2, BucketPlaces
  <2>2. QED  BY <2>1, NthLiveIs
<1>4. /\ n \in 1..Len(p.waiters) /\ n \in Nat /\ n <= Cardinality(LivePositions(b))
      /\ Len(p.waiters) \in Nat /\ DOMAIN p.waiters = 1..Len(p.waiters)
  <2>1. Cardinality(LivePositions(b)) # 0
    BY <1>3, FS_EmptySet
  <2>2. Len(p.waiters) \in Nat /\ Len(p.waiters) # 0 /\ DOMAIN p.waiters = 1..Len(p.waiters)
    BY <1>2
  <2>3. n = IF Len(p.waiters) <= Cardinality(LivePositions(b)) THEN Len(p.waiters)
            ELSE Cardinality(LivePositions(b))
    BY <1>3, <2>2, MinOfTwo
  <2>4. QED  BY <1>3, <2>1, <2>2, <2>3
<1> HIDE DEF n
<1>5. \A i \in 1..n : /\ i \in DOMAIN p.waiters /\ p.waiters[i] \in Takers
                     /\ NthLive(b, i) \in DOMAIN b /\ b[NthLive(b, i)] \in Minted
  <2> SUFFICES ASSUME NEW i \in 1..n
               PROVE  /\ i \in DOMAIN p.waiters /\ p.waiters[i] \in Takers
                      /\ NthLive(b, i) \in DOMAIN b /\ b[NthLive(b, i)] \in Minted
    OBVIOUS
  <2>1. i \in 1..Cardinality(LivePositions(b)) /\ i \in DOMAIN p.waiters
    BY <1>3, <1>4
  <2>2. NthLive(b, i) \in DOMAIN b
    BY <1>3, <2>1 DEF LivePositions
  <2>3. QED  BY <1>2, <2>1, <2>2
<1>6. \A i \in 1..n : c2[p.waiters[i]] = b[NthLive(b, i)]
  <2> SUFFICES ASSUME NEW i \in 1..n PROVE c2[p.waiters[i]] = b[NthLive(b, i)]
    OBVIOUS
  <2>1. (CHOOSE j \in 1..n : p.waiters[j] = p.waiters[i]) = i
    BY <1>2, <1>5
  <2>2. QED  BY <1>5, <2>1
<1>7. \A t \in Takers : (\A i \in 1..n : p.waiters[i] # t) => c2[t] = ch[t]
  OBVIOUS
<1>8. c2 \in [Takers -> Minted \cup NoTokens]
  <2>1. \A t \in Takers : t \in DOMAIN given => \E i \in 1..n : t = p.waiters[i]
    OBVIOUS
  <2>2. \A t \in Takers : c2[t] \in Minted \cup NoTokens
    BY <1>2, <1>5, <1>6, <1>7, <2>1
  <2> HIDE DEF given
  <2>3. QED  BY <2>2
<1> DEFINE cut == NthLive(b, n)
           bk2 == [p.buckets EXCEPT ![p.key] = SubSeq(@, cut + 1, Len(@))]
           w2 == SubSeq(p.waiters, n + 1, Len(p.waiters))
<1> HIDE DEF c2, given
<1>9. cut \in 1..Len(b) /\ Sound(bk2, p.issued, w2, p.key, c2, tk, sp)
  <2> DEFINE B == p.buckets
             W == p.waiters
             K == p.key
             I == p.issued
  <2>1. n \in 1..Len(W) /\ n <= Cardinality(LivePositions(B[K]))
    BY <1>4
  <2>2. \A i \in 1..n : c2[W[i]] = B[K][NthLive(B[K], i)]
    BY <1>6
  <2>3. \A t \in Takers : (\A i \in 1..n : W[i] # t) => c2[t] = ch[t]
    BY <1>7
  <2>4. Sound(B, I, W, K, ch, tk, sp) /\ K \in Keys
    BY <1>2
  <2>5. (cut = NthLive(B[K], n)) /\ b = B[K]
    OBVIOUS
  <2>6. bk2 = [B EXCEPT ![K] = SubSeq(@, cut + 1, Len(@))] /\ w2 = SubSeq(W, n + 1, Len(W))
    OBVIOUS
  <2> HIDE DEF B, W, K, I, b, cut, bk2, w2
  <2>7. now \in Nat /\ TTL \in Nat /\ Grace \in Nat
    OBVIOUS
  <2>8. /\ NthLive(B[K], n) \in 1..Len(B[K])
        /\ Sound([B EXCEPT ![K] = SubSeq(@, NthLive(B[K], n) + 1, Len(@))],
                 I, SubSeq(W, n + 1, Len(W)), K, c2, tk, sp)
    BY ONLY <1>8, <2>1, <2>2, <2>3, <2>4, <2>7, DeliverSound
  <2>9. Sound(bk2, I, w2, K, c2, tk, sp) /\ cut \in 1..Len(b)
    BY <2>5, <2>6, <2>8
  <2>10. QED  BY <2>9 DEF I, K
<1>10. bk2 \in [Keys -> Seq(Tokens)] /\ w2 \in Seq(Takers)
       /\ \A k \in Keys : Len(bk2[k]) <= PoolMax
  <2>1. bk2 \in [Keys -> Seq(Minted)] /\ w2 \in Seq(Takers)
    BY <1>9 DEF Sound, Stock, Queue
  <2>2. \A s \in Seq(Minted) : s \in Seq(Tokens)
    BY DEF Minted
  <2>3. \A k \in Keys : Len(p.buckets[k]) <= PoolMax /\ Len(p.buckets[k]) \in Nat
    BY <1>2 DEF PoolInv
  <2>4. \A k \in Keys : Len(bk2[k]) <= Len(p.buckets[k]) /\ Len(bk2[k]) \in Nat
    <3>1. Len(SubSeq(b, cut + 1, Len(b))) <= Len(b)
      BY <1>2, <1>3, <1>9
    <3>2. bk2[p.key] = SubSeq(b, cut + 1, Len(b)) /\ \A k \in Keys \ {p.key} : bk2[k] = p.buckets[k]
      BY <1>2
    <3>3. \A k \in Keys : Len(bk2[k]) \in Nat
      BY <2>1
    <3>4. \A k \in Keys : Len(bk2[k]) <= Len(p.buckets[k])
      <4> HIDE DEF bk2
      <4> SUFFICES ASSUME NEW k \in Keys PROVE Len(bk2[k]) <= Len(p.buckets[k])
        OBVIOUS
      <4>1. CASE k = p.key  BY <3>1, <3>2, <4>1
      <4>2. CASE k # p.key  BY <2>3, <3>2, <4>2
      <4>3. QED  BY <4>1, <4>2
    <3>5. QED  BY <3>3, <3>4
  <2> HIDE DEF bk2, w2
  <2>5. bk2 \in [Keys -> Seq(Tokens)]
    BY <2>1, <2>2
  <2>6. \A k \in Keys : Len(bk2[k]) <= PoolMax
    BY <2>3, <2>4
  <2>7. QED  BY <2>1, <2>5, <2>6
<1> DEFINE cs == {b[NthLive(b, i)].cert : i \in 1..n}
           p2 == [p EXCEPT !.buckets = bk2]
<1>11. [p EXCEPT !.buckets[p.key] = SubSeq(b, cut + 1, Len(b))] = p2
  BY <1>2 DEF Struct
<1> HIDE DEF b, bk2, w2, cut, cs
<1>12. p2 \in Struct /\ p2.buckets = bk2 /\ p2.issued = p.issued /\ p2.waiters = p.waiters
       /\ \A f \in {"closed", "active", "solver", "key", "inflight",
                           "streak", "target", "lastTake"} : p2[f] = p[f]
  BY <1>2, <1>10 DEF Struct
<1> HIDE DEF p2
<1>13. r = Register(p2, cs)
  BY <1>11 DEF cs, cut, b
<1>14. /\ r \in Struct /\ Registry(r.issued) /\ \A c \in Certs : r.issued[c] >= p2.issued[c]
       /\ \A f \in {"closed", "active", "solver", "key", "buckets", "inflight", "waiters",
                           "streak", "target", "lastTake"} : r[f] = p2[f]
  <2>1. Registry(p2.issued)
    BY <1>2, <1>12
  <2> HIDE DEF r
  <2>2. QED  BY <1>12, <1>13, <2>1, RegisterIs
<1> HIDE DEF r
<1>15. /\ q \in Struct /\ q.waiters = w2 /\ q.issued = r.issued /\ q.buckets = bk2
       /\ \A f \in {"closed", "active", "solver", "key", "inflight",
                           "streak", "target", "lastTake"} : q[f] = p[f]
  <2>1. r.waiters = p.waiters /\ r.buckets = bk2
        /\ \A f \in {"closed", "active", "solver", "key", "inflight",
                           "streak", "target", "lastTake"} : r[f] = p[f]
    BY <1>12, <1>14
  <2>2. q = [r EXCEPT !.waiters = w2]
    BY <2>1, <1>14 DEF w2, Struct
  <2> HIDE DEF q
  <2>3. QED  BY <1>10, <1>14, <2>1, <2>2 DEF Struct
<1> HIDE DEF q
<1>16. Sound(bk2, q.issued, w2, p.key, c2, tk, sp)
  BY <1>9, <1>12, <1>14, <1>15, RegistrySound
<1>17. PoolInv(q, c2, tk, sp)
  <2>1. q.lastTake = p.lastTake /\ q.active = p.active /\ q.key = p.key
    BY <1>15
  <2>2. (p.active => p.key # None) /\ p.lastTake <= now
    BY DEF PoolInv
  <2>3. QED  BY <1>10, <1>15, <1>16, <2>1, <2>2 DEF PoolInv, SoundPool
<1>18. QED  BY <1>1, <1>15, <1>17

\* Solves started for the key in force.
LEMMA LaunchInv ==
    ASSUME NEW p, NEW ch, NEW tk, NEW sp, PoolInv(p, ch, tk, sp), p.key \in Keys,
           NEW n \in Nat, p.inflight[p.key] + n <= MostFlight
    PROVE  LET q == LaunchMintsLocked(p, n)
           IN  /\ PoolInv(q, ch, tk, sp)
               /\ q.inflight = [p.inflight EXCEPT ![p.key] = @ + n]
               /\ \A f \in {"closed", "active", "solver", "key", "buckets", "issued", "waiters",
                           "streak", "target", "lastTake"} : q[f] = p[f]
<1> DEFINE q == LaunchMintsLocked(p, n)
           fl == [p.inflight EXCEPT ![p.key] = @ + n]
<1>1. p \in Struct /\ p.inflight \in [Keys -> 0..MostFlight]
  BY DEF PoolInv, Struct
<1>2. MostFlight \in Nat
  BY MostFlightIs
<1>3. fl \in [Keys -> 0..MostFlight]
  BY <1>1, <1>2
<1>4. q = [p EXCEPT !.inflight = fl]
  BY <1>1 DEF LaunchMintsLocked, Struct
<1> HIDE DEF q, fl
<1>5. /\ q \in Struct /\ q.inflight = fl
      /\ \A f \in {"closed", "active", "solver", "key", "buckets", "issued", "waiters",
                           "streak", "target", "lastTake"} : q[f] = p[f]
  BY <1>1, <1>3, <1>4 DEF Struct
<1>6. PoolInv(q, ch, tk, sp)
  BY <1>5 DEF PoolInv, SoundPool
<1>7. QED  BY <1>5, <1>6 DEF q, fl

LEMMA EnsureInv ==
    ASSUME NEW p, NEW ch, NEW tk, NEW sp, PoolInv(p, ch, tk, sp), now \in Nat
    PROVE  LET e == EnsureMintsLocked(p, ch)
           IN  PoolInv(e.p, e.ch, tk, sp)
<1>1. CASE ~Servable(p)
  BY <1>1, FailInv DEF EnsureMintsLocked
<1>2. CASE Servable(p) /\ (p.waiters = <<>> \/ p.inflight[p.key] > 0)
  BY <1>2 DEF EnsureMintsLocked
<1>3. CASE Servable(p) /\ ~(p.waiters = <<>> \/ p.inflight[p.key] > 0)
  <2>1. p.key \in Keys /\ p.inflight \in [Keys -> 0..MostFlight] /\ p.inflight[p.key] = 0
    <3>1. p \in Struct /\ p.key \in Keys
      BY <1>3 DEF PoolInv, Struct, Servable
    <3>2. MostFlight \in Nat
      BY MostFlightIs
    <3>3. QED  BY <1>3, <3>1, <3>2 DEF Struct
  <2>2. CASE LivePositions(p.buckets[p.key]) # {}
    BY <1>3, <2>1, <2>2, DeliverInv DEF EnsureMintsLocked
  <2>3. CASE LivePositions(p.buckets[p.key]) = {}
    <3> DEFINE bk == [p.buckets EXCEPT ![p.key] = <<>>]
               q == [p EXCEPT !.buckets = bk]
    <3>1. p \in Struct /\ p.buckets \in [Keys -> Seq(Minted)]
      BY DEF PoolInv, SoundPool, Sound, Stock
    <3>2. /\ bk \in [Keys -> Seq(Minted)] /\ bk \in [Keys -> Seq(Tokens)]
          /\ \A k \in Keys : bk[k] = <<>> \/ bk[k] = p.buckets[k]
      <4>1. \A S : <<>> \in Seq(S)
        OBVIOUS
      <4>2. p.buckets \in [Keys -> Seq(Tokens)]
        BY <3>1 DEF Struct
      <4>3. QED  BY <2>1, <3>1, <4>1, <4>2
    <3>3. [p EXCEPT !.buckets[p.key] = <<>>] = q
      BY <3>1 DEF Struct
    <3> HIDE DEF bk
    <3>4. /\ q \in Struct /\ q.buckets = bk
          /\ \A f \in {"closed", "active", "solver", "key", "inflight", "issued", "waiters",
                           "streak", "target", "lastTake"} : q[f] = p[f]
      BY <3>1, <3>2 DEF Struct
    <3> HIDE DEF q
    <3>5. \A k \in Keys : Drawn(bk[k], p.buckets[k]) /\ Len(bk[k]) <= PoolMax
      <4> SUFFICES ASSUME NEW k \in Keys PROVE Drawn(bk[k], p.buckets[k]) /\ Len(bk[k]) <= PoolMax
        OBVIOUS
      <4>1. CASE bk[k] = <<>>
        <5>1. DOMAIN <<>> = {} /\ Len(<<>>) = 0
          OBVIOUS
        <5>2. Drawn(<<>>, p.buckets[k])
          <6> DEFINE f == [i \in {} |-> i]
          <6>1. f \in [{} -> DOMAIN p.buckets[k]]
            OBVIOUS
          <6>2. QED  BY <5>1, <6>1 DEF Drawn
        <5>3. QED  BY <4>1, <5>1, <5>2
      <4>2. CASE bk[k] = p.buckets[k]
        BY <3>1, <4>2, DrawnSelf DEF PoolInv
      <4>3. QED  BY <3>2, <4>1, <4>2
    <3>6. Sound(bk, p.issued, p.waiters, p.key, ch, tk, sp)
      BY <3>2, <3>5, DrawnSound DEF PoolInv, SoundPool
    <3>7. PoolInv(q, ch, tk, sp)
      <4>1. q.lastTake = p.lastTake /\ q.active = p.active /\ q.key = p.key
            /\ q.issued = p.issued /\ q.waiters = p.waiters
        BY <3>4
      <4>2. (p.active => p.key # None) /\ p.lastTake <= now
        BY DEF PoolInv
      <4>3. QED  BY <3>4, <3>5, <3>6, <4>1, <4>2 DEF PoolInv, SoundPool
    <3>8. CASE q.streak >= EmptySolve
      BY <1>3, <2>3, <3>3, <3>7, <3>8, FailInv DEF EnsureMintsLocked
    <3>9. CASE ~(q.streak >= EmptySolve)
      <4>1. q.key = p.key /\ q.inflight = p.inflight
        BY <3>4
      <4>2. EmptySolve \in Nat /\ q.inflight[q.key] + EmptySolve <= MostFlight
        BY <2>1, <4>1, MostFlightIs
      <4>3. PoolInv(LaunchMintsLocked(q, EmptySolve), ch, tk, sp)
        BY <2>1, <3>7, <4>1, <4>2, LaunchInv
      <4>4. QED  BY <1>3, <2>3, <3>3, <3>9, <4>3 DEF EnsureMintsLocked
    <3>10. QED  BY <3>8, <3>9
  <2>4. QED  BY <2>2, <2>3
<1>4. QED  BY <1>1, <1>2, <1>3

\* ensureMintsLocked starts mints only for those who still wait after it.
LEMMA EnsureStarts ==
    ASSUME NEW p, NEW ch, NEW tk, NEW sp, PoolInv(p, ch, tk, sp), now \in Nat
    PROVE  LET e == EnsureMintsLocked(p, ch)
           IN  e.p.inflight = p.inflight \/ e.p.waiters # <<>>
<1>1. p \in Struct
  BY DEF PoolInv
<1>2. FailWaitersLocked(p, ch).p.inflight = p.inflight
  BY <1>1 DEF FailWaitersLocked, Struct
<1>3. CASE ~Servable(p)
  BY <1>2, <1>3 DEF EnsureMintsLocked
<1>4. CASE Servable(p) /\ (p.waiters = <<>> \/ p.inflight[p.key] > 0)
  BY <1>4 DEF EnsureMintsLocked
<1>5. CASE Servable(p) /\ ~(p.waiters = <<>> \/ p.inflight[p.key] > 0)
  <2>1. CASE LivePositions(p.buckets[p.key]) # {}
    <3>1. p.key \in Keys
      BY <1>5 DEF PoolInv, Struct, Servable
    <3>2. QED  BY <1>5, <2>1, <3>1, DeliverInv DEF EnsureMintsLocked
  <2>2. CASE LivePositions(p.buckets[p.key]) = {}
    <3> DEFINE q == [p EXCEPT !.buckets[p.key] = <<>>]
    <3>1. q.inflight = p.inflight /\ q.waiters = p.waiters /\ q.key = p.key
          /\ DOMAIN q = DOMAIN p
      BY <1>1 DEF Struct
    <3>2. "inflight" \in DOMAIN p /\ "waiters" \in DOMAIN p
      BY <1>1 DEF Struct
    <3> HIDE DEF q
    <3>3. FailWaitersLocked(q, ch).p.inflight = p.inflight
      BY <3>1, <3>2 DEF FailWaitersLocked
    <3>4. LaunchMintsLocked(q, EmptySolve).waiters = p.waiters
      BY <3>1, <3>2 DEF LaunchMintsLocked
    <3>5. EnsureMintsLocked(p, ch) =
            IF q.streak >= EmptySolve THEN FailWaitersLocked(q, ch)
            ELSE [p |-> LaunchMintsLocked(q, EmptySolve), ch |-> ch]
      BY <1>5, <2>2 DEF EnsureMintsLocked, q
    <3>6. QED  BY <1>5, <3>3, <3>4, <3>5
  <2>3. QED  BY <2>1, <2>2
<1>6. QED  BY <1>3, <1>4, <1>5

\* No solve starts but for those who wait.
NoMore == pool'.waiters # <<>> \/ \A x \in Keys : pool'.inflight[x] <= pool.inflight[x]

\* What is outside the buckets, the registry and the queue may change.
LEMMA FieldsInv ==
    ASSUME NEW p, NEW ch, NEW tk, NEW sp, PoolInv(p, ch, tk, sp), NEW q \in Struct,
           q.buckets = p.buckets, q.issued = p.issued, q.waiters = p.waiters, q.key = p.key,
           q.active => q.key # None, q.lastTake <= now
    PROVE  PoolInv(q, ch, tk, sp)
  BY DEF PoolInv, SoundPool

\* Time stands still in every step but that of the clock.
LEMMA StillInv ==
    ASSUME now' = now, now \in 0..MaxTime, PoolInv(pool', chan', taker', spent')
    PROVE  TokenInv'
<1>1. Minted' = Minted
  BY DEF Minted
<1>2. \A tok : Good(tok)' = Good(tok)
  BY DEF Good, Live
<1>3. Sound(pool.buckets, pool.issued, pool.waiters, pool.key, chan, taker, spent)'
  <2>1. Sound(pool'.buckets, pool'.issued, pool'.waiters, pool'.key, chan', taker', spent')
    BY DEF PoolInv, SoundPool
  <2>2. Stock(pool.buckets, pool.key)'
    BY <1>1, <2>1 DEF Sound, Stock
  <2>3. Registry(pool.issued)' /\ (spent \subseteq Minted)'
    BY <1>1, <2>1 DEF Sound, Registry
  <2>4. Queue(pool.waiters, pool.key, chan, taker)'
    BY <1>1, <2>1 DEF Sound, Queue
  <2>5. Backed(pool.buckets, pool.issued, chan, spent)'
    BY <2>1 DEF Sound, Backed, Held, Good, Live
  <2>6. Apart(pool.buckets, chan, spent)'
    BY <2>1 DEF Sound, Apart, Held, Good, Live
  <2>7. QED  BY <2>2, <2>3, <2>4, <2>5, <2>6 DEF Sound
<1>4. QED  BY <1>3 DEF PoolInv, SoundPool, TokenInv

LEMMA StutterInv == ASSUME TokenInv, UNCHANGED vars PROVE TokenInv'
<1>1. PoolInv(pool', chan', taker', spent') /\ now' = now /\ now \in 0..MaxTime
  BY DEF TokenInv, vars
<1>2. QED  BY <1>1, StillInv

LEMMA InitTokenInv == ASSUME Init PROVE TokenInv
<1>1. /\ pool.closed = FALSE /\ pool.active = FALSE /\ pool.solver \in BOOLEAN /\ pool.key = None
      /\ pool.buckets = [k \in Keys |-> <<>>] /\ pool.issued = [c \in Certs |-> 0]
      /\ pool.inflight = [x \in Keys |-> 0] /\ pool.waiters = <<>> /\ pool.streak = 0
      /\ pool.target = PoolMin /\ pool.lastTake = 0
      /\ DOMAIN pool = {"closed", "active", "solver", "key", "buckets", "issued", "inflight",
                        "waiters", "streak", "target", "lastTake"}
  BY DEF Init, NoBuckets, NoIssued
<1>2. pool \in Struct
  <2>1. <<>> \in Seq(Tokens) /\ <<>> \in Seq(Takers) /\ 0 \in 0..MostFlight /\ 0 \in 0..EmptySolve
        /\ PoolMin \in PoolMin..PoolMax
    BY MostFlightIs
  <2>2. \E x \in BOOLEAN :
          pool = [closed |-> FALSE, active |-> FALSE, solver |-> x, key |-> None,
                buckets |-> [k \in Keys |-> <<>>], issued |-> [c \in Certs |-> 0],
                inflight |-> [k \in Keys |-> 0], waiters |-> <<>>, streak |-> 0,
                target |-> PoolMin, lastTake |-> 0]
    BY DEF Init, NoBuckets, NoIssued
  <2>3. QED  BY <2>1, <2>2 DEF Struct
<1>3. now = 0 /\ chan = [t \in Takers |-> None] /\ taker = [t \in Takers |-> None] /\ spent = {}
  BY DEF Init
<1>4. DOMAIN <<>> = {} /\ Len(<<>>) = 0
  OBVIOUS
<1>5. Stock(pool.buckets, pool.key) /\ Registry(pool.issued)
  <2>1. <<>> \in Seq(Minted)
    OBVIOUS
  <2>2. QED  BY <1>1, <1>3, <1>4, <2>1 DEF Stock, Registry
<1>6. Queue(pool.waiters, pool.key, chan, taker)
  <2>1. <<>> \in Seq(Takers)
    OBVIOUS
  <2>2. QED  BY <1>1, <1>3, <1>4, <2>1 DEF Queue, NoTokens
<1>7. Backed(pool.buckets, pool.issued, chan, spent) /\ Apart(pool.buckets, chan, spent)
  BY <1>1, <1>3, <1>4 DEF Backed, Apart, Held, NoTokens
<1>8. Sound(pool.buckets, pool.issued, pool.waiters, pool.key, chan, taker, spent)
  BY <1>3, <1>5, <1>6, <1>7 DEF Sound
<1>9. \A k \in Keys : Len(pool.buckets[k]) <= PoolMax
  BY <1>1, <1>4
<1>10. QED  BY <1>1, <1>2, <1>3, <1>8, <1>9 DEF TokenInv, PoolInv, SoundPool

\* A pre-solved token is popped, and spent.
LEMMA PopInv ==
    ASSUME NEW p, NEW ch, NEW tk, NEW sp, PoolInv(p, ch, tk, sp), now \in Nat, p.key \in Keys,
           p.buckets[p.key] # <<>>, \A i \in DOMAIN p.buckets[p.key] : Live(p.buckets[p.key][i])
    PROVE  /\ PoolInv(PopLocked(p, 1), ch, tk, sp)
           /\ PoolInv(PopLocked(p, 1), ch, tk, sp \cup {p.buckets[p.key][1]})
           /\ PopLocked(p, 1).inflight = p.inflight
<1> DEFINE B == p.buckets
           K == p.key
           b == B[K]
           cut == NthLive(b, 1)
           cs == {b[NthLive(b, i)].cert : i \in 1..1}
           b2 == SubSeq(b, cut + 1, Len(b))
           bk2 == [B EXCEPT ![K] = b2]
           p2 == [p EXCEPT !.buckets = bk2]
           q == Register(p2, cs)
<1>1. /\ p \in Struct /\ Sound(B, p.issued, p.waiters, K, ch, tk, sp) /\ K \in Keys
      /\ B \in [Keys -> Seq(Minted)] /\ b \in Seq(Minted) /\ Registry(p.issued) /\ b # <<>>
      /\ (\A i \in DOMAIN b : Live(b[i])) /\ \A k \in Keys : Len(B[k]) <= PoolMax
  BY DEF PoolInv, SoundPool, Sound, Stock
<1>2. PopLocked(p, 1) = q
  <2>1. [p EXCEPT !.buckets[p.key] = b2] = p2
    BY <1>1 DEF Struct
  <2>2. QED  BY <2>1 DEF PopLocked
<1> HIDE DEF b, B, K
<1>3. /\ DOMAIN b = 1..Len(b) /\ Len(b) \in Nat /\ DOMAIN b \in SUBSET Nat /\ IsFiniteSet(DOMAIN b)
      /\ Len(b) >= 1
  BY <1>1, BucketPlaces
<1>4. cut \in 1..Len(b)
  <2>1. LivePositions(b) = DOMAIN b
    BY <1>1 DEF LivePositions
  <2>2. Cardinality(DOMAIN b) = Len(b)
    BY <1>3, FS_Interval
  <2>3. 1 \in 1..Cardinality(LivePositions(b))
    BY <1>3, <2>1, <2>2
  <2>4. cut \in LivePositions(b)
    BY <1>3, <2>3, NthLiveIs
  <2>5. QED  BY <1>3, <2>1, <2>4
<1> HIDE DEF cut
<1>5. /\ b2 \in Seq(Minted) /\ Drawn(b2, b) /\ Len(b2) = Len(b) - cut
      /\ DOMAIN b2 = 1..(Len(b) - cut)
      /\ \A i \in DOMAIN b2 : b2[i] = b[i + cut] /\ i + cut \in DOMAIN b
  <2>1. cut \in 0..Len(b) /\ b \in Seq(Minted)
    BY <1>1, <1>3, <1>4
  <2>2. QED  BY ONLY <2>1, SuffixIs DEF b2
<1> HIDE DEF b2
<1>6. /\ bk2 \in [Keys -> Seq(Minted)] /\ bk2 \in [Keys -> Seq(Tokens)]
      /\ bk2[K] = b2 /\ \A k \in Keys \ {K} : bk2[k] = B[k]
  <2>1. \A s \in Seq(Minted) : s \in Seq(Tokens)
    BY DEF Minted
  <2>2. QED  BY <1>1, <1>5, <2>1
<1> HIDE DEF bk2
<1>7. \A k \in Keys : Drawn(bk2[k], B[k]) /\ Len(bk2[k]) <= PoolMax
  <2> SUFFICES ASSUME NEW k \in Keys PROVE Drawn(bk2[k], B[k]) /\ Len(bk2[k]) <= PoolMax
    OBVIOUS
  <2>1. CASE k = K
    <3>1. Len(b) <= PoolMax /\ B[K] = b
      BY <1>1 DEF b
    <3>2. QED  BY <1>3, <1>4, <1>5, <1>6, <2>1, <3>1
  <2>2. CASE k # K
    BY <1>1, <1>6, <2>2, DrawnSelf
  <2>3. QED  BY <2>1, <2>2
<1>8. Sound(bk2, p.issued, p.waiters, K, ch, tk, sp)
  BY <1>1, <1>6, <1>7, DrawnSound
<1>9. Alone(b[1], bk2, p.issued, ch, sp) /\ b[1] \in Minted
  <2>1. 1 \in DOMAIN b /\ b[1] \in Minted /\ B[K] = b
    BY <1>1, <1>3 DEF b
  <2> SUFFICES ASSUME Good(b[1])
               PROVE  p.issued[b[1].cert] >= b[1].exp + Grace /\ Absent(b[1].cert, bk2, ch, sp)
    BY <2>1 DEF Alone
  <2>2. p.issued[b[1].cert] >= b[1].exp + Grace
    BY <1>1, <2>1 DEF Sound, Backed
  <2>3. \A t \in Takers : Held(ch, t) => ch[t].cert # b[1].cert
    BY <1>1, <2>1 DEF Sound, Apart
  <2>4. \A x \in sp : Good(x) => x.cert # b[1].cert
    BY <1>1, <2>1 DEF Sound, Apart
  <2>5. \A k \in Keys : \A i \in DOMAIN bk2[k] : Good(bk2[k][i]) => bk2[k][i].cert # b[1].cert
    <3> SUFFICES ASSUME NEW k \in Keys, NEW i \in DOMAIN bk2[k], Good(bk2[k][i]),
                        bk2[k][i].cert = b[1].cert
                 PROVE  FALSE
      OBVIOUS
    <3>1. k = K
      BY <1>8 DEF Sound, Stock
    <3>2. bk2[k][i] = b[i + cut] /\ i + cut \in DOMAIN b /\ i \in DOMAIN b2
      BY <1>5, <1>6, <3>1
    <3>3. i + cut = 1
      BY <1>1, <2>1, <3>2 DEF Sound, Apart
    <3>4. QED  BY <1>3, <1>4, <1>5, <3>2, <3>3
  <2>6. QED  BY <2>2, <2>3, <2>4, <2>5 DEF Absent
<1>10. Sound(bk2, p.issued, p.waiters, K, ch, tk, sp \cup {b[1]})
  BY <1>8, <1>9, SpendSound
<1>11. /\ p2 \in Struct /\ p2.buckets = bk2
       /\ \A f \in {"closed", "active", "solver", "key", "issued", "inflight", "waiters",
                           "streak", "target", "lastTake"} : p2[f] = p[f]
  BY <1>1, <1>6 DEF Struct
<1> HIDE DEF p2, cs
<1>12. /\ q \in Struct /\ Registry(q.issued) /\ \A c \in Certs : q.issued[c] >= p.issued[c]
       /\ q.buckets = bk2
       /\ \A f \in {"closed", "active", "solver", "key", "inflight", "waiters",
                           "streak", "target", "lastTake"} : q[f] = p[f]
  <2>1. Registry(p2.issued)
    BY <1>1, <1>11
  <2> HIDE DEF q
  <2>2. q = Register(p2, cs)
    BY DEF q
  <2>3. /\ q \in Struct /\ Registry(q.issued) /\ \A c \in Certs : q.issued[c] >= p2.issued[c]
        /\ \A f \in {"closed", "active", "solver", "key", "buckets", "inflight", "waiters",
                           "streak", "target", "lastTake"} : q[f] = p2[f]
    BY <1>11, <2>1, <2>2, RegisterIs
  <2>4. QED  BY <1>11, <2>3
<1> HIDE DEF q
<1>13. /\ Sound(bk2, q.issued, p.waiters, K, ch, tk, sp)
       /\ Sound(bk2, q.issued, p.waiters, K, ch, tk, sp \cup {b[1]})
  BY <1>8, <1>10, <1>12, RegistrySound
<1>14. /\ q.waiters = p.waiters /\ q.key = K /\ q.active = p.active /\ q.lastTake = p.lastTake
       /\ (p.active => K # None) /\ p.lastTake <= now
  BY <1>12 DEF PoolInv, K
<1>15. PoolInv(q, ch, tk, sp) /\ PoolInv(q, ch, tk, sp \cup {b[1]})
  BY <1>7, <1>12, <1>13, <1>14 DEF PoolInv, SoundPool
<1>16. QED  BY <1>2, <1>12, <1>15 DEF b, B, K

\* A token comes to the bucket of the key in force.
LEMMA AppendInv ==
    ASSUME NEW p, NEW ch, NEW tk, NEW sp, PoolInv(p, ch, tk, sp), p.key \in Keys,
           NEW tok \in Minted, tok.key = p.key, Alone(tok, p.buckets, p.issued, ch, sp)
    PROVE  LET q == AppendBucketLocked(p, p.key, tok)
           IN  /\ PoolInv(q, ch, tk, sp) /\ q.inflight = p.inflight /\ q.waiters = p.waiters
<1> DEFINE B == p.buckets
           K == p.key
           b == Append(B[K], tok)
           full == Len(b) > PoolMax
           b2 == IF full THEN SubSeq(b, Len(b) - PoolMax + 1, Len(b)) ELSE b
           bk1 == [B EXCEPT ![K] = Append(@, tok)]
           bk2 == [B EXCEPT ![K] = b2]
           q == [p EXCEPT !.buckets = bk2]
<1>1. /\ p \in Struct /\ Sound(B, p.issued, p.waiters, K, ch, tk, sp) /\ K \in Keys
      /\ B \in [Keys -> Seq(Minted)] /\ \A k \in Keys : Len(B[k]) <= PoolMax
  BY DEF PoolInv, SoundPool, Sound, Stock
<1>2. AppendBucketLocked(p, p.key, tok) = q
  BY <1>1 DEF AppendBucketLocked, Struct
<1>3. Sound(bk1, p.issued, p.waiters, K, ch, tk, sp)
  BY <1>1, AddSound
<1>4. /\ b \in Seq(Minted) /\ Len(b) \in Nat /\ Len(b) <= PoolMax + 1
      /\ bk1[K] = b /\ \A k \in Keys \ {K} : bk1[k] = B[k]
  BY <1>1
<1> HIDE DEF b, B, K, bk1
<1>5. b2 \in Seq(Minted) /\ Drawn(b2, b) /\ Len(b2) <= PoolMax
  <2>1. CASE full
    <3> DEFINE c == Len(b) - PoolMax
    <3>1. c \in 0..Len(b) /\ Len(b) - c = PoolMax
      BY <1>4, <2>1
    <3> HIDE DEF c
    <3> DEFINE d == SubSeq(b, c + 1, Len(b))
    <3>2. d \in Seq(Minted) /\ Drawn(d, b) /\ Len(d) = Len(b) - c
      BY ONLY <1>4, <3>1, SuffixIs
    <3>3. d = b2
      BY <2>1 DEF c, b2
    <3> HIDE DEF d, b2
    <3>4. QED  BY <3>1, <3>2, <3>3
  <2>2. CASE ~full
    BY <1>4, <2>2, DrawnSelf
  <2>3. QED  BY <2>1, <2>2
<1> HIDE DEF b2
<1>6. /\ bk2 \in [Keys -> Seq(Minted)] /\ bk2 \in [Keys -> Seq(Tokens)]
      /\ bk2[K] = b2 /\ \A k \in Keys \ {K} : bk2[k] = B[k]
  <2>1. \A s \in Seq(Minted) : s \in Seq(Tokens)
    BY DEF Minted
  <2>2. QED  BY <1>1, <1>5, <2>1
<1> HIDE DEF bk2
<1>7. \A k \in Keys : Drawn(bk2[k], bk1[k]) /\ Len(bk2[k]) <= PoolMax
  <2> SUFFICES ASSUME NEW k \in Keys PROVE Drawn(bk2[k], bk1[k]) /\ Len(bk2[k]) <= PoolMax
    OBVIOUS
  <2>1. CASE k = K
    BY <1>4, <1>5, <1>6, <2>1
  <2>2. CASE k # K
    BY <1>1, <1>4, <1>6, <2>2, DrawnSelf
  <2>3. QED  BY <2>1, <2>2
<1>8. Sound(bk2, p.issued, p.waiters, K, ch, tk, sp)
  BY <1>3, <1>6, <1>7, DrawnSound
<1>9. /\ q \in Struct /\ q.buckets = bk2
      /\ \A f \in {"closed", "active", "solver", "key", "issued", "inflight", "waiters",
                           "streak", "target", "lastTake"} : q[f] = p[f]
  BY <1>1, <1>6 DEF Struct
<1> HIDE DEF q
<1>10. /\ q.waiters = p.waiters /\ q.key = K /\ q.active = p.active /\ q.lastTake = p.lastTake
       /\ q.issued = p.issued /\ (p.active => K # None) /\ p.lastTake <= now
  BY <1>9 DEF PoolInv, K
<1>11. PoolInv(q, ch, tk, sp)
  BY <1>7, <1>8, <1>9, <1>10 DEF PoolInv, SoundPool
<1>12. QED  BY <1>2, <1>9, <1>11

(***************************************************************************)
(* The actions.                                                            *)
(***************************************************************************)

LEMMA TakeHitInv ==
    ASSUME TokenInv, NEW t \in Takers, NEW k \in Keys, TakeHit(t, k) PROVE TokenInv'
<1> DEFINE q == PruneLocked(pool)
           p == [q EXCEPT !.lastTake = now]
           tok == p.buckets[k][1]
<1>1. now \in Nat /\ now \in 0..MaxTime /\ PoolInv(pool, chan, taker, spent)
  BY DEF TokenInv
<1>2. /\ PoolInv(q, chan, taker, spent) /\ q.key = pool.key
      /\ \A x \in Keys : \A i \in DOMAIN q.buckets[x] : Live(q.buckets[x][i])
  BY <1>1, PruneInv
<1> HIDE DEF q
<1>3. /\ p \in Struct /\ p.buckets = q.buckets /\ p.issued = q.issued /\ p.waiters = q.waiters
      /\ p.key = q.key /\ p.active = q.active /\ p.lastTake = now
  BY <1>1, <1>2 DEF PoolInv, Struct
<1> HIDE DEF p
<1>4. PoolInv(p, chan, taker, spent)
  <2>1. (p.active => p.key # None) /\ p.lastTake <= now
    BY <1>1, <1>2, <1>3 DEF PoolInv
  <2>2. QED  BY <1>2, <1>3, <2>1, FieldsInv
<1>5. p.key = k /\ p.buckets[k] # <<>> /\ pool' = PopLocked(p, 1) /\ Spend(tok)
      /\ UNCHANGED <<now, chan, taker>>
  BY <1>2, <1>3 DEF TakeHit, p, q
<1>6. PoolInv(pool', chan, taker, spent) /\ PoolInv(pool', chan, taker, spent \cup {tok})
  BY <1>1, <1>2, <1>3, <1>4, <1>5, PopInv
<1>7. PoolInv(pool', chan', taker', spent') /\ now' = now
  BY <1>5, <1>6 DEF Spend
<1>8. QED  BY <1>1, <1>7, StillInv

\* Somebody starts to wait.
LEMMA WaitSound ==
    ASSUME NEW bk, NEW iss, NEW w, NEW kf \in Keys, NEW ch, NEW tk, NEW sp,
           Sound(bk, iss, w, kf, ch, tk, sp), NEW t \in Takers, tk[t] = None
    PROVE  Sound(bk, iss, Append(w, t), kf, ch, [tk EXCEPT ![t] = kf], sp)
<1> DEFINE w2 == Append(w, t)
           t2 == [tk EXCEPT ![t] = kf]
<1>1. kf # None /\ w \in Seq(Takers) /\ tk \in [Takers -> Keys \cup {None}]
      /\ ch \in [Takers -> Minted \cup NoTokens] /\ ch[t] = None
  BY DEF Sound, Queue
<1>2. \A i \in DOMAIN w : w[i] # t /\ w[i] \in Takers
  BY <1>1 DEF Sound, Queue
<1>3. /\ w2 \in Seq(Takers)
      /\ \A i \in DOMAIN w2 : (i \in DOMAIN w /\ w2[i] = w[i]) \/ (i = Len(w) + 1 /\ w2[i] = t)
  BY <1>1
<1>4. t2 \in [Takers -> Keys \cup {None}] /\ t2[t] = kf /\ \A s \in Takers \ {t} : t2[s] = tk[s]
  BY <1>1
<1> HIDE DEF w2, t2
<1>5. \A i, j \in DOMAIN w2 : w2[i] = w2[j] => i = j
  BY <1>2, <1>3 DEF Sound, Queue
<1>6. \A i \in DOMAIN w2 : ch[w2[i]] = None /\ t2[w2[i]] = kf /\ kf # None
  BY <1>1, <1>2, <1>3, <1>4 DEF Sound, Queue
<1>7. \A s \in Takers : (ch[s] # None => t2[s] # None) /\ (ch[s] \notin NoTokens => ch[s].key = t2[s])
  BY <1>1, <1>4 DEF Sound, Queue, NoTokens
<1>8. Queue(w2, kf, ch, t2)
  BY <1>1, <1>3, <1>4, <1>5, <1>6, <1>7 DEF Queue
<1>9. QED  BY <1>8 DEF Sound, w2, t2

LEMMA TakeEmptyInv ==
    ASSUME TokenInv, NEW t \in Takers, NEW k \in Keys, TakeEmpty(t, k) PROVE TokenInv' /\ NoMore
<1> DEFINE p0 == PruneLocked(pool)
           p == [p0 EXCEPT !.lastTake = now]
           p2 == BumpTargetLocked(p)
           q == [p2 EXCEPT !.streak = IF p.waiters = <<>> THEN 0 ELSE @,
                           !.waiters = Append(@, t)]
           tk2 == [taker EXCEPT ![t] = k]
<1>1. now \in Nat /\ now \in 0..MaxTime /\ PoolInv(pool, chan, taker, spent)
  BY DEF TokenInv
<1>2. PoolInv(p0, chan, taker, spent) /\ p0.key = pool.key /\ p0.inflight = pool.inflight
      /\ pool \in Struct
  <2>1. PoolInv(p0, chan, taker, spent) /\ p0.key = pool.key /\ p0.inflight = pool.inflight
    BY <1>1, PruneInv
  <2>2. QED  BY <1>1, <2>1 DEF PoolInv
<1> HIDE DEF p0
<1>3. /\ p \in Struct /\ p.buckets = p0.buckets /\ p.issued = p0.issued /\ p.waiters = p0.waiters
      /\ p.key = p0.key /\ p.active = p0.active /\ p.lastTake = now /\ p.inflight = p0.inflight
  BY <1>1, <1>2 DEF PoolInv, Struct
<1>4. taker[t] = None /\ pool.key = k /\ taker' = tk2 /\ UNCHANGED <<now, spent>>
      /\ pool' = EnsureMintsLocked(q, chan).p /\ chan' = EnsureMintsLocked(q, chan).ch
  BY DEF TakeEmpty, p0
<1> HIDE DEF p
<1>5. /\ p2 \in Struct /\ p2.buckets = p.buckets /\ p2.issued = p.issued /\ p2.waiters = p.waiters
      /\ p2.key = p.key /\ p2.active = p.active /\ p2.lastTake = p.lastTake
      /\ p2.inflight = p.inflight
  <2>1. Min({p.target + 1, PoolMax}) \in PoolMin..PoolMax
    <3>1. p.target \in PoolMin..PoolMax /\ PoolMin \in Nat /\ PoolMax \in Nat
      BY <1>3 DEF Struct
    <3>2. Min({p.target + 1, PoolMax}) = IF p.target + 1 <= PoolMax THEN p.target + 1 ELSE PoolMax
      BY <3>1, MinOfTwo
    <3>3. QED  BY <3>1, <3>2
  <2>2. p2 = [p EXCEPT !.target = Min({p.target + 1, PoolMax})]
    BY <1>3 DEF BumpTargetLocked, Struct
  <2> HIDE DEF p2
  <2>3. QED  BY <1>3, <2>1, <2>2 DEF Struct
<1> HIDE DEF p2
<1>6. /\ q \in Struct /\ q.buckets = p0.buckets /\ q.issued = p0.issued /\ q.waiters = Append(p0.waiters, t)
      /\ q.key = k /\ q.active = p0.active /\ q.lastTake = now
      /\ q.inflight = pool.inflight
  <2>1. Append(p2.waiters, t) \in Seq(Takers) /\ (IF p.waiters = <<>> THEN 0 ELSE p2.streak) \in 0..EmptySolve
    BY <1>5 DEF Struct
  <2>2. q = [p2 EXCEPT !.streak = IF p.waiters = <<>> THEN 0 ELSE p2.streak,
                       !.waiters = Append(p2.waiters, t)]
    BY <1>5 DEF Struct
  <2> HIDE DEF q
  <2>3. QED  BY <1>2, <1>3, <1>4, <1>5, <2>1, <2>2 DEF Struct
<1> HIDE DEF q
<1>7. Sound(p0.buckets, p0.issued, Append(p0.waiters, t), k, chan, tk2, spent)
  BY <1>2, <1>4, WaitSound DEF PoolInv, SoundPool
<1>8. PoolInv(q, chan, tk2, spent)
  <2>1. (q.active => q.key # None) /\ q.lastTake <= now
    BY <1>1, <1>6
  <2>2. \A x \in Keys : Len(q.buckets[x]) <= PoolMax
    BY <1>2, <1>6 DEF PoolInv
  <2>3. QED  BY <1>6, <1>7, <2>1, <2>2 DEF PoolInv, SoundPool
<1>9. PoolInv(pool', chan', tk2, spent)
  BY <1>1, <1>4, <1>8, EnsureInv
<1>10. TokenInv'
  BY <1>1, <1>4, <1>9, StillInv
<1>11. pool'.inflight = q.inflight \/ pool'.waiters # <<>>
  BY <1>1, <1>4, <1>8, EnsureStarts
<1>12. \A x \in Keys : pool.inflight[x] \in Int
  BY <1>2, MostFlightIs DEF Struct
<1>13. QED  BY <1>6, <1>10, <1>11, <1>12 DEF NoMore

LEMMA ReceiveInv == ASSUME TokenInv, NEW t \in Takers, Receive(t) PROVE TokenInv'
<1> DEFINE c2 == [chan EXCEPT ![t] = None]
           t2 == [taker EXCEPT ![t] = None]
<1>1. now \in Nat /\ now \in 0..MaxTime /\ PoolInv(pool, chan, taker, spent)
      /\ Sound(pool.buckets, pool.issued, pool.waiters, pool.key, chan, taker, spent)
  BY DEF TokenInv, PoolInv, SoundPool
<1>2. chan[t] # None /\ chan' = c2 /\ taker' = t2 /\ pool' = PruneLocked(pool) /\ now' = now
      /\ IF chan[t] = Err THEN UNCHANGED spent ELSE Spend(chan[t])
  BY DEF Receive
<1>3. \A i \in DOMAIN pool.waiters : pool.waiters[i] # t
  BY <1>1, <1>2 DEF Sound, Queue
<1>4. /\ Sound(pool.buckets, pool.issued, pool.waiters, pool.key, c2, t2, spent)
      /\ Held(chan, t) => Alone(chan[t], pool.buckets, pool.issued, c2, spent)
  BY <1>1, <1>3, EmptySound
<1>5. spent' \in {spent, spent \cup {chan[t]}}
      /\ (spent' # spent => chan[t] \in Minted /\ Held(chan, t))
  BY <1>1, <1>2 DEF Spend, Held, Good, Sound, Queue, NoTokens
<1> HIDE DEF c2, t2
<1>6. Sound(pool.buckets, pool.issued, pool.waiters, pool.key, c2, t2, spent')
  <2>1. CASE spent' = spent
    BY <1>4, <2>1
  <2>2. CASE spent' # spent
    BY <1>4, <1>5, <2>2, SpendSound
  <2>3. QED  BY <2>1, <2>2
<1>7. PoolInv(pool, c2, t2, spent')
  BY <1>1, <1>6 DEF PoolInv, SoundPool
<1>8. PoolInv(pool', c2, t2, spent')
  BY <1>1, <1>2, <1>7, PruneInv
<1>9. QED  BY <1>1, <1>2, <1>8, StillInv

LEMMA JoinIs ==
    ASSUME NEW S, NEW a \in Seq(S), NEW c \in Seq(S)
    PROVE  /\ a \o c \in Seq(S) /\ Len(a \o c) = Len(a) + Len(c)
           /\ \A j \in 1..Len(a) + Len(c) : (a \o c)[j] = IF j <= Len(a) THEN a[j] ELSE c[j - Len(a)]
  OBVIOUS

LEMMA AfterIs ==
    ASSUME NEW S, NEW b \in Seq(S), NEW c \in 0..Len(b)
    PROVE  LET d == SubSeq(b, c + 1, Len(b))
           IN  /\ d \in Seq(S) /\ Len(d) = Len(b) - c
               /\ \A i \in 1..(Len(b) - c) : d[i] = b[i + c]
  OBVIOUS

\* A waiter leaves the queue.
LEMMA LeaveSound ==
    ASSUME NEW bk, NEW iss, NEW w, NEW kf, NEW ch, NEW tk, NEW sp,
           Sound(bk, iss, w, kf, ch, tk, sp), NEW i \in DOMAIN w
    PROVE  LET w2 == RemoveAt(w, i)
           IN  /\ Sound(bk, iss, w2, kf, ch, tk, sp)
               /\ w2 \in Seq(Takers) /\ \A j \in DOMAIN w2 : w2[j] # w[i]
<1> DEFINE w2 == RemoveAt(w, i)
<1>1. w \in Seq(Takers) /\ i \in 1..Len(w) /\ Len(w) \in Nat
      /\ \A x, y \in DOMAIN w : w[x] = w[y] => x = y
  BY DEF Sound, Queue
<1>2. /\ w2 \in Seq(Takers)
      /\ \A j \in DOMAIN w2 : /\ j \in Nat
                             /\ \/ j < i /\ j \in DOMAIN w /\ w2[j] = w[j]
                                \/ j >= i /\ j + 1 \in DOMAIN w /\ w2[j] = w[j + 1]
  <2> DEFINE a == SubSeq(w, 1, i - 1)
             c == SubSeq(w, i + 1, Len(w))
  <2>1. a \in Seq(Takers) /\ Len(a) = i - 1 /\ \A j \in 1..(i - 1) : a[j] = w[j]
    BY <1>1
  <2>2. c \in Seq(Takers) /\ Len(c) = Len(w) - i /\ \A j \in 1..(Len(w) - i) : c[j] = w[j + i]
    <3>1. w \in Seq(Takers) /\ i \in 0..Len(w)
      BY <1>1
    <3>2. QED  BY ONLY <3>1, AfterIs DEF c
  <2>3. w2 = a \o c
    BY DEF RemoveAt
  <2> HIDE DEF a, c, w2
  <2>4. /\ w2 \in Seq(Takers) /\ Len(w2) = Len(w) - 1
        /\ \A j \in 1..Len(w2) : w2[j] = IF j <= i - 1 THEN a[j] ELSE c[j - (i - 1)]
    <3>1. /\ a \o c \in Seq(Takers) /\ Len(a \o c) = Len(a) + Len(c)
          /\ \A j \in 1..Len(a) + Len(c) : (a \o c)[j] = IF j <= Len(a) THEN a[j] ELSE c[j - Len(a)]
      BY ONLY <2>1, <2>2, JoinIs
    <3>2. Len(a) + Len(c) = Len(w) - 1
      BY <1>1, <2>1, <2>2
    <3>3. QED  BY <2>1, <2>3, <3>1, <3>2
  <2>5. \A j \in 1..Len(w2) : (j < i /\ w2[j] = w[j]) \/ (j >= i /\ w2[j] = w[j + 1])
    <3> SUFFICES ASSUME NEW j \in 1..Len(w2) PROVE (j < i /\ w2[j] = w[j]) \/ (j >= i /\ w2[j] = w[j + 1])
      OBVIOUS
    <3>1. CASE j <= i - 1
      BY <1>1, <2>1, <2>4, <3>1
    <3>2. CASE ~(j <= i - 1)
      <4>1. j - (i - 1) \in 1..(Len(w) - i) /\ (j - (i - 1)) + i = j + 1 /\ j >= i
        BY <1>1, <2>4, <3>2
      <4>2. QED  BY <2>2, <2>4, <3>2, <4>1
    <3>3. QED  BY <3>1, <3>2
  <2>6. DOMAIN w2 = 1..Len(w2) /\ DOMAIN w = 1..Len(w)
    BY <1>1, <2>4
  <2>7. QED  BY <1>1, <2>4, <2>5, <2>6
<1> HIDE DEF w2
<1>3. \A j \in DOMAIN w2 : \E x \in DOMAIN w : x # i /\ w2[j] = w[x]
  BY <1>1, <1>2
<1>4. \A j \in DOMAIN w2 : w2[j] # w[i]
  BY <1>1, <1>3
<1>5. \A x, y \in DOMAIN w2 : w2[x] = w2[y] => x = y
  <2> SUFFICES ASSUME NEW x \in DOMAIN w2, NEW y \in DOMAIN w2, w2[x] = w2[y] PROVE x = y
    OBVIOUS
  <2>1. x \in Nat /\ y \in Nat /\ i \in Nat
    BY <1>1, <1>2
  <2>2. PICK a \in DOMAIN w : w2[x] = w[a] /\ ((x < i /\ a = x) \/ (x >= i /\ a = x + 1))
    BY <1>2
  <2>3. PICK c \in DOMAIN w : w2[y] = w[c] /\ ((y < i /\ c = y) \/ (y >= i /\ c = y + 1))
    BY <1>2
  <2>4. a = c
    BY <1>1, <2>2, <2>3
  <2>5. QED  BY <2>1, <2>2, <2>3, <2>4
<1>6. Queue(w2, kf, ch, tk)
  BY <1>2, <1>3, <1>5 DEF Sound, Queue
<1>7. Sound(bk, iss, w2, kf, ch, tk, sp)
  BY <1>6 DEF Sound
<1>8. QED  BY <1>2, <1>4, <1>7 DEF w2

LEMMA CancelInv == ASSUME TokenInv, NEW t \in Takers, Cancel(t) PROVE TokenInv'
<1> DEFINE c2 == [chan EXCEPT ![t] = None]
           t2 == [taker EXCEPT ![t] = None]
<1>1. now \in Nat /\ now \in 0..MaxTime /\ PoolInv(pool, chan, taker, spent) /\ pool \in Struct
      /\ Sound(pool.buckets, pool.issued, pool.waiters, pool.key, chan, taker, spent)
  BY DEF TokenInv, PoolInv, SoundPool
<1>2. chan' = c2 /\ taker' = t2 /\ UNCHANGED <<now, spent>> /\ taker[t] # None
  BY DEF Cancel
<1>3. CASE t \in WaiterSet(pool)
  <2> DEFINE i == CHOOSE i \in DOMAIN pool.waiters : pool.waiters[i] = t
             w2 == RemoveAt(pool.waiters, i)
             q == [pool EXCEPT !.waiters = w2]
  <2>1. i \in DOMAIN pool.waiters /\ pool.waiters[i] = t
    BY <1>3 DEF WaiterSet
  <2>2. pool' = PruneLocked(q)
    <3>1. [pool EXCEPT !.waiters = RemoveAt(@, CHOOSE j \in DOMAIN @ : @[j] = t)] = q
      BY <1>1 DEF Struct
    <3>2. QED  BY <1>3, <3>1 DEF Cancel
  <2> HIDE DEF i
  <2>3. /\ Sound(pool.buckets, pool.issued, w2, pool.key, chan, taker, spent)
        /\ w2 \in Seq(Takers) /\ \A j \in DOMAIN w2 : w2[j] # t
    BY <1>1, <2>1, LeaveSound
  <2> HIDE DEF w2
  <2>4. Sound(pool.buckets, pool.issued, w2, pool.key, c2, t2, spent)
    BY <2>3, EmptySound
  <2>5. /\ q \in Struct /\ q.waiters = w2
        /\ \A f \in {"closed", "active", "solver", "key", "buckets", "issued", "inflight",
                           "streak", "target", "lastTake"} : q[f] = pool[f]
    BY <1>1, <2>3 DEF Struct
  <2> HIDE DEF q, c2, t2
  <2>6. PoolInv(q, c2, t2, spent)
    <3>1. q.buckets = pool.buckets /\ q.issued = pool.issued /\ q.key = pool.key
          /\ q.active = pool.active /\ q.lastTake = pool.lastTake
      BY <2>5
    <3>2. QED  BY <1>1, <2>4, <2>5, <3>1 DEF PoolInv, SoundPool
  <2>7. PoolInv(pool', c2, t2, spent)
    BY <1>1, <2>2, <2>6, PruneInv
  <2>8. QED  BY <1>1, <1>2, <2>7, StillInv
<1>4. CASE t \notin WaiterSet(pool)
  <2>1. \A i \in DOMAIN pool.waiters : pool.waiters[i] # t
    BY <1>4 DEF WaiterSet
  <2>2. /\ Sound(pool.buckets, pool.issued, pool.waiters, pool.key, c2, t2, spent)
        /\ Held(chan, t) => Alone(chan[t], pool.buckets, pool.issued, c2, spent)
    BY <1>1, <2>1, EmptySound
  <2> DEFINE back == chan[t] \notin {None, Err} /\ pool.active /\ pool.key = taker[t]
             q == IF back THEN AppendBucketLocked(pool, pool.key, chan[t]) ELSE pool
  <2>3. pool' = PruneLocked(q)
    BY <1>4 DEF Cancel
  <2>4. PoolInv(pool, c2, t2, spent)
    BY <1>1, <2>2 DEF PoolInv, SoundPool
  <2>5. PoolInv(q, c2, t2, spent)
    <3>1. CASE back
      <4>1. chan[t] \in Minted /\ chan[t].key = pool.key /\ pool.key \in Keys
        BY <1>1, <1>2, <3>1 DEF Sound, Queue, NoTokens
      <4>2. Alone(chan[t], pool.buckets, pool.issued, c2, spent)
        BY <2>2, <3>1 DEF Alone, Held, NoTokens
      <4> HIDE DEF c2, t2
      <4>3. QED  BY <2>4, <3>1, <4>1, <4>2, AppendInv
    <3>2. CASE ~back
      BY <2>4, <3>2
    <3>3. QED  BY <3>1, <3>2
  <2> HIDE DEF q, c2, t2
  <2>6. PoolInv(pool', c2, t2, spent)
    BY <1>1, <2>3, <2>5, PruneInv
  <2>7. QED  BY <1>1, <1>2, <2>6, StillInv
<1>5. QED  BY <1>3, <1>4

\* A solve ends; the streak and the registry may change with it.
LEMMA EndedInv ==
    ASSUME TokenInv, NEW k \in Keys, pool.inflight[k] > 0
    PROVE  LET p == MintEnded(k)
           IN  /\ PoolInv(p, chan, taker, spent) /\ PoolInv(MintFailed(p), chan, taker, spent)
               /\ \A f \in {"closed", "active", "solver", "key", "buckets", "issued", "waiters",
                           "streak", "target", "lastTake"} : p[f] = pool[f]
               /\ p.inflight = [pool.inflight EXCEPT ![k] = @ - 1]
               /\ MintFailed(p).inflight = p.inflight
               /\ \A s \in 0..EmptySolve : PoolInv([p EXCEPT !.streak = s], chan, taker, spent)
<1> DEFINE fl == [pool.inflight EXCEPT ![k] = @ - 1]
           p == MintEnded(k)
<1>1. pool \in Struct /\ pool.inflight \in [Keys -> 0..MostFlight]
  BY DEF TokenInv, PoolInv, Struct
<1>2. fl \in [Keys -> 0..MostFlight]
  <2>1. pool.inflight[k] - 1 \in 0..MostFlight
    BY <1>1, MostFlightIs
  <2>2. QED  BY <1>1, <2>1
<1>3. p = [pool EXCEPT !.inflight = fl]
  BY <1>1 DEF MintEnded, Struct
<1> HIDE DEF p
<1>4. /\ p \in Struct /\ p.inflight = fl
      /\ \A f \in {"closed", "active", "solver", "key", "buckets", "issued", "waiters",
                           "streak", "target", "lastTake"} : p[f] = pool[f]
  <2> HIDE DEF fl
  <2>1. QED  BY <1>1, <1>2, <1>3 DEF Struct
<1>5. \A s \in 0..EmptySolve : PoolInv([p EXCEPT !.streak = s], chan, taker, spent)
  <2> SUFFICES ASSUME NEW s \in 0..EmptySolve PROVE PoolInv([p EXCEPT !.streak = s], chan, taker, spent)
    OBVIOUS
  <2> DEFINE q == [p EXCEPT !.streak = s]
  <2>1. /\ q \in Struct /\ q.buckets = pool.buckets /\ q.issued = pool.issued /\ q.waiters = pool.waiters
        /\ q.key = pool.key /\ q.active = pool.active /\ q.lastTake = pool.lastTake
    BY <1>4 DEF Struct
  <2> HIDE DEF q
  <2>2. (q.active => q.key # None) /\ q.lastTake <= now /\ PoolInv(pool, chan, taker, spent)
    BY <2>1 DEF TokenInv, PoolInv
  <2>3. PoolInv(q, chan, taker, spent)
    BY <2>1, <2>2, FieldsInv
  <2>4. QED  BY <2>3 DEF q
<1>6. p.streak \in 0..EmptySolve /\ Min({p.streak + 1, EmptySolve}) \in 0..EmptySolve
  <2>1. p.streak \in 0..EmptySolve /\ EmptySolve \in Nat
    BY <1>4 DEF Struct
  <2>2. Min({p.streak + 1, EmptySolve}) = IF p.streak + 1 <= EmptySolve THEN p.streak + 1 ELSE EmptySolve
    BY <2>1, MinOfTwo
  <2>3. QED  BY <2>1, <2>2
<1>7. MintFailed(p) = [p EXCEPT !.streak = Min({p.streak + 1, EmptySolve})]
  BY <1>4 DEF MintFailed, Struct
<1>8. PoolInv(MintFailed(p), chan, taker, spent)
  BY <1>5, <1>6, <1>7
<1>9. PoolInv(p, chan, taker, spent)
  <2>1. p = [p EXCEPT !.streak = p.streak]
    BY <1>4 DEF Struct
  <2>2. QED  BY <1>5, <1>6, <2>1
<1>10. MintFailed(p).inflight = p.inflight
  BY <1>4, <1>7 DEF Struct
<1>11. QED  BY <1>4, <1>5, <1>8, <1>9, <1>10 DEF p, fl

LEMMA FinishInv ==
    ASSUME now \in 0..MaxTime, NEW p, NEW ch, PoolInv(p, ch, taker, spent), FinishMint(p, ch),
           \A x \in Keys : p.inflight[x] <= pool.inflight[x]
    PROVE  TokenInv' /\ NoMore
<1>1. now \in Nat
  OBVIOUS
<1>2. PoolInv(pool', chan', taker, spent) /\ UNCHANGED <<now, taker, spent>>
  BY <1>1, EnsureInv DEF FinishMint
<1>3. TokenInv'
  BY <1>2, StillInv
<1>4. pool'.inflight = p.inflight \/ pool'.waiters # <<>>
  BY <1>1, EnsureStarts DEF FinishMint
<1>5. QED  BY <1>3, <1>4 DEF NoMore

\* A mint that ends leaves no more of them.
LEMMA Fewer ==
    ASSUME TokenInv, NEW k \in Keys, NEW p, p.inflight = [pool.inflight EXCEPT ![k] = @ - 1]
    PROVE  \A x \in Keys : p.inflight[x] <= pool.inflight[x]
<1>1. pool.inflight \in [Keys -> 0..MostFlight] /\ MostFlight \in Nat
  BY MostFlightIs DEF TokenInv, PoolInv, Struct
<1>2. QED  BY <1>1

LEMMA MintTokenInv ==
    ASSUME TokenInv, NEW k \in Keys, NEW c \in Certs, MintToken(k, c) PROVE TokenInv' /\ NoMore
<1> DEFINE tok == [cert |-> c, key |-> k, exp |-> now + TTL, fresh |-> TRUE]
           p0 == MintEnded(k)
           r == Register(p0, {c})
           p == [r EXCEPT !.streak = 0]
<1>1. /\ now \in 0..MaxTime /\ now \in Nat /\ PoolInv(pool, chan, taker, spent)
      /\ pool \in Struct /\ pool.inflight[k] > 0 /\ pool.key = k /\ ~(now < pool.issued[c])
      /\ Sound(pool.buckets, pool.issued, pool.waiters, k, chan, taker, spent)
  BY DEF TokenInv, MintToken, MintCurrent, Registered, PoolInv, SoundPool
<1>2. /\ PoolInv(p0, chan, taker, spent)
      /\ p0.inflight = [pool.inflight EXCEPT ![k] = @ - 1]
      /\ \A f \in {"closed", "active", "solver", "key", "buckets", "issued", "waiters",
                           "streak", "target", "lastTake"} : p0[f] = pool[f]
  BY <1>1, EndedInv
<1> HIDE DEF p0
<1>3. p0 \in Struct /\ Registry(p0.issued) /\ p0.issued = pool.issued /\ p0.waiters = pool.waiters
      /\ p0.buckets = pool.buckets /\ p0.key = k
  BY <1>1, <1>2 DEF PoolInv, SoundPool, Sound
<1>4. /\ r \in Struct /\ Registry(r.issued) /\ (\A x \in Certs : r.issued[x] >= p0.issued[x])
      /\ r.issued[c] = now + TTL + Grace
      /\ \A f \in {"closed", "active", "solver", "key", "buckets", "inflight", "waiters",
                           "streak", "target", "lastTake"} : r[f] = p0[f]
  BY <1>1, <1>3, RegisterIs
<1> HIDE DEF r
<1>5. /\ p \in Struct /\ p.issued = r.issued /\ p.buckets = pool.buckets /\ p.waiters = pool.waiters
      /\ p.key = k /\ p.active = pool.active /\ p.lastTake = pool.lastTake
      /\ p.inflight = p0.inflight
  <2>1. /\ r.buckets = pool.buckets /\ r.waiters = pool.waiters
        /\ r.key = k /\ r.active = pool.active /\ r.lastTake = pool.lastTake
    BY <1>2, <1>3, <1>4
  <2>2. 0 \in 0..EmptySolve
    OBVIOUS
  <2>3. QED  BY <1>4, <2>1, <2>2 DEF Struct
<1>6. MintToken(k, c) =>
        IF pool.waiters = <<>> THEN FinishMint(AppendBucketLocked(p, k, tok), chan)
        ELSE FinishMint([p EXCEPT !.waiters = Tail(@)], [chan EXCEPT ![Head(pool.waiters)] = tok])
  BY DEF MintToken, p, r, p0
<1> HIDE DEF p
<1>7. \A x \in Keys : p.inflight[x] <= pool.inflight[x]
  BY <1>2, <1>5, Fewer
<1>8. tok \in Minted /\ tok.key = k /\ tok.cert = c /\ tok.exp = now + TTL
  BY <1>1 DEF Minted, Tokens
<1> HIDE DEF tok
<1>9. Sound(p.buckets, p.issued, p.waiters, k, chan, taker, spent)
  BY <1>1, <1>3, <1>4, <1>5, RegistrySound
<1>10. Alone(tok, p.buckets, p.issued, chan, spent)
  <2>1. \A x \in Minted : Good(x) /\ pool.issued[x.cert] >= x.exp + Grace => x.cert # c
    <3> SUFFICES ASSUME NEW x \in Minted, Good(x), pool.issued[x.cert] >= x.exp + Grace, x.cert = c
                 PROVE  FALSE
      OBVIOUS
    <3>1. now < x.exp /\ x.exp \in Int /\ pool.issued[c] \in Int
      BY <1>1 DEF Good, Live, Minted, Tokens, Struct
    <3>2. QED  BY <1>1, <3>1
  <2>2. /\ \A t \in Takers : Held(chan, t) => chan[t] \in Minted /\ Good(chan[t])
        /\ \A x \in Keys : \A i \in DOMAIN pool.buckets[x] : pool.buckets[x][i] \in Minted
        /\ \A x \in spent : x \in Minted
    BY <1>1 DEF Sound, Queue, Stock, Held
  <2>3. Absent(c, pool.buckets, chan, spent)
    BY <1>1, <2>1, <2>2 DEF Sound, Backed, Absent
  <2>4. p.issued[c] >= now + TTL + Grace
    BY <1>1, <1>4, <1>5
  <2>5. QED  BY <1>5, <1>8, <2>3, <2>4 DEF Alone
<1>11. PoolInv(p, chan, taker, spent)
  <2>1. (p.active => p.key # None) /\ p.lastTake <= now /\ \A x \in Keys : Len(p.buckets[x]) <= PoolMax
    BY <1>1, <1>5 DEF PoolInv
  <2>2. QED  BY <1>5, <1>9, <2>1 DEF PoolInv, SoundPool
<1>12. CASE pool.waiters = <<>>
  <2>1. /\ PoolInv(AppendBucketLocked(p, k, tok), chan, taker, spent)
        /\ AppendBucketLocked(p, k, tok).inflight = p.inflight
    BY <1>5, <1>8, <1>10, <1>11, AppendInv
  <2>2. QED  BY <1>1, <1>6, <1>7, <1>12, <2>1, FinishInv
<1>13. CASE pool.waiters # <<>>
  <2> DEFINE w == pool.waiters
             h == Head(w)
             w2 == Tail(w)
             q == [p EXCEPT !.waiters = Tail(@)]
             c2 == [chan EXCEPT ![h] = tok]
  <2>1. w \in Seq(Takers) /\ w # <<>> /\ \A i, j \in DOMAIN w : w[i] = w[j] => i = j
    BY <1>1, <1>13 DEF Sound, Queue
  <2>2. h = w[1] /\ 1 \in DOMAIN w /\ h \in Takers
    BY <2>1
  <2>3. w2 \in Seq(Takers) /\ \A i \in DOMAIN w2 : w2[i] = w[i + 1] /\ i + 1 \in DOMAIN w /\ i \in Nat \ {0}
    BY <2>1
  <2>4. \A i \in DOMAIN w2 : w2[i] # h
    BY <2>1, <2>2, <2>3
  <2>5. taker[h] = k /\ k # None /\ chan[h] = None
    BY <1>1, <2>2 DEF Sound, Queue
  <2> HIDE DEF w2, h
  <2>6. Queue(w2, k, chan, taker)
    <3>1. \A i, j \in DOMAIN w2 : w2[i] = w2[j] => i = j
      <4>1. ASSUME NEW i \in DOMAIN w2, NEW j \in DOMAIN w2, w2[i] = w2[j] PROVE i = j
        <5>1. /\ i \in Nat /\ j \in Nat /\ w[i + 1] = w[j + 1]
              /\ i + 1 \in DOMAIN w /\ j + 1 \in DOMAIN w
          BY <2>3, <4>1
        <5>2. i + 1 = j + 1
          BY <2>1, <5>1
        <5>3. QED  BY <5>1, <5>2
      <4>2. QED  BY <4>1
    <3>2. \A i \in DOMAIN w2 : chan[w2[i]] = None /\ taker[w2[i]] = k
      BY <1>1, <2>3 DEF Sound, Queue
    <3>3. QED  BY <1>1, <2>3, <2>5, <3>1, <3>2 DEF Sound, Queue
  <2>7. Sound(p.buckets, p.issued, w2, k, chan, taker, spent)
    BY <1>9, <2>6 DEF Sound
  <2>8. Sound(p.buckets, p.issued, w2, k, c2, taker, spent)
    BY <1>8, <1>10, <2>2, <2>4, <2>5, <2>7, PutSound
  <2>9. /\ q \in Struct /\ q.waiters = w2 /\ q.buckets = p.buckets /\ q.issued = p.issued
        /\ q.key = p.key /\ q.active = p.active /\ q.lastTake = p.lastTake
        /\ q.inflight = p.inflight
    <3>1. q = [p EXCEPT !.waiters = w2]
      BY <1>5 DEF w2, Struct
    <3> HIDE DEF q
    <3>2. QED  BY <1>5, <2>3, <3>1 DEF Struct
  <2> HIDE DEF c2, q
  <2>10. PoolInv(q, c2, taker, spent)
    <3>1. (q.active => q.key # None) /\ q.lastTake <= now /\ \A x \in Keys : Len(q.buckets[x]) <= PoolMax
      BY <1>11, <2>9 DEF PoolInv
    <3>2. QED  BY <1>5, <2>8, <2>9, <3>1 DEF PoolInv, SoundPool
  <2>11. FinishMint(q, c2)
    BY <1>6, <1>13 DEF q, c2, h
  <2>12. QED  BY <1>1, <1>7, <2>9, <2>10, <2>11, FinishInv
<1>14. QED  BY <1>12, <1>13

LEMMA MintDoneInv == ASSUME TokenInv, NEW k \in Keys, MintDone(k) PROVE TokenInv' /\ NoMore
<1>1. now \in 0..MaxTime
  BY DEF TokenInv
<1>2. ASSUME pool.inflight[k] > 0
      PROVE  /\ PoolInv(MintEnded(k), chan, taker, spent)
             /\ PoolInv(MintFailed(MintEnded(k)), chan, taker, spent)
             /\ \A x \in Keys : MintEnded(k).inflight[x] <= pool.inflight[x]
             /\ \A x \in Keys : MintFailed(MintEnded(k)).inflight[x] <= pool.inflight[x]
  <2> DEFINE p == MintEnded(k)
             q == MintFailed(p)
  <2>1. /\ PoolInv(p, chan, taker, spent) /\ PoolInv(q, chan, taker, spent)
        /\ p.inflight = [pool.inflight EXCEPT ![k] = @ - 1] /\ q.inflight = p.inflight
    BY <1>2, EndedInv
  <2> HIDE DEF p, q
  <2>2. \A x \in Keys : p.inflight[x] <= pool.inflight[x]
    BY <2>1, Fewer
  <2>3. QED  BY <2>1, <2>2 DEF p, q
<1>3. CASE MintFail(k)
  BY <1>1, <1>2, <1>3, FinishInv DEF MintFail
<1>4. ASSUME NEW c \in Certs, MintDuplicate(k, c) PROVE TokenInv' /\ NoMore
  BY <1>1, <1>2, <1>4, FinishInv DEF MintDuplicate
<1>5. ASSUME NEW c \in Certs, MintToken(k, c) PROVE TokenInv' /\ NoMore
  BY <1>5, MintTokenInv
<1>6. CASE MintStale(k)
  BY <1>1, <1>2, <1>6, FinishInv DEF MintStale
<1>7. QED  BY <1>3, <1>4, <1>5, <1>6 DEF MintDone

\* The ticks of the background loop.
LEMMA RefillServeInv == ASSUME TokenInv, RefillServe PROVE TokenInv'
<1> DEFINE e == EnsureMintsLocked(PruneLocked(pool), chan)
<1>1. now \in Nat /\ now \in 0..MaxTime /\ PoolInv(pool, chan, taker, spent)
  BY DEF TokenInv
<1>2. pool' = e.p /\ chan' = e.ch /\ UNCHANGED <<now, taker, spent>>
  BY DEF RefillServe
<1>3. PoolInv(PruneLocked(pool), chan, taker, spent)
  BY <1>1, PruneInv
<1>4. PoolInv(e.p, e.ch, taker, spent)
  BY <1>1, <1>3, EnsureInv
<1>5. QED  BY <1>1, <1>2, <1>4, StillInv

LEMMA LevelIs ==
    ASSUME NEW t \in 1..PoolMax, NEW f \in 1..100
    PROVE  Max({1, (t * f + 50) \div 100}) \in 1..PoolMax
<1> DEFINE d == (t * f + 50) \div 100
<1>1. t * f <= t * 100 /\ t * f >= 0 /\ t * f \in Int
  OBVIOUS
<1>2. d \in Int /\ d <= t
  <2> DEFINE x == t * f
  <2>1. x \in Int /\ x >= 0 /\ x <= 100 * t
    BY <1>1
  <2> HIDE DEF x
  <2>2. (x + 50) \div 100 \in Int /\ (x + 50) \div 100 <= t
    BY <2>1
  <2>3. QED  BY <2>2 DEF x
<1> HIDE DEF d
<1>3. Max({1, d}) = IF 1 >= d THEN 1 ELSE d
  BY <1>2, MaxOfTwo
<1>4. QED  BY <1>2, <1>3 DEF d

\* A tick launches no more than fits.
LEMMA NeedIs ==
    ASSUME TokenInv, NEW p \in Struct, p.key \in Keys, NEW f \in Factors
    PROVE  RefillNeed(p, f) \in Nat /\ p.inflight[p.key] + RefillNeed(p, f) <= MostFlight
<1> DEFINE t == IF Idle > IdleShrink THEN 1 ELSE pool.target
           w == WantedTarget(f)
           c == WantedConcurrency(f)
           b == Len(p.buckets[p.key])
           i == p.inflight[p.key]
           m == Max({0, w - b - i})
<1>1. pool \in Struct /\ f \in 1..100
  BY DEF TokenInv, PoolInv
<1>2. b \in Nat /\ i \in Nat /\ i <= MostFlight /\ MostFlight \in Nat /\ PoolMax <= MostFlight
  <2>1. MostFlight \in Nat /\ PoolMax <= MostFlight
    BY MostFlightIs
  <2>2. p.buckets[p.key] \in Seq(Tokens) /\ p.inflight[p.key] \in 0..MostFlight
    BY DEF Struct
  <2>3. QED  BY <2>1, <2>2
<1>3. t \in 1..PoolMax
  BY <1>1 DEF Struct
<1>4. w \in 1..PoolMax
  <2>1. w = Max({1, (t * f + 50) \div 100})
    BY DEF WantedTarget
  <2> HIDE DEF t, w
  <2>2. QED  BY <1>1, <1>3, <2>1, LevelIs
<1>5. c \in Nat
  <2> DEFINE d == (EmptySolve * f + 99) \div 100
  <2>1. d \in Int
    <3>1. EmptySolve * f \in Int
      BY <1>1
    <3>2. QED  BY <3>1
  <2> HIDE DEF d
  <2>2. Max({1, d}) = IF 1 >= d THEN 1 ELSE d
    BY <2>1, MaxOfTwo
  <2>3. QED  BY <2>1, <2>2 DEF WantedConcurrency, d
<1>6. RefillNeed(p, f) = IF Idle > IdleStop THEN 0 ELSE Min({c, m})
  BY DEF RefillNeed
<1> HIDE DEF t, w, c, b, i
<1>7. m = IF 0 >= w - b - i THEN 0 ELSE w - b - i
  BY <1>2, <1>4, MaxOfTwo
<1>8. m \in Nat /\ i + m <= MostFlight
  <2> HIDE DEF m
  <2>1. QED  BY <1>2, <1>4, <1>7
<1> HIDE DEF m
<1>9. Min({c, m}) = IF c <= m THEN c ELSE m
  BY <1>5, <1>8, MinOfTwo
<1>10. Min({c, m}) \in Nat /\ Min({c, m}) <= m
  BY <1>5, <1>8, <1>9
<1>11. RefillNeed(p, f) \in Nat /\ i + RefillNeed(p, f) <= MostFlight
  BY <1>2, <1>6, <1>8, <1>10
<1>12. QED  BY <1>11 DEF i

LEMMA RefillLevelInv ==
    ASSUME TokenInv, NEW f \in Factors, NEW decay \in BOOLEAN, RefillLevel(f, decay) PROVE TokenInv'
<1> DEFINE p == PruneLocked(pool)
           n == RefillNeed(p, f)
           r == LaunchMintsLocked(p, n)
           g == IF decay THEN r.target - 1 ELSE r.target
           q == [r EXCEPT !.target = g]
<1>1. now \in Nat /\ now \in 0..MaxTime /\ PoolInv(pool, chan, taker, spent) /\ pool \in Struct
      /\ pool.key \in Keys /\ (decay => pool.target > PoolMin)
  BY DEF TokenInv, PoolInv, RefillLevel, Servable, Struct
<1>2. UNCHANGED <<now, chan, taker, spent>> /\ pool' = [r EXCEPT !.target = IF decay THEN @ - 1 ELSE @]
  BY DEF RefillLevel
<1>3. /\ PoolInv(p, chan, taker, spent) /\ p \in Struct /\ p.key = pool.key
      /\ p.target = pool.target
  <2>1. /\ PoolInv(p, chan, taker, spent) /\ p.key = pool.key /\ p.target = pool.target
    BY <1>1, PruneInv
  <2>2. QED  BY <2>1 DEF PoolInv
<1> HIDE DEF p
<1>4. n \in Nat /\ p.inflight[p.key] + n <= MostFlight
  BY <1>1, <1>3, NeedIs
<1> HIDE DEF n
<1>5. PoolInv(r, chan, taker, spent) /\ r.target = pool.target
  <2>1. p.key \in Keys
    BY <1>1, <1>3
  <2>2. /\ PoolInv(r, chan, taker, spent)
        /\ \A x \in {"closed", "active", "solver", "key", "buckets", "issued", "waiters",
                           "streak", "target", "lastTake"} : r[x] = p[x]
    BY <1>3, <1>4, <2>1, LaunchInv
  <2> HIDE DEF r
  <2>3. r.target = p.target
    BY <2>2
  <2>4. QED  BY <1>3, <2>2, <2>3
<1>6. r \in Struct
  BY <1>5 DEF PoolInv
<1> HIDE DEF r
<1>7. g \in PoolMin..PoolMax
  BY <1>1, <1>5, <1>6 DEF Struct
<1>8. pool' = q
  BY <1>2, <1>6 DEF Struct
<1> HIDE DEF g
<1>9. /\ q \in Struct /\ q.buckets = r.buckets /\ q.issued = r.issued /\ q.waiters = r.waiters
      /\ q.key = r.key /\ q.active = r.active /\ q.lastTake = r.lastTake
  BY <1>6, <1>7 DEF Struct
<1> HIDE DEF q
<1>10. PoolInv(q, chan, taker, spent)
  <2>1. (q.active => q.key # None) /\ q.lastTake <= now
    BY <1>5, <1>9 DEF PoolInv
  <2>2. QED  BY <1>5, <1>9, <2>1, FieldsInv
<1>11. QED  BY <1>1, <1>2, <1>8, <1>10, StillInv

LEMMA RefillInv == ASSUME TokenInv, Refill PROVE TokenInv'
  BY RefillServeInv, RefillLevelInv DEF Refill

LEMMA WarmInv == ASSUME TokenInv, Warm PROVE TokenInv'
<1> DEFINE p == PruneLocked(pool)
<1>1. now \in Nat /\ now \in 0..MaxTime /\ PoolInv(pool, chan, taker, spent) /\ pool.key \in Keys
  BY DEF TokenInv, PoolInv, Warm, Servable, Struct
<1>2. UNCHANGED <<now, chan, taker, spent>>
      /\ pool' = IF p.buckets[p.key] # <<>> \/ p.inflight[p.key] > 0 THEN p ELSE LaunchMintsLocked(p, 1)
  BY DEF Warm
<1>3. PoolInv(p, chan, taker, spent) /\ p.key = pool.key
  BY <1>1, PruneInv
<1> HIDE DEF p
<1>4. CASE p.buckets[p.key] # <<>> \/ p.inflight[p.key] > 0
  BY <1>1, <1>2, <1>3, <1>4, StillInv
<1>5. CASE ~(p.buckets[p.key] # <<>> \/ p.inflight[p.key] > 0)
  <2>1. p.inflight[p.key] \in 0..MostFlight /\ MostFlight \in Nat /\ 1 <= MostFlight
    BY <1>1, <1>3, MostFlightIs DEF PoolInv, Struct
  <2>2. 1 \in Nat /\ p.inflight[p.key] + 1 <= MostFlight
    BY <1>5, <2>1
  <2>3. PoolInv(LaunchMintsLocked(p, 1), chan, taker, spent)
    BY <1>1, <1>3, <2>2, LaunchInv
  <2>4. QED  BY <1>1, <1>2, <1>5, <2>3, StillInv
<1>6. QED  BY <1>4, <1>5

\* Everything thrown away: tokens on their way to a Take are no longer counted.
Unfreshed(ch) == [t \in Takers |-> IF ch[t] \in {None, Err} THEN ch[t] ELSE [ch[t] EXCEPT !.fresh = FALSE]]

LEMMA ClearedSound ==
    ASSUME NEW bk, NEW iss, NEW w, NEW kf, NEW ch, NEW tk, NEW sp, now \in Nat,
           Sound(bk, iss, w, kf, ch, tk, sp), NEW key2, w = <<>> \/ key2 = kf
    PROVE  Sound(NoBuckets, NoIssued, w, key2, Unfreshed(ch), tk, {})
<1> DEFINE c2 == Unfreshed(ch)
<1>1. ch \in [Takers -> Minted \cup NoTokens] /\ DOMAIN <<>> = {}
  BY DEF Sound, Queue
<1>2. \A t \in Takers : /\ ch[t] \in NoTokens => c2[t] = ch[t]
                        /\ ch[t] \notin NoTokens => c2[t] \in Minted /\ c2[t].key = ch[t].key /\ ~c2[t].fresh
  <2> SUFFICES ASSUME NEW t \in Takers
               PROVE  /\ ch[t] \in NoTokens => c2[t] = ch[t]
                      /\ ch[t] \notin NoTokens => c2[t] \in Minted /\ c2[t].key = ch[t].key /\ ~c2[t].fresh
    OBVIOUS
  <2>1. CASE ch[t] \in NoTokens
    BY <2>1 DEF Unfreshed, NoTokens
  <2>2. CASE ch[t] \notin NoTokens
    <3> DEFINE a == ch[t]
               x == [a EXCEPT !.fresh = FALSE]
    <3>1. a \in Minted /\ c2[t] = x
      BY <1>1, <2>2 DEF Unfreshed, NoTokens
    <3> HIDE DEF a
    <3>2. x \in Minted /\ x.key = a.key /\ x.fresh = FALSE
      BY <3>1 DEF Minted, Tokens
    <3> HIDE DEF x, c2
    <3>3. QED  BY <2>2, <3>1, <3>2 DEF a
  <2>3. QED  BY <2>1, <2>2
<1>3. c2 = [t \in Takers |-> c2[t]]
  BY DEF Unfreshed
<1> HIDE DEF c2
<1>4. \A t \in Takers : (c2[t] \in Minted \cup NoTokens)
  BY <1>1, <1>2
<1>5. \A t \in Takers : ~Held(c2, t)
  BY <1>2 DEF Held, Good
<1>6. \A t \in Takers : c2[t] \notin NoTokens => ch[t] \notin NoTokens /\ c2[t].key = ch[t].key
  BY <1>2
<1>7. \A t \in Takers : c2[t] # None => ch[t] # None
  BY <1>2 DEF NoTokens
<1>8. Stock(NoBuckets, key2) /\ Registry(NoIssued) /\ \A k \in Keys : DOMAIN NoBuckets[k] = {}
  <2>1. <<>> \in Seq(Minted)
    OBVIOUS
  <2>2. QED  BY <1>1, <2>1 DEF Stock, Registry, NoBuckets, NoIssued
<1>9. Queue(w, key2, c2, tk)
  <2>1. /\ w \in Seq(Takers) /\ tk \in [Takers -> Keys \cup {None}]
        /\ \A i, j \in DOMAIN w : w[i] = w[j] => i = j
        /\ \A t \in Takers : ch[t] # None => tk[t] # None
        /\ \A t \in Takers : ch[t] \notin NoTokens => ch[t].key = tk[t]
    BY DEF Sound, Queue
  <2>2. \A i \in DOMAIN w : c2[w[i]] = None /\ tk[w[i]] = key2 /\ key2 # None
    <3>1. \A i \in DOMAIN w : w[i] \in Takers /\ ch[w[i]] = None /\ tk[w[i]] = kf /\ kf # None
      BY DEF Sound, Queue
    <3>2. CASE w = <<>>
      BY <1>1, <3>2
    <3>3. CASE key2 = kf
      BY <1>2, <3>1, <3>3 DEF NoTokens
    <3>4. QED  BY <3>2, <3>3
  <2>3. c2 \in [Takers -> Minted \cup NoTokens]
    BY <1>3, <1>4
  <2>4. \A t \in Takers : c2[t] # None => tk[t] # None
    BY <1>7, <2>1
  <2>5. \A t \in Takers : c2[t] \notin NoTokens => c2[t].key = tk[t]
    BY <1>6, <2>1
  <2>6. QED  BY <2>1, <2>2, <2>3, <2>4, <2>5 DEF Queue
<1>10. Backed(NoBuckets, NoIssued, c2, {}) /\ Apart(NoBuckets, c2, {})
  BY <1>5, <1>8 DEF Backed, Apart
<1>11. QED  BY <1>8, <1>9, <1>10 DEF Sound, c2

\* p with everything thrown away, and key, active and closed set.
LEMMA ClearedInv ==
    ASSUME NEW p, NEW ch, PoolInv(p, ch, taker, spent), now \in 0..MaxTime, now' = now,
           pool' \in Struct, pool'.buckets = NoBuckets, pool'.issued = NoIssued,
           pool'.waiters = p.waiters, p.waiters = <<>> \/ pool'.key = p.key,
           pool'.active => pool'.key # None, pool'.lastTake <= now,
           ClearRegistry(ch), taker' = taker
    PROVE  TokenInv'
<1>1. chan' = Unfreshed(ch) /\ spent' = {} /\ now \in Nat
  BY DEF ClearRegistry, Unfreshed
<1>2. Sound(p.buckets, p.issued, p.waiters, p.key, ch, taker, spent)
  BY DEF PoolInv, SoundPool
<1>3. Sound(NoBuckets, NoIssued, p.waiters, pool'.key, Unfreshed(ch), taker, {})
  BY <1>1, <1>2, ClearedSound
<1>4. \A k \in Keys : Len(pool'.buckets[k]) <= PoolMax
  BY DEF NoBuckets
<1>5. PoolInv(pool', chan', taker', spent')
  BY <1>1, <1>3, <1>4 DEF PoolInv, SoundPool
<1>6. QED  BY <1>5, StillInv

LEMMA EmptyIs == NoBuckets \in [Keys -> Seq(Tokens)] /\ NoIssued \in [Certs -> Nat]
<1>1. <<>> \in Seq(Tokens)
  OBVIOUS
<1>2. QED  BY <1>1 DEF NoBuckets, NoIssued

LEMMA SetConfigInv ==
    ASSUME TokenInv, NEW k \in Keys, NEW enabled \in BOOLEAN, SetConfig(k, enabled) PROVE TokenInv'
<1> DEFINE changed == k # pool.key
           p == IF changed
                THEN [pool EXCEPT !.target = PoolMin, !.lastTake = now, !.streak = 0]
                ELSE pool
           f == FailWaitersLocked(p, chan)
           q == [f.p EXCEPT !.key = k, !.active = enabled, !.buckets = NoBuckets, !.issued = NoIssued]
<1>1. now \in Nat /\ now \in 0..MaxTime /\ PoolInv(pool, chan, taker, spent) /\ pool \in Struct
      /\ k # None /\ pool.lastTake <= now
  BY DEF TokenInv, PoolInv
<1>2. UNCHANGED <<now, taker>>
  BY DEF SetConfig
<1>3. CASE ~(changed \/ ~enabled)
  <2>1. pool' = [pool EXCEPT !.active = TRUE] /\ UNCHANGED <<chan, spent>> /\ pool.key = k
    BY <1>3 DEF SetConfig
  <2>2. /\ pool' \in Struct /\ pool'.buckets = pool.buckets /\ pool'.issued = pool.issued
        /\ pool'.waiters = pool.waiters /\ pool'.key = pool.key /\ pool'.lastTake = pool.lastTake
    BY <1>1, <2>1 DEF Struct
  <2>3. PoolInv(pool', chan, taker, spent)
    BY <1>1, <2>1, <2>2, FieldsInv
  <2>4. QED  BY <1>1, <1>2, <2>1, <2>3, StillInv
<1>4. CASE changed \/ ~enabled
  <2>1. pool' = q /\ ClearRegistry(f.ch)
    BY <1>4 DEF SetConfig
  <2>2. /\ p \in Struct /\ p.buckets = pool.buckets /\ p.issued = pool.issued
        /\ p.waiters = pool.waiters /\ p.key = pool.key /\ p.active = pool.active /\ p.lastTake <= now
    <3>1. CASE changed
      <4> DEFINE r == [pool EXCEPT !.target = PoolMin, !.lastTake = now, !.streak = 0]
      <4>1. PoolMin \in PoolMin..PoolMax /\ 0 \in 0..EmptySolve
        OBVIOUS
      <4>2. /\ r \in Struct /\ r.buckets = pool.buckets /\ r.issued = pool.issued
            /\ r.waiters = pool.waiters /\ r.key = pool.key /\ r.active = pool.active /\ r.lastTake = now
        BY <1>1, <4>1 DEF Struct
      <4>3. p = r
        BY <3>1
      <4> HIDE DEF p, r
      <4>4. QED  BY <1>1, <4>2, <4>3
    <3>2. CASE ~changed
      <4>1. p = pool
        BY <3>2
      <4> HIDE DEF p
      <4>2. QED  BY <1>1, <4>1
    <3>3. QED  BY <3>1, <3>2
  <2> HIDE DEF p
  <2>3. PoolInv(p, chan, taker, spent)
    <3>1. p.active => p.key # None
      BY <1>1, <2>2 DEF PoolInv
    <3>2. QED  BY <1>1, <2>2, <3>1, FieldsInv
  <2>4. PoolInv(f.p, f.ch, taker, spent) /\ f.p = [p EXCEPT !.waiters = <<>>]
    BY <2>3, FailInv
  <2>5. f.p.waiters = <<>> /\ f.p \in Struct /\ f.p.lastTake <= now
    BY <2>2, <2>4 DEF Struct, PoolInv
  <2> DEFINE fp == f.p
             fc == f.ch
  <2>6. /\ PoolInv(fp, fc, taker, spent) /\ fp.waiters = <<>> /\ fp \in Struct /\ fp.lastTake <= now
        /\ q = [fp EXCEPT !.key = k, !.active = enabled, !.buckets = NoBuckets, !.issued = NoIssued]
        /\ ClearRegistry(fc)
    BY <2>1, <2>4, <2>5
  <2> HIDE DEF fp, fc, q, f
  <2>7. /\ q \in Struct /\ q.buckets = NoBuckets /\ q.issued = NoIssued /\ q.waiters = <<>>
        /\ q.key = k /\ q.lastTake <= now
    BY <2>6, EmptyIs DEF Struct
  <2>8. QED  BY <1>1, <1>2, <2>1, <2>6, <2>7, ClearedInv
<1>5. QED  BY <1>3, <1>4

LEMMA SetSolverInv == ASSUME TokenInv, SetSolver PROVE TokenInv'
<1>1. now \in 0..MaxTime /\ PoolInv(pool, chan, taker, spent) /\ pool \in Struct
  BY DEF TokenInv, PoolInv
<1>2. pool' = [pool EXCEPT !.solver = TRUE] /\ UNCHANGED <<now, chan, taker, spent>>
  BY DEF SetSolver
<1>3. /\ pool' \in Struct /\ pool'.buckets = pool.buckets /\ pool'.issued = pool.issued
      /\ pool'.waiters = pool.waiters /\ pool'.key = pool.key /\ pool'.lastTake = pool.lastTake
      /\ pool'.active = pool.active
  BY <1>1, <1>2 DEF Struct
<1>4. PoolInv(pool', chan, taker, spent)
  <2>1. (pool'.active => pool'.key # None) /\ pool'.lastTake <= now
    BY <1>1, <1>3 DEF PoolInv
  <2>2. QED  BY <1>1, <1>3, <2>1, FieldsInv
<1>5. QED  BY <1>1, <1>2, <1>4, StillInv

LEMMA ClearInv == ASSUME TokenInv, Clear PROVE TokenInv'
<1>1. now \in 0..MaxTime /\ PoolInv(pool, chan, taker, spent) /\ pool \in Struct
      /\ (pool.active => pool.key # None) /\ pool.lastTake <= now
  BY DEF TokenInv, PoolInv
<1>2. /\ pool' = [pool EXCEPT !.buckets = NoBuckets, !.issued = NoIssued] /\ UNCHANGED <<now, taker>>
      /\ ClearRegistry(chan)
  BY DEF Clear
<1>3. /\ pool' \in Struct /\ pool'.buckets = NoBuckets /\ pool'.issued = NoIssued
      /\ pool'.waiters = pool.waiters /\ pool'.key = pool.key /\ pool'.lastTake = pool.lastTake
      /\ pool'.active = pool.active
  BY <1>1, <1>2, EmptyIs DEF Struct
<1>4. QED  BY <1>1, <1>2, <1>3, ClearedInv

LEMMA CloseInv == ASSUME TokenInv, Close PROVE TokenInv'
<1> DEFINE f == FailWaitersLocked(pool, chan)
           fp == f.p
           fc == f.ch
<1>1. now \in 0..MaxTime /\ PoolInv(pool, chan, taker, spent) /\ pool \in Struct
  BY DEF TokenInv, PoolInv
<1>2. /\ pool' = [fp EXCEPT !.closed = TRUE, !.active = FALSE, !.buckets = NoBuckets, !.issued = NoIssued]
      /\ ClearRegistry(fc) /\ UNCHANGED <<now, taker>>
  BY DEF Close
<1>3. PoolInv(fp, fc, taker, spent) /\ fp = [pool EXCEPT !.waiters = <<>>]
  BY <1>1, FailInv
<1>4. fp.waiters = <<>> /\ fp \in Struct /\ fp.lastTake <= now
  BY <1>1, <1>3 DEF Struct, PoolInv
<1> HIDE DEF fp, fc
<1>5. /\ pool' \in Struct /\ pool'.buckets = NoBuckets /\ pool'.issued = NoIssued
      /\ pool'.waiters = <<>> /\ pool'.active = FALSE /\ pool'.lastTake <= now
  BY <1>2, <1>4, EmptyIs DEF Struct
<1>6. QED  BY <1>1, <1>2, <1>3, <1>4, <1>5, ClearedInv

LEMMA TickInv == ASSUME TokenInv, Tick PROVE TokenInv'
<1>1. now \in 0..MaxTime /\ PoolInv(pool, chan, taker, spent)
      /\ Sound(pool.buckets, pool.issued, pool.waiters, pool.key, chan, taker, spent)
  BY DEF TokenInv, PoolInv, SoundPool
<1>2. /\ now' = now + 1 /\ now' \in 0..MaxTime /\ UNCHANGED <<pool, chan, taker>>
      /\ spent' \subseteq spent
  BY <1>1 DEF Tick
<1>3. \A x \in Minted : x \in Minted'
  BY <1>1, <1>2 DEF Minted, Tokens
<1>4. \A x \in Minted : Good(x)' => Good(x)
  BY <1>1, <1>2 DEF Good, Live, Minted, Tokens
<1>5. \A s \in Seq(Minted) : s \in Seq(Minted')
  BY <1>3
<1>6. /\ \A k \in Keys : pool.buckets[k] \in Seq(Minted)
      /\ \A k \in Keys : \A i \in DOMAIN pool.buckets[k] : pool.buckets[k][i] \in Minted
      /\ \A t \in Takers : chan[t] \notin NoTokens => chan[t] \in Minted
      /\ \A x \in spent : x \in Minted
  BY <1>1 DEF Sound, Stock, Queue
<1>7. \A t \in Takers : Held(chan, t)' => Held(chan, t)
  BY <1>2, <1>4, <1>6 DEF Held
<1>8. \A k \in Keys : \A i \in DOMAIN pool.buckets[k] : Good(pool.buckets[k][i])' => Good(pool.buckets[k][i])
  BY <1>2, <1>4, <1>6
<1>9. \A x \in spent : Good(x)' => Good(x)
  BY <1>4, <1>6
<1>10. Stock(pool.buckets, pool.key)'
  BY <1>1, <1>2, <1>5 DEF Sound, Stock
<1>11. Registry(pool.issued)' /\ (spent \subseteq Minted)'
  <2>1. Registry(pool.issued)'
    BY <1>1, <1>2 DEF Sound, Registry
  <2>2. (spent \subseteq Minted)'
    BY <1>2, <1>3, <1>6
  <2>3. QED  BY <2>1, <2>2
<1>12. Queue(pool.waiters, pool.key, chan, taker)'
  <2>1. chan \in [Takers -> Minted' \cup NoTokens]
    BY <1>1, <1>3 DEF Sound, Queue
  <2>2. QED  BY <1>1, <1>2, <2>1 DEF Sound, Queue
<1>13. Backed(pool.buckets, pool.issued, chan, spent)'
  BY <1>1, <1>2, <1>7, <1>8, <1>9 DEF Sound, Backed
<1>14. Apart(pool.buckets, chan, spent)'
  BY <1>1, <1>2, <1>7, <1>8, <1>9 DEF Sound, Apart
<1>15. Sound(pool.buckets, pool.issued, pool.waiters, pool.key, chan, taker, spent)'
  BY <1>10, <1>11, <1>12, <1>13, <1>14 DEF Sound
<1>16. pool.lastTake \in Nat
  BY <1>1 DEF PoolInv, Struct
<1>17. QED  BY <1>1, <1>2, <1>15, <1>16 DEF TokenInv, PoolInv, SoundPool

LEMMA TokenStep == ASSUME TokenInv, [Next]_vars PROVE TokenInv'
<1>1. ASSUME NEW t \in Takers, TakerStep(t) PROVE TokenInv'
  <2>1. ASSUME NEW k \in Keys, Take(t, k) PROVE TokenInv'
    BY <2>1, StutterInv, TakeHitInv, TakeEmptyInv DEF Take, TakeRefused
  <2>2. QED  BY <1>1, <2>1, ReceiveInv, CancelInv DEF TakerStep
<1>2. ASSUME NEW k \in Keys, MintDone(k) PROVE TokenInv'
  BY <1>2, MintDoneInv
<1>3. CASE Refill
  BY <1>3, RefillInv
<1>4. CASE Warm
  BY <1>4, WarmInv
<1>5. ASSUME NEW k \in Keys, NEW e \in BOOLEAN, SetConfig(k, e) PROVE TokenInv'
  BY <1>5, SetConfigInv
<1>6. CASE SetSolver
  BY <1>6, SetSolverInv
<1>7. CASE Clear
  BY <1>7, ClearInv
<1>8. CASE Close
  BY <1>8, CloseInv
<1>9. CASE Tick
  BY <1>9, TickInv
<1>10. CASE UNCHANGED vars
  BY <1>10, StutterInv
<1>11. QED  BY <1>1, <1>2, <1>3, <1>4, <1>5, <1>6, <1>7, <1>8, <1>9, <1>10 DEF Next

LEMMA TokenTypes == ASSUME TokenInv PROVE TypeOK
<1>1. /\ now \in 0..MaxTime /\ pool \in Struct /\ pool.lastTake <= now
      /\ Stock(pool.buckets, pool.key) /\ Registry(pool.issued)
      /\ Queue(pool.waiters, pool.key, chan, taker) /\ spent \subseteq Minted
  BY DEF TokenInv, PoolInv, SoundPool, Sound
<1>2. \A x \in Minted : x \in Tokens
  BY DEF Minted
<1>3. \A k \in Keys : \A i \in DOMAIN pool.buckets[k] : pool.buckets[k][i] \in Tokens
  BY <1>1 DEF Struct
<1>4. pool.issued \in [Certs -> 0..(MaxTime + TTL + Grace)]
  BY <1>1 DEF Registry
<1>5. pool.inflight \in [Keys -> Nat]
  BY <1>1, MostFlightIs DEF Struct
<1>6. WaiterSet(pool) \subseteq Takers
  <2>1. \A i \in DOMAIN pool.waiters : pool.waiters[i] \in Takers
    BY <1>1 DEF Queue
  <2>2. QED  BY <2>1 DEF WaiterSet
<1>7. chan \in [Takers -> Tokens \cup {None, Err}] /\ taker \in [Takers -> Keys \cup {None}]
  BY <1>1, <1>2 DEF Queue, NoTokens
<1>8. /\ pool.closed \in BOOLEAN /\ pool.active \in BOOLEAN /\ pool.solver \in BOOLEAN
      /\ pool.key \in Keys \cup {None} /\ pool.streak \in 0..EmptySolve
      /\ pool.target \in PoolMin..PoolMax /\ pool.lastTake \in Nat
  BY <1>1 DEF Struct
<1>9. pool.lastTake \in 0..now
  BY <1>1, <1>8
<1>10. spent \subseteq Tokens
  BY <1>1, <1>2
<1>11. QED  BY <1>1, <1>3, <1>4, <1>5, <1>6, <1>7, <1>8, <1>9, <1>10 DEF TypeOK

LEMMA AtMostOne ==
    ASSUME NEW S, \A x, y \in S : x = y
    PROVE  Cardinality(S) \in 0..1 /\ (S = {} => Cardinality(S) = 0)
<1>1. CASE S = {}
  BY <1>1, FS_EmptySet
<1>2. CASE S # {}
  <2>1. PICK x \in S : S = {x}
    BY <1>2
  <2>2. Cardinality({x}) = 1
    BY FS_Singleton
  <2>3. QED  BY <1>2, <2>1, <2>2
<1>3. QED  BY <1>1, <1>2

LEMMA TokenCopies == ASSUME TokenInv PROVE OneShot
<1> SUFFICES ASSUME NEW c \in Certs PROVE Copies(c) <= 1
  BY DEF OneShot
<1> DEFINE counts(tok) == tok.cert = c /\ tok.fresh /\ Live(tok)
           P(place) == LET b == pool.buckets[place[1]] IN place[2] \in DOMAIN b /\ counts(b[place[2]])
           A == {t \in Takers : chan[t] \notin {None, Err} /\ counts(chan[t])}
           B == {place \in Keys \X (1..PoolMax) : P(place)}
           D == {tok \in spent : counts(tok)}
<1>1. Copies(c) = Cardinality(A) + Cardinality(B) + Cardinality(D)
  BY DEF Copies
<1>2. Stock(pool.buckets, pool.key) /\ Apart(pool.buckets, chan, spent)
  BY DEF TokenInv, PoolInv, SoundPool, Sound
<1>3. \A t \in A : t \in Takers /\ Held(chan, t) /\ chan[t].cert = c
  BY DEF Held, Good, NoTokens
<1>4. \A x \in B : /\ x = <<x[1], x[2]>> /\ x[1] \in Keys /\ x[1] = pool.key
                   /\ x[2] \in DOMAIN pool.buckets[x[1]]
                   /\ Good(pool.buckets[x[1]][x[2]]) /\ pool.buckets[x[1]][x[2]].cert = c
  BY <1>2 DEF Good, Stock
<1>5. \A x \in D : x \in spent /\ Good(x) /\ x.cert = c
  BY DEF Good
<1> HIDE DEF A, B, D
<1>6. \A x, y \in A : x = y
  BY <1>2, <1>3 DEF Apart
<1>7. \A x, y \in B : x = y
  <2> SUFFICES ASSUME NEW x \in B, NEW y \in B PROVE x = y
    OBVIOUS
  <2>1. x[1] = y[1] /\ x[2] = y[2]
    BY <1>2, <1>4 DEF Apart
  <2>2. QED  BY <1>4, <2>1
<1>8. \A x, y \in D : x = y
  BY <1>2, <1>5 DEF Apart
<1>9. (A = {} \/ B = {}) /\ (A = {} \/ D = {}) /\ (B = {} \/ D = {})
  <2>1. ASSUME NEW x \in A, NEW y \in B PROVE FALSE
    BY <1>2, <1>3, <1>4 DEF Apart
  <2>2. ASSUME NEW x \in A, NEW y \in D PROVE FALSE
    BY <1>2, <1>3, <1>5 DEF Apart
  <2>3. ASSUME NEW x \in B, NEW y \in D PROVE FALSE
    BY <1>2, <1>4, <1>5 DEF Apart
  <2>4. QED  BY <2>1, <2>2, <2>3
<1>10. /\ Cardinality(A) \in 0..1 /\ (A = {} => Cardinality(A) = 0)
       /\ Cardinality(B) \in 0..1 /\ (B = {} => Cardinality(B) = 0)
       /\ Cardinality(D) \in 0..1 /\ (D = {} => Cardinality(D) = 0)
  BY <1>6, <1>7, <1>8, AtMostOne
<1>11. QED  BY <1>1, <1>9, <1>10

LEMMA TokenSafety == ASSUME TokenInv PROVE TokensSound
<1>1. NoCrossConfigToken
  BY DEF NoCrossConfigToken, NoTokens, TokenInv, PoolInv, SoundPool, Sound, Stock, Queue
<1>2. BoundedMinting
  <2>1. \A k \in Keys : pool.inflight[k] <= MostFlight /\ Len(pool.buckets[k]) <= PoolMax
    BY MostFlightIs DEF TokenInv, PoolInv, Struct
  <2>2. QED  BY <2>1 DEF BoundedMinting, MostFlight
<1>3. QED  BY <1>1, <1>2, TokenTypes, TokenCopies DEF TokensSound

LEMMA TokenRuns == (RunInit => Init) /\ ([RunNext]_allVars => [Next]_vars)
  BY DEF RunInit, RunNext, allVars, vars, TokenPart, Solver, Worker, Binary, Probe

LEMMA SpecTokenInv == RunSpec => []TokenInv
<1>1. RunInit => TokenInv
  BY TokenRuns, InitTokenInv
<1>2. TokenInv /\ [RunNext]_allVars => TokenInv'
  BY TokenRuns, TokenStep
<1>3. QED  BY <1>1, <1>2, PTL DEF RunSpec

\* Tokens stay with their configuration, none is handed out twice between two clearings
\* of the registry, and the solves in flight and the stock stay bounded (TokenPool).
THEOREM TokensStaySound == RunSpec => []TokensSound
  BY SpecTokenInv, TokenSafety, PTL

(***************************************************************************)
(* Deep idle.                                                              *)
(***************************************************************************)

LEMMA Launches == ASSUME TokenInv, TokenInv', NoMore PROVE DeepIdleLaunch
<1>1. \A k \in Keys : pool.inflight[k] \in Int /\ pool'.inflight[k] \in Int
  <2>1. /\ \A k \in Keys : pool.inflight[k] \in 0..MostFlight
        /\ \A k \in Keys : pool'.inflight[k] \in 0..MostFlight
    BY DEF TokenInv, PoolInv, Struct
  <2>2. QED  BY <2>1, MostFlightIs
<1>2. CASE pool'.waiters # <<>>
  BY <1>2 DEF DeepIdleLaunch
<1>3. CASE \A x \in Keys : pool'.inflight[x] <= pool.inflight[x]
  <2>1. \A k \in Keys : ~(pool'.inflight[k] > pool.inflight[k])
    BY <1>1, <1>3
  <2>2. QED  BY <2>1 DEF DeepIdleLaunch
<1>4. QED  BY <1>2, <1>3 DEF NoMore

LEMMA SameFlight == ASSUME TokenInv, pool'.inflight = pool.inflight PROVE NoMore
  BY TokenTypes DEF TypeOK, NoMore

LEMMA TakerMore == ASSUME TokenInv, NEW t \in Takers, TakerStep(t) PROVE NoMore
<1>1. now \in Nat /\ now \in 0..MaxTime /\ PoolInv(pool, chan, taker, spent) /\ pool \in Struct
  BY DEF TokenInv, PoolInv
<1>2. PruneLocked(pool).inflight = pool.inflight
  BY <1>1, PruneInv
<1>3. ASSUME NEW k \in Keys, TakeRefused(t, k) PROVE NoMore
  BY <1>3, SameFlight DEF TakeRefused, vars
<1>4. ASSUME NEW k \in Keys, TakeHit(t, k) PROVE NoMore
  <2> DEFINE p0 == PruneLocked(pool)
             p == [p0 EXCEPT !.lastTake = now]
  <2>1. /\ PoolInv(p0, chan, taker, spent) /\ p0.key = pool.key /\ p0.inflight = pool.inflight
        /\ \A x \in Keys : \A i \in DOMAIN p0.buckets[x] : Live(p0.buckets[x][i])
    BY <1>1, PruneInv
  <2>2. pool.key = k /\ p.buckets[k] # <<>> /\ pool' = PopLocked(p, 1)
    BY <1>4 DEF TakeHit
  <2> HIDE DEF p0
  <2>3. p0 \in Struct
    BY <2>1 DEF PoolInv
  <2>4. /\ p \in Struct /\ p.buckets = p0.buckets /\ p.issued = p0.issued /\ p.waiters = p0.waiters
        /\ p.key = p0.key /\ p.active = p0.active /\ p.lastTake = now /\ p.inflight = p0.inflight
    BY <1>1, <2>3 DEF Struct
  <2> HIDE DEF p
  <2>5. PoolInv(p, chan, taker, spent)
    <3>1. (p.active => p.key # None) /\ p.lastTake <= now
      BY <1>1, <2>1, <2>4 DEF PoolInv
    <3>2. QED  BY <2>1, <2>4, <3>1, FieldsInv
  <2>6. /\ p.key \in Keys /\ p.buckets[p.key] # <<>>
        /\ \A i \in DOMAIN p.buckets[p.key] : Live(p.buckets[p.key][i])
    BY <2>1, <2>2, <2>4
  <2>7. PopLocked(p, 1).inflight = p.inflight
    BY <1>1, <2>5, <2>6, PopInv
  <2>8. QED  BY <2>1, <2>2, <2>4, <2>7, SameFlight
<1>5. ASSUME NEW k \in Keys, TakeEmpty(t, k) PROVE NoMore
  BY <1>5, TakeEmptyInv
<1>6. CASE Receive(t)
  BY <1>2, <1>6, SameFlight DEF Receive
<1>7. CASE Cancel(t)
  <2> DEFINE quit == [pool EXCEPT !.waiters = RemoveAt(@, CHOOSE i \in DOMAIN @ : @[i] = t)]
             back == AppendBucketLocked(pool, pool.key, chan[t])
  <2>1. \E p \in {quit, back, pool} : pool' = PruneLocked(p)
    BY <1>7 DEF Cancel
  <2>2. quit.inflight = pool.inflight /\ back.inflight = pool.inflight
    BY <1>1 DEF AppendBucketLocked, Struct
  <2>3. "inflight" \in DOMAIN quit /\ "inflight" \in DOMAIN back /\ "inflight" \in DOMAIN pool
    BY <1>1 DEF AppendBucketLocked, Struct
  <2> HIDE DEF quit, back
  <2>4. \A p \in {quit, back, pool} : PruneLocked(p).inflight = p.inflight
    BY <2>3 DEF PruneLocked
  <2>5. QED  BY <2>1, <2>2, <2>4, SameFlight
<1>8. QED  BY <1>3, <1>4, <1>5, <1>6, <1>7 DEF TakerStep, Take

LEMMA TickMore == ASSUME TokenInv, TokenInv', Refill PROVE DeepIdleLaunch
<1>1. CASE RefillServe
  BY <1>1 DEF RefillServe, DeepIdleLaunch
<1>2. ASSUME NEW f \in Factors, NEW decay \in BOOLEAN, RefillLevel(f, decay) PROVE DeepIdleLaunch
  <2> DEFINE p == PruneLocked(pool)
             n == RefillNeed(p, f)
             r == LaunchMintsLocked(p, n)
  <2>1. pool \in Struct /\ now \in Nat /\ pool.key \in Keys /\ PoolInv(pool, chan, taker, spent)
    <3>1. now \in Nat /\ PoolInv(pool, chan, taker, spent) /\ Servable(pool)
      BY <1>2 DEF TokenInv, RefillLevel
    <3>2. QED  BY <3>1 DEF PoolInv, Servable, Struct
  <2>2. pool' = [r EXCEPT !.target = IF decay THEN @ - 1 ELSE @]
    BY <1>2 DEF RefillLevel
  <2>3. p.inflight = pool.inflight /\ p.key = pool.key /\ PoolInv(p, chan, taker, spent)
    BY <2>1, PruneInv
  <2>4. p \in Struct
    BY <2>3 DEF PoolInv
  <2>5. CASE Idle <= IdleStop
    BY <2>5 DEF DeepIdleLaunch
  <2>6. CASE ~(Idle <= IdleStop)
    <3>1. Idle > IdleStop
      BY <2>1, <2>6 DEF Idle, Struct
    <3>2. n = 0
      BY <3>1 DEF RefillNeed
    <3> HIDE DEF n, p
    <3>3. \A k \in Keys : pool.inflight[k] \in Int
      BY <2>1, MostFlightIs DEF Struct
    <3>4. r.inflight = [p.inflight EXCEPT ![p.key] = @ + n]
      BY <2>4 DEF LaunchMintsLocked, Struct
    <3>5. "inflight" \in DOMAIN r
      BY <2>4 DEF LaunchMintsLocked, Struct
    <3> HIDE DEF r
    <3>6. pool'.inflight = r.inflight
      BY <2>2, <3>5
    <3>7. pool.inflight \in [Keys -> 0..MostFlight]
      BY <2>1 DEF Struct
    <3>8. \A k \in Keys : pool'.inflight[k] = pool.inflight[k]
      BY <2>1, <2>3, <3>2, <3>3, <3>4, <3>6, <3>7
    <3>9. NoMore
      BY <3>3, <3>8 DEF NoMore
    <3>10. QED  BY <3>9, Launches
  <2>7. QED  BY <2>5, <2>6
<1>3. QED  BY <1>1, <1>2 DEF Refill

LEMMA AdminMore ==
    ASSUME TokenInv,
           \/ \E k \in Keys, e \in BOOLEAN : SetConfig(k, e)
           \/ SetSolver \/ Clear \/ Close \/ Tick \/ UNCHANGED vars
    PROVE  NoMore
<1>1. pool \in Struct
  BY DEF TokenInv, PoolInv
<1>2. ASSUME NEW k \in Keys, NEW e \in BOOLEAN, SetConfig(k, e) PROVE pool'.inflight = pool.inflight
  <2> DEFINE p == IF k # pool.key
                  THEN [pool EXCEPT !.target = PoolMin, !.lastTake = now, !.streak = 0] ELSE pool
             f == FailWaitersLocked(p, chan).p
  <2>1. p.inflight = pool.inflight /\ "inflight" \in DOMAIN p
    BY <1>1 DEF Struct
  <2>2. \/ pool' = [f EXCEPT !.key = k, !.active = e, !.buckets = NoBuckets, !.issued = NoIssued]
        \/ pool' = [pool EXCEPT !.active = TRUE]
    BY <1>2 DEF SetConfig
  <2> HIDE DEF p
  <2>3. f.inflight = pool.inflight /\ "inflight" \in DOMAIN f /\ "inflight" \in DOMAIN pool
    BY <1>1, <2>1 DEF FailWaitersLocked, Struct
  <2> HIDE DEF f
  <2>4. QED  BY <2>2, <2>3
<1>3. CASE SetSolver \/ Clear
  BY <1>1, <1>3, SameFlight DEF SetSolver, Clear, Struct
<1>4. CASE Close
  <2> DEFINE f == FailWaitersLocked(pool, chan).p
  <2>1. f.inflight = pool.inflight /\ "inflight" \in DOMAIN f
    BY <1>1 DEF FailWaitersLocked, Struct
  <2>2. pool' = [f EXCEPT !.closed = TRUE, !.active = FALSE, !.buckets = NoBuckets, !.issued = NoIssued]
    BY <1>4 DEF Close
  <2> HIDE DEF f
  <2>3. QED  BY <2>1, <2>2, SameFlight
<1>5. CASE Tick \/ UNCHANGED vars
  BY <1>5, SameFlight DEF Tick, vars
<1>6. QED  BY <1>2, <1>3, <1>4, <1>5, SameFlight

LEMMA DeepIdleStep == ASSUME TokenInv, [Next]_vars PROVE [DeepIdleLaunch]_vars
<1>1. TokenInv'
  BY TokenStep
<1>2. ASSUME NEW t \in Takers, TakerStep(t) PROVE NoMore
  BY <1>2, TakerMore
<1>3. ASSUME NEW k \in Keys, MintDone(k) PROVE NoMore
  BY <1>3, MintDoneInv
<1>4. CASE Refill
  BY <1>1, <1>4, TickMore
<1>5. CASE Warm
  BY <1>5 DEF DeepIdleLaunch
<1>6. QED  BY <1>1, <1>2, <1>3, <1>4, <1>5, AdminMore, Launches DEF Next

\* In deep idle no solve starts unless a request waits or Warm asked for it (TokenPool).
THEOREM IdlePoolRests == RunSpec => DeepIdleStopsMinting
<1>1. TokenInv /\ [RunNext]_allVars => [DeepIdleLaunch]_vars
  BY TokenRuns, DeepIdleStep
<1>2. QED  BY <1>1, SpecTokenInv, PTL DEF RunSpec, DeepIdleStopsMinting

(***************************************************************************)
(* The model probe: what ModelProbeProof says of each instance.            *)
(***************************************************************************)

ProbesInv ==
    /\ focus = "diagnosis" => M1!ProbeInv
    /\ focus = "resumed" => M4!ProbeInv
    /\ focus = "evidence" => M2!ProbeInv
    /\ focus = "sharing" => M3!ProbeInv

LEMMA ProbesTerms ==
    ASSUME IsFiniteSet(Takers)
    PROVE  M1!ProbeTerms /\ M2!ProbeTerms /\ M3!ProbeTerms /\ M4!ProbeTerms
<1>1. /\ "direct" \notin ProbeLines /\ "free" \notin ProbeLines /\ "direct" # "free"
      /\ ProbeRank \in [ProbeLines -> Nat]
      /\ \A x, y \in ProbeLines : ProbeRank[x] = ProbeRank[y] => x = y
  BY DEF ProbeLines, ProbeRank
<1>2. /\ M1!IsFiniteSet(Takers) /\ M2!IsFiniteSet(Takers)
      /\ M3!IsFiniteSet(Takers) /\ M4!IsFiniteSet(Takers)
  BY DEF IsFiniteSet, M1!IsFiniteSet, M2!IsFiniteSet, M3!IsFiniteSet, M4!IsFiniteSet
<1>3. M1!ProbeTerms
  BY <1>1, <1>2 DEF M1!ProbeTerms, M1!Free
<1>4. M2!ProbeTerms
  BY <1>1, <1>2 DEF M2!ProbeTerms, M2!Free
<1>5. M3!ProbeTerms
  BY <1>1, <1>2 DEF M3!ProbeTerms, M3!Free
<1>6. M4!ProbeTerms
  BY <1>1, <1>2 DEF M4!ProbeTerms, M4!Free
<1>7. QED  BY <1>3, <1>4, <1>5, <1>6

\* A step of the run is one of the instance that moves, and of no other.
LEMMA ProbeRuns ==
    ASSUME [RunNext]_allVars
    PROVE  /\ focus' = focus
           /\ focus = "diagnosis" => [M1!Next]_M1!vars
           /\ focus = "resumed" => [M4!Next]_M4!vars
           /\ focus = "evidence" => [M2!Next]_M2!vars
           /\ focus = "sharing" => [M3!Next]_M3!vars
           /\ focus \notin {"diagnosis", "resumed", "evidence", "sharing"} => gone' = gone
  BY DEF RunNext, allVars, mpVars, M1!vars, M2!vars, M3!vars, M4!vars,
         TokenPart, Solver, Worker, Binary, Probe

LEMMA ProbesStep ==
    ASSUME IsFiniteSet(Takers), ProbesInv, [RunNext]_allVars
    PROVE  ProbesInv'
<1>1. CASE focus = "diagnosis"
  BY <1>1, ProbesTerms, ProbeRuns, M1!NextProbe DEF ProbesInv
<1>2. CASE focus = "resumed"
  BY <1>2, ProbesTerms, ProbeRuns, M4!NextProbe DEF ProbesInv
<1>3. CASE focus = "evidence"
  BY <1>3, ProbesTerms, ProbeRuns, M2!NextProbe DEF ProbesInv
<1>4. CASE focus = "sharing"
  BY <1>4, ProbesTerms, ProbeRuns, M3!NextProbe DEF ProbesInv
<1>5. QED  BY <1>1, <1>2, <1>3, <1>4, ProbeRuns DEF ProbesInv

LEMMA InitProbes == ASSUME IsFiniteSet(Takers), RunInit PROVE ProbesInv
<1>1. /\ focus = "diagnosis" => M1!Init
      /\ focus = "resumed" => M4!Init
      /\ focus = "evidence" => M2!Init
      /\ focus = "sharing" => M3!Init
  BY DEF RunInit
<1>2. QED
  BY <1>1, ProbesTerms, M1!InitProbe, M2!InitProbe, M3!InitProbe, M4!InitProbe DEF ProbesInv

LEMMA ProbesRetire ==
    ASSUME IsFiniteSet(Takers), ProbesInv, [RunNext]_allVars, NEW l \in gone' \ gone
    PROVE  M1!Guilty(l)
<1>1. CASE focus = "diagnosis"
  BY <1>1, ProbesTerms, ProbeRuns, M1!RetireStep DEF ProbesInv
<1>2. CASE focus = "resumed"
  <2>1. M4!Guilty(l)
    BY <1>2, ProbesTerms, ProbeRuns, M4!RetireStep DEF ProbesInv
  <2>2. QED  BY <2>1 DEF M1!Guilty, M4!Guilty
<1>3. CASE focus = "evidence"
  <2>1. M2!Guilty(l)
    BY <1>3, ProbesTerms, ProbeRuns, M2!RetireStep DEF ProbesInv
  <2>2. QED  BY <2>1 DEF M1!Guilty, M2!Guilty
<1>4. CASE focus = "sharing"
  <2>1. M3!Guilty(l)
    BY <1>4, ProbesTerms, ProbeRuns, M3!RetireStep DEF ProbesInv
  <2>2. QED  BY <2>1 DEF M1!Guilty, M3!Guilty
<1>5. CASE focus \notin {"diagnosis", "resumed", "evidence", "sharing"}
  BY <1>5, ProbeRuns
<1>6. QED  BY <1>1, <1>2, <1>3, <1>4, <1>5

LEMMA ProbesTyped ==
    ASSUME IsFiniteSet(Takers), ProbesInv
    PROVE  /\ focus = "diagnosis" => M1!TypeOK
           /\ focus = "resumed" => M4!TypeOK
           /\ focus = "evidence" => M2!TypeOK /\ M2!OneAtATime
           /\ focus = "sharing" => M3!TypeOK /\ M3!OneAtATime
  BY ProbesTerms, M1!ProbeInvTyped, M2!ProbeInvTyped, M3!ProbeInvTyped, M4!ProbeInvTyped DEF ProbesInv

\* In the composed run too a line is retired only on proof that stands, and two requests of
\* the inspection share neither an account nor an address (ModelProbe).
THEOREM ProbesFair == ASSUME IsFiniteSet(Takers) PROVE RunSpec => ProbedFairly
<1>1. RunInit => ProbesInv
  BY InitProbes
<1>2. ProbesInv /\ [RunNext]_allVars => ProbesInv'
  BY ProbesStep
<1>3. ProbesInv => /\ focus = "diagnosis" => M1!TypeOK
                   /\ focus = "resumed" => M4!TypeOK
                   /\ focus = "evidence" => M2!TypeOK /\ M2!OneAtATime
                   /\ focus = "sharing" => M3!TypeOK /\ M3!OneAtATime
  BY ProbesTyped
<1>4. ProbesInv /\ [RunNext]_allVars => [\A l \in gone' \ gone : M1!Guilty(l)]_M1!vars
  BY ProbesRetire
<1>5. QED  BY <1>1, <1>2, <1>3, <1>4, PTL DEF RunSpec, ProbedFairly, M1!RetiredOnProof
===============================================================================
