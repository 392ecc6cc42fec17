---------------------------- MODULE StrictProxy ----------------------------
(* The strict retirement of a proxy line (internal/store/proxy_retirement.go,   *)
(* proxy_recovery.go, proxy_strict.go, proxy_strict_transactions.go).          *)
(*                                                                             *)
(* A line that the strict rule condemns is closed at once in memory, then its  *)
(* intention is written to a journal file, then one SQLite transaction removes *)
(* its profiles and marks the block "removed", then the journal is rewritten.  *)
(* Either medium may refuse a write and the process may die between any two of *)
(* them; a start merges the journal into what the database says.  A failed     *)
(* transaction is retried by one goroutine, three times.  An administrator may *)
(* lift a removed block.  All of it happens under the store's mutex: op says    *)
(* who holds it and what is left of the operation.                             *)
EXTENDS Naturals, FiniteSets

CONSTANTS
    Lines,          \* routing identities of the proxy lines
    MaxFaults,      \* bound: refused writes and crashes of a behaviour
    MaxDecisions,   \* bound: decisions of the strict rule
    MaxLeases       \* bound: dispatch permits held at a time

Nothing == "none"
Retiring == "retiring"
Removed == "removed"
BlockStates == {Nothing, Retiring, Removed}
Retries == 3    \* the backoffs of scheduleStrictProxyRecoveryLocked: 1 s, 5 s, 30 s

VARIABLES
    up,         \* the process has loaded its state and serves
    blocks,     \* strictProxy.Blocks
    paused,     \* strictProxy.Paused: no proxy is admitted at all
    profiles,   \* the lines that have a profile
    db,         \* what the database holds: [blocks, paused, profiles]
    journal,    \* what the journal file holds
    op,         \* the operation that holds the mutex: [at, by, line]
    retry,      \* the recovery goroutine: [at, left]
    leases,     \* strictDispatch
    force,      \* history: the decision in force for the line
    owed,       \* history: a failed transaction no recovery attempt has seen
    faults, decisions

lock == <<op, retry>>
mem == <<blocks, paused, profiles>>
vars == <<up, mem, db, journal, lock, leases, force, owed, faults, decisions>>

Idle == [at |-> "idle", by |-> Nothing, line |-> Nothing]
NoRetry == [at |-> Nothing, left |-> 0]
Unblocked == [l \in Lines |-> Nothing]

TypeOK ==
    /\ up \in BOOLEAN /\ paused \in BOOLEAN /\ owed \in BOOLEAN
    /\ blocks \in [Lines -> BlockStates] /\ journal \in [Lines -> BlockStates]
    /\ profiles \subseteq Lines
    /\ db \in [blocks : [Lines -> BlockStates], paused : BOOLEAN, profiles : SUBSET Lines]
    /\ op \in [at : {"idle", "commit", "rewrite", "lifted", "unpause", "unpaused", "sweep"},
               by : {Nothing, "decision", "retry", "admin", "load"}, line : Lines \cup {Nothing}]
    /\ retry \in [at : {Nothing, "wait", "attempt", "ending"}, left : 0 .. Retries]
    /\ leases \in [Lines -> 0 .. MaxLeases]
    /\ force \in [Lines -> {Nothing, "process", "durable"}]
    /\ faults \in 0 .. MaxFaults /\ decisions \in 0 .. MaxDecisions

Init ==
    /\ up = TRUE /\ blocks = Unblocked /\ paused = FALSE /\ profiles = Lines
    /\ db = [blocks |-> Unblocked, paused |-> FALSE, profiles |-> Lines]
    /\ journal = Unblocked
    /\ op = Idle /\ retry = NoRetry
    /\ leases = [l \in Lines |-> 0] /\ force = Unblocked /\ owed = FALSE
    /\ faults = 0 /\ decisions = 0

--------------------------------------------------------------------------
(* The two media.  writeStrictJournalLocked replaces the file atomically, a     *)
(* SQLite transaction commits or leaves the database alone.                    *)

Fault == faults < MaxFaults /\ faults' = faults + 1
Works == UNCHANGED faults

Memory(b, p, q) == blocks' = b /\ paused' = p /\ profiles' = q

\* commitProxyBundleStrictLocked: the whole strict state and the profiles are
\* committed first and published to memory after.
Committed(b, p, q) ==
    /\ db' = [blocks |-> b, paused |-> p, profiles |-> q]
    /\ Memory(b, p, q)

\* What a written medium makes of the decisions in memory: they survive a crash.
Durable(b) == [l \in Lines |-> IF b[l] # Nothing THEN "durable" ELSE force[l]]

To(at) == op' = [op EXCEPT !.at = at]

\* scheduleStrictProxyRecoveryLocked: one recovery goroutine at a time.
Schedule ==
    /\ owed' = TRUE
    /\ retry' = IF retry.at = Nothing THEN [at |-> "wait", left |-> Retries] ELSE retry

--------------------------------------------------------------------------
(* A decision: startStrictRetirementLocked.                                    *)

DecideWritten(l) ==
    /\ Works
    /\ journal' = [blocks EXCEPT ![l] = Retiring]
    /\ force' = [force EXCEPT ![l] = "durable"]
    /\ op' = [at |-> "commit", by |-> "decision", line |-> l]
    /\ UNCHANGED <<paused, profiles, db, retry, owed>>

\* The journal cannot be written: no proxy is admitted any more, and the database
\* is asked to remember the intention instead.
DecideUnwritten(l) ==
    /\ Fault
    /\ Schedule
    /\ \/ /\ Committed(blocks', TRUE, profiles)
          /\ force' = [k \in Lines |-> IF blocks'[k] # Nothing THEN "durable" ELSE force[k]]
       \/ /\ paused' = TRUE
          /\ force' = [force EXCEPT ![l] = "process"]
          /\ UNCHANGED <<profiles, db>>
    /\ UNCHANGED <<journal, op>>

Decide(l) ==
    /\ up /\ op = Idle /\ decisions < MaxDecisions
    /\ blocks[l] = Nothing
    /\ decisions' = decisions + 1
    /\ blocks' = [blocks EXCEPT ![l] = Retiring]
    /\ DecideWritten(l) \/ DecideUnwritten(l)
    /\ UNCHANGED <<up, leases>>

--------------------------------------------------------------------------
(* The transaction: retireStrictIdentityLocked.                                *)

\* How an operation ends that could not be carried through.
Failed ==
    \/ /\ op.by = "decision"
       /\ op' = Idle /\ Schedule /\ UNCHANGED up
    \/ /\ op.by = "retry"
       /\ op' = Idle
       /\ retry' = [at |-> IF retry.left > 1 THEN "wait" ELSE "ending", left |-> retry.left - 1]
       /\ UNCHANGED <<up, owed>>
    \/ /\ op.by \in {"admin", "load"}
       /\ op' = Idle /\ UNCHANGED <<up, retry, owed>>

RetireCommit ==
    /\ op.at = "commit"
    /\ \/ /\ Works
          /\ Committed([blocks EXCEPT ![op.line] = Removed], paused, profiles \ {op.line})
          /\ force' = Durable(blocks)
          /\ To("rewrite") /\ UNCHANGED <<up, retry, owed>>
       \/ Fault /\ Failed /\ UNCHANGED <<mem, db, force>>
    /\ UNCHANGED <<journal, leases, decisions>>

\* The journal is brought up to the database.
RetireRewrite ==
    /\ op.at = "rewrite"
    /\ \/ /\ Works
          /\ journal' = blocks
          /\ force' = Durable(blocks)
          /\ IF op.by = "decision" THEN op' = Idle ELSE op' = [op EXCEPT !.at = "sweep", !.line = Nothing]
          /\ UNCHANGED <<up, retry, owed>>
       \/ Fault /\ Failed /\ UNCHANGED <<journal, force>>
    /\ UNCHANGED <<mem, db, leases, decisions>>

--------------------------------------------------------------------------
(* RecoverStrictProxyRetirements: by the goroutine, by an administrator, and    *)
(* at the end of load.                                                         *)

Recovering(by) == [at |-> IF paused THEN "unpause" ELSE "sweep", by |-> by, line |-> Nothing]

Attempt ==
    /\ up /\ op = Idle /\ retry.at = "wait"
    /\ op' = Recovering("retry")
    /\ retry' = [retry EXCEPT !.at = "attempt"]
    /\ owed' = FALSE
    /\ UNCHANGED <<up, mem, db, journal, leases, force, faults, decisions>>

AdminRecovers ==
    /\ up /\ op = Idle
    /\ paused \/ \E l \in Lines : blocks[l] = Retiring
    /\ op' = Recovering("admin")
    /\ UNCHANGED <<up, mem, db, journal, retry, leases, force, owed, faults, decisions>>

Unpause ==
    /\ op.at = "unpause"
    /\ \/ /\ Works
          /\ journal' = blocks /\ force' = Durable(blocks)
          /\ To("unpaused") /\ UNCHANGED <<up, retry, owed>>
       \/ Fault /\ Failed /\ UNCHANGED <<journal, force>>
    /\ UNCHANGED <<mem, db, leases, decisions>>

Unpaused ==
    /\ op.at = "unpaused"
    /\ \/ /\ Works
          /\ Committed(blocks, FALSE, profiles)
          /\ force' = Durable(blocks)
          /\ To("sweep") /\ UNCHANGED <<up, retry, owed>>
       \/ Fault /\ Failed /\ UNCHANGED <<mem, db, force>>
    /\ UNCHANGED <<journal, leases, decisions>>

\* The next line that is still retiring, or the end of the recovery.
Sweep ==
    /\ op.at = "sweep"
    /\ \/ \E l \in Lines :
            /\ blocks[l] = Retiring
            /\ op' = [op EXCEPT !.at = "commit", !.line = l]
            /\ UNCHANGED <<up, retry>>
       \/ /\ \A l \in Lines : blocks[l] # Retiring
          /\ op' = Idle
          /\ up' = TRUE
          /\ retry' = IF op.by = "retry" THEN [retry EXCEPT !.at = "ending"] ELSE retry
    /\ UNCHANGED <<mem, db, journal, leases, force, owed, faults, decisions>>

\* The deferred function of the goroutine takes the mutex again to clear
\* strictRetryCancel.
RetryEnds ==
    /\ up /\ op = Idle /\ retry.at = "ending"
    /\ retry' = NoRetry
    /\ UNCHANGED <<up, mem, db, journal, op, leases, force, owed, faults, decisions>>

--------------------------------------------------------------------------
(* UnblockStrictProxy: the journal first, the database next; when the database  *)
(* refuses, the journal is put back.                                           *)

Unblock(l) ==
    /\ up /\ op = Idle
    /\ blocks[l] = Removed
    /\ \/ /\ Works
          /\ journal' = [blocks EXCEPT ![l] = Nothing]
          /\ op' = [at |-> "lifted", by |-> "admin", line |-> l]
       \/ Fault /\ UNCHANGED <<journal, op>>
    /\ UNCHANGED <<up, mem, db, retry, leases, force, owed, decisions>>

Lift ==
    /\ op.at = "lifted"
    /\ op' = Idle
    /\ \/ /\ Works
          /\ Committed([blocks EXCEPT ![op.line] = Nothing], paused, profiles)
          /\ force' = [force EXCEPT ![op.line] = Nothing]
          /\ UNCHANGED journal
       \/ /\ Fault
          /\ journal' \in {blocks, journal}
          /\ UNCHANGED <<mem, db, force>>
    /\ UNCHANGED <<up, retry, leases, owed, decisions>>

--------------------------------------------------------------------------
(* Traffic, configuration, and the end of the process.                         *)

\* Mutant: a line is closed once it is removed.
ClosedRemoved(l) == blocks[l] = Removed \/ paused
\* strictProxyBlockedLocked
Closed(l) == blocks[l] # Nothing \/ paused

Acquire(l) ==
    /\ up /\ op = Idle
    /\ l \in profiles /\ ~Closed(l)
    /\ leases[l] < MaxLeases
    /\ leases' = [leases EXCEPT ![l] = @ + 1]
    /\ UNCHANGED <<up, mem, db, journal, lock, force, owed, faults, decisions>>

Release(l) ==
    /\ up /\ op = Idle
    /\ leases[l] > 0
    /\ leases' = [leases EXCEPT ![l] = @ - 1]
    /\ UNCHANGED <<up, mem, db, journal, lock, force, owed, faults, decisions>>

\* AddProxyProfile: a commit of the configuration carries the strict state along.
AddProfile(l) ==
    /\ up /\ op = Idle
    /\ l \notin profiles /\ ~Closed(l)
    /\ Works
    /\ Committed(blocks, paused, profiles \cup {l})
    /\ force' = Durable(blocks)
    /\ UNCHANGED <<up, journal, lock, leases, owed, decisions>>

\* Any other commit of the configuration, such as an edit of a line.
Configure ==
    /\ up /\ op = Idle
    /\ Works
    /\ Committed(blocks, paused, profiles)
    /\ force' = Durable(blocks)
    /\ UNCHANGED <<up, journal, lock, leases, owed, decisions>>

Crash ==
    /\ faults < MaxFaults /\ faults' = faults + 1
    /\ up' = FALSE /\ op' = Idle /\ retry' = NoRetry /\ owed' = FALSE
    /\ Memory(Unblocked, FALSE, {})
    /\ leases' = [l \in Lines |-> 0]
    /\ force' = [l \in Lines |-> IF force[l] = "process" THEN Nothing ELSE force[l]]
    /\ UNCHANGED <<db, journal, decisions>>

\* Mutant: the database alone is read.
MergedDatabase == db.blocks
\* loadStrictProxy: a block the database does not have comes from the journal.
Merged == [l \in Lines |-> IF db.blocks[l] # Nothing THEN db.blocks[l] ELSE journal[l]]

Start ==
    /\ ~up /\ op = Idle
    /\ Memory(Merged, db.paused, db.profiles)
    /\ op' = [at |-> IF db.paused THEN "unpause" ELSE "sweep", by |-> "load", line |-> Nothing]
    /\ UNCHANGED <<up, db, journal, retry, leases, force, owed, faults, decisions>>

Next ==
    \/ \E l \in Lines : Decide(l)
    \/ RetireCommit \/ RetireRewrite
    \/ Attempt \/ AdminRecovers \/ Unpause \/ Unpaused \/ Sweep \/ RetryEnds
    \/ \E l \in Lines : Unblock(l)
    \/ Lift
    \/ \E l \in Lines : Acquire(l)
    \/ \E l \in Lines : Release(l)
    \/ \E l \in Lines : AddProfile(l)
    \/ Configure
    \/ Crash \/ Start

Spec == Init /\ [][Next]_vars

--------------------------------------------------------------------------

(* What a running process holds closed is what was decided and not lifted: a    *)
(* decision that reached the journal or the database is in force after every    *)
(* crash and every refused write, a lifted block does not come back, and a line *)
(* that is out has no profile (loadStrictProxy, UnblockStrictProxy,            *)
(* retireStrictIdentityLocked).                                                *)
DecisionStands ==
    up /\ op = Idle =>
        \A l \in Lines :
            /\ (blocks[l] # Nothing) <=> (force[l] # Nothing)
            /\ blocks[l] = Removed => l \notin profiles

(* No dispatch permit is given on a line while a decision against it is in      *)
(* force, whatever the media did to the decision (acquireProxyDispatchLocked    *)
(* against startStrictRetirementLocked).                                       *)
NoTrafficAfterDecision ==
    [][\A l \in Lines : leases'[l] > leases[l] => force[l] = Nothing]_vars

(* A failed strict transaction is retried: the goroutine that will retry it is  *)
(* waiting for its next backoff (proxy_recovery.go: three bounded backoffs,     *)
(* then the closed state is kept until an explicit recovery or a restart).     *)
EveryFailureRetried ==
    up /\ op = Idle /\ owed => retry.at = "wait"
=============================================================================
