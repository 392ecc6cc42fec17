---------------------------- MODULE LineQuarantine ----------------------------
(***************************************************************************)
(* Lines that the upstream refuses with 405 (internal/store/line405.go).    *)
(*                                                                         *)
(* Every answer of a request that went out over a proxy line is recorded    *)
(* against that line; enough 405s in a row put the line into quarantine,    *)
(* longer each time.  A success, or a model probe that finds the line       *)
(* healthy, clears its record; a probe that fails may retire it.  Requests  *)
(* take time: answers arrive long after the line was chosen.                *)
(*                                                                         *)
(* A request may be dispatched on a quarantined line: with a model name     *)
(* selectAccount does not leave it out (see Selection).  When a model probe *)
(* runs is not modelled: a verdict may come at any time.                    *)
(***************************************************************************)
EXTENDS Integers, FiniteSets, FiniteSetsExt

CONSTANTS
    Lines,
    Reqs,          \* requests in flight at the same time
    None,
    MinStreak,     \* config.Line405MinStreak; 0 turns the quarantine off
    BaseTime,      \* config.Line405QuarantineMinutes
    MaxQuarantine, \* config.Line405MaxQuarantineMinutes
    TTL,           \* line405TTL
    RetireStrikes, \* config.Line405RetireMinStrikes
    MaxTime,       \* bound on the clock
    MaxGen         \* bound on the edits of a line

VARIABLES
    now,
    gen,      \* strictProxy.Generations: bumped when a line is edited
    entry,    \* s.line405.Entries
    disk,     \* the copy of it in the meta table
    flight,   \* the egress (line and its generation) of each request
    retired,  \* lines removed by a failed probe
    row       \* ghost: 405s of the line since its last success, up to MinStreak

vars == <<now, gen, entry, disk, flight, retired, row>>

\* Strikes beyond this make no difference: the shift is capped at 3.
StrikeCap == Max({4, RetireStrikes})

\* No entry is the same as one with these values.
Clear == [gen |-> 0, streak |-> 0, strikes |-> 0, until |-> 0, last |-> 0]

Init ==
    /\ now = 1 /\ gen = [l \in Lines |-> 1]
    /\ entry = [l \in Lines |-> Clear] /\ disk = entry
    /\ flight = [r \in Reqs |-> None]
    /\ retired = {} /\ row = [l \in Lines |-> 0]

Blocked(l) == entry[l].until > now

\* line405Quarantine: 1, 2, 4 or 8 times the first term, capped.
Term(strikes) ==
    IF strikes <= 1 THEN BaseTime ELSE Min({BaseTime * <<1, 2, 4, 8>>[Min({strikes, 4})], MaxQuarantine})

\* Mutant: what is old is dropped even while its quarantine runs.
CommitEager(e) ==
    LET kept == [l \in Lines |-> IF e[l].last + TTL < now THEN Clear ELSE e[l]]
    IN  entry' = kept /\ disk' = kept

\* commitLine405Locked drops what is older than the TTL, then writes the rest.
Commit(e) ==
    LET kept == [l \in Lines |->
                    IF e[l].last + TTL < now /\ e[l].until <= now THEN Clear ELSE e[l]]
    IN  entry' = kept /\ disk' = kept

\* Mutant: only the quarantine is lifted.
LiftedTerm(e) == [e EXCEPT !.until = 0]

Lifted(e) == [e EXCEPT !.streak = 0, !.strikes = 0, !.until = 0]

Forgive(l) == row' = [row EXCEPT ![l] = 0]

----------------------------------------------------------------------------

Dispatch(r, l) ==
    /\ flight[r] = None /\ l \notin retired
    /\ flight' = [flight EXCEPT ![r] = [line |-> l, gen |-> gen[l]]]
    /\ UNCHANGED <<now, gen, entry, disk, retired, row>>

Land(r) == flight[r] # None /\ flight' = [flight EXCEPT ![r] = None]

\* RecordLine405: an answer of another generation starts the record afresh.
Hit(old, g) ==
    LET e == IF old.gen = g THEN old ELSE [Clear EXCEPT !.gen = g]
    IN  [e EXCEPT !.streak = Min({@ + 1, Max({1, MinStreak})}), !.last = now]

Jail(e) ==
    LET strikes == Min({e.strikes + 1, StrikeCap})
    IN  [e EXCEPT !.strikes = strikes, !.until = Max({@, now + Term(strikes)})]

Answer405(r) ==
    /\ Land(r)
    /\ LET l == flight[r].line
           hit == Hit(entry[l], flight[r].gen)
       IN  /\ IF MinStreak = 0 \/ hit.streak < MinStreak
              THEN entry' = [entry EXCEPT ![l] = hit] /\ UNCHANGED disk
              ELSE Commit([entry EXCEPT ![l] = Jail(hit)])
           /\ row' = [row EXCEPT ![l] = Min({@ + 1, MinStreak})]
    /\ UNCHANGED <<now, gen, retired>>

\* RecordLineOK: one complete success clears the line, whatever its generation.
AnswerOK(r) ==
    /\ Land(r)
    /\ LET l == flight[r].line
           cleared == [entry EXCEPT ![l] = [Lifted(@) EXCEPT !.last = now]]
       IN  /\ IF entry[l] = Clear THEN UNCHANGED <<entry, disk>>
              ELSE IF entry[l].streak # 0 \/ entry[l].strikes # 0 \/ entry[l].until # 0
              THEN Commit(cleared)
              ELSE entry' = cleared /\ UNCHANGED disk
           /\ Forgive(l)
    /\ UNCHANGED <<now, gen, retired>>

\* Any other end of the request leaves the record alone.
AnswerOther(r) ==
    /\ Land(r)
    /\ UNCHANGED <<now, gen, entry, disk, retired, row>>

\* applyLine405ProbeVerdictLocked: a verdict counts only for the record of the
\* current generation.
Judged(l) == l \notin retired /\ entry[l] # Clear /\ entry[l].gen = gen[l]

\* The probe succeeded over the line.
ProbeHealthy(l) ==
    /\ Judged(l)
    /\ Commit([entry EXCEPT ![l] = Lifted(@)])
    /\ Forgive(l)
    /\ UNCHANGED <<now, gen, flight, retired>>

\* Mutant: off by one.
RepeatedAlmost(e) == e.strikes + 1 >= RetireStrikes

Repeated(e) == e.strikes >= RetireStrikes

\* The probe failed.  maybeRetireLine405ProbeLocked reads the record after the
\* commit has pruned it; startStrictRetirementLocked may still refuse.
ProbeFailed(l) ==
    /\ Judged(l)
    /\ Commit(entry)
    /\ \/ UNCHANGED retired
       \/ Repeated(entry'[l]) /\ retired' = retired \cup {l}
    /\ UNCHANGED <<now, gen, flight, row>>

\* The line is switched off and on, or its protection is changed.
Edit(l) ==
    /\ gen[l] < MaxGen /\ l \notin retired
    /\ gen' = [gen EXCEPT ![l] = @ + 1]
    /\ UNCHANGED <<now, entry, disk, flight, retired, row>>

\* The process stops and starts again; requests in flight are gone.
Restart ==
    /\ entry' = disk
    /\ flight' = [r \in Reqs |-> None]
    /\ UNCHANGED <<now, gen, disk, retired, row>>

Tick ==
    /\ now < MaxTime
    /\ now' = now + 1
    /\ UNCHANGED <<gen, entry, disk, flight, retired, row>>

Next ==
    \/ \E r \in Reqs :
        \/ \E l \in Lines : Dispatch(r, l)
        \/ Answer405(r) \/ AnswerOK(r) \/ AnswerOther(r)
    \/ \E l \in Lines : ProbeHealthy(l) \/ ProbeFailed(l) \/ Edit(l)
    \/ Restart \/ Tick

Spec == Init /\ [][Next]_vars

----------------------------------------------------------------------------
(* Properties *)

Entries == [gen : 0..MaxGen, streak : 0..Max({1, MinStreak}), strikes : 0..StrikeCap,
            until : 0..(MaxTime + Max({BaseTime, MaxQuarantine})), last : 0..MaxTime]

\* The shape of the state.
TypeOK ==
    /\ now \in 1..MaxTime /\ gen \in [Lines -> 1..MaxGen]
    /\ entry \in [Lines -> Entries] /\ disk \in [Lines -> Entries]
    /\ flight \in [Reqs -> [line : Lines, gen : 1..MaxGen] \cup {None}]
    /\ retired \subseteq Lines /\ row \in [Lines -> 0..MinStreak]

\* A line is in quarantine only when MinStreak 405s arrived over it with no
\* success between them, through restarts, edits and prunings
\* (line405.go:10: consecutive, not cumulative).
JailNeedsARow == \A l \in Lines : Blocked(l) => row[l] = MinStreak

Succeeded(l) == ProbeHealthy(l) \/ \E r \in Reqs : flight[r] # None /\ flight[r].line = l /\ AnswerOK(r)
NewBook(l) == entry'[l] # Clear /\ entry'[l].gen # entry[l].gen

\* A running quarantine is cut short only by a success over the line, or by a
\* 405 of another configuration of it: never by a 405 of the same one, by a
\* failed probe, by pruning or by a restart (line405.go:97-99, 185, 263-267).
OnlySuccessFrees ==
    [][\A l \in Lines :
         entry'[l].until < entry[l].until /\ Blocked(l) => Succeeded(l) \/ NewBook(l)]_vars

\* A line is retired by a failed probe only while it has strikes that no success
\* has cleared, even when the verdict comes late (line405.go:218-233).
RetiredIsGuilty ==
    [][\A l \in retired' \ retired : entry[l].strikes >= RetireStrikes /\ row[l] = MinStreak]_vars

=============================================================================
