----------------------------- MODULE SoftFailures -----------------------------
(***************************************************************************)
(* store/proxy_soft_failure.go: how often model requests over a line fail   *)
(* softly, and the quarantine that follows.  The entries are written to     *)
(* SQLite only by the samples that quarantine something, so what a restart  *)
(* finds is the state at the last quarantine.  A slow sample (first byte    *)
(* after 30 s) follows a success and moves nothing modelled here.  Probation *)
(* is on, as by default (ProxySoftProbation is a switch back to old ways).   *)
(* One tick of the clock is the greatest common measure of the configured    *)
(* windows.                                                                  *)
(***************************************************************************)
EXTENDS Integers

CONSTANTS
  Lines,
  Window, ConsecutiveWindow, TruncateWindow,  \* ProxySoftWindow, ...
  Cooldown, TTL,                   \* proxySoftStrikeCooldown, proxySoftFailureTTL
  Term,                            \* ProxySoftQuarantineMinutes
  MinAttempts, MinFailures, MinRate,
  Consecutive, TruncateStrikes,    \* 0 switches the criterion off
  MaxTime, MaxSamples, MaxRestarts \* bounds

VARIABLES
  now, soft,      \* the clock; Store.proxySoft.Entries
  disk,           \* the row proxy_soft_failure_state
  samples, restarts

vars == <<now, soft, disk, samples, restarts>>

Kinds == {"ok", "timeout", "truncate"}
Entry == [attempts : Nat, failures : Nat, start : Nat, last : Nat, strikes : Nat,
          struck : Nat, until : Nat, probation : BOOLEAN,
          row : Nat, rowStart : Nat, truncates : Nat, truncStart : Int, known : BOOLEAN]
Unknown == [attempts |-> 0, failures |-> 0, start |-> 0, last |-> 0, strikes |-> 0,
            struck |-> 0, until |-> 0, probation |-> FALSE,
            row |-> 0, rowStart |-> 0, truncates |-> 0, truncStart |-> -1, known |-> FALSE]

TypeOK == /\ soft \in [Lines -> Entry] /\ disk \in [Lines -> Entry]
          /\ now \in 1..MaxTime /\ samples \in 0..MaxSamples /\ restarts \in 0..MaxRestarts

Init == /\ soft = [l \in Lines |-> Unknown] /\ disk = soft
        /\ now = 1 /\ samples = 0 /\ restarts = 0

Jailed(e) == e.until > now

-----------------------------------------------------------------------------
(* RecordProxySoftOutcome, in the order of its assignments *)

Known(e) == IF e.known THEN e ELSE [Unknown EXCEPT !.known = TRUE, !.start = now]

Rolled(e) == IF ~Jailed(e) /\ now - e.start >= Window
             THEN [e EXCEPT !.start = now, !.attempts = 0, !.failures = 0] ELSE e

\* The end of a term is not a recovery
ReleasedClean(e) == IF e.until > 0 /\ ~Jailed(e)
                    THEN [e EXCEPT !.until = 0, !.strikes = 0] ELSE e
Released(e) == IF e.until > 0 /\ ~Jailed(e)
               THEN [e EXCEPT !.until = 0, !.probation = TRUE] ELSE e

Failed(e) ==
  LET fresh == e.row = 0 \/ now - e.rowStart > ConsecutiveWindow
  IN [e EXCEPT !.attempts = @ + 1, !.failures = @ + 1,
               !.row = IF fresh THEN 1 ELSE @ + 1,
               !.rowStart = IF fresh THEN now ELSE @]
Passed(e) ==
  [e EXCEPT !.attempts = @ + 1, !.row = 0, !.rowStart = 0,
            !.strikes = IF e.probation THEN 0 ELSE @, !.probation = FALSE]

Truncated(e) ==
  LET fresh == e.truncStart < 0 \/ now - e.truncStart >= TruncateWindow
  IN IF TruncateStrikes = 0 THEN e
     ELSE [e EXCEPT !.truncates = IF fresh THEN 1 ELSE @ + 1,
                    !.truncStart = IF fresh THEN now ELSE @]

Counted(e, kind) ==
  LET opened == Released(Rolled(Known(e)))
      judged == IF kind = "ok" THEN Passed(opened) ELSE Failed(opened)
      full == IF kind = "truncate" THEN Truncated(judged) ELSE judged
  IN [full EXCEPT !.last = now]

TruncateHit(e, kind) == kind = "truncate" /\ TruncateStrikes > 0 /\ e.truncates >= TruncateStrikes
ConsecutiveHit(e) == Consecutive > 0 /\ e.row >= Consecutive
RateHit(e) == /\ e.attempts >= MinAttempts /\ e.failures >= MinFailures
              /\ e.failures * 100 >= MinRate * e.attempts
Hit(e, kind) == kind # "ok" /\ (TruncateHit(e, kind) \/ e.probation \/ ConsecutiveHit(e) \/ RateHit(e))
ExtendedAlways(e, kind) == kind # "ok" /\ Jailed(e)
Extended(e, kind) == kind # "ok" /\ Jailed(e) /\ now - e.struck >= Cooldown

\* softQuarantineDuration: 1, 2, 4, 8 terms
Duration(strikes) == Term * (IF strikes <= 1 THEN 1 ELSE IF strikes = 2 THEN 2
                             ELSE IF strikes = 3 THEN 4 ELSE 8)
Struck(e) == [e EXCEPT !.strikes = @ + 1, !.struck = now, !.until = now + Duration(e.strikes + 1)]
Sentenced(e, kind) ==
  IF Hit(e, kind) /\ ~Jailed(e) THEN [Struck(e) EXCEPT !.probation = FALSE]
  ELSE IF Extended(e, kind) THEN Struck(e) ELSE e

\* pruneProxySoftLocked, on the way to the database
Pruned(s) == [l \in Lines |-> IF s[l].last < now - TTL /\ ~Jailed(s[l]) THEN Unknown ELSE s[l]]

ActsOnce(before, after) == after.strikes > before.strikes /\ ~Jailed(before)
Acts(before, after) == after.strikes > before.strikes
\* commitProxySoftLocked; a failed write is only logged
Record(l, kind) ==
  LET e == Sentenced(Counted(soft[l], kind), kind)
      after == [soft EXCEPT ![l] = e]
  IN /\ samples < MaxSamples /\ samples' = samples + 1
     /\ IF Acts(Counted(soft[l], kind), e) THEN /\ soft' = Pruned(after)
                     /\ disk' = Pruned(after)
        ELSE soft' = after /\ UNCHANGED disk
     /\ UNCHANGED <<now, restarts>>

Tick == now < MaxTime /\ now' = now + 1 /\ UNCHANGED <<soft, disk, samples, restarts>>

\* openAndLoad reads the row and prunes it
Restart ==
  /\ restarts < MaxRestarts /\ restarts' = restarts + 1
  /\ soft' = Pruned(disk)
  /\ UNCHANGED <<now, disk, samples>>

Next == Tick \/ Restart \/ \E l \in Lines, kind \in Kinds : Record(l, kind)
Spec == Init /\ [][Next]_vars

-----------------------------------------------------------------------------
(* Properties *)

\* A line is kept out until its sentence is over, crash or no crash: what is on
\* disk never releases a line earlier than memory would.
SentenceSurvives == \A l \in Lines : soft[l].until > now => disk[l].until = soft[l].until

\* A sentence's record is cleared only by a complete success after the term, or
\* by a day without traffic (a restart knows only the traffic of the last row
\* it wrote): no passage of time launders a line that breaks once
\* an hour (the comment on ProxySoftFailure.Probation).
OnlySuccessClears ==
  [][\A l \in Lines : soft[l].strikes > 0 /\ soft'[l].strikes = 0 =>
       \/ soft[l].until <= now /\ soft'[l].attempts > 0 /\ soft'[l].row = 0 /\ soft'[l].last = now
       \/ soft[l].last < now - TTL
       \/ restarts' > restarts /\ disk[l].last < now - TTL]_vars

\* However many requests in flight report an outage, it costs a quarantined line
\* one step of escalation per cooldown, and a line that is out again takes the next
\* step only when it has served its last term in full, however short that was.
OneStrikePerCooldown ==
  [][\A l \in Lines : soft[l].strikes > 0 /\ soft'[l].strikes > soft[l].strikes =>
       /\ soft'[l].strikes = soft[l].strikes + 1
       /\ now - soft[l].struck >= IF Jailed(soft[l]) THEN Cooldown
                                  ELSE Duration(soft[l].strikes)]_vars
=============================================================================
