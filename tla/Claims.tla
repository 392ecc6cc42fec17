-------------------------------- MODULE Claims --------------------------------
(***************************************************************************)
(* adminapi/claim.go and claim/claim.go: claiming the free plans of the     *)
(* accounts.  Background tasks (an account that was just added or logged in *)
(* again), the daily batch and the administrator's button share one slot, a *)
(* channel of capacity one; what the upstream answered is written back into *)
(* the live account, if it still is the account that was asked.  A blocked  *)
(* sender of a Go channel is served in order of arrival, and a receive      *)
(* hands the place over to it.                                              *)
(***************************************************************************)
EXTENDS Integers, Sequences

CONSTANTS
  Accounts, Tasks, Hands,      \* goroutines of scheduleClaim; requests to handleClaim
  Day, Target,                 \* ticks of a day; ClaimScheduleTime
  Window, Long, Short,         \* the upstream's period, and ClaimCooldowns
  Plans, MaxNow, MaxRuns, MaxEdits   \* bounds

Batch == "batch"               \* the goroutine of ClaimScheduler.loop
Workers == Tasks \cup Hands \cup {Batch}
Automatic == Tasks \cup {Batch}
Free == "free"

VARIABLES
  now,
  live,      \* per account: ClaimState.NextAt, credential generation, health
  auto,      \* ClaimAutoEnabled
  slot,      \* who holds claimSlot
  queue,     \* the senders blocked on it
  job,       \* the local variables of every goroutine
  todo, seen, fired,   \* the batch: accounts left, their snapshots, lastFired
  closing,   \* backgroundContext is cancelled
  runs, edits,
  pledge,    \* ghost: next_at written by the latest automatic pass
  earned     \* ghost: end of the period of the plan claimed last

vars == <<now, live, auto, slot, queue, job, todo, seen, fired, closing, runs, edits, pledge, earned>>
batch == <<todo, seen, fired>>

Nothing == [next |-> 0, long |-> FALSE]
Idle(a) == [pc |-> "idle", acc |-> a, new |-> FALSE, cred |-> 0, left |-> 0, second |-> FALSE, out |-> Nothing]
Somebody == CHOOSE a \in Accounts : TRUE

Init ==
  /\ now = 1 /\ auto = TRUE /\ slot = Free /\ queue = <<>> /\ closing = FALSE
  /\ live = [a \in Accounts |-> [next |-> 0, cred |-> 1, health |-> "ok"]]
  /\ job = [w \in Workers |-> Idle(Somebody)]
  /\ todo = {} /\ seen = live /\ fired = -1
  /\ runs = 0 /\ edits = 0
  /\ pledge = [a \in Accounts |-> 0] /\ earned = pledge

-----------------------------------------------------------------------------
(* The slot *)

Joined(w) == Append(queue, w)
\* claimGate.release: the first blocked sender takes the place
Released == /\ slot' = IF queue = <<>> THEN Free ELSE Head(queue)
            /\ queue' = IF queue = <<>> THEN queue ELSE Tail(queue)
Leaves(w) == queue' = SelectSeq(queue, LAMBDA x : x # w) /\ UNCHANGED slot
Ends(w) == job' = [job EXCEPT ![w] = Idle(Somebody)]
Waits(w) == w = Batch \/ job[w].new
Blocked(w) == \E i \in DOMAIN queue : queue[i] = w

Cooling(acc) == now < acc.next
IsAutoClaimTarget(acc) == acc.health = "ok"
\* Account.AcceptsRequestResult; a task that ignored the credential generation
AcceptsAny(a, cred) == live[a].health # "off"
Accepts(a, cred) == live[a].health # "off" /\ live[a].cred = cred

\* scheduleClaim, up to the start of the goroutine
Schedule(w, a, new) ==
  /\ w \in Tasks /\ job[w].pc = "idle" /\ runs < MaxRuns
  /\ auto /\ ~Cooling(live[a]) /\ ~closing
  /\ job' = [job EXCEPT ![w] = [Idle(a) EXCEPT !.pc = "trying", !.new = new]]
  /\ runs' = runs + 1
  /\ UNCHANGED <<now, live, auto, slot, queue, batch, closing, edits, pledge, earned>>

\* A new account and the batch wait for the slot, everybody else gives up
Try(w) ==
  /\ job[w].pc = "trying"
  /\ IF slot = Free
     THEN slot' = w /\ job' = [job EXCEPT ![w].pc = "waiting"] /\ UNCHANGED queue
     ELSE IF Waits(w)
     THEN queue' = Joined(w) /\ job' = [job EXCEPT ![w].pc = "waiting"] /\ UNCHANGED slot
     ELSE Ends(w) /\ UNCHANGED <<slot, queue>>
  /\ UNCHANGED <<now, live, auto, batch, closing, runs, edits, pledge, earned>>

\* ctx.Done, and claimSlotWait for the batch
GivesUp(w) ==
  /\ Blocked(w) /\ (closing \/ w = Batch)
  /\ Leaves(w) /\ Ends(w)
  /\ UNCHANGED <<now, live, auto, batch, closing, runs, edits, pledge, earned>>

\* The snapshot behind the gate decides
SkippedByHealth(w, acc) == closing \/ ~IsAutoClaimTarget(acc) \/ (w \in Tasks /\ job[w].new /\ ~auto)
Skipped(w, acc) == \/ closing \/ ~IsAutoClaimTarget(acc) \/ Cooling(acc)
                   \/ w \in Tasks /\ job[w].new /\ ~auto
KeepsSlot == UNCHANGED <<slot, queue>>
Abandons == Released           \* the deferred release

Enter(w) ==
  /\ job[w].pc = "waiting" /\ slot = w
  /\ LET acc == live[job[w].acc]
     IN IF Skipped(w, acc) THEN Abandons /\ Ends(w)
        ELSE /\ job' = [job EXCEPT ![w].pc = "preview", ![w].cred = acc.cred]
             /\ UNCHANGED <<slot, queue>>
  /\ UNCHANGED <<now, live, auto, batch, closing, runs, edits, pledge, earned>>

-----------------------------------------------------------------------------
(* AutoClaimAllPlans and Claim *)

\* What the upstream (or the solver) may say: success, no places left or claimed
\* before, no captcha, anything else, risk control or an unreachable line
Answers ==
  LET end == {0, now + Window}
  IN   {[ok |-> TRUE, next |-> n, long |-> FALSE, stop |-> FALSE] : n \in end}
  \cup {[ok |-> FALSE, next |-> n, long |-> TRUE, stop |-> FALSE] : n \in end}
  \cup {[ok |-> FALSE, next |-> n, long |-> FALSE, stop |-> TRUE] : n \in end}
  \cup {[ok |-> FALSE, next |-> 0, long |-> FALSE, stop |-> FALSE]}

\* The first next_at counts, see claimCooldownUntil
Noted(out, answer) == [next |-> IF out.next = 0 THEN answer.next ELSE out.next,
                       long |-> out.long \/ answer.long]
Until(out) == IF out.next # 0 THEN out.next ELSE IF out.long THEN now + Long ELSE now + Short

Preview(w) ==
  /\ job[w].pc = "preview"
  /\ \/ \E n \in 0..Plans : job' = [job EXCEPT ![w].pc = IF n = 0 THEN "record" ELSE "claim", ![w].left = n]
     \/ \E answer \in Answers :
          ~answer.ok /\ job' = [job EXCEPT ![w].pc = "record", ![w].out = Noted(@, answer)]
  /\ UNCHANGED <<now, live, auto, slot, queue, batch, closing, runs, edits, pledge, earned>>

Earns(a, answer) == earned' = IF answer.ok /\ answer.next # 0
                              THEN [earned EXCEPT ![a] = answer.next] ELSE earned

\* 3007: the token is dropped and the plan tried once more
Rejected(w) ==
  /\ job[w].pc \in {"claim", "hand"} /\ ~job[w].second
  /\ job' = [job EXCEPT ![w].second = TRUE]
  /\ UNCHANGED <<now, live, auto, slot, queue, batch, closing, runs, edits, pledge, earned>>

Claim(w) ==
  /\ job[w].pc = "claim"
  /\ \E answer \in Answers :
       /\ job' = [job EXCEPT ![w].out = Noted(@, answer), ![w].left = @ - 1, ![w].second = FALSE,
                             ![w].pc = IF answer.stop \/ job[w].left = 1 THEN "record" ELSE "claim"]
       /\ Earns(job[w].acc, answer)
  /\ UNCHANGED <<now, live, auto, slot, queue, batch, closing, runs, edits, pledge>>

\* applyClaimOutcome
Written(w) ==
  LET a == job[w].acc
  IN live' = IF Accepts(a, job[w].cred) THEN [live EXCEPT ![a].next = Until(job[w].out)] ELSE live

\* The slot stays taken until the outcome is written, and until the second look
\* at a new account's quota
Record(w) ==
  /\ job[w].pc = "record"
  /\ IF closing THEN UNCHANGED <<live, pledge>>
     ELSE Written(w) /\ pledge' = [pledge EXCEPT ![job[w].acc] = live'[job[w].acc].next]
  /\ IF job[w].new /\ ~closing
     THEN job' = [job EXCEPT ![w].pc = "check"] /\ UNCHANGED <<slot, queue>>
     ELSE Ends(w) /\ Released
  /\ UNCHANGED <<now, auto, batch, closing, runs, edits, earned>>

\* finishNewAccountQuotaCheck
Check(w) ==
  /\ job[w].pc = "check" /\ Ends(w) /\ Released
  /\ UNCHANGED <<now, live, auto, batch, closing, runs, edits, pledge, earned>>

-----------------------------------------------------------------------------
(* handleClaim, one account *)

Ask(h, a) ==
  /\ h \in Hands /\ job[h].pc = "idle" /\ runs < MaxRuns /\ live[a].health # "cooling"
  /\ job' = [job EXCEPT ![h] = [Idle(a) EXCEPT !.pc = "asked", !.cred = live[a].cred]]
  /\ runs' = runs + 1
  /\ UNCHANGED <<now, live, auto, slot, queue, batch, closing, edits, pledge, earned>>

Grab(h) ==
  /\ job[h].pc = "asked"
  /\ IF slot = Free THEN slot' = h /\ job' = [job EXCEPT ![h].pc = "hand"]
     ELSE Ends(h) /\ UNCHANGED slot
  /\ UNCHANGED <<now, live, auto, queue, batch, closing, runs, edits, pledge, earned>>

\* The slot is given back before the quota is refreshed and the outcome written
Answered(h) ==
  /\ job[h].pc = "hand"
  /\ \E answer \in Answers :
       /\ job' = [job EXCEPT ![h].pc = "late", ![h].out = Noted(@, answer)]
       /\ Earns(job[h].acc, answer)
  /\ Released
  /\ UNCHANGED <<now, live, auto, batch, closing, runs, edits, pledge>>

Late(h) ==
  /\ job[h].pc = "late"
  /\ Written(h) /\ Ends(h)
  /\ pledge' = IF live' = live THEN pledge ELSE [pledge EXCEPT ![job[h].acc] = 0]
  /\ UNCHANGED <<now, auto, slot, queue, batch, closing, runs, edits, earned>>

-----------------------------------------------------------------------------
(* ClaimScheduler.loop and runScheduledClaims *)

Date == now \div Day
Fire ==
  /\ ~closing /\ todo = {} /\ job[Batch].pc = "idle"
  /\ fired # Date /\ now % Day = Target
  /\ fired' = Date /\ todo' = Accounts /\ seen' = live
  /\ UNCHANGED <<now, live, auto, slot, queue, job, closing, runs, edits, pledge, earned>>

\* The list was copied when the batch started
Pick(a) ==
  /\ ~closing /\ job[Batch].pc = "idle" /\ a \in todo
  /\ todo' = todo \ {a}
  /\ job' = IF IsAutoClaimTarget(seen[a]) /\ ~Cooling(seen[a])
            THEN [job EXCEPT ![Batch] = [Idle(a) EXCEPT !.pc = "trying"]] ELSE job
  /\ UNCHANGED <<now, live, auto, slot, queue, seen, fired, closing, runs, edits, pledge, earned>>

-----------------------------------------------------------------------------
(* Surroundings *)

Tick == /\ now < MaxNow /\ now' = now + 1
        /\ UNCHANGED <<live, auto, slot, queue, job, batch, closing, runs, edits, pledge, earned>>

\* Requests, probes and the administrator change an account meanwhile; another
\* login replaces its credentials
Edit ==
  /\ edits < MaxEdits /\ edits' = edits + 1
  /\ \/ \E a \in Accounts :
          /\ \/ /\ live' = [live EXCEPT ![a].cred = @ + 1]
                /\ pledge' = [pledge EXCEPT ![a] = 0] /\ earned' = [earned EXCEPT ![a] = 0]
             \/ \E h \in {"ok", "cooling", "off"} \ {live[a].health} :
                  live' = [live EXCEPT ![a].health = h] /\ UNCHANGED <<pledge, earned>>
          /\ UNCHANGED auto
     \/ auto' = ~auto /\ UNCHANGED <<live, pledge, earned>>
  /\ UNCHANGED <<now, slot, queue, job, batch, closing, runs>>

Close == /\ ~closing /\ closing' = TRUE
         /\ UNCHANGED <<now, live, auto, slot, queue, job, batch, runs, edits, pledge, earned>>

\* A crash or a restart: the goroutines, the slot and lastFired are gone
Restart ==
  /\ edits < MaxEdits /\ edits' = edits + 1
  /\ closing' = FALSE /\ slot' = Free /\ queue' = <<>> /\ todo' = {} /\ fired' = -1 /\ seen' = live
  /\ job' = [w \in Workers |-> Idle(Somebody)]
  /\ UNCHANGED <<now, live, auto, runs, pledge, earned>>

Step(w) == Try(w) \/ Enter(w) \/ Preview(w) \/ Claim(w) \/ Record(w) \/ Check(w) \/ Grab(w) \/ Answered(w) \/ Late(w)
Next ==
  \/ \E w \in Workers : Step(w) \/ Rejected(w) \/ GivesUp(w)
  \/ \E w \in Tasks, a \in Accounts, new \in BOOLEAN : Schedule(w, a, new)
  \/ \E h \in Hands, a \in Accounts : Ask(h, a)
  \/ Fire \/ (\E a \in Accounts : Pick(a)) \/ Tick \/ Edit \/ Close \/ Restart

Spec == Init /\ [][Next]_vars
\* Every request to the upstream has a timeout of 25 s
FairSpec == Spec /\ \A w \in Workers : WF_vars(Step(w))

-----------------------------------------------------------------------------
(* Properties *)

\* Whatever waited for the slot and for how long: no automatic pass starts before
\* the time the latest automatic pass over the same login wrote down.
RespectsCadence ==
  [][\A w \in Automatic : job[w].pc = "waiting" /\ job'[w].pc = "preview" =>
       now >= pledge[job[w].acc]]_vars

\* A cooldown is only ever written by a request made with the credentials the
\* account has at that moment.
OutcomeOfThisLogin ==
  [][\A a \in Accounts : live'[a].next # live[a].next =>
       \E w \in Workers : job[w].acc = a /\ job[w].pc \in {"record", "late"} /\ job[w].cred = live[a].cred]_vars

\* A new account that queues for the slot is served, unless the program stops:
\* every way out of the gate frees it.
NewAccountsServed ==
  \A w \in Tasks : Blocked(w) ~> (slot = w \/ closing \/ job[w].pc = "idle")

\* An account that has just been given its plan is passed over by the automatic
\* paths until the period the upstream named is over.
JustClaimedIsSkipped ==
  [][\A w \in Automatic : job[w].pc = "waiting" /\ job'[w].pc = "preview" =>
       now >= earned[job[w].acc]]_vars
=============================================================================
