----------------------------- MODULE GatewayProof -----------------------------
(***************************************************************************)
(* The loop over accounts and retries keeps its budgets, its promise to the  *)
(* client and away from the lines that broke the content, for any accounts,  *)
(* lines and budgets and any number of requests; the selection chooses a     *)
(* lexicographic optimum and takes turns among equals, for any accounts and  *)
(* profiles.  The theorems are about the composed run: whatever part of it   *)
(* moves, each part sees a step of its own or none.                          *)
(***************************************************************************)
EXTENDS MCGateway, FiniteSetTheorems, WellFoundedInduction, TLAPS

Budgets ==
    /\ MaxAttempts \in Nat /\ MaxCaptcha \in Nat /\ MaxBusy \in Nat
    /\ MaxRate \in Nat /\ MaxOverload \in Nat

Counters == {"captcha", "busy", "rate", "overload", "rounds"}

(***************************************************************************)
(* The inductive invariant.                                                *)
(***************************************************************************)

\* The control states of the loop, of an attempt that is being made, and of one
\* whose answer is there.
Before == {"idle", "loop"}
Prepared == {"ready", "asked", "answered", "error", "json", "redirect", "stream"}
Places == Before \cup Prepared \cup {"try", "sleeping", "ended"}

\* A round of tryAccount is paid for by the retry that began it; the round under
\* way is the one unpaid.
Paid(k) == b.rounds = b.captcha + b.busy + b.rate + b.overload + k

Booked ==
    /\ b \in [Counters -> Nat]
    /\ b.captcha <= MaxCaptcha /\ b.busy <= MaxBusy
    /\ b.rate <= MaxRate /\ b.overload <= MaxOverload
    /\ pc \in {"try", "sleeping"} => Paid(0)
    /\ pc \in Prepared => Paid(1)

\* Where the client's reply begins and ends, and that an answer is an account's.
Tried == IsFiniteSet(tried) /\ EN!Cardinality(tried) <= MaxAttempts

Spoken ==
    /\ pc \in Places
    /\ reply \in {"none", "part"} <=> pc # "ended"
    /\ reply = "part" => pc = "stream"
    /\ pc = "answered" => answer \in EN!Errors \cup EN!Jsons \cup {"redirect", "stream"}
    /\ pc = "idle" => tried = {}
    /\ pc \in Prepared \cup {"try", "sleeping"} => tried # {}

\* Every line that broke the content is remembered, and avoided by the request
\* under way.
Remembered == broke \subseteq cut /\ (pc \notin {"idle", "ended"} => broke \subseteq avoid)

LoopInv == Booked /\ Tried /\ Spoken /\ Remembered

(***************************************************************************)
(* Facts about the data.                                                   *)
(***************************************************************************)

LEMMA FreshBudget ==
    /\ EN!NoBudget \in [Counters -> Nat]
    /\ EN!NoBudget.captcha = 0 /\ EN!NoBudget.busy = 0 /\ EN!NoBudget.rate = 0
    /\ EN!NoBudget.overload = 0 /\ EN!NoBudget.rounds = 0
BY DEF EN!NoBudget, Counters

\* Cardinality is the same operator in the module of the loop.
LEMMA SameCount == ASSUME NEW S  PROVE EN!Cardinality(S) = Cardinality(S)
BY DEF EN!Cardinality, Cardinality

LEMMA NothingTried == IsFiniteSet({}) /\ EN!Cardinality({}) = 0
BY FS_EmptySet, SameCount

LEMMA SomeTried ==
    ASSUME NEW S, IsFiniteSet(S), S # {}  PROVE EN!Cardinality(S) \in Nat /\ EN!Cardinality(S) > 0
BY FS_CardinalityType, FS_EmptySet, SameCount

LEMMA OneMore ==
    ASSUME NEW S, NEW a, IsFiniteSet(S), a \notin S
    PROVE  /\ IsFiniteSet(S \cup {a}) /\ EN!Cardinality(S) \in Nat
           /\ EN!Cardinality(S \cup {a}) = EN!Cardinality(S) + 1
BY FS_CardinalityType, FS_AddElement, SameCount

\* A refusal before the send books one captcha retry and the round it was in.
LEMMA OneRefusal ==
    ASSUME NEW x \in [Counters -> Nat], NEW y,
           y = [x EXCEPT !.captcha = x.captcha + 1, !.rounds = x.rounds + 1]
    PROVE  /\ y \in [Counters -> Nat]
           /\ y.captcha = x.captcha + 1 /\ y.rounds = x.rounds + 1
           /\ y.busy = x.busy /\ y.rate = x.rate /\ y.overload = x.overload
<1> DEFINE z == [x EXCEPT !.captcha = x.captcha + 1]
<1>1. x.captcha + 1 \in Nat /\ x.rounds + 1 \in Nat
  BY DEF Counters
<1>2. z \in [Counters -> Nat] /\ z.captcha = x.captcha + 1 /\ z.rounds = x.rounds
      /\ z.busy = x.busy /\ z.rate = x.rate /\ z.overload = x.overload
  BY <1>1 DEF Counters
<1>3. y = [z EXCEPT !.rounds = x.rounds + 1]
  OBVIOUS
<1> HIDE DEF z
<1>4. QED  BY <1>1, <1>2, <1>3 DEF Counters

LEMMA LoopStep == ASSUME Budgets, LoopInv, [EN!Next]_EN!vars  PROVE LoopInv'
<1> USE DEF Budgets, LoopInv, Booked, Paid, Tried, Spoken, Remembered,
            Places, Before, Prepared, Counters
<1>1. CASE EN!Arrive
  BY <1>1 DEF EN!Arrive, EN!request, EN!shared, EN!Stays
<1>2. CASE EN!DeadlineBefore
  BY <1>2 DEF EN!DeadlineBefore, EN!Looping, EN!Final, EN!Held, EN!Unmarked, EN!shared,
     EN!Stays
<1>3. CASE EN!Select
  <2>1. PICK a : a \notin tried /\ tried' = tried \cup {a} /\ b' = EN!NoBudget
    BY <1>3 DEF EN!Select, EN!TryWith, EN!Choices, EN!Untried
  <2>2. EN!Cardinality(tried) < MaxAttempts
    BY <1>3 DEF EN!Select, EN!More, EN!Looping, EN!AttemptsLeft
  <2>3. pc = "loop" /\ pc' = "try" /\ UNCHANGED <<avoid, reply, cut, broke>>
    BY <1>3 DEF EN!Select, EN!More, EN!Looping, EN!TryWith, EN!shared
  <2>4. Booked'
    BY <2>1, <2>3, FreshBudget
  <2>5. Tried'
    BY <2>1, <2>2, OneMore
  <2>6. QED  BY <2>1, <2>3, <2>4, <2>5
<1>4. CASE EN!SelectProbe
  <2>1. PICK a : a \notin tried /\ tried' = tried \cup {a} /\ b' = EN!NoBudget
    BY <1>4 DEF EN!SelectProbe, EN!TryWith
  <2>2. EN!Cardinality(tried) < MaxAttempts
    BY <1>4 DEF EN!SelectProbe, EN!More, EN!Looping, EN!AttemptsLeft
  <2>3. pc = "loop" /\ pc' = "try" /\ UNCHANGED <<avoid, reply, cut, broke>>
    BY <1>4 DEF EN!SelectProbe, EN!More, EN!Looping, EN!TryWith, EN!shared
  <2>4. Booked'
    BY <2>1, <2>3, FreshBudget
  <2>5. Tried'
    BY <2>1, <2>2, OneMore
  <2>6. QED  BY <2>1, <2>3, <2>4, <2>5
<1>5. CASE EN!Exhausted
  BY <1>5 DEF EN!Exhausted, EN!Looping, EN!Final, EN!Held, EN!Unmarked, EN!shared, EN!Stays
<1>6. CASE EN!DeadlineInside
  BY <1>6 DEF EN!DeadlineInside, EN!Trying, EN!Final, EN!Held, EN!Unmarked, EN!shared,
     EN!Stays
<1>7. CASE EN!CaptchaFails
  <2>1. b.captcha + 1 < MaxCaptcha =>
          b' = [b EXCEPT !.captcha = b.captcha + 1, !.rounds = b.rounds + 1] /\ pc' = "try"
    BY <1>7 DEF EN!CaptchaFails, EN!Retry
  <2>2. b.captcha + 1 >= MaxCaptcha => b' = b /\ pc' = "ended"
    BY <1>7 DEF EN!CaptchaFails, EN!Final
  <2>3. Booked'
    <3>1. CASE b.captcha + 1 < MaxCaptcha
      <4>1. pc = "try" /\ b \in [Counters -> Nat] /\ Paid(0)
        BY <1>7 DEF EN!CaptchaFails, EN!Trying
      <4>2. b' = [b EXCEPT !.captcha = b.captcha + 1, !.rounds = b.rounds + 1] /\ pc' = "try"
        BY <2>1, <3>1
      <4>3. b' \in [Counters -> Nat] /\ b'.captcha = b.captcha + 1 /\ b'.rounds = b.rounds + 1
            /\ b'.busy = b.busy /\ b'.rate = b.rate /\ b'.overload = b.overload
        BY <4>1, <4>2, OneRefusal
      <4>4. b'.rounds = b'.captcha + b'.busy + b'.rate + b'.overload + 0
        BY <4>1, <4>3
      <4>5. b'.captcha <= MaxCaptcha
        BY <3>1, <4>1, <4>3
      <4>6. b'.busy <= MaxBusy /\ b'.rate <= MaxRate /\ b'.overload <= MaxOverload
        BY <4>3
      <4>7. QED  BY <4>2, <4>3, <4>4, <4>5, <4>6
    <3>2. CASE b.captcha + 1 >= MaxCaptcha
      BY <1>7, <2>2, <3>2 DEF EN!CaptchaFails, EN!Trying
    <3>3. QED  BY <3>1, <3>2
  <2>4. Tried' /\ Spoken' /\ Remembered'
    BY <1>7 DEF EN!CaptchaFails, EN!Trying, EN!Retry, EN!Final, EN!Held, EN!Unmarked,
       EN!shared
  <2>5. QED  BY <2>3, <2>4
<1>8. CASE EN!Prepare
  BY <1>8 DEF EN!Prepare, EN!Trying, EN!shared, EN!Stays
<1>9. CASE EN!BadCredential
  BY <1>9 DEF EN!BadCredential, EN!Ready, EN!Switch, EN!SwitchAnd, EN!Held, EN!Marked,
     EN!Stays
<1>10. CASE EN!NotDispatched
  BY <1>10 DEF EN!NotDispatched, EN!Ready, EN!Final, EN!Held, EN!Unmarked, EN!shared,
     EN!Stays
<1>11. CASE EN!DeadlineReached
  BY <1>11 DEF EN!DeadlineReached, EN!Ready, EN!Final, EN!Held, EN!Unmarked, EN!shared,
     EN!Stays
<1>12. CASE EN!Send
  BY <1>12 DEF EN!Send, EN!Ready, EN!shared, EN!Stays
<1>13. CASE EN!DoFails
  BY <1>13 DEF EN!DoFails, EN!Final, EN!Switch, EN!SwitchAnd, EN!Held, EN!Marked,
     EN!Unmarked, EN!shared, EN!Stays
<1>14. CASE EN!Answers
  BY <1>14 DEF EN!Answers, EN!Errors, EN!Jsons, EN!shared, EN!Stays
<1>15. CASE EN!Headers
  BY <1>15 DEF EN!Headers, EN!Errors, EN!Jsons, EN!shared, EN!Stays
<1>16. CASE EN!Redirect
  BY <1>16 DEF EN!Redirect, EN!Final, EN!Held, EN!Unmarked, EN!shared, EN!Stays
<1>17. CASE EN!Wake
  BY <1>17 DEF EN!Wake, EN!Retry, EN!Final, EN!Held, EN!Unmarked, EN!shared, EN!Stays
<1>18. CASE EN!ErrorUnread
  BY <1>18 DEF EN!ErrorUnread, EN!Final, EN!Switch, EN!SwitchAnd, EN!Held, EN!Marked,
     EN!Unmarked, EN!shared, EN!Stays
<1>19. CASE EN!Captcha
  BY <1>19 DEF EN!Captcha, EN!ErrorIs, EN!CaptchaRejected, EN!Retry, EN!Final, EN!Held,
     EN!Unmarked, EN!shared, EN!Stays
<1>20. CASE EN!Auth
  BY <1>20 DEF EN!Auth, EN!ErrorIs, EN!Switch, EN!SwitchAnd, EN!Held, EN!Marked, EN!Stays
<1>21. CASE EN!NoQuota
  BY <1>21 DEF EN!NoQuota, EN!ErrorIs, EN!Switch, EN!SwitchAnd, EN!Held, EN!Marked, EN!Stays
<1>22. CASE EN!Busy
  BY <1>22 DEF EN!Busy, EN!ErrorIs, EN!Switch, EN!SwitchAnd, EN!Sleep, EN!Final, EN!Held,
     EN!Unmarked, EN!shared, EN!Stays
<1>23. CASE EN!Overload
  BY <1>23 DEF EN!Overload, EN!ErrorIs, EN!Sleep, EN!Final, EN!Held, EN!Unmarked,
     EN!shared, EN!Stays
<1>24. CASE EN!RateLimited
  BY <1>24 DEF EN!RateLimited, EN!ErrorIs, EN!Switch, EN!SwitchAnd, EN!Sleep, EN!Held,
     EN!Marked, EN!Unmarked, EN!shared, EN!Stays
<1>25. CASE EN!Unavailable
  BY <1>25 DEF EN!Unavailable, EN!ErrorIs, EN!Switch, EN!SwitchAnd, EN!Held, EN!Marked,
     EN!Stays
<1>26. CASE EN!Risk
  BY <1>26 DEF EN!Risk, EN!ErrorIs, EN!Held, EN!Stays
<1>27. CASE EN!EdgeTimeout
  BY <1>27 DEF EN!EdgeTimeout, EN!ErrorIs, EN!SwitchAnd, EN!Final, EN!Held, EN!Unmarked,
     EN!shared, EN!Stays
<1>28. CASE EN!OtherError
  BY <1>28 DEF EN!OtherError, EN!ErrorIs, EN!Final, EN!Held, EN!Unmarked, EN!shared,
     EN!Stays
<1>29. CASE EN!JsonBad
  BY <1>29 DEF EN!JsonBad, EN!CaptchaRejected, EN!Retry, EN!Final, EN!Switch,
     EN!SwitchAnd, EN!Held, EN!Marked, EN!Unmarked, EN!shared, EN!Stays
<1>30. CASE EN!JsonMessage
  BY <1>30 DEF EN!JsonMessage, EN!Complete, EN!Final, EN!Held, EN!Broken, EN!Noted, EN!Stays
<1>31. CASE EN!StreamCommits
  BY <1>31 DEF EN!StreamCommits, EN!request, EN!shared, EN!Stays
<1>32. CASE EN!StreamCompletes
  BY <1>32 DEF EN!StreamCompletes, EN!Complete, EN!Final, EN!Held, EN!Stays
<1>33. CASE EN!StreamFails
  BY <1>33 DEF EN!StreamFails, EN!Final, EN!Held, EN!Broken, EN!Noted, EN!Stays
<1>34. CASE EN!StreamBreaks
  BY <1>34 DEF EN!StreamBreaks, EN!Broken, EN!Noted, EN!SwitchAnd, EN!Final, EN!Held,
     EN!Stays
<1>35. CASE EN!TimerFires
  BY <1>35 DEF EN!TimerFires, EN!Ended, EN!shared
<1>36. CASE EN!GateFires
  BY <1>36 DEF EN!GateFires, EN!Ended, EN!shared
<1>37. CASE EN!Leave
  BY <1>37 DEF EN!Leave, EN!request, EN!shared
<1>38. CASE EN!Deadline
  BY <1>38 DEF EN!Deadline, EN!request, EN!shared
<1>39. CASE EN!Expire
  BY <1>39 DEF EN!Expire, EN!request, EN!shared
<1>40. CASE EN!Again
  <2>1. Booked'
    BY <1>40, FreshBudget DEF EN!Again
  <2>2. Tried'
    BY <1>40, NothingTried DEF EN!Again
  <2>3. Spoken' /\ Remembered'
    BY <1>40 DEF EN!Again
  <2>4. QED  BY <2>1, <2>2, <2>3
<1>41. CASE UNCHANGED EN!vars
  BY <1>41 DEF EN!vars, EN!request, EN!shared
<1>42. QED
  BY <1>1, <1>2, <1>3, <1>4, <1>5, <1>6, <1>7, <1>8, <1>9, <1>10, <1>11, <1>12, <1>13,
     <1>14, <1>15, <1>16, <1>17, <1>18, <1>19, <1>20, <1>21, <1>22, <1>23, <1>24, <1>25,
     <1>26, <1>27, <1>28, <1>29, <1>30, <1>31, <1>32, <1>33, <1>34, <1>35, <1>36, <1>37,
     <1>38, <1>39, <1>40, <1>41 DEF EN!Next, EN!Step, EN!HandleUpstreamError, EN!Handle200

LEMMA InitLoop == Budgets /\ EN!Init => LoopInv
<1> SUFFICES ASSUME Budgets, EN!Init  PROVE LoopInv
  OBVIOUS
<1> USE DEF EN!Init, EN!Fresh
<1>1. Booked
  BY FreshBudget DEF Budgets, Booked, Paid, Prepared
<1>2. Tried
  BY NothingTried DEF Budgets, Tried
<1>3. Spoken /\ Remembered
  BY DEF Spoken, Remembered, Places, Before, Prepared
<1>4. QED  BY <1>1, <1>2, <1>3 DEF LoopInv

\* Whatever part of the run moves, what the loop sees is a step of its own or none.
LEMMA LoopRuns == (RunInit => EN!Init) /\ ([RunNext]_allVars => [EN!Next]_EN!vars)
<1>1. RunInit => EN!Init
  BY DEF RunInit
<1>2. [RunNext]_allVars => [EN!Next]_EN!vars
  BY DEF RunNext, Choice, Loop, Convert, allVars, enVars, EN!vars, EN!request, EN!shared
<1>3. QED  BY <1>1, <1>2

LEMMA SpecLoopInv == ASSUME Budgets PROVE RunSpec => []LoopInv
<1>1. RunInit => LoopInv
  BY LoopRuns, InitLoop
<1>2. LoopInv /\ [RunNext]_allVars => LoopInv'
  BY LoopRuns, LoopStep
<1>3. QED  BY <1>1, <1>2, PTL DEF RunSpec

(***************************************************************************)
(* The theorems.                                                           *)
(***************************************************************************)

\* The loop of tryAccount never runs out of rounds: each of them is paid for by a retry that
\* one of the budgets counted (engine.go tryAccount).
THEOREM GatewayEveryRetryBooked == ASSUME Budgets PROVE RunSpec => []EveryRetryBooked
<1>1. LoopInv => EveryRetryBooked
  BY DEF LoopInv, Booked, Paid, Counters, Budgets, EveryRetryBooked, EN!EveryRetryBooked,
     EN!Budget
<1>2. QED  BY SpecLoopInv, <1>1, PTL

\* An account on a line that broke this content is chosen only when every account that is left
\* is on a line to avoid, however many requests of the client share the memory
\* (truncateguard.go, engine.go RunMessages).
THEOREM GatewayRetryAvoidsCut == ASSUME Budgets PROVE RunSpec => RetryAvoidsCut
<1>1. LoopInv /\ EN!Select /\ Line[acc'] \in broke => \A a \in EN!Untried : Line[a] \in avoid
  <2> SUFFICES ASSUME LoopInv, EN!Select, Line[acc'] \in broke
               PROVE  \A a \in EN!Untried : Line[a] \in avoid
    OBVIOUS
  <2>1. PICK a \in EN!Choices : acc' = a
    BY DEF EN!Select, EN!TryWith
  <2>2. Line[a] \in avoid
    BY <2>1 DEF LoopInv, Remembered, EN!Select, EN!More, EN!Looping
  <2>3. QED  BY <2>1, <2>2 DEF EN!Choices
<1>2. LoopInv /\ [RunNext]_allVars
        => [EN!Select /\ Line[acc'] \in broke => \A a \in EN!Untried : Line[a] \in avoid]_EN!vars
  BY <1>1
<1>3. QED  BY SpecLoopInv, <1>2, PTL DEF RunSpec, RetryAvoidsCut, EN!RetryAvoidsCut

(***************************************************************************)
(* What one step of the loop does to the number of accounts tried and to the *)
(* reply, and that only Send asks the upstream.                              *)
(***************************************************************************)

Errs == reply' \notin {"none", "part", "whole", "cut"}

Effect ==
    \/ UNCHANGED <<tried, reply>>
    \/ /\ pc = "loop" /\ EN!AttemptsLeft /\ \E a : a \notin tried /\ tried' = tried \cup {a}
       /\ UNCHANGED reply
    \/ pc = "stream" /\ reply = "none" /\ reply' = "part" /\ UNCHANGED tried
    \/ pc \in {"json", "stream"} /\ reply' \in {"whole", "cut"} /\ UNCHANGED tried
    \/ reply = "none" /\ Errs /\ UNCHANGED tried
    \/ pc = "ended" /\ reply' = "none" /\ tried' = {}

Asks == pc # "asked" /\ pc' = "asked" => EN!Send

LEMMA EffectOfStep == ASSUME LoopInv, EN!Next  PROVE Effect /\ Asks
<1> USE DEF LoopInv, Spoken, Places, Before, Prepared, Effect, Errs, Asks
<1>1. CASE EN!Arrive
  BY <1>1 DEF EN!Arrive, EN!request, EN!shared, EN!Stays
<1>2. CASE EN!DeadlineBefore
  BY <1>2 DEF EN!DeadlineBefore, EN!Looping, EN!Final, EN!Held, EN!Unmarked, EN!shared,
     EN!Stays
<1>3. CASE EN!Select
  BY <1>3 DEF EN!Select, EN!More, EN!Looping, EN!TryWith, EN!shared, EN!Stays
<1>4. CASE EN!SelectProbe
  BY <1>4 DEF EN!SelectProbe, EN!More, EN!Looping, EN!TryWith, EN!shared, EN!Stays
<1>5. CASE EN!Exhausted
  BY <1>5 DEF EN!Exhausted, EN!Looping, EN!Final, EN!Held, EN!Unmarked, EN!shared, EN!Stays
<1>6. CASE EN!DeadlineInside
  BY <1>6 DEF EN!DeadlineInside, EN!Trying, EN!Final, EN!Held, EN!Unmarked, EN!shared,
     EN!Stays
<1>7. CASE EN!CaptchaFails
  BY <1>7 DEF EN!CaptchaFails, EN!Trying, EN!Retry, EN!Final, EN!Held, EN!Unmarked,
     EN!shared, EN!Stays
<1>8. CASE EN!Prepare
  BY <1>8 DEF EN!Prepare, EN!Trying, EN!shared, EN!Stays
<1>9. CASE EN!BadCredential
  BY <1>9 DEF EN!BadCredential, EN!Ready, EN!Switch, EN!SwitchAnd, EN!Held, EN!Marked,
     EN!Stays
<1>10. CASE EN!NotDispatched
  BY <1>10 DEF EN!NotDispatched, EN!Ready, EN!Final, EN!Held, EN!Unmarked, EN!shared,
     EN!Stays
<1>11. CASE EN!DeadlineReached
  BY <1>11 DEF EN!DeadlineReached, EN!Ready, EN!Final, EN!Held, EN!Unmarked, EN!shared,
     EN!Stays
<1>12. CASE EN!Send
  BY <1>12 DEF EN!Send, EN!Ready, EN!shared, EN!Stays
<1>13. CASE EN!DoFails
  BY <1>13 DEF EN!DoFails, EN!Final, EN!Switch, EN!SwitchAnd, EN!Held, EN!Marked,
     EN!Unmarked, EN!shared, EN!Stays
<1>14. CASE EN!Answers
  BY <1>14 DEF EN!Answers, EN!Errors, EN!Jsons, EN!shared, EN!Stays
<1>15. CASE EN!Headers
  BY <1>15 DEF EN!Headers, EN!Errors, EN!Jsons, EN!shared, EN!Stays
<1>16. CASE EN!Redirect
  BY <1>16 DEF EN!Redirect, EN!Final, EN!Held, EN!Unmarked, EN!shared, EN!Stays
<1>17. CASE EN!Wake
  BY <1>17 DEF EN!Wake, EN!Retry, EN!Final, EN!Held, EN!Unmarked, EN!shared, EN!Stays
<1>18. CASE EN!ErrorUnread
  BY <1>18 DEF EN!ErrorUnread, EN!Final, EN!Switch, EN!SwitchAnd, EN!Held, EN!Marked,
     EN!Unmarked, EN!shared, EN!Stays
<1>19. CASE EN!Captcha
  BY <1>19 DEF EN!Captcha, EN!ErrorIs, EN!CaptchaRejected, EN!Retry, EN!Final, EN!Held,
     EN!Unmarked, EN!shared, EN!Stays
<1>20. CASE EN!Auth
  BY <1>20 DEF EN!Auth, EN!ErrorIs, EN!Switch, EN!SwitchAnd, EN!Held, EN!Marked, EN!Stays
<1>21. CASE EN!NoQuota
  BY <1>21 DEF EN!NoQuota, EN!ErrorIs, EN!Switch, EN!SwitchAnd, EN!Held, EN!Marked, EN!Stays
<1>22. CASE EN!Busy
  BY <1>22 DEF EN!Busy, EN!ErrorIs, EN!Switch, EN!SwitchAnd, EN!Sleep, EN!Final, EN!Held,
     EN!Unmarked, EN!shared, EN!Stays
<1>23. CASE EN!Overload
  BY <1>23 DEF EN!Overload, EN!ErrorIs, EN!Sleep, EN!Final, EN!Held, EN!Unmarked,
     EN!shared, EN!Stays
<1>24. CASE EN!RateLimited
  BY <1>24 DEF EN!RateLimited, EN!ErrorIs, EN!Switch, EN!SwitchAnd, EN!Sleep, EN!Held,
     EN!Marked, EN!Unmarked, EN!shared, EN!Stays
<1>25. CASE EN!Unavailable
  BY <1>25 DEF EN!Unavailable, EN!ErrorIs, EN!Switch, EN!SwitchAnd, EN!Held, EN!Marked,
     EN!Stays
<1>26. CASE EN!Risk
  BY <1>26 DEF EN!Risk, EN!ErrorIs, EN!Held, EN!Stays
<1>27. CASE EN!EdgeTimeout
  BY <1>27 DEF EN!EdgeTimeout, EN!ErrorIs, EN!SwitchAnd, EN!Final, EN!Held, EN!Unmarked,
     EN!shared, EN!Stays
<1>28. CASE EN!OtherError
  BY <1>28 DEF EN!OtherError, EN!ErrorIs, EN!Final, EN!Held, EN!Unmarked, EN!shared,
     EN!Stays
<1>29. CASE EN!JsonBad
  BY <1>29 DEF EN!JsonBad, EN!CaptchaRejected, EN!Retry, EN!Final, EN!Switch,
     EN!SwitchAnd, EN!Held, EN!Marked, EN!Unmarked, EN!shared, EN!Stays
<1>30. CASE EN!JsonMessage
  BY <1>30 DEF EN!JsonMessage, EN!Complete, EN!Final, EN!Held, EN!Broken, EN!Noted, EN!Stays
<1>31. CASE EN!StreamCommits
  BY <1>31 DEF EN!StreamCommits, EN!request, EN!shared, EN!Stays
<1>32. CASE EN!StreamCompletes
  BY <1>32 DEF EN!StreamCompletes, EN!Complete, EN!Final, EN!Held, EN!Stays
<1>33. CASE EN!StreamFails
  BY <1>33 DEF EN!StreamFails, EN!Final, EN!Held, EN!Broken, EN!Noted, EN!Stays
<1>34. CASE EN!StreamBreaks
  BY <1>34 DEF EN!StreamBreaks, EN!Broken, EN!Noted, EN!SwitchAnd, EN!Final, EN!Held,
     EN!Stays
<1>35. CASE EN!TimerFires
  BY <1>35 DEF EN!TimerFires, EN!Ended, EN!shared
<1>36. CASE EN!GateFires
  BY <1>36 DEF EN!GateFires, EN!Ended, EN!shared
<1>37. CASE EN!Leave
  BY <1>37 DEF EN!Leave, EN!request, EN!shared
<1>38. CASE EN!Deadline
  BY <1>38 DEF EN!Deadline, EN!request, EN!shared
<1>39. CASE EN!Expire
  BY <1>39 DEF EN!Expire, EN!request, EN!shared
<1>40. CASE EN!Again
  BY <1>40 DEF EN!Again
<1>41. QED
  BY <1>1, <1>2, <1>3, <1>4, <1>5, <1>6, <1>7, <1>8, <1>9, <1>10, <1>11, <1>12, <1>13,
     <1>14, <1>15, <1>16, <1>17, <1>18, <1>19, <1>20, <1>21, <1>22, <1>23, <1>24, <1>25,
     <1>26, <1>27, <1>28, <1>29, <1>30, <1>31, <1>32, <1>33, <1>34, <1>35, <1>36, <1>37,
     <1>38, <1>39, <1>40 DEF EN!Next, EN!Step, EN!HandleUpstreamError, EN!Handle200

\* The loop implements OneReply: one reply for each request, accounts one after the other and
\* none after the client has read a byte, at most MaxAttempts of them
\* (engine.go RunMessages, truncate.go NothingDeliveredError).
THEOREM GatewayKeepsPromise == ASSUME Budgets PROVE RunSpec => KeepsPromise
<1> DEFINE Attempts == EN!Cardinality(tried)
           Reply == IF reply \in {"none", "part", "whole", "cut"} THEN reply ELSE "error"
<1>1. EN!Init => EN!Promise!Init
  BY NothingTried DEF EN!Init, EN!Fresh, EN!Promise!Init
<1>2. LoopInv /\ [EN!Next]_EN!vars => [EN!Promise!Next]_<<Attempts, Reply>>
  <2> SUFFICES ASSUME LoopInv, EN!Next  PROVE [EN!Promise!Next]_<<Attempts, Reply>>
    BY DEF EN!vars, EN!request
  <2> USE DEF LoopInv, Spoken, Places, Before, Prepared
  <2>1. CASE UNCHANGED <<tried, reply>>
    BY <2>1
  <2>2. CASE /\ pc = "loop" /\ EN!AttemptsLeft /\ \E a : a \notin tried /\ tried' = tried \cup {a}
             /\ UNCHANGED reply
    <3>1. Attempts' = Attempts + 1 /\ Attempts < MaxAttempts
      BY <2>2, OneMore DEF Tried, EN!AttemptsLeft
    <3>2. reply = "none"
      BY <2>2
    <3>3. EN!Promise!Attempt
      BY <3>1, <3>2, <2>2 DEF EN!Promise!Attempt
    <3>4. QED  BY <3>3 DEF EN!Promise!Next
  <2>3. CASE pc = "stream" /\ reply = "none" /\ reply' = "part" /\ UNCHANGED tried
    <3>1. Attempts > 0 /\ Attempts' = Attempts
      BY <2>3, SomeTried DEF Tried
    <3>2. EN!Promise!Begin
      BY <3>1, <2>3 DEF EN!Promise!Begin
    <3>3. QED  BY <3>2 DEF EN!Promise!Next
  <2>4. CASE pc \in {"json", "stream"} /\ reply' \in {"whole", "cut"} /\ UNCHANGED tried
    <3>1. Attempts > 0 /\ Attempts' = Attempts
      BY <2>4, SomeTried DEF Tried
    <3>2. EN!Promise!Finish
      BY <3>1, <2>4 DEF EN!Promise!Finish
    <3>3. QED  BY <3>2 DEF EN!Promise!Next
  <2>5. CASE reply = "none" /\ Errs /\ UNCHANGED tried
    <3>1. EN!Promise!Refuse
      BY <2>5 DEF EN!Promise!Refuse, Errs
    <3>2. QED  BY <3>1 DEF EN!Promise!Next
  <2>6. CASE pc = "ended" /\ reply' = "none" /\ tried' = {}
    <3>1. Attempts' = 0
      BY <2>6, NothingTried
    <3>2. EN!Promise!Again
      BY <3>1, <2>6 DEF EN!Promise!Again
    <3>3. QED  BY <3>2 DEF EN!Promise!Next
  <2>7. QED
    BY EffectOfStep, <2>1, <2>2, <2>3, <2>4, <2>5, <2>6 DEF Effect
<1>3. QED
  BY SpecLoopInv, LoopRuns, <1>1, <1>2, PTL DEF RunSpec, KeepsPromise, EN!KeepsPromise,
     EN!Promise!Spec

(***************************************************************************)
(* The selection: places in the order of the accounts.                     *)
(***************************************************************************)

\* A set of naturals that is not empty has a least element.
LEMMA LeastNat ==
    ASSUME NEW D \in SUBSET Nat, D # {}
    PROVE  \E j \in D : \A y \in D : j <= y
<1> DEFINE R == OpToRel(<, Nat)
<1>1. IsWellFoundedOn(R, Nat) /\ \A i, j \in Nat : i < j => <<i, j>> \in R
  BY NatLessThanWellFounded DEF OpToRel
<1> HIDE DEF R
<1>2. D \subseteq Nat /\ D # {}
  OBVIOUS
<1>3. PICK j \in D : \A i \in D : ~(<<i, j>> \in R)
  <2>1. IsWellFoundedOn(R, Nat)
    BY <1>1
  <2>2. \E x \in D : \A y \in D : ~(<<y, x>> \in R)
    BY ONLY <1>2, <2>1, WFMin
  <2>3. QED  BY <2>2
<1>4. \A y \in D : y \in Nat /\ j \in Nat /\ ~(y < j)
  BY <1>1, <1>3
<1>5. QED  BY <1>4

LEMMA AccountsFinite ==
    /\ IsFiniteSet(Accounts) /\ Cardinality(Accounts) \in Nat
    /\ DOMAIN Order = 1 .. Len(Order) /\ Len(Order) \in Nat
<1>1. Order \in Seq(Accounts)
  BY SelectionAssumption
<1>2. DOMAIN Order = 1 .. Len(Order) /\ Len(Order) \in Nat /\ Order \in [1 .. Len(Order) -> Accounts]
  BY <1>1
<1>3. Order \in Surjection(1 .. Len(Order), Accounts)
  BY <1>2 DEF Surjection, Accounts
<1>4. IsFiniteSet(1 .. Len(Order))
  BY <1>2, FS_Interval
<1>5. IsFiniteSet(Accounts)
  BY <1>3, <1>4, FS_Surjection
<1>6. QED  BY <1>2, <1>5, FS_CardinalityType

LEMMA EarlierIs ==
    ASSUME NEW x \in Accounts, NEW y \in Accounts
    PROVE  /\ x # y => Earlier(x, y) \/ Earlier(y, x)
           /\ ~Earlier(x, x)
           /\ \A z \in Accounts : Earlier(x, y) /\ Earlier(y, z) => Earlier(x, z)
<1>1. \A i, j \in DOMAIN Order : Order[i] = Order[j] => i = j
  BY SelectionAssumption DEF IsInjective
<1>2. \A i \in DOMAIN Order : i \in Nat
  BY AccountsFinite
<1>3. PICK i \in DOMAIN Order, j \in DOMAIN Order : x = Order[i] /\ y = Order[j]
  BY DEF Accounts
<1>4. x # y => Earlier(x, y) \/ Earlier(y, x)
  <2>1. x # y => i < j \/ j < i
    BY <1>2, <1>3
  <2>2. QED  BY <1>3, <2>1 DEF Earlier
<1>5. ~Earlier(x, x)
  <2>1. ASSUME NEW h \in DOMAIN Order, NEW k \in DOMAIN Order, h < k, Order[h] = x, Order[k] = x
        PROVE  FALSE
    BY <1>1, <1>2, <2>1
  <2>2. QED  BY <2>1 DEF Earlier
<1>6. ASSUME NEW z \in Accounts, Earlier(x, y), Earlier(y, z) PROVE Earlier(x, z)
  <2>1. PICK h \in DOMAIN Order, k \in DOMAIN Order : h < k /\ Order[h] = x /\ Order[k] = y
    BY <1>6 DEF Earlier
  <2>2. PICK u \in DOMAIN Order, w \in DOMAIN Order : u < w /\ Order[u] = y /\ Order[w] = z
    BY <1>6 DEF Earlier
  <2>3. k = u
    BY <1>1, <2>1, <2>2
  <2>4. h < w
    BY <1>2, <2>1, <2>2, <2>3
  <2>5. QED  BY <2>1, <2>2, <2>4 DEF Earlier
<1>7. QED  BY <1>4, <1>5, <1>6

\* How many of P come before x.
Place(P, x) == Cardinality({y \in P : Earlier(y, x)})

LEMMA PlaceIs ==
    ASSUME NEW P \in SUBSET Accounts, NEW x \in P
    PROVE  /\ Place(P, x) \in 0 .. Cardinality(P) - 1
           /\ \A y \in P : Earlier(x, y) => Place(P, x) < Place(P, y)
<1> DEFINE F(w) == {y \in P : Earlier(y, w)}
<1>1. IsFiniteSet(P) /\ Cardinality(P) \in Nat
  BY AccountsFinite, FS_Subset, FS_CardinalityType
<1>2. IsFiniteSet(P \ {x}) /\ Cardinality(P \ {x}) = Cardinality(P) - 1
  BY <1>1, FS_RemoveElement
<1>3. F(x) \in SUBSET (P \ {x})
  BY EarlierIs
<1>4. IsFiniteSet(F(x)) /\ Cardinality(F(x)) <= Cardinality(P) - 1
  BY <1>2, <1>3, FS_Subset
<1>5. Cardinality(F(x)) \in Nat
  BY <1>4, FS_CardinalityType
<1>6. ASSUME NEW y \in P, Earlier(x, y) PROVE Cardinality(F(x)) < Cardinality(F(y))
  <2>1. F(x) \cup {x} \in SUBSET F(y)
    BY <1>6, EarlierIs
  <2>2. IsFiniteSet(F(y)) /\ F(y) \in SUBSET P
    BY <1>1, FS_Subset
  <2>3. Cardinality(F(x) \cup {x}) <= Cardinality(F(y))
    BY <2>1, <2>2, FS_Subset
  <2>4. x \notin F(x)
    BY EarlierIs
  <2>5. Cardinality(F(x) \cup {x}) = Cardinality(F(x)) + 1
    BY <1>4, <2>4, FS_AddElement
  <2>6. Cardinality(F(y)) \in Nat
    BY <2>2, FS_CardinalityType
  <2>7. QED  BY <1>5, <2>3, <2>5, <2>6
<1>7. QED  BY <1>1, <1>4, <1>5, <1>6 DEF Place

\* Every place below the number of P is that of one account, and every account has one.
LEMMA NthIs ==
    ASSUME NEW P \in SUBSET Accounts
    PROVE  /\ \A i \in 0 .. Cardinality(P) - 1 : Nth(P, i) \in P
           /\ \A x \in P : Nth(P, Place(P, x)) = x
<1> DEFINE r == [x \in P |-> Place(P, x)]
           T == 0 .. Cardinality(P) - 1
<1>1. IsFiniteSet(P) /\ Cardinality(P) \in Nat
  BY AccountsFinite, FS_Subset, FS_CardinalityType
<1>2. \A x \in P : Place(P, x) \in T
  BY PlaceIs
<1>3. \A x, y \in P : Place(P, x) = Place(P, y) => x = y
  <2>1. ASSUME NEW x \in P, NEW y \in P, Place(P, x) = Place(P, y), x # y PROVE FALSE
    <3>1. Earlier(x, y) \/ Earlier(y, x)
      BY <2>1, EarlierIs
    <3>2. Place(P, x) < Place(P, y) \/ Place(P, y) < Place(P, x)
      BY <3>1, PlaceIs
    <3>3. Place(P, x) \in Nat /\ Place(P, y) \in Nat
      BY <1>2
    <3>4. QED  BY <2>1, <3>2, <3>3
  <2>2. QED  BY <2>1
<1>4. r \in Injection(P, T)
  BY <1>2, <1>3 DEF Injection, IsInjective
<1>5. IsFiniteSet(T) /\ Cardinality(T) = Cardinality(P)
  BY <1>1, FS_Interval
<1>6. r \in Surjection(P, T)
  BY <1>4, <1>5, FS_Injection
<1>7. ASSUME NEW i \in T PROVE \E x \in P : Place(P, x) = i
  BY <1>6 DEF Surjection
<1>8. ASSUME NEW i \in T PROVE Nth(P, i) \in P /\ Place(P, Nth(P, i)) = i
  BY <1>7 DEF Nth, Place
<1>9. ASSUME NEW x \in P PROVE Nth(P, Place(P, x)) = x
  BY <1>2, <1>3, <1>8
<1>10. QED  BY <1>8, <1>9

\* Among accounts there is one whose value nobody exceeds.
LEMMA BestIs ==
    ASSUME NEW P \in SUBSET Accounts, P # {}, NEW v \in [Accounts -> Int]
    PROVE  \E x \in P : \A y \in P : v[y] <= v[x]
<1> DEFINE F(x) == {y \in P : v[y] > v[x]}
           D == {Cardinality(F(x)) : x \in P}
<1>1. IsFiniteSet(P)
  BY AccountsFinite, FS_Subset
<1>2. \A x \in P : IsFiniteSet(F(x)) /\ Cardinality(F(x)) \in Nat
  <2>1. ASSUME NEW x \in P PROVE IsFiniteSet(F(x)) /\ Cardinality(F(x)) \in Nat
    <3>1. F(x) \in SUBSET P
      OBVIOUS
    <3>2. IsFiniteSet(F(x))
      BY <1>1, <3>1, FS_Subset
    <3>3. QED  BY <3>2, FS_CardinalityType
  <2>2. QED  BY <2>1
<1>3. D \in SUBSET Nat /\ D # {}
  BY <1>2
<1>4. PICK x \in P : \A y \in P : Cardinality(F(x)) <= Cardinality(F(y))
  <2> HIDE DEF D
  <2>1. PICK j \in D : \A k \in D : j <= k
    BY <1>3, LeastNat
  <2>2. PICK x \in P : j = Cardinality(F(x))
    BY <2>1 DEF D
  <2>3. \A y \in P : Cardinality(F(y)) \in D
    BY DEF D
  <2> HIDE DEF F
  <2>4. QED  BY <2>1, <2>2, <2>3
<1>5. ASSUME NEW y \in P, v[y] > v[x] PROVE FALSE
  <2>1. \A z \in P : v[z] \in Int
    OBVIOUS
  <2>2. F(y) \in SUBSET F(x) /\ y \in F(x) /\ y \notin F(y)
    BY <1>5, <2>1
  <2>3. Cardinality(F(y) \cup {y}) = Cardinality(F(y)) + 1
    BY <1>2, <2>2, FS_AddElement
  <2>4. F(y) \cup {y} \in SUBSET F(x)
    BY <2>2
  <2>5. Cardinality(F(y) \cup {y}) <= Cardinality(F(x))
    BY <1>2, <2>4, FS_Subset
  <2>6. Cardinality(F(x)) \in Nat /\ Cardinality(F(y)) \in Nat /\ Cardinality(F(x)) <= Cardinality(F(y))
    BY <1>2, <1>4
  <2> HIDE DEF F
  <2>7. QED  BY <2>3, <2>5, <2>6
<1>6. \A y \in P : v[y] \in Int /\ v[x] \in Int /\ ~(v[y] > v[x])
  BY <1>5
<1>7. QED  BY <1>6

(***************************************************************************)
(* The selection: layers.                                                  *)
(***************************************************************************)

\* What the layers read of an account.
LEMMA ProfileIs ==
    ASSUME TypeOK, NEW x \in Accounts
    PROVE  /\ acct[x].ok \in BOOLEAN /\ acct[x].truncated \in BOOLEAN
           /\ acct[x].expiring \in BOOLEAN /\ acct[x].promo \in BOOLEAN
           /\ acct[x].avail \in {"available", "unknown", "absent"}
           /\ acct[x].band \in Int /\ acct[x].quota \in Int
<1>1. acct[x] \in Profiles
  BY DEF TypeOK
<1>2. Profiles \subseteq [ok : BOOLEAN, line : Lines, avail : {"available", "unknown", "absent"},
                          truncated : BOOLEAN, expiring : BOOLEAN, promo : BOOLEAN,
                          band : 1 .. 4, quota : Int]
  BY SelectionAssumption
<1>3. QED  BY <1>1, <1>2

\* A layer that prefers keeps whom it prefers, or all; one that ranks keeps the best.
Kept(P, Q, good) == Q = IF P \cap good # {} THEN P \cap good ELSE P

Untruncated == {x \in Accounts : ~acct[x].truncated}
Expiring == {x \in Accounts : acct[x].expiring}
Promoted == {x \in Accounts : acct[x].promo}
Whole(base, mo) == Prefer(Tier(base, mo), LAMBDA x : ~acct[x].truncated)
Soon(base, mo) ==
    IF mo = "" THEN Whole(base, mo) ELSE Prefer(Whole(base, mo), LAMBDA x : acct[x].expiring)
Promo(base, mo) == Prefer(Soon(base, mo), LAMBDA x : acct[x].promo)
Fast(base, mo) == Highest(Promo(base, mo), LAMBDA x : acct[x].band)

LEMMA TiedLayers ==
    ASSUME NEW base \in SUBSET Accounts, NEW mo
    PROVE  /\ Tier(base, mo) \subseteq base
           /\ Kept(Tier(base, mo), Whole(base, mo), Untruncated)
           /\ mo = "" => Soon(base, mo) = Whole(base, mo)
           /\ mo # "" => Kept(Whole(base, mo), Soon(base, mo), Expiring)
           /\ Kept(Soon(base, mo), Promo(base, mo), Promoted)
           /\ Whole(base, mo) \subseteq Tier(base, mo) /\ Soon(base, mo) \subseteq Whole(base, mo)
           /\ Promo(base, mo) \subseteq Soon(base, mo) /\ Fast(base, mo) \subseteq Promo(base, mo)
           /\ Fast(base, mo) = {x \in Promo(base, mo) :
                                  \A y \in Promo(base, mo) : acct[y].band <= acct[x].band}
           /\ Tied(base, mo) = {x \in Fast(base, mo) :
                                  \A y \in Fast(base, mo) : acct[y].quota <= acct[x].quota}
<1>1. Tier(base, mo) \subseteq base
  BY DEF Tier, Prefer, OfTier
<1>2. Tied(base, mo) = {x \in Fast(base, mo) :
                          \A y \in Fast(base, mo) : acct[y].quota <= acct[x].quota}
  BY DEF Tied, Fast, Promo, Soon, Whole, Highest
<1>3. Fast(base, mo) = {x \in Promo(base, mo) :
                          \A y \in Promo(base, mo) : acct[y].band <= acct[x].band}
  BY DEF Fast, Highest
<1>4. /\ Kept(Tier(base, mo), Whole(base, mo), Untruncated)
      /\ Whole(base, mo) \subseteq Tier(base, mo)
  BY <1>1 DEF Kept, Prefer, Whole, Untruncated
<1>5. /\ mo = "" => Soon(base, mo) = Whole(base, mo)
      /\ mo # "" => Kept(Whole(base, mo), Soon(base, mo), Expiring)
      /\ Soon(base, mo) \subseteq Whole(base, mo)
  BY <1>1, <1>4 DEF Kept, Prefer, Soon, Expiring
<1>6. /\ Kept(Soon(base, mo), Promo(base, mo), Promoted)
      /\ Promo(base, mo) \subseteq Soon(base, mo)
  BY <1>1, <1>4, <1>5 DEF Kept, Prefer, Promo, Promoted
<1>7. Fast(base, mo) \subseteq Promo(base, mo)
  BY <1>3
<1>8. QED  BY <1>1, <1>2, <1>3, <1>4, <1>5, <1>6, <1>7

\* The layers leave somebody of the tier.
LEMMA TiedIs ==
    ASSUME TypeOK, NEW base \in SUBSET Accounts, NEW mo
    PROVE  /\ Tied(base, mo) \subseteq Tier(base, mo) /\ Tier(base, mo) \subseteq base
           /\ Tier(base, mo) # {} => Tied(base, mo) # {}
<1>0. /\ Tier(base, mo) \subseteq base
      /\ Kept(Tier(base, mo), Whole(base, mo), Untruncated)
      /\ mo = "" => Soon(base, mo) = Whole(base, mo)
      /\ mo # "" => Kept(Whole(base, mo), Soon(base, mo), Expiring)
      /\ Kept(Soon(base, mo), Promo(base, mo), Promoted)
      /\ Whole(base, mo) \subseteq Tier(base, mo) /\ Soon(base, mo) \subseteq Whole(base, mo)
      /\ Promo(base, mo) \subseteq Soon(base, mo) /\ Fast(base, mo) \subseteq Promo(base, mo)
  BY TiedLayers
<1>6. /\ Fast(base, mo) = {x \in Promo(base, mo) :
                             \A y \in Promo(base, mo) : acct[y].band <= acct[x].band}
      /\ Tied(base, mo) = {x \in Fast(base, mo) :
                             \A y \in Fast(base, mo) : acct[y].quota <= acct[x].quota}
  BY TiedLayers
<1>1. /\ Promo(base, mo) \subseteq Accounts
      /\ Tier(base, mo) # {} => Promo(base, mo) # {}
  <2>1. Promo(base, mo) \subseteq Accounts
    BY <1>0
  <2>2. Tier(base, mo) # {} => Whole(base, mo) # {}
    BY <1>0 DEF Kept
  <2>3. Whole(base, mo) # {} => Soon(base, mo) # {}
    BY <1>0 DEF Kept
  <2>4. Soon(base, mo) # {} => Promo(base, mo) # {}
    BY <1>0 DEF Kept
  <2>5. QED  BY <2>1, <2>2, <2>3, <2>4
<1>2. Promo(base, mo) # {} => Fast(base, mo) # {}
  <2> DEFINE v == [x \in Accounts |-> acct[x].band]
  <2>1. v \in [Accounts -> Int]
    BY ProfileIs
  <2>2. ASSUME Promo(base, mo) # {}
        PROVE  \E x \in Promo(base, mo) : \A y \in Promo(base, mo) : v[y] <= v[x]
    <3> HIDE DEF v
    <3>1. QED  BY <1>1, <2>1, <2>2, BestIs
  <2>3. QED  BY <1>1, <1>6, <2>2
<1>3. Fast(base, mo) # {} => Tied(base, mo) # {}
  <2> DEFINE v == [x \in Accounts |-> acct[x].quota]
  <2>1. v \in [Accounts -> Int]
    BY ProfileIs
  <2>2. Fast(base, mo) \in SUBSET Accounts
    BY <1>0, <1>1
  <2>3. ASSUME Fast(base, mo) # {}
        PROVE  \E x \in Fast(base, mo) : \A y \in Fast(base, mo) : v[y] <= v[x]
    <3> HIDE DEF v
    <3>1. QED  BY <2>1, <2>2, <2>3, BestIs
  <2>4. QED  BY <1>6, <2>2, <2>3
<1>4. Tied(base, mo) \subseteq Tier(base, mo) /\ Tier(base, mo) \subseteq base
  BY <1>0, <1>6
<1>5. QED  BY <1>1, <1>2, <1>3, <1>4

LEMMA Remainder == ASSUME NEW c, c \in Nat, NEW k, k \in Nat \ {0} PROVE c % k \in 0 .. k - 1
  OBVIOUS

\* What a call returns, and the cursor it leaves.
LEMMA PickIs ==
    ASSUME TypeOK, NEW skip, NEW av, NEW mo, NEW c, c \in Nat
    PROVE  LET base == Base(skip, av)
               top == Tied(base, mo)
               k == Cardinality(top)
               p == Pick(skip, av, mo, c)
           IN  /\ base \in SUBSET Accounts /\ top \subseteq base /\ k \in Nat
               /\ k <= Cardinality(Accounts)
               /\ pin \in base => p.acc = pin /\ p.next = c
               /\ pin \notin base /\ top = {} => p.acc = None /\ p.next = c
               /\ pin \notin base /\ top # {} =>
                    /\ k > 0 /\ c % k \in 0 .. k - 1
                    /\ p.acc = Nth(top, c % k) /\ p.acc \in top
                    /\ p.next = ((c % k) + 1) % k /\ p.next \in 0 .. k - 1
<1> DEFINE base == Base(skip, av)
           top == Tied(base, mo)
           k == Cardinality(top)
           p == Pick(skip, av, mo, c)
<1>1. base \in SUBSET Accounts /\ top \subseteq base
  <2>1. base \in SUBSET Accounts
    BY DEF Base
  <2> HIDE DEF base
  <2>2. QED  BY <2>1, TiedIs
<1>2. p = IF pin \in base THEN [acc |-> pin, next |-> c]
          ELSE IF top = {} THEN [acc |-> None, next |-> c]
          ELSE [acc |-> Nth(top, c % k), next |-> ((c % k) + 1) % k]
  BY DEF Pick, Turn
<1> HIDE DEF base, top, p
<1>3. IsFiniteSet(top) /\ k \in Nat /\ k <= Cardinality(Accounts)
  BY <1>1, AccountsFinite, FS_Subset, FS_CardinalityType
<1>4. top # {} => k > 0
  BY <1>3, FS_EmptySet
<1> HIDE DEF k
<1>5. CASE pin \in base
  BY <1>1, <1>2, <1>3, <1>5 DEF base, top, k, p
<1>6. CASE pin \notin base /\ top = {}
  BY <1>1, <1>2, <1>3, <1>6 DEF base, top, k, p
<1>7. CASE pin \notin base /\ top # {}
  <2>1. k \in Nat \ {0} /\ c % k \in 0 .. k - 1
    BY <1>3, <1>4, <1>7, Remainder
  <2>2. (c % k) + 1 \in Nat
    BY <2>1
  <2>3. ((c % k) + 1) % k \in 0 .. k - 1
    BY <2>1, <2>2, Remainder
  <2>4. Nth(top, c % k) \in top
    BY <1>1, <2>1, NthIs DEF k
  <2>5. p.acc = Nth(top, c % k) /\ p.next = ((c % k) + 1) % k
    BY <1>2, <1>7
  <2>6. QED  BY <1>1, <1>3, <1>4, <1>7, <2>1, <2>3, <2>4, <2>5 DEF base, top, k, p
<1>8. QED  BY <1>5, <1>6, <1>7

(***************************************************************************)
(* The selection: the best of those who could serve.                       *)
(***************************************************************************)

LEMMA NotBelow5 ==
    ASSUME NEW s, NEW t, DOMAIN s = 1 .. 5,
           s[1] \in Int /\ s[2] \in Int /\ s[3] \in Int /\ s[4] \in Int /\ s[5] \in Int,
           t[1] \in Int /\ t[2] \in Int /\ t[3] \in Int /\ t[4] \in Int /\ t[5] \in Int,
           t[1] < s[1] \/ (t[1] = s[1] /\ (t[2] < s[2] \/ (t[2] = s[2] /\ (t[3] < s[3] \/
              (t[3] = s[3] /\ (t[4] < s[4] \/ (t[4] = s[4] /\ (t[5] <= s[5]))))))))
    PROVE  ~Below(s, t)
<1>1. SUFFICES ASSUME NEW i \in 1 .. 5, s[i] < t[i], \A j \in 1 .. i - 1 : s[j] = t[j] PROVE FALSE
  BY DEF Below
<1>2. CASE i = 1
  BY <1>1, <1>2
<1>3. CASE i = 2
  <2>1. s[1] = t[1]
    BY <1>1, <1>3
  <2>2. QED  BY <1>1, <1>3, <2>1
<1>4. CASE i = 3
  <2>1. s[1] = t[1] /\ s[2] = t[2]
    BY <1>1, <1>4
  <2>2. QED  BY <1>1, <1>4, <2>1
<1>5. CASE i = 4
  <2>1. s[1] = t[1] /\ s[2] = t[2] /\ s[3] = t[3]
    BY <1>1, <1>5
  <2>2. QED  BY <1>1, <1>5, <2>1
<1>6. CASE i = 5
  <2>1. s[1] = t[1] /\ s[2] = t[2] /\ s[3] = t[3] /\ s[4] = t[4]
    BY <1>1, <1>6
  <2>2. QED  BY <1>1, <1>6, <2>1
<1>7. QED  BY <1>1, <1>2, <1>3, <1>4, <1>5, <1>6

LEMMA NotBelow6 ==
    ASSUME NEW s, NEW t, DOMAIN s = 1 .. 6,
           s[1] \in Int /\ s[2] \in Int /\ s[3] \in Int /\ s[4] \in Int /\ s[5] \in Int /\ s[6] \in Int,
           t[1] \in Int /\ t[2] \in Int /\ t[3] \in Int /\ t[4] \in Int /\ t[5] \in Int /\ t[6] \in Int,
           t[1] < s[1] \/ (t[1] = s[1] /\ (t[2] < s[2] \/ (t[2] = s[2] /\ (t[3] < s[3] \/
              (t[3] = s[3] /\ (t[4] < s[4] \/ (t[4] = s[4] /\ (t[5] < s[5] \/ (t[5] = s[5]
              /\ (t[6] <= s[6]))))))))))
    PROVE  ~Below(s, t)
<1>1. SUFFICES ASSUME NEW i \in 1 .. 6, s[i] < t[i], \A j \in 1 .. i - 1 : s[j] = t[j] PROVE FALSE
  BY DEF Below
<1>2. CASE i = 1
  BY <1>1, <1>2
<1>3. CASE i = 2
  <2>1. s[1] = t[1]
    BY <1>1, <1>3
  <2>2. QED  BY <1>1, <1>3, <2>1
<1>4. CASE i = 3
  <2>1. s[1] = t[1] /\ s[2] = t[2]
    BY <1>1, <1>4
  <2>2. QED  BY <1>1, <1>4, <2>1
<1>5. CASE i = 4
  <2>1. s[1] = t[1] /\ s[2] = t[2] /\ s[3] = t[3]
    BY <1>1, <1>5
  <2>2. QED  BY <1>1, <1>5, <2>1
<1>6. CASE i = 5
  <2>1. s[1] = t[1] /\ s[2] = t[2] /\ s[3] = t[3] /\ s[4] = t[4]
    BY <1>1, <1>6
  <2>2. QED  BY <1>1, <1>6, <2>1
<1>7. CASE i = 6
  <2>1. s[1] = t[1] /\ s[2] = t[2] /\ s[3] = t[3] /\ s[4] = t[4] /\ s[5] = t[5]
    BY <1>1, <1>7
  <2>2. QED  BY <1>1, <1>7, <2>1
<1>8. QED  BY <1>1, <1>2, <1>3, <1>4, <1>5, <1>6, <1>7

Best(z) == acct[z].avail = "available"

\* The first layer: clean lines, or the tier of the model.
LEMMA TierRanks ==
    ASSUME TypeOK, NEW base \in SUBSET Accounts, NEW mo,
           NEW x \in Tier(base, mo), NEW y \in base, Serves(y, mo)
    PROVE  /\ mo = "" => \/ y \in Tier(base, mo) /\ (Clean(x) <=> Clean(y))
                         \/ Clean(x) /\ ~Clean(y)
           /\ mo # "" => \/ y \in Tier(base, mo) /\ (Best(x) <=> Best(y))
                         \/ Best(x) /\ ~Best(y)
<1>1. CASE mo = ""
  <2>1. Tier(base, mo) = IF {z \in base : Clean(z)} # {} THEN {z \in base : Clean(z)} ELSE base
    BY <1>1 DEF Tier, Prefer
  <2>2. QED  BY <1>1, <2>1
<1>2. CASE mo # ""
  <2>1. acct[y].avail \in {"available", "unknown"}
    BY <1>2, ProfileIs DEF Serves
  <2>2. QED  BY <1>2, <2>1 DEF Tier, OfTier, Best
<1>3. QED  BY <1>1, <1>2

\* The layers below it.
LEMMA LayersRank ==
    ASSUME TypeOK, NEW base \in SUBSET Accounts, NEW mo,
           NEW x \in Tied(base, mo), NEW y \in Tier(base, mo)
    PROVE  \/ ~acct[x].truncated /\ acct[y].truncated
           \/ /\ acct[x].truncated = acct[y].truncated
              /\ \/ mo # "" /\ acct[x].expiring /\ ~acct[y].expiring
                 \/ /\ mo # "" => acct[x].expiring = acct[y].expiring
                    /\ \/ acct[x].promo /\ ~acct[y].promo
                       \/ /\ acct[x].promo = acct[y].promo
                          /\ \/ acct[y].band < acct[x].band
                             \/ acct[y].band = acct[x].band /\ acct[y].quota <= acct[x].quota
<1>1. /\ Tier(base, mo) \subseteq base
      /\ Kept(Tier(base, mo), Whole(base, mo), Untruncated)
      /\ mo = "" => Soon(base, mo) = Whole(base, mo)
      /\ mo # "" => Kept(Whole(base, mo), Soon(base, mo), Expiring)
      /\ Kept(Soon(base, mo), Promo(base, mo), Promoted)
      /\ Whole(base, mo) \subseteq Tier(base, mo) /\ Soon(base, mo) \subseteq Whole(base, mo)
      /\ Promo(base, mo) \subseteq Soon(base, mo) /\ Fast(base, mo) \subseteq Promo(base, mo)
  BY TiedLayers
<1>2. /\ Fast(base, mo) = {z \in Promo(base, mo) :
                             \A w \in Promo(base, mo) : acct[w].band <= acct[z].band}
      /\ Tied(base, mo) = {z \in Fast(base, mo) :
                             \A w \in Fast(base, mo) : acct[w].quota <= acct[z].quota}
  BY TiedLayers
<1>3. /\ x \in Fast(base, mo) /\ x \in Promo(base, mo) /\ x \in Soon(base, mo)
      /\ x \in Whole(base, mo) /\ x \in Accounts /\ y \in Accounts
  BY <1>1, <1>2
<1>4. \A z \in {x, y} : /\ acct[z].truncated \in BOOLEAN /\ acct[z].expiring \in BOOLEAN
                        /\ acct[z].promo \in BOOLEAN /\ acct[z].band \in Int /\ acct[z].quota \in Int
  BY <1>3, ProfileIs
<1>5. \/ y \in Whole(base, mo) /\ acct[x].truncated = acct[y].truncated
      \/ ~acct[x].truncated /\ acct[y].truncated
  <2>1. \/ /\ y \in Whole(base, mo)
           /\ x \in Untruncated <=> y \in Untruncated
        \/ /\ x \in Untruncated
           /\ y \notin Untruncated
    BY <1>1, <1>3 DEF Kept
  <2>2. QED  BY <1>3, <1>4, <2>1 DEF Untruncated
<1>6. ASSUME y \in Whole(base, mo)
      PROVE  \/ /\ y \in Soon(base, mo)
                /\ mo # "" => acct[x].expiring = acct[y].expiring
             \/ mo # "" /\ acct[x].expiring /\ ~acct[y].expiring
  <2>1. CASE mo = ""
    BY <1>1, <1>6, <2>1
  <2>2. CASE mo # ""
    <3>1. \/ /\ y \in Soon(base, mo)
             /\ x \in Expiring <=> y \in Expiring
          \/ /\ x \in Expiring
             /\ y \notin Expiring
      BY <1>1, <1>3, <1>6, <2>2 DEF Kept
    <3>2. QED  BY <1>3, <1>4, <2>2, <3>1 DEF Expiring
  <2>3. QED  BY <2>1, <2>2
<1>7. ASSUME y \in Soon(base, mo)
      PROVE  \/ y \in Promo(base, mo) /\ acct[x].promo = acct[y].promo
             \/ acct[x].promo /\ ~acct[y].promo
  <2>1. \/ /\ y \in Promo(base, mo)
           /\ x \in Promoted <=> y \in Promoted
        \/ /\ x \in Promoted
           /\ y \notin Promoted
    BY <1>1, <1>3, <1>7 DEF Kept
  <2>2. QED  BY <1>3, <1>4, <2>1 DEF Promoted
<1>8. ASSUME y \in Promo(base, mo)
      PROVE  \/ acct[y].band < acct[x].band
             \/ acct[y].band = acct[x].band /\ acct[y].quota <= acct[x].quota
  <2>1. acct[y].band <= acct[x].band
    BY <1>2, <1>3, <1>8
  <2>2. acct[y].band = acct[x].band => y \in Fast(base, mo)
    BY <1>2, <1>3, <1>8
  <2>3. y \in Fast(base, mo) => acct[y].quota <= acct[x].quota
    BY <1>2
  <2>4. QED  BY <1>4, <2>1, <2>2, <2>3
<1>9. QED  BY <1>5, <1>6, <1>7, <1>8

LEMMA TiedBest ==
    ASSUME TypeOK, NEW base \in SUBSET Accounts, NEW mo,
           NEW x \in Tied(base, mo), NEW y \in base, Serves(y, mo)
    PROVE  ~Below(Rank(x, mo), Rank(y, mo))
<1>1. x \in Tier(base, mo) /\ x \in Accounts /\ y \in Accounts
  BY TiedIs
<1>2. \A z \in {x, y} : /\ acct[z].truncated \in BOOLEAN /\ acct[z].expiring \in BOOLEAN
                        /\ acct[z].promo \in BOOLEAN /\ acct[z].band \in Int /\ acct[z].quota \in Int
  BY <1>1, ProfileIs
<1> DEFINE Tr(z) == Flag(~acct[z].truncated)
           Ex(z) == Flag(acct[z].expiring)
           Pr(z) == Flag(acct[z].promo)
           Cl(z) == Flag(Clean(z))
           Av(z) == Flag(acct[z].avail = "available")
<1>3. \A z : /\ (~acct[z].truncated /\ Tr(z) = 1) \/ (acct[z].truncated /\ Tr(z) = 0)
  BY DEF Flag
<1>4. \A z : (acct[z].expiring /\ Ex(z) = 1) \/ (~acct[z].expiring /\ Ex(z) = 0)
  BY DEF Flag
<1>5. \A z : (acct[z].promo /\ Pr(z) = 1) \/ (~acct[z].promo /\ Pr(z) = 0)
  BY DEF Flag
<1>6. \A z : (Clean(z) /\ Cl(z) = 1) \/ (~Clean(z) /\ Cl(z) = 0)
  BY DEF Flag
<1>7. \A z : (Best(z) /\ Av(z) = 1) \/ (~Best(z) /\ Av(z) = 0)
  BY DEF Flag, Best
<1>8. mo = "" => /\ Rank(x, mo) = <<Cl(x), Tr(x), Pr(x), acct[x].band, acct[x].quota>>
                 /\ Rank(y, mo) = <<Cl(y), Tr(y), Pr(y), acct[y].band, acct[y].quota>>
  BY DEF Rank
<1>9. mo # "" => /\ Rank(x, mo) = <<Av(x), Tr(x), Ex(x), Pr(x), acct[x].band, acct[x].quota>>
                 /\ Rank(y, mo) = <<Av(y), Tr(y), Ex(y), Pr(y), acct[y].band, acct[y].quota>>
  BY DEF Rank
<1> HIDE DEF Tr, Ex, Pr, Cl, Av
<1>10. \A z \in {x, y} : /\ Tr(z) \in Int /\ Ex(z) \in Int /\ Pr(z) \in Int /\ Cl(z) \in Int
                         /\ Av(z) \in Int
  BY <1>3, <1>4, <1>5, <1>6, <1>7
<1>11. ASSUME y \in Tier(base, mo)
       PROVE  Tr(y) < Tr(x) \/ (Tr(y) = Tr(x) /\
                 ((mo # "" /\ Ex(y) < Ex(x)) \/ ((mo # "" => Ex(y) = Ex(x)) /\
                    (Pr(y) < Pr(x) \/ (Pr(y) = Pr(x) /\
                       (acct[y].band < acct[x].band
                         \/ (acct[y].band = acct[x].band /\ acct[y].quota <= acct[x].quota)))))))
  <2>1. \/ ~acct[x].truncated /\ acct[y].truncated
        \/ /\ acct[x].truncated = acct[y].truncated
           /\ \/ mo # "" /\ acct[x].expiring /\ ~acct[y].expiring
              \/ /\ mo # "" => acct[x].expiring = acct[y].expiring
                 /\ \/ acct[x].promo /\ ~acct[y].promo
                    \/ /\ acct[x].promo = acct[y].promo
                       /\ \/ acct[y].band < acct[x].band
                          \/ acct[y].band = acct[x].band /\ acct[y].quota <= acct[x].quota
    BY <1>11, LayersRank
  <2>2. /\ ~acct[x].truncated /\ acct[y].truncated => Tr(y) < Tr(x)
        /\ acct[x].truncated = acct[y].truncated => Tr(y) = Tr(x)
    BY <1>3
  <2>3. /\ acct[x].expiring /\ ~acct[y].expiring => Ex(y) < Ex(x)
        /\ acct[x].expiring = acct[y].expiring => Ex(y) = Ex(x)
    BY <1>4
  <2>4. /\ acct[x].promo /\ ~acct[y].promo => Pr(y) < Pr(x)
        /\ acct[x].promo = acct[y].promo => Pr(y) = Pr(x)
    BY <1>5
  <2>5. QED  BY <2>1, <2>2, <2>3, <2>4
<1>12. /\ acct[x].band \in Int /\ acct[x].quota \in Int /\ acct[y].band \in Int /\ acct[y].quota \in Int
       /\ Tr(x) \in Int /\ Ex(x) \in Int /\ Pr(x) \in Int /\ Cl(x) \in Int /\ Av(x) \in Int
       /\ Tr(y) \in Int /\ Ex(y) \in Int /\ Pr(y) \in Int /\ Cl(y) \in Int /\ Av(y) \in Int
  BY <1>2, <1>10
<1>13. CASE mo = ""
  <2>1. Cl(y) < Cl(x) \/ (Cl(y) = Cl(x) /\ y \in Tier(base, mo))
    <3>1. (y \in Tier(base, mo) /\ (Clean(x) <=> Clean(y))) \/ (Clean(x) /\ ~Clean(y))
      BY <1>1, <1>13, TierRanks
    <3>2. QED  BY <1>6, <3>1
  <2>2. ~Below(<<Cl(x), Tr(x), Pr(x), acct[x].band, acct[x].quota>>,
               <<Cl(y), Tr(y), Pr(y), acct[y].band, acct[y].quota>>)
    <3> DEFINE s == <<Cl(x), Tr(x), Pr(x), acct[x].band, acct[x].quota>>
               t == <<Cl(y), Tr(y), Pr(y), acct[y].band, acct[y].quota>>
    <3>1. /\ DOMAIN s = 1 .. 5
          /\ s[1] = Cl(x) /\ s[2] = Tr(x) /\ s[3] = Pr(x) /\ s[4] = acct[x].band /\ s[5] = acct[x].quota
          /\ t[1] = Cl(y) /\ t[2] = Tr(y) /\ t[3] = Pr(y) /\ t[4] = acct[y].band /\ t[5] = acct[y].quota
      OBVIOUS
    <3> HIDE DEF s, t
    <3>2. ~Below(s, t)
      BY <1>11, <1>12, <1>13, <2>1, <3>1, NotBelow5
    <3>3. QED  BY <3>2 DEF s, t
  <2>3. QED  BY <1>8, <1>13, <2>2
<1>14. CASE mo # ""
  <2>1. Av(y) < Av(x) \/ (Av(y) = Av(x) /\ y \in Tier(base, mo))
    <3>1. (y \in Tier(base, mo) /\ (Best(x) <=> Best(y))) \/ (Best(x) /\ ~Best(y))
      BY <1>1, <1>14, TierRanks
    <3>2. QED  BY <1>7, <3>1
  <2>2. ~Below(<<Av(x), Tr(x), Ex(x), Pr(x), acct[x].band, acct[x].quota>>,
               <<Av(y), Tr(y), Ex(y), Pr(y), acct[y].band, acct[y].quota>>)
    <3> DEFINE s == <<Av(x), Tr(x), Ex(x), Pr(x), acct[x].band, acct[x].quota>>
               t == <<Av(y), Tr(y), Ex(y), Pr(y), acct[y].band, acct[y].quota>>
    <3>1. /\ DOMAIN s = 1 .. 6
          /\ s[1] = Av(x) /\ s[2] = Tr(x) /\ s[3] = Ex(x) /\ s[4] = Pr(x)
          /\ s[5] = acct[x].band /\ s[6] = acct[x].quota
          /\ t[1] = Av(y) /\ t[2] = Tr(y) /\ t[3] = Ex(y) /\ t[4] = Pr(y)
          /\ t[5] = acct[y].band /\ t[6] = acct[y].quota
      OBVIOUS
    <3> HIDE DEF s, t
    <3>2. ~Below(s, t)
      BY <1>11, <1>12, <1>14, <2>1, <3>1, NotBelow6
    <3>3. QED  BY <3>2 DEF s, t
  <2>3. QED  BY <1>9, <1>14, <2>2
<1>15. QED  BY <1>13, <1>14

LEMMA PickAcc ==
    ASSUME TypeOK, NEW skip, NEW av, NEW mo, NEW c, c \in Nat
    PROVE  LET base == Base(skip, av)
               top == Tied(base, mo)
               who == Pick(skip, av, mo, c).acc
           IN  /\ base \in SUBSET Accounts /\ top \subseteq base
               /\ pin \in base => who = pin
               /\ pin \notin base /\ top = {} => who = None
               /\ pin \notin base /\ top # {} => who \in top
<1>1. LET base == Base(skip, av)
          top == Tied(base, mo)
          k == Cardinality(top)
          p == Pick(skip, av, mo, c)
      IN  /\ base \in SUBSET Accounts /\ top \subseteq base /\ k \in Nat
          /\ k <= Cardinality(Accounts)
          /\ pin \in base => p.acc = pin /\ p.next = c
          /\ pin \notin base /\ top = {} => p.acc = None /\ p.next = c
          /\ pin \notin base /\ top # {} =>
               /\ k > 0 /\ c % k \in 0 .. k - 1
               /\ p.acc = Nth(top, c % k) /\ p.acc \in top
               /\ p.next = ((c % k) + 1) % k /\ p.next \in 0 .. k - 1
  BY PickIs
<1>2. QED  BY <1>1

\* Nobody is left only when nobody untried could serve.
LEMMA TierEmpty ==
    ASSUME TypeOK, NEW skip, NEW mo, Tier(Base(skip, {}), mo) = {},
           NEW x \in Accounts \ skip
    PROVE  ~Serves(x, mo)
<1> DEFINE base == Base(skip, {})
<1>1. SUFFICES ASSUME Serves(x, mo) PROVE FALSE
  OBVIOUS
<1>2. x \in base
  BY <1>1 DEF Base, Serves
<1> HIDE DEF base
<1>3. Tier(base, mo) = {}
  BY DEF base
<1>4. CASE mo = ""
  <2>1. Tier(base, mo) = IF {z \in base : Clean(z)} # {} THEN {z \in base : Clean(z)} ELSE base
    BY <1>4 DEF Tier, Prefer
  <2>2. QED  BY <1>2, <1>3, <2>1
<1>5. CASE mo # ""
  <2>1. acct[x].avail \in {"available", "unknown"}
    BY <1>1, <1>5, ProfileIs DEF Serves
  <2>2. /\ {z \in base : acct[z].avail = "available"} = {}
        /\ {z \in base : acct[z].avail = "unknown"} = {}
    BY <1>3, <1>5 DEF Tier, OfTier
  <2>3. QED  BY <1>2, <2>1, <2>2
<1>6. QED  BY <1>4, <1>5

LEMMA Refuses == ASSUME TypeOK PROVE RefusedOnlyWhenEmpty
<1>1. SUFFICES ASSUME NEW skip \in SUBSET Accounts, NEW av \in Avoidable, NEW mo \in Models,
                      PickAvoiding(skip, av, mo, cursor[mo]).acc = None,
                      NEW x \in Accounts \ skip
               PROVE  ~Serves(x, mo)
  BY DEF RefusedOnlyWhenEmpty, EveryCall
<1> DEFINE c == cursor[mo]
<1>2. c \in Nat /\ None \notin Accounts
  BY SelectionAssumption DEF TypeOK
<1> DEFINE base == Base(skip, {})
           top == Tied(base, mo)
           p == Pick(skip, {}, mo, c)
<1>3. p.acc = None
  BY <1>1 DEF PickAvoiding
<1> HIDE DEF c
<1>4. /\ base \in SUBSET Accounts /\ top \subseteq base
      /\ pin \in base => p.acc = pin
      /\ pin \notin base /\ top # {} => p.acc \in top
  BY <1>2, PickAcc
<1> HIDE DEF p, top
<1>5. top = {}
  BY <1>2, <1>3, <1>4
<1>6. Tier(base, mo) = {}
  BY <1>4, <1>5, TiedIs DEF top
<1>7. QED  BY <1>6, TierEmpty

LEMMA Best1 == ASSUME TypeOK PROVE PicksTheBest
<1>1. SUFFICES ASSUME NEW skip \in SUBSET Accounts, NEW av \in Avoidable, NEW mo \in Models,
                      Pick(skip, av, mo, cursor[mo]).acc \notin {None, pin},
                      NEW y \in Base(skip, av), Serves(y, mo)
               PROVE  ~Below(Rank(Pick(skip, av, mo, cursor[mo]).acc, mo), Rank(y, mo))
  BY DEF PicksTheBest, EveryCall
<1> DEFINE c == cursor[mo]
<1>2. c \in Nat
  BY DEF TypeOK
<1> DEFINE base == Base(skip, av)
           top == Tied(base, mo)
           p == Pick(skip, av, mo, c)
<1> HIDE DEF c
<1>3. /\ base \in SUBSET Accounts
      /\ pin \in base => p.acc = pin
      /\ pin \notin base /\ top = {} => p.acc = None
      /\ pin \notin base /\ top # {} => p.acc \in top
  BY <1>2, PickAcc
<1>4. p.acc \notin {None, pin}
  BY <1>1 DEF c
<1> HIDE DEF p, top
<1>5. p.acc \in top
  BY <1>3, <1>4
<1>6. y \in base /\ Serves(y, mo)
  BY <1>1
<1> HIDE DEF base
<1>7. ~Below(Rank(p.acc, mo), Rank(y, mo))
  BY <1>3, <1>5, <1>6, TiedBest DEF top
<1>8. QED  BY <1>7 DEF p, c

(***************************************************************************)
(* The selection: its type is invariant.                                   *)
(***************************************************************************)

LEMMA NextCursor ==
    ASSUME TypeOK, NEW skip, NEW av, NEW mo \in Models
    PROVE  LET q == PickAvoiding(skip, av, mo, cursor[mo]).next
           IN  q \in Nat /\ (q = 0 \/ q < Cardinality(Accounts))
<1> DEFINE c == cursor[mo]
           N == Cardinality(Accounts)
<1>1. c \in Nat /\ (c = 0 \/ c < N) /\ N \in Nat
  BY AccountsFinite DEF TypeOK
<1> HIDE DEF c, N
<1>2. ASSUME NEW w
      PROVE  LET p == Pick(skip, w, mo, c).next IN p \in Nat /\ (p = 0 \/ p < N)
  <2> DEFINE k == Cardinality(Tied(Base(skip, w), mo))
             p == Pick(skip, w, mo, c)
  <2>1. k \in Nat /\ k <= N /\ (p.next = c \/ p.next \in 0 .. k - 1)
    BY <1>1, PickIs DEF N
  <2> HIDE DEF k, p
  <2>2. p.next \in Nat /\ (p.next = 0 \/ p.next < N)
    BY <1>1, <2>1
  <2>3. QED  BY <2>2 DEF p
<1>3. \/ PickAvoiding(skip, av, mo, c) = Pick(skip, av, mo, c)
      \/ PickAvoiding(skip, av, mo, c) = Pick(skip, {}, mo, c)
  BY DEF PickAvoiding
<1>4. QED  BY <1>2, <1>3 DEF c, N

LEMMA SelectionTyped == ASSUME TypeOK, [Next]_vars PROVE TypeOK'
<1>1. Accounts' = Accounts
  OBVIOUS
<1>2. CASE UNCHANGED vars
  BY <1>2 DEF TypeOK, vars
<1>3. ASSUME NEW skip \in SUBSET Accounts, NEW av \in Avoidable, NEW mo \in Models,
             Select(skip, av, mo)
      PROVE  TypeOK'
  <2> DEFINE q == PickAvoiding(skip, av, mo, cursor[mo]).next
  <2>1. q \in Nat /\ (q = 0 \/ q < Cardinality(Accounts))
    BY NextCursor
  <2>2. cursor' = [cursor EXCEPT ![mo] = q] /\ UNCHANGED <<acct, blocked, pin>>
    BY <1>3 DEF Select
  <2> HIDE DEF q
  <2>3. QED  BY <2>1, <2>2 DEF TypeOK
<1>4. ASSUME NEW x \in Accounts, NEW f \in Profiles, Change(x, f) PROVE TypeOK'
  BY <1>4 DEF TypeOK, Change
<1>5. ASSUME NEW l \in Lines, Quarantine(l) PROVE TypeOK'
  BY <1>5 DEF TypeOK, Quarantine
<1>6. ASSUME NEW x \in Accounts, PinAccount(x) PROVE TypeOK'
  BY <1>6 DEF TypeOK, PinAccount
<1>7. CASE UnpinAccount
  BY <1>7 DEF TypeOK, UnpinAccount
<1>8. QED  BY <1>2, <1>3, <1>4, <1>5, <1>6, <1>7 DEF Next

LEMMA SelectionStays == RunSpec => []TypeOK
<1>1. RunInit => TypeOK
  <2>1. Init => TypeOK
    BY DEF Init, TypeOK
  <2>2. QED  BY <2>1 DEF RunInit
<1>2. TypeOK /\ [RunNext]_allVars => TypeOK'
  <2>1. [RunNext]_allVars => [Next]_vars
    BY DEF RunNext, Choice, Loop, Convert, allVars
  <2>2. QED  BY <2>1, SelectionTyped
<1>3. QED  BY <1>1, <1>2, PTL DEF RunSpec

(* A request is refused only when no untried account could serve it, and whom
   the pin does not choose is a maximum of one lexicographic order, whatever
   marks, quotas, quarantines and pins other calls left (store.go,
   selectAccount, SelectAvoiding). *)
THEOREM GatewayChoosesWell == RunSpec => []ChoosesWell
<1>1. TypeOK => ChoosesWell
  BY Refuses, Best1 DEF ChoosesWell
<1>2. QED  BY <1>1, SelectionStays, PTL

(***************************************************************************)
(* The selection: turns.                                                   *)
(***************************************************************************)

\* i counted round among k.
Wrap(i, k) == IF i >= k THEN i - k ELSE i

LEMMA TurnIs ==
    ASSUME NEW k, k \in Nat \ {0}, NEW i, i \in 0 .. k - 1
    PROVE  i % k = i /\ (i + 1) % k = Wrap(i + 1, k)
<1>1. i % k = i
  OBVIOUS
<1>2. CASE i + 1 = k
  <2>1. k % k = 0
    OBVIOUS
  <2>2. QED  BY <1>1, <1>2, <2>1 DEF Wrap
<1>3. CASE i + 1 < k
  <2>1. (i + 1) % k = i + 1
    BY <1>3
  <2>2. QED  BY <1>1, <1>3, <2>1 DEF Wrap
<1>4. QED  BY <1>2, <1>3

\* Without a pin every call picks among the same accounts, and its cursor says whom.
LEMMA TurnPick ==
    ASSUME TypeOK, pin = None, NEW skip, NEW av, NEW mo, NEW c, c \in Nat,
           TiedFor(skip, av, mo) # {}
    PROVE  LET top == TiedFor(skip, av, mo)
               k == Cardinality(top)
               p == PickAvoiding(skip, av, mo, c)
           IN  /\ p.acc = Nth(top, c % k) /\ p.next = ((c % k) + 1) % k
<1>1. None \notin Accounts
  BY SelectionAssumption
<1> DEFINE first == Tied(Base(skip, av), mo)
           all == Tied(Base(skip, {}), mo)
<1>2. ASSUME NEW w
      PROVE  LET top == Tied(Base(skip, w), mo)
                 k == Cardinality(top)
                 p == Pick(skip, w, mo, c)
             IN  /\ top \in SUBSET Accounts
                 /\ top = {} => p.acc = None
                 /\ top # {} => p.acc = Nth(top, c % k) /\ p.next = ((c % k) + 1) % k /\ p.acc # None
  <2> DEFINE base == Base(skip, w)
  <2>1. base \in SUBSET Accounts /\ pin \notin base
    BY <1>1 DEF Base
  <2> HIDE DEF base
  <2>2. Tied(base, mo) \in SUBSET Accounts
    BY <2>1, TiedIs
  <2> DEFINE top == Tied(base, mo)
             k == Cardinality(top)
             p == Pick(skip, w, mo, c)
  <2>3. /\ top = {} => p.acc = None
        /\ top # {} => p.acc = Nth(top, c % k) /\ p.next = ((c % k) + 1) % k /\ p.acc \in top
    BY <2>1, PickIs DEF base
  <2> HIDE DEF top, k, p
  <2>4. top # {} => p.acc # None
    BY <1>1, <2>2, <2>3 DEF top
  <2>5. QED  BY <2>2, <2>3, <2>4 DEF top, k, p, base
<1>3. CASE first # {}
  <2>1. TiedFor(skip, av, mo) = first
    BY <1>3 DEF TiedFor
  <2>2. PickAvoiding(skip, av, mo, c) = Pick(skip, av, mo, c)
    BY <1>2, <1>3 DEF PickAvoiding
  <2>3. QED  BY <1>2, <1>3, <2>1, <2>2
<1>4. CASE first = {}
  <2>1. TiedFor(skip, av, mo) = all
    BY <1>4 DEF TiedFor
  <2>2. all # {} /\ av # {}
    BY <1>4, <2>1
  <2>3. PickAvoiding(skip, av, mo, c) = Pick(skip, {}, mo, c)
    BY <1>2, <1>4, <2>2 DEF PickAvoiding
  <2>4. QED  BY <1>2, <2>1, <2>2, <2>3
<1>5. QED  BY <1>3, <1>4

\* The cursors of calls in a row are those of any function that follows the calls.
LEMMA RowIs ==
    ASSUME NEW skip, NEW av, NEW mo, NEW k \in Nat, NEW g,
           g = [i \in 0 .. k |-> IF i = 0 THEN cursor[mo]
                                 ELSE PickAvoiding(skip, av, mo, g[i - 1]).next]
    PROVE  InARow(k, skip, av, mo) = [i \in 1 .. k |-> PickAvoiding(skip, av, mo, g[i - 1]).acc]
<1> DEFINE Then(z) == PickAvoiding(skip, av, mo, z).next
           Follows(h) == h = [i \in 0 .. k |-> IF i = 0 THEN cursor[mo] ELSE Then(h[i - 1])]
           r == CHOOSE h : Follows(h)
<1>1. InARow(k, skip, av, mo) = [i \in 1 .. k |-> PickAvoiding(skip, av, mo, r[i - 1]).acc]
  BY DEF InARow
<1>2. Follows(g)
  OBVIOUS
<1>3. Follows(r)
  BY <1>2
<1> HIDE DEF r, Then
<1>4. \A i \in 0 .. k : r[i] = g[i]
  <2> DEFINE D == {i \in 0 .. k : r[i] # g[i]}
  <2>1. SUFFICES ASSUME D # {} PROVE FALSE
    OBVIOUS
  <2>2. D \in SUBSET Nat
    OBVIOUS
  <2> HIDE DEF D
  <2>3. PICK j \in D : \A y \in D : j <= y
    BY <2>1, <2>2, LeastNat
  <2>4. j \in 0 .. k /\ r[j] # g[j]
    BY <2>3 DEF D
  <2>5. r[0] = cursor[mo] /\ g[0] = cursor[mo]
    BY <1>2, <1>3
  <2>6. j # 0 /\ j - 1 \in 0 .. k
    BY <2>4, <2>5
  <2>7. r[j - 1] = g[j - 1]
    BY <2>3, <2>4, <2>6 DEF D
  <2>8. r[j] = Then(r[j - 1]) /\ g[j] = Then(g[j - 1])
    BY <1>2, <1>3, <2>4, <2>6
  <2>9. QED  BY <2>4, <2>7, <2>8
<1>5. \A i \in 1 .. k : r[i - 1] = g[i - 1]
  BY <1>4
<1>6. QED  BY <1>1, <1>5

LEMMA RoundOnce ==
    ASSUME TypeOK, pin = None, NEW skip, NEW av, NEW mo \in Models, NEW top, NEW k,
           top = TiedFor(skip, av, mo), k = Cardinality(top), top \in SUBSET Accounts, top # {},
           k \in Nat \ {0}
    PROVE  Range(InARow(k, skip, av, mo)) = top
<1> DEFINE c == cursor[mo]
           q == c % k
           g == [i \in 0 .. k |-> IF i = 0 THEN c ELSE Wrap(q + i, k)]
           P(z) == PickAvoiding(skip, av, mo, z)
<1>1. c \in Nat
  BY DEF TypeOK
<1> HIDE DEF c
<1>2. q \in 0 .. k - 1
  BY <1>1, Remainder
<1>3. \A z : z \in Nat => P(z).acc = Nth(top, z % k) /\ P(z).next = ((z % k) + 1) % k
  BY TurnPick
<1> HIDE DEF q, P
<1>4. P(c).acc = Nth(top, q) /\ P(c).next = Wrap(q + 1, k)
  <2>1. (q + 1) % k = Wrap(q + 1, k)
    BY <1>2, TurnIs
  <2>2. QED  BY <1>1, <1>3, <2>1 DEF q
<1>5. ASSUME NEW i \in 0 .. k - 1
      PROVE  /\ P(Wrap(q + i, k)).acc = Nth(top, Wrap(q + i, k))
             /\ P(Wrap(q + i, k)).next = Wrap(q + i + 1, k)
  <2> DEFINE w == Wrap(q + i, k)
  <2>1. w \in 0 .. k - 1 /\ Wrap(w + 1, k) = Wrap(q + i + 1, k)
    BY <1>2 DEF Wrap
  <2> HIDE DEF w
  <2>2. w \in Nat /\ w % k = w /\ (w + 1) % k = Wrap(w + 1, k)
    BY <2>1, TurnIs
  <2>3. QED  BY <1>3, <2>1, <2>2 DEF w
<1>6. \A i \in 1 .. k : g[i - 1] = IF i = 1 THEN c ELSE Wrap(q + (i - 1), k)
  OBVIOUS
<1>7. g = [i \in 0 .. k |-> IF i = 0 THEN c ELSE P(g[i - 1]).next]
  <2>1. ASSUME NEW i \in 1 .. k PROVE Wrap(q + i, k) = P(g[i - 1]).next
    <3>1. CASE i = 1
      BY <1>4, <1>6, <3>1
    <3>2. CASE i # 1
      <4>1. i - 1 \in 0 .. k - 1 /\ q + (i - 1) + 1 = q + i /\ g[i - 1] = Wrap(q + (i - 1), k)
        BY <1>2, <1>6, <3>2
      <4>2. P(Wrap(q + (i - 1), k)).next = Wrap(q + (i - 1) + 1, k)
        BY <1>5, <4>1
      <4>3. QED  BY <4>1, <4>2
    <3>3. QED  BY <3>1, <3>2
  <2>2. QED  BY <2>1
<1>8. ASSUME NEW i \in 1 .. k PROVE P(g[i - 1]).acc = Nth(top, Wrap(q + (i - 1), k))
  <2>1. CASE i = 1
    <3>1. Wrap(q + (i - 1), k) = q
      BY <1>2, <2>1 DEF Wrap
    <3>2. QED  BY <1>4, <1>6, <2>1, <3>1
  <2>2. CASE i # 1
    <3>1. i - 1 \in 0 .. k - 1 /\ g[i - 1] = Wrap(q + (i - 1), k)
      BY <1>6, <2>2
    <3>2. QED  BY <1>5, <3>1
  <2>3. QED  BY <2>1, <2>2
<1>9. InARow(k, skip, av, mo) = [i \in 1 .. k |-> P(g[i - 1]).acc]
  <2> HIDE DEF g
  <2>1. g = [i \in 0 .. k |-> IF i = 0 THEN cursor[mo]
                              ELSE PickAvoiding(skip, av, mo, g[i - 1]).next]
    BY <1>7 DEF P, c
  <2>2. QED  BY <2>1, RowIs DEF P
<1> HIDE DEF g
<1>10. Range(InARow(k, skip, av, mo)) = {Nth(top, Wrap(q + (i - 1), k)) : i \in 1 .. k}
  BY <1>8, <1>9 DEF Range
<1>11. \A i \in 1 .. k : Wrap(q + (i - 1), k) \in 0 .. k - 1
  BY <1>2 DEF Wrap
<1>12. \A j \in 0 .. k - 1 : \E i \in 1 .. k : Wrap(q + (i - 1), k) = j
  <2>1. ASSUME NEW j \in 0 .. k - 1 PROVE \E i \in 1 .. k : Wrap(q + (i - 1), k) = j
    <3>1. CASE j >= q
      <4>1. j - q + 1 \in 1 .. k /\ Wrap(q + ((j - q + 1) - 1), k) = j
        BY <1>2, <3>1 DEF Wrap
      <4>2. QED  BY <4>1
    <3>2. CASE j < q
      <4>1. j - q + k + 1 \in 1 .. k /\ Wrap(q + ((j - q + k + 1) - 1), k) = j
        BY <1>2, <3>2 DEF Wrap
      <4>2. QED  BY <4>1
    <3>3. QED  BY <1>2, <3>1, <3>2
  <2>2. QED  BY <2>1
<1>13. {Nth(top, Wrap(q + (i - 1), k)) : i \in 1 .. k} = {Nth(top, j) : j \in 0 .. k - 1}
  BY <1>11, <1>12
<1>14. {Nth(top, j) : j \in 0 .. k - 1} = top
  <2>1. \A j \in 0 .. k - 1 : Nth(top, j) \in top
    BY NthIs
  <2>2. \A x \in top : Place(top, x) \in 0 .. k - 1 /\ Nth(top, Place(top, x)) = x
    BY NthIs, PlaceIs
  <2>3. QED  BY <2>1, <2>2
<1>15. QED  BY <1>10, <1>13, <1>14

LEMMA Turns == ASSUME TypeOK PROVE TakesTurns
<1>1. SUFFICES ASSUME NEW skip \in SUBSET Accounts, NEW av \in Avoidable, NEW mo \in Models,
                      pin = None
               PROVE  LET top == TiedFor(skip, av, mo)
                      IN  Range(InARow(Cardinality(top), skip, av, mo)) = top
  BY DEF TakesTurns, EveryCall
<1> DEFINE top == TiedFor(skip, av, mo)
           k == Cardinality(top)
<1>2. top \in SUBSET Accounts
  <2>1. \A w : Base(skip, w) \in SUBSET Accounts
    BY DEF Base
  <2>2. \A w : Tied(Base(skip, w), mo) \in SUBSET Accounts
    BY <2>1, TiedIs
  <2>3. QED  BY <2>2 DEF TiedFor
<1> HIDE DEF top
<1>3. k \in Nat /\ (top = {} => k = 0) /\ (top # {} => k # 0)
  <2>1. IsFiniteSet(top)
    BY <1>2, AccountsFinite, FS_Subset
  <2>2. QED  BY <2>1, FS_CardinalityType, FS_EmptySet
<1> HIDE DEF k
<1>4. CASE top = {}
  <2>1. InARow(k, skip, av, mo) = <<>> /\ k = 0
    BY <1>3, <1>4 DEF InARow
  <2>2. Range(InARow(k, skip, av, mo)) = {}
    BY <2>1 DEF Range
  <2>3. QED  BY <1>4, <2>2 DEF top, k
<1>5. CASE top # {}
  <2>1. k = Cardinality(top) /\ top = TiedFor(skip, av, mo)
    BY DEF k, top
  <2>2. Range(InARow(k, skip, av, mo)) = top
    BY <1>1, <1>2, <1>3, <1>5, <2>1, RoundOnce
  <2>3. QED  BY <2>2 DEF top, k
<1>6. QED  BY <1>4, <1>5

(* Wherever other calls left the cursor of a model, a call repeated over an
   unchanged pool goes round its equals before it picks one again (store.go,
   selectAccount, s.rotation). *)
THEOREM GatewaySharesLoad == RunSpec => []SharesLoad
<1>1. TypeOK => SharesLoad
  BY Turns DEF SharesLoad
<1>2. QED  BY <1>1, SelectionStays, PTL

===============================================================================
