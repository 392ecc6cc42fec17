----------------------------- MODULE StreamsProof -----------------------------
(***************************************************************************)
(* Asynchronous tickets and synchronous streams.  The work on one ticket     *)
(* keeps within its budgets and its protocol, for any accounts, lines and    *)
(* budgets; in the table of tickets the status of each tells the truth, its  *)
(* client is sent a run of the protocol, and nothing runs once Close has     *)
(* returned, for any number of tickets and other requests.  The client of a  *)
(* synchronous stream reads one story and never half a tool call, for any    *)
(* number of attempts, of events and any size of the buffer.  The theorems   *)
(* are about the composed run: whatever part of it moves, each other part    *)
(* sees a step of its own or none.                                           *)
(***************************************************************************)
EXTENDS MCStreams, FiniteSetTheorems, SequenceTheorems, WellFoundedInduction, TLAPS

Budgets ==
    /\ MaxRetries \in Nat /\ MaxCaptcha \in Nat \ {0} /\ MaxTimeouts \in Nat
    /\ MaxRate \in Nat /\ MaxBusy \in Nat /\ MaxOverload \in Nat

(***************************************************************************)
(* The arithmetic of the nested budgets.                                   *)
(***************************************************************************)

\* Requests between two captchas, and between two accounts, at most.
Round == 1 + MaxRate + MaxBusy + MaxOverload
PerAccount == MaxCaptcha * Round

\* Requests that r accounts, and c captchas of the same account, may have cost.
OfAccounts(r) == r * PerAccount
OfCaptchas(c) == c * Round

LEMMA RoundType == Budgets => Round \in Nat /\ Round > 0 /\ PerAccount \in Nat
<1> SUFFICES ASSUME Budgets PROVE Round \in Nat /\ Round > 0 /\ PerAccount \in Nat
  OBVIOUS
<1>1. Round \in Nat /\ Round > 0
  BY DEF Budgets, Round
<1>2. PerAccount \in Nat
  BY <1>1 DEF Budgets, PerAccount
<1>3. QED  BY <1>1, <1>2

LEMMA NextAccount ==
    ASSUME Budgets, NEW r \in Nat
    PROVE  /\ OfAccounts(r) \in Nat /\ OfAccounts(0) = 0
           /\ OfAccounts(r + 1) = OfAccounts(r) + PerAccount
<1>1. PerAccount \in Nat  BY RoundType
<1>2. \A p \in Nat : r * p \in Nat /\ 0 * p = 0 /\ (r + 1) * p = r * p + p
  OBVIOUS
<1>3. QED  BY <1>1, <1>2 DEF OfAccounts

LEMMA NextCaptcha ==
    ASSUME Budgets, NEW c \in Nat
    PROVE  /\ OfCaptchas(c) \in Nat /\ OfCaptchas(0) = 0
           /\ OfCaptchas(c + 1) = OfCaptchas(c) + Round
           /\ c < MaxCaptcha => OfCaptchas(c) + Round <= PerAccount
<1>1. Round \in Nat  BY RoundType
<1>2. \A p \in Nat : c * p \in Nat /\ 0 * p = 0 /\ (c + 1) * p = c * p + p
  OBVIOUS
<1>3. c < MaxCaptcha => OfCaptchas(c) + Round <= PerAccount
  <2> SUFFICES ASSUME c < MaxCaptcha PROVE (c + 1) * Round <= MaxCaptcha * Round
    BY <1>1, <1>2 DEF OfCaptchas, PerAccount
  <2>1. \A p, i, j \in Nat : i <= j => i * p <= j * p
    OBVIOUS
  <2>2. QED  BY <1>1, <2>1 DEF Budgets
<1>4. QED  BY <1>1, <1>2, <1>3 DEF OfCaptchas

LEMMA WithinBudget ==
    ASSUME Budgets, NEW r \in Nat, r <= MaxRetries
    PROVE  OfAccounts(r) + PerAccount <= AT!Budget /\ AT!Budget \in Nat
<1>1. PerAccount \in Nat /\ Round \in Nat  BY RoundType
<1>2. AT!Budget = (MaxRetries + 1) * PerAccount
  <2>1. \A i, j, k \in Nat : (i * j) * k = i * (j * k)
    OBVIOUS
  <2>2. QED  BY <1>1, <2>1 DEF AT!Budget, PerAccount, Round, Budgets
<1>3. \A p, i, j \in Nat : i <= j => i * p <= j * p
  OBVIOUS
<1>4. (r + 1) * PerAccount <= (MaxRetries + 1) * PerAccount
  BY <1>1, <1>3 DEF Budgets
<1>5. (MaxRetries + 1) * PerAccount \in Nat
  BY <1>1 DEF Budgets
<1>6. QED  BY <1>2, <1>4, <1>5, NextAccount DEF OfAccounts

\* The instance of the ticket counts as everybody does.
LEMMA SameCount == ASSUME NEW S  PROVE AT!Cardinality(S) = Cardinality(S)
  BY DEF AT!Cardinality, Cardinality

(***************************************************************************)
(* The work on the ticket.                                                 *)
(***************************************************************************)

\* The jwt accounts tried so far are paid for by the retries of the ticket.
Accountable ==
    /\ IsFiniteSet(tried \cap Jwt)
    /\ AT!Cardinality(tried \cap Jwt)
        <= atN.retries + (IF atPc \in {"start", "top", "select"} THEN 0 ELSE 1)

\* So are the requests, by the retries, the captchas and the three counters of a captcha.
Used ==
    IF atPc \in {"start", "top", "select"} THEN 0
    ELSE IF atPc = "captcha" THEN OfCaptchas(atN.captcha)
    ELSE IF atPc = "attempt" THEN OfCaptchas(atN.captcha) + atN.rate + atN.busy + atN.overload
    ELSE PerAccount

Paid == requests <= OfAccounts(atN.retries) + Used

\* What has been emitted, said and booked agrees with the place of the work.
Told ==
    /\ atPc = "ended" \/ atPhase \in {"fresh", "ready", "streaming"}
    /\ atPc \in {"attempt", "stream"} => atPhase # "fresh"
    /\ atPc = "stream" /\ stream.chunks /\ reader = "here" => atPhase = "streaming"
    /\ stream.chunks \/ recorded => atPc \in {"stream", "ended"}
    /\ recorded => atPc = "ended"
    /\ stream.final => stream.chunks
    /\ atPc # "ended" => usage = 0

TicketInv == AT!TypeOK /\ AT!VerdictDelivered /\ AT!UsageOnce /\ Told /\ Accountable /\ Paid

LEMMA InitTicket == Budgets /\ AT!Init => TicketInv
<1> SUFFICES ASSUME Budgets, AT!Init PROVE TicketInv
  OBVIOUS
<1>1. tried \cap Jwt = {} /\ AT!Cardinality({}) = 0 /\ IsFiniteSet({})
  BY FS_EmptySet, SameCount DEF AT!Init
<1>2. AT!TypeOK
  <2>1. recorded \in BOOLEAN /\ stream \in [chunks : BOOLEAN, final : BOOLEAN]
    BY Zenon DEF AT!Init, AT!NoStream
  <2>2. QED  BY <2>1 DEF AT!Init, AT!TypeOK, AT!Counters, Budgets
<1>3. Paid
  BY NextAccount DEF AT!Init, Paid, Used
<1>4. QED
  BY <1>1, <1>2, <1>3 DEF AT!Init, TicketInv, AT!VerdictDelivered, AT!UsageOnce, Told,
      Accountable,
    AT!NoStream

\* What the counters stand for, at any place of the work.
LEMMA Bill ==
    ASSUME Budgets, AT!TypeOK
    PROVE  /\ OfCaptchas(0) = 0 /\ OfCaptchas(atN.captcha) \in Nat
           /\ OfCaptchas(atN.captcha + 1) = OfCaptchas(atN.captcha) + Round
           /\ OfCaptchas(atN.captcha) + Round <= PerAccount
           /\ OfAccounts(atN.retries) \in Nat
           /\ OfAccounts(atN.retries + 1) = OfAccounts(atN.retries) + PerAccount
           /\ OfAccounts(atN.retries) + PerAccount <= AT!Budget /\ AT!Budget \in Nat
           /\ PerAccount \in Nat /\ Round \in Nat
           /\ atN.rate + atN.busy + atN.overload + 1 <= Round
<1>1. /\ atN.retries \in Nat /\ atN.retries <= MaxRetries
      /\ atN.captcha \in Nat /\ atN.captcha < MaxCaptcha
      /\ atN.rate \in Nat /\ atN.busy \in Nat /\ atN.overload \in Nat
  BY DEF AT!TypeOK, Budgets
<1>2. atN.rate + atN.busy + atN.overload + 1 <= Round
  BY <1>1 DEF AT!TypeOK, Budgets, Round
<1>3. QED  BY <1>1, <1>2, RoundType, NextCaptcha, NextAccount, WithinBudget

\* The number of the accounts is a number.
LEMMA Tally == ASSUME Accountable  PROVE AT!Cardinality(tried \cap Jwt) \in Nat
  BY FS_CardinalityType, SameCount DEF Accountable

LEMMA TallyIsNat == ASSUME NEW S, IsFiniteSet(S)  PROVE AT!Cardinality(S) \in Nat
BY FS_CardinalityType, SameCount

LEMMA OneMore ==
    ASSUME NEW S, NEW a, IsFiniteSet(S)
    PROVE  IsFiniteSet(S \cup {a}) /\ AT!Cardinality(S \cup {a}) <= AT!Cardinality(S) + 1
<1>1. Cardinality(S) \in Nat
  BY FS_CardinalityType
<1>2. IsFiniteSet(S \cup {a}) /\ Cardinality(S \cup {a}) <= Cardinality(S) + 1
  BY <1>1, FS_AddElement
<1>3. QED  BY <1>2, SameCount

\* An answer costs one request, which the account has left.
LEMMA Asked ==
    ASSUME Budgets, TicketInv, AT!Answer
    PROVE  /\ atPc = "attempt" /\ usage' = usage
           /\ requests' \in Nat /\ requests' <= requests + 1
           /\ requests' <= OfAccounts(atN.retries) + PerAccount
           /\ requests' <= OfAccounts(atN.retries) + OfCaptchas(atN.captcha) + Round
<1>1. atPc = "attempt" /\ usage' = usage /\ requests \in Nat
  BY DEF AT!Answer, TicketInv, AT!TypeOK
<1>2. requests' \in {requests + 1, AT!Budget + 1} /\ requests' <= requests + 1
  <2>1. \A i, j \in Nat : AT!Min({i, j}) \in {i, j} /\ AT!Min({i, j}) <= i
    BY DEF AT!Min
  <2>2. AT!Budget \in Nat
    BY Bill DEF TicketInv
  <2>3. QED  BY <1>1, <2>1, <2>2 DEF AT!Answer
<1>3. requests <= OfAccounts(atN.retries) + OfCaptchas(atN.captcha) + atN.rate + atN.busy + atN.overload
  BY <1>1, Bill DEF TicketInv, AT!TypeOK, Budgets, Paid, Used
<1>4. QED
  BY <1>1, <1>2, <1>3, Bill DEF TicketInv, AT!TypeOK, Budgets

LEMMA BeginInv == ASSUME Budgets, TicketInv, AT!Begin  PROVE TicketInv'
<1> USE Bill, Tally DEF TicketInv, AT!TypeOK, AT!Counters, Budgets, AT!Begin, AT!Quit,
    AT!Fail, AT!EmitError, AT!Alive, AT!envVars, AT!ghosts
<1>1. AT!TypeOK'
  OBVIOUS
<1>2. AT!VerdictDelivered' /\ AT!UsageOnce' /\ Told'
  BY DEF AT!VerdictDelivered, AT!UsageOnce, Told
<1>3. Accountable'
  <2>1. UNCHANGED <<tried, atN>> /\ atPc = "start"
    OBVIOUS
  <2>2. QED  BY <2>1 DEF Accountable
<1>4. Paid'
  BY DEF Paid, Used
<1>5. QED  BY <1>1, <1>2, <1>3, <1>4

LEMMA TopInv == ASSUME Budgets, TicketInv, AT!Top  PROVE TicketInv'
<1> USE Bill, Tally DEF TicketInv, AT!TypeOK, AT!Counters, Budgets, AT!Top, AT!Alive,
    AT!envVars, AT!ghosts
<1>1. AT!TypeOK'
  OBVIOUS
<1>2. AT!VerdictDelivered' /\ AT!UsageOnce' /\ Told'
  BY DEF AT!VerdictDelivered, AT!UsageOnce, Told
<1>3. Accountable'
  BY DEF Accountable
<1>4. Paid'
  BY DEF Paid, Used
<1>5. QED  BY <1>1, <1>2, <1>3, <1>4

LEMMA SelectNoneInv == ASSUME Budgets, TicketInv, AT!SelectNone  PROVE TicketInv'
<1> USE Bill, Tally DEF TicketInv, AT!TypeOK, AT!Counters, Budgets, AT!SelectNone, AT!Fail,
    AT!EmitError, AT!Alive, AT!envVars, AT!ghosts
<1>1. AT!TypeOK'
  OBVIOUS
<1>2. AT!VerdictDelivered' /\ AT!UsageOnce' /\ Told'
  BY DEF AT!VerdictDelivered, AT!UsageOnce, Told
<1>3. Accountable'
  BY DEF Accountable
<1>4. Paid'
  BY DEF Paid, Used
<1>5. QED  BY <1>1, <1>2, <1>3, <1>4

LEMMA CaptchaFailedInv == ASSUME Budgets, TicketInv, AT!CaptchaFailed  PROVE TicketInv'
<1> USE Bill, Tally DEF TicketInv, AT!TypeOK, AT!Counters, Budgets, AT!CaptchaFailed,
    AT!NextCaptcha, AT!Fail, AT!EmitError, AT!Alive, AT!envVars, AT!ghosts
<1>1. AT!TypeOK'
  OBVIOUS
<1>2. AT!VerdictDelivered' /\ AT!UsageOnce' /\ Told'
  BY DEF AT!VerdictDelivered, AT!UsageOnce, Told
<1>3. Accountable'
  BY DEF Accountable
<1>4. Paid'
  BY DEF Paid, Used
<1>5. QED  BY <1>1, <1>2, <1>3, <1>4

LEMMA BuildFailedInv == ASSUME Budgets, TicketInv, AT!BuildFailed  PROVE TicketInv'
<1> USE Bill, Tally DEF TicketInv, AT!TypeOK, AT!Counters, Budgets, AT!BuildFailed, AT!Fail,
    AT!EmitError, AT!Alive, AT!envVars, AT!ghosts
<1>1. AT!TypeOK'
  OBVIOUS
<1>2. AT!VerdictDelivered' /\ AT!UsageOnce' /\ Told'
  BY DEF AT!VerdictDelivered, AT!UsageOnce, Told
<1>3. Accountable'
  BY DEF Accountable
<1>4. Paid'
  BY DEF Paid, Used
<1>5. QED  BY <1>1, <1>2, <1>3, <1>4

LEMMA SelectAccountInv == ASSUME Budgets, TicketInv, NEW a \in Accounts,
    AT!SelectAccount(a)  PROVE TicketInv'
<1> USE Bill, Tally DEF TicketInv, AT!TypeOK, AT!Counters, Budgets, AT!SelectAccount, AT!ghosts
<1>1. AT!TypeOK'
  OBVIOUS
<1>2. AT!VerdictDelivered' /\ AT!UsageOnce' /\ Told'
  BY DEF AT!VerdictDelivered, AT!UsageOnce, Told
<1>3. Accountable'
  <2>1. CASE a \in Jwt
    <3>1. tried' \cap Jwt = (tried \cap Jwt) \cup {a} /\ atN'.retries = atN.retries
      BY <2>1
    <3>2. IsFiniteSet(tried \cap Jwt)
      BY DEF Accountable
    <3>3. /\ IsFiniteSet((tried \cap Jwt) \cup {a})
          /\ AT!Cardinality((tried \cap Jwt) \cup {a}) <= AT!Cardinality(tried \cap Jwt) + 1
      <4> HIDE DEF TicketInv, AT!TypeOK, AT!Counters, Budgets, AT!SelectAccount, AT!ghosts
      <4> QED  BY <3>2, OneMore
    <3>4. AT!Cardinality((tried \cap Jwt) \cup {a}) \in Nat
      BY <3>3, TallyIsNat
    <3>5. AT!Cardinality(tried \cap Jwt) <= atN.retries
      BY DEF Accountable
    <3>6. atPc' \notin {"start", "top", "select"} /\ atN.retries \in Nat
      BY <2>1
    <3>7. AT!Cardinality(tried \cap Jwt) \in Nat
      BY <3>2, TallyIsNat
    <3>8. /\ IsFiniteSet(tried' \cap Jwt)
          /\ AT!Cardinality(tried' \cap Jwt) <= atN'.retries + 1
      <4> HIDE DEF TicketInv, AT!TypeOK, AT!Counters, Budgets, AT!SelectAccount, AT!ghosts
      <4>1. AT!Cardinality(tried' \cap Jwt) = AT!Cardinality((tried \cap Jwt) \cup {a})
        BY <3>1, Zenon
      <4>2. IsFiniteSet(tried' \cap Jwt)
        BY <3>1, <3>3, Zenon
      <4>3. AT!Cardinality(tried' \cap Jwt) <= atN'.retries + 1
        BY <4>1, <3>1, <3>3, <3>4, <3>5, <3>6, <3>7
      <4> QED  BY <4>2, <4>3
    <3>9. QED  BY <3>6, <3>8 DEF Accountable
  <2>2. CASE a \notin Jwt
    <3>1. tried' \cap Jwt = tried \cap Jwt
      BY <2>2
    <3>2. QED  BY <2>2, <3>1 DEF Accountable
  <2>3. QED  BY <2>1, <2>2
<1>4. Paid'
  BY DEF Paid, Used
<1>5. QED  BY <1>1, <1>2, <1>3, <1>4

LEMMA CaptchaSolvedInv == ASSUME Budgets, TicketInv, AT!CaptchaSolved  PROVE TicketInv'
<1> USE Bill, Tally DEF TicketInv, AT!TypeOK, AT!Counters, Budgets, AT!CaptchaSolved,
    AT!Alive, AT!envVars, AT!ghosts
<1>1. AT!TypeOK'
  OBVIOUS
<1>2. AT!VerdictDelivered' /\ AT!UsageOnce' /\ Told'
  BY DEF AT!VerdictDelivered, AT!UsageOnce, Told
<1>3. Accountable'
  BY DEF Accountable
<1>4. Paid'
  BY DEF Paid, Used
<1>5. QED  BY <1>1, <1>2, <1>3, <1>4

LEMMA RouteRefusedInv == ASSUME Budgets, TicketInv, AT!RouteRefused  PROVE TicketInv'
<1> USE Bill, Tally DEF TicketInv, AT!TypeOK, AT!Counters, Budgets, AT!RouteRefused, AT!Fail,
    AT!EmitError, AT!Alive, AT!envVars, AT!ghosts
<1>1. AT!TypeOK'
  OBVIOUS
<1>2. AT!VerdictDelivered' /\ AT!UsageOnce' /\ Told'
  BY DEF AT!VerdictDelivered, AT!UsageOnce, Told
<1>3. Accountable'
  BY DEF Accountable
<1>4. Paid'
  BY DEF Paid, Used
<1>5. QED  BY <1>1, <1>2, <1>3, <1>4

LEMMA PauseCanceledInv == ASSUME Budgets, TicketInv, AT!PauseCanceled  PROVE TicketInv'
<1> USE Bill, Tally DEF TicketInv, AT!TypeOK, AT!Counters, Budgets, AT!PauseCanceled, AT!Quit,
    AT!Alive, AT!envVars, AT!ghosts
<1>1. AT!TypeOK'
  OBVIOUS
<1>2. AT!VerdictDelivered' /\ AT!UsageOnce' /\ Told'
  BY DEF AT!VerdictDelivered, AT!UsageOnce, Told
<1>3. Accountable'
  BY DEF Accountable
<1>4. Paid'
  BY DEF Paid, Used
<1>5. QED  BY <1>1, <1>2, <1>3, <1>4

LEMMA LineTransportInv == ASSUME Budgets, TicketInv, AT!LineTransport  PROVE TicketInv'
<1> USE Asked, Bill, Tally DEF TicketInv, AT!TypeOK, AT!Counters, Budgets, AT!LineTransport,
    AT!SwitchAccount, AT!Alive, AT!envVars, AT!ghosts
<1>1. AT!TypeOK'
  OBVIOUS
<1>2. AT!VerdictDelivered' /\ AT!UsageOnce' /\ Told'
  BY DEF AT!VerdictDelivered, AT!UsageOnce, Told
<1>3. Accountable'
  BY DEF Accountable
<1>4. Paid'
  BY DEF Paid, Used
<1>5. QED  BY <1>1, <1>2, <1>3, <1>4

LEMMA LineTimeoutInv == ASSUME Budgets, TicketInv, AT!LineTimeout  PROVE TicketInv'
<1> USE Asked, Bill, Tally DEF TicketInv, AT!TypeOK, AT!Counters, Budgets, AT!LineTimeout,
    AT!EmitError, AT!Alive, AT!envVars, AT!ghosts
<1>1. AT!TypeOK'
  OBVIOUS
<1>2. AT!VerdictDelivered' /\ AT!UsageOnce' /\ Told'
  BY DEF AT!VerdictDelivered, AT!UsageOnce, Told
<1>3. Accountable'
  BY DEF Accountable
<1>4. Paid'
  BY DEF Paid, Used
<1>5. QED  BY <1>1, <1>2, <1>3, <1>4

LEMMA CaptchaRejectedInv == ASSUME Budgets, TicketInv, AT!CaptchaRejected  PROVE TicketInv'
<1> USE Asked, Bill, Tally DEF TicketInv, AT!TypeOK, AT!Counters, Budgets, AT!CaptchaRejected,
    AT!NextCaptcha, AT!Fail, AT!EmitError, AT!Alive, AT!envVars, AT!ghosts
<1>1. AT!TypeOK'
  OBVIOUS
<1>2. AT!VerdictDelivered' /\ AT!UsageOnce' /\ Told'
  BY DEF AT!VerdictDelivered, AT!UsageOnce, Told
<1>3. Accountable'
  BY DEF Accountable
<1>4. Paid'
  BY DEF Paid, Used
<1>5. QED  BY <1>1, <1>2, <1>3, <1>4

LEMMA AccountRefusedInv == ASSUME Budgets, TicketInv, AT!AccountRefused  PROVE TicketInv'
<1> USE Asked, Bill, Tally DEF TicketInv, AT!TypeOK, AT!Counters, Budgets, AT!AccountRefused,
    AT!MarkAndSwitch, AT!Alive, AT!envVars, AT!ghosts
<1>1. AT!TypeOK'
  OBVIOUS
<1>2. AT!VerdictDelivered' /\ AT!UsageOnce' /\ Told'
  BY DEF AT!VerdictDelivered, AT!UsageOnce, Told
<1>3. Accountable'
  BY DEF Accountable
<1>4. Paid'
  BY DEF Paid, Used
<1>5. QED  BY <1>1, <1>2, <1>3, <1>4

LEMMA BusyInv ==
    ASSUME Budgets, TicketInv,
           AT!BusyOrOverloaded("busy", MaxBusy) \/ AT!BusyOrOverloaded("overload", MaxOverload)
    PROVE  TicketInv'
<1> USE Asked, Bill, Tally DEF TicketInv, AT!TypeOK, AT!Counters, Budgets,
    AT!BusyOrOverloaded, AT!RetryHere,
        AT!Fail, AT!EmitError, AT!Alive, AT!envVars, AT!ghosts
<1>1. AT!TypeOK'
  OBVIOUS
<1>2. AT!VerdictDelivered' /\ AT!UsageOnce' /\ Told'
  BY DEF AT!VerdictDelivered, AT!UsageOnce, Told
<1>3. Accountable'
  BY DEF Accountable
<1>4. Paid'
  BY DEF Paid, Used
<1>5. QED  BY <1>1, <1>2, <1>3, <1>4

LEMMA RateLimitedInv == ASSUME Budgets, TicketInv, AT!RateLimited  PROVE TicketInv'
<1> USE Asked, Bill, Tally DEF TicketInv, AT!TypeOK, AT!Counters, Budgets, AT!RateLimited,
    AT!MarkAndSwitch, AT!RetryHere, AT!Alive, AT!envVars, AT!ghosts
<1>1. AT!TypeOK'
  OBVIOUS
<1>2. AT!VerdictDelivered' /\ AT!UsageOnce' /\ Told'
  BY DEF AT!VerdictDelivered, AT!UsageOnce, Told
<1>3. Accountable'
  BY DEF Accountable
<1>4. Paid'
  BY DEF Paid, Used
<1>5. QED  BY <1>1, <1>2, <1>3, <1>4

LEMMA OtherErrorInv == ASSUME Budgets, TicketInv, AT!OtherError  PROVE TicketInv'
<1> USE Asked, Bill, Tally DEF TicketInv, AT!TypeOK, AT!Counters, Budgets, AT!OtherError,
    AT!Fail, AT!EmitError, AT!Alive, AT!envVars, AT!ghosts
<1>1. AT!TypeOK'
  OBVIOUS
<1>2. AT!VerdictDelivered' /\ AT!UsageOnce' /\ Told'
  BY DEF AT!VerdictDelivered, AT!UsageOnce, Told
<1>3. Accountable'
  BY DEF Accountable
<1>4. Paid'
  BY DEF Paid, Used
<1>5. QED  BY <1>1, <1>2, <1>3, <1>4

LEMMA UnreadableInv == ASSUME Budgets, TicketInv, AT!Unreadable  PROVE TicketInv'
<1> USE Asked, Bill, Tally DEF TicketInv, AT!TypeOK, AT!Counters, Budgets, AT!Unreadable,
    AT!Switched, AT!SwitchAccount, AT!Alive, AT!envVars, AT!ghosts
<1>1. AT!TypeOK'
  OBVIOUS
<1>2. AT!VerdictDelivered' /\ AT!UsageOnce' /\ Told'
  BY DEF AT!VerdictDelivered, AT!UsageOnce, Told
<1>3. Accountable'
  BY DEF Accountable
<1>4. Paid'
  BY DEF Paid, Used
<1>5. QED  BY <1>1, <1>2, <1>3, <1>4

LEMMA StreamBeginInv == ASSUME Budgets, TicketInv, AT!StreamBegin  PROVE TicketInv'
<1> USE Asked, Bill, Tally DEF TicketInv, AT!TypeOK, AT!Counters, Budgets, AT!StreamBegin,
    AT!NoStream, AT!Alive, AT!envVars, AT!ghosts
<1>1. AT!TypeOK'
  OBVIOUS
<1>2. AT!VerdictDelivered' /\ AT!UsageOnce' /\ Told'
  BY DEF AT!VerdictDelivered, AT!UsageOnce, Told
<1>3. Accountable'
  BY DEF Accountable
<1>4. Paid'
  BY DEF Paid, Used
<1>5. QED  BY <1>1, <1>2, <1>3, <1>4

LEMMA StreamBrokenInv == ASSUME Budgets, TicketInv, AT!StreamBroken  PROVE TicketInv'
<1> USE Bill, Tally DEF TicketInv, AT!TypeOK, AT!Counters, Budgets, AT!StreamBroken, AT!Fail,
    AT!EmitError, AT!Quit, AT!Switched, AT!SwitchAccount, AT!AddUsage, AT!Alive, AT!envVars,
        AT!ghosts
<1>1. AT!TypeOK'
  OBVIOUS
<1>2. AT!VerdictDelivered' /\ AT!UsageOnce' /\ Told'
  BY DEF AT!VerdictDelivered, AT!UsageOnce, Told
<1>3. Accountable'
  BY DEF Accountable
<1>4. Paid'
  BY DEF Paid, Used
<1>5. QED  BY <1>1, <1>2, <1>3, <1>4

LEMMA StreamDoneInv == ASSUME Budgets, TicketInv, AT!StreamDone  PROVE TicketInv'
<1> USE Bill, Tally DEF TicketInv, AT!TypeOK, AT!Counters, Budgets, AT!StreamDone,
    AT!AddUsage, AT!Alive, AT!envVars, AT!ghosts
<1>1. AT!TypeOK'
  OBVIOUS
<1>2. AT!VerdictDelivered' /\ AT!UsageOnce' /\ Told'
  BY DEF AT!VerdictDelivered, AT!UsageOnce, Told
<1>3. Accountable'
  BY DEF Accountable
<1>4. Paid'
  BY DEF Paid, Used
<1>5. QED  BY <1>1, <1>2, <1>3, <1>4

LEMMA ChunkInv == ASSUME Budgets, TicketInv, NEW final \in BOOLEAN,
    AT!Chunk(final)  PROVE TicketInv'
<1> USE Bill, Tally DEF TicketInv, AT!TypeOK, AT!Counters, Budgets, AT!Chunk, AT!Alive,
    AT!envVars, AT!ghosts
<1>1. AT!TypeOK'
  OBVIOUS
<1>2. AT!VerdictDelivered' /\ AT!UsageOnce' /\ Told'
  BY DEF AT!VerdictDelivered, AT!UsageOnce, Told
<1>3. Accountable'
  BY DEF Accountable
<1>4. Paid'
  BY DEF Paid, Used
<1>5. QED  BY <1>1, <1>2, <1>3, <1>4

LEMMA ConsumerGoneInv == ASSUME Budgets, TicketInv, NEW final \in BOOLEAN,
    AT!ConsumerGone(final)  PROVE TicketInv'
<1> USE Bill, Tally DEF TicketInv, AT!TypeOK, AT!Counters, Budgets, AT!ConsumerGone, AT!Quit,
    AT!AddUsage, AT!Alive, AT!envVars, AT!ghosts
<1>1. AT!TypeOK'
  OBVIOUS
<1>2. AT!VerdictDelivered' /\ AT!UsageOnce' /\ Told'
  BY DEF AT!VerdictDelivered, AT!UsageOnce, Told
<1>3. Accountable'
  BY DEF Accountable
<1>4. Paid'
  BY DEF Paid, Used
<1>5. QED  BY <1>1, <1>2, <1>3, <1>4

LEMMA RiskControlInv == ASSUME Budgets, TicketInv, NEW dirty \in BOOLEAN,
    NEW cools \in BOOLEAN, AT!RiskControl(dirty, cools)  PROVE TicketInv'
<1> USE Asked, Bill, Tally DEF TicketInv, AT!TypeOK, AT!Counters, Budgets, AT!RiskControl,
    AT!EmitError, AT!MarkAndSwitch, AT!SwitchAccount, AT!Alive, AT!envVars, AT!ghosts
<1>1. AT!TypeOK'
  OBVIOUS
<1>2. AT!VerdictDelivered' /\ AT!UsageOnce' /\ Told'
  BY DEF AT!VerdictDelivered, AT!UsageOnce, Told
<1>3. Accountable'
  BY DEF Accountable
<1>4. Paid'
  BY DEF Paid, Used
<1>5. QED  BY <1>1, <1>2, <1>3, <1>4

LEMMA ReaderLeavesInv == ASSUME Budgets, TicketInv, NEW to \in {"released", "canceled"},
    AT!ReaderLeaves(to)  PROVE TicketInv'
<1> USE Bill, Tally DEF TicketInv, AT!TypeOK, AT!Counters, Budgets, AT!ReaderLeaves, AT!Alive,
    AT!envVars, AT!ghosts
<1>1. AT!TypeOK'
  OBVIOUS
<1>2. AT!VerdictDelivered' /\ AT!UsageOnce' /\ Told'
  BY DEF AT!VerdictDelivered, AT!UsageOnce, Told
<1>3. Accountable'
  BY DEF Accountable
<1>4. Paid'
  BY DEF Paid, Used
<1>5. QED  BY <1>1, <1>2, <1>3, <1>4

LEMMA AccountChangesInv == ASSUME Budgets, TicketInv, NEW a \in Accounts,
    AT!AccountChanges(a)  PROVE TicketInv'
<1> USE Bill, Tally DEF TicketInv, AT!TypeOK, AT!Counters, Budgets, AT!AccountChanges,
    AT!Alive, AT!envVars, AT!ghosts
<1>1. AT!TypeOK'
  OBVIOUS
<1>2. AT!VerdictDelivered' /\ AT!UsageOnce' /\ Told'
  BY DEF AT!VerdictDelivered, AT!UsageOnce, Told
<1>3. Accountable'
  BY DEF Accountable
<1>4. Paid'
  BY DEF Paid, Used
<1>5. QED  BY <1>1, <1>2, <1>3, <1>4

LEMMA RetriesExhaustedInv == ASSUME Budgets, TicketInv, AT!RetriesExhausted  PROVE TicketInv'
<1> USE Bill, Tally DEF TicketInv, AT!TypeOK, AT!Counters, Budgets, AT!RetriesExhausted,
    AT!Fail, AT!EmitError, AT!Alive, AT!envVars, AT!ghosts
<1>1. AT!TypeOK'
  OBVIOUS
<1>2. AT!VerdictDelivered' /\ AT!UsageOnce' /\ Told'
  BY DEF AT!VerdictDelivered, AT!UsageOnce, Told
<1>3. Accountable'
  BY DEF Accountable
<1>4. Paid'
  BY DEF Paid, Used
<1>5. QED  BY <1>1, <1>2, <1>3, <1>4

LEMMA BackoffInv == ASSUME Budgets, TicketInv, AT!Backoff  PROVE TicketInv'
<1> USE Bill, Tally DEF TicketInv, AT!TypeOK, AT!Counters, Budgets, AT!Backoff, AT!Alive,
    AT!envVars, AT!ghosts
<1>1. AT!TypeOK'
  OBVIOUS
<1>2. AT!VerdictDelivered' /\ AT!UsageOnce' /\ Told'
  BY DEF AT!VerdictDelivered, AT!UsageOnce, Told
<1>3. Accountable'
  BY DEF Accountable
<1>4. Paid'
  BY DEF Paid, Used
<1>5. QED  BY <1>1, <1>2, <1>3, <1>4

LEMMA TicketStep == ASSUME Budgets, TicketInv, [AT!Next]_AT!vars  PROVE TicketInv'
<1>1. CASE AT!Retries
  BY <1>1, BeginInv, TopInv, SelectNoneInv, SelectAccountInv, CaptchaFailedInv, BuildFailedInv,
     CaptchaSolvedInv, RouteRefusedInv, LineTransportInv, LineTimeoutInv, CaptchaRejectedInv,
     AccountRefusedInv, RateLimitedInv, PauseCanceledInv, BusyInv, RiskControlInv,
         OtherErrorInv,
     UnreadableInv, StreamBeginInv, RetriesExhaustedInv, BackoffInv
  DEF AT!Retries, AT!Request
<1>2. CASE AT!Forward
  BY <1>2, ChunkInv, ConsumerGoneInv, StreamBrokenInv, StreamDoneInv DEF AT!Forward
<1>3. CASE UNCHANGED AT!vars
  BY <1>3 DEF AT!vars, AT!ghosts, TicketInv, AT!TypeOK, AT!VerdictDelivered, AT!UsageOnce,
      Told,
    Accountable, Paid, Used
<1>4. QED
  BY <1>1, <1>2, <1>3, ReaderLeavesInv, AccountChangesInv DEF AT!Next

\* Whatever part of the run moves, what the work on the ticket sees is such work.
LEMMA TicketRuns == (RunInit => AT!Init) /\ ([RunNext]_allVars => [AT!Next]_AT!vars)
<1>1. RunInit => AT!Init
  BY DEF RunInit
<1>2. [RunNext]_allVars => [AT!Next]_AT!vars
  BY DEF RunNext, Table, Ticket, Passthrough, allVars, atVars, AT!vars, AT!ghosts
<1>3. QED  BY <1>1, <1>2

LEMMA SpecTicketInv == ASSUME Budgets PROVE RunSpec => []TicketInv
<1>1. RunInit => TicketInv
  BY TicketRuns, InitTicket
<1>2. TicketInv /\ [RunNext]_allVars => TicketInv'
  BY TicketRuns, TicketStep
<1>3. QED  BY <1>1, <1>2, PTL DEF RunSpec

(***************************************************************************)
(* The theorems.                                                           *)
(***************************************************************************)

\* However the retries of a ticket nest and whatever accounts become usable meanwhile, it
\* tries no more jwt accounts than it has retries and one, and sends no more requests than
\* the product of its budgets.
THEOREM TicketAmplification == ASSUME Budgets PROVE RunSpec => []BoundedAmplification
<1>1. TicketInv => BoundedAmplification
  <2> SUFFICES ASSUME TicketInv PROVE AT!BoundedAmplification
    BY DEF BoundedAmplification
  <2>1. AT!Cardinality(tried \cap Jwt) <= MaxRetries + 1
    BY Tally DEF TicketInv, Accountable, AT!TypeOK, Budgets
  <2>2. requests <= AT!Budget
    BY Bill DEF TicketInv, Paid, Used, AT!TypeOK, Budgets
  <2>3. QED  BY <2>1, <2>2 DEF AT!BoundedAmplification
<1>2. QED  BY SpecTicketInv, <1>1, PTL

\* Once a chunk was sent or the content condemned, the work only forwards or is over.
LEMMA ResendStep ==
    ASSUME TicketInv, [AT!Next]_AT!vars, stream.chunks \/ recorded
    PROVE  requests' = requests /\ acc' = acc
<1>1. atPc \in {"stream", "ended"} /\ (recorded => atPc = "ended")
  BY DEF TicketInv, Told
<1>2. ~AT!Retries
  BY <1>1 DEF AT!Retries, AT!Begin, AT!Top, AT!SelectNone, AT!SelectAccount, AT!CaptchaFailed,
    AT!BuildFailed, AT!CaptchaSolved, AT!Request, AT!RouteRefused, AT!LineTransport,
        AT!LineTimeout,
    AT!CaptchaRejected, AT!AccountRefused, AT!RateLimited, AT!PauseCanceled,
        AT!BusyOrOverloaded,
    AT!RiskControl, AT!OtherError, AT!Unreadable, AT!StreamBegin, AT!Answer,
        AT!RetriesExhausted,
    AT!Backoff
<1>3. CASE AT!Forward
  BY <1>3 DEF AT!Forward, AT!Chunk, AT!ConsumerGone, AT!StreamBroken, AT!StreamDone, AT!Quit,
      AT!Fail,
    AT!Switched, AT!SwitchAccount, AT!AddUsage, AT!ghosts
<1>4. QED
  BY <1>2, <1>3 DEF AT!Next, AT!ReaderLeaves, AT!AccountChanges, AT!vars, AT!ghosts

\* While somebody reads the ticket its work never ends without a verdict, its tokens are
\* booked at most once, and nothing is sent again once a chunk was sent or the content was
\* condemned, on whatever path the retries end.
THEOREM TicketAnsweredOnce == ASSUME Budgets PROVE RunSpec => AnsweredOnce
<1>1. TicketInv => AT!TypeOK /\ AT!VerdictDelivered /\ AT!UsageOnce
  BY DEF TicketInv
<1>2. [RunNext]_allVars => [AT!Next]_AT!vars
  BY TicketRuns
<1>3. TicketInv /\ [AT!Next]_AT!vars
        => [stream.chunks \/ recorded => requests' = requests /\ acc' = acc]_AT!vars
  BY ResendStep
<1>4. QED
  BY SpecTicketInv, <1>1, <1>2, <1>3, PTL DEF RunSpec, AnsweredOnce, AT!NoResend

\* What one step of the work may emit.
LEMMA PhaseStep ==
    ASSUME TicketInv, [AT!Next]_AT!vars
    PROVE  \/ atPhase' = atPhase
           \/ atPhase = "fresh" /\ atPhase' = "ready"
           \/ atPhase \in {"ready", "streaming"} /\ atPhase' = "streaming"
           \/ atPhase = "streaming" /\ atPhase' = "done"
           \/ atPhase \in {"fresh", "ready", "streaming"} /\ atPhase' = "error"
<1> USE DEF TicketInv, Told
<1>1. CASE AT!Retries
  BY <1>1 DEF AT!Retries, AT!Begin, AT!Top, AT!SelectNone, AT!SelectAccount, AT!CaptchaFailed,
    AT!BuildFailed, AT!CaptchaSolved, AT!Request, AT!RouteRefused, AT!LineTransport,
        AT!LineTimeout,
    AT!CaptchaRejected, AT!AccountRefused, AT!RateLimited, AT!PauseCanceled,
        AT!BusyOrOverloaded,
    AT!RiskControl, AT!OtherError, AT!Unreadable, AT!StreamBegin, AT!Answer,
        AT!RetriesExhausted,
    AT!Backoff, AT!Quit, AT!Fail, AT!EmitError, AT!Alive, AT!SwitchAccount, AT!Switched,
    AT!MarkAndSwitch, AT!RetryHere, AT!NextCaptcha
<1>2. CASE AT!Forward
  BY <1>2 DEF AT!Forward, AT!Chunk, AT!ConsumerGone, AT!StreamBroken, AT!StreamDone, AT!Quit,
      AT!Fail,
    AT!EmitError, AT!Alive, AT!Switched, AT!SwitchAccount
<1>3. QED
  BY <1>1, <1>2 DEF AT!Next, AT!ReaderLeaves, AT!AccountChanges, AT!vars

\* The work on a ticket implements the ticket protocol: at most one ready, chunks only after
\* it, done only after a chunk, and nothing after the verdict.
THEOREM TicketEmitsProtocol == ASSUME Budgets PROVE RunSpec => EmittedProtocol
<1> DEFINE Shown == [t \in {"ticket"} |-> atPhase]
<1>1. AT!Init => AT!Emitted!Init
  BY DEF AT!Init, AT!Emitted!Init
<1>2. TicketInv /\ [AT!Next]_AT!vars => [AT!Emitted!Next]_Shown
  <2> SUFFICES ASSUME TicketInv, [AT!Next]_AT!vars, atPhase' # atPhase
               PROVE  AT!Emitted!Next
    OBVIOUS
  <2>1. Shown' = [Shown EXCEPT !["ticket"] = atPhase'] /\ Shown["ticket"] = atPhase
    OBVIOUS
  <2>2. \/ AT!Emitted!Ready("ticket") \/ AT!Emitted!Chunk("ticket") \/ AT!Emitted!Done("ticket")
        \/ AT!Emitted!Error("ticket")
    BY <2>1, PhaseStep DEF AT!Emitted!Ready, AT!Emitted!Chunk, AT!Emitted!Done,
        AT!Emitted!Error,
      AT!Emitted!Deliver, AT!Emitted!Phases, AT!Emitted!Final
  <2>3. QED  BY <2>2 DEF AT!Emitted!Next
<1>3. QED
  BY SpecTicketInv, TicketRuns, <1>1, <1>2, PTL DEF RunSpec, EmittedProtocol,
      AT!EmittedProtocol,
    AT!Emitted!Spec

(***************************************************************************)
(* The table of tickets (AsyncPool).                                       *)
(***************************************************************************)

\* A ticket that was not created yet has left no trace.
Uncreated ==
    \A t \in Tickets : handler[t].pc \in {"idle", "sweep"} =>
        /\ producer[t].pc = "off"
        /\ t \notin reg /\ t \notin canceled
        /\ \A r \in Requests : handler[r].hold # t

\* A released ticket, and one about to be cancelled, is out of the table.
Released ==
    /\ reg \cap canceled = {}
    /\ \A r \in Requests : handler[r].hold \notin reg

\* The verdict that was emitted is the status.
Agrees(t) ==
    \/ producer[t].phase = "done" /\ status[t] = "completed"
    \/ producer[t].phase = "error" /\ status[t] = "failed"

\* The work of a ticket in the table is finished only after its verdict.
Stamped ==
    \A t \in Tickets :
        /\ producer[t].pc \in {"off", "spawned"} => status[t] = "pending"
        /\ producer[t].pc = "send" => producer[t].phase \in Events
        /\ producer[t].pc = "stamp" => producer[t].phase \in {"done", "error"}
        /\ producer[t].pc \in {"finish", "exit"} /\ t \in reg => Agrees(t)

\* Close has shut the door before it waits.
Shut == /\ closer # "idle" => closed
        /\ ClosedMeansQuiet

PoolInv == TypeOK /\ Uncreated /\ Released /\ Stamped /\ Shut

LEMMA InitPoolInv == Init => PoolInv
<1> SUFFICES ASSUME Init PROVE PoolInv
  OBVIOUS
<1>1. TypeOK
  <2>1. handler \in [Requests -> [pc : HandlerPcs, todo : SUBSET Tickets, hold : Tickets \cup {None}]]
    BY DEF Init, HandlerPcs
  <2>2. producer \in [Tickets -> [pc : ProducerPcs, phase : {"fresh"} \cup Events]]
    BY DEF Init, ProducerPcs
  <2>3. queue \in [Tickets -> Seq(Events)] /\ \A t \in Tickets : Len(queue[t]) <= QCap
    BY AsyncPoolAssumption DEF Init
  <2>4. QED  BY <2>1, <2>2, <2>3 DEF Init, TypeOK
<1>2. Uncreated /\ Released
  BY AsyncPoolAssumption DEF Init, Uncreated, Released, Requests
<1>3. Stamped /\ Shut
  BY DEF Init, Stamped, Shut, ClosedMeansQuiet, Ended
<1>4. QED  BY <1>1, <1>2, <1>3 DEF PoolInv

\* A step of a handler that leaves table, contexts and producers alone.
LEMMA HandlerOnly ==
    ASSUME PoolInv, UNCHANGED <<closed, closer, reg, status, canceled, producer>>,
           \A r \in Requests : handler'[r].hold \in {handler[r].hold, None},
           \A t \in Tickets : handler'[t].pc \in {"idle", "sweep"} => handler[t].pc \in {"idle", "sweep"}
    PROVE  Uncreated' /\ Released' /\ Stamped' /\ Shut'
<1>1. None \notin Tickets /\ reg \subseteq Tickets
  BY AsyncPoolAssumption DEF PoolInv, TypeOK
<1>2. Uncreated'
  BY <1>1 DEF PoolInv, Uncreated, Requests
<1>3. Released'
  BY <1>1 DEF PoolInv, Released
<1>4. Stamped' /\ Shut'
  BY DEF PoolInv, Stamped, Agrees, Shut, ClosedMeansQuiet, Ended
<1>5. QED  BY <1>2, <1>3, <1>4

\* Moving a handler.
LEMMA HandlerMoves ==
    ASSUME TypeOK, NEW r \in Requests, NEW l \in HandlerPcs, HandlerGoto(r, l)
    PROVE  /\ handler' \in [Requests -> [pc : HandlerPcs, todo : SUBSET Tickets, hold : Tickets \cup {None}]]
           /\ \A q \in Requests : handler'[q].hold = handler[q].hold
           /\ handler'[r].pc = l
           /\ \A q \in Requests : q # r => handler'[q] = handler[q]
  BY DEF HandlerGoto, TypeOK

LEMMA QueueShrinks ==
    ASSUME TypeOK, NEW t \in Tickets, queue[t] # <<>>, queue' = [queue EXCEPT ![t] = Tail(@)]
    PROVE  /\ queue' \in [Tickets -> Seq(Events)] /\ \A u \in Tickets : Len(queue'[u]) <= QCap
           /\ Head(queue[t]) \in Events
<1>1. queue[t] \in Seq(Events) /\ Len(queue[t]) <= QCap
  BY DEF TypeOK
<1>2. Tail(queue[t]) \in Seq(Events) /\ Len(Tail(queue[t])) = Len(queue[t]) - 1 /\ Head(queue[t]) \in Events
  BY <1>1
<1>3. Len(Tail(queue[t])) <= QCap
  BY <1>1, <1>2, AsyncPoolAssumption
<1>4. QED  BY <1>2, <1>3 DEF TypeOK

LEMMA StreamInv ==
    ASSUME PoolInv, NEW t \in Tickets, Stream(t) \/ StreamGone(t)
    PROVE  PoolInv'
<1> USE DEF Stream, StreamOpen, StreamLoop, StreamEvent, StreamKeepalive, StreamGone
<1> t \in Requests
  BY DEF Requests
<1>1. UNCHANGED <<closed, closer, reg, status, canceled, age, producer>>
  OBVIOUS
<1>2. PICK l \in HandlerPcs : HandlerGoto(t, l) /\ l \notin {"idle", "sweep"}
  BY DEF HandlerPcs
<1>3. /\ phase' \in [Tickets -> {"fresh", "gone"} \cup Events]
      /\ queue' \in [Tickets -> Seq(Events)] /\ \A u \in Tickets : Len(queue'[u]) <= QCap
  <2>1. CASE StreamEvent(t)
    BY <2>1, QueueShrinks DEF PoolInv, TypeOK
  <2>2. CASE ~StreamEvent(t)
    <3>1. phase \in [Tickets -> {"fresh", "gone"} \cup Events]
      BY DEF PoolInv, TypeOK
    <3>2. UNCHANGED phase \/ phase' = [phase EXCEPT ![t] = "error"] \/ phase' = [phase EXCEPT ![t] = "gone"]
      BY <2>2
    <3>3. phase' \in [Tickets -> {"fresh", "gone"} \cup Events]
      BY <3>1, <3>2 DEF Events
    <3>4. UNCHANGED queue
      BY <2>2
    <3>5. QED  BY <3>3, <3>4 DEF PoolInv, TypeOK
  <2>3. QED  BY <2>1, <2>2
<1> HIDE DEF Stream, StreamOpen, StreamLoop, StreamEvent, StreamKeepalive, StreamGone
<1>4. TypeOK'
  BY <1>1, <1>2, <1>3, HandlerMoves DEF PoolInv, TypeOK
<1>5. Uncreated' /\ Released' /\ Stamped' /\ Shut'
  <2>1. \A r \in Requests : handler'[r].hold = handler[r].hold
    BY <1>2, HandlerMoves DEF PoolInv
  <2>2. \A u \in Tickets : handler'[u].pc \in {"idle", "sweep"} => handler[u].pc \in {"idle", "sweep"}
    BY <1>2, HandlerMoves DEF PoolInv, Requests
  <2>3. QED  BY <1>1, <2>1, <2>2, HandlerOnly
<1>6. QED  BY <1>4, <1>5 DEF PoolInv

\* Replacing the record of one handler.
LEMMA HandlerBecomes ==
    ASSUME TypeOK, NEW r \in Requests,
           NEW h \in [pc : HandlerPcs, todo : SUBSET Tickets, hold : Tickets \cup {None}],
           handler' = [handler EXCEPT ![r] = h]
    PROVE  /\ handler' \in [Requests -> [pc : HandlerPcs, todo : SUBSET Tickets, hold : Tickets \cup {None}]]
           /\ handler'[r] = h
           /\ \A q \in Requests : q # r => handler'[q] = handler[q]
  BY DEF TypeOK

LEMMA SweepInv ==
    ASSUME PoolInv, NEW r \in Requests, SweepCollect(r) \/ OtherCreated(r)
    PROVE  PoolInv'
<1> DEFINE old == handler[r]
<1>1. UNCHANGED <<closed, closer, reg, status, queue, canceled, age, producer, phase>>
  BY DEF SweepCollect, OtherCreated
<1>2. old \in [pc : HandlerPcs, todo : SUBSET Tickets, hold : Tickets \cup {None}] /\ reg \subseteq Tickets
  BY DEF PoolInv, TypeOK
<1>3. PICK h \in [pc : HandlerPcs, todo : SUBSET Tickets, hold : Tickets \cup {None}] :
        handler' = [handler EXCEPT ![r] = h] /\ h.hold \in {old.hold, None}
  <2>1. CASE SweepCollect(r)
    <3> DEFINE h == [pc |-> "sweep", todo |-> {u \in reg : age[u] = "stale"}, hold |-> None]
    <3>1. h \in [pc : HandlerPcs, todo : SUBSET Tickets, hold : Tickets \cup {None}] /\ h.hold = None
      BY <1>2 DEF HandlerPcs
    <3>2. handler' = [handler EXCEPT ![r] = h]
      BY <2>1 DEF SweepCollect
    <3> HIDE DEF h
    <3>3. QED  BY <3>1, <3>2
  <2>2. CASE OtherCreated(r)
    <3>1. [old EXCEPT !.pc = "idle"] \in [pc : HandlerPcs, todo : SUBSET Tickets, hold : Tickets \cup {None}]
          /\ [old EXCEPT !.pc = "idle"].hold = old.hold
      BY <1>2 DEF HandlerPcs
    <3>2. QED  BY <2>2, <3>1 DEF OtherCreated, HandlerGoto
  <2>3. QED  BY <2>1, <2>2
<1>4. /\ handler' \in [Requests -> [pc : HandlerPcs, todo : SUBSET Tickets, hold : Tickets \cup {None}]]
      /\ handler'[r] = h /\ \A q \in Requests : q # r => handler'[q] = handler[q]
  BY <1>3, HandlerBecomes DEF PoolInv
<1>5. old.pc \in {"idle", "sweep"}
  BY DEF SweepCollect, OtherCreated, HandlerAt
<1>6. TypeOK'
  BY <1>1, <1>4 DEF PoolInv, TypeOK
<1>7. \A q \in Requests : handler'[q].hold \in {handler[q].hold, None}
  BY <1>3, <1>4
<1>8. \A u \in Tickets : handler'[u].pc \in {"idle", "sweep"} => handler[u].pc \in {"idle", "sweep"}
  BY <1>4, <1>5 DEF Requests
<1>9. QED  BY <1>1, <1>6, <1>7, <1>8, HandlerOnly DEF PoolInv

LEMMA GrowInv == ASSUME PoolInv, NEW t \in Tickets, Grow(t)  PROVE PoolInv'
<1>1. UNCHANGED <<closed, closer, reg, status, queue, canceled, handler, producer, phase>>
  BY DEF Grow
<1>2. age' \in [Tickets -> {"young", "expired", "stale"}]
  <2>1. age[t] \in {"young", "expired"}
    BY DEF Grow, PoolInv, TypeOK
  <2>2. Older[age[t]] \in {"expired", "stale"}
    BY <2>1 DEF Older
  <2>3. QED  BY <2>2 DEF Grow, PoolInv, TypeOK
<1>3. TypeOK'
  BY <1>1, <1>2 DEF PoolInv, TypeOK
<1>4. QED  BY <1>1, <1>3, HandlerOnly DEF PoolInv

\* Out of the table first, cancelled afterwards.
LEMMA ReleaseDeleteInv ==
    ASSUME PoolInv, NEW r \in Requests, NEW u \in Tickets, ReleaseDelete(r, u)
    PROVE  PoolInv'
<1>1. UNCHANGED <<closed, closer, status, queue, canceled, age, producer, phase>> /\ reg' = reg \ {u}
  BY DEF ReleaseDelete
<1> DEFINE old == handler[r]
           h == [pc |-> IF old.pc = "release" /\ u \notin reg THEN "end" ELSE old.pc,
                 todo |-> old.todo \ {u},
                 hold |-> IF u \in reg THEN u ELSE None]
<1>a. old \in [pc : HandlerPcs, todo : SUBSET Tickets, hold : Tickets \cup {None}]
  BY DEF PoolInv, TypeOK
<1>b. h \in [pc : HandlerPcs, todo : SUBSET Tickets, hold : Tickets \cup {None}]
  BY <1>a DEF HandlerPcs
<1>c. handler' = [handler EXCEPT ![r] = h]
  BY DEF ReleaseDelete
<1>2. /\ handler' \in [Requests -> [pc : HandlerPcs, todo : SUBSET Tickets, hold : Tickets \cup {None}]]
      /\ handler'[r] = h /\ \A q \in Requests : q # r => handler'[q] = handler[q]
  BY <1>b, <1>c, HandlerBecomes DEF PoolInv
<1>3. \A q \in Requests : \/ handler'[q].hold = handler[q].hold
                          \/ handler'[q].hold = None
                          \/ handler'[q].hold = u /\ u \in reg
  BY <1>2
<1>4. \A v \in Tickets : handler'[v].pc \in {"idle", "sweep"} => handler[v].pc \in {"idle", "sweep"}
  BY <1>2 DEF Requests
<1>5. TypeOK'
  BY <1>1, <1>2 DEF PoolInv, TypeOK
<1>6. None \notin Tickets
  BY AsyncPoolAssumption
<1>7. Uncreated'
  BY <1>1, <1>3, <1>4, <1>6 DEF PoolInv, Uncreated, Requests
<1>8. Released'
  BY <1>1, <1>3, <1>6 DEF PoolInv, Released, TypeOK
<1>9. Stamped' /\ Shut'
  BY <1>1 DEF PoolInv, Stamped, Agrees, Shut, ClosedMeansQuiet, Ended
<1>10. QED  BY <1>5, <1>7, <1>8, <1>9 DEF PoolInv

LEMMA ReleaseCancelInv == ASSUME PoolInv, NEW r \in Requests, ReleaseCancel(r)  PROVE PoolInv'
<1> DEFINE u == handler[r].hold
<1>1. UNCHANGED <<closed, closer, reg, status, queue, age, producer, phase>> /\ canceled' = canceled \cup {u}
  BY DEF ReleaseCancel
<1>2. u \in Tickets /\ u \notin reg
  BY DEF ReleaseCancel, PoolInv, TypeOK, Released
<1> DEFINE old == handler[r]
           h == [pc |-> IF old.pc = "release" THEN "end" ELSE old.pc, todo |-> old.todo, hold |-> None]
<1>a. old \in [pc : HandlerPcs, todo : SUBSET Tickets, hold : Tickets \cup {None}]
  BY DEF PoolInv, TypeOK
<1>b. h \in [pc : HandlerPcs, todo : SUBSET Tickets, hold : Tickets \cup {None}]
  BY <1>a DEF HandlerPcs
<1>c. handler' = [handler EXCEPT ![r] = h]
  BY DEF ReleaseCancel
<1>3. /\ handler' \in [Requests -> [pc : HandlerPcs, todo : SUBSET Tickets, hold : Tickets \cup {None}]]
      /\ handler'[r] = h /\ \A q \in Requests : q # r => handler'[q] = handler[q]
  BY <1>b, <1>c, HandlerBecomes DEF PoolInv
<1>4. \A q \in Requests : handler'[q].hold = handler[q].hold \/ handler'[q].hold = None
  BY <1>3
<1>5. \A v \in Tickets : handler'[v].pc \in {"idle", "sweep"} => handler[v].pc \in {"idle", "sweep"}
  BY <1>3 DEF Requests
<1>6. TypeOK'
  BY <1>1, <1>2, <1>3 DEF PoolInv, TypeOK
<1>7. None \notin Tickets
  BY AsyncPoolAssumption
<1>8. Uncreated'
  BY <1>1, <1>2, <1>4, <1>5, <1>7 DEF PoolInv, Uncreated, Requests
<1>9. Released'
  <2>1. reg' \cap canceled' = {}
    BY <1>1, <1>2 DEF PoolInv, Released
  <2>2. None \notin reg
    BY <1>7 DEF PoolInv, TypeOK
  <2>3. \A q \in Requests : handler'[q].hold \notin reg'
    BY <1>1, <1>4, <2>2 DEF PoolInv, Released
  <2>4. QED  BY <2>1, <2>3 DEF Released
<1>10. Stamped' /\ Shut'
  BY <1>1 DEF PoolInv, Stamped, Agrees, Shut, ClosedMeansQuiet, Ended
<1>11. QED  BY <1>6, <1>8, <1>9, <1>10 DEF PoolInv

\* A closed pool starts no producer.
LEMMA CreateInv == ASSUME PoolInv, NEW t \in Tickets, Create(t)  PROVE PoolInv'
<1> t \in Requests
  BY DEF Requests
<1>1. UNCHANGED <<closed, closer, status, queue, canceled, age>>
  BY DEF Create
<1>2. PICK l \in {"end", "open"} : HandlerGoto(t, l)
  BY DEF Create
<1>3. /\ handler' \in [Requests -> [pc : HandlerPcs, todo : SUBSET Tickets, hold : Tickets \cup {None}]]
      /\ \A q \in Requests : handler'[q].hold = handler[q].hold
      /\ handler'[t].pc = l
      /\ \A q \in Requests : q # t => handler'[q] = handler[q]
  BY <1>2, HandlerMoves DEF PoolInv, HandlerPcs
<1>4. /\ producer[t].pc = "off" /\ t \notin reg /\ t \notin canceled
      /\ \A r \in Requests : handler[r].hold # t
  BY DEF Create, HandlerAt, PoolInv, Uncreated
<1>5. CASE closed
  <2>1. UNCHANGED <<reg, producer>> /\ phase' \in [Tickets -> {"fresh", "gone"} \cup Events]
    BY <1>5 DEF Create, PoolInv, TypeOK, Events
  <2>2. TypeOK'
    BY <1>1, <1>3, <2>1 DEF PoolInv, TypeOK
  <2>3. \A u \in Tickets : handler'[u].pc \in {"idle", "sweep"} => handler[u].pc \in {"idle", "sweep"}
    BY <1>3 DEF Requests
  <2>4. QED  BY <1>1, <1>3, <2>1, <2>2, <2>3, HandlerOnly DEF PoolInv
<1>6. CASE ~closed
  <2>1. UNCHANGED phase /\ reg' = reg \cup {t} /\ producer' = [producer EXCEPT ![t].pc = "spawned"]
    BY <1>6 DEF Create
  <2>2. /\ producer' \in [Tickets -> [pc : ProducerPcs, phase : {"fresh"} \cup Events]]
        /\ producer'[t].pc = "spawned"
        /\ \A u \in Tickets : u # t => producer'[u] = producer[u]
    BY <2>1 DEF PoolInv, TypeOK, ProducerPcs
  <2>3. TypeOK'
    BY <1>1, <1>3, <2>1, <2>2 DEF PoolInv, TypeOK
  <2>4. Uncreated'
    BY <1>1, <1>2, <1>3, <2>1, <2>2 DEF PoolInv, Uncreated, Requests
  <2>5. Released'
    BY <1>1, <1>3, <1>4, <2>1 DEF PoolInv, Released
  <2>6. Stamped'
    BY <1>1, <1>4, <2>1, <2>2 DEF PoolInv, Stamped, Agrees
  <2>7. Shut'
    BY <1>1, <1>6 DEF PoolInv, Shut, ClosedMeansQuiet
  <2>8. QED  BY <2>3, <2>4, <2>5, <2>6, <2>7 DEF PoolInv
<1>7. QED  BY <1>5, <1>6

\* A step of a running producer moves nothing else than its status and queue.
LEMMA ProducerMoves ==
    ASSUME PoolInv, NEW t \in Tickets, ~Ended(t),
           UNCHANGED <<closed, closer, reg, canceled, age, handler, phase>>,
           NEW p \in [pc : ProducerPcs \ {"off", "spawned"}, phase : {"fresh"} \cup Events],
           producer' = [producer EXCEPT ![t] = p],
           status' \in [Tickets -> {"pending", "processing", "completed", "failed", "canceled"}],
           \A u \in Tickets : u # t => status'[u] = status[u],
           queue' \in [Tickets -> Seq(Events)] /\ \A u \in Tickets : Len(queue'[u]) <= QCap,
           p.pc = "send" => p.phase \in Events,
           p.pc = "stamp" => p.phase \in {"done", "error"},
           p.pc \in {"finish", "exit"} /\ t \in reg => Agrees(t)'
    PROVE  PoolInv'
<1>1. /\ producer' \in [Tickets -> [pc : ProducerPcs, phase : {"fresh"} \cup Events]]
      /\ producer'[t] = p
      /\ \A u \in Tickets : u # t => producer'[u] = producer[u]
  BY DEF PoolInv, TypeOK
<1>2. TypeOK'
  BY <1>1 DEF PoolInv, TypeOK
<1>3. Uncreated'
  BY <1>1 DEF PoolInv, Uncreated, Ended
<1>4. Released'
  BY DEF PoolInv, Released
<1>5. Stamped'
  <2> SUFFICES ASSUME NEW u \in Tickets
               PROVE  /\ producer'[u].pc \in {"off", "spawned"} => status'[u] = "pending"
                      /\ producer'[u].pc = "send" => producer'[u].phase \in Events
                      /\ producer'[u].pc = "stamp" => producer'[u].phase \in {"done", "error"}
                      /\ producer'[u].pc \in {"finish", "exit"} /\ u \in reg' => Agrees(u)'
    BY DEF Stamped
  <2>1. CASE u = t
    BY <2>1, <1>1
  <2>2. CASE u # t
    BY <2>2, <1>1 DEF PoolInv, Stamped, Agrees
  <2>3. QED  BY <2>1, <2>2
<1>6. Shut'
  BY DEF PoolInv, Shut, ClosedMeansQuiet
<1>7. QED  BY <1>2, <1>3, <1>4, <1>5, <1>6 DEF PoolInv

LEMMA ProducerInv == ASSUME PoolInv, NEW t \in Tickets, Produce(t)  PROVE PoolInv'
<1> DEFINE old == producer[t]
           Stays(p) == /\ UNCHANGED <<closed, closer, reg, canceled, age, handler, phase>>
                       /\ producer' = [producer EXCEPT ![t] = p]
<1>1. old \in [pc : ProducerPcs, phase : {"fresh"} \cup Events] /\ status[t] \in {"pending", "processing", "completed", "failed", "canceled"}
  BY DEF PoolInv, TypeOK
<1>2. \A l \in ProducerPcs \ {"off", "spawned"} :
         [old EXCEPT !.pc = l] \in [pc : ProducerPcs \ {"off", "spawned"}, phase : {"fresh"} \cup Events]
  BY <1>1
<1>3. t \in canceled => t \notin reg
  BY DEF PoolInv, Released
<1>4. UNCHANGED queue => queue' \in [Tickets -> Seq(Events)] /\ \A u \in Tickets : Len(queue'[u]) <= QCap
  BY DEF PoolInv, TypeOK
<1>5. UNCHANGED status => status' \in [Tickets -> {"pending", "processing", "completed", "failed", "canceled"}]
  BY DEF PoolInv, TypeOK
<1>6. CASE Claim(t)
  <2>1. ~Ended(t) /\ status[t] = "pending"
    BY <1>6 DEF Claim, ProducerAt, Ended, PoolInv, Stamped
  <2>2. CASE t \in reg
    <3>1. Stays([old EXCEPT !.pc = "work"]) /\ status' = [status EXCEPT ![t] = "processing"] /\ UNCHANGED queue
      BY <1>6, <2>1, <2>2 DEF Claim, ProducerGoto
    <3>2. status' \in [Tickets -> {"pending", "processing", "completed", "failed", "canceled"}]
          /\ \A u \in Tickets : u # t => status'[u] = status[u]
      BY <3>1 DEF PoolInv, TypeOK
    <3>3. [old EXCEPT !.pc = "work"] \in [pc : ProducerPcs \ {"off", "spawned"}, phase : {"fresh"} \cup Events]
          /\ [old EXCEPT !.pc = "work"].pc = "work"
      BY <1>1, <1>2 DEF ProducerPcs
    <3>4. QED  BY <1>4, <2>1, <3>1, <3>2, <3>3, ProducerMoves
  <2>3. CASE t \notin reg
    <3>1. Stays([old EXCEPT !.pc = "exit"]) /\ UNCHANGED <<status, queue>>
      BY <1>6, <2>1, <2>3 DEF Claim, ProducerGoto
    <3>2. [old EXCEPT !.pc = "exit"] \in [pc : ProducerPcs \ {"off", "spawned"}, phase : {"fresh"} \cup Events]
          /\ [old EXCEPT !.pc = "exit"].pc = "exit"
      BY <1>1, <1>2 DEF ProducerPcs
    <3>3. QED  BY <1>4, <1>5, <2>1, <2>3, <3>1, <3>2, ProducerMoves
  <2>4. QED  BY <2>2, <2>3
<1>7. CASE Quit(t) \/ EmitAborted(t)
  <2>1. ~Ended(t) /\ t \notin reg
    BY <1>3, <1>7 DEF Quit, EmitAborted, ProducerAt, Ended
  <2>2. Stays([old EXCEPT !.pc = "finish"]) /\ UNCHANGED <<status, queue>>
    BY <1>7 DEF Quit, EmitAborted, ProducerGoto
  <2>3. [old EXCEPT !.pc = "finish"] \in [pc : ProducerPcs \ {"off", "spawned"}, phase : {"fresh"} \cup Events]
        /\ [old EXCEPT !.pc = "finish"].pc = "finish"
    BY <1>1, <1>2 DEF ProducerPcs
  <2>4. QED  BY <1>4, <1>5, <2>1, <2>2, <2>3, ProducerMoves
<1>8. CASE EmitSend(t)
  <2>1. ~Ended(t) /\ Len(queue[t]) < QCap /\ old.pc = "send"
    BY <1>8 DEF EmitSend, ProducerAt, Ended
  <2>2. old.phase \in Events
    BY <2>1 DEF PoolInv, Stamped
  <2>3. PICK l \in {"stamp", "work"} : Stays([old EXCEPT !.pc = l]) /\ (l = "stamp" => old.phase \in {"done", "error"})
    BY <1>8 DEF EmitSend, ProducerGoto
  <2>4. queue' \in [Tickets -> Seq(Events)] /\ \A u \in Tickets : Len(queue'[u]) <= QCap
    <3>1. queue[t] \in Seq(Events)
      BY DEF PoolInv, TypeOK
    <3>2. Append(queue[t], old.phase) \in Seq(Events) /\ Len(Append(queue[t], old.phase)) = Len(queue[t]) + 1
      BY <2>2, <3>1
    <3>3. Len(Append(queue[t], old.phase)) <= QCap
      BY <2>1, <3>1, <3>2, AsyncPoolAssumption
    <3>4. queue' = [queue EXCEPT ![t] = Append(queue[t], old.phase)]
      BY <1>8 DEF EmitSend
    <3>5. QED  BY <3>2, <3>3, <3>4 DEF PoolInv, TypeOK
  <2>5. UNCHANGED status
    BY <1>8 DEF EmitSend
  <2>6. /\ [old EXCEPT !.pc = l] \in [pc : ProducerPcs \ {"off", "spawned"}, phase : {"fresh"} \cup Events]
        /\ [old EXCEPT !.pc = l].pc = l /\ [old EXCEPT !.pc = l].phase = old.phase
    BY <1>1, <1>2 DEF ProducerPcs
  <2>7. QED  BY <1>5, <2>1, <2>3, <2>4, <2>5, <2>6, ProducerMoves
<1>9. CASE EmitStamp(t)
  <2>1. ~Ended(t) /\ old.pc = "stamp" /\ old.phase \in {"done", "error"}
    BY <1>9 DEF EmitStamp, ProducerAt, Ended, PoolInv, Stamped
  <2>2. Stays([old EXCEPT !.pc = "finish"]) /\ UNCHANGED queue
    BY <1>9 DEF EmitStamp, ProducerGoto
  <2>3. /\ [old EXCEPT !.pc = "finish"] \in [pc : ProducerPcs \ {"off", "spawned"}, phase : {"fresh"} \cup Events]
        /\ [old EXCEPT !.pc = "finish"].pc = "finish" /\ [old EXCEPT !.pc = "finish"].phase = old.phase
    BY <1>1, <1>2 DEF ProducerPcs
  <2>4. /\ status' \in [Tickets -> {"pending", "processing", "completed", "failed", "canceled"}]
        /\ \A u \in Tickets : u # t => status'[u] = status[u]
        /\ t \in reg => status'[t] = IF old.phase = "error" THEN "failed" ELSE "completed"
    BY <1>9 DEF EmitStamp, PoolInv, TypeOK
  <2>5. t \in reg => Agrees(t)'
    BY <1>1, <2>1, <2>2, <2>3, <2>4 DEF Agrees, PoolInv, TypeOK
  <2>6. QED  BY <1>4, <2>1, <2>2, <2>3, <2>4, <2>5, ProducerMoves
<1>10. CASE Finish(t)
  <2>1. ~Ended(t) /\ (t \in reg => Agrees(t))
    BY <1>10 DEF Finish, ProducerAt, Ended, PoolInv, Stamped
  <2>2. Stays([old EXCEPT !.pc = "exit"]) /\ UNCHANGED <<status, queue>>
    BY <1>10, <2>1 DEF Finish, ProducerGoto, Agrees
  <2>3. /\ [old EXCEPT !.pc = "exit"] \in [pc : ProducerPcs \ {"off", "spawned"}, phase : {"fresh"} \cup Events]
        /\ [old EXCEPT !.pc = "exit"].pc = "exit" /\ [old EXCEPT !.pc = "exit"].phase = old.phase
    BY <1>1, <1>2 DEF ProducerPcs
  <2>4. t \in reg => Agrees(t)'
    BY <2>1, <2>2, <2>3 DEF Agrees, PoolInv, TypeOK
  <2>5. QED  BY <1>4, <1>5, <2>1, <2>2, <2>3, <2>4, ProducerMoves
<1>11. QED  BY <1>6, <1>7, <1>8, <1>9, <1>10 DEF Produce

\* A send begins with an event in hand.
LEMMA EmitBeginInv ==
    ASSUME PoolInv, NEW t \in Tickets, NEW ev \in Events, EmitBegin(t, ev)
    PROVE  PoolInv'
<1> DEFINE p == [pc |-> "send", phase |-> ev]
<1>1. ~Ended(t)
  BY DEF EmitBegin, ProducerAt, Ended
<1>2. /\ UNCHANGED <<closed, closer, reg, canceled, age, handler, phase>> /\ UNCHANGED <<status, queue>>
      /\ producer' = [producer EXCEPT ![t] = p]
  BY DEF EmitBegin
<1>3. p \in [pc : ProducerPcs \ {"off", "spawned"}, phase : {"fresh"} \cup Events] /\ p.pc = "send" /\ p.phase \in Events
  BY DEF ProducerPcs
<1>4. /\ status' \in [Tickets -> {"pending", "processing", "completed", "failed", "canceled"}]
      /\ queue' \in [Tickets -> Seq(Events)] /\ \A u \in Tickets : Len(queue'[u]) <= QCap
  BY <1>2 DEF PoolInv, TypeOK
<1>5. QED  BY <1>1, <1>2, <1>3, <1>4, ProducerMoves

LEMMA CloseInv == ASSUME PoolInv, CloseBegin \/ CloseEnd  PROVE PoolInv'
<1>1. CASE CloseBegin
  <2>1. UNCHANGED <<status, queue, age, handler, producer, phase>> /\ closed' = TRUE /\ closer' = "waiting"
        /\ canceled' = canceled \cup reg /\ reg' = {}
    BY <1>1 DEF CloseBegin
  <2>2. TypeOK'
    BY <2>1 DEF PoolInv, TypeOK
  <2>3. Uncreated' /\ Released'
    BY <2>1 DEF PoolInv, Uncreated, Released
  <2>4. Stamped' /\ Shut'
    BY <2>1 DEF PoolInv, Stamped, Shut, ClosedMeansQuiet
  <2>5. QED  BY <2>2, <2>3, <2>4 DEF PoolInv
<1>2. CASE CloseEnd
  <2>1. UNCHANGED <<closed, reg, status, queue, canceled, age, handler, producer, phase>>
        /\ closer' = "returned" /\ closer = "waiting" /\ \A t \in Tickets : Ended(t)
    BY <1>2 DEF CloseEnd
  <2>2. TypeOK' /\ Uncreated' /\ Released'
    BY <2>1 DEF PoolInv, TypeOK, Uncreated, Released
  <2>3. Stamped' /\ Shut'
    BY <2>1 DEF PoolInv, Stamped, Agrees, Shut, ClosedMeansQuiet, Ended
  <2>4. QED  BY <2>2, <2>3 DEF PoolInv
<1>3. QED  BY <1>1, <1>2

LEMMA StutterInv == ASSUME PoolInv, UNCHANGED vars  PROVE PoolInv'
  BY DEF vars, PoolInv, TypeOK, Uncreated, Released, Stamped, Agrees, Shut, ClosedMeansQuiet, Ended

LEMMA NextPoolInv == ASSUME PoolInv, [Next]_vars  PROVE PoolInv'
<1>1. CASE \E r \in Requests : SweepCollect(r) \/ Release(r) \/ OtherCreated(r)
  BY <1>1, SweepInv, ReleaseDeleteInv, ReleaseCancelInv DEF Release
<1>2. CASE \E t \in Tickets : Handle(t) \/ StreamGone(t) \/ Produce(t) \/ Grow(t)
  BY <1>2, CreateInv, StreamInv, ProducerInv, GrowInv DEF Handle
<1>3. CASE \E t \in Tickets : \E ev \in {"ready", "streaming", "done", "error"} : EmitBegin(t, ev)
  BY <1>3, EmitBeginInv DEF Events
<1>4. CASE CloseBegin \/ CloseEnd
  BY <1>4, CloseInv
<1>5. CASE UNCHANGED vars
  BY <1>5, StutterInv
<1>6. QED  BY <1>1, <1>2, <1>3, <1>4, <1>5 DEF Next

LEMMA SpecPoolInv == Spec => []PoolInv
  BY InitPoolInv, NextPoolInv, PTL DEF Spec

\* Every reachable state of the pool has the shape TypeOK, the channel's
\* capacity included.
THEOREM AsyncPoolType == Spec => []TypeOK
<1>1. PoolInv => TypeOK
  BY DEF PoolInv
<1>2. QED  BY <1>1, SpecPoolInv, PTL

\* A ticket whose producer ended and which nobody released carries the status
\* of the final event that was emitted (pool.go:335-346, 390-399).
THEOREM AsyncPoolStatusTruth == Spec => []StatusTruth
<1>1. PoolInv => StatusTruth
  BY DEF PoolInv, Stamped, Agrees, StatusTruth, TypeOK
<1>2. QED  BY <1>1, SpecPoolInv, PTL

\* Once Close has returned no producer runs and none is ever started again
\* (pool.go:74-91, 131-147).
THEOREM AsyncPoolClosedMeansQuiet == Spec => []ClosedMeansQuiet
<1>1. PoolInv => ClosedMeansQuiet
  BY DEF PoolInv, Shut
<1>2. QED  BY <1>1, SpecPoolInv, PTL

(***************************************************************************)
(* The stream of a ticket: what its client has received, what waits in the  *)
(* channel and what the producer is sending are one run of the protocol.    *)
(***************************************************************************)

\* The handler still forwards to its client, or will.
Forwards(t) == handler[t].pc \in {"idle", "sweep", "open", "loop", "select"}

Follows(a, b) == \/ a = "fresh" /\ b \in {"ready", "error"}
                 \/ a = "ready" /\ b \in {"streaming", "error"}
                 \/ a = "streaming" /\ b \in {"streaming", "done", "error"}

\* The last event in the channel, or else the last one received.
Newest(t) == IF queue[t] = <<>> THEN phase[t] ELSE queue[t][Len(queue[t])]

InOrder(t) ==
    /\ phase[t] \in {"fresh", "ready", "streaming"}
    /\ queue[t] # <<>> => Follows(phase[t], queue[t][1])
    /\ \A i \in 1..Len(queue[t]) : i < Len(queue[t]) => Follows(queue[t][i], queue[t][i + 1])

\* Where the producer is, against what it has emitted.
Emitting(t) ==
    /\ producer[t].pc \in {"off", "spawned"} =>
           producer[t].phase = "fresh" /\ queue[t] = <<>> /\ phase[t] = "fresh"
    /\ producer[t].pc = "work" => producer[t].phase \in {"fresh", "ready", "streaming"}
    /\ producer[t].pc = "send" => Follows(Newest(t), producer[t].phase)
    /\ producer[t].pc \in {"work", "stamp"} => producer[t].phase = Newest(t)
    /\ producer[t].pc \in {"finish", "exit"} /\ t \notin canceled => producer[t].phase = Newest(t)

FlowInv == \A t \in Tickets : Forwards(t) => InOrder(t) /\ Emitting(t)

LEMMA InitFlow == ASSUME Init PROVE FlowInv
<1>1. \A t \in Tickets : /\ phase[t] = "fresh" /\ queue[t] = <<>> /\ Len(queue[t]) = 0
                         /\ producer[t].pc = "off" /\ producer[t].phase = "fresh"
  BY DEF Init
<1>2. QED  BY <1>1 DEF FlowInv, InOrder, Emitting

\* Tickets that do not move, and are no less cancelled.
LEMMA FlowStays ==
    ASSUME FlowInv, NEW t \in Tickets, Forwards(t)' => Forwards(t),
           phase'[t] = phase[t], queue'[t] = queue[t], producer'[t] = producer[t],
           canceled \subseteq canceled'
    PROVE  Forwards(t)' => InOrder(t)' /\ Emitting(t)'
<1> SUFFICES ASSUME Forwards(t)' PROVE InOrder(t)' /\ Emitting(t)'
  OBVIOUS
<1>1. InOrder(t) /\ Emitting(t)
  BY DEF FlowInv
<1>2. Newest(t)' = Newest(t)
  BY DEF Newest
<1>3. InOrder(t)'
  BY <1>1 DEF InOrder
<1>4. Emitting(t)'
  BY <1>1, <1>2 DEF Emitting
<1>5. QED  BY <1>3, <1>4

\* What moves no event: the table, the sweep, Close and the passing of time.
LEMMA AroundFlow ==
    ASSUME PoolInv, FlowInv,
           \/ \E r \in Requests : SweepCollect(r) \/ Release(r) \/ OtherCreated(r)
           \/ CloseBegin \/ CloseEnd \/ (\E t \in Tickets : Grow(t)) \/ UNCHANGED vars
    PROVE  FlowInv' /\ UNCHANGED phase
<1>1. UNCHANGED <<phase, queue, producer>> /\ canceled \subseteq canceled'
  BY DEF SweepCollect, Release, ReleaseDelete, ReleaseCancel, OtherCreated, CloseBegin, CloseEnd, Grow, vars
<1>2. \A t \in Tickets : Forwards(t)' => Forwards(t)
  <2>1. ASSUME NEW r \in Requests, SweepCollect(r) \/ OtherCreated(r)
        PROVE  \A t \in Tickets : Forwards(t)' => Forwards(t)
    BY <2>1, AsyncPoolAssumption DEF SweepCollect, OtherCreated, HandlerAt, HandlerGoto, Forwards,
       PoolInv, TypeOK, Requests
  <2>2. ASSUME NEW r \in Requests, NEW u \in Tickets, ReleaseDelete(r, u)
        PROVE  \A t \in Tickets : Forwards(t)' => Forwards(t)
    <3>1. \A q \in Requests : handler'[q].pc = handler[q].pc \/ handler'[q].pc = "end"
      <4> DEFINE h == [pc |-> IF handler[r].pc = "release" /\ u \notin reg THEN "end" ELSE handler[r].pc,
                       todo |-> handler[r].todo \ {u},
                       hold |-> IF u \in reg THEN u ELSE None]
      <4>1. handler' = [handler EXCEPT ![r] = h]
        BY <2>2 DEF ReleaseDelete
      <4>2. h.pc = handler[r].pc \/ h.pc = "end"
        OBVIOUS
      <4> HIDE DEF h
      <4>3. QED  BY <4>1, <4>2 DEF PoolInv, TypeOK
    <3>2. QED  BY <3>1 DEF Forwards, Requests
  <2>3. ASSUME NEW r \in Requests, ReleaseCancel(r)
        PROVE  \A t \in Tickets : Forwards(t)' => Forwards(t)
    <3>1. \A q \in Requests : handler'[q].pc = handler[q].pc \/ handler'[q].pc = "end"
      <4> DEFINE h == [pc |-> IF handler[r].pc = "release" THEN "end" ELSE handler[r].pc,
                       todo |-> handler[r].todo, hold |-> None]
      <4>1. handler' = [handler EXCEPT ![r] = h]
        BY <2>3 DEF ReleaseCancel
      <4>2. h.pc = handler[r].pc \/ h.pc = "end"
        OBVIOUS
      <4> HIDE DEF h
      <4>3. QED  BY <4>1, <4>2 DEF PoolInv, TypeOK
    <3>2. QED  BY <3>1 DEF Forwards, Requests
  <2>4. CASE UNCHANGED handler
    BY <2>4 DEF Forwards
  <2>5. QED  BY <2>1, <2>2, <2>3, <2>4 DEF Release, CloseBegin, CloseEnd, Grow, vars
<1>3. FlowInv'
  <2> SUFFICES ASSUME NEW t \in Tickets PROVE Forwards(t)' => InOrder(t)' /\ Emitting(t)'
    BY DEF FlowInv
  <2>1. QED  BY <1>1, <1>2, FlowStays
<1>4. QED  BY <1>1, <1>3

\* Only the ticket t moves.
LEMMA OneMoves ==
    ASSUME FlowInv, NEW t \in Tickets, canceled \subseteq canceled',
           \A u \in Tickets \ {t} : /\ phase'[u] = phase[u] /\ queue'[u] = queue[u]
                                    /\ producer'[u] = producer[u] /\ handler'[u] = handler[u],
           Forwards(t)' => InOrder(t)' /\ Emitting(t)'
    PROVE  FlowInv'
<1>1. ASSUME NEW u \in Tickets, u # t PROVE Forwards(u)' => InOrder(u)' /\ Emitting(u)'
  <2>1. Forwards(u)' => Forwards(u)
    BY <1>1 DEF Forwards
  <2>2. phase'[u] = phase[u] /\ queue'[u] = queue[u] /\ producer'[u] = producer[u]
    BY <1>1
  <2>3. QED  BY <2>1, <2>2, FlowStays
<1>2. QED  BY <1>1 DEF FlowInv

LEMMA CreateFlow == ASSUME PoolInv, FlowInv, NEW t \in Tickets, Create(t) PROVE FlowInv'
<1>1. /\ handler[t].pc = "sweep" /\ producer[t].pc = "off"
      /\ UNCHANGED <<queue, canceled>>
      /\ \A u \in Tickets \ {t} : /\ phase'[u] = phase[u] /\ queue'[u] = queue[u]
                                  /\ producer'[u] = producer[u] /\ handler'[u] = handler[u]
  BY DEF Create, HandlerAt, HandlerGoto, PoolInv, TypeOK, Uncreated, Requests
<1>2. ASSUME Forwards(t)' PROVE InOrder(t)' /\ Emitting(t)'
  <2>1. ~closed
    BY <1>2 DEF Create, Forwards, HandlerGoto, PoolInv, TypeOK, Requests
  <2>2. phase'[t] = phase[t] /\ queue'[t] = queue[t] /\ producer'[t].pc = "spawned"
        /\ producer'[t].phase = producer[t].phase
    BY <2>1 DEF Create, PoolInv, TypeOK
  <2>3. InOrder(t) /\ Emitting(t)
    BY <1>1 DEF FlowInv, Forwards
  <2>4. QED  BY <1>1, <2>2, <2>3 DEF InOrder, Emitting, Newest
<1>3. QED  BY <1>1, <1>2, OneMoves

\* A handler that goes on, or ends its stream, without an event.
LEMMA StreamFlow ==
    ASSUME PoolInv, FlowInv, NEW t \in Tickets,
           StreamOpen(t) \/ StreamLoop(t) \/ StreamKeepalive(t) \/ StreamGone(t)
    PROVE  FlowInv'
<1>1. /\ Forwards(t) /\ UNCHANGED <<queue, canceled, producer>>
      /\ \A u \in Tickets \ {t} : phase'[u] = phase[u] /\ handler'[u] = handler[u]
  BY DEF StreamOpen, StreamLoop, StreamKeepalive, StreamGone, HandlerAt, HandlerGoto, Forwards,
     PoolInv, TypeOK, Requests
<1>2. Forwards(t)' => phase'[t] = phase[t]
  BY DEF StreamOpen, StreamLoop, StreamKeepalive, StreamGone, HandlerGoto, Forwards, PoolInv, TypeOK, Requests
<1>3. Forwards(t)' => InOrder(t)' /\ Emitting(t)'
  BY <1>1, <1>2, FlowStays
<1>4. QED  BY <1>1, <1>3, OneMoves

LEMMA TailIs ==
    ASSUME NEW q \in Seq(Events), q # <<>>
    PROVE  /\ Tail(q) \in Seq(Events) /\ Len(Tail(q)) = Len(q) - 1 /\ Len(q) \in Nat \ {0}
           /\ \A i \in 1..Len(Tail(q)) : Tail(q)[i] = q[i + 1]
           /\ Head(q) = q[1] /\ q[1] \in Events /\ (Len(q) = 1 <=> Tail(q) = <<>>)
<1>1. Tail(q) \in Seq(Events) /\ Len(Tail(q)) = Len(q) - 1 /\ Len(q) \in Nat \ {0}
  OBVIOUS
<1>2. \A i \in 1..Len(Tail(q)) : Tail(q)[i] = q[i + 1]
  OBVIOUS
<1>3. Head(q) = q[1] /\ q[1] \in Events
  OBVIOUS
<1>4. \A s \in Seq(Events) : s = <<>> <=> Len(s) = 0
  OBVIOUS
<1>5. Len(q) = 1 <=> Tail(q) = <<>>
  <2>1. Tail(q) = <<>> <=> Len(Tail(q)) = 0
    BY <1>1, <1>4, Zenon
  <2> DEFINE n == Len(Tail(q))
             m == Len(q)
  <2>2. n = m - 1 /\ m \in Nat \ {0} /\ (Tail(q) = <<>> <=> n = 0)
    BY <1>1, <2>1
  <2> HIDE DEF n, m
  <2>3. m = 1 <=> Tail(q) = <<>>
    BY <2>2
  <2>4. QED  BY <2>3 DEF m
<1>6. QED  BY <1>1, <1>2, <1>3, <1>5

LEMMA EventFlow ==
    ASSUME PoolInv, FlowInv, NEW t \in Tickets, StreamEvent(t)
    PROVE  FlowInv' /\ Follows(phase[t], phase'[t]) /\ phase' = [phase EXCEPT ![t] = phase'[t]]
<1> DEFINE q == queue[t]
           s == Tail(q)
<1>1. /\ Forwards(t) /\ q \in Seq(Events) /\ q # <<>> /\ UNCHANGED <<canceled, producer>>
      /\ queue' = [queue EXCEPT ![t] = s] /\ phase' = [phase EXCEPT ![t] = Head(q)]
  BY DEF StreamEvent, HandlerAt, Forwards, PoolInv, TypeOK
<1>2. /\ queue'[t] = s /\ phase'[t] = q[1]
      /\ \A u \in Tickets \ {t} : phase'[u] = phase[u] /\ queue'[u] = queue[u] /\ handler'[u] = handler[u]
  BY <1>1, TailIs DEF PoolInv, TypeOK, StreamEvent, HandlerGoto, Requests
<1>3. InOrder(t) /\ Emitting(t)
  BY <1>1 DEF FlowInv
<1>4. /\ s \in Seq(Events) /\ Len(s) = Len(q) - 1 /\ Len(q) \in Nat \ {0}
      /\ \A i \in 1..Len(s) : s[i] = q[i + 1]
      /\ q[1] \in Events /\ (Len(q) = 1 <=> s = <<>>)
  BY <1>1, TailIs
<1>5. Follows(phase[t], q[1]) /\ \A i \in 1..Len(q) : i < Len(q) => Follows(q[i], q[i + 1])
  BY <1>1, <1>3 DEF InOrder
<1>6. ASSUME Forwards(t)' PROVE InOrder(t)' /\ Emitting(t)'
  <2>1. q[1] \notin {"done", "error"}
    BY <1>1, <1>6, TailIs DEF StreamEvent, HandlerGoto, Forwards, PoolInv, TypeOK, Requests
  <2>2. phase'[t] \in {"fresh", "ready", "streaming"}
    BY <1>2, <1>4, <2>1 DEF Events
  <2> HIDE DEF s, q
  <2>3. s # <<>> => Follows(q[1], s[1])
    <3> SUFFICES ASSUME s # <<>> PROVE Follows(q[1], s[1])
      OBVIOUS
    <3>1. 1 < Len(q) /\ 1 \in 1..Len(q) /\ 1 \in 1..Len(s)
      BY <1>4
    <3>2. QED  BY <1>4, <1>5, <3>1
  <2>4. \A i \in 1..Len(s) : i < Len(s) => Follows(s[i], s[i + 1])
    <3> SUFFICES ASSUME NEW i \in 1..Len(s), i < Len(s) PROVE Follows(s[i], s[i + 1])
      OBVIOUS
    <3>1. i + 1 \in 1..Len(s) /\ i + 1 \in 1..Len(q) /\ i + 1 < Len(q)
      BY <1>4
    <3>2. s[i] = q[i + 1] /\ s[i + 1] = q[(i + 1) + 1] /\ Follows(q[i + 1], q[(i + 1) + 1])
      BY <1>4, <1>5, <3>1
    <3>3. QED  BY <3>2
  <2>5. InOrder(t)'
    BY <1>2, <2>2, <2>3, <2>4 DEF InOrder
  <2>6. Newest(t)' = Newest(t)
    <3>1. Newest(t) = q[Len(q)] /\ Newest(t)' = IF s = <<>> THEN q[1] ELSE s[Len(s)]
      BY <1>1, <1>2 DEF Newest, q
    <3>2. s # <<>> => Len(s) \in 1..Len(s) /\ s[Len(s)] = q[Len(s) + 1] /\ Len(s) + 1 = Len(q)
      BY <1>4
    <3>3. QED  BY <1>4, <3>1, <3>2
  <2>7. producer[t].pc \notin {"off", "spawned"}
    BY <1>1, <1>3 DEF Emitting, q
  <2>8. Emitting(t)'
    BY <1>1, <1>3, <2>6, <2>7 DEF Emitting
  <2>9. QED  BY <2>5, <2>8
<1>7. FlowInv'
  BY <1>1, <1>2, <1>6, OneMoves
<1>8. phase' = [phase EXCEPT ![t] = phase'[t]]
  BY <1>1, <1>2 DEF PoolInv, TypeOK
<1>9. QED  BY <1>2, <1>5, <1>7, <1>8

\* The producer moves, the channel does not.
LEMMA ProducerFlow ==
    ASSUME PoolInv, FlowInv, NEW t \in Tickets,
           \/ Claim(t) \/ Quit(t) \/ EmitAborted(t) \/ EmitStamp(t) \/ Finish(t)
           \/ \E ev \in {"ready", "streaming", "done", "error"} : EmitBegin(t, ev)
    PROVE  FlowInv' /\ UNCHANGED phase
<1>1. /\ UNCHANGED <<phase, queue, canceled, handler>>
      /\ \A u \in Tickets \ {t} : producer'[u] = producer[u]
  BY DEF Claim, Quit, EmitAborted, EmitStamp, Finish, EmitBegin, ProducerGoto, PoolInv, TypeOK
<1>2. ASSUME Forwards(t)' PROVE InOrder(t)' /\ Emitting(t)'
  <2>1. Forwards(t) /\ InOrder(t) /\ Emitting(t)
    BY <1>1, <1>2 DEF FlowInv, Forwards
  <2>2. Newest(t)' = Newest(t) /\ InOrder(t)'
    BY <1>1, <2>1 DEF Newest, InOrder
  <2>3. CASE Claim(t)
    <3>1. /\ producer[t].pc = "spawned" /\ producer'[t].pc \in {"work", "exit"}
          /\ producer'[t].phase = producer[t].phase
      BY <2>3 DEF Claim, ProducerAt, ProducerGoto, PoolInv, TypeOK
    <3>2. producer[t].phase = "fresh" /\ Newest(t) = "fresh"
      BY <2>1, <3>1 DEF Emitting, Newest
    <3>3. QED  BY <2>2, <3>1, <3>2 DEF Emitting
  <2>4. CASE Quit(t) \/ EmitStamp(t) \/ Finish(t)
    <3>1. /\ producer[t].pc \in {"work", "stamp", "finish"} /\ producer'[t].pc \in {"finish", "exit"}
          /\ producer'[t].phase = producer[t].phase
      BY <2>4 DEF Quit, EmitStamp, Finish, ProducerAt, ProducerGoto, PoolInv, TypeOK
    <3>2. QED  BY <1>1, <2>1, <2>2, <3>1 DEF Emitting
  <2>5. CASE EmitAborted(t)
    <3>1. t \in canceled /\ producer'[t].pc = "finish"
      BY <2>5 DEF EmitAborted, ProducerGoto, PoolInv, TypeOK
    <3>2. QED  BY <1>1, <2>2, <3>1 DEF Emitting
  <2>6. ASSUME NEW ev \in {"ready", "streaming", "done", "error"}, EmitBegin(t, ev)
        PROVE  Emitting(t)'
    <3>1. /\ producer[t].pc = "work" /\ ev \in MayFollow(producer[t].phase)
          /\ producer'[t].pc = "send" /\ producer'[t].phase = ev
      BY <2>6 DEF EmitBegin, ProducerAt, PoolInv, TypeOK
    <3>2. producer[t].phase \in {"fresh", "ready", "streaming"} /\ producer[t].phase = Newest(t)
      BY <2>1, <3>1 DEF Emitting
    <3>3. Follows(producer[t].phase, ev)
      BY <3>1, <3>2 DEF MayFollow, Follows
    <3>4. QED  BY <2>2, <3>1, <3>2, <3>3 DEF Emitting
  <2>7. QED  BY <2>2, <2>3, <2>4, <2>5, <2>6
<1>3. FlowInv'
  BY <1>1, <1>2, OneMoves
<1>4. QED  BY <1>1, <1>3

LEMMA AppendIs ==
    ASSUME NEW q \in Seq(Events), NEW e \in Events
    PROVE  /\ Append(q, e) \in Seq(Events) /\ Append(q, e) # <<>> /\ Len(Append(q, e)) = Len(q) + 1
           /\ Append(q, e)[Len(q) + 1] = e /\ \A i \in 1..Len(q) : Append(q, e)[i] = q[i]
           /\ Len(q) \in Nat /\ (q = <<>> <=> Len(q) = 0)
  OBVIOUS

LEMMA SendFlow ==
    ASSUME PoolInv, FlowInv, NEW t \in Tickets, EmitSend(t) PROVE FlowInv' /\ UNCHANGED phase
<1> DEFINE q == queue[t]
           e == producer[t].phase
           s == Append(q, e)
<1>1. /\ UNCHANGED <<phase, canceled, handler>> /\ q \in Seq(Events) /\ producer[t].pc = "send"
      /\ queue'[t] = s /\ producer'[t].phase = e
      /\ producer'[t].pc = (IF e \in {"done", "error"} THEN "stamp" ELSE "work")
      /\ \A u \in Tickets \ {t} : queue'[u] = queue[u] /\ producer'[u] = producer[u]
  BY DEF EmitSend, ProducerAt, ProducerGoto, PoolInv, TypeOK
<1>2. ASSUME Forwards(t)' PROVE InOrder(t)' /\ Emitting(t)'
  <2>1. Forwards(t) /\ InOrder(t) /\ Emitting(t)
    BY <1>1, <1>2 DEF FlowInv, Forwards
  <2>2. Follows(Newest(t), e) /\ e \in Events
    BY <1>1, <2>1 DEF Emitting, Follows, Events
  <2>3. /\ s \in Seq(Events) /\ s # <<>> /\ Len(s) = Len(q) + 1
        /\ s[Len(q) + 1] = e /\ \A i \in 1..Len(q) : s[i] = q[i]
        /\ Len(q) \in Nat /\ (q = <<>> <=> Len(q) = 0)
    BY <1>1, <2>2, AppendIs
  <2>4. /\ phase[t] \in {"fresh", "ready", "streaming"} /\ (q # <<>> => Follows(phase[t], q[1]))
        /\ \A i \in 1..Len(q) : i < Len(q) => Follows(q[i], q[i + 1])
        /\ Newest(t) = IF q = <<>> THEN phase[t] ELSE q[Len(q)]
    BY <2>1 DEF InOrder, Newest
  <2> HIDE DEF s, q
  <2>5. Follows(phase[t], s[1])
    BY <2>2, <2>3, <2>4
  <2>6. ASSUME NEW i \in 1..Len(s), i < Len(s) PROVE Follows(s[i], s[i + 1])
    <3>1. CASE i < Len(q)
      <4>1. i \in 1..Len(q) /\ i + 1 \in 1..Len(q)
        BY <2>3, <3>1
      <4>2. QED  BY <2>3, <2>4, <3>1, <4>1
    <3>2. CASE i = Len(q)
      <4>1. i \in 1..Len(q) /\ q # <<>>
        BY <2>3, <3>2
      <4>2. QED  BY <2>2, <2>3, <2>4, <3>2, <4>1
    <3>3. QED  BY <2>3, <2>6, <3>1, <3>2
  <2>7. Newest(t)' = e
    BY <1>1, <2>3 DEF Newest
  <2>8. InOrder(t)'
    BY <1>1, <2>3, <2>4, <2>5, <2>6 DEF InOrder
  <2>9. e \in {"done", "error"} \/ e \in {"fresh", "ready", "streaming"}
    BY <2>2 DEF Events
  <2> HIDE DEF e
  <2>10. Emitting(t)'
    BY <1>1, <2>7, <2>9 DEF Emitting
  <2>11. QED  BY <2>8, <2>10
<1>3. FlowInv'
  BY <1>1, <1>2, OneMoves
<1>4. QED  BY <1>1, <1>3

LEMMA FlowStep == ASSUME PoolInv, FlowInv, [Next]_vars PROVE FlowInv'
<1>1. CASE \E t \in Tickets : Handle(t) \/ StreamGone(t)
  BY <1>1, CreateFlow, StreamFlow, EventFlow DEF Handle, Stream
<1>2. CASE \E t \in Tickets : \/ Produce(t)
                              \/ \E ev \in {"ready", "streaming", "done", "error"} : EmitBegin(t, ev)
  BY <1>2, ProducerFlow, SendFlow DEF Produce
<1>3. CASE \/ \E r \in Requests : SweepCollect(r) \/ Release(r) \/ OtherCreated(r)
           \/ CloseBegin \/ CloseEnd \/ (\E t \in Tickets : Grow(t)) \/ UNCHANGED vars
  BY <1>3, AroundFlow
<1>4. QED  BY <1>1, <1>2, <1>3 DEF Next

\* A step of the table delivers nothing, or one event that may follow.
LEMMA ClientStep == ASSUME PoolInv, FlowInv, [Next]_vars PROVE [Client!Next]_phase
<1>1. ASSUME NEW t \in Tickets, Handle(t) \/ StreamGone(t) PROVE [Client!Next]_phase
  <2>1. CASE StreamEvent(t)
    <3>1. Follows(phase[t], phase'[t]) /\ phase' = [phase EXCEPT ![t] = phase'[t]]
      BY <2>1, EventFlow
    <3>2. QED  BY <3>1 DEF Follows, Client!Next, Client!Ready, Client!Chunk, Client!Done, Client!Error,
                           Client!Deliver, Client!Phases, Client!Final
  <2>2. CASE Create(t) \/ StreamOpen(t) \/ StreamLoop(t) \/ StreamGone(t)
    <3>1. UNCHANGED phase \/ (Forwards(t) /\ \E to \in {"error", "gone"} : phase' = [phase EXCEPT ![t] = to])
      BY <2>2 DEF Create, StreamOpen, StreamLoop, StreamGone, HandlerAt, Forwards
    <3>2. Forwards(t) => phase[t] \in {"fresh", "ready", "streaming"}
      BY DEF FlowInv, InOrder
    <3>3. QED  BY <3>1, <3>2 DEF Client!Next, Client!Error, Client!Gone, Client!Deliver, Client!Phases,
                                 Client!Final
  <2>3. CASE StreamKeepalive(t)
    BY <2>3 DEF StreamKeepalive
  <2>4. QED  BY <1>1, <2>1, <2>2, <2>3 DEF Handle, Stream
<1>2. CASE \E t \in Tickets : \/ Produce(t)
                              \/ \E ev \in {"ready", "streaming", "done", "error"} : EmitBegin(t, ev)
  BY <1>2, ProducerFlow, SendFlow DEF Produce
<1>3. CASE \/ \E r \in Requests : SweepCollect(r) \/ Release(r) \/ OtherCreated(r)
           \/ CloseBegin \/ CloseEnd \/ (\E t \in Tickets : Grow(t)) \/ UNCHANGED vars
  BY <1>3, AroundFlow
<1>4. QED  BY <1>1, <1>2, <1>3 DEF Next

LEMMA FlowLosesNothing == ASSUME PoolInv, FlowInv PROVE NothingLost
<1> SUFFICES ASSUME NEW t \in Tickets \ canceled, handler[t].pc \in {"loop", "select"},
                    producer[t].pc \in {"work", "stamp", "finish", "exit"}
             PROVE  producer[t].phase = Last(<<phase[t]>> \o queue[t])
  BY DEF NothingLost
<1>1. producer[t].phase = Newest(t)
  BY DEF FlowInv, Forwards, Emitting
<1>2. Last(<<phase[t]>> \o queue[t]) = Newest(t)
  <2>1. queue[t] \in Seq(Events)
    BY DEF PoolInv, TypeOK
  <2> DEFINE q == queue[t]
             p == phase[t]
  <2>2. /\ Len(<<p>> \o q) = Len(q) + 1 /\ Len(q) \in Nat /\ (q = <<>> <=> Len(q) = 0)
        /\ (<<p>> \o q)[Len(q) + 1] = IF q = <<>> THEN p ELSE q[Len(q)]
    BY <2>1
  <2>3. QED  BY <2>2 DEF Last, Newest
<1>3. QED  BY <1>1, <1>2

LEMMA TableRuns == (RunInit => Init) /\ ([RunNext]_allVars => [Next]_vars)
<1>1. RunInit => Init
  BY DEF RunInit
<1>2. [RunNext]_allVars => [Next]_vars
  BY DEF RunNext, Table, Ticket, Passthrough, allVars
<1>3. QED  BY <1>1, <1>2

LEMMA RunFlowInv == RunSpec => [](PoolInv /\ FlowInv)
<1>1. RunInit => PoolInv /\ FlowInv
  BY TableRuns, InitPoolInv, InitFlow
<1>2. PoolInv /\ FlowInv /\ [RunNext]_allVars => (PoolInv /\ FlowInv)'
  BY TableRuns, NextPoolInv, FlowStep
<1>3. QED  BY <1>1, <1>2, PTL DEF RunSpec

(* The client of each ticket receives a run of TicketProtocol and, unless its ticket is
   cancelled, everything that was emitted for it, in order, whatever sweeps, deadlines,
   disconnects and Close do, for any tickets and any capacity of the channel
   (asyncpool/pool.go streamTicket, emit). *)
THEOREM TicketClientSeesAll == RunSpec => ClientSeesAll
<1>1. RunInit => Client!Init
  BY TableRuns DEF Init, Client!Init
<1>2. PoolInv /\ FlowInv /\ [RunNext]_allVars => [Client!Next]_phase
  BY TableRuns, ClientStep
<1>3. PoolInv /\ FlowInv => (focus = "table" => NothingLost)
  BY FlowLosesNothing
<1>4. QED  BY <1>1, <1>2, <1>3, RunFlowInv, PTL DEF RunSpec, ClientSeesAll, ClientProtocol, Client!Spec

(***************************************************************************)
(* Delivery: prefixes of sequences.                                        *)
(***************************************************************************)

LEMMA PrefixSelf == ASSUME NEW S, NEW s \in Seq(S)  PROVE DE!IsPrefix(s, s)
  BY DEF DE!IsPrefix

LEMMA PrefixOfEmpty == ASSUME NEW S, NEW s \in Seq(S)  PROVE DE!IsPrefix(<<>>, s)
<1>1. SubSeq(<<>>, 1, 0) = <<>> /\ SubSeq(s, 1, 0) = <<>>
  BY SubSeqEmpty
<1>2. Len(<<>>) = 0 /\ Len(s) \in Nat
  BY LenProperties
<1>3. QED  BY <1>1, <1>2 DEF DE!IsPrefix

\* What is a prefix of a sequence is a prefix of whatever continues it.
LEMMA PrefixGrows ==
    ASSUME NEW S, NEW s \in Seq(S), NEW t \in Seq(S), NEW u \in Seq(S), DE!IsPrefix(s, t)
    PROVE  DE!IsPrefix(s, t \o u)
<1>1. CASE s = <<>>
  BY <1>1, ConcatProperties, PrefixOfEmpty
<1>2. CASE s # <<>>
  <2>1. Len(s) \in Nat /\ Len(s) > 0 /\ Len(t) \in Nat
    BY <1>2, LenProperties, EmptySeq
  <2>2. Len(t \o u) >= Len(t)
    BY ConcatProperties, LenProperties
  <2>3. SubSeq(t \o u, 1, Len(s)) = SubSeq(t, 1, Len(s))
    <3>1. 1 \in 1..Len(t) /\ Len(s) \in 1..Len(t)
      BY <2>1 DEF DE!IsPrefix
    <3>2. QED  BY <3>1, SubSeqOfConcat1
  <2>4. QED  BY <2>1, <2>2, <2>3, LenProperties, ConcatProperties DEF DE!IsPrefix
<1>3. QED  BY <1>1, <1>2

LEMMA FrontLast ==
    ASSUME NEW S, NEW s \in Seq(S), s # <<>>
    PROVE  DE!Front(s) \in Seq(S) /\ DE!Last(s) \in S /\ s = DE!Front(s) \o <<DE!Last(s)>>
<1>1. Len(s) \in Nat /\ Len(s) > 0
  BY LenProperties, EmptySeq
<1>2. SubSeq(s, 1, Len(s)) = SubSeq(s, 1, Len(s) - 1) \o <<s[Len(s)]>>
  BY <1>1, SubSeqRecursiveSecond
<1>3. SubSeq(s, 1, Len(s)) = s
  BY SubSeqFull
<1>4. DE!Last(s) \in S
  BY <1>1, ElementOfSeq DEF DE!Last
<1>5. DE!Front(s) \in Seq(S)
  <2>1. \A i \in 1..Len(s) - 1 : s[i] \in S
    BY <1>1, ElementOfSeq
  <2>2. QED  BY <1>1, <2>1, SubSeqProperties DEF DE!Front
<1>6. QED  BY <1>2, <1>3, <1>4, <1>5 DEF DE!Front, DE!Last

LEMMA FrontOfLonger ==
    ASSUME NEW S, NEW s \in Seq(S), NEW e \in S
    PROVE  /\ s \o <<e>> \in Seq(S) /\ s \o <<e>> # <<>> /\ Append(s, e) = s \o <<e>>
           /\ DE!Front(s \o <<e>>) = s /\ DE!Last(s \o <<e>>) = e
<1>1. <<e>> \in Seq(S) /\ Len(<<e>>) = 1
  OBVIOUS
<1>2. Append(s, e) = s \o <<e>>
  BY AppendIsConcat
<1>3. s \o <<e>> \in Seq(S) /\ s \o <<e>> # <<>> /\ Len(s \o <<e>>) = Len(s) + 1 /\ (s \o <<e>>)[Len(s) + 1] = e
  BY <1>2, AppendProperties
<1>4. DE!Front(s \o <<e>>) = s
  <2>1. Len(s) \in Nat
    BY LenProperties
  <2>2. CASE s = <<>>
    BY <1>3, <2>2, SubSeqEmpty DEF DE!Front
  <2>3. CASE s # <<>>
    <3>1. Len(s) \in 1..Len(s) /\ 1 \in 1..Len(s)
      BY <2>1, <2>3, EmptySeq
    <3>2. SubSeq(s \o <<e>>, 1, Len(s)) = s
      BY <1>1, <3>1, SubSeqOfConcat1, SubSeqFull
    <3>3. QED  BY <1>3, <2>1, <3>2 DEF DE!Front
  <2>4. QED  BY <2>2, <2>3
<1>5. QED  BY <1>2, <1>3, <1>4, LenProperties DEF DE!Last

(***************************************************************************)
(* The delivery.                                                           *)
(***************************************************************************)

EventNames == {"start", "text", "tool", "delta", "close", "final", "stop", "error"}
Bytes == EventNames \cup {"name", "data", "junk"}

Places == {"open", "read", "push", "pushed", "ended", "terminal", "return", "over"}

Gates == [committed : BOOLEAN, abandoned : BOOLEAN, pending : Seq(Bytes), err : BOOLEAN,
          timer : {"off", "armed", "due"}]

DeliveryType ==
    /\ policy \in DE!Policies /\ prebuffer \in BOOLEAN /\ dead \in BOOLEAN
    /\ deN \in DE!Attempts /\ dePc \in Places
    /\ read \in Seq(EventNames) /\ torn \in {"none", "name", "data", "junk"}
    /\ ends \in {"none", "done", "error", "cut"}
    /\ gate \in [DE!Attempts -> Gates] /\ headers \in 0..1
    /\ client \in Seq(Bytes \cup DE!Endings)
    /\ result \in {"none", "writeFailed", "done", "error", "undelivered", "aborted", "cut"}

\* An event is read before it is cut or pushed, and an attempt starts anew.
Reading ==
    /\ torn # "none" => ends = "cut"
    /\ torn = "data" \/ (dePc = "push" /\ torn = "none") => read # <<>>
    /\ dePc = "open" => read = <<>> /\ torn = "none" /\ gate[deN] = DE!NewGate
    /\ dePc = "terminal" => ends = "cut"
    /\ dePc \in {"return", "over"} <=> result # "none"

\* What the reading loop has given to the gate: at "push" the chunk is still in its hands.
Handed == IF dePc # "push" THEN DE!Sent
          ELSE IF torn \in {"none", "data"} THEN DE!Front(read) ELSE read

\* Only the gate of this attempt can still let something out.
OtherGates ==
    \A a \in DE!Attempts :
        /\ a > deN => gate[a] = DE!NewGate
        /\ a < deN => gate[a].abandoned

\* The client has nothing, and all that was handed over is held back.
Holding ==
    /\ ~gate[deN].committed /\ ~gate[deN].abandoned /\ gate[deN].pending = Handed
    /\ ~gate[deN].err /\ headers = 0 /\ client = <<>>

\* The client has all that was handed over, unless its connection broke.
Flowing ==
    /\ gate[deN].committed /\ ~gate[deN].abandoned /\ (gate[deN].err => dead)
    /\ headers = 1 /\ client \in Seq(Bytes)
    /\ DE!IsPrefix(client, Handed) /\ (~dead => client = Handed)

\* The attempt was given up before anything left its gate.
Invisible ==
    /\ ~gate[deN].committed /\ gate[deN].abandoned
    /\ headers = 0 /\ client = <<>>

\* It is over, and an ending may follow what the client has.
Visible ==
    /\ gate[deN].committed /\ (gate[deN].err => dead)
    /\ headers = 1 /\ DE!IsPrefix(DE!Body, DE!Sent)
    /\ client # <<>> /\ DE!Last(client) = "closing" => DE!Body = DE!Sent /\ DE!MayClose

Phases ==
    /\ dePc \in {"open", "read", "push", "pushed", "ended"} => Holding \/ Flowing
    /\ dePc = "terminal" => Flowing
    /\ dePc \in {"return", "over"} => IF result = "undelivered" THEN Invisible ELSE Visible
    /\ dePc = "over" => gate[deN].abandoned

DeliveryInv == DeliveryType /\ Reading /\ OtherGates /\ Phases

LEMMA PlainEnd ==
    ASSUME NEW c \in Seq(Bytes), c # <<>>
    PROVE  DE!Last(c) \notin DE!Endings /\ DE!Last(c) # "closing"
<1>1. DE!Last(c) \in Bytes
  BY FrontLast
<1>2. QED  BY <1>1 DEF Bytes, EventNames, DE!Endings

\* What is sent is what was handed over and the chunk that was read last.
LEMMA Pieces ==
    ASSUME DeliveryType, Reading
    PROVE  /\ DE!Sent \in Seq(Bytes) /\ Handed \in Seq(Bytes)
           /\ dePc = "push" => DE!Chunk \in Seq(Bytes) /\ DE!Chunk # <<>> /\ DE!Sent = Handed \o DE!Chunk
<1>1. read \in Seq(Bytes) /\ \A e \in {"name", "data", "junk"} : e \in Bytes /\ <<e>> \in Seq(Bytes)
  BY SeqMonotonic DEF DeliveryType, EventNames, Bytes
<1>2. read # <<>> => /\ DE!Front(read) \in Seq(Bytes) /\ DE!Last(read) \in Bytes
                     /\ read = DE!Front(read) \o <<DE!Last(read)>>
  BY <1>1, FrontLast
<1>3. CASE torn = "none"
  BY <1>1, <1>2, <1>3 DEF DE!Sent, Handed, DE!Chunk, Reading
<1>4. CASE torn = "data"
  <2>1. DE!Front(read) \o <<torn>> \in Seq(Bytes)
    BY <1>1, <1>2, <1>4, FrontOfLonger DEF Reading
  <2>2. QED  BY <1>1, <1>2, <1>4, <2>1 DEF DE!Sent, Handed, DE!Chunk, Reading
<1>5. CASE torn \in {"name", "junk"}
  <2>1. Append(read, torn) = read \o <<torn>> /\ read \o <<torn>> \in Seq(Bytes)
    BY <1>1, <1>5, FrontOfLonger
  <2>2. QED  BY <1>1, <1>5, <2>1 DEF DE!Sent, Handed, DE!Chunk
<1>6. QED  BY <1>3, <1>4, <1>5 DEF DeliveryType

\* write: what arrives, and what the gate remembers of it.
LEMMA WrittenEffect ==
    ASSUME DeliveryType, NEW g \in Gates, NEW items \in Seq(Bytes \cup DE!Endings),
           DE!Written(deN, g, items), g.err => dead
    PROVE  /\ gate' \in [DE!Attempts -> Gates] /\ \A a \in DE!Attempts \ {deN} : gate'[a] = gate[a]
           /\ (gate'[deN].committed <=> g.committed) /\ (gate'[deN].abandoned <=> g.abandoned)
           /\ gate'[deN].err => dead
           /\ client' = IF dead THEN client ELSE client \o items
           /\ client' \in Seq(Bytes \cup DE!Endings)
<1>1. client \o items \in Seq(Bytes \cup DE!Endings) /\ (items = <<>> => client \o items = client)
  BY ConcatProperties, ConcatEmptySeq DEF DeliveryType
<1>2. CASE g.err \/ items = <<>>
  BY <1>1, <1>2 DEF DE!Written, DE!Set, DeliveryType, DE!Attempts
<1>3. CASE ~(g.err \/ items = <<>>)
  <2>1. [g EXCEPT !.err = dead] \in Gates
    BY DEF DeliveryType, Gates
  <2>2. gate' = [gate EXCEPT ![deN] = [g EXCEPT !.err = dead]]
    BY <1>3 DEF DE!Written, DE!Set
  <2>3. client' = IF dead THEN client ELSE client \o items
    BY <1>3 DEF DE!Written, DE!Received
  <2>4. gate'[deN] = [g EXCEPT !.err = dead]
    BY <2>2 DEF DeliveryType
  <2>5. gate' \in [DE!Attempts -> Gates] /\ \A a \in DE!Attempts \ {deN} : gate'[a] = gate[a]
    BY <2>1, <2>2 DEF DeliveryType
  <2>6. (gate'[deN].committed <=> g.committed) /\ (gate'[deN].abandoned <=> g.abandoned) /\ gate'[deN].err = dead
    BY <2>4 DEF Gates
  <2>7. QED  BY <1>1, <2>3, <2>5, <2>6 DEF DeliveryType
<1>4. QED  BY <1>2, <1>3

\* The gate lets go of what it holds back.
LEMMA Flushes ==
    ASSUME DeliveryInv, Holding, NEW t \in {"off", "armed", "due"}, headers' = headers + 1,
           DE!Written(deN, [gate[deN] EXCEPT !.committed = TRUE, !.timer = t, !.pending = <<>>], gate[deN].pending)
    PROVE  /\ gate' \in [DE!Attempts -> Gates] /\ \A a \in DE!Attempts \ {deN} : gate'[a] = gate[a]
           /\ gate'[deN].committed /\ ~gate'[deN].abandoned /\ (gate'[deN].err => dead)
           /\ headers' = 1 /\ client' \in Seq(Bytes)
           /\ DE!IsPrefix(client', Handed) /\ (~dead => client' = Handed)
<1> DEFINE g == [gate[deN] EXCEPT !.committed = TRUE, !.timer = t, !.pending = <<>>]
<1>1. gate[deN] \in Gates /\ deN \in DE!Attempts
  BY DEF DeliveryInv, DeliveryType
<1>2. g \in Gates /\ g.committed /\ (g.abandoned <=> gate[deN].abandoned) /\ (g.err <=> gate[deN].err)
  BY <1>1, EmptySeq DEF Gates
<1>3. Handed \in Seq(Bytes) /\ Handed \in Seq(Bytes \cup DE!Endings)
  BY Pieces, SeqMonotonic DEF DeliveryInv
<1>4. <<>> \o Handed = Handed /\ DE!IsPrefix(<<>>, Handed) /\ DE!IsPrefix(Handed, Handed)
  BY <1>3, ConcatEmptySeq, PrefixOfEmpty, PrefixSelf
<1>5. /\ gate' \in [DE!Attempts -> Gates] /\ \A a \in DE!Attempts \ {deN} : gate'[a] = gate[a]
      /\ (gate'[deN].committed <=> g.committed) /\ (gate'[deN].abandoned <=> g.abandoned)
      /\ gate'[deN].err => dead
      /\ client' = IF dead THEN client ELSE client \o Handed
  <2>1. DE!Written(deN, g, Handed) /\ (g.err => dead) /\ DeliveryType
    BY <1>2 DEF Holding, DeliveryInv
  <2> HIDE DEF g
  <2>2. QED  BY <1>2, <1>3, <2>1, WrittenEffect
<1>6. client = <<>> /\ headers = 0 /\ ~gate[deN].abandoned
  BY DEF Holding
<1>7. client \o Handed = Handed /\ <<>> \in Seq(Bytes)
  BY <1>4, <1>6
<1> HIDE DEF g
<1>8. client' \in Seq(Bytes) /\ DE!IsPrefix(client', Handed) /\ (~dead => client' = Handed)
  BY <1>3, <1>4, <1>5, <1>6, <1>7
<1>9. QED  BY <1>2, <1>5, <1>6, <1>8

\* commitLocked, while the stream is read.
LEMMA CommittedEffect ==
    ASSUME DeliveryInv, Holding \/ Flowing, DE!Committed(deN)
    PROVE  /\ gate' \in [DE!Attempts -> Gates] /\ \A a \in DE!Attempts \ {deN} : gate'[a] = gate[a]
           /\ gate'[deN].committed /\ ~gate'[deN].abandoned /\ (gate'[deN].err => dead)
           /\ headers' = 1 /\ client' \in Seq(Bytes)
           /\ DE!IsPrefix(client', Handed) /\ (~dead => client' = Handed)
<1>1. CASE Flowing
  <2>1. UNCHANGED <<gate, headers, client>>
    BY <1>1 DEF DE!Committed, Flowing
  <2>2. gate \in [DE!Attempts -> Gates]
    BY DEF DeliveryInv, DeliveryType
  <2>3. QED  BY <1>1, <2>1, <2>2 DEF Flowing
<1>2. CASE Holding
  <2> DEFINE t == IF gate[deN].timer = "due" THEN gate[deN].timer ELSE "off"
  <2>1. t \in {"off", "armed", "due"} /\ gate[deN] \in Gates
    BY DEF DeliveryInv, DeliveryType
  <2>2. /\ headers' = headers + 1
        /\ DE!Written(deN, [gate[deN] EXCEPT !.committed = TRUE, !.timer = t, !.pending = <<>>], gate[deN].pending)
    BY <1>2, <2>1 DEF DE!Committed, Holding, Gates
  <2> HIDE DEF t
  <2>3. QED  BY <1>2, <2>1, <2>2, Flushes
<1>3. QED  BY <1>1, <1>2

(***************************************************************************)
(* The steps.                                                              *)
(***************************************************************************)

LEMMA OthersStay ==
    ASSUME DeliveryType, OtherGates, deN' = deN, \A a \in DE!Attempts \ {deN} : gate'[a] = gate[a]
    PROVE  OtherGates'
  BY DEF DeliveryType, OtherGates, DE!Attempts

\* Two ways to keep the invariant while the stream is read: to hold back ...
LEMMA HoldingInv ==
    ASSUME DeliveryType', Reading', OtherGates', Holding',
           dePc' \in {"open", "read", "push", "pushed", "ended"}
    PROVE  DeliveryInv'
  BY DEF DeliveryInv, Phases

\* ... or to pass on.
LEMMA FlowingInv ==
    ASSUME DeliveryType', Reading', OtherGates', Flowing',
           dePc' \in {"read", "push", "pushed", "ended", "terminal", "return"},
           result' # "undelivered"
    PROVE  DeliveryInv'
<1>1. DE!Body' = client' /\ (client' # <<>> => DE!Last(client') # "closing")
  BY PlainEnd DEF Flowing, DE!Body
<1>2. dePc' = "return" => Visible'
  BY <1>1 DEF Flowing, Visible, Handed
<1>3. QED  BY <1>2 DEF DeliveryInv, Phases

LEMMA InitDelivery == ASSUME MaxAttempts \in Nat \ {0}, DE!Init PROVE DeliveryInv
<1>1. deN \in DE!Attempts /\ deN = 1 /\ gate = [a \in DE!Attempts |-> DE!NewGate]
  BY DEF DE!Init, DE!Attempts
<1>2. DE!NewGate \in Gates
  BY EmptySeq DEF DE!NewGate, Gates
<1>3. DeliveryType
  <2>1. gate \in [DE!Attempts -> Gates]
    BY <1>1, <1>2
  <2>2. read \in Seq(EventNames) /\ client \in Seq(Bytes \cup DE!Endings)
    BY EmptySeq DEF DE!Init
  <2>3. /\ policy \in DE!Policies /\ prebuffer \in BOOLEAN /\ headers = 0
        /\ dePc = "open" /\ torn = "none" /\ ends = "none" /\ result = "none"
    BY DEF DE!Init
  <2>4. deN \in DE!Attempts
    BY <1>1
  <2>5. headers \in 0..1 /\ dePc \in Places
    BY <2>3 DEF Places
  <2>6. dead \in BOOLEAN
    BY Zenon DEF DE!Init
  <2>7. QED  BY <2>1, <2>2, <2>3, <2>4, <2>5, <2>6 DEF DeliveryType
<1>4. Reading /\ OtherGates
  BY <1>1 DEF DE!Init, Reading, OtherGates, DE!Attempts
<1>5. Handed = <<>>
  BY DEF DE!Init, Handed, DE!Sent
<1>6. Holding
  BY <1>1, <1>5 DEF DE!Init, Holding, DE!NewGate
<1>7. QED  BY <1>3, <1>4, <1>6 DEF DeliveryInv, Phases, DE!Init

LEMMA OpenInv == ASSUME DeliveryInv, DE!Open PROVE DeliveryInv'
<1> USE DEF DeliveryInv
<1>1. /\ dePc = "open" /\ dePc' = "read"
      /\ UNCHANGED <<policy, prebuffer, deN, read, torn, ends, dead, result>>
  BY DEF DE!Open, DE!Goto, DE!upstream
<1>2. gate[deN] = DE!NewGate /\ deN \in DE!Attempts /\ gate[deN] \in Gates
  BY <1>1 DEF Reading, DeliveryType
<1>3. Holding
  BY <1>1, <1>2 DEF Phases, Flowing, DE!NewGate
<1>4. Handed' = Handed
  BY <1>1 DEF Handed, DE!Sent
<1>5. Reading'
  BY <1>1 DEF Reading
<1>6. CASE prebuffer
  <2>1. gate' = [gate EXCEPT ![deN] = [gate[deN] EXCEPT !.timer = "armed"]] /\ UNCHANGED <<headers, client>>
    BY <1>6 DEF DE!Open, DE!Set, DE!Armed
  <2>2. gate' \in [DE!Attempts -> Gates] /\ gate'[deN] = [gate[deN] EXCEPT !.timer = "armed"]
    BY <1>2, <2>1 DEF DeliveryType, Gates
  <2>3. Holding'
    BY <1>1, <1>2, <1>3, <1>4, <2>1, <2>2 DEF Holding, DE!NewGate
  <2>4. DeliveryType'
    BY <1>1, <2>1, <2>2 DEF DeliveryType, Places
  <2>5. OtherGates'
    BY <1>1, <2>1, OthersStay DEF DeliveryType
  <2>6. QED  BY <1>1, <1>5, <2>3, <2>4, <2>5, HoldingInv
<1>7. CASE ~prebuffer
  <2>1. DE!Committed(deN)
    BY <1>7 DEF DE!Open
  <2>2. /\ gate' \in [DE!Attempts -> Gates] /\ \A a \in DE!Attempts \ {deN} : gate'[a] = gate[a]
        /\ gate'[deN].committed /\ ~gate'[deN].abandoned /\ (gate'[deN].err => dead)
        /\ headers' = 1 /\ client' \in Seq(Bytes)
        /\ DE!IsPrefix(client', Handed) /\ (~dead => client' = Handed)
    BY <1>3, <2>1, CommittedEffect
  <2>3. DeliveryType'
    BY <1>1, <2>2, SeqMonotonic DEF DeliveryType, Places
  <2>4. Flowing'
    BY <1>1, <1>4, <2>2 DEF Flowing
  <2>5. OtherGates'
    BY <1>1, <2>2, OthersStay
  <2>6. result' # "undelivered"
    BY <1>1 DEF Reading
  <2>7. QED  BY <1>1, <1>5, <2>3, <2>4, <2>5, <2>6, FlowingInv
<1>8. QED  BY <1>6, <1>7

LEMMA EventsNamed == DE!Events \subseteq EventNames
  BY DEF DE!Events, EventNames

\* What is read is not handed over yet.
LEMMA ReadingInv == ASSUME DeliveryInv, DE!Read \/ DE!ReadTorn PROVE DeliveryInv'
<1> USE DEF DeliveryInv
<1>1. /\ dePc = "read" /\ dePc' = "push" /\ ends = "none" /\ torn = "none"
      /\ UNCHANGED <<policy, prebuffer, deN, gate, headers, client, dead, result>>
  BY DEF DE!Read, DE!ReadTorn, DE!Goto, Reading
<1>2. \/ \E e \in DE!Events : read' = Append(read, e) /\ <<torn', ends'>> \in {<<"none", "none">>, <<"data", "cut">>}
      \/ read' = read /\ torn' \in {"name", "junk"} /\ ends' = "cut"
  BY <1>1 DEF DE!Read, DE!ReadTorn
<1>3. read \in Seq(EventNames)
  BY DEF DeliveryType
<1>4. \A e \in DE!Events : Append(read, e) \in Seq(EventNames) /\ Append(read, e) # <<>> /\ DE!Front(Append(read, e)) = read
  BY <1>3, EventsNamed, FrontOfLonger
<1>5. Handed' = Handed
  <2>1. Handed = read
    BY <1>1 DEF Handed, DE!Sent
  <2>2. CASE read' = read /\ torn' \in {"name", "junk"}
    BY <1>1, <2>1, <2>2 DEF Handed
  <2>3. CASE \E e \in DE!Events : read' = Append(read, e) /\ torn' \in {"none", "data"}
    BY <1>1, <1>4, <2>1, <2>3 DEF Handed
  <2>4. QED  BY <1>2, <2>2, <2>3
<1>6. DeliveryType'
  BY <1>1, <1>2, <1>3, <1>4 DEF DeliveryType, Places
<1>7. Reading'
  BY <1>1, <1>2, <1>4 DEF Reading
<1>8. OtherGates'
  BY <1>1, OthersStay
<1>9. Holding' \/ Flowing'
  BY <1>1, <1>5 DEF Phases, Holding, Flowing
<1>10. result' # "undelivered"
  BY <1>1 DEF Reading
<1>11. QED  BY <1>1, <1>6, <1>7, <1>8, <1>9, <1>10, HoldingInv, FlowingInv

LEMMA PushInv == ASSUME DeliveryInv, DE!Push PROVE DeliveryInv'
<1> DEFINE g == gate[deN]
<1> USE DEF DeliveryInv
<1>1. /\ dePc = "push" /\ dePc' = "pushed"
      /\ UNCHANGED <<policy, prebuffer, deN, read, torn, ends, dead, result>>
  BY DEF DE!Push, DE!Goto, DE!upstream
<1>2. Handed \in Seq(Bytes) /\ DE!Chunk \in Seq(Bytes) /\ DE!Chunk # <<>> /\ DE!Sent = Handed \o DE!Chunk
  BY <1>1, Pieces
<1>3. Handed' = Handed \o DE!Chunk
  BY <1>1, <1>2 DEF Handed, DE!Sent
<1>4. g \in Gates /\ deN \in DE!Attempts /\ DE!Chunk \in Seq(Bytes \cup DE!Endings)
  BY <1>2, SeqMonotonic DEF DeliveryType
<1>5. Reading' /\ result' # "undelivered"
  BY <1>1 DEF Reading
<1>6. Handed \o DE!Chunk \in Seq(Bytes) /\ DE!IsPrefix(Handed \o DE!Chunk, Handed \o DE!Chunk) /\ <<>> \o (Handed \o DE!Chunk) = Handed \o DE!Chunk
  BY <1>2, ConcatProperties, ConcatEmptySeq, PrefixSelf
<1>7. CASE Flowing
  <2>1. DE!Written(deN, g, DE!Chunk) /\ headers' = headers /\ (g.err => dead)
    BY <1>7 DEF DE!Push, Flowing
  <2>2. /\ gate' \in [DE!Attempts -> Gates] /\ \A a \in DE!Attempts \ {deN} : gate'[a] = gate[a]
        /\ (gate'[deN].committed <=> g.committed) /\ (gate'[deN].abandoned <=> g.abandoned)
        /\ gate'[deN].err => dead
        /\ client' = IF dead THEN client ELSE client \o DE!Chunk
        /\ client' \in Seq(Bytes \cup DE!Endings)
    <3> HIDE DEF g
    <3>1. QED  BY <1>4, <2>1, WrittenEffect
  <2>3. client' \in Seq(Bytes) /\ DE!IsPrefix(client', Handed \o DE!Chunk) /\ (~dead => client' = Handed \o DE!Chunk)
    <3>1. CASE dead
      BY <1>2, <1>7, <2>2, <3>1, PrefixGrows DEF Flowing
    <3>2. CASE ~dead
      BY <1>6, <1>7, <2>2, <3>2 DEF Flowing
    <3>3. QED  BY <3>1, <3>2
  <2>4. Flowing'
    BY <1>1, <1>3, <1>7, <2>1, <2>2, <2>3 DEF Flowing
  <2>5. DeliveryType'
    BY <1>1, <2>1, <2>2 DEF DeliveryType, Places
  <2>6. OtherGates'
    BY <1>1, <2>2, OthersStay
  <2>7. QED  BY <1>1, <1>5, <2>4, <2>5, <2>6, FlowingInv
<1>8. CASE Holding
  <2> DEFINE h == [DE!Stopped(g) EXCEPT !.committed = TRUE, !.pending = <<>>]
  <2>1. ~g.committed /\ g.pending = Handed /\ ~g.err /\ ~g.abandoned /\ client = <<>> /\ headers = 0
    BY <1>8 DEF Holding
  <2>2. h \in Gates /\ h.committed /\ (h.abandoned <=> g.abandoned) /\ (h.err <=> g.err)
    BY <1>4, EmptySeq DEF Gates, DE!Stopped
  <2>3. CASE Len(g.pending) + 1 >= MaxPending
    <3>1. headers' = 1 /\ DE!Written(deN, h, Handed \o DE!Chunk)
      BY <2>1, <2>3 DEF DE!Push
    <3>2. Handed \o DE!Chunk \in Seq(Bytes \cup DE!Endings) /\ (h.err => dead)
      BY <1>6, <2>1, <2>2, SeqMonotonic
    <3>3. /\ gate' \in [DE!Attempts -> Gates] /\ \A a \in DE!Attempts \ {deN} : gate'[a] = gate[a]
          /\ (gate'[deN].committed <=> h.committed) /\ (gate'[deN].abandoned <=> h.abandoned)
          /\ gate'[deN].err => dead
          /\ client' = IF dead THEN client ELSE client \o (Handed \o DE!Chunk)
          /\ client' \in Seq(Bytes \cup DE!Endings)
      <4> HIDE DEF h
      <4>1. QED  BY <2>2, <3>1, <3>2, WrittenEffect
    <3>4. client' \in Seq(Bytes) /\ DE!IsPrefix(client', Handed \o DE!Chunk) /\ (~dead => client' = Handed \o DE!Chunk)
      BY <1>6, <2>1, <3>3, EmptySeq, PrefixOfEmpty
    <3> HIDE DEF h
    <3>5. Flowing'
      BY <1>1, <1>3, <2>1, <2>2, <3>1, <3>3, <3>4 DEF Flowing
    <3>6. DeliveryType'
      BY <1>1, <3>1, <3>3 DEF DeliveryType, Places
    <3>7. OtherGates'
      BY <1>1, <3>3, OthersStay
    <3>8. QED  BY <1>1, <1>5, <3>5, <3>6, <3>7, FlowingInv
  <2>4. CASE ~(Len(g.pending) + 1 >= MaxPending)
    <3>1. gate' = [gate EXCEPT ![deN] = [g EXCEPT !.pending = @ \o DE!Chunk]] /\ UNCHANGED <<headers, client>>
      BY <2>1, <2>4 DEF DE!Push, DE!Set
    <3>2. [g EXCEPT !.pending = @ \o DE!Chunk] \in Gates
      BY <1>4, <1>6, <2>1 DEF Gates
    <3>3. gate' \in [DE!Attempts -> Gates] /\ gate'[deN] = [g EXCEPT !.pending = @ \o DE!Chunk]
      BY <1>4, <3>1, <3>2 DEF DeliveryType
    <3>4. Holding'
      BY <1>1, <1>3, <1>4, <2>1, <3>1, <3>3 DEF Holding, Gates
    <3>5. DeliveryType' /\ OtherGates'
      BY <1>1, <3>1, <3>3, OthersStay DEF DeliveryType, Places
    <3>6. QED  BY <1>1, <1>5, <3>4, <3>5, HoldingInv
  <2>5. QED  BY <2>3, <2>4
<1>9. QED  BY <1>1, <1>7, <1>8 DEF Phases

LEMMA PushedInv == ASSUME DeliveryInv, DE!Pushed PROVE DeliveryInv'
<1> USE DEF DeliveryInv
<1>1. /\ dePc = "pushed" /\ dePc' \in {"read", "return"}
      /\ UNCHANGED <<policy, prebuffer, deN, read, torn, ends, dead>>
  BY DEF DE!Pushed, DE!upstream
<1>2. Handed' = Handed
  BY <1>1 DEF Handed, DE!Sent
<1>3. deN \in DE!Attempts /\ gate[deN] \in Gates /\ (Holding \/ Flowing) /\ result = "none"
  BY <1>1 DEF DeliveryType, Phases, Reading
<1>4. CASE gate[deN].err
  <2>1. dePc' = "return" /\ result' = "writeFailed" /\ UNCHANGED <<gate, headers, client>>
    BY <1>4 DEF DE!Pushed
  <2>2. Flowing'
    BY <1>1, <1>2, <1>3, <1>4, <2>1 DEF Holding, Flowing
  <2>3. DeliveryType' /\ Reading' /\ OtherGates'
    BY <1>1, <2>1, OthersStay DEF DeliveryType, Places, Reading
  <2>4. QED  BY <2>1, <2>2, <2>3, FlowingInv
<1>5. CASE ~gate[deN].err
  <2>1. dePc' = "read" /\ result' = "none"
    BY <1>3, <1>5 DEF DE!Pushed
  <2>2. Reading'
    BY <1>1, <2>1 DEF Reading
  <2>3. CASE DE!ContentSeen
    <3>1. DE!Committed(deN)
      BY <1>5, <2>3 DEF DE!Pushed
    <3>2. /\ gate' \in [DE!Attempts -> Gates] /\ \A a \in DE!Attempts \ {deN} : gate'[a] = gate[a]
          /\ gate'[deN].committed /\ ~gate'[deN].abandoned /\ (gate'[deN].err => dead)
          /\ headers' = 1 /\ client' \in Seq(Bytes)
          /\ DE!IsPrefix(client', Handed) /\ (~dead => client' = Handed)
      BY <1>3, <3>1, CommittedEffect
    <3>3. DeliveryType'
      BY <1>1, <2>1, <3>2, SeqMonotonic DEF DeliveryType, Places
    <3>4. Flowing' /\ OtherGates'
      BY <1>1, <1>2, <3>2, OthersStay DEF Flowing
    <3>5. QED  BY <2>1, <2>2, <3>3, <3>4, FlowingInv
  <2>4. CASE ~DE!ContentSeen
    <3>1. UNCHANGED <<gate, headers, client>>
      BY <1>5, <2>4 DEF DE!Pushed
    <3>2. DeliveryType' /\ OtherGates'
      BY <1>1, <2>1, <3>1, OthersStay DEF DeliveryType, Places
    <3>3. Holding' \/ Flowing'
      BY <1>1, <1>2, <1>3, <3>1 DEF Holding, Flowing
    <3>4. QED  BY <2>1, <2>2, <3>2, <3>3, HoldingInv, FlowingInv
  <2>5. QED  BY <2>3, <2>4
<1>6. QED  BY <1>4, <1>5

LEMMA ReadEndInv == ASSUME DeliveryInv, DE!ReadEnd PROVE DeliveryInv'
<1> USE DEF DeliveryInv
<1>1. /\ dePc = "read" /\ dePc' = "ended" /\ ends' \in {ends, "error", "done", "cut"}
      /\ ends = "cut" => ends' = "cut"
      /\ UNCHANGED <<policy, prebuffer, deN, read, torn, gate, headers, client, dead, result>>
  BY DEF DE!ReadEnd, DE!Goto
<1>2. Handed' = Handed
  BY <1>1 DEF Handed, DE!Sent
<1>3. DeliveryType' /\ OtherGates'
  BY <1>1, OthersStay DEF DeliveryType, Places
<1>4. Reading' /\ result' # "undelivered"
  BY <1>1 DEF Reading
<1>5. Holding' \/ Flowing'
  BY <1>1, <1>2 DEF Phases, Holding, Flowing
<1>6. QED  BY <1>1, <1>3, <1>4, <1>5, HoldingInv, FlowingInv

LEMMA WholeInv == ASSUME DeliveryInv, DE!Whole PROVE DeliveryInv'
<1> USE DEF DeliveryInv
<1>1. /\ dePc = "ended" /\ dePc' = "return" /\ DE!Committed(deN) /\ result' \in {"writeFailed", "done", "error"}
      /\ UNCHANGED <<policy, prebuffer, deN, read, torn, ends, dead>>
  BY DEF DE!Whole, DE!Goto, DE!upstream
<1>2. Handed' = Handed /\ (Holding \/ Flowing)
  BY <1>1 DEF Handed, DE!Sent, Phases
<1>3. /\ gate' \in [DE!Attempts -> Gates] /\ \A a \in DE!Attempts \ {deN} : gate'[a] = gate[a]
      /\ gate'[deN].committed /\ ~gate'[deN].abandoned /\ (gate'[deN].err => dead)
      /\ headers' = 1 /\ client' \in Seq(Bytes)
      /\ DE!IsPrefix(client', Handed) /\ (~dead => client' = Handed)
  BY <1>1, <1>2, CommittedEffect
<1>4. DeliveryType'
  BY <1>1, <1>3, SeqMonotonic DEF DeliveryType, Places
<1>5. Flowing' /\ OtherGates'
  BY <1>1, <1>2, <1>3, OthersStay DEF Flowing
<1>6. Reading'
  BY <1>1 DEF Reading
<1>7. QED  BY <1>1, <1>4, <1>5, <1>6, FlowingInv

LEMMA ClaimInv == ASSUME DeliveryInv, DE!Claim PROVE DeliveryInv'
<1> DEFINE g == gate[deN]
<1> USE DEF DeliveryInv
<1>1. /\ dePc = "ended" /\ ends = "cut" /\ dePc' \in {"terminal", "return"}
      /\ UNCHANGED <<policy, prebuffer, deN, read, torn, ends, headers, client, dead>>
  BY DEF DE!Claim, DE!upstream
<1>2. deN \in DE!Attempts /\ g \in Gates /\ (Holding \/ Flowing) /\ result = "none"
  BY <1>1 DEF DeliveryType, Phases, Reading
<1>3. Handed' = Handed
  BY <1>1 DEF Handed, DE!Sent
<1>4. CASE g.committed
  <2>1. gate' = [gate EXCEPT ![deN] = DE!Stopped(g)] /\ dePc' = "terminal" /\ result' = "none"
    BY <1>2, <1>4 DEF DE!Claim, DE!Set
  <2>2. /\ DE!Stopped(g) \in Gates /\ DE!Stopped(g).committed
        /\ (DE!Stopped(g).abandoned <=> g.abandoned) /\ (DE!Stopped(g).err <=> g.err)
    BY <1>2, <1>4 DEF DE!Stopped, Gates
  <2>3. gate' \in [DE!Attempts -> Gates] /\ gate'[deN] = DE!Stopped(g)
    BY <1>2, <2>1, <2>2 DEF DeliveryType
  <2>4. Flowing'
    BY <1>1, <1>2, <1>3, <1>4, <2>2, <2>3 DEF Holding, Flowing
  <2>5. DeliveryType' /\ OtherGates'
    BY <1>1, <2>1, <2>3, OthersStay DEF DeliveryType, Places
  <2>6. Reading'
    BY <1>1, <2>1 DEF Reading
  <2>7. QED  BY <2>1, <2>4, <2>5, <2>6, FlowingInv
<1>5. CASE ~g.committed
  <2>1. gate' = [gate EXCEPT ![deN] = DE!Claimed(g)] /\ dePc' = "return" /\ result' = "undelivered"
    BY <1>5 DEF DE!Claim, DE!Set
  <2>2. DE!Claimed(g) \in Gates /\ ~DE!Claimed(g).committed /\ DE!Claimed(g).abandoned
    BY <1>2, <1>5 DEF DE!Claimed, DE!Stopped, Gates
  <2>3. gate' \in [DE!Attempts -> Gates] /\ gate'[deN] = DE!Claimed(g)
    BY <1>2, <2>1, <2>2 DEF DeliveryType
  <2>4. Invisible'
    BY <1>1, <1>2, <1>5, <2>2, <2>3 DEF Holding, Flowing, Invisible
  <2>5. DeliveryType' /\ OtherGates'
    BY <1>1, <2>1, <2>3, OthersStay DEF DeliveryType, Places
  <2>6. Reading'
    BY <1>1, <2>1 DEF Reading
  <2>7. QED  BY <2>1, <2>4, <2>5, <2>6 DEF Phases
<1>6. QED  BY <1>4, <1>5

LEMMA TerminalInv == ASSUME DeliveryInv, DE!Terminal PROVE DeliveryInv'
<1> DEFINE g == gate[deN]
<1> USE DEF DeliveryInv
<1>1. /\ dePc = "terminal" /\ dePc' = "return" /\ DE!Written(deN, g, DE!Ending)
      /\ result' \in {"aborted", "writeFailed", "cut"}
      /\ UNCHANGED <<policy, prebuffer, deN, read, torn, ends, headers, dead>>
  BY DEF DE!Terminal, DE!Goto, DE!upstream
<1>2. Flowing /\ deN \in DE!Attempts /\ g \in Gates
  BY <1>1 DEF Phases, DeliveryType
<1>3. DE!Ending = <<>> \/ \E e \in DE!Endings : DE!Ending = <<e>> /\ (e = "closing" => DE!MayClose)
  BY DEF DE!Ending, DE!Endings
<1>4. DE!Ending \in Seq(Bytes \cup DE!Endings)
  <2>1. \A e \in DE!Endings : <<e>> \in Seq(Bytes \cup DE!Endings)
    OBVIOUS
  <2>2. QED  BY <1>3, <2>1, EmptySeq
<1>5. /\ gate' \in [DE!Attempts -> Gates] /\ \A a \in DE!Attempts \ {deN} : gate'[a] = gate[a]
      /\ (gate'[deN].committed <=> g.committed) /\ (gate'[deN].abandoned <=> g.abandoned)
      /\ gate'[deN].err => dead
      /\ client' = IF dead THEN client ELSE client \o DE!Ending
      /\ client' \in Seq(Bytes \cup DE!Endings)
  <2>1. g.err => dead
    BY <1>2 DEF Flowing
  <2> HIDE DEF g
  <2>2. QED  BY <1>1, <1>2, <1>4, <2>1, WrittenEffect
<1>6. DE!Sent' = DE!Sent /\ Handed = DE!Sent /\ (DE!MayClose' <=> DE!MayClose)
  BY <1>1 DEF DE!Sent, Handed, DE!MayClose, DE!Seen
<1>7. client \in Seq(Bytes) /\ DE!IsPrefix(client, DE!Sent) /\ (~dead => client = DE!Sent)
  BY <1>2, <1>6 DEF Flowing
<1>8. DE!IsPrefix(DE!Body, DE!Sent)' /\ (client' # <<>> /\ DE!Last(client') = "closing" => DE!Body' = DE!Sent' /\ DE!MayClose')
  <2>1. CASE client' = client
    <3>1. DE!Body' = client /\ (client' # <<>> => DE!Last(client') # "closing")
      BY <1>7, <2>1, PlainEnd DEF DE!Body
    <3>2. QED  BY <1>6, <1>7, <3>1
  <2>2. CASE client' # client
    <3>1. ~dead /\ client' = client \o DE!Ending
      BY <1>5, <2>2
    <3>2. PICK e \in DE!Endings : DE!Ending = <<e>> /\ (e = "closing" => DE!MayClose)
      BY <1>3, <1>7, <2>2, <3>1, ConcatEmptySeq
    <3>3. client \in Seq(Bytes \cup DE!Endings) /\ e \in Bytes \cup DE!Endings
      BY DEF DeliveryType
    <3>4. client' # <<>> /\ DE!Front(client') = client /\ DE!Last(client') = e
      BY <3>1, <3>2, <3>3, FrontOfLonger
    <3>5. DE!Body' = DE!Sent
      BY <1>7, <3>1, <3>4 DEF DE!Body
    <3>6. QED  BY <1>6, <1>7, <3>1, <3>2, <3>4, <3>5
  <2>3. QED  BY <2>1, <2>2
<1>9. Visible'
  BY <1>1, <1>2, <1>5, <1>8 DEF Visible, Flowing
<1>10. DeliveryType' /\ OtherGates'
  BY <1>1, <1>5, OthersStay DEF DeliveryType, Places
<1>11. Reading'
  BY <1>1 DEF Reading
<1>12. QED  BY <1>1, <1>9, <1>10, <1>11 DEF Phases

LEMMA ReturnInv == ASSUME MaxAttempts \in Nat \ {0}, DeliveryInv, DE!Return PROVE DeliveryInv'
<1> DEFINE g == gate[deN]
           h == [DE!Stopped(g) EXCEPT !.abandoned = TRUE, !.pending = <<>>]
<1> USE DEF DeliveryInv
<1>1. dePc = "return" /\ UNCHANGED <<policy, prebuffer, headers, client, dead>> /\ gate' = [gate EXCEPT ![deN] = h]
  BY DEF DE!Return, DE!Set
<1>2. deN \in DE!Attempts /\ g \in Gates
  BY DEF DeliveryType
<1>3. h \in Gates /\ h.abandoned /\ (h.committed <=> g.committed) /\ (h.err <=> g.err)
  BY <1>2, EmptySeq DEF DE!Stopped, Gates
<1> HIDE DEF h
<1>4. gate' \in [DE!Attempts -> Gates] /\ gate'[deN] = h /\ \A a \in DE!Attempts \ {deN} : gate'[a] = gate[a]
  BY <1>1, <1>2, <1>3 DEF DeliveryType
<1>5. IF result = "undelivered" THEN Invisible ELSE Visible
  BY <1>1 DEF Phases
<1>6. CASE result = "undelivered" /\ deN < MaxAttempts /\ ~dead
  <2>1. /\ deN' = deN + 1 /\ dePc' = "open" /\ read' = <<>> /\ torn' = "none" /\ ends' = "none"
        /\ result' = "none"
    BY <1>6 DEF DE!Return
  <2>2. deN + 1 \in DE!Attempts /\ deN + 1 # deN /\ deN \in Nat
    BY <1>2, <1>6 DEF DE!Attempts
  <2>3. gate'[deN'] = DE!NewGate
    BY <1>4, <2>1, <2>2 DEF OtherGates
  <2>4. DeliveryType'
    BY <1>1, <1>4, <2>1, <2>2, EmptySeq DEF DeliveryType, Places
  <2>5. OtherGates'
    BY <1>3, <1>4, <2>1, <2>2 DEF OtherGates, DE!Attempts
  <2>6. Reading'
    BY <2>1, <2>3 DEF Reading
  <2>7. Handed' = <<>>
    BY <2>1 DEF Handed, DE!Sent
  <2>8. Holding'
    BY <1>1, <1>5, <1>6, <2>3, <2>7 DEF Holding, DE!NewGate, Invisible
  <2>9. QED  BY <2>1, <2>4, <2>5, <2>6, <2>8, HoldingInv
<1>7. CASE ~(result = "undelivered" /\ deN < MaxAttempts /\ ~dead)
  <2>1. dePc' = "over" /\ UNCHANGED <<deN, read, torn, ends, result>>
    BY <1>7 DEF DE!Return, DE!upstream
  <2>2. DeliveryType' /\ OtherGates'
    BY <1>1, <1>4, <2>1, OthersStay DEF DeliveryType, Places
  <2>3. Reading'
    BY <1>1, <2>1 DEF Reading
  <2>4. IF result = "undelivered" THEN Invisible' ELSE Visible'
    BY <1>1, <1>3, <1>4, <1>5, <2>1 DEF Invisible, Visible, DE!Body, DE!Sent, DE!MayClose, DE!Seen
  <2>5. QED  BY <1>3, <1>4, <2>1, <2>2, <2>3, <2>4 DEF Phases
<1>8. QED  BY <1>6, <1>7

\* A timer that is armed, fires or finds its gate closed changes nothing else.
LEMMA TimerInv ==
    ASSUME DeliveryInv, NEW a \in DE!Attempts, gate[a].timer # "off", NEW t \in {"off", "due"},
           gate' = [gate EXCEPT ![a] = [gate[a] EXCEPT !.timer = t]],
           UNCHANGED <<policy, prebuffer, deN, dePc, read, torn, ends, headers, client, dead, result>>
    PROVE  DeliveryInv'
<1> DEFINE h == [gate[a] EXCEPT !.timer = t]
<1> USE DEF DeliveryInv
<1>1. deN \in DE!Attempts /\ gate[a] \in Gates
  BY DEF DeliveryType
<1>2. /\ h \in Gates /\ h.pending = gate[a].pending /\ (h.abandoned <=> gate[a].abandoned)
      /\ (h.committed <=> gate[a].committed) /\ (h.err <=> gate[a].err)
  BY <1>1 DEF Gates
<1> HIDE DEF h
<1>3. gate' \in [DE!Attempts -> Gates] /\ gate'[a] = h /\ \A b \in DE!Attempts \ {a} : gate'[b] = gate[b]
  BY <1>1, <1>2 DEF DeliveryType, h
<1>4. a <= deN /\ (a = deN => dePc # "open")
  BY <1>1 DEF OtherGates, Reading, DE!NewGate, DE!Attempts
<1>5. /\ gate'[deN].pending = gate[deN].pending /\ (gate'[deN].abandoned <=> gate[deN].abandoned)
      /\ (gate'[deN].committed <=> gate[deN].committed) /\ (gate'[deN].err <=> gate[deN].err)
  BY <1>1, <1>2, <1>3
<1>6. Handed' = Handed /\ DE!Sent' = DE!Sent /\ DE!Body' = DE!Body /\ (DE!MayClose' <=> DE!MayClose)
  BY DEF Handed, DE!Sent, DE!Body, DE!MayClose, DE!Seen
<1>7. DeliveryType'
  BY <1>3 DEF DeliveryType
<1>8. Reading'
  BY <1>1, <1>3, <1>4 DEF Reading
<1>9. OtherGates'
  BY <1>1, <1>2, <1>3, <1>4 DEF OtherGates, DE!Attempts
<1>10. Phases'
  BY <1>5, <1>6 DEF Phases, Holding, Flowing, Invisible, Visible
<1>11. QED  BY <1>7, <1>8, <1>9, <1>10

LEMMA CallbackInv == ASSUME DeliveryInv, NEW a \in DE!Attempts, DE!Callback(a) PROVE DeliveryInv'
<1> USE DEF DeliveryInv
<1>1. gate[a].timer = "due" /\ UNCHANGED <<policy, prebuffer, deN, dePc, read, torn, ends, dead, result>>
  BY DEF DE!Callback, DE!upstream
<1>2. CASE gate[a].committed \/ gate[a].abandoned
  <2>1. gate' = [gate EXCEPT ![a] = [gate[a] EXCEPT !.timer = "off"]] /\ UNCHANGED <<headers, client>>
    BY <1>2 DEF DE!Callback, DE!Set
  <2>2. QED  BY <1>1, <2>1, TimerInv
<1>3. CASE ~(gate[a].committed \/ gate[a].abandoned)
  <2>1. a = deN
    BY <1>1, <1>3 DEF OtherGates, DE!NewGate, DE!Attempts, DeliveryType
  <2>2. Holding /\ dePc \notin {"open", "terminal", "return", "over"} /\ result = "none"
    BY <1>1, <1>3, <2>1
       DEF Phases, Holding, Flowing, Invisible, Visible, Reading, DE!NewGate, DeliveryType, Places
  <2>3. /\ headers' = headers + 1
        /\ DE!Written(deN, [gate[deN] EXCEPT !.committed = TRUE, !.timer = "off", !.pending = <<>>], gate[deN].pending)
    BY <1>3, <2>1 DEF DE!Callback
  <2>4. /\ gate' \in [DE!Attempts -> Gates] /\ \A b \in DE!Attempts \ {deN} : gate'[b] = gate[b]
        /\ gate'[deN].committed /\ ~gate'[deN].abandoned /\ (gate'[deN].err => dead)
        /\ headers' = 1 /\ client' \in Seq(Bytes)
        /\ DE!IsPrefix(client', Handed) /\ (~dead => client' = Handed)
    BY <2>2, <2>3, Flushes
  <2>5. Handed' = Handed
    BY <1>1 DEF Handed, DE!Sent
  <2>6. Flowing' /\ OtherGates'
    BY <1>1, <2>4, <2>5, OthersStay DEF Flowing
  <2>7. DeliveryType'
    BY <1>1, <2>4, SeqMonotonic DEF DeliveryType
  <2>8. Reading'
    BY <1>1, <2>2 DEF Reading
  <2>9. dePc' \in {"read", "push", "pushed", "ended"}
    BY <1>1, <2>2 DEF DeliveryType, Places
  <2>10. QED  BY <1>1, <2>2, <2>6, <2>7, <2>8, <2>9, FlowingInv
<1>4. QED  BY <1>2, <1>3

LEMMA BreaksInv == ASSUME DeliveryInv, DE!Breaks PROVE DeliveryInv'
<1> USE DEF DeliveryInv
<1>1. dead' = TRUE /\ UNCHANGED <<policy, prebuffer, deN, dePc, read, torn, ends, gate, headers, client, result>>
  BY DEF DE!Breaks, DE!upstream
<1>2. Handed' = Handed /\ DE!Sent' = DE!Sent /\ DE!Body' = DE!Body /\ (DE!MayClose' <=> DE!MayClose)
  BY <1>1 DEF Handed, DE!Sent, DE!Body, DE!MayClose, DE!Seen
<1>3. DeliveryType' /\ Reading' /\ OtherGates'
  BY <1>1 DEF DeliveryType, Reading, OtherGates
<1>4. Phases'
  BY <1>1, <1>2 DEF Phases, Holding, Flowing, Invisible, Visible
<1>5. QED  BY <1>3, <1>4

LEMMA DeliveryStep == ASSUME MaxAttempts \in Nat \ {0}, DeliveryInv, [DE!Next]_DE!vars PROVE DeliveryInv'
<1>1. CASE UNCHANGED DE!vars
  <2>1. UNCHANGED <<policy, prebuffer, deN, dePc, read, torn, ends, gate, headers, client, dead, result>>
    BY <1>1 DEF DE!vars, DE!upstream
  <2>2. Handed' = Handed /\ DE!Sent' = DE!Sent /\ DE!Body' = DE!Body /\ (DE!MayClose' <=> DE!MayClose)
    BY <2>1 DEF Handed, DE!Sent, DE!Body, DE!MayClose, DE!Seen
  <2>3. QED
    BY <2>1, <2>2 DEF DeliveryInv, DeliveryType, Reading, OtherGates, Phases, Holding, Flowing, Invisible, Visible
<1>2. CASE \E a \in DE!Attempts : DE!Fire(a)
  <2>1. PICK a \in DE!Attempts : DE!Fire(a)
    BY <1>2
  <2>2. /\ gate[a].timer # "off" /\ gate' = [gate EXCEPT ![a] = [gate[a] EXCEPT !.timer = "due"]]
        /\ UNCHANGED <<policy, prebuffer, deN, dePc, read, torn, ends, headers, client, dead, result>>
    BY <2>1 DEF DE!Fire, DE!Set, DE!upstream
  <2>3. QED  BY <2>2, TimerInv
<1>3. QED
  BY <1>1, <1>2, OpenInv, ReadingInv, PushInv, PushedInv, ReadEndInv, WholeInv, ClaimInv, TerminalInv,
     ReturnInv, CallbackInv, BreaksInv DEF DE!Next, DE!Deliver

\* Whatever part of the run moves, what the delivery sees is a delivery.
LEMMA SpecDeliveryInv == ASSUME MaxAttempts \in Nat \ {0} PROVE RunSpec => []DeliveryInv
<1>1. RunInit => DE!Init
  BY DEF RunInit
<1>2. DE!Init => DeliveryInv
  BY InitDelivery
<1>3. [RunNext]_allVars => [DE!Next]_DE!vars
  BY DEF RunNext, Table, Ticket, Passthrough, allVars, deVars, DE!vars, DE!upstream
<1>4. DeliveryInv /\ [DE!Next]_DE!vars => DeliveryInv'
  BY DeliveryStep
<1>5. QED  BY <1>1, <1>2, <1>3, <1>4, PTL DEF RunSpec

(***************************************************************************)
(* What follows for the client.                                            *)
(***************************************************************************)

LEMMA HandedIsSent == ASSUME DeliveryInv PROVE DE!Sent \in Seq(Bytes) /\ DE!IsPrefix(DE!Body, DE!Sent)
<1>1. DE!Sent \in Seq(Bytes) /\ Handed \in Seq(Bytes) /\ (dePc = "push" => DE!Chunk \in Seq(Bytes) /\ DE!Sent = Handed \o DE!Chunk)
  BY Pieces DEF DeliveryInv
<1>2. CASE Flowing
  <2>1. DE!Body = client
    BY <1>2, PlainEnd DEF Flowing, DE!Body
  <2>2. CASE dePc = "push"
    BY <1>1, <1>2, <2>1, <2>2, PrefixGrows DEF Flowing
  <2>3. CASE dePc # "push"
    BY <1>1, <1>2, <2>1, <2>3 DEF Flowing, Handed
  <2>4. QED  BY <2>2, <2>3
<1>3. CASE Holding \/ Invisible
  <2>1. DE!Body = <<>>
    BY <1>3 DEF Holding, Invisible, DE!Body
  <2>2. QED  BY <1>1, <2>1, PrefixOfEmpty
<1>4. CASE Visible
  BY <1>1, <1>4 DEF Visible
<1>5. QED
  BY <1>2, <1>3, <1>4 DEF DeliveryInv, Phases, DeliveryType, Places

(***************************************************************************)
(* For any number of attempts, of events and any size of the buffer: the     *)
(* header goes out once, the client reads the beginning of one attempt's     *)
(* bytes, and an attempt that is repeated has left nothing (truncate.go,     *)
(* handler.go passthroughDeliver).                                           *)
(***************************************************************************)
THEOREM DeliveryOneStory == ASSUME MaxAttempts \in Nat \ {0} PROVE RunSpec => []OneStory
<1>1. DeliveryInv => OneStory
  <2> SUFFICES ASSUME DeliveryInv PROVE OneStory
    OBVIOUS
  <2>1. headers <= 1
    BY DEF DeliveryInv, DeliveryType
  <2>2. result = "undelivered" => headers = 0
    BY DEF DeliveryInv, Reading, Phases, Invisible
  <2>3. QED  BY <2>1, <2>2, HandedIsSent DEF OneStory, DE!OneStory
<1>2. QED  BY <1>1, SpecDeliveryInv, PTL

\* A set of places in a sequence that is not empty has a last one.
LEMMA LastPlace ==
    ASSUME NEW k \in Nat, NEW M \in SUBSET (1..k), M # {}
    PROVE  DE!Max(M) \in M
<1> DEFINE D == {j \in Nat : k - j \in M}
           R == OpToRel(<, Nat)
<1>1. IsWellFoundedOn(R, Nat) /\ \A i, j \in Nat : i < j => <<i, j>> \in R
  BY NatLessThanWellFounded DEF OpToRel
<1> HIDE DEF R
<1>2. D \subseteq Nat /\ D # {}
  <2>1. PICK m \in M : TRUE
    OBVIOUS
  <2>2. k - m \in D
    OBVIOUS
  <2>3. QED  BY <2>2
<1>3. PICK j \in D : \A i \in D : ~(<<i, j>> \in R)
  <2>1. IsWellFoundedOn(R, Nat)
    BY <1>1
  <2> HIDE DEF D
  <2>2. \E x \in D : \A y \in D : ~(<<y, x>> \in R)
    BY ONLY <1>2, <2>1, WFMin
  <2>3. QED  BY <2>2
<1>4. j \in Nat /\ k - j \in M
  OBVIOUS
<1>5. \A y \in M : k - y \in D /\ k - y \in Nat /\ y \in Nat
  OBVIOUS
<1>6. \A y \in M : ~(k - y < j)
  BY <1>1, <1>3, <1>4, <1>5
<1>7. \A y \in M : k - j >= y
  BY <1>4, <1>5, <1>6
<1>8. QED  BY <1>4, <1>7 DEF DE!Max

LEMMA OpenInLine ==
    ASSUME NEW s \in Seq(EventNames), NEW e, e \notin {"text", "tool", "close"}
    PROVE  DE!OpenIn(Append(s, e)) = DE!OpenIn(s)
<1> DEFINE marks == {i \in 1..Len(s) : s[i] \in {"text", "tool", "close"}}
           t == Append(s, e)
           more == {i \in 1..Len(t) : t[i] \in {"text", "tool", "close"}}
<1>1. /\ Len(s) \in Nat /\ Len(t) = Len(s) + 1 /\ t[Len(s) + 1] = e
      /\ \A i \in 1..Len(s) : t[i] = s[i]
  BY AppendProperties, LenProperties
<1>2. more = marks
  BY <1>1
<1>3. CASE marks = {}
  BY <1>2, <1>3 DEF DE!OpenIn
<1>4. CASE marks # {}
  <2>1. DE!Max(marks) \in 1..Len(s)
    BY <1>1, <1>4, LastPlace
  <2>2. t[DE!Max(marks)] = s[DE!Max(marks)]
    BY <1>1, <2>1
  <2>3. QED  BY <1>2, <1>4, <2>2 DEF DE!OpenIn
<1>5. QED  BY <1>3, <1>4

(***************************************************************************)
(* For any number of attempts and events: a stream that broke gets a regular  *)
(* ending only when no tool call is open in what the client has read          *)
(* (truncate.go gracefulFrames).                                             *)
(***************************************************************************)
THEOREM DeliveryNoHalfTool == ASSUME MaxAttempts \in Nat \ {0} PROVE RunSpec => []NoHalfTool
<1>1. DeliveryInv => NoHalfTool
  <2> SUFFICES ASSUME DeliveryInv, client # <<>>, DE!Last(client) = "closing"
               PROVE  DE!OpenIn(DE!Body) # "tool" \/ DE!Last(DE!Body) = "data"
    BY DEF NoHalfTool, DE!NoHalfTool
  <2>1. DE!Body = DE!Sent /\ DE!MayClose
    BY PlainEnd DEF DeliveryInv, Phases, Holding, Flowing, Invisible, Visible, DeliveryType, Places
  <2>2. read \in Seq(EventNames) /\ DE!OpenIn(read) # "tool" /\ torn \in {"none", "name", "data"}
    BY <2>1 DEF DE!MayClose, DeliveryInv, DeliveryType
  <2>3. CASE torn = "none"
    BY <2>1, <2>2, <2>3 DEF DE!Sent
  <2>4. CASE torn = "name"
    BY <2>1, <2>2, <2>4, OpenInLine DEF DE!Sent
  <2>5. CASE torn = "data"
    <3>1. DE!Front(read) \in Seq(Bytes) /\ "data" \in Bytes
      <4>1. read \in Seq(Bytes) /\ read # <<>>
        BY <2>2, <2>5, SeqMonotonic DEF Bytes, DeliveryInv, Reading
      <4>2. QED  BY <4>1, FrontLast DEF Bytes
    <3>2. DE!Last(DE!Sent) = "data"
      BY <2>5, <3>1, FrontOfLonger DEF DE!Sent
    <3>3. QED  BY <2>1, <3>2
  <2>6. QED  BY <2>2, <2>3, <2>4, <2>5
<1>2. QED  BY <1>1, SpecDeliveryInv, PTL
===============================================================================
