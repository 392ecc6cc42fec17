---------------------------- MODULE StandingProof ----------------------------
(***************************************************************************)
(* A cooling is served, exhaustion ends by proof, soft failures are judged  *)
(* justly, claims keep their times and a login is kept: for any requests,   *)
(* models, lines, accounts, terms and bounds.  The theorems are about the   *)
(* composed run: whatever part of it moves, a part sees steps of its own or *)
(* none.                                                                    *)
(***************************************************************************)
EXTENDS MCStanding, TLAPS

(***************************************************************************)
(* The state of an account.                                                *)
(***************************************************************************)

AccountSet ==
    [mode : {"jwt", "apiKey"}, gen : Nat, route : Routes, enabled : BOOLEAN,
     archived : BOOLEAN, status : {"active", "cooling", "invalid", "exhausted", "disabled"},
     until : Nat, kind : {"other", "risk_control", "quota_exhausted"}, errAt : Nat,
     lastRisk : Nat, streak : Nat, empty : SUBSET Models, bal : [Models -> Balance]]

\* What a request or a query may make of the account: who it is stays, a
\* cooling has an end, and one that runs is not cut short.
Fine(a) ==
    /\ a \in AccountSet
    /\ a.gen = acc.gen /\ a.enabled = acc.enabled /\ a.archived = acc.archived
    /\ a.status = "cooling" => a.until # 0
    /\ acc.status = "cooling" /\ acc.until > now => ~Selectable(a)

\* The account as the others find it.
Sane == acc \in AccountSet /\ CoolingEnds /\ now \in Nat \ {0}

LEMMA SaneTimes == ASSUME Sane PROVE acc.until \in Nat /\ now \in Nat
  BY DEF Sane, AccountSet

LEMMA SaneIsFine == ASSUME Sane PROVE Fine(acc)
  BY DEF Sane, Fine, CoolingEnds, Selectable, AccountSet

LEMMA Smallest == \A x, y \in Int : Min({x, y}) = IF x <= y THEN x ELSE y
<1> TAKE x, y \in Int
<1>1. CASE x <= y
  BY <1>1 DEF Min
<1>2. CASE ~(x <= y)
  BY <1>2 DEF Min
<1>3. QED  BY <1>1, <1>2

LEMMA Largest == \A x, y \in Int : Max({x, y}) = IF x >= y THEN x ELSE y
<1> TAKE x, y \in Int
<1>1. CASE x >= y
  BY <1>1 DEF Max
<1>2. CASE ~(x >= y)
  BY <1>2 DEF Max
<1>3. QED  BY <1>1, <1>2

LEMMA LongestTerm == Max(CoolTerms) \in CoolTerms
<1>1. PICK longest \in CoolTerms : \A term \in CoolTerms : term <= longest
  BY AccountsAssumption
<1>2. \A term \in CoolTerms : longest >= term
  BY <1>1, AccountsAssumption
<1>3. QED  BY <1>1, <1>2 DEF Max

LEMMA StampedFine ==
    ASSUME NEW a, Fine(a), NEW kind \in {"other", "risk_control", "quota_exhausted"}
    PROVE  /\ Fine(Stamped(a, kind))
           /\ Stamped(a, kind).status = a.status /\ Stamped(a, kind).until = a.until
           /\ Stamped(a, kind).empty = a.empty
<1> DEFINE b == Stamped(a, kind)
<1>1. a \in AccountSet  BY DEF Fine
<1>2. /\ b \in AccountSet /\ b.gen = a.gen /\ b.enabled = a.enabled
      /\ b.archived = a.archived /\ b.status = a.status /\ b.until = a.until
      /\ b.empty = a.empty
  BY <1>1 DEF Stamped, AccountSet
<1> HIDE DEF b
<1>3. Fine(b)
  BY <1>2 DEF Fine, Selectable
<1>4. QED  BY <1>2, <1>3 DEF b

LEMMA CoolingSet ==
    ASSUME NEW a \in AccountSet, NEW end \in Nat
    PROVE  LET b == [a EXCEPT !.status = "cooling", !.until = end]
           IN  /\ b \in AccountSet /\ b.gen = a.gen /\ b.enabled = a.enabled
               /\ b.archived = a.archived /\ b.status = "cooling" /\ b.until = end
  BY DEF AccountSet

LEMMA CooledFine ==
    ASSUME Sane, NEW term \in Nat \ {0}
    PROVE  Fine(Cooled(term))
<1> DEFINE b == [acc EXCEPT !.status = "cooling", !.until = now + term]
<1>1. /\ b \in AccountSet /\ b.gen = acc.gen /\ b.enabled = acc.enabled
      /\ b.archived = acc.archived /\ b.status = "cooling" /\ b.until = now + term
  <2>1. now + term \in Nat /\ acc \in AccountSet  BY DEF Sane
  <2>2. QED  BY <2>1, CoolingSet
<1> HIDE DEF b
<1>2. Fine(b)
  BY <1>1 DEF Fine, Selectable, Sane
<1>3. QED  BY <1>2, StampedFine DEF Cooled, b

LEMMA RefusedFine ==
    ASSUME Sane PROVE Fine(Stamped([acc EXCEPT !.status = "invalid"], "other"))
<1> DEFINE b == [acc EXCEPT !.status = "invalid"]
<1>1. /\ b \in AccountSet /\ b.gen = acc.gen /\ b.enabled = acc.enabled
      /\ b.archived = acc.archived /\ b.status = "invalid"
  BY DEF Sane, AccountSet
<1> HIDE DEF b
<1>2. Fine(b)
  BY <1>1 DEF Fine, Selectable, Sane
<1>3. QED  BY <1>2, StampedFine DEF b

\* The steps of risk control: a cooling that gets longer, then no way back.
LEMMA RiskAppliedFine == ASSUME Sane PROVE Fine(RiskApplied(acc))
<1> DEFINE hits == Min({acc.streak + 1, Len(RiskSteps) + 1})
           counted == [acc EXCEPT !.streak = hits, !.lastRisk = RiskTime]
           hit == Stamped(counted, "risk_control")
<1>1. acc \in AccountSet /\ acc.streak \in Nat /\ now \in Nat \ {0} /\ Len(RiskSteps) \in Nat
  BY AccountsAssumption DEF Sane, AccountSet
<1>2. hits \in Nat \ {0} /\ hits <= Len(RiskSteps) + 1
  BY <1>1, Smallest
<1>3. RiskTime \in Nat
  BY <1>1 DEF RiskTime
<1> HIDE DEF hits
<1>4. Fine(counted)
  <2>1. /\ counted \in AccountSet /\ counted.gen = acc.gen /\ counted.enabled = acc.enabled
        /\ counted.archived = acc.archived /\ counted.status = acc.status
        /\ counted.until = acc.until
    BY <1>1, <1>2, <1>3 DEF AccountSet
  <2> HIDE DEF counted
  <2>2. QED  BY <2>1, SaneIsFine DEF Fine, Selectable
<1> HIDE DEF counted
<1>5. Fine(hit)
  BY <1>4, StampedFine
<1> HIDE DEF hit
<1>6. CASE hits > Len(RiskSteps)
  <2> DEFINE b == [hit EXCEPT !.status = "invalid", !.until = 0]
  <2>1. hit \in AccountSet  BY <1>5 DEF Fine
  <2>2. /\ b \in AccountSet /\ b.gen = hit.gen /\ b.enabled = hit.enabled
        /\ b.archived = hit.archived /\ b.status = "invalid"
    BY <2>1 DEF AccountSet
  <2>3. RiskApplied(acc) = b
    BY <1>6 DEF RiskApplied, hits, hit, counted
  <2> HIDE DEF b
  <2>4. Fine(b)  BY <2>2, <1>5 DEF Fine, Selectable
  <2>5. QED  BY <2>3, <2>4
<1>7. CASE ~(hits > Len(RiskSteps))
  <2> DEFINE b == [hit EXCEPT !.status = "cooling", !.until = now + RiskSteps[hits]]
  <2>1. hit \in AccountSet  BY <1>5 DEF Fine
  <2>2. RiskSteps[hits] \in Nat \ {0}
    BY <1>2, <1>7, <1>1, AccountsAssumption
  <2>3. now + RiskSteps[hits] \in Nat /\ now + RiskSteps[hits] > now
    BY <2>2, <1>1
  <2>4. /\ b \in AccountSet /\ b.gen = hit.gen /\ b.enabled = hit.enabled
        /\ b.archived = hit.archived /\ b.status = "cooling"
        /\ b.until = now + RiskSteps[hits]
    BY <2>1, <2>3, CoolingSet
  <2>5. RiskApplied(acc) = b
    BY <1>7 DEF RiskApplied, hits, hit, counted
  <2> HIDE DEF b
  <2>6. Fine(b)  BY <2>3, <2>4, <1>1, <1>5 DEF Fine, Selectable
  <2>7. QED  BY <2>5, <2>6
<1>8. QED  BY <1>6, <1>7

LEMMA RoutedFine ==
    ASSUME NEW a, Fine(a), NEW snap, NEW b \in Rotated(a, snap)
    PROVE  Fine(b) /\ b.empty = a.empty
<1>1. CASE b = a
  BY <1>1
<1>2. CASE b # a
  <2>1. PICK x \in Routes : b = [a EXCEPT !.route = x]
    BY <1>2 DEF Rotated
  <2>2. /\ b \in AccountSet /\ b.gen = a.gen /\ b.enabled = a.enabled
        /\ b.archived = a.archived /\ b.status = a.status /\ b.until = a.until
        /\ b.empty = a.empty
    BY <2>1 DEF Fine, AccountSet
  <2>3. QED  BY <2>2 DEF Fine, Selectable
<1>3. QED  BY <1>1, <1>2

\* The time of the last hit, without a cooling.
LEMMA RiskTimed == ASSUME Sane PROVE Fine([acc EXCEPT !.lastRisk = RiskTime])
<1> DEFINE b == [acc EXCEPT !.lastRisk = RiskTime]
<1>1. RiskTime \in Nat /\ acc \in AccountSet  BY DEF Sane, RiskTime
<1>2. /\ b \in AccountSet /\ b.gen = acc.gen /\ b.enabled = acc.enabled
      /\ b.archived = acc.archived /\ b.status = acc.status /\ b.until = acc.until
  BY <1>1 DEF AccountSet
<1> HIDE DEF b
<1>3. Fine(b)  BY <1>2, SaneIsFine DEF Fine, Selectable
<1>4. QED  BY <1>3 DEF b

LEMMA RestoredFine == ASSUME Sane PROVE Fine(Restored(acc))
<1> DEFINE b == [acc EXCEPT !.streak = 0,
                    !.status = IF @ \in {"cooling", "exhausted"} THEN "active" ELSE @]
<1>1. CASE acc.status = "invalid" \/ (acc.status = "cooling" /\ acc.until > now)
  BY <1>1, SaneIsFine DEF Restored
<1>2. CASE ~(acc.status = "invalid" \/ (acc.status = "cooling" /\ acc.until > now))
  <2>1. acc \in AccountSet  BY DEF Sane
  <2>2. /\ b \in AccountSet /\ b.gen = acc.gen /\ b.enabled = acc.enabled
        /\ b.archived = acc.archived /\ b.status # "cooling"
    BY <2>1 DEF AccountSet
  <2>3. Restored(acc) = b  BY <1>2 DEF Restored
  <2> HIDE DEF b
  <2>4. Fine(b)  BY <1>2, <2>2 DEF Fine
  <2>5. QED  BY <2>3, <2>4
<1>3. QED  BY <1>1, <1>2

LEMMA EmptiedFine ==
    ASSUME Sane, NEW m \in Models
    PROVE  /\ Fine(Emptied(acc, m))
           /\ Strong(acc) => Emptied(acc, m).status = acc.status
                             /\ Emptied(acc, m).until = acc.until
<1> DEFINE more == [acc EXCEPT !.empty = @ \cup {m}]
           b == Stamped(more, "quota_exhausted")
           word == IF AllExhausted(b) THEN "exhausted" ELSE "active"
<1>1. Fine(more) /\ more.status = acc.status /\ more.until = acc.until
  <2>1. acc \in AccountSet  BY DEF Sane
  <2>2. /\ more \in AccountSet /\ more.gen = acc.gen /\ more.enabled = acc.enabled
        /\ more.archived = acc.archived /\ more.status = acc.status
        /\ more.until = acc.until
    BY <2>1 DEF AccountSet
  <2> HIDE DEF more
  <2>3. QED  BY <2>2, SaneIsFine DEF Fine, Selectable
<1> HIDE DEF more
<1>2. Fine(b) /\ b.status = acc.status /\ b.until = acc.until
  BY <1>1, StampedFine
<1>3. word \in {"exhausted", "active"}
  OBVIOUS
<1>4. now \in Nat /\ b \in AccountSet
  BY <1>2 DEF Sane, Fine
<1>5. Emptied(acc, m) = IF Strong(b) THEN [b EXCEPT !.errAt = now]
                        ELSE [b EXCEPT !.errAt = now, !.until = 0, !.status = word]
  BY DEF Emptied, more, b
<1> HIDE DEF b, word
<1>6. CASE Strong(b)
  <2> DEFINE c == [b EXCEPT !.errAt = now]
  <2>1. /\ c \in AccountSet /\ c.gen = b.gen /\ c.enabled = b.enabled
        /\ c.archived = b.archived /\ c.status = b.status /\ c.until = b.until
    BY <1>4 DEF AccountSet
  <2>2. Emptied(acc, m) = c  BY <1>5, <1>6
  <2> HIDE DEF c
  <2>3. Fine(c)  BY <2>1, <1>2 DEF Fine, Selectable
  <2>4. QED  BY <2>1, <2>2, <2>3, <1>2
<1>7. CASE ~Strong(b)
  <2> DEFINE c == [b EXCEPT !.errAt = now, !.until = 0, !.status = word]
  <2>1. /\ c \in AccountSet /\ c.gen = b.gen /\ c.enabled = b.enabled
        /\ c.archived = b.archived /\ c.status = word
    BY <1>3, <1>4 DEF AccountSet
  <2>2. Emptied(acc, m) = c  BY <1>5, <1>7
  <2> HIDE DEF c
  <2>3. ~Strong(acc) /\ acc.status # "cooling"  BY <1>2, <1>7 DEF Strong
  <2>4. Fine(c)  BY <1>2, <1>3, <2>1, <2>3 DEF Fine
  <2>5. QED  BY <2>2, <2>3, <2>4
<1>8. QED  BY <1>6, <1>7

\* A probe confirms only for an account no cooling of which runs.
LEMMA RefilledFine ==
    ASSUME Sane, NEW m \in Models, Eligible(m)
    PROVE  Fine(Refilled(acc, m)) /\ acc.empty \ Refilled(acc, m).empty \subseteq {m}
<1> DEFINE numbers == IF acc.bal = NoBalance THEN acc.bal ELSE [acc.bal EXCEPT ![m] = "unknown"]
           word == IF acc.status \in {"exhausted", "cooling"} THEN "active" ELSE acc.status
           end == IF acc.status \in {"exhausted", "cooling"} THEN 0 ELSE acc.until
           b == [acc EXCEPT !.empty = @ \ {m}, !.bal = numbers, !.status = word, !.until = end]
<1>1. acc \in AccountSet /\ acc.status # "disabled" /\ ~(acc.until > now)
  BY DEF Sane, Eligible, AccountSet
<1>2. /\ numbers \in [Models -> Balance] /\ end \in Nat /\ word # "cooling"
      /\ word \in {"active", "cooling", "invalid", "exhausted", "disabled"}
  BY <1>1 DEF AccountSet, Balance
<1>3. Refilled(acc, m) = b
  BY DEF Refilled
<1> HIDE DEF numbers, word, end
<1>4. /\ b \in AccountSet /\ b.gen = acc.gen /\ b.enabled = acc.enabled
      /\ b.archived = acc.archived /\ b.status = word /\ b.empty = acc.empty \ {m}
  BY <1>1, <1>2 DEF AccountSet
<1> HIDE DEF b
<1>5. Fine(b)  BY <1>1, <1>2, <1>4 DEF Fine
<1>6. QED  BY <1>3, <1>4, <1>5

\* What a query may bring before the protection: the account is the same, and a
\* cooling in it is the one that was there.
Brought(a) ==
    /\ a \in AccountSet
    /\ a.gen = acc.gen /\ a.enabled = acc.enabled /\ a.archived = acc.archived
    /\ a.status = "cooling" => a.until # 0

LEMMA ProtectedFine ==
    ASSUME Sane, NEW a, Brought(a)
    PROVE  Fine(Protected(a))
<1> DEFINE b == [a EXCEPT !.status = acc.status, !.kind = acc.kind, !.errAt = acc.errAt,
                          !.until = acc.until]
           served == acc.status = "cooling" /\ (acc.until = 0 \/ acc.until > now)
<1>1. acc \in AccountSet /\ a \in AccountSet  BY DEF Sane, Brought
<1>2. CASE Protected(a) = a /\ ~served
  BY <1>2 DEF Fine, Brought
<1>3. CASE Protected(a) = a /\ a.status = "invalid"
  BY <1>3 DEF Fine, Brought, Selectable
<1>4. CASE Protected(a) = b
  <2>1. /\ b \in AccountSet /\ b.gen = a.gen /\ b.enabled = a.enabled
        /\ b.archived = a.archived /\ b.status = acc.status /\ b.until = acc.until
    BY <1>1 DEF AccountSet
  <2> HIDE DEF b
  <2>2. Fine(b)  BY <2>1, SaneIsFine DEF Brought, Fine, Selectable
  <2>3. QED  BY <1>4, <2>2
<1>5. \/ Protected(a) = a /\ ~served
      \/ Protected(a) = a /\ a.status = "invalid"
      \/ Protected(a) = b
  BY DEF Protected
<1>6. QED  BY <1>2, <1>3, <1>4, <1>5

LEMMA BalancedBrought ==
    ASSUME Sane, NEW b \in [Models -> Balance]
    PROVE  Brought(Balanced(b))
<1> DEFINE a == [acc EXCEPT !.bal = b, !.empty = Synced(b)]
<1>1. acc \in AccountSet  BY DEF Sane
<1>2. Synced(b) \subseteq Models  BY DEF Synced
<1>3. /\ a \in AccountSet /\ a.gen = acc.gen /\ a.enabled = acc.enabled
      /\ a.archived = acc.archived /\ a.status = acc.status /\ a.until = acc.until
  BY <1>1, <1>2 DEF AccountSet
<1>4. CASE b = NoBalance
  <2> DEFINE c == [acc EXCEPT !.bal = b]
  <2>1. /\ c \in AccountSet /\ c.gen = acc.gen /\ c.enabled = acc.enabled
        /\ c.archived = acc.archived /\ c.status = acc.status /\ c.until = acc.until
    BY <1>1 DEF AccountSet
  <2>2. Balanced(b) = c  BY <1>4 DEF Balanced
  <2> HIDE DEF c
  <2>3. QED  BY <2>1, <2>2 DEF Brought, Sane, CoolingEnds
<1>5. CASE b # NoBalance
  <2>1. \/ Balanced(b) = [a EXCEPT !.status = "exhausted"]
        \/ Balanced(b) = [a EXCEPT !.status = "active", !.until = 0]
        \/ Balanced(b) = a
    BY <1>5 DEF Balanced
  <2> HIDE DEF a
  <2>2. CASE Balanced(b) = a
    BY <2>2, <1>3 DEF Brought, Sane, CoolingEnds
  <2>3. CASE Balanced(b) = [a EXCEPT !.status = "exhausted"]
    <3>1. /\ Balanced(b) \in AccountSet /\ Balanced(b).gen = a.gen
          /\ Balanced(b).enabled = a.enabled /\ Balanced(b).archived = a.archived
          /\ Balanced(b).status = "exhausted"
      BY <1>3, <2>3 DEF AccountSet
    <3>2. QED  BY <1>3, <3>1 DEF Brought
  <2>4. CASE Balanced(b) = [a EXCEPT !.status = "active", !.until = 0]
    <3> DEFINE end == 0
    <3>0. end \in Nat /\ Balanced(b) = [a EXCEPT !.status = "active", !.until = end]
      BY <2>4
    <3> HIDE DEF end
    <3>1. /\ Balanced(b) \in AccountSet /\ Balanced(b).gen = a.gen
          /\ Balanced(b).enabled = a.enabled /\ Balanced(b).archived = a.archived
          /\ Balanced(b).status = "active"
      BY <1>3, <3>0 DEF AccountSet
    <3>2. QED  BY <1>3, <3>1 DEF Brought
  <2>5. QED  BY <2>1, <2>2, <2>3, <2>4
<1>6. QED  BY <1>4, <1>5

-----------------------------------------------------------------------------

Snapshots == [gen : Nat, route : Routes, model : Models, stage : {"sent", "failed", "ok"}]
Leases == [req : Reqs, gen : Nat, route : Routes, generation : Nat]
Records == [gen : Nat, generation : Nat, step : 0 .. Len(RetryDelays) - 1, next : Nat, long : BOOLEAN]

\* A lease that was overtaken is one whose probe is older than the login or than
\* the last failure.
Overtaken(m) ==
    \/ lease[m].gen < acc.gen
    \/ recovery[m] = None
    \/ recovery[m].generation > lease[m].generation

Leased ==
    /\ flight \in [Reqs -> Snapshots \cup {None}]
    /\ lease \in [Models -> Leases \cup {None}]
    /\ recovery \in [Models -> Records \cup {None}]
    /\ spoiled \subseteq Models
    /\ \A m \in Models : lease[m] # None => lease[m].gen <= acc.gen
    /\ \A m \in spoiled : lease[m] # None /\ Overtaken(m)

AccInv == Sane /\ Leased

LEMMA InitAcc == Init => AccInv
<1> SUFFICES ASSUME Init PROVE AccInv
  OBVIOUS
<1>1. NoBalance \in [Models -> Balance]
  BY DEF NoBalance, Balance
<1>2. acc \in AccountSet /\ acc.status = "active"
  <2> DEFINE starts == [mode : {"jwt", "apiKey"}, gen : {1}, route : Routes, enabled : {TRUE},
                archived : {FALSE}, status : {"active"}, until : {0}, kind : {"other"},
                errAt : {0}, lastRisk : {0}, streak : {0}, empty : {{}}, bal : {NoBalance}]
  <2>1. acc \in starts  BY DEF Init
  <2>2. {{}} \subseteq SUBSET Models /\ {NoBalance} \subseteq [Models -> Balance]
    BY <1>1
  <2>3. /\ {1} \subseteq Nat /\ {0} \subseteq Nat /\ {TRUE} \subseteq BOOLEAN
        /\ {FALSE} \subseteq BOOLEAN /\ {"other"} \subseteq {"other", "risk_control", "quota_exhausted"}
        /\ {"active"} \subseteq {"active", "cooling", "invalid", "exhausted", "disabled"}
    OBVIOUS
  <2>4. starts \subseteq AccountSet
    BY <2>2, <2>3 DEF AccountSet
  <2>5. acc.status = "active"
    BY <2>1
  <2>6. QED  BY <2>1, <2>4, <2>5
<1>3. Sane  BY <1>2 DEF Sane, CoolingEnds, Init
<1>4. Leased  BY DEF Leased, Init
<1>5. QED  BY <1>3, <1>4 DEF AccInv

\* A result written on what is current, and on nothing that was stopped.
LEMMA Written ==
    ASSUME Sane, NEW snap, NEW a, Fine(a), now' = now,
           acc' = IF Accepts(snap) THEN a ELSE acc
    PROVE  /\ Sane' /\ acc'.gen = acc.gen
           /\ acc.status \in {"cooling", "disabled"} /\ acc.until > now' => ~Selectable(acc)'
           /\ ~acc.enabled => acc' = acc
<1>1. Fine(acc')  BY SaneIsFine
<1>2. Sane' /\ acc'.gen = acc.gen
  BY <1>1 DEF Sane, Fine, CoolingEnds
<1>3. acc.status \in {"cooling", "disabled"} /\ acc.until > now' => ~Selectable(acc)'
  <2>1. CASE acc.status = "cooling"
    BY <1>1, <2>1 DEF Fine, Selectable
  <2>2. CASE acc.status = "disabled"
    BY <2>2 DEF Accepts, Selectable
  <2>3. QED  BY <2>1, <2>2
<1>4. ~acc.enabled => acc' = acc
  BY DEF Accepts
<1>5. QED  BY <1>2, <1>3, <1>4

\* What a step of the requests, the poller or the clock never does.
Serves ==
    /\ acc.status \in {"cooling", "disabled"} /\ acc.until > now' => ~Selectable(acc)'
    /\ ~acc.enabled /\ acc.status \in {"disabled", "invalid"}
          => acc'.status = acc.status /\ acc'.until = acc.until

LEMMA LeasedStays ==
    ASSUME Leased, acc'.gen = acc.gen, UNCHANGED <<lease, recovery, spoiled>>,
           flight' \in [Reqs -> Snapshots \cup {None}]
    PROVE  Leased'
  BY DEF Leased, Overtaken

LEMMA EndsTyped ==
    ASSUME Leased, NEW r \in Reqs, NEW stage \in {"failed", "ok"}, Ends(r, stage)
    PROVE  flight' \in [Reqs -> Snapshots \cup {None}]
<1>1. flight[r] \in Snapshots  BY DEF Leased, Ends
<1>2. [flight[r] EXCEPT !.stage = stage] \in Snapshots
  BY <1>1 DEF Snapshots
<1>3. QED  BY <1>2 DEF Leased, Ends

LEMMA AnsweredStep ==
    ASSUME AccInv, NEW r \in Reqs, NEW a, Fine(a), Answered(r, a)
    PROVE  AccInv' /\ Serves
<1>1. /\ Sane' /\ acc'.gen = acc.gen /\ Serves
  BY Written DEF AccInv, Answered, Serves
<1>2. flight' \in [Reqs -> Snapshots \cup {None}]
  BY EndsTyped DEF AccInv, Answered
<1>3. Leased'
  BY <1>1, <1>2, LeasedStays DEF AccInv, Answered
<1>4. QED  BY <1>1, <1>3 DEF AccInv

LEMMA MaxNat == ASSUME NEW x \in Nat, NEW y \in Nat
                PROVE  Max({x, y}) \in Nat /\ Max({x, y}) >= x /\ Max({x, y}) >= y
  BY Largest

\* What is known of a model is a record, and no waiting time is missing.
LEMMA KnownIs ==
    ASSUME AccInv, NEW m \in Models
    PROVE  Known(m) \in Records
<1>1. Pruned(recovery, acc)[m] \in Records \cup {None}
  BY DEF AccInv, Leased, Pruned
<1>2. acc.gen \in Nat /\ Len(RetryDelays) \in Nat \ {0}
  BY AccountsAssumption DEF AccInv, Sane, AccountSet
<1> DEFINE old == Pruned(recovery, acc)[m]
           generation == IF old = None THEN 0 ELSE old.generation
           begun == [gen |-> acc.gen, generation |-> generation, step |-> 0, next |-> 0, long |-> FALSE]
<1>3. Known(m) = IF old # None /\ old.gen = acc.gen THEN old ELSE begun
  BY DEF Known
<1> HIDE DEF old
<1>4. generation \in Nat  BY <1>1 DEF Records, old
<1>5. begun \in Records  BY <1>2, <1>4 DEF Records
<1>6. QED  BY <1>1, <1>3, <1>5 DEF old

LEMMA DelayIs == ASSUME NEW x \in Records PROVE Delay(x) \in Nat
<1>1. x.step + 1 \in 1 .. Len(RetryDelays) /\ Len(RetryDelays) \in 1 .. Len(RetryDelays)
  BY AccountsAssumption DEF Records
<1>2. QED  BY <1>1, AccountsAssumption DEF Delay, Last

\* A failure is later than the probe in flight.
LEMMA FailureIs ==
    ASSUME AccInv, NEW m \in Models, NEW long \in BOOLEAN
    PROVE  /\ NextFailure(m, long) \in Records
           /\ lease[m] # None => NextFailure(m, long).generation > lease[m].generation
<1> DEFINE failed == [Known(m) EXCEPT !.long = long]
           inFlight == IF lease[m] = None THEN 0 ELSE lease[m].generation
           generation == Max({failed.generation, inFlight}) + 1
           next == Max({failed.next, now + Delay(failed)})
           b == [failed EXCEPT !.generation = generation, !.next = next]
<1>1. failed \in Records
  <2>1. Known(m) \in Records  BY KnownIs
  <2> HIDE DEF failed
  <2>2. failed = [Known(m) EXCEPT !.long = long]  BY DEF failed
  <2>3. QED  BY <2>1, <2>2 DEF Records
<1>2. NextFailure(m, long) = b
  BY DEF NextFailure
<1> HIDE DEF failed
<1>3. inFlight \in Nat  BY DEF AccInv, Leased, Leases
<1>4. failed.generation \in Nat /\ failed.next \in Nat  BY <1>1 DEF Records
<1>5. generation \in Nat /\ generation > inFlight
  BY <1>3, <1>4, MaxNat
<1>6. now + Delay(failed) \in Nat  BY <1>1, DelayIs DEF AccInv, Sane
<1>7. next \in Nat  BY <1>4, <1>6, MaxNat
<1> HIDE DEF generation, next
<1>8. b \in Records /\ b.generation = generation
  BY <1>1, <1>5, <1>7 DEF Records
<1>9. QED  BY <1>2, <1>5, <1>8

LEMMA DueIs == ASSUME AccInv, NEW m \in Models PROVE Due(m) \in Records
<1> DEFINE begun == [Known(m) EXCEPT !.generation = @ + 1, !.next = WaitBegan(m) + RetryDelays[1]]
<1>1. Known(m) \in Records  BY KnownIs
<1>2. RetryDelays[1] \in Nat  BY AccountsAssumption
<1>3. WaitBegan(m) \in Nat  BY DEF AccInv, Sane, AccountSet, WaitBegan
<1>4. WaitBegan(m) + RetryDelays[1] \in Nat  BY <1>2, <1>3
<1>5. begun \in Records
  <2> DEFINE k == Known(m)
             later == k.generation + 1
             next == WaitBegan(m) + RetryDelays[1]
  <2>1. k \in Records /\ next \in Nat  BY <1>1, <1>4
  <2> HIDE DEF k, next
  <2>2. later \in Nat  BY <2>1 DEF Records
  <2> HIDE DEF later
  <2>3. [k EXCEPT !.generation = later, !.next = next] \in Records
    BY <2>1, <2>2 DEF Records
  <2>4. QED  BY <2>3 DEF k, later, next
<1>6. (Due(m) = recovery[m] /\ recovery[m] # None) \/ Due(m) = begun
  BY DEF Due
<1>7. QED  BY <1>5, <1>6 DEF AccInv, Leased

\* Pruning only forgets.
LEMMA PrunedIs ==
    ASSUME Leased
    PROVE  /\ Pruned(recovery, acc) \in [Models -> Records \cup {None}]
           /\ \A m \in Models : Pruned(recovery, acc)[m] \in {recovery[m], None}
  BY DEF Leased, Pruned

LEMMA ExhaustedStep ==
    ASSUME AccInv, NEW r \in Reqs, NEW long \in BOOLEAN, Exhausted(r, long)
    PROVE  AccInv' /\ Serves
<1> DEFINE m == flight[r].model
<1>1. flight' \in [Reqs -> Snapshots \cup {None}] /\ m \in Models
  BY EndsTyped DEF AccInv, Leased, Exhausted, Ends, Snapshots
<1>2. CASE acc.gen # flight[r].gen
  <2>1. Sane' /\ Serves
    BY <1>2, SaneIsFine DEF Exhausted, AccInv, Sane, CoolingEnds, Serves, Fine, Selectable
  <2>2. Leased'
    BY <1>1, <1>2, LeasedStays DEF AccInv, Exhausted
  <2>3. QED  BY <2>1, <2>2 DEF AccInv
<1>3. CASE acc.gen = flight[r].gen
  <2>1. /\ acc' = Emptied(acc, m) /\ now' = now /\ lease' = lease
        /\ recovery' = [Pruned(recovery, acc) EXCEPT
                ![m] = IF acc.mode = "apiKey" THEN NextFailure(m, long) ELSE None]
        /\ spoiled' = IF lease[m] # None THEN spoiled \cup {m} ELSE spoiled
    BY <1>3 DEF Exhausted
  <2>2. /\ Fine(acc')
        /\ Strong(acc) => acc'.status = acc.status /\ acc'.until = acc.until
    BY <1>1, <2>1, EmptiedFine DEF AccInv
  <2>3. Sane' /\ acc'.gen = acc.gen
    BY <2>1, <2>2 DEF AccInv, Sane, Fine, CoolingEnds
  <2>4. Serves
    BY <2>1, <2>2 DEF Serves, Strong, Fine, Selectable
  <2>5. recovery' \in [Models -> Records \cup {None}]
    BY <1>1, <2>1, PrunedIs, FailureIs DEF AccInv
  <2>6. \A x \in Models : \/ recovery'[x] \in {recovery[x], None}
                         \/ x = m
    BY <1>1, <2>1, PrunedIs DEF AccInv
  <2>7. ASSUME NEW x \in spoiled' PROVE lease'[x] # None /\ Overtaken(x)'
    <3>1. x \in Models /\ lease[x] # None
      BY <1>1, <2>1, <2>7 DEF AccInv, Leased
    <3>2. CASE recovery'[x] \in {recovery[x], None} /\ x # m
      BY <2>1, <2>3, <2>7, <3>1, <3>2 DEF AccInv, Leased, Overtaken
    <3>3. CASE x = m
      <4>1. recovery'[m] = None \/ recovery'[m].generation > lease[m].generation
        BY <1>1, <2>1, <3>1, <3>3, PrunedIs, FailureIs DEF AccInv
      <4>2. QED  BY <2>1, <3>1, <3>3, <4>1 DEF Overtaken
    <3>4. QED  BY <2>6, <3>1, <3>2, <3>3
  <2>8. Leased'
    BY <1>1, <2>1, <2>3, <2>5, <2>7 DEF AccInv, Leased
  <2>9. QED  BY <2>3, <2>4, <2>8 DEF AccInv
<1>4. QED  BY <1>2, <1>3

LEMMA TakenIs ==
    ASSUME AccInv, NEW m \in Models, NEW step \in 0 .. Len(RetryDelays) - 1
    PROVE  [Due(m) EXCEPT !.step = step, !.next = now + Delay([Due(m) EXCEPT !.step = step])]
              \in Records
<1> DEFINE d == Due(m)
           later == [d EXCEPT !.step = step]
           next == now + Delay(later)
<1>1. d \in Records  BY DueIs
<1> HIDE DEF d
<1>2. later \in Records  BY <1>1 DEF Records
<1> HIDE DEF later
<1>3. next \in Nat  BY <1>2, DelayIs DEF AccInv, Sane
<1> HIDE DEF next
<1>4. [d EXCEPT !.step = step, !.next = next] \in Records
  BY <1>1, <1>3 DEF Records
<1>5. QED  BY <1>4 DEF d, later, next

LEMMA AcquireStep ==
    ASSUME AccInv, NEW r \in Reqs, NEW m \in Models, AcquireProbe(r, m)
    PROVE  AccInv' /\ Serves
<1> DEFINE due == Due(m)
           step == Min({due.step + 1, Len(RetryDelays) - 1})
           taken == [due EXCEPT !.step = step, !.next = now + Delay([due EXCEPT !.step = step])]
<1>1. due \in Records  BY DueIs
<1>2. step \in 0 .. Len(RetryDelays) - 1
  <2>1. due.step + 1 \in Nat \ {0} /\ Len(RetryDelays) - 1 \in Nat
    BY <1>1, AccountsAssumption DEF Records
  <2> HIDE DEF due
  <2>2. QED  BY <2>1, Smallest
<1>3. taken \in Records
  <2> HIDE DEF step
  <2>1. QED  BY <1>2, TakenIs
<1>4. lease[m] = None /\ UNCHANGED <<now, acc, poll, sentence>>
  BY DEF AcquireProbe
<1>5. Sane' /\ Serves
  BY <1>4, SaneIsFine DEF AccInv, Sane, CoolingEnds, Serves, Fine, Selectable
<1>6. CASE now < due.next
  <2>1. /\ recovery' = [Pruned(recovery, acc) EXCEPT ![m] = due]
        /\ UNCHANGED <<flight, lease, spoiled>>
    BY <1>6 DEF AcquireProbe
  <2> HIDE DEF due, taken, step
  <2>2. recovery' \in [Models -> Records \cup {None}]
    BY <1>1, <2>1, PrunedIs DEF AccInv
  <2>3. \A x \in spoiled : x # m /\ recovery'[x] \in {recovery[x], None}
    BY <1>4, <2>1, PrunedIs DEF AccInv, Leased
  <2>4. Leased'
    BY <1>4, <2>1, <2>2, <2>3 DEF AccInv, Leased, Overtaken
  <2>5. QED  BY <1>5, <2>4 DEF AccInv
<1>7. CASE ~(now < due.next)
  <2> DEFINE given == [req |-> r, gen |-> acc.gen, route |-> acc.route,
                       generation |-> due.generation]
             shot == [gen |-> acc.gen, route |-> acc.route, model |-> m, stage |-> "sent"]
  <2>1. /\ recovery' = [Pruned(recovery, acc) EXCEPT ![m] = taken]
        /\ lease' = [lease EXCEPT ![m] = given]
        /\ flight' = [flight EXCEPT ![r] = shot]
        /\ spoiled' = spoiled \ {m}
    BY <1>7 DEF AcquireProbe
  <2> HIDE DEF due, taken, step
  <2>2. given \in Leases /\ given.gen = acc.gen /\ shot \in Snapshots
    BY <1>1 DEF AccInv, Sane, AccountSet, Records, Leases, Snapshots
  <2> HIDE DEF given, shot
  <2>3. recovery' \in [Models -> Records \cup {None}]
    BY <1>3, <2>1, PrunedIs DEF AccInv
  <2>4. /\ lease' \in [Models -> Leases \cup {None}]
        /\ flight' \in [Reqs -> Snapshots \cup {None}]
        /\ spoiled' \subseteq Models
    BY <2>1, <2>2 DEF AccInv, Leased
  <2>5. acc.gen \in Nat  BY DEF AccInv, Sane, AccountSet
  <2>6. \A x \in Models : lease'[x] # None => lease'[x].gen <= acc'.gen
    BY <1>4, <2>1, <2>2, <2>5 DEF AccInv, Leased
  <2>7. \A x \in spoiled' : lease'[x] = lease[x] /\ recovery'[x] \in {recovery[x], None} /\ x \in spoiled
    BY <2>1, PrunedIs DEF AccInv, Leased
  <2>8. \A x \in spoiled' : lease'[x] # None /\ Overtaken(x)'
    BY <1>4, <2>7 DEF AccInv, Leased, Overtaken
  <2>9. Leased'
    BY <2>3, <2>4, <2>6, <2>8 DEF Leased
  <2>10. QED  BY <1>5, <2>9 DEF AccInv
<1>8. QED  BY <1>6, <1>7

\* The probe lifts the mark only if its lease was not overtaken.
LEMMA FinishStep ==
    ASSUME AccInv, NEW r \in Reqs, NEW confirmed \in BOOLEAN, FinishProbe(r, confirmed)
    PROVE  /\ AccInv' /\ Serves
           /\ acc.empty \ acc'.empty \subseteq Models \ spoiled
<1> DEFINE m == flight[r].model
<1>1. /\ flight[r] \in Snapshots /\ m \in Models
      /\ flight' = [flight EXCEPT ![r] = None] /\ lease' = [lease EXCEPT ![m] = None]
      /\ spoiled' = spoiled \ {m} /\ UNCHANGED <<now, poll, sentence>>
  BY DEF FinishProbe, Holds, AccInv, Leased, Snapshots
<1>2. CASE confirmed /\ StillOwn(m)
  <2>1. acc' = Refilled(acc, m) /\ recovery' = [Pruned(recovery, acc) EXCEPT ![m] = None]
    BY <1>2 DEF FinishProbe
  <2>2. Eligible(m) /\ acc.enabled /\ acc.status # "disabled" /\ m \notin spoiled
    BY <1>1, <1>2 DEF StillOwn, Eligible, AccInv, Leased, Overtaken, Sane, AccountSet,
       Leases, Records
  <2> HIDE DEF m
  <2>3. Fine(acc') /\ acc.empty \ acc'.empty \subseteq {m}
    BY <1>1, <2>1, <2>2, RefilledFine DEF AccInv
  <2>4. Sane' /\ acc'.gen = acc.gen
    BY <1>1, <2>3 DEF AccInv, Sane, Fine, CoolingEnds
  <2>5. Serves
    BY <1>1, <2>2, <2>3 DEF Serves, Fine, Selectable
  <2>6. /\ recovery' \in [Models -> Records \cup {None}]
        /\ \A x \in Models : recovery'[x] \in {recovery[x], None}
    BY <1>1, <2>1, PrunedIs DEF AccInv
  <2>7. /\ lease' \in [Models -> Leases \cup {None}]
        /\ flight' \in [Reqs -> Snapshots \cup {None}]
        /\ \A x \in Models : x # m => lease'[x] = lease[x]
        /\ lease'[m] = None
    BY <1>1 DEF AccInv, Leased
  <2>8. \A x \in spoiled' : lease'[x] # None /\ Overtaken(x)'
    BY <1>1, <2>4, <2>6, <2>7 DEF AccInv, Leased, Overtaken
  <2>9. Leased'
    BY <1>1, <2>4, <2>6, <2>7, <2>8 DEF AccInv, Leased
  <2>10. QED  BY <1>1, <2>2, <2>3, <2>4, <2>5, <2>9 DEF AccInv
<1>3. CASE ~(confirmed /\ StillOwn(m))
  <2>1. UNCHANGED <<acc, recovery>>
    BY <1>3 DEF FinishProbe
  <2> HIDE DEF m
  <2>2. Sane' /\ Serves
    BY <1>1, <2>1, SaneIsFine DEF AccInv, Sane, CoolingEnds, Serves, Fine, Selectable
  <2>3. Leased'
    BY <1>1, <2>1 DEF AccInv, Leased, Overtaken
  <2>4. QED  BY <2>1, <2>2, <2>3 DEF AccInv
<1>4. QED  BY <1>2, <1>3

LEMMA SuccessStep ==
    ASSUME AccInv, NEW r \in Reqs, Success(r)
    PROVE  AccInv' /\ Serves
<1>1. Sane' /\ acc'.gen = acc.gen /\ Serves
  BY Written, RestoredFine DEF AccInv, Success, Serves
<1>2. flight' \in [Reqs -> Snapshots \cup {None}]
  BY EndsTyped DEF AccInv, Success
<1>3. Leased'
  BY <1>1, <1>2, LeasedStays DEF AccInv, Success
<1>4. QED  BY <1>1, <1>3 DEF AccInv

LEMMA RequestStep ==
    ASSUME AccInv, NEW r \in Reqs, Request(r)
    PROVE  AccInv' /\ Serves
<1>0. Sane /\ acc.gen \in Nat  BY DEF AccInv, Sane, AccountSet
<1>1. ASSUME NEW m \in Models, Dispatch(r, m) PROVE AccInv' /\ Serves
  <2> DEFINE shot == [gen |-> acc.gen, route |-> acc.route, model |-> m, stage |-> "sent"]
  <2>1. shot \in Snapshots  BY <1>0 DEF Sane, AccountSet, Snapshots
  <2>2. flight' = [flight EXCEPT ![r] = shot]  BY <1>1 DEF Dispatch
  <2> HIDE DEF shot
  <2>3. flight' \in [Reqs -> Snapshots \cup {None}]
    BY <2>1, <2>2 DEF AccInv, Leased
  <2>4. Sane' /\ Serves /\ acc' = acc
    BY <1>1, SaneIsFine DEF Dispatch, AccInv, Sane, CoolingEnds, Serves, Fine, Selectable
  <2>5. Leased'
    BY <1>1, <2>3, <2>4, LeasedStays DEF Dispatch, AccInv
  <2>6. QED  BY <2>4, <2>5 DEF AccInv
<1>2. ASSUME NEW term \in CoolTerms, Answered(r, Cooled(term)) PROVE AccInv' /\ Serves
  BY <1>0, <1>2, CooledFine, AnsweredStep, AccountsAssumption
<1>3. CASE RateLimited(r) \/ Unavailable(r)
  BY <1>2, <1>3 DEF RateLimited, Unavailable
<1>4. CASE ConnectionFailed(r)
  BY <1>2, <1>4, LongestTerm DEF ConnectionFailed
<1>5. CASE Refused(r)
  BY <1>0, <1>5, RefusedFine, AnsweredStep DEF Refused
<1>6. CASE Noted(r)
  BY <1>0, <1>6, SaneIsFine, StampedFine, AnsweredStep DEF Noted
<1>7. CASE RiskHit(r)
  <2>1. PICK a \in Rotated(RiskApplied(acc), flight[r]) : Answered(r, a)
    BY <1>7 DEF RiskHit
  <2>2. Fine(a)  BY <1>0, RiskAppliedFine, RoutedFine
  <2>3. QED  BY <2>1, <2>2, AnsweredStep
<1>8. CASE RiskNoted(r)
  <2> DEFINE noted == Stamped([acc EXCEPT !.lastRisk = RiskTime], "risk_control")
  <2>1. PICK a \in Rotated(noted, flight[r]) : Answered(r, a)
    BY <1>8 DEF RiskNoted
  <2>2. Fine(noted)  BY <1>0, RiskTimed, StampedFine
  <2> HIDE DEF noted
  <2>3. Fine(a)  BY <2>2, RoutedFine
  <2>4. QED  BY <2>1, <2>3, AnsweredStep
<1>9. QED
  BY <1>1, <1>3, <1>4, <1>5, <1>6, <1>7, <1>8, AcquireStep, SuccessStep, ExhaustedStep,
     FinishStep DEF Request

-----------------------------------------------------------------------------

LEMMA PollStep ==
    ASSUME AccInv, NEW a, Brought(a), Polled(a)
    PROVE  AccInv' /\ Serves
<1>1. Fine(Protected(a))
  BY ProtectedFine DEF AccInv
<1> DEFINE b == IF acc.route = poll.route THEN Protected(a) ELSE acc
<1>2. Fine(b)  BY <1>1, SaneIsFine DEF AccInv
<1>3. acc' = IF Accepts(poll) THEN b ELSE acc
  BY DEF Polled
<1> HIDE DEF b
<1>4. Sane' /\ acc'.gen = acc.gen /\ Serves
  BY <1>2, <1>3, Written DEF AccInv, Polled, Serves
<1>5. Leased'
  BY <1>4, LeasedStays DEF AccInv, Polled, Leased
<1>6. QED  BY <1>4, <1>5 DEF AccInv

LEMMA PollerStep == ASSUME AccInv, Poller PROVE AccInv' /\ Serves
<1>0. Sane  BY DEF AccInv
<1>1. ASSUME NEW a, Fine(a) PROVE Brought(a)
  BY <1>1 DEF Fine, Brought
<1>2. CASE PollRefused
  BY <1>0, <1>1, <1>2, RefusedFine, PollStep DEF PollRefused
<1>3. CASE PollFailed \/ PollRepeated
  BY <1>0, <1>1, <1>3, SaneIsFine, StampedFine, PollStep DEF PollFailed, PollRepeated
<1>4. CASE PollBalance
  BY <1>0, <1>4, BalancedBrought, PollStep, AccountsAssumption DEF PollBalance
<1>5. CASE PollBegin \/ PollCanceled
  <2>1. UNCHANGED <<now, acc, flight, recovery, lease, sentence, spoiled>>
    BY <1>5 DEF PollBegin, PollCanceled
  <2>2. Sane' /\ Serves
    BY <1>0, <2>1, SaneIsFine DEF Sane, CoolingEnds, Serves, Fine, Selectable
  <2>3. Leased'
    BY <2>1, LeasedStays DEF AccInv, Leased
  <2>4. QED  BY <2>2, <2>3 DEF AccInv
<1>6. QED  BY <1>2, <1>3, <1>4, <1>5 DEF Poller

\* What an edit makes of the account: it is the same account, and a cooling that
\* runs is still in force.
Edited(a) ==
    /\ a \in AccountSet /\ a.gen = acc.gen
    /\ a.status = "cooling" => a.until # 0
    /\ acc.status \in {"cooling", "disabled"} /\ acc.until > now => ~Selectable(a)

LEMMA EnabledIs ==
    ASSUME Sane, NEW on \in BOOLEAN
    PROVE  Edited(Enabled(acc, on))
<1>1. acc \in AccountSet  BY DEF Sane
<1>2. CASE ~on
  <2> DEFINE word == IF acc.status = "invalid" THEN acc.status ELSE "disabled"
             b == [acc EXCEPT !.enabled = FALSE, !.status = word]
  <2>1. word \in {"invalid", "disabled"}  OBVIOUS
  <2>2. Enabled(acc, on) = b  BY <1>2 DEF Enabled
  <2> HIDE DEF word
  <2>3. b \in AccountSet /\ b.gen = acc.gen /\ b.status = word
    BY <1>1, <2>1 DEF AccountSet
  <2>4. QED  BY <2>1, <2>2, <2>3 DEF Edited, Selectable
<1>3. CASE on
  <2> DEFINE word == IF acc.status # "disabled" THEN acc.status
                     ELSE IF acc.until > now THEN "cooling" ELSE "active"
             b == [acc EXCEPT !.enabled = TRUE, !.status = word]
  <2>1. word \in {"active", "cooling", "invalid", "exhausted", "disabled"}
    BY <1>1 DEF AccountSet
  <2>2. Enabled(acc, on) = b  BY <1>3 DEF Enabled
  <2>3. /\ word = "cooling" => acc.until # 0
        /\ acc.status \in {"cooling", "disabled"} /\ acc.until > now => word = "cooling"
    BY DEF Sane, CoolingEnds, AccountSet
  <2> HIDE DEF word
  <2>4. b \in AccountSet /\ b.gen = acc.gen /\ b.status = word /\ b.until = acc.until
    BY <1>1, <2>1 DEF AccountSet
  <2>5. acc.until \in Nat /\ now \in Nat  BY DEF Sane, AccountSet
  <2> HIDE DEF b
  <2>6. Edited(b)  BY <2>3, <2>4, <2>5 DEF Edited, Selectable
  <2>7. QED  BY <2>2, <2>6
<1>4. QED  BY <1>2, <1>3

LEMMA ArchivedIs ==
    ASSUME Sane, NEW on \in BOOLEAN
    PROVE  Edited(IF on THEN [Enabled(acc, FALSE) EXCEPT !.archived = TRUE]
                  ELSE [acc EXCEPT !.archived = FALSE])
<1>1. CASE on
  <2> DEFINE off == Enabled(acc, FALSE)
             b == [off EXCEPT !.archived = TRUE]
  <2>1. Edited(off)  BY EnabledIs
  <2> HIDE DEF off
  <2>2. /\ b \in AccountSet /\ b.gen = off.gen /\ b.status = off.status
        /\ b.until = off.until /\ b.archived
    BY <2>1 DEF Edited, AccountSet
  <2> HIDE DEF b
  <2>3. Edited(b)  BY <2>1, <2>2 DEF Edited, Selectable
  <2>4. QED  BY <1>1, <2>3 DEF b, off
<1>2. CASE ~on
  <2> DEFINE b == [acc EXCEPT !.archived = FALSE]
  <2>1. /\ b \in AccountSet /\ b.gen = acc.gen /\ b.status = acc.status
        /\ b.until = acc.until
    BY DEF Sane, AccountSet
  <2> HIDE DEF b
  <2>2. Edited(b)  BY <2>1, SaneTimes DEF Edited, Sane, CoolingEnds, Selectable
  <2>3. QED  BY <1>2, <2>2 DEF b
<1>3. QED  BY <1>1, <1>2

LEMMA RecoveredIs == ASSUME Sane, RiskInvalid(acc) PROVE Edited(Recovered(acc))
<1> DEFINE free == [acc EXCEPT !.status = "active", !.until = 0, !.streak = 0]
           b == Stamped(free, "other")
           end == acc.lastRisk + RiskSilent
           held == [b EXCEPT !.status = "cooling", !.until = end]
           c == Stamped(held, "risk_control")
<1>1. acc.status = "invalid" /\ acc \in AccountSet /\ end \in Nat
  BY AccountsAssumption DEF RiskInvalid, Sane, AccountSet
<1>2. free \in AccountSet /\ free.gen = acc.gen /\ free.status = "active"
  BY <1>1 DEF AccountSet
<1>3. b \in AccountSet /\ b.gen = acc.gen /\ b.status = "active"
  <2> HIDE DEF free
  <2>1. QED  BY <1>2 DEF Stamped, AccountSet
<1>4. Recovered(acc) = IF ~InSilentWindow(acc) THEN b ELSE c
  BY DEF Recovered
<1>5. InSilentWindow(acc) => end # 0
  BY AccountsAssumption DEF InSilentWindow, Sane, AccountSet
<1> HIDE DEF b, end
<1>6. held \in AccountSet /\ held.gen = acc.gen /\ held.status = "cooling" /\ held.until = end
  BY <1>1, <1>3, CoolingSet
<1> HIDE DEF held
<1>7. c \in AccountSet /\ c.gen = acc.gen /\ c.status = "cooling" /\ c.until = end
  BY <1>6 DEF Stamped, AccountSet
<1> HIDE DEF c
<1>8. CASE InSilentWindow(acc)
  BY <1>1, <1>4, <1>5, <1>7, <1>8 DEF Edited
<1>9. CASE ~InSilentWindow(acc)
  BY <1>1, <1>3, <1>4, <1>9 DEF Edited
<1>10. QED  BY <1>8, <1>9

LEMMA AdminStep ==
    ASSUME AccInv, NEW a, Edited(a), Admin(a), spoiled' = spoiled
    PROVE  /\ AccInv'
           /\ acc.status \in {"cooling", "disabled"} /\ acc.until > now' => ~Selectable(acc)'
<1>1. Sane' /\ acc'.gen = acc.gen
  BY DEF AccInv, Sane, Admin, Edited, CoolingEnds
<1>2. Leased'
  BY <1>1, LeasedStays DEF AccInv, Leased, Admin
<1>3. acc.status \in {"cooling", "disabled"} /\ acc.until > now' => ~Selectable(acc)'
  BY DEF Admin, Edited, Selectable
<1>4. QED  BY <1>1, <1>2, <1>3 DEF AccInv

\* A new credential is a later one: what is in flight is overtaken.
LEMMA NewCredential ==
    ASSUME AccInv, NEW mode \in {"jwt", "apiKey"}, EditAccount(mode)
    PROVE  AccInv'
<1> DEFINE b == Stamped(acc, "other")
           gen == b.gen + 1
           c == [b EXCEPT !.mode = mode, !.gen = gen, !.status = "active",
                          !.streak = 0, !.lastRisk = 0]
<1>1. b \in AccountSet /\ b.gen = acc.gen /\ acc.gen \in Nat
  BY SaneIsFine, StampedFine DEF AccInv, Sane, Fine, AccountSet
<1>2. acc' = c /\ UNCHANGED <<now, flight, recovery, lease>>
      /\ spoiled' = {m \in Models : lease[m] # None}
  BY DEF EditAccount, Admin
<1> HIDE DEF b
<1>3. gen \in Nat  BY <1>1
<1> HIDE DEF gen
<1>4. c \in AccountSet /\ c.gen = gen /\ c.status = "active"
  BY <1>1, <1>3 DEF AccountSet
<1>5. acc'.gen = acc.gen + 1  BY <1>1, <1>2, <1>4 DEF gen
<1> HIDE DEF c
<1>6. Sane'  BY <1>2, <1>4 DEF AccInv, Sane, CoolingEnds
<1>7. \A m \in Models : lease[m] # None => lease[m].gen \in Nat
  BY DEF AccInv, Leased, Leases
<1>8. Leased'
  BY <1>1, <1>2, <1>5, <1>7 DEF AccInv, Leased, Overtaken
<1>9. QED  BY <1>6, <1>8 DEF AccInv

LEMMA AdministratorStep ==
    ASSUME AccInv, Administrator
    PROVE  /\ AccInv'
           /\ acc.status \in {"cooling", "disabled"} /\ acc.until > now' /\ Selectable(acc)'
                 => \E mode \in {"jwt", "apiKey"} : EditAccount(mode)
<1>0. Sane  BY DEF AccInv
<1>1. ASSUME NEW on \in BOOLEAN, SetEnabled(on) \/ SetArchived(on)
      PROVE  /\ AccInv'
             /\ acc.status \in {"cooling", "disabled"} /\ acc.until > now' => ~Selectable(acc)'
  BY <1>0, <1>1, EnabledIs, ArchivedIs, AdminStep DEF SetEnabled, SetArchived
<1>2. ASSUME NEW x \in Routes, SetProxy(x)
      PROVE  /\ AccInv'
             /\ acc.status \in {"cooling", "disabled"} /\ acc.until > now' => ~Selectable(acc)'
  <2> DEFINE b == [acc EXCEPT !.route = x]
  <2>1. /\ b \in AccountSet /\ b.gen = acc.gen /\ b.status = acc.status
        /\ b.until = acc.until
    BY <1>0 DEF Sane, AccountSet
  <2>2. Admin(b) /\ spoiled' = spoiled  BY <1>2 DEF SetProxy
  <2> HIDE DEF b
  <2>3. Edited(b)
    BY <1>0, <2>1, SaneTimes DEF Edited, Sane, CoolingEnds, Selectable
  <2>4. QED  BY <2>2, <2>3, AdminStep
<1>3. CASE RecoverAccount
  BY <1>0, <1>3, RecoveredIs, AdminStep DEF RecoverAccount
<1>4. QED  BY <1>1, <1>2, <1>3, NewCredential DEF Administrator

LEMMA AccStep ==
    ASSUME AccInv, [Next]_vars
    PROVE  /\ AccInv'
           /\ acc.status \in {"cooling", "disabled"} /\ acc.until > now' /\ Selectable(acc)'
                 => \E mode \in {"jwt", "apiKey"} : EditAccount(mode)
           /\ ~acc.enabled /\ acc.status \in {"disabled", "invalid"} /\ ~Administrator
                 => acc'.status = acc.status /\ acc'.until = acc.until
<1>0. Sane  BY DEF AccInv
<1>1. CASE (\E r \in Reqs : Request(r)) \/ Poller
  BY <1>1, RequestStep, PollerStep DEF Serves
<1>2. CASE Administrator
  BY <1>2, AdministratorStep
<1>3. CASE Restart
  <2> DEFINE b == [acc EXCEPT !.streak = 0]
  <2>1. /\ b \in AccountSet /\ b.gen = acc.gen /\ b.status = acc.status
        /\ b.until = acc.until
    BY <1>0 DEF Sane, AccountSet
  <2>2. acc' = b /\ now' = now  BY <1>3 DEF Restart
  <2> HIDE DEF b
  <2>3. Sane' /\ Serves
    BY <1>0, <2>1, <2>2, SaneTimes DEF Sane, CoolingEnds, Serves, Selectable
  <2>4. Leased'
    BY <1>3 DEF AccInv, Leased, Restart
  <2>5. QED  BY <2>3, <2>4 DEF AccInv, Serves
<1>4. CASE Tick
  <2>1. /\ now' = now + 1 /\ now \in Nat /\ acc.until \in Nat
        /\ UNCHANGED <<acc, flight, poll, recovery, lease, sentence, spoiled>>
    BY <1>0, <1>4 DEF Tick, Sane, AccountSet
  <2>2. Sane'  BY <1>0, <2>1 DEF Sane, CoolingEnds
  <2>3. Serves
    BY <2>1 DEF Serves, Selectable
  <2>4. Leased'
    BY <2>1, LeasedStays DEF AccInv, Leased
  <2>5. QED  BY <2>2, <2>3, <2>4 DEF AccInv, Serves
<1>5. CASE UNCHANGED vars
  <2>1. UNCHANGED <<now, acc, flight, recovery, lease, spoiled>>
    BY <1>5 DEF vars
  <2>2. Sane' /\ Serves
    BY <1>0, <2>1, SaneIsFine DEF Sane, CoolingEnds, Serves, Fine, Selectable
  <2>3. Leased'
    BY <2>1, LeasedStays DEF AccInv, Leased
  <2>4. QED  BY <2>2, <2>3 DEF AccInv, Serves
<1>6. QED  BY <1>1, <1>2, <1>3, <1>4, <1>5 DEF Next

LEMMA AccRuns ==
    /\ RunInit => Init
    /\ [RunNext]_allVars => [Next]_vars
<1> USE DEF allVars
<1>1. SoftFailure(SF!Next) \/ Claim(CL!Next) \/ LogIn(LG!Next) => UNCHANGED vars
  BY DEF SoftFailure, Claim, LogIn
<1>2. UNCHANGED allVars => UNCHANGED vars
  OBVIOUS
<1>3. QED  BY <1>1, <1>2 DEF RunInit, RunNext, Account

LEMMA SpecAccInv == RunSpec => []AccInv
<1>1. RunInit => AccInv
  BY InitAcc, AccRuns
<1>2. AccInv /\ [RunNext]_allVars => AccInv'
  BY AccStep, AccRuns
<1>3. QED  BY <1>1, <1>2, PTL DEF RunSpec

\* A cooling has an end; while it runs only a new credential makes the account selectable,
\* and what is in flight for an account that was switched off moves neither its status nor
\* its deadline (internal/model/account.go, internal/gateway/classify.go,
\* internal/quota/quota.go, internal/store/store.go).
THEOREM StandingSentenceServed == RunSpec => SentenceServed
<1>1. AccInv => (focus = "account" => CoolingEnds)
  BY DEF AccInv, Sane
<1>2. AccInv /\ [RunNext]_allVars =>
        [acc.status \in {"cooling", "disabled"} /\ acc.until > now' /\ Selectable(acc)'
            => \E mode \in {"jwt", "apiKey"} : EditAccount(mode)]_vars
  BY AccStep, AccRuns
<1>3. AccInv /\ [RunNext]_allVars =>
        [~acc.enabled /\ acc.status \in {"disabled", "invalid"} /\ ~Administrator
            => acc'.status = acc.status /\ acc'.until = acc.until]_vars
  BY AccStep, AccRuns
<1>4. QED
  BY SpecAccInv, <1>1, <1>2, <1>3, PTL DEF RunSpec, SentenceServed, TermServed, StoppedStays

\* A probe lifts the mark of an exhausted model only if nothing has overtaken its lease: no
\* later failure of the model, no other credential (internal/store/quota_recovery.go,
\* FinishQuotaProbe).
THEOREM StandingRecoveredByProof == RunSpec => RecoveredByProof
<1>1. AccInv /\ [RunNext]_allVars =>
        [\A r \in Reqs, m \in Models :
            FinishProbe(r, TRUE) /\ m \in acc.empty \ acc'.empty => m \notin spoiled]_vars
  BY FinishStep
<1>2. QED  BY SpecAccInv, <1>1, PTL DEF RunSpec, RecoveredByProof

(***************************************************************************)
(* The soft failures of lines.                                             *)
(***************************************************************************)

\* The times and thresholds are numbers.
SoftTerms ==
    /\ {SoftWindow, RowWindow, CutWindow, Cooldown, TTL, Term, MinAttempts, MinFailures,
        MinRate, RowLimit, CutLimit, MaxSamples, MaxRestarts} \subseteq Nat
    /\ SoftTime \in Nat \ {0}

\* A line on probation is out; a line nobody knows has no strikes; a strike stands
\* for the term of its number.
Honest(e) ==
    /\ e.probation => e.until = 0
    /\ ~e.known => e.strikes = 0 /\ e.until = 0
    /\ e.strikes > 0 /\ e.until > 0 => e.until >= e.struck + SF!Duration(e.strikes)
    /\ e.strikes > 0 /\ e.until = 0 => sfNow >= e.struck + SF!Duration(e.strikes)

\* What is on disk is the record of the last strike.
Kept == \A l \in SoftLines :
    /\ Honest(soft[l]) /\ Honest(disk[l])
    /\ soft[l].strikes > 0 => disk[l].strikes = soft[l].strikes

SoftInv == SF!TypeOK /\ SF!SentenceSurvives /\ Kept

LEMMA DurationSoft ==
    ASSUME SoftTerms, NEW n \in Nat
    PROVE  SF!Duration(n) \in Nat
<1> DEFINE k == IF n <= 1 THEN 1 ELSE IF n = 2 THEN 2 ELSE IF n = 3 THEN 4 ELSE 8
<1>1. k \in Nat  OBVIOUS
<1>2. SF!Duration(n) = Term * k  BY DEF SF!Duration
<1> HIDE DEF k
<1>3. Term \in Nat  BY DEF SoftTerms
<1>4. QED  BY <1>1, <1>2, <1>3

LEMMA UnknownIs ==
    /\ SF!Unknown \in SF!Entry /\ SF!Unknown.strikes = 0 /\ SF!Unknown.until = 0
    /\ ~SF!Unknown.probation /\ ~SF!Unknown.known
<1>1. -1 \in Int /\ 0 \in Nat  OBVIOUS
<1>2. QED  BY <1>1 DEF SF!Unknown, SF!Entry

LEMMA UnknownHonest == Honest(SF!Unknown)
  BY UnknownIs DEF Honest

LEMMA InitSoft == ASSUME SoftTerms, SF!Init PROVE SoftInv
<1>1. SF!TypeOK
  BY UnknownIs DEF SF!TypeOK, SF!Init, SoftTerms
<1>2. \A l \in SoftLines : soft[l] = SF!Unknown /\ disk[l] = SF!Unknown
  BY DEF SF!Init
<1>3. SF!SentenceSurvives  BY <1>2 DEF SF!SentenceSurvives
<1>4. Kept  BY <1>2, UnknownHonest, UnknownIs DEF Kept
<1>5. QED  BY <1>1, <1>3, <1>4 DEF SoftInv

\* Before it is counted: an entry is there, its window is open, a term that is over
\* is on probation.
Opened(e) == SF!Released(SF!Rolled(SF!Known(e)))

LEMMA KnownSoft ==
    ASSUME NEW e \in SF!Entry, Honest(e), sfNow \in Nat
    PROVE  LET k == SF!Known(e)
           IN  /\ k \in SF!Entry /\ Honest(k) /\ k.known /\ k.strikes = e.strikes
               /\ k.until = e.until /\ (e.strikes > 0 => k.struck = e.struck)
<1>1. CASE e.known
  BY <1>1 DEF SF!Known
<1>2. CASE ~e.known
  <2> DEFINE k == [SF!Unknown EXCEPT !.known = TRUE, !.start = sfNow]
  <2>1. SF!Known(e) = k  BY <1>2 DEF SF!Known
  <2>2. /\ k \in SF!Entry /\ k.strikes = 0 /\ k.until = 0 /\ ~k.probation /\ k.known
    BY UnknownIs DEF SF!Entry
  <2> HIDE DEF k
  <2>3. QED  BY <1>2, <2>1, <2>2 DEF Honest
<1>3. QED  BY <1>1, <1>2 DEF SF!Entry

LEMMA RolledSoft ==
    ASSUME NEW e \in SF!Entry, Honest(e), sfNow \in Nat
    PROVE  LET k == SF!Rolled(e)
           IN  /\ k \in SF!Entry /\ Honest(k) /\ k.known = e.known /\ k.strikes = e.strikes
               /\ k.until = e.until /\ k.struck = e.struck
<1> DEFINE b == [e EXCEPT !.start = sfNow, !.attempts = 0, !.failures = 0]
           k == SF!Rolled(e)
<1>1. k = b \/ k = e  BY DEF SF!Rolled
<1>2. /\ b \in SF!Entry /\ b.known = e.known /\ b.strikes = e.strikes
      /\ b.until = e.until /\ b.struck = e.struck /\ b.probation = e.probation
  BY DEF SF!Entry
<1> HIDE DEF b, k
<1>3. QED  BY <1>1, <1>2 DEF Honest, k

LEMMA ReleasedSoft ==
    ASSUME SoftTerms, NEW e \in SF!Entry, Honest(e), sfNow \in Nat
    PROVE  LET k == SF!Released(e)
           IN  /\ k \in SF!Entry /\ Honest(k) /\ k.known = e.known /\ k.strikes = e.strikes
               /\ k.struck = e.struck /\ (k.until > 0 => k.until > sfNow)
               /\ k.until > sfNow \/ e.until > sfNow => k.until = e.until
<1> DEFINE b == [e EXCEPT !.until = 0, !.probation = TRUE]
           k == SF!Released(e)
<1>1. /\ e.until > 0 /\ ~(e.until > sfNow) => k = b
      /\ ~(e.until > 0 /\ ~(e.until > sfNow)) => k = e
  BY DEF SF!Released, SF!Jailed
<1>2. /\ b \in SF!Entry /\ b.known = e.known /\ b.strikes = e.strikes
      /\ b.until = 0 /\ b.struck = e.struck
  BY DEF SF!Entry
<1>3. e.until \in Nat /\ e.struck \in Nat /\ e.strikes \in Nat /\ e.known \in BOOLEAN
      /\ SF!Duration(e.strikes) \in Nat
  BY DurationSoft DEF SF!Entry
<1> HIDE DEF b, k
<1>4. CASE e.until > 0 /\ ~(e.until > sfNow)
  <2>1. k = b  BY <1>1, <1>4
  <2>2. Honest(b)
    BY <1>2, <1>3, <1>4 DEF Honest
  <2>3. QED  BY <1>2, <1>3, <1>4, <2>1, <2>2 DEF k
<1>5. CASE ~(e.until > 0 /\ ~(e.until > sfNow))
  <2>1. k = e  BY <1>1, <1>5
  <2>2. QED  BY <1>3, <1>5, <2>1 DEF k
<1>6. QED  BY <1>4, <1>5

LEMMA OpenedSoft ==
    ASSUME SoftTerms, NEW e \in SF!Entry, Honest(e), sfNow \in Nat
    PROVE  LET o == Opened(e)
           IN  /\ o \in SF!Entry /\ Honest(o) /\ o.known /\ o.strikes = e.strikes
               /\ (e.strikes > 0 => o.struck = e.struck) /\ (o.until > 0 => o.until > sfNow)
               /\ o.until > sfNow \/ e.until > sfNow => o.until = e.until
<1> DEFINE k == SF!Known(e)
           w == SF!Rolled(k)
           o == SF!Released(w)
<1>1. /\ k \in SF!Entry /\ Honest(k) /\ k.known /\ k.strikes = e.strikes
      /\ k.until = e.until /\ (e.strikes > 0 => k.struck = e.struck)
  BY KnownSoft
<1> HIDE DEF k
<1>2. /\ w \in SF!Entry /\ Honest(w) /\ w.known = k.known /\ w.strikes = k.strikes
      /\ w.until = k.until /\ w.struck = k.struck
  BY <1>1, RolledSoft
<1> HIDE DEF w
<1>3. /\ o \in SF!Entry /\ Honest(o) /\ o.known = w.known /\ o.strikes = w.strikes
      /\ o.struck = w.struck /\ (o.until > 0 => o.until > sfNow)
      /\ o.until > sfNow \/ w.until > sfNow => o.until = w.until
  BY <1>2, ReleasedSoft
<1>4. Opened(e) = o  BY DEF Opened, o, w, k
<1> HIDE DEF o
<1>5. QED  BY <1>1, <1>2, <1>3, <1>4

LEMMA PassedSoft ==
    ASSUME SoftTerms, NEW e \in SF!Entry, Honest(e), e.known, sfNow \in Nat
    PROVE  LET k == SF!Passed(e)
           IN  /\ k \in SF!Entry /\ Honest(k) /\ k.known /\ k.struck = e.struck
               /\ k.until = e.until /\ k.attempts > 0 /\ k.row = 0
               /\ k.strikes = e.strikes \/ (k.strikes = 0 /\ e.probation)
<1> DEFINE n == e.attempts + 1
           strikes == IF e.probation THEN 0 ELSE e.strikes
           k == [e EXCEPT !.attempts = n, !.row = 0, !.rowStart = 0, !.strikes = strikes,
                          !.probation = FALSE]
<1>1. /\ n \in Nat /\ n > 0 /\ strikes \in Nat
      /\ strikes = e.strikes \/ (strikes = 0 /\ e.probation)
  <2>1. e.attempts \in Nat /\ e.strikes \in Nat /\ n \in Nat /\ n > 0
    BY DEF SF!Entry
  <2>2. strikes = e.strikes \/ (strikes = 0 /\ e.probation)
    BY Zenon
  <2> HIDE DEF n, strikes
  <2>3. QED  BY <2>1, <2>2
<1>2. SF!Passed(e) = k  BY DEF SF!Passed
<1> HIDE DEF n, strikes
<1>3. /\ k \in SF!Entry /\ k.known = e.known /\ k.struck = e.struck /\ k.until = e.until
      /\ k.attempts = n /\ k.row = 0 /\ k.strikes = strikes /\ ~k.probation
  BY <1>1 DEF SF!Entry
<1> HIDE DEF k
<1>4. Honest(k)  BY <1>1, <1>3 DEF Honest, SF!Entry
<1>5. QED  BY <1>1, <1>2, <1>3, <1>4

\* A failure moves the counters only.
SameSentence(k, e) ==
    /\ k \in SF!Entry /\ k.known = e.known /\ k.struck = e.struck /\ k.until = e.until
    /\ k.strikes = e.strikes /\ k.probation = e.probation

LEMMA FailedSoft ==
    ASSUME NEW e \in SF!Entry, sfNow \in Nat
    PROVE  SameSentence(SF!Failed(e), e)
<1> DEFINE fresh == e.row = 0 \/ sfNow - e.rowStart > RowWindow
           n == e.attempts + 1
           f == e.failures + 1
           row == IF fresh THEN 1 ELSE e.row + 1
           start == IF fresh THEN sfNow ELSE e.rowStart
           k == [e EXCEPT !.attempts = n, !.failures = f, !.row = row, !.rowStart = start]
<1>1. SF!Failed(e) = k  BY DEF SF!Failed
<1>2. n \in Nat /\ f \in Nat /\ row \in Nat /\ start \in Nat
  BY DEF SF!Entry
<1> HIDE DEF n, f, row, start, fresh
<1>3. SameSentence(k, e)  BY <1>2 DEF SF!Entry, SameSentence
<1>4. QED  BY <1>1, <1>3

LEMMA TruncatedSoft ==
    ASSUME NEW e \in SF!Entry, sfNow \in Nat
    PROVE  SameSentence(SF!Truncated(e), e)
<1> DEFINE fresh == e.truncStart < 0 \/ sfNow - e.truncStart >= CutWindow
           n == IF fresh THEN 1 ELSE e.truncates + 1
           start == IF fresh THEN sfNow ELSE e.truncStart
           k == [e EXCEPT !.truncates = n, !.truncStart = start]
<1>1. SF!Truncated(e) = k \/ SF!Truncated(e) = e  BY DEF SF!Truncated
<1>2. n \in Nat /\ start \in Int
  BY DEF SF!Entry
<1> HIDE DEF n, start, fresh
<1>3. SameSentence(k, e)  BY <1>2 DEF SF!Entry, SameSentence
<1>4. SameSentence(e, e)  BY DEF SameSentence
<1>5. QED  BY <1>1, <1>3, <1>4

LEMMA SameHonest == ASSUME NEW e, NEW k, SameSentence(k, e), Honest(e) PROVE Honest(k)
  BY DEF SameSentence, Honest

\* A sample counted: only a success on probation takes strikes away.
LEMMA CountedSoft ==
    ASSUME SoftTerms, NEW e \in SF!Entry, Honest(e), sfNow \in Nat, NEW kind
    PROVE  LET c == SF!Counted(e, kind)
           IN  /\ c \in SF!Entry /\ Honest(c) /\ c.known
               /\ (c.until > 0 => c.until > sfNow)
               /\ (c.until > sfNow \/ e.until > sfNow => c.until = e.until)
               /\ (e.strikes > 0 => c.struck = e.struck)
               /\ c.last = sfNow
               /\ \/ c.strikes = e.strikes
                  \/ /\ kind = "ok" /\ c.strikes = 0 /\ c.attempts > 0 /\ c.row = 0
                     /\ ~(e.until > sfNow)
<1> DEFINE o == Opened(e)
           judged == IF kind = "ok" THEN SF!Passed(o) ELSE SF!Failed(o)
           full == IF kind = "truncate" THEN SF!Truncated(judged) ELSE judged
           c == [full EXCEPT !.last = sfNow]
<1>1. /\ o \in SF!Entry /\ Honest(o) /\ o.known /\ o.strikes = e.strikes
      /\ (e.strikes > 0 => o.struck = e.struck) /\ (o.until > 0 => o.until > sfNow)
      /\ (o.until > sfNow \/ e.until > sfNow => o.until = e.until)
  BY OpenedSoft
<1>2. SF!Counted(e, kind) = c  BY DEF SF!Counted, Opened
<1> HIDE DEF o
<1>3. CASE kind = "ok"
  <2> DEFINE p == SF!Passed(o)
  <2>1. /\ p \in SF!Entry /\ Honest(p) /\ p.known /\ p.struck = o.struck
        /\ p.until = o.until /\ p.attempts > 0 /\ p.row = 0
        /\ p.strikes = o.strikes \/ (p.strikes = 0 /\ o.probation)
    BY <1>1, PassedSoft
  <2>2. full = p  BY <1>3
  <2> HIDE DEF p, full
  <2>3. /\ c \in SF!Entry /\ c.known = p.known /\ c.struck = p.struck /\ c.until = p.until
        /\ c.strikes = p.strikes /\ c.probation = p.probation /\ c.last = sfNow
        /\ c.attempts = p.attempts /\ c.row = p.row
    BY <2>1, <2>2 DEF SF!Entry
  <2> HIDE DEF c
  <2>4. Honest(c)  BY <2>1, <2>3 DEF Honest
  <2>5. o.probation => ~(e.until > sfNow)
    BY <1>1 DEF Honest, SF!Entry
  <2>6. QED  BY <1>1, <1>2, <1>3, <2>1, <2>3, <2>4, <2>5
<1>4. CASE kind # "ok"
  <2>1. SameSentence(judged, o)  BY <1>1, <1>4, FailedSoft
  <2> HIDE DEF judged
  <2>2. judged \in SF!Entry  BY <2>1 DEF SameSentence
  <2>3. SameSentence(SF!Truncated(judged), judged)  BY <2>2, TruncatedSoft
  <2>4. SameSentence(full, o)  BY <2>1, <2>3 DEF SameSentence
  <2> HIDE DEF full
  <2>5. SameSentence(c, o) /\ c.last = sfNow
    BY <2>4 DEF SameSentence, SF!Entry
  <2> HIDE DEF c
  <2>6. Honest(c)  BY <1>1, <2>5, SameHonest
  <2>7. QED  BY <1>1, <1>2, <2>5, <2>6 DEF SameSentence
<1>5. QED  BY <1>3, <1>4

\* A strike is one more, from now on, for the term of its number.
LEMMA StruckSoft ==
    ASSUME SoftTerms, NEW e \in SF!Entry, Honest(e), sfNow \in Nat \ {0}, e.known,
           ~e.probation
    PROVE  LET k == SF!Struck(e)
           IN  /\ k \in SF!Entry /\ Honest(k) /\ k.strikes = e.strikes + 1
               /\ k.last = e.last /\ k.probation = e.probation
<1> DEFINE n == e.strikes + 1
           end == sfNow + SF!Duration(n)
           k == [e EXCEPT !.strikes = n, !.struck = sfNow, !.until = end]
<1>1. SF!Struck(e) = k  BY DEF SF!Struck
<1>2. n \in Nat /\ e.strikes \in Nat  BY DEF SF!Entry
<1>3. end \in Nat /\ end > 0 /\ end = sfNow + SF!Duration(n)
  <2>1. SF!Duration(n) \in Nat  BY <1>2, DurationSoft
  <2> HIDE DEF n
  <2>2. QED  BY <2>1
<1> HIDE DEF end, n
<1>4. /\ k \in SF!Entry /\ k.strikes = n /\ k.struck = sfNow /\ k.until = end
      /\ k.last = e.last /\ k.probation = e.probation /\ k.known = e.known
  BY <1>2, <1>3 DEF SF!Entry
<1> HIDE DEF k
<1>5. Honest(k)  BY <1>3, <1>4 DEF Honest
<1>6. QED  BY <1>1, <1>4, <1>5 DEF n

\* What becomes of a sample: nothing, or one strike more, a cooldown after the last or
\* after its term.
LEMMA SentencedSoft ==
    ASSUME SoftTerms, NEW e \in SF!Entry, Honest(e), sfNow \in Nat \ {0}, e.known, NEW kind,
           e.until > 0 => e.until > sfNow
    PROVE  LET s == SF!Sentenced(e, kind)
           IN  /\ s \in SF!Entry /\ Honest(s) /\ s.last = e.last
               /\ \/ s = e
                  \/ /\ s.strikes = e.strikes + 1 /\ kind # "ok"
                     /\ e.strikes > 0 =>
                          sfNow - e.struck >= IF e.until > sfNow THEN Cooldown
                                              ELSE SF!Duration(e.strikes)
<1> DEFINE s == SF!Sentenced(e, kind)
           jailed == SF!Jailed(e)
<1>0. e.until \in Nat /\ e.strikes \in Nat /\ e.struck \in Nat /\ Cooldown \in Nat
      /\ SF!Duration(e.strikes) \in Nat
  BY DurationSoft DEF SF!Entry, SoftTerms
<1>1. \/ s = e
      \/ SF!Hit(e, kind) /\ ~jailed /\ s = [SF!Struck(e) EXCEPT !.probation = FALSE]
      \/ SF!Extended(e, kind) /\ s = SF!Struck(e)
  BY DEF SF!Sentenced
<1>2. CASE s = e
  BY <1>2
<1>3. CASE SF!Hit(e, kind) /\ ~jailed /\ s = [SF!Struck(e) EXCEPT !.probation = FALSE]
  <2> DEFINE calm == [e EXCEPT !.probation = FALSE]
             k == SF!Struck(calm)
  <2>1. /\ calm \in SF!Entry /\ calm.known = e.known /\ ~calm.probation
        /\ calm.strikes = e.strikes /\ calm.until = e.until /\ calm.struck = e.struck
        /\ calm.last = e.last
    BY DEF SF!Entry
  <2>2. [SF!Struck(e) EXCEPT !.probation = FALSE] = SF!Struck(calm)
    BY <2>1 DEF SF!Struck, SF!Entry
  <2> HIDE DEF calm
  <2>3. Honest(calm)  BY <2>1 DEF Honest
  <2>4. k \in SF!Entry /\ Honest(k) /\ k.strikes = calm.strikes + 1 /\ k.last = calm.last
    BY <2>1, <2>3, StruckSoft
  <2>5. kind # "ok"  BY <1>3 DEF SF!Hit
  <2>6. e.strikes > 0 => sfNow - e.struck >= IF e.until > sfNow THEN Cooldown
                                            ELSE SF!Duration(e.strikes)
    <3>1. ~(e.until > sfNow) /\ e.until = 0  BY <1>0, <1>3 DEF SF!Jailed
    <3>2. e.strikes > 0 => sfNow - e.struck >= SF!Duration(e.strikes)
      BY <1>0, <3>1 DEF Honest
    <3>3. QED  BY <3>1, <3>2
  <2>7. QED  BY <1>3, <2>1, <2>2, <2>4, <2>5, <2>6
<1>4. CASE SF!Extended(e, kind) /\ s = SF!Struck(e)
  <2>1. kind # "ok" /\ e.until > sfNow /\ sfNow - e.struck >= Cooldown
    BY <1>4 DEF SF!Extended, SF!Jailed
  <2>2. ~e.probation  BY <1>0, <2>1 DEF Honest
  <2>3. QED  BY <1>4, <2>1, <2>2, StruckSoft
<1>5. QED  BY <1>1, <1>2, <1>3, <1>4

LEMMA PrunedSoft ==
    ASSUME SoftTerms, sfNow \in Nat, NEW s \in [SoftLines -> SF!Entry]
    PROVE  /\ SF!Pruned(s) \in [SoftLines -> SF!Entry]
           /\ \A l \in SoftLines :
                 \/ SF!Pruned(s)[l] = s[l]
                 \/ /\ SF!Pruned(s)[l] = SF!Unknown /\ s[l].last < sfNow - TTL
                    /\ ~(s[l].until > sfNow)
  BY UnknownIs DEF SF!Pruned, SF!Jailed

\* What a step does to one line.
SoftStep(l) ==
    /\ soft[l].strikes > 0 /\ soft'[l].strikes = 0 =>
         \/ soft[l].until <= sfNow /\ soft'[l].attempts > 0 /\ soft'[l].row = 0 /\ soft'[l].last = sfNow
         \/ soft[l].last < sfNow - TTL
         \/ restarts' > restarts /\ disk[l].last < sfNow - TTL
    /\ soft[l].strikes > 0 /\ soft'[l].strikes > soft[l].strikes =>
         soft'[l].strikes = soft[l].strikes + 1
         /\ sfNow - soft[l].struck >= IF SF!Jailed(soft[l]) THEN Cooldown
                                      ELSE SF!Duration(soft[l].strikes)

LEMMA SoftSame ==
    ASSUME SoftTerms, SoftInv, NEW l \in SoftLines, soft'[l] = soft[l]
    PROVE  SoftStep(l)
<1>1. soft[l].strikes \in Nat  BY DEF SoftInv, SF!TypeOK, SF!Entry
<1>2. QED  BY <1>1 DEF SoftStep

LEMMA SoftRecord ==
    ASSUME SoftTerms, SoftInv, NEW l \in SoftLines, NEW kind, SF!Record(l, kind)
    PROVE  SoftInv' /\ \A x \in SoftLines : SoftStep(x)
<1> DEFINE c == SF!Counted(soft[l], kind)
           e == SF!Sentenced(c, kind)
           after == [soft EXCEPT ![l] = e]
<1>0. /\ soft \in [SoftLines -> SF!Entry] /\ disk \in [SoftLines -> SF!Entry]
      /\ sfNow \in Nat \ {0} /\ TTL \in Nat /\ Cooldown \in Nat
      /\ soft[l] \in SF!Entry /\ Honest(soft[l])
  BY DEF SoftInv, SF!TypeOK, SoftTerms, Kept
<1>1. /\ c \in SF!Entry /\ Honest(c) /\ c.known
      /\ (c.until > 0 => c.until > sfNow)
      /\ (c.until > sfNow \/ soft[l].until > sfNow => c.until = soft[l].until)
      /\ (soft[l].strikes > 0 => c.struck = soft[l].struck)
      /\ c.last = sfNow
      /\ \/ c.strikes = soft[l].strikes
         \/ /\ kind = "ok" /\ c.strikes = 0 /\ c.attempts > 0 /\ c.row = 0
            /\ ~(soft[l].until > sfNow)
  BY <1>0, CountedSoft
<1> HIDE DEF c
<1>2. /\ e \in SF!Entry /\ Honest(e) /\ e.last = c.last
      /\ \/ e = c
         \/ /\ e.strikes = c.strikes + 1 /\ kind # "ok"
            /\ c.strikes > 0 => sfNow - c.struck >= IF c.until > sfNow THEN Cooldown
                                                   ELSE SF!Duration(c.strikes)
  BY <1>0, <1>1, SentencedSoft
<1>3. /\ UNCHANGED <<sfNow, restarts>> /\ samples' \in 0 .. MaxSamples
      /\ IF e.strikes > c.strikes THEN soft' = SF!Pruned(after) /\ disk' = SF!Pruned(after)
         ELSE soft' = after /\ UNCHANGED disk
  <2>1. samples < MaxSamples /\ samples' = samples + 1 /\ samples \in 0 .. MaxSamples
        /\ MaxSamples \in Nat
    BY DEF SF!Record, SoftInv, SF!TypeOK, SoftTerms
  <2>2. samples' \in 0 .. MaxSamples  BY <2>1
  <2>3. QED  BY <2>2 DEF SF!Record, SF!Acts, c, e
<1> HIDE DEF e
<1>4. after \in [SoftLines -> SF!Entry] /\ after[l] = e
      /\ \A x \in SoftLines : x # l => after[x] = soft[x]
  BY <1>0, <1>2
<1>5. /\ e.strikes \in Nat /\ c.strikes \in Nat /\ soft[l].strikes \in Nat /\ e.until \in Nat
      /\ soft[l].until \in Nat
  BY <1>0, <1>1, <1>2 DEF SF!Entry
<1> HIDE DEF after
<1>6. CASE e.strikes > c.strikes
  <2>1. soft' = SF!Pruned(after) /\ disk' = soft'  BY <1>3, <1>6
  <2>2. /\ soft' \in [SoftLines -> SF!Entry]
        /\ \A x \in SoftLines :
             \/ soft'[x] = after[x]
             \/ soft'[x] = SF!Unknown /\ after[x].last < sfNow - TTL /\ ~(after[x].until > sfNow)
    BY <1>0, <1>4, <2>1, PrunedSoft
  <2>3. soft'[l] = e
    BY <1>0, <1>1, <1>2, <1>4, <2>2
  <2>4. \A x \in SoftLines : Honest(soft'[x])
    BY <1>0, <1>2, <1>4, <2>2, <2>3, UnknownHonest DEF SoftInv, Kept
  <2>5. \A x \in SoftLines : Honest(soft[x])' /\ Honest(disk[x])'
    BY <1>3, <2>1, <2>4 DEF Honest
  <2>6. SoftInv'
    BY <1>0, <1>3, <2>1, <2>2, <2>5 DEF SoftInv, SF!TypeOK, SF!SentenceSurvives, Kept
  <2>7. SoftStep(l)
    <3>1. c.until > sfNow <=> SF!Jailed(soft[l])  BY <1>1 DEF SF!Jailed
    <3>2. CASE soft[l].strikes > 0 /\ c.strikes = soft[l].strikes
      <4>1. c.struck = soft[l].struck  BY <1>1, <3>2
      <4>2. e.strikes = soft[l].strikes + 1  BY <1>2, <1>5, <1>6, <3>2
      <4>3. sfNow - soft[l].struck >= IF SF!Jailed(soft[l]) THEN Cooldown
                                      ELSE SF!Duration(soft[l].strikes)
        BY <1>2, <1>5, <1>6, <3>1, <3>2, <4>1
      <4>4. QED  BY <1>5, <2>3, <4>2, <4>3 DEF SoftStep
    <3>3. CASE soft[l].strikes = 0 \/ c.strikes # soft[l].strikes
      <4>1. kind # "ok"  BY <1>2, <1>5, <1>6
      <4>2. soft[l].strikes = 0  BY <1>1, <3>3, <4>1
      <4>3. QED  BY <4>2 DEF SoftStep
    <3>4. QED  BY <1>5, <3>2, <3>3
  <2>8. ASSUME NEW x \in SoftLines, x # l PROVE SoftStep(x)
    <3>1. after[x] = soft[x]  BY <1>4, <2>8
    <3>2. CASE soft'[x] = after[x]  BY <3>1, <3>2, SoftSame
    <3>3. CASE soft'[x] = SF!Unknown /\ after[x].last < sfNow - TTL
      <4>1. soft[x].strikes \in Nat  BY <1>0 DEF SF!Entry
      <4>2. QED  BY <3>1, <3>3, <4>1, UnknownIs DEF SoftStep
    <3>4. QED  BY <2>2, <3>2, <3>3
  <2>9. QED  BY <2>6, <2>7, <2>8
<1>7. CASE ~(e.strikes > c.strikes)
  <2>1. soft' = after /\ disk' = disk /\ e = c
    BY <1>2, <1>3, <1>5, <1>7
  <2>2. \A x \in SoftLines : Honest(soft[x])' /\ Honest(disk[x])'
    <3>1. \A x \in SoftLines : Honest(after[x]) /\ Honest(disk[x])
      BY <1>2, <1>4 DEF SoftInv, Kept
    <3>2. QED  BY <1>3, <2>1, <3>1 DEF Honest
  <2>3. SF!SentenceSurvives'
    BY <1>0, <1>1, <1>3, <1>4, <2>1 DEF SoftInv, SF!SentenceSurvives
  <2>4. \A x \in SoftLines : soft'[x].strikes > 0 => disk'[x].strikes = soft'[x].strikes
    BY <1>1, <1>4, <1>5, <2>1 DEF SoftInv, Kept
  <2>5. SoftInv'
    BY <1>0, <1>3, <1>4, <2>1, <2>2, <2>3, <2>4 DEF SoftInv, SF!TypeOK, Kept
  <2>6. SoftStep(l)
    <3>1. soft'[l] = c /\ sfNow \in Nat  BY <1>0, <1>4, <2>1
    <3>2. c.strikes = soft[l].strikes => SoftStep(l)
      BY <1>5, <3>1 DEF SoftStep
    <3>3. /\ c.strikes # soft[l].strikes => c.strikes = 0 /\ c.attempts > 0 /\ c.row = 0
          /\ c.strikes # soft[l].strikes => soft[l].until <= sfNow
      BY <1>1, <1>5, <3>1
    <3>4. c.strikes # soft[l].strikes => SoftStep(l)
      BY <1>1, <1>5, <3>1, <3>3 DEF SoftStep
    <3>5. QED  BY <3>2, <3>4
  <2>7. ASSUME NEW x \in SoftLines, x # l PROVE SoftStep(x)
    BY <1>4, <2>1, <2>7, SoftSame
  <2>8. QED  BY <2>5, <2>6, <2>7
<1>8. QED  BY <1>6, <1>7

LEMMA SoftRestart ==
    ASSUME SoftTerms, SoftInv, SF!Restart
    PROVE  SoftInv' /\ \A x \in SoftLines : SoftStep(x)
<1>0. /\ soft \in [SoftLines -> SF!Entry] /\ disk \in [SoftLines -> SF!Entry]
      /\ sfNow \in Nat \ {0} /\ MaxRestarts \in Nat /\ restarts \in 0 .. MaxRestarts
  BY DEF SoftInv, SF!TypeOK, SoftTerms
<1>1. /\ restarts' = restarts + 1 /\ restarts' \in 0 .. MaxRestarts /\ restarts' > restarts
      /\ soft' = SF!Pruned(disk) /\ UNCHANGED <<sfNow, disk, samples>>
  BY <1>0 DEF SF!Restart
<1>2. /\ soft' \in [SoftLines -> SF!Entry]
      /\ \A x \in SoftLines :
           \/ soft'[x] = disk[x]
           \/ /\ soft'[x] = SF!Unknown /\ disk[x].last < sfNow - TTL
              /\ ~(disk[x].until > sfNow)
  BY <1>0, <1>1, PrunedSoft
<1>3. \A x \in SoftLines : Honest(soft[x])' /\ Honest(disk[x])'
  <2>1. \A x \in SoftLines : Honest(soft'[x]) /\ Honest(disk[x])
    BY <1>2, UnknownHonest DEF SoftInv, Kept
  <2>2. QED  BY <1>1, <2>1 DEF Honest
<1>4. SF!SentenceSurvives'
  BY <1>0, <1>1, <1>2, UnknownIs DEF SF!SentenceSurvives
<1>5. SoftInv'
  BY <1>0, <1>1, <1>2, <1>3, <1>4, UnknownIs DEF SoftInv, SF!TypeOK, Kept
<1>6. ASSUME NEW x \in SoftLines PROVE SoftStep(x)
  <2>1. soft[x].strikes \in Nat /\ disk[x].strikes \in Nat  BY <1>0 DEF SF!Entry
  <2>2. CASE soft'[x] = disk[x]
    BY <2>1, <2>2 DEF SoftStep, SoftInv, Kept
  <2>3. CASE soft'[x] = SF!Unknown /\ disk[x].last < sfNow - TTL
    BY <1>1, <2>1, <2>3, UnknownIs DEF SoftStep
  <2>4. QED  BY <1>2, <2>2, <2>3
<1>7. QED  BY <1>5, <1>6

LEMMA SoftTick ==
    ASSUME SoftTerms, SoftInv, SF!Tick
    PROVE  SoftInv' /\ \A x \in SoftLines : SoftStep(x)
<1>1. /\ soft \in [SoftLines -> SF!Entry] /\ disk \in [SoftLines -> SF!Entry]
      /\ sfNow \in Nat \ {0} /\ SoftTime \in Nat /\ Cooldown \in Nat
      /\ sfNow' = sfNow + 1 /\ sfNow' \in 1 .. SoftTime
      /\ UNCHANGED <<soft, disk, samples, restarts>>
  BY DEF SoftInv, SF!TypeOK, SoftTerms, SF!Tick
<1>2. ASSUME NEW e \in SF!Entry, Honest(e)
      PROVE  /\ e.probation => e.until = 0
             /\ ~e.known => e.strikes = 0 /\ e.until = 0
             /\ e.strikes > 0 /\ e.until > 0 => e.until >= e.struck + SF!Duration(e.strikes)
             /\ e.strikes > 0 /\ e.until = 0 => sfNow' >= e.struck + SF!Duration(e.strikes)
  <2>1. e.until \in Nat /\ e.struck \in Nat /\ e.strikes \in Nat /\ SF!Duration(e.strikes) \in Nat
    BY DurationSoft DEF SF!Entry
  <2>2. QED  BY <1>1, <1>2, <2>1 DEF Honest
<1>3. \A x \in SoftLines : Honest(soft[x])' /\ Honest(disk[x])'
  BY <1>1, <1>2 DEF SoftInv, Kept, Honest
<1>4. \A x \in SoftLines : soft[x].until \in Nat  BY <1>1 DEF SF!Entry
<1>5. SF!SentenceSurvives'
  BY <1>1, <1>4 DEF SoftInv, SF!SentenceSurvives
<1>6. SoftInv'
  BY <1>1, <1>3, <1>5 DEF SoftInv, SF!TypeOK, Kept
<1>7. QED  BY <1>1, <1>6, SoftSame

LEMMA SoftNext ==
    ASSUME SoftTerms, SoftInv, [SF!Next]_SF!vars
    PROVE  SoftInv' /\ \A x \in SoftLines : SoftStep(x)
<1>1. CASE UNCHANGED SF!vars
  <2>1. UNCHANGED <<sfNow, soft, disk, samples, restarts>>  BY <1>1 DEF SF!vars
  <2>2. SoftInv'
    BY <2>1 DEF SoftInv, SF!TypeOK, SF!SentenceSurvives, Kept, Honest
  <2>3. QED  BY <2>1, <2>2, SoftSame
<1>2. QED  BY <1>1, SoftRecord, SoftRestart, SoftTick DEF SF!Next

LEMMA SoftRuns ==
    /\ RunInit => SF!Init
    /\ [RunNext]_allVars => [SF!Next]_SF!vars
<1> USE DEF allVars, sfVars, SF!vars
<1>1. Account(Next) \/ Claim(CL!Next) \/ LogIn(LG!Next) => UNCHANGED SF!vars
  BY DEF Account, Claim, LogIn
<1>2. UNCHANGED allVars => UNCHANGED SF!vars
  OBVIOUS
<1>3. QED  BY <1>1, <1>2 DEF RunInit, RunNext, SoftFailure

LEMMA SpecSoftInv == ASSUME SoftTerms PROVE RunSpec => []SoftInv
<1>1. RunInit => SoftInv
  BY InitSoft, SoftRuns
<1>2. SoftInv /\ [RunNext]_allVars => SoftInv'
  BY SoftNext, SoftRuns
<1>3. QED  BY <1>1, <1>2, PTL DEF RunSpec

\* A restart releases no line early, only a success after the term (or a day without
\* traffic) clears a record, and an outage costs one strike per cooldown while the line is
\* quarantined and the next only after its term, for any lines, windows, terms and
\* thresholds (internal/store/proxy_soft_failure.go).
THEOREM StandingSoftJustice == ASSUME SoftTerms PROVE RunSpec => SoftJustice
<1>1. SoftInv => SF!TypeOK /\ SF!SentenceSurvives
  BY DEF SoftInv
<1>2. SoftInv /\ [RunNext]_allVars =>
        [\A l \in SoftLines : soft[l].strikes > 0 /\ soft'[l].strikes = 0 =>
           \/ soft[l].until <= sfNow /\ soft'[l].attempts > 0 /\ soft'[l].row = 0 /\ soft'[l].last = sfNow
           \/ soft[l].last < sfNow - TTL
           \/ restarts' > restarts /\ disk[l].last < sfNow - TTL]_SF!vars
  BY SoftNext, SoftRuns DEF SoftStep
<1>3. SoftInv /\ [RunNext]_allVars =>
        [\A l \in SoftLines : soft[l].strikes > 0 /\ soft'[l].strikes > soft[l].strikes =>
           /\ soft'[l].strikes = soft[l].strikes + 1
           /\ sfNow - soft[l].struck >= IF SF!Jailed(soft[l]) THEN Cooldown
                                        ELSE SF!Duration(soft[l].strikes)]_SF!vars
  BY SoftNext, SoftRuns DEF SoftStep
<1>4. QED
  BY SpecSoftInv, <1>1, <1>2, <1>3, PTL
     DEF RunSpec, SoftJustice, SF!OnlySuccessClears, SF!OneStrikePerCooldown

(***************************************************************************)
(* The daily claims.                                                       *)
(***************************************************************************)

\* There is an account, and the times are numbers.
ClaimTerms ==
    /\ ClaimAccounts # {}
    /\ {Period, Long, Short, Plans} \subseteq Nat

Outcomes == [next : Int, long : BOOLEAN]
Jobs ==
    [pc : {"idle", "trying", "waiting", "preview", "claim", "record", "check", "asked",
           "hand", "late"},
     acc : ClaimAccounts, new : BOOLEAN, cred : Int, left : Int, second : BOOLEAN,
     out : Outcomes]
Lives == [next : Int, cred : Int, health : {"ok", "cooling", "off"}]

\* What an automatic pass wrote down stands in the account, until another login or an
\* administrator's claim replaces it.
ClaimInv ==
    /\ clNow \in Nat
    /\ live \in [ClaimAccounts -> Lives]
    /\ job \in [CL!Workers -> Jobs]
    /\ pledge \in [ClaimAccounts -> Int]
    /\ \A a \in ClaimAccounts : pledge[a] \in {0, live[a].next}

\* What a step does to the goroutines and to the accounts.
ClaimStep ==
    /\ \A w \in CL!Automatic : job[w].pc = "waiting" /\ job'[w].pc = "preview" =>
         clNow >= pledge[job[w].acc]
    /\ \A a \in ClaimAccounts : live'[a].next # live[a].next =>
         \E w \in CL!Workers :
           job[w].acc = a /\ job[w].pc \in {"record", "late"} /\ job[w].cred = live[a].cred

LEMMA IdleIs ==
    ASSUME NEW a \in ClaimAccounts
    PROVE  CL!Idle(a) \in Jobs /\ CL!Idle(a).pc = "idle"
<1>1. CL!Nothing \in Outcomes  BY DEF CL!Nothing, Outcomes
<1>2. QED  BY <1>1 DEF CL!Idle, Jobs

LEMMA SomebodyIs == ASSUME ClaimTerms PROVE CL!Somebody \in ClaimAccounts
  BY DEF ClaimTerms, CL!Somebody

LEMMA AnswerIs ==
    ASSUME ClaimTerms, clNow \in Nat, NEW answer \in CL!Answers
    PROVE  answer.next \in Int /\ answer.long \in BOOLEAN
<1> DEFINE end == {0, clNow + Period}
<1>1. \/ \E n \in end : answer = [ok |-> TRUE, next |-> n, long |-> FALSE, stop |-> FALSE]
      \/ \E n \in end : answer = [ok |-> FALSE, next |-> n, long |-> TRUE, stop |-> FALSE]
      \/ \E n \in end : answer = [ok |-> FALSE, next |-> n, long |-> FALSE, stop |-> TRUE]
      \/ answer = [ok |-> FALSE, next |-> 0, long |-> FALSE, stop |-> FALSE]
  BY DEF CL!Answers
<1>2. end \subseteq Int  BY DEF ClaimTerms
<1> HIDE DEF end
<1>3. ASSUME NEW n \in end, NEW ok, NEW long \in BOOLEAN, NEW stop,
             answer = [ok |-> ok, next |-> n, long |-> long, stop |-> stop]
      PROVE  answer.next \in Int /\ answer.long \in BOOLEAN
  BY <1>2, <1>3
<1>4. CASE answer = [ok |-> FALSE, next |-> 0, long |-> FALSE, stop |-> FALSE]
  BY <1>4
<1>5. QED  BY <1>1, <1>3, <1>4

LEMMA NotedIs ==
    ASSUME ClaimTerms, clNow \in Nat, NEW answer \in CL!Answers, NEW out \in Outcomes
    PROVE  CL!Noted(out, answer) \in Outcomes
<1>1. (IF out.next = 0 THEN answer.next ELSE out.next) \in Int
  BY AnswerIs DEF Outcomes
<1>2. (out.long \/ answer.long) \in BOOLEAN
  OBVIOUS
<1>3. QED  BY <1>1, <1>2 DEF CL!Noted, Outcomes

\* One goroutine moves, and not to the upstream; the accounts stay.
LEMMA Worked ==
    ASSUME ClaimInv, NEW w \in CL!Workers, NEW c \in Jobs, c.pc # "preview",
           job' = [job EXCEPT ![w] = c], UNCHANGED <<live, pledge>>, clNow' \in Nat
    PROVE  ClaimInv' /\ ClaimStep
<1>1. job' \in [CL!Workers -> Jobs]  BY DEF ClaimInv
<1>2. \A v \in CL!Workers : v # w => job'[v] = job[v]  BY DEF ClaimInv
<1>3. job'[w] = c  BY DEF ClaimInv
<1>4. CL!Automatic \subseteq CL!Workers  BY DEF CL!Automatic, CL!Workers
<1>5. ClaimInv'  BY <1>1 DEF ClaimInv
<1>6. ClaimStep  BY <1>2, <1>3, <1>4 DEF ClaimStep
<1>7. QED  BY <1>5, <1>6

LEMMA EndsIs ==
    ASSUME ClaimTerms, ClaimInv, NEW w \in CL!Workers, CL!Ends(w),
           UNCHANGED <<live, pledge, clNow>>
    PROVE  ClaimInv' /\ ClaimStep
<1> DEFINE c == CL!Idle(CL!Somebody)
<1>1. c \in Jobs /\ c.pc = "idle"  BY IdleIs, SomebodyIs
<1>2. job' = [job EXCEPT ![w] = c]  BY DEF CL!Ends
<1> HIDE DEF c
<1>3. clNow' \in Nat  BY DEF ClaimInv
<1>4. QED  BY <1>1, <1>2, <1>3, Worked

LEMMA MovesIs ==
    ASSUME ClaimTerms, ClaimInv, NEW w \in CL!Workers,
           NEW pc \in {"trying", "waiting", "claim", "record", "check", "hand", "late"},
           job' = [job EXCEPT ![w].pc = pc],
           UNCHANGED <<live, pledge, clNow>>
    PROVE  ClaimInv' /\ ClaimStep
<1> DEFINE c == [job[w] EXCEPT !.pc = pc]
<1>1. job[w] \in Jobs /\ clNow' \in Nat  BY DEF ClaimInv
<1>2. c \in Jobs /\ c.pc = pc  BY <1>1 DEF Jobs
<1>3. job' = [job EXCEPT ![w] = c]  BY DEF ClaimInv
<1> HIDE DEF c
<1>4. QED  BY <1>1, <1>2, <1>3, Worked

LEMMA EnterClaim ==
    ASSUME ClaimTerms, ClaimInv, NEW w \in CL!Workers, CL!Enter(w)
    PROVE  ClaimInv' /\ ClaimStep
<1> DEFINE a == job[w].acc
           acc0 == live[a]
<1>0. job[w] \in Jobs /\ a \in ClaimAccounts /\ acc0 \in Lives /\ clNow \in Nat /\ pledge[a] \in Int
  BY DEF ClaimInv, Jobs
<1>1. UNCHANGED <<live, pledge, clNow>>  BY DEF CL!Enter
<1>2. CASE CL!Ends(w)
  BY <1>1, <1>2, EndsIs
<1>3. CASE ~CL!Skipped(w, acc0) /\ job' = [job EXCEPT ![w].pc = "preview", ![w].cred = acc0.cred]
  <2> DEFINE cred == acc0.cred
             c == [job[w] EXCEPT !.pc = "preview", !.cred = cred]
  <2>1. cred \in Int  BY <1>0 DEF Lives
  <2>2. job' = [job EXCEPT ![w] = c]  BY <1>3 DEF ClaimInv
  <2> HIDE DEF cred
  <2>3. c \in Jobs  BY <1>0, <2>1 DEF Jobs
  <2> HIDE DEF c
  <2>4. job' \in [CL!Workers -> Jobs] /\ \A v \in CL!Workers : v # w => job'[v] = job[v]
    BY <2>2, <2>3 DEF ClaimInv
  <2>5. clNow >= pledge[a]
    <3>1. clNow >= acc0.next  BY <1>0, <1>3 DEF CL!Skipped, CL!Cooling, Lives
    <3>2. pledge[a] = 0 \/ pledge[a] = acc0.next  BY <1>0 DEF ClaimInv
    <3>3. QED  BY <1>0, <3>1, <3>2
  <2>6. ClaimInv'  BY <1>1, <2>4 DEF ClaimInv
  <2>7. CL!Automatic \subseteq CL!Workers  BY DEF CL!Automatic, CL!Workers
  <2>8. ClaimStep  BY <1>1, <2>4, <2>5, <2>7 DEF ClaimStep
  <2>9. QED  BY <2>6, <2>8
<1>4. QED  BY <1>2, <1>3 DEF CL!Enter

\* What a claim brought is written, to the login it was made with.
LEMMA WrittenIs ==
    ASSUME ClaimTerms, ClaimInv, NEW w \in CL!Workers, CL!Written(w),
           job[w].pc \in {"record", "late"}
    PROVE  /\ live' \in [ClaimAccounts -> Lives]
           /\ \A a \in ClaimAccounts : a # job[w].acc => live'[a] = live[a]
           /\ \A a \in ClaimAccounts : live'[a].next # live[a].next =>
                job[w].acc = a /\ job[w].cred = live[a].cred
<1> DEFINE a == job[w].acc
           end == CL!Until(job[w].out)
           b == [live[a] EXCEPT !.next = end]
<1>0. job[w] \in Jobs /\ a \in ClaimAccounts /\ live[a] \in Lives /\ clNow \in Nat
      /\ live \in [ClaimAccounts -> Lives]
  BY DEF ClaimInv, Jobs
<1>1. end \in Int  BY <1>0 DEF CL!Until, Jobs, Outcomes, ClaimTerms
<1>2. CASE CL!Accepts(a, job[w].cred)
  <2>1. live' = [live EXCEPT ![a] = b]  BY <1>0, <1>2 DEF CL!Written
  <2>2. job[w].cred = live[a].cred  BY <1>2 DEF CL!Accepts
  <2> HIDE DEF end
  <2>3. b \in Lives  BY <1>0, <1>1 DEF Lives
  <2> HIDE DEF b
  <2>4. QED  BY <1>0, <2>1, <2>2, <2>3
<1>3. CASE ~CL!Accepts(a, job[w].cred)
  BY <1>0, <1>3 DEF CL!Written
<1>4. QED  BY <1>2, <1>3

LEMMA RecordClaim ==
    ASSUME ClaimTerms, ClaimInv, NEW w \in CL!Workers, CL!Record(w) \/ CL!Late(w)
    PROVE  ClaimInv' /\ ClaimStep
<1> DEFINE a == job[w].acc
<1>0. /\ job[w] \in Jobs /\ a \in ClaimAccounts /\ clNow \in Nat /\ live \in [ClaimAccounts -> Lives]
      /\ pledge \in [ClaimAccounts -> Int] /\ clNow' = clNow /\ job[w].pc \in {"record", "late"}
      /\ \A x \in ClaimAccounts : pledge[x] \in {0, live[x].next}
  BY DEF ClaimInv, Jobs, CL!Record, CL!Late
<1>1. \E c \in Jobs : c.pc \in {"idle", "check"} /\ job' = [job EXCEPT ![w] = c]
  <2>1. CASE CL!Ends(w)
    <3>1. job' = [job EXCEPT ![w] = CL!Idle(CL!Somebody)]  BY <2>1 DEF CL!Ends
    <3>2. QED  BY <3>1, IdleIs, SomebodyIs
  <2>2. CASE job' = [job EXCEPT ![w].pc = "check"]
    <3> DEFINE c == [job[w] EXCEPT !.pc = "check"]
    <3>1. c \in Jobs /\ c.pc = "check"  BY <1>0 DEF Jobs
    <3>2. job' = [job EXCEPT ![w] = c]  BY <2>2 DEF ClaimInv
    <3> HIDE DEF c
    <3>3. QED  BY <3>1, <3>2
  <2>3. QED  BY <2>1, <2>2 DEF CL!Record, CL!Late
<1>2. /\ job' \in [CL!Workers -> Jobs] /\ job'[w].pc # "preview"
      /\ \A v \in CL!Workers : v # w => job'[v] = job[v]
  BY <1>1 DEF ClaimInv
<1>3. /\ live' \in [ClaimAccounts -> Lives]
      /\ \A x \in ClaimAccounts : x # a => live'[x] = live[x]
      /\ \A x \in ClaimAccounts : live'[x].next # live[x].next => a = x /\ job[w].cred = live[x].cred
  <2>1. live' = live \/ CL!Written(w)  BY DEF CL!Record, CL!Late
  <2>2. QED  BY <1>0, <2>1, WrittenIs
<1>4. \/ pledge' = [pledge EXCEPT ![a] = live'[a].next]
      \/ pledge' = pledge /\ live' = live
      \/ pledge' = [pledge EXCEPT ![a] = 0]
  BY DEF CL!Record, CL!Late
<1> HIDE DEF a
<1>5. live'[a].next \in Int  BY <1>0, <1>3 DEF Lives
<1>6. /\ pledge' \in [ClaimAccounts -> Int]
      /\ \A x \in ClaimAccounts : pledge'[x] \in {0, live'[x].next}
  BY <1>0, <1>3, <1>4, <1>5
<1>7. ClaimInv'  BY <1>0, <1>2, <1>3, <1>6 DEF ClaimInv
<1>8. CL!Automatic \subseteq CL!Workers  BY DEF CL!Automatic, CL!Workers
<1>9. ClaimStep
  BY <1>0, <1>2, <1>3, <1>8 DEF ClaimStep, a
<1>10. QED  BY <1>7, <1>9

LEMMA AskClaim ==
    ASSUME ClaimTerms, ClaimInv,
           \/ \E w \in Tasks, a \in ClaimAccounts, new \in BOOLEAN : CL!Schedule(w, a, new)
           \/ \E h \in Hands, a \in ClaimAccounts : CL!Ask(h, a)
           \/ \E a \in ClaimAccounts : CL!Pick(a)
    PROVE  ClaimInv' /\ ClaimStep
<1>0. UNCHANGED <<live, pledge, clNow>> /\ clNow' \in Nat
  BY DEF CL!Schedule, CL!Ask, CL!Pick, ClaimInv, CL!batch
<1>1. \/ job' = job
      \/ \E w \in CL!Workers, c \in Jobs : c.pc # "preview" /\ job' = [job EXCEPT ![w] = c]
  <2>1. ASSUME NEW w \in Tasks, NEW a \in ClaimAccounts, NEW new \in BOOLEAN, CL!Schedule(w, a, new)
        PROVE  \E v \in CL!Workers, c \in Jobs : c.pc # "preview" /\ job' = [job EXCEPT ![v] = c]
    <3> DEFINE i == CL!Idle(a)
               c == [i EXCEPT !.pc = "trying", !.new = new]
    <3>1. job' = [job EXCEPT ![w] = c]  BY <2>1 DEF CL!Schedule
    <3>2. i \in Jobs  BY IdleIs
    <3> HIDE DEF i
    <3>3. c \in Jobs /\ c.pc = "trying"  BY <3>2 DEF Jobs
    <3> HIDE DEF c
    <3>4. w \in CL!Workers  BY DEF CL!Workers
    <3>5. QED  BY <3>1, <3>3, <3>4
  <2>2. ASSUME NEW h \in Hands, NEW a \in ClaimAccounts, CL!Ask(h, a)
        PROVE  \E v \in CL!Workers, c \in Jobs : c.pc # "preview" /\ job' = [job EXCEPT ![v] = c]
    <3> DEFINE i == CL!Idle(a)
               cred == live[a].cred
               c == [i EXCEPT !.pc = "asked", !.cred = cred]
    <3>1. job' = [job EXCEPT ![h] = c]  BY <2>2 DEF CL!Ask
    <3>2. i \in Jobs /\ cred \in Int  BY IdleIs DEF ClaimInv, Lives
    <3> HIDE DEF i, cred
    <3>3. c \in Jobs /\ c.pc = "asked"  BY <3>2 DEF Jobs
    <3> HIDE DEF c
    <3>4. h \in CL!Workers  BY DEF CL!Workers
    <3>5. QED  BY <3>1, <3>3, <3>4
  <2>3. ASSUME NEW a \in ClaimAccounts, CL!Pick(a)
        PROVE  \/ job' = job
               \/ \E v \in CL!Workers, c \in Jobs : c.pc # "preview" /\ job' = [job EXCEPT ![v] = c]
    <3> DEFINE i == CL!Idle(a)
               c == [i EXCEPT !.pc = "trying"]
    <3>1. job' = job \/ job' = [job EXCEPT ![CL!Batch] = c]  BY <2>3 DEF CL!Pick
    <3>2. i \in Jobs  BY IdleIs
    <3> HIDE DEF i
    <3>3. c \in Jobs /\ c.pc = "trying"  BY <3>2 DEF Jobs
    <3> HIDE DEF c
    <3>4. CL!Batch \in CL!Workers  BY DEF CL!Workers
    <3>5. QED  BY <3>1, <3>3, <3>4
  <2>4. QED  BY <2>1, <2>2, <2>3
<1>2. CASE job' = job
  <2>1. CL!Automatic \subseteq CL!Workers  BY DEF CL!Automatic, CL!Workers
  <2>2. QED  BY <1>0, <1>2, <2>1 DEF ClaimInv, ClaimStep
<1>3. CASE \E w \in CL!Workers, c \in Jobs : c.pc # "preview" /\ job' = [job EXCEPT ![w] = c]
  BY <1>0, <1>3, Worked
<1>4. QED  BY <1>1, <1>2, <1>3

\* The requests to the upstream.
LEMMA UpstreamClaim ==
    ASSUME ClaimTerms, ClaimInv, NEW w \in CL!Workers,
           CL!Preview(w) \/ CL!Claim(w) \/ CL!Answered(w) \/ CL!Rejected(w)
    PROVE  ClaimInv' /\ ClaimStep
<1>0. /\ UNCHANGED <<live, pledge, clNow>> /\ clNow \in Nat /\ clNow' \in Nat
      /\ job[w] \in Jobs /\ job[w].out \in Outcomes /\ job[w].left \in Int
  BY DEF CL!Preview, CL!Claim, CL!Answered, CL!Rejected, ClaimInv, Jobs
<1>1. ASSUME NEW pc \in {"claim", "record", "late", "hand"}, NEW out \in Outcomes, NEW n \in Int,
             NEW second \in BOOLEAN,
             job' = [job EXCEPT ![w] = [job[w] EXCEPT !.pc = pc, !.out = out, !.left = n, !.second = second]]
      PROVE  ClaimInv' /\ ClaimStep
  <2> DEFINE c == [job[w] EXCEPT !.pc = pc, !.out = out, !.left = n, !.second = second]
  <2>1. c \in Jobs /\ c.pc = pc  BY <1>0 DEF Jobs
  <2>2. job' = [job EXCEPT ![w] = c]  BY <1>1
  <2> HIDE DEF c
  <2>3. QED  BY <1>0, <2>1, <2>2, Worked
<1>2. CASE CL!Preview(w)
  <2>1. CASE \E n \in 0 .. Plans :
               job' = [job EXCEPT ![w].pc = IF n = 0 THEN "record" ELSE "claim", ![w].left = n]
    <3>1. PICK n \in 0 .. Plans :
            job' = [job EXCEPT ![w].pc = IF n = 0 THEN "record" ELSE "claim", ![w].left = n]
      BY <2>1
    <3> DEFINE pc == IF n = 0 THEN "record" ELSE "claim"
               c == [job[w] EXCEPT !.pc = pc, !.left = n]
    <3>2. pc \in {"record", "claim"} /\ n \in Int  BY DEF ClaimTerms
    <3>3. job' = [job EXCEPT ![w] = c]  BY <3>1 DEF ClaimInv
    <3> HIDE DEF pc
    <3>4. c \in Jobs /\ c.pc = pc  BY <1>0, <3>2 DEF Jobs
    <3> HIDE DEF c
    <3>5. QED  BY <1>0, <3>2, <3>3, <3>4, Worked
  <2>2. CASE \E answer \in CL!Answers :
               job' = [job EXCEPT ![w].pc = "record", ![w].out = CL!Noted(@, answer)]
    <3>1. PICK answer \in CL!Answers :
            job' = [job EXCEPT ![w].pc = "record", ![w].out = CL!Noted(@, answer)]
      BY <2>2
    <3> DEFINE out == CL!Noted(job[w].out, answer)
               c == [job[w] EXCEPT !.pc = "record", !.out = out]
    <3>2. out \in Outcomes  BY <1>0, NotedIs
    <3>3. job' = [job EXCEPT ![w] = c]  BY <3>1 DEF ClaimInv
    <3> HIDE DEF out
    <3>4. c \in Jobs /\ c.pc = "record"  BY <1>0, <3>2 DEF Jobs
    <3> HIDE DEF c
    <3>5. QED  BY <1>0, <3>3, <3>4, Worked
  <2>3. QED  BY <1>2, <2>1, <2>2 DEF CL!Preview
<1>3. CASE CL!Claim(w)
  <2>1. PICK answer \in CL!Answers :
          job' = [job EXCEPT ![w].out = CL!Noted(@, answer), ![w].left = @ - 1, ![w].second = FALSE,
                   ![w].pc = IF answer.stop \/ job[w].left = 1 THEN "record" ELSE "claim"]
    BY <1>3 DEF CL!Claim
  <2> DEFINE out == CL!Noted(job[w].out, answer)
             n == job[w].left - 1
             pc == IF answer.stop \/ job[w].left = 1 THEN "record" ELSE "claim"
  <2>2. out \in Outcomes  BY <1>0, NotedIs
  <2>3. n \in Int  BY <1>0
  <2>4. pc \in {"claim", "record"}  OBVIOUS
  <2>5. job' = [job EXCEPT ![w] =
          [job[w] EXCEPT !.pc = pc, !.out = out, !.left = n, !.second = FALSE]]
    BY <1>0, <2>1 DEF ClaimInv, Jobs
  <2> HIDE DEF out, n, pc
  <2>6. QED  BY <1>1, <2>2, <2>3, <2>4, <2>5
<1>4. CASE CL!Answered(w)
  <2>1. PICK answer \in CL!Answers :
          job' = [job EXCEPT ![w].pc = "late", ![w].out = CL!Noted(@, answer)]
    BY <1>4 DEF CL!Answered
  <2> DEFINE out == CL!Noted(job[w].out, answer)
             c == [job[w] EXCEPT !.pc = "late", !.out = out]
  <2>2. out \in Outcomes  BY <1>0, NotedIs
  <2>3. job' = [job EXCEPT ![w] = c]  BY <2>1 DEF ClaimInv
  <2> HIDE DEF out
  <2>4. c \in Jobs /\ c.pc = "late"  BY <1>0, <2>2 DEF Jobs
  <2> HIDE DEF c
  <2>5. QED  BY <1>0, <2>3, <2>4, Worked
<1>5. CASE CL!Rejected(w)
  <2> DEFINE c == [job[w] EXCEPT !.second = TRUE]
  <2>1. job' = [job EXCEPT ![w] = c] /\ job[w].pc \in {"claim", "hand"}
    BY <1>5 DEF CL!Rejected, ClaimInv
  <2>2. c \in Jobs /\ c.pc = job[w].pc  BY <1>0 DEF Jobs
  <2> HIDE DEF c
  <2>3. QED  BY <1>0, <2>1, <2>2, Worked
<1>6. QED  BY <1>2, <1>3, <1>4, <1>5

\* The rest: the slot, the surroundings, a restart.
LEMMA AroundClaim ==
    ASSUME ClaimTerms, ClaimInv,
           \/ \E w \in CL!Workers : CL!Try(w) \/ CL!Check(w) \/ CL!Grab(w) \/ CL!GivesUp(w)
           \/ CL!Fire \/ CL!Tick \/ CL!Edit \/ CL!Close \/ CL!Restart \/ UNCHANGED CL!vars
    PROVE  ClaimInv' /\ ClaimStep
<1>0. CL!Automatic \subseteq CL!Workers  BY DEF CL!Automatic, CL!Workers
<1>1. ASSUME NEW w \in CL!Workers, CL!Try(w) \/ CL!Check(w) \/ CL!Grab(w) \/ CL!GivesUp(w)
      PROVE  ClaimInv' /\ ClaimStep
  <2>1. UNCHANGED <<live, pledge, clNow>>
    BY <1>1 DEF CL!Try, CL!Check, CL!Grab, CL!GivesUp
  <2>2. \/ CL!Ends(w)
        \/ \E pc \in {"waiting", "hand"} : job' = [job EXCEPT ![w].pc = pc]
    BY <1>1 DEF CL!Try, CL!Check, CL!Grab, CL!GivesUp
  <2>3. QED  BY <2>1, <2>2, EndsIs, MovesIs
<1>2. CASE CL!Fire \/ CL!Close \/ CL!Tick \/ UNCHANGED CL!vars
  <2>1. UNCHANGED <<live, pledge, job>> /\ clNow' \in Nat
    BY <1>2 DEF CL!Fire, CL!Close, CL!Tick, CL!vars, ClaimInv
  <2>2. QED  BY <1>0, <2>1 DEF ClaimInv, ClaimStep
<1>3. CASE CL!Restart
  <2>1. UNCHANGED <<live, pledge, clNow>> /\ job' = [w \in CL!Workers |-> CL!Idle(CL!Somebody)]
    BY <1>3 DEF CL!Restart
  <2>2. \A w \in CL!Workers : job'[w] \in Jobs /\ job'[w].pc = "idle"
    BY <2>1, IdleIs, SomebodyIs
  <2>3. job' \in [CL!Workers -> Jobs]  BY <2>1, <2>2
  <2>4. QED  BY <1>0, <2>1, <2>2, <2>3 DEF ClaimInv, ClaimStep
<1>4. CASE CL!Edit
  <2>1. UNCHANGED <<clNow, job>> /\ clNow \in Nat /\ live \in [ClaimAccounts -> Lives]
        /\ pledge \in [ClaimAccounts -> Int]
    BY <1>4 DEF CL!Edit, CL!batch, ClaimInv
  <2>2. CASE UNCHANGED <<live, pledge>>
    BY <1>0, <2>1, <2>2 DEF ClaimInv, ClaimStep
  <2>3. ASSUME NEW a \in ClaimAccounts, NEW b \in Lives, b.next = live[a].next,
               live' = [live EXCEPT ![a] = b],
               pledge' = pledge \/ pledge' = [pledge EXCEPT ![a] = 0]
        PROVE  ClaimInv' /\ ClaimStep
    <3>1. live' \in [ClaimAccounts -> Lives] /\ \A x \in ClaimAccounts : live'[x].next = live[x].next
      BY <2>1, <2>3
    <3>2. pledge' \in [ClaimAccounts -> Int] /\ \A x \in ClaimAccounts : pledge'[x] \in {pledge[x], 0}
      BY <2>1, <2>3
    <3>3. ClaimInv'  BY <2>1, <3>1, <3>2 DEF ClaimInv
    <3>4. ClaimStep  BY <1>0, <2>1, <3>1 DEF ClaimStep
    <3>5. QED  BY <3>3, <3>4
  <2>4. ASSUME NEW a \in ClaimAccounts, live' = [live EXCEPT ![a].cred = @ + 1],
               pledge' = [pledge EXCEPT ![a] = 0]
        PROVE  ClaimInv' /\ ClaimStep
    <3> DEFINE n == live[a].cred + 1
               b == [live[a] EXCEPT !.cred = n]
    <3>1. live[a] \in Lives /\ n \in Int  BY <2>1 DEF Lives
    <3>2. live' = [live EXCEPT ![a] = b]  BY <2>1, <2>4
    <3> HIDE DEF n
    <3>3. b \in Lives /\ b.next = live[a].next  BY <3>1 DEF Lives
    <3> HIDE DEF b
    <3>4. QED  BY <2>3, <2>4, <3>2, <3>3
  <2>5. ASSUME NEW a \in ClaimAccounts, NEW h \in {"ok", "cooling", "off"},
               live' = [live EXCEPT ![a].health = h], pledge' = pledge
        PROVE  ClaimInv' /\ ClaimStep
    <3> DEFINE b == [live[a] EXCEPT !.health = h]
    <3>1. live[a] \in Lives  BY <2>1
    <3>2. live' = [live EXCEPT ![a] = b]  BY <2>1, <2>5
    <3>3. b \in Lives /\ b.next = live[a].next  BY <3>1 DEF Lives
    <3> HIDE DEF b
    <3>4. QED  BY <2>3, <2>5, <3>2, <3>3
  <2>6. QED  BY <1>4, <2>2, <2>4, <2>5 DEF CL!Edit
<1>5. QED  BY <1>1, <1>2, <1>3, <1>4

LEMMA ClaimNext ==
    ASSUME ClaimTerms, ClaimInv, [CL!Next]_CL!vars
    PROVE  ClaimInv' /\ ClaimStep
<1>1. ASSUME NEW w \in CL!Workers, CL!Step(w) \/ CL!Rejected(w) \/ CL!GivesUp(w)
      PROVE  ClaimInv' /\ ClaimStep
  BY <1>1, EnterClaim, RecordClaim, UpstreamClaim, AroundClaim DEF CL!Step
<1>2. QED  BY <1>1, AskClaim, AroundClaim DEF CL!Next

LEMMA ClaimRuns ==
    /\ RunInit => CL!Init
    /\ [RunNext]_allVars => [CL!Next]_CL!vars
<1> USE DEF allVars, clVars, CL!vars
<1>1. Account(Next) \/ SoftFailure(SF!Next) \/ LogIn(LG!Next) => UNCHANGED CL!vars
  BY DEF Account, SoftFailure, LogIn
<1>2. UNCHANGED allVars => UNCHANGED CL!vars
  OBVIOUS
<1>3. QED  BY <1>1, <1>2 DEF RunInit, RunNext, Claim

LEMMA ClaimInit == ASSUME ClaimTerms, CL!Init PROVE ClaimInv
<1>1. live = [a \in ClaimAccounts |-> [next |-> 0, cred |-> 1, health |-> "ok"]]
      /\ pledge = [a \in ClaimAccounts |-> 0] /\ clNow = 1
      /\ job = [w \in CL!Workers |-> CL!Idle(CL!Somebody)]
  BY DEF CL!Init
<1>2. [next |-> 0, cred |-> 1, health |-> "ok"] \in Lives  BY DEF Lives
<1>3. live \in [ClaimAccounts -> Lives]  BY <1>1, <1>2
<1>4. job \in [CL!Workers -> Jobs]  BY <1>1, IdleIs, SomebodyIs
<1>5. QED  BY <1>1, <1>3, <1>4 DEF ClaimInv

LEMMA SpecClaimInv == ASSUME ClaimTerms PROVE RunSpec => []ClaimInv
<1>1. RunInit => ClaimInv
  BY ClaimInit, ClaimRuns
<1>2. ClaimInv /\ [RunNext]_allVars => ClaimInv'
  BY ClaimNext, ClaimRuns
<1>3. QED  BY <1>1, <1>2, PTL DEF RunSpec

\* No automatic pass starts before the time the latest one over the same login wrote down,
\* and a cooldown is written only with the credentials it was asked with: for any accounts,
\* goroutines and periods (internal/adminapi/claim.go, internal/claim/claim.go).
THEOREM StandingClaimsKeepTime == ASSUME ClaimTerms PROVE RunSpec => ClaimsKeepTime
<1>1. ClaimInv /\ [RunNext]_allVars =>
        [\A w \in CL!Automatic : job[w].pc = "waiting" /\ job'[w].pc = "preview" =>
           clNow >= pledge[job[w].acc]]_CL!vars
  BY ClaimNext, ClaimRuns DEF ClaimStep
<1>2. ClaimInv /\ [RunNext]_allVars =>
        [\A a \in ClaimAccounts : live'[a].next # live[a].next =>
           \E w \in CL!Workers :
             job[w].acc = a /\ job[w].pc \in {"record", "late"} /\ job[w].cred = live[a].cred]_CL!vars
  BY ClaimNext, ClaimRuns DEF ClaimStep
<1>3. QED
  BY SpecClaimInv, <1>1, <1>2, PTL
     DEF RunSpec, ClaimsKeepTime, CL!RespectsCadence, CL!OutcomeOfThisLogin

(***************************************************************************)
(* The session of a login.                                                 *)
(***************************************************************************)

Sessions ==
    [kind : LG!Kinds, chosen : LoginAddrs \cup {None}, line : LoginLines \cup {None},
     url : LoginAddrs \cup {None}, retry : BOOLEAN, failed : SUBSET LoginAddrs,
     digest : Codes \cup {None}, held : Codes \cup {None}, account : Nat, created : Nat]
\* None is no line, no address and no session.
LoginNames == None \notin LoginLines \cup LoginAddrs \cup Sessions

Profiles == [url : LoginAddrs \cup {None}, on : BOOLEAN, gen : Nat]
Owners == [id : Nat, cred : Codes \cup {None}, gen : Nat, key : Codes \cup {None}]
Stages == {"idle", "found", "exchange", "send", "wait", "save", "bind", "key", "ask"}
Calls == [at : Stages, code : Codes \cup {None}, gen : Nat, again : BOOLEAN,
          fresh : BOOLEAN, seen : Nat]

\* A line that is switched on has an address.
LoginTyped ==
    /\ session \in Sessions \cup {None}
    /\ lines \in [LoginLines -> Profiles]
    /\ \A l \in LoginLines : lines[l].on => lines[l].url # None
    /\ suspect \subseteq LoginAddrs /\ spent \subseteq Codes
    /\ acct \in Owners /\ acct.id <= acct.gen
    /\ call \in [Reqs -> Calls]
    /\ made \subseteq 1 .. acct.gen /\ greeted \subseteq made

\* The exit of a session: what was chosen, or what took its place when it had failed.
Exit(s) ==
    /\ s.kind \in {"direct", "none", "raw"} => s.line = None /\ ~s.retry /\ s.url = s.chosen
    /\ s.kind = "line" => (s.line # None /\ s.url = s.chosen) \/ s.chosen \in s.failed
    /\ s.line # None => s.url # None /\ s.url \notin s.failed

Working(c) == c.at \notin {"idle", "found"}
Redeeming(c) == c.at \in {"exchange", "send", "wait"}
Storing(c) == c.at \in {"bind", "key", "ask"}

\* The account a handler works on holds what the handler brought, unless somebody
\* replaced it.
Carries(c) ==
    /\ c.seen # 0 /\ (c.seen \in made <=> c.fresh)
    /\ c.at \in {"bind", "key"} /\ acct.id = c.seen => acct.cred = session.held \/ crossed
    /\ c.at = "ask" =>
         /\ c.gen <= acct.gen
         /\ acct.id = c.seen /\ acct.gen = c.gen => acct.cred = session.held \/ crossed

LoginCalls ==
    \A r \in Reqs :
        /\ call[r].at # "idle" => session # None
        /\ Working(call[r]) => session.account = 0 /\ \A q \in Reqs : Working(call[q]) => q = r
        /\ Redeeming(call[r]) => session.held = None /\ call[r].code \in Codes
        /\ Storing(call[r]) => Carries(call[r])

LoginNew ==
    /\ session = None => made = {}
    /\ session # None =>
         /\ Exit(session)
         /\ session.created # 0 => session.created \in made
         /\ session.account = 0 /\ acct.id \in made => session.created = acct.id
         /\ session.account \in made => session.account \in greeted

LogInv == LoginTyped /\ LoginCalls /\ LoginNew

\* What another exit leaves as it was.
Same(s, t) ==
    /\ t.kind = s.kind /\ t.chosen = s.chosen /\ t.held = s.held
    /\ t.account = s.account /\ t.created = s.created

LEMMA OverIs ==
    ASSUME NEW s \in Sessions, NEW l \in LoginLines \cup {None},
           NEW ls \in [LoginLines -> Profiles], LoginNames
    PROVE  LET t == LG!Over(s, l, ls)
           IN  /\ t \in Sessions /\ Same(s, t) /\ t.retry = s.retry /\ t.failed = s.failed
               /\ t.line = l /\ (l = None => t.url = None) /\ (l # None => t.url = ls[l].url)
<1> DEFINE u == IF l = None THEN None ELSE ls[l].url
           t == [s EXCEPT !.line = l, !.url = u]
<1>1. u \in LoginAddrs \cup {None} /\ (l = None => u = None) /\ (l # None => u = ls[l].url)
  BY DEF Profiles
<1>2. LG!Over(s, l, ls) = t  BY DEF LG!Over
<1> HIDE DEF u
<1>3. t \in Sessions /\ Same(s, t) /\ t.retry = s.retry /\ t.failed = s.failed
      /\ t.line = l /\ t.url = u
  BY <1>1 DEF Sessions, Same
<1>4. QED  BY <1>1, <1>2, <1>3

LEMMA PicksIs ==
    ASSUME NEW ls, NEW avoid, NEW l \in LG!Picks(ls, avoid), l # None
    PROVE  l \in LoginLines /\ ls[l].on /\ ls[l].url \notin avoid
  BY DEF LG!Picks

LEMMA RefreshedIs ==
    ASSUME LoginNames, LoginTyped, session \in Sessions, Exit(session),
           NEW s \in LG!Refreshed(session)
    PROVE  s \in Sessions /\ Same(session, s) /\ Exit(s)
<1>1. CASE s = session
  BY <1>1 DEF Same
<1>2. ASSUME session.retry, ~(session.kind # "auto" /\ session.line # None),
             NEW l \in LoginLines \cup {None}, s = LG!Over(session, l, lines),
             l # None => lines[l].on /\ lines[l].url \notin session.failed
      PROVE  s \in Sessions /\ Same(session, s) /\ Exit(s)
  <2>1. /\ s \in Sessions /\ Same(session, s) /\ s.retry = session.retry
        /\ s.failed = session.failed /\ s.line = l /\ (l # None => s.url = lines[l].url)
    BY <1>2, OverIs DEF LoginTyped
  <2>2. l # None => l \in LoginLines /\ s.url # None /\ s.url \notin s.failed
    BY <1>2, <2>1 DEF LoginTyped
  <2>3. s.kind \in {"auto", "line"}
    BY <1>2, <2>1 DEF Exit, Same, Sessions, LG!Kinds
  <2>4. s.kind = "line" => s.chosen \in s.failed
    BY <1>2, <2>1 DEF Exit, Same
  <2>5. QED  BY <2>1, <2>2, <2>3, <2>4 DEF Exit
<1>3. CASE s # session
  <2>1. /\ session.retry /\ ~(session.kind # "auto" /\ session.line # None)
        /\ \/ /\ session.line # None /\ lines[session.line].on
              /\ lines[session.line].url \notin session.failed
              /\ s = LG!Over(session, session.line, lines)
           \/ \E l \in LG!Picks(lines, session.failed) : s = LG!Over(session, l, lines)
    BY <1>3 DEF LG!Refreshed
  <2>2. session.line \in LoginLines \cup {None}  BY DEF Sessions
  <2>3. CASE /\ session.line # None /\ lines[session.line].on
             /\ lines[session.line].url \notin session.failed
             /\ s = LG!Over(session, session.line, lines)
    BY <1>2, <2>1, <2>2, <2>3
  <2>4. CASE \E l \in LG!Picks(lines, session.failed) : s = LG!Over(session, l, lines)
    <3>1. PICK l \in LG!Picks(lines, session.failed) : s = LG!Over(session, l, lines)
      BY <2>4
    <3>2. l \in LoginLines \cup {None}  BY DEF LG!Picks
    <3>3. l # None => lines[l].on /\ lines[l].url \notin session.failed
      BY PicksIs
    <3>4. QED  BY <1>2, <2>1, <3>1, <3>2, <3>3
  <2>5. QED  BY <2>1, <2>3, <2>4
<1>4. QED  BY <1>1, <1>3

LEMMA QuietIs == LG!Quiet \in Calls /\ ~Working(LG!Quiet) /\ ~Redeeming(LG!Quiet) /\ ~Storing(LG!Quiet)
  BY DEF LG!Quiet, Calls, Stages, Working, Redeeming, Storing

LEMMA AtWork == ASSUME NEW c PROVE /\ Redeeming(c) => Working(c)
                                   /\ Storing(c) => Working(c)
                                   /\ Working(c) => c.at # "idle"
  BY DEF Redeeming, Storing, Working

Alone(r) == \A q \in Reqs : q # r => ~Working(call[q])

LEMMA WorksAlone ==
    ASSUME LogInv, NEW r \in Reqs, Working(call[r])
    PROVE  Alone(r) /\ session \in Sessions /\ session.account = 0 /\ Exit(session)
  BY DEF LogInv, LoginCalls, LoginTyped, LoginNew, Alone, Working

\* One handler moves while no other is at work.
LEMMA Acted ==
    ASSUME LoginNames, LogInv, NEW r \in Reqs, Alone(r), session' \in Sessions,
           \A q \in Reqs : q # r => call'[q] = call[q],
           Working(call'[r]) => session'.account = 0,
           Redeeming(call'[r]) => session'.held = None /\ call'[r].code \in Codes,
           Storing(call'[r]) => Carries(call[r])'
    PROVE  LoginCalls'
<1>1. session' # None  BY DEF LoginNames
<1>2. \A q \in Reqs : q # r => ~Working(call'[q])  BY DEF Alone
<1>3. \A q \in Reqs : q # r => ~Redeeming(call'[q]) /\ ~Storing(call'[q])  BY <1>2, AtWork
<1>4. QED  BY <1>1, <1>2, <1>3 DEF LoginCalls, Working

\* What a handler keeps while it looks for an exit and redeems the code.
LEMMA Exchanged ==
    ASSUME LoginNames, LogInv, NEW r \in Reqs, Alone(r), session \in Sessions,
           session' \in Sessions, Exit(session)', ~Storing(call'[r]),
           session'.account = session.account, session'.created = session.created,
           UNCHANGED <<acct, made, greeted, crossed>>,
           suspect' \subseteq LoginAddrs, spent' \subseteq Codes,
           lines' \in [LoginLines -> Profiles],
           \A l \in LoginLines : lines'[l].on => lines'[l].url # None,
           call' \in [Reqs -> Calls], \A q \in Reqs : q # r => call'[q] = call[q],
           Working(call'[r]) => session.account = 0,
           Redeeming(call'[r]) => session'.held = None /\ call'[r].code \in Codes
    PROVE  LogInv'
<1>1. LoginTyped'  BY DEF LogInv, LoginTyped
<1>2. LoginCalls'  BY Acted
<1>3. LoginNew'
  BY DEF LogInv, LoginNew, LoginNames
<1>4. QED  BY <1>1, <1>2, <1>3 DEF LogInv

KeyStep == acct'.key \notin {acct.key, None} => acct'.key = acct'.cred \/ crossed

LEMMA LockInv ==
    ASSUME LoginNames, LogInv, NEW r \in Reqs, NEW code \in Codes, LG!Lock(r, code)
    PROVE  LogInv' /\ KeyStep
<1>0. /\ UNCHANGED <<known, late, lines, suspect, moves, acct, spent, made, greeted, crossed>>
      /\ call[r].at = "found" /\ LoginTyped
  BY DEF LG!Lock, LG!Within, LogInv
<1>1. session \in Sessions /\ Exit(session) /\ KeyStep
  BY <1>0 DEF LogInv, LoginCalls, LoginTyped, LoginNew, KeyStep
<1>2. CASE LG!End(r) /\ UNCHANGED session
  <2>1. call' = [call EXCEPT ![r] = LG!Quiet]  BY <1>2 DEF LG!End
  <2>2. call' \in [Reqs -> Calls] /\ call'[r] = LG!Quiet /\ \A q \in Reqs : q # r => call'[q] = call[q]
    BY <1>0, <2>1, QuietIs DEF LoginTyped
  <2>3. LoginTyped'  BY <1>0, <1>2, <2>2 DEF LoginTyped
  <2>4. LoginCalls'
    BY <1>0, <1>2, <2>2, QuietIs, AtWork DEF LogInv, LoginCalls, Carries, LG!Quiet
  <2>5. LoginNew'  BY <1>0, <1>2 DEF LogInv, LoginNew, Exit
  <2>6. QED  BY <1>1, <2>3, <2>4, <2>5 DEF LogInv
<1>3. CASE /\ ~LG!Busy /\ session' = [session EXCEPT !.digest = code]
           /\ IF session.account # 0 THEN LG!End(r)
              ELSE call' = [call EXCEPT ![r].code = code,
                          ![r].at = IF session.held = None THEN "exchange" ELSE "save"]
  <2>1. Alone(r)  BY <1>3 DEF LG!Busy, Alone, Working
  <2>2. /\ session' \in Sessions /\ Same(session, session') /\ session'.line = session.line
        /\ session'.url = session.url /\ session'.failed = session.failed
        /\ session'.retry = session.retry
    BY <1>1, <1>3 DEF Sessions, Same
  <2>3. Exit(session')  BY <1>1, <2>2 DEF Exit, Same
  <2>4. CASE session.account # 0
    <3>1. call' = [call EXCEPT ![r] = LG!Quiet]  BY <1>3, <2>4 DEF LG!End
    <3>2. call' \in [Reqs -> Calls] /\ call'[r] = LG!Quiet /\ \A q \in Reqs : q # r => call'[q] = call[q]
      BY <1>0, <3>1, QuietIs DEF LoginTyped
    <3>3. LogInv'
      BY <1>0, <1>1, <2>1, <2>2, <2>3, <3>2, QuietIs, Exchanged DEF LoginTyped, Same
    <3>4. QED  BY <1>1, <3>3
  <2>5. CASE session.account = 0
    <3> DEFINE at == IF session.held = None THEN "exchange" ELSE "save"
               c == [call[r] EXCEPT !.code = code, !.at = at]
    <3>1. at \in {"exchange", "save"} /\ (at = "exchange" => session.held = None)
      OBVIOUS
    <3>2. call' = [call EXCEPT ![r] = c]  BY <1>0, <1>3, <2>5 DEF LoginTyped
    <3> HIDE DEF at
    <3>3. c \in Calls /\ c.at = at /\ c.code = code
      BY <1>0, <3>1 DEF LoginTyped, Calls, Stages
    <3> HIDE DEF c
    <3>4. call' \in [Reqs -> Calls] /\ call'[r] = c /\ \A q \in Reqs : q # r => call'[q] = call[q]
      BY <1>0, <3>2, <3>3 DEF LoginTyped
    <3>5. ~Storing(c) /\ (Redeeming(c) => session.held = None)
      BY <3>1, <3>3 DEF Storing, Redeeming
    <3>6. LogInv'
      BY <1>0, <1>1, <2>1, <2>2, <2>3, <2>5, <3>3, <3>4, <3>5, Exchanged DEF LoginTyped,
         Same
    <3>7. QED  BY <1>1, <3>6
  <2>6. QED  BY <2>4, <2>5
<1>4. QED  BY <1>2, <1>3 DEF LG!Lock

\* The steps of a handler that looks for an exit, sends and waits.
LEMMA RedeemInv ==
    ASSUME LoginNames, LogInv, NEW r \in Reqs,
           LG!Choose(r) \/ LG!Send(r) \/ LG!Redeemed(r) \/ LG!Refused(r) \/ LG!Unreachable(r)
    PROVE  LogInv' /\ KeyStep
<1>0. LoginTyped /\ UNCHANGED <<acct, made, greeted, crossed>>
      /\ call[r].at \in {"exchange", "send", "wait"}
  BY DEF LogInv, LG!Choose, LG!Send, LG!Redeemed, LG!Refused, LG!Unreachable
<1>1. Working(call[r]) /\ Redeeming(call[r])  BY <1>0 DEF Working, Redeeming
<1>2. /\ Alone(r) /\ session \in Sessions /\ session.account = 0 /\ Exit(session)
      /\ session.held = None /\ call[r].code \in Codes
  BY <1>1, WorksAlone DEF LogInv, LoginCalls
<1>3. KeyStep  BY <1>0 DEF KeyStep
<1>4. call[r] \in Calls  BY <1>0 DEF LoginTyped
<1>5. ASSUME LG!End(r)
      PROVE  /\ call' \in [Reqs -> Calls] /\ \A q \in Reqs : q # r => call'[q] = call[q]
             /\ ~Working(call'[r]) /\ ~Storing(call'[r]) /\ ~Redeeming(call'[r])
  <2>1. call' = [call EXCEPT ![r] = LG!Quiet]  BY <1>5 DEF LG!End
  <2>2. QED  BY <1>0, <2>1, QuietIs DEF LoginTyped
<1>6. ASSUME NEW c \in Calls, c.at \in {"exchange", "send", "wait", "save"},
             c.code = call[r].code, call' = [call EXCEPT ![r] = c]
      PROVE  /\ call' \in [Reqs -> Calls] /\ \A q \in Reqs : q # r => call'[q] = call[q]
             /\ ~Storing(call'[r]) /\ call'[r] = c /\ call'[r].code \in Codes
  BY <1>0, <1>2, <1>6 DEF LoginTyped, Storing
<1>7. CASE LG!Choose(r)
  <2>1. UNCHANGED <<suspect, spent, lines>>  BY <1>7 DEF LG!Choose, LG!Within
  <2>2. CASE LG!End(r) /\ UNCHANGED session
    BY <1>0, <1>2, <1>3, <1>5, <2>1, <2>2, Exchanged DEF LoginTyped, Exit
  <2>3. CASE /\ session' \in LG!Refreshed(session)
             /\ call' = [call EXCEPT ![r].at = "send", ![r].gen = LG!Generation(session')]
    <3> DEFINE gen == LG!Generation(session')
               c == [call[r] EXCEPT !.at = "send", !.gen = gen]
    <3>1. session' \in Sessions /\ Same(session, session') /\ Exit(session')
      BY <1>0, <1>2, <2>3, RefreshedIs
    <3>2. gen \in Nat
      <4>1. session'.line # None => lines[session'.line] \in Profiles
        BY <1>0, <3>1 DEF LoginTyped, Sessions
      <4>2. QED  BY <4>1 DEF LG!Generation, Profiles
    <3>3. call' = [call EXCEPT ![r] = c]  BY <1>0, <2>3 DEF LoginTyped
    <3> HIDE DEF gen
    <3>4. c \in Calls /\ c.at = "send" /\ c.code = call[r].code  BY <1>4, <3>2 DEF Calls, Stages
    <3> HIDE DEF c
    <3>5. LogInv'
      BY <1>0, <1>2, <1>6, <2>1, <3>1, <3>3, <3>4, Exchanged DEF LoginTyped, Same
    <3>6. QED  BY <1>3, <3>5
  <2>4. QED  BY <1>7, <2>2, <2>3 DEF LG!Choose
<1>8. CASE LG!Send(r)
  <2>1. UNCHANGED <<suspect, spent, lines>>  BY <1>8 DEF LG!Send, LG!Within
  <2>2. CASE LG!End(r) /\ UNCHANGED session
    BY <1>0, <1>2, <1>3, <1>5, <2>1, <2>2, Exchanged DEF LoginTyped, Exit
  <2>3. CASE LG!Goes(r, "wait") /\ UNCHANGED session
    <3> DEFINE c == [call[r] EXCEPT !.at = "wait"]
    <3>1. call' = [call EXCEPT ![r] = c]  BY <1>0, <2>3 DEF LG!Goes, LoginTyped
    <3>2. c \in Calls /\ c.at = "wait" /\ c.code = call[r].code  BY <1>4 DEF Calls, Stages
    <3> HIDE DEF c
    <3>3. LogInv'
      BY <1>0, <1>2, <1>6, <2>1, <2>3, <3>1, <3>2, Exchanged DEF LoginTyped, Exit
    <3>4. QED  BY <1>3, <3>3
  <2>4. CASE /\ ~LG!Admitted(session, call[r].gen) /\ session.kind = "auto"
             /\ session' = [session EXCEPT !.failed = @ \cup {session.url}, !.line = None, !.url = None]
             /\ call' = [call EXCEPT ![r].at = "exchange", ![r].again = TRUE]
    <3> DEFINE c == [call[r] EXCEPT !.at = "exchange", !.again = TRUE]
               failed == session.failed \cup {session.url}
               s == [session EXCEPT !.failed = failed, !.line = None, !.url = None]
    <3>1. call' = [call EXCEPT ![r] = c]  BY <1>0, <2>4 DEF LoginTyped
    <3>2. c \in Calls /\ c.at = "exchange" /\ c.code = call[r].code  BY <1>4 DEF Calls, Stages
    <3> HIDE DEF c
    <3>3. failed \subseteq LoginAddrs
      <4>1. session.url \in LoginAddrs
        <5>1. session.line # None => session.url # None  BY <1>2 DEF Exit
        <5>2. session.url \in suspect \/ session.line # None  BY <2>4 DEF LG!Admitted
        <5>3. QED  BY <1>0, <1>2, <5>1, <5>2 DEF LoginTyped, Sessions
      <4>2. QED  BY <1>2, <4>1 DEF Sessions
    <3>4. session' = s  BY <2>4
    <3> HIDE DEF failed
    <3>5. s \in Sessions /\ Same(session, s) /\ s.line = None /\ s.kind = "auto"
      BY <1>2, <2>4, <3>3 DEF Sessions, Same
    <3> HIDE DEF s
    <3>6. Exit(s)  BY <3>5 DEF Exit
    <3>7. LogInv'
      BY <1>0, <1>2, <1>6, <2>1, <3>1, <3>2, <3>4, <3>5, <3>6, Exchanged DEF LoginTyped,
         Same
    <3>8. QED  BY <1>3, <3>7
  <2>5. QED  BY <1>8, <2>2, <2>3, <2>4 DEF LG!Send
<1>9. CASE LG!Redeemed(r)
  <2> DEFINE c == [call[r] EXCEPT !.at = "save"]
             code == call[r].code
             s == [session EXCEPT !.held = code]
  <2>1. /\ UNCHANGED <<suspect, lines>> /\ session' = s /\ spent' = spent \cup {code}
        /\ call' = [call EXCEPT ![r] = c] /\ code \notin spent
    BY <1>0, <1>9 DEF LG!Redeemed, LG!Within, LG!Goes, LoginTyped
  <2>2. c \in Calls /\ c.at = "save" /\ c.code = call[r].code /\ code \in Codes
    BY <1>2, <1>4 DEF Calls, Stages
  <2> HIDE DEF c, code
  <2>3. /\ s \in Sessions /\ s.line = session.line /\ s.kind = session.kind /\ s.url = session.url
        /\ s.retry = session.retry /\ s.chosen = session.chosen /\ s.failed = session.failed
        /\ s.account = session.account /\ s.created = session.created
    BY <1>2, <2>2 DEF Sessions
  <2> HIDE DEF s
  <2>4. Exit(s)  BY <1>2, <2>3 DEF Exit
  <2>5. ~Redeeming(c)  BY <2>2 DEF Redeeming
  <2>6. spent' \subseteq Codes  BY <1>0, <2>1, <2>2 DEF LoginTyped
  <2>7. LogInv'
    BY <1>0, <1>2, <1>6, <2>1, <2>2, <2>3, <2>4, <2>5, <2>6, Exchanged DEF LoginTyped
  <2>8. QED  BY <1>3, <2>7
<1>10. CASE LG!Refused(r)
  <2>1. UNCHANGED <<suspect, lines, session>> /\ LG!End(r)
    BY <1>10 DEF LG!Refused, LG!Within
  <2>2. spent' \subseteq Codes
    BY <1>0, <1>2, <1>10 DEF LG!Refused, LG!Takes, LoginTyped
  <2>3. LogInv'
    BY <1>0, <1>2, <1>5, <2>1, <2>2, Exchanged DEF LoginTyped, Exit
  <2>4. QED  BY <1>3, <2>3
<1>11. CASE LG!Unreachable(r)
  <2> DEFINE l == session.line
             failed == session.failed \cup {session.url}
             c == [call[r] EXCEPT !.at = "exchange"]
             s == [session EXCEPT !.failed = failed, !.retry = TRUE]
  <2>1. PICK next \in LG!Picks(lines', failed) :
          /\ session' = LG!Over(s, next, lines') /\ l # None /\ UNCHANGED suspect
          /\ lines' = lines \/ lines' = [lines EXCEPT ![l] = LG!Gone(@)]
    BY <1>11 DEF LG!Unreachable
  <2>2. call' = [call EXCEPT ![r] = c]
    BY <1>0, <1>11 DEF LG!Unreachable, LG!Goes, LoginTyped
  <2>3. c \in Calls /\ c.at = "exchange" /\ c.code = call[r].code  BY <1>4 DEF Calls, Stages
  <2> HIDE DEF c
  <2>4. l \in LoginLines /\ session.url \in LoginAddrs /\ failed \subseteq LoginAddrs
        /\ session.url \in failed /\ session.failed \subseteq failed
    BY <1>2, <2>1 DEF Sessions, Exit
  <2>5. /\ lines' \in [LoginLines -> Profiles]
        /\ \A x \in LoginLines : lines'[x].on => lines'[x].url # None
    <3>1. LG!Gone(lines[l]) \in Profiles /\ ~LG!Gone(lines[l]).on
      BY <1>0, <2>4 DEF LG!Gone, Profiles, LoginTyped
    <3>2. QED  BY <1>0, <2>1, <2>4, <3>1 DEF LoginTyped
  <2>6. spent' \subseteq Codes
    BY <1>0, <1>2, <1>11 DEF LG!Unreachable, LG!Takes, LoginTyped
  <2>7. next # None => next \in LoginLines /\ lines'[next].on /\ lines'[next].url \notin failed
    BY PicksIs
  <2>8. next \in LoginLines \cup {None}  BY DEF LG!Picks
  <2> HIDE DEF failed
  <2>9. s \in Sessions /\ Same(session, s) /\ s.failed = failed
    BY <1>2, <2>4 DEF Sessions, Same
  <2> HIDE DEF s
  <2>10. /\ session' \in Sessions /\ Same(s, session') /\ session'.failed = failed
         /\ session'.line = next /\ (next # None => session'.url = lines'[next].url)
    BY <2>1, <2>5, <2>8, <2>9, OverIs
  <2>11. Exit(session')
    <3>1. session.kind \in {"auto", "line"}
      BY <1>2, <2>1 DEF Exit, Sessions, LG!Kinds
    <3>2. session'.kind = "line" => session'.chosen \in session'.failed
      BY <1>2, <2>4, <2>9, <2>10 DEF Exit, Same
    <3>3. QED  BY <2>5, <2>7, <2>9, <2>10, <3>1, <3>2 DEF Exit, Same
  <2>12. session'.held = None /\ session'.account = session.account /\ session'.created = session.created
    BY <1>2, <2>9, <2>10 DEF Same
  <2>13. LogInv'
    BY <1>0, <1>2, <1>6, <2>1, <2>2, <2>3, <2>5, <2>6, <2>10, <2>11, <2>12, Exchanged DEF
       LoginTyped
  <2>14. QED  BY <1>3, <2>13
<1>12. QED  BY <1>7, <1>8, <1>9, <1>10, <1>11

LEMMA SaveInv ==
    ASSUME LoginNames, LogInv, NEW r \in Reqs, LG!Save(r)
    PROVE  LogInv' /\ KeyStep
<1>0. LoginTyped /\ LoginNew /\ call[r].at = "save" /\ UNCHANGED <<suspect, lines, spent, greeted>>
  BY DEF LogInv, LG!Save, LG!Within
<1>1. Alone(r) /\ session \in Sessions /\ session.account = 0 /\ Exit(session)
  BY <1>0, WorksAlone DEF Working
<1>2. call[r] \in Calls  BY <1>0 DEF LoginTyped
<1>3. PICK s \in IF session.line = None THEN {session} ELSE LG!Refreshed(session) :
        \/ LG!End(r) /\ session' \in {session, s} /\ UNCHANGED <<acct, made, crossed>>
        \/ /\ acct' = IF acct.id = 0
                     THEN [LG!Nobody EXCEPT !.id = acct.gen + 1, !.cred = s.held, !.gen = acct.gen + 1]
                     ELSE IF acct.cred = s.held THEN acct
                     ELSE [acct EXCEPT !.cred = s.held, !.gen = @ + 1]
           /\ made' = IF acct.id = 0 THEN made \cup {acct'.id} ELSE made
           /\ session' = IF acct.id = 0 THEN [s EXCEPT !.created = acct'.id] ELSE s
           /\ call' = [call EXCEPT ![r].at = "bind", ![r].seen = acct'.id,
                                  ![r].fresh = session'.created = acct'.id]
  BY DEF LG!Save
<1>4. s \in Sessions /\ Same(session, s) /\ Exit(s)
  BY <1>0, <1>1, <1>3, RefreshedIs DEF Same
<1>5. CASE LG!End(r) /\ session' \in {session, s} /\ UNCHANGED <<acct, made, crossed>>
  <2>1. call' = [call EXCEPT ![r] = LG!Quiet]  BY <1>5 DEF LG!End
  <2>2. /\ call' \in [Reqs -> Calls] /\ \A q \in Reqs : q # r => call'[q] = call[q]
        /\ ~Working(call'[r]) /\ ~Storing(call'[r]) /\ ~Redeeming(call'[r])
    BY <1>0, <2>1, QuietIs DEF LoginTyped
  <2>3. session' \in Sessions /\ Same(session, session') /\ Exit(session')
    BY <1>1, <1>4, <1>5 DEF Same
  <2>4. LogInv'
    BY <1>0, <1>1, <1>5, <2>2, <2>3, Exchanged DEF LoginTyped, Same
  <2>5. QED  BY <1>5, <2>4 DEF KeyStep
<1>6. ASSUME acct' \in Owners, acct'.id # 0, acct'.id <= acct'.gen, acct'.cred = session.held,
             acct.gen <= acct'.gen, made' \subseteq 1 .. acct'.gen, made \subseteq made',
             session' \in Sessions, Exit(session'), session'.account = session.account,
             session'.held = session.held,
             acct'.id \in made' <=> session'.created = acct'.id,
             session'.created # 0 => session'.created \in made',
             call' = [call EXCEPT ![r].at = "bind", ![r].seen = acct'.id,
                                  ![r].fresh = session'.created = acct'.id]
      PROVE  LogInv'
  <2> DEFINE fresh == session'.created = acct'.id
             c == [call[r] EXCEPT !.at = "bind", !.seen = acct'.id, !.fresh = fresh]
  <2>1. call' = [call EXCEPT ![r] = c]  BY <1>0, <1>6 DEF LoginTyped
  <2>2. fresh \in BOOLEAN /\ (fresh <=> acct'.id \in made')  BY <1>6
  <2> HIDE DEF fresh
  <2>3. c \in Calls /\ c.at = "bind" /\ c.seen = acct'.id /\ c.fresh = fresh
    BY <1>2, <1>6, <2>2 DEF Calls, Stages, Owners
  <2> HIDE DEF c
  <2>4. call' \in [Reqs -> Calls] /\ call'[r] = c /\ \A q \in Reqs : q # r => call'[q] = call[q]
    BY <1>0, <2>1, <2>3 DEF LoginTyped
  <2>5. LoginTyped'  BY <1>0, <1>6, <2>4 DEF LoginTyped
  <2>6. Carries(call[r])'
    BY <1>6, <2>2, <2>3, <2>4 DEF Carries
  <2>7. LoginCalls'
    <3>1. ~Redeeming(call'[r])  BY <2>3, <2>4 DEF Redeeming
    <3>2. QED  BY <1>1, <1>6, <2>4, <2>6, <3>1, Acted
  <2>8. LoginNew'
    <3>1. 0 \notin made'  BY <1>6
    <3>2. QED  BY <1>1, <1>6, <3>1 DEF LoginNew, LoginNames
  <2>9. QED  BY <2>5, <2>7, <2>8 DEF LogInv
<1>7. ASSUME acct' = IF acct.id = 0
                     THEN [LG!Nobody EXCEPT !.id = acct.gen + 1, !.cred = s.held, !.gen = acct.gen + 1]
                     ELSE IF acct.cred = s.held THEN acct
                     ELSE [acct EXCEPT !.cred = s.held, !.gen = @ + 1],
             made' = IF acct.id = 0 THEN made \cup {acct'.id} ELSE made,
             session' = IF acct.id = 0 THEN [s EXCEPT !.created = acct'.id] ELSE s,
             call' = [call EXCEPT ![r].at = "bind", ![r].seen = acct'.id,
                                  ![r].fresh = session'.created = acct'.id]
      PROVE  LogInv' /\ KeyStep
  <2>1. /\ acct \in Owners /\ acct.id \in Nat /\ acct.gen \in Nat /\ acct.id <= acct.gen
        /\ made \subseteq 1 .. acct.gen
    BY <1>0 DEF LoginTyped, Owners
  <2>2. s.held = session.held /\ s.held \in Codes \cup {None}
    BY <1>4 DEF Same, Sessions
  <2>3. CASE acct.id = 0
    <3> DEFINE n == acct.gen + 1
    <3>1. acct' = [id |-> n, cred |-> s.held, gen |-> n, key |-> None]
      BY <1>7, <2>3 DEF LG!Nobody
    <3>2. n \in Nat /\ n # 0 /\ acct.gen <= n  BY <2>1
    <3> HIDE DEF n
    <3>3. acct' \in Owners /\ acct'.id = n /\ acct'.gen = n /\ acct'.cred = s.held /\ acct'.key = None
      BY <2>2, <3>1, <3>2 DEF Owners
    <3>4. made' = made \cup {n}  BY <1>7, <2>3, <3>3
    <3>5. made' \subseteq 1 .. n  BY <2>1, <3>2, <3>4
    <3>6. session' = [s EXCEPT !.created = n]  BY <1>7, <2>3, <3>3
    <3>7. /\ session' \in Sessions /\ session'.created = n /\ session'.held = s.held
          /\ session'.account = s.account /\ session'.kind = s.kind /\ session'.line = s.line
          /\ session'.url = s.url /\ session'.failed = s.failed /\ session'.chosen = s.chosen
          /\ session'.retry = s.retry
      BY <1>4, <3>2, <3>6 DEF Sessions
    <3>8. Exit(session')  BY <1>4, <3>7 DEF Exit
    <3>9. n <= n  BY <3>2
    <3>10. LogInv'
      BY <1>4, <1>6, <1>7, <2>2, <3>2, <3>3, <3>4, <3>5, <3>7, <3>8, <3>9 DEF Same
    <3>11. QED  BY <3>3, <3>10 DEF KeyStep
  <2>4. CASE acct.id # 0
    <3>1. /\ acct' \in Owners /\ acct'.id = acct.id /\ acct'.cred = s.held /\ acct'.key = acct.key
          /\ acct.gen <= acct'.gen /\ acct'.gen \in Nat
      <4>1. CASE acct.cred = s.held
        BY <1>7, <2>1, <2>4, <4>1
      <4>2. CASE acct.cred # s.held
        <5> DEFINE n == acct.gen + 1
        <5>1. acct' = [acct EXCEPT !.cred = s.held, !.gen = n]  BY <1>7, <2>4, <4>2
        <5>2. n \in Nat /\ acct.gen <= n  BY <2>1
        <5> HIDE DEF n
        <5>3. QED  BY <2>1, <2>2, <5>1, <5>2 DEF Owners
      <4>3. QED  BY <4>1, <4>2
    <3>2. made' = made /\ session' = s  BY <1>7, <2>4
    <3>3. made' \subseteq 1 .. acct'.gen /\ acct'.id <= acct'.gen  BY <2>1, <3>1, <3>2
    <3>4. session # None  BY <1>1 DEF LoginNames
    <3>5. acct'.id \in made' <=> session'.created = acct'.id
      BY <1>0, <1>1, <1>4, <2>4, <3>1, <3>2, <3>4 DEF LoginNew, Same
    <3>6. session'.created # 0 => session'.created \in made'
      BY <1>0, <1>4, <3>2, <3>4 DEF LoginNew, Same
    <3>7. LogInv'
      BY <1>4, <1>6, <1>7, <2>2, <2>4, <3>1, <3>2, <3>3, <3>5, <3>6 DEF Same
    <3>8. QED  BY <3>1, <3>7 DEF KeyStep
  <2>5. QED  BY <2>3, <2>4
<1>8. QED  BY <1>3, <1>5, <1>7

\* Binding, and the question for the key.
LEMMA StoreInv ==
    ASSUME LoginNames, LogInv, NEW r \in Reqs, LG!Bind(r) \/ LG!Ask(r)
    PROVE  LogInv' /\ KeyStep
<1>0. /\ LoginTyped /\ LoginNew /\ call[r].at \in {"bind", "key"}
      /\ UNCHANGED <<suspect, lines, session, acct, spent, made, greeted, crossed>>
  BY DEF LogInv, LG!Bind, LG!Ask, LG!Within
<1>1. Alone(r) /\ session \in Sessions /\ session.account = 0 /\ Exit(session)
  BY <1>0, WorksAlone DEF Working
<1>2. call[r] \in Calls  BY <1>0 DEF LoginTyped
<1>3. Carries(call[r])  BY <1>0 DEF LogInv, LoginCalls, Storing
<1>4. acct.gen \in Nat  BY <1>0 DEF LoginTyped, Owners
<1>5. CASE LG!End(r)
  <2>1. call' = [call EXCEPT ![r] = LG!Quiet]  BY <1>5 DEF LG!End
  <2>2. /\ call' \in [Reqs -> Calls] /\ \A q \in Reqs : q # r => call'[q] = call[q]
        /\ ~Working(call'[r]) /\ ~Storing(call'[r]) /\ ~Redeeming(call'[r])
    BY <1>0, <2>1, QuietIs DEF LoginTyped
  <2>3. LogInv'
    BY <1>0, <1>1, <2>2, Exchanged DEF LoginTyped, Exit
  <2>4. QED  BY <1>0, <2>3 DEF KeyStep
<1>6. ASSUME NEW c \in Calls, c.at \in {"key", "ask"}, call' = [call EXCEPT ![r] = c],
             c.seen = call[r].seen, c.fresh = call[r].fresh, c.at = "ask" => c.gen = acct.gen
      PROVE  LogInv' /\ KeyStep
  <2>1. call' \in [Reqs -> Calls] /\ call'[r] = c /\ \A q \in Reqs : q # r => call'[q] = call[q]
    BY <1>0, <1>6 DEF LoginTyped
  <2>2. LoginTyped'  BY <1>0, <2>1 DEF LoginTyped
  <2>3. Carries(call[r])'
    BY <1>0, <1>3, <1>4, <1>6, <2>1 DEF Carries
  <2>4. LoginCalls'
    BY <1>0, <1>1, <1>6, <2>1, <2>3, Acted DEF Redeeming
  <2>5. LoginNew'  BY <1>0 DEF LoginNew, Exit
  <2>6. QED  BY <1>0, <2>2, <2>4, <2>5 DEF LogInv, KeyStep
<1>7. CASE LG!Bind(r) /\ ~LG!End(r)
  <2> DEFINE c == [call[r] EXCEPT !.at = "key"]
  <2>1. call' = [call EXCEPT ![r] = c]  BY <1>0, <1>7 DEF LG!Bind, LG!Goes, LoginTyped
  <2>2. c \in Calls /\ c.at = "key" /\ c.seen = call[r].seen /\ c.fresh = call[r].fresh
    BY <1>2 DEF Calls, Stages
  <2> HIDE DEF c
  <2>3. QED  BY <1>6, <2>1, <2>2
<1>8. CASE LG!Ask(r) /\ ~LG!End(r)
  <2> DEFINE gen == acct.gen
             c == [call[r] EXCEPT !.at = "ask", !.gen = gen]
  <2>1. call' = [call EXCEPT ![r] = c]  BY <1>0, <1>8 DEF LG!Ask, LoginTyped
  <2> HIDE DEF gen
  <2>2. /\ c \in Calls /\ c.at = "ask" /\ c.seen = call[r].seen /\ c.fresh = call[r].fresh
        /\ c.gen = gen
    BY <1>2, <1>4 DEF Calls, Stages, gen
  <2> HIDE DEF c
  <2>3. QED  BY <1>6, <2>1, <2>2 DEF gen
<1>9. QED  BY <1>5, <1>7, <1>8

\* The key is written to the account the handler brought; the session is over.
LEMMA FinishInv ==
    ASSUME LoginNames, LogInv, NEW r \in Reqs, LG!Finish(r)
    PROVE  LogInv' /\ KeyStep
<1> DEFINE c == call[r]
           keyed == [acct EXCEPT !.key = session.held]
           mine == acct.id = c.seen /\ acct.gen = c.gen
<1>0. /\ LoginTyped /\ LoginNew /\ call[r].at = "ask"
      /\ UNCHANGED <<suspect, lines, spent, made, crossed>>
  BY DEF LogInv, LG!Finish, LG!Within
<1>1. Alone(r) /\ session \in Sessions /\ session.account = 0 /\ Exit(session)
  BY <1>0, WorksAlone DEF Working
<1>2. c \in Calls /\ c.at = "ask"  BY <1>0 DEF LoginTyped
<1>3. Carries(c)  BY <1>0 DEF LogInv, LoginCalls, Storing
<1>4. acct' \in Owners /\ acct'.id = acct.id /\ acct'.gen = acct.gen /\ acct'.cred = acct.cred
      /\ (acct'.key = acct.key \/ (mine /\ acct'.key = session.held))
  <2>1. acct' = acct \/ (mine /\ acct' = keyed)  BY DEF LG!Finish
  <2>2. session.held \in Codes \cup {None}  BY <1>1 DEF Sessions
  <2>3. keyed \in Owners /\ keyed.id = acct.id /\ keyed.gen = acct.gen /\ keyed.cred = acct.cred
        /\ keyed.key = session.held
    BY <1>0, <2>2 DEF LoginTyped, Owners
  <2> HIDE DEF keyed
  <2>4. QED  BY <1>0, <2>1, <2>3 DEF LoginTyped
<1>5. KeyStep
  BY <1>2, <1>3, <1>4 DEF KeyStep, Carries
<1>6. /\ session' = [session EXCEPT !.account = c.seen, !.held = None, !.created = 0]
      /\ greeted' = IF c.fresh THEN greeted \cup {c.seen} ELSE greeted
      /\ call' = [call EXCEPT ![r] = LG!Quiet]
  BY DEF LG!Finish, LG!End
<1>7. c.seen \in Nat /\ c.seen # 0 /\ (c.seen \in made <=> c.fresh)
  BY <1>2, <1>3 DEF Carries, Calls
<1>8. /\ session' \in Sessions /\ session'.account = c.seen /\ session'.created = 0
      /\ session'.kind = session.kind /\ session'.line = session.line /\ session'.url = session.url
      /\ session'.failed = session.failed /\ session'.chosen = session.chosen
      /\ session'.retry = session.retry
  BY <1>1, <1>6, <1>7 DEF Sessions
<1>9. /\ call' \in [Reqs -> Calls] /\ \A q \in Reqs : q # r => call'[q] = call[q]
      /\ ~Working(call'[r]) /\ ~Storing(call'[r]) /\ ~Redeeming(call'[r])
  BY <1>0, <1>6, QuietIs DEF LoginTyped
<1> HIDE DEF c, mine
<1>10. greeted' \subseteq made /\ greeted \subseteq greeted' /\ (c.seen \in made => c.seen \in greeted')
  BY <1>0, <1>6, <1>7 DEF LoginTyped
<1>11. LoginTyped'
  BY <1>0, <1>4, <1>8, <1>9, <1>10 DEF LoginTyped
<1>12. LoginCalls'
  BY <1>1, <1>8, <1>9, Acted
<1>13. LoginNew'
  <2>1. Exit(session')  BY <1>1, <1>8 DEF Exit
  <2>2. QED  BY <1>0, <1>7, <1>8, <1>10, <2>1 DEF LoginNew, LoginNames
<1>14. QED  BY <1>5, <1>11, <1>12, <1>13 DEF LogInv

LEMMA StartInv ==
    ASSUME LoginNames, LogInv, NEW kind \in LG!Kinds, LG!Start(kind)
    PROVE  LogInv' /\ KeyStep
<1>0. /\ LoginTyped /\ LoginNew /\ session = None
      /\ UNCHANGED <<lines, suspect, acct, call, spent, made, greeted, crossed>>
  BY DEF LogInv, LG!Start
<1>1. \A r \in Reqs : call[r].at = "idle" /\ ~Working(call[r]) /\ ~Redeeming(call[r]) /\ ~Storing(call[r])
  BY <1>0 DEF LogInv, LoginCalls, Working, Redeeming, Storing
<1>2. ASSUME NEW l \in LoginLines \cup {None}, NEW u \in LoginAddrs \cup {None}
      PROVE  LET s == LG!Opened(kind, l, u)
             IN  /\ s \in Sessions /\ s.kind = kind /\ s.line = l /\ s.url = u /\ s.chosen = u
                 /\ s.failed = {} /\ s.created = 0 /\ s.account = 0
                 /\ s.retry <=> kind \in {"auto", "line"}
  <2> DEFINE again == kind \in {"auto", "line"}
             s == [kind |-> kind, chosen |-> u, line |-> l, url |-> u, retry |-> again,
                   failed |-> {}, digest |-> None, held |-> None, account |-> 0, created |-> 0]
  <2>1. again \in BOOLEAN  OBVIOUS
  <2>2. LG!Opened(kind, l, u) = s  BY DEF LG!Opened
  <2>3. again <=> kind \in {"auto", "line"}  OBVIOUS
  <2> HIDE DEF again
  <2>4. /\ s \in Sessions /\ s.kind = kind /\ s.line = l /\ s.url = u /\ s.chosen = u
        /\ s.failed = {} /\ s.created = 0 /\ s.account = 0
    BY <2>1 DEF Sessions
  <2>5. s.retry = again  OBVIOUS
  <2>6. QED  BY <2>2, <2>3, <2>4, <2>5
<1>3. None \in LoginLines \cup {None} /\ None \in LoginAddrs \cup {None}
      /\ None \notin LoginLines /\ None \notin LoginAddrs
  BY DEF LoginNames
<1>4. session' \in Sessions /\ Exit(session') /\ session'.account = 0 /\ session'.created = 0
  <2>1. CASE kind = "auto"
    <3> DEFINE s == LG!Opened(kind, None, None)
    <3>1. PICK l \in LG!Picks(lines, {}) : session' = LG!Over(s, l, lines)
      BY <2>1 DEF LG!Start
    <3>2. s \in Sessions /\ s.kind = "auto" /\ s.failed = {} /\ s.created = 0 /\ s.account = 0
      BY <1>2, <1>3, <2>1
    <3> HIDE DEF s
    <3>3. l \in LoginLines \cup {None}  BY DEF LG!Picks
    <3>4. l # None => l \in LoginLines /\ lines[l].on  BY PicksIs
    <3>5. /\ session' \in Sessions /\ Same(s, session') /\ session'.failed = {}
          /\ session'.line = l /\ (l # None => session'.url = lines[l].url)
      <4>1. lines \in [LoginLines -> Profiles]  BY <1>0 DEF LoginTyped
      <4>2. QED  BY <3>1, <3>2, <3>3, <4>1, OverIs
    <3>6. QED  BY <1>0, <3>2, <3>4, <3>5 DEF Exit, Same, LoginTyped
  <2>2. CASE kind = "line"
    <3>1. PICK l \in LG!Picks(lines, {}) \ {None} : session' = LG!Opened(kind, l, lines[l].url)
      BY <2>2 DEF LG!Start
    <3>2. l \in LoginLines /\ lines[l].on  BY <3>1, PicksIs
    <3>3. lines[l].url \in LoginAddrs \cup {None} /\ lines[l].url # None
      BY <1>0, <3>2 DEF LoginTyped, Profiles
    <3>4. /\ session' \in Sessions /\ session'.kind = kind /\ session'.line = l
          /\ session'.url = lines[l].url /\ session'.chosen = lines[l].url
          /\ session'.failed = {} /\ session'.created = 0 /\ session'.account = 0
      BY <1>2, <3>1, <3>2, <3>3
    <3>5. QED  BY <1>3, <2>2, <3>2, <3>3, <3>4 DEF Exit
  <2>3. CASE kind = "raw"
    <3>1. PICK u \in LoginAddrs : session' = LG!Opened(kind, None, u)
      BY <2>3 DEF LG!Start
    <3>2. QED  BY <1>2, <1>3, <2>3, <3>1 DEF Exit
  <2>4. CASE kind \notin {"auto", "line", "raw"}
    <3>1. session' = LG!Opened(kind, None, None)
      BY <2>4 DEF LG!Start
    <3>2. QED  BY <1>2, <1>3, <2>4, <3>1 DEF Exit
  <2>5. QED  BY <2>1, <2>2, <2>3, <2>4
<1>5. LoginTyped'  BY <1>0, <1>4 DEF LoginTyped
<1>6. LoginCalls'  BY <1>0, <1>1 DEF LoginCalls
<1>7. LoginNew'
  <2>1. made' = {} /\ greeted' = {}  BY <1>0 DEF LoginNew, LoginTyped
  <2>2. QED  BY <1>0, <1>4, <2>1 DEF LoginNew
<1>8. QED  BY <1>0, <1>5, <1>6, <1>7 DEF LogInv, KeyStep

LEMMA EnterInv ==
    ASSUME LoginNames, LogInv, NEW r \in Reqs, LG!Enter(r)
    PROVE  LogInv' /\ KeyStep
<1> DEFINE c == [call[r] EXCEPT !.at = "found"]
<1>0. /\ LoginTyped /\ LoginNew /\ session # None /\ call[r].at = "idle"
      /\ UNCHANGED <<session, lines, suspect, acct, spent, made, greeted, crossed>>
      /\ call' = call \/ call' = [call EXCEPT ![r] = c]
  BY DEF LogInv, LG!Enter, LoginTyped
<1>1. c \in Calls /\ c.at = "found"  BY <1>0 DEF LoginTyped, Calls, Stages
<1> HIDE DEF c
<1>2. /\ call' \in [Reqs -> Calls]
      /\ \A q \in Reqs : call'[q] = call[q] \/ call'[q].at = "found"
  BY <1>0, <1>1 DEF LoginTyped
<1>3. \A q \in Reqs : call'[q] = call[q] \/
        (~Working(call'[q]) /\ ~Redeeming(call'[q]) /\ ~Storing(call'[q]))
  BY <1>2 DEF Working, Redeeming, Storing
<1>4. LoginTyped'  BY <1>0, <1>2 DEF LoginTyped
<1>5. LoginCalls'
  BY <1>0, <1>3 DEF LogInv, LoginCalls, Carries
<1>6. LoginNew'  BY <1>0 DEF LoginNew, Exit
<1>7. QED  BY <1>0, <1>4, <1>5, <1>6 DEF LogInv, KeyStep

\* What everybody else does.
LEMMA OthersInv ==
    ASSUME LoginNames, LogInv, LG!Others
    PROVE  LogInv' /\ KeyStep
<1>0. LoginTyped /\ LoginNew /\ UNCHANGED <<session, call, spent, made, greeted>>
  BY DEF LogInv, LG!Others, LG!LineChanges, LG!Suspects, LG!SecretReplaced,
     LG!AccountRemoved,
         LG!Expires, LG!Moves
<1>1. ASSUME UNCHANGED <<acct, crossed>>, suspect' \subseteq LoginAddrs,
             lines' \in [LoginLines -> Profiles],
             \A l \in LoginLines : lines'[l].on => lines'[l].url # None
      PROVE  LogInv' /\ KeyStep
  <2>1. LoginTyped'  BY <1>0, <1>1 DEF LoginTyped
  <2>2. LoginCalls'  BY <1>0, <1>1 DEF LogInv, LoginCalls, Carries, Working, Redeeming, Storing
  <2>3. LoginNew'  BY <1>0, <1>1 DEF LoginNew, Exit
  <2>4. QED  BY <1>1, <2>1, <2>2, <2>3 DEF LogInv, KeyStep
<1>2. ASSUME NEW l \in LoginLines, NEW p \in Profiles, p.on => p.url # None, LG!LineChanges(l, p)
      PROVE  LogInv' /\ KeyStep
  BY <1>0, <1>1, <1>2 DEF LG!LineChanges, LG!Moves, LoginTyped
<1>3. ASSUME NEW l \in LoginLines, NEW u \in LoginAddrs, NEW on \in BOOLEAN,
             LG!LineChanges(l, [url |-> u, on |-> on, gen |-> lines[l].gen + 1])
      PROVE  LogInv' /\ KeyStep
  <2> DEFINE n == lines[l].gen + 1
             p == [url |-> u, on |-> on, gen |-> n]
  <2>1. n \in Nat  BY <1>0 DEF LoginTyped, Profiles
  <2>2. LG!LineChanges(l, p)  BY <1>3
  <2> HIDE DEF n
  <2>3. p \in Profiles /\ p.url # None  BY <2>1 DEF Profiles, LoginNames
  <2> HIDE DEF p
  <2>4. QED  BY <1>2, <2>2, <2>3
<1>4. ASSUME NEW l \in LoginLines, LG!LineChanges(l, LG!Gone(lines[l]))
      PROVE  LogInv' /\ KeyStep
  <2>1. LG!Gone(lines[l]) \in Profiles /\ ~LG!Gone(lines[l]).on
    BY <1>0 DEF LG!Gone, Profiles, LoginTyped
  <2>2. QED  BY <1>2, <1>4, <2>1
<1>5. ASSUME NEW u \in LoginAddrs, LG!Suspects(u)
      PROVE  LogInv' /\ KeyStep
  BY <1>0, <1>1, <1>5 DEF LG!Suspects, LG!Moves, LoginTyped
<1>6. CASE LG!SecretReplaced
  <2> DEFINE n == acct.gen + 1
             b == [acct EXCEPT !.cred = None, !.gen = n]
  <2>1. /\ UNCHANGED <<lines, suspect>> /\ acct' = b /\ acct.id # 0
        /\ crossed' = (crossed \/ \E r \in Reqs : call[r].at \in {"bind", "key"})
    BY <1>6 DEF LG!SecretReplaced, LG!Moves
  <2>2. n \in Nat /\ acct.gen <= n /\ acct.gen < n /\ acct.gen \in Nat /\ acct.id <= n
    BY <1>0 DEF LoginTyped, Owners
  <2>3. n = acct.gen + 1  OBVIOUS
  <2> HIDE DEF n
  <2>4. b \in Owners /\ b.id = acct.id /\ b.gen = n /\ b.key = acct.key
    BY <1>0, <2>2 DEF LoginTyped, Owners
  <2> HIDE DEF b
  <2>5. made \subseteq 1 .. n  BY <1>0, <2>2 DEF LoginTyped
  <2>6. LoginTyped'  BY <1>0, <2>1, <2>2, <2>4, <2>5 DEF LoginTyped
  <2>7. ASSUME NEW r \in Reqs, Storing(call[r]) PROVE Carries(call[r])'
    <3>1. Carries(call[r])  BY <2>7 DEF LogInv, LoginCalls
    <3>2. call[r].at \in {"bind", "key"} => crossed'  BY <2>1
    <3>3. call[r].gen \in Nat  BY <1>0 DEF LoginTyped, Calls
    <3>4. call[r].at = "ask" => call[r].gen <= n /\ call[r].gen # n
      BY <2>2, <3>1, <3>3 DEF Carries
    <3>5. QED  BY <1>0, <2>1, <2>4, <3>1, <3>2, <3>4 DEF Carries
  <2>8. LoginCalls'
    BY <1>0, <2>7 DEF LogInv, LoginCalls, Working, Redeeming, Storing
  <2>9. LoginNew'
    BY <1>0, <2>1, <2>4 DEF LoginNew, Exit
  <2>10. QED  BY <2>1, <2>4, <2>6, <2>8, <2>9 DEF LogInv, KeyStep
<1>7. CASE LG!AccountRemoved
  <2> DEFINE b == [LG!Nobody EXCEPT !.gen = acct.gen]
  <2>1. UNCHANGED <<lines, suspect, crossed>> /\ acct' = b
    BY <1>7 DEF LG!AccountRemoved, LG!Moves
  <2>2. acct.gen \in Nat  BY <1>0 DEF LoginTyped, Owners
  <2>3. b \in Owners /\ b.id = 0 /\ b.gen = acct.gen /\ b.key = None
    BY <2>2 DEF Owners, LG!Nobody
  <2> HIDE DEF b
  <2>4. LoginTyped'  BY <1>0, <2>1, <2>2, <2>3 DEF LoginTyped
  <2>5. ASSUME NEW r \in Reqs, Storing(call[r]) PROVE Carries(call[r])'
    <3>1. Carries(call[r])  BY <2>5 DEF LogInv, LoginCalls
    <3>2. QED  BY <1>0, <2>1, <2>3, <3>1 DEF Carries
  <2>6. LoginCalls'
    BY <1>0, <2>5 DEF LogInv, LoginCalls, Working, Redeeming, Storing
  <2>7. 0 \notin made  BY <1>0 DEF LoginTyped
  <2>8. LoginNew'
    BY <1>0, <2>1, <2>3, <2>7 DEF LoginNew, Exit
  <2>9. QED  BY <2>1, <2>3, <2>4, <2>6, <2>8 DEF LogInv, KeyStep
<1>8. CASE LG!Expires
  BY <1>0, <1>1, <1>8 DEF LG!Expires, LoginTyped
<1>9. QED
  BY <1>3, <1>4, <1>5, <1>6, <1>7, <1>8 DEF LG!Others

LEMMA LoginNext ==
    ASSUME LoginNames, LogInv, [LG!Next]_LG!vars
    PROVE  LogInv' /\ KeyStep
<1>1. CASE UNCHANGED LG!vars
  <2>1. UNCHANGED <<session, lines, suspect, acct, call, spent, made, greeted, crossed>>
    BY <1>1 DEF LG!vars
  <2>2. LoginTyped'  BY <2>1 DEF LogInv, LoginTyped
  <2>3. LoginCalls'  BY <2>1 DEF LogInv, LoginCalls, Carries, Working, Redeeming, Storing
  <2>4. LoginNew'  BY <2>1 DEF LogInv, LoginNew, Exit
  <2>5. QED  BY <2>1, <2>2, <2>3, <2>4 DEF LogInv, KeyStep
<1>2. ASSUME NEW r \in Reqs, LG!Handler(r) PROVE LogInv' /\ KeyStep
  BY <1>2, EnterInv, LockInv, RedeemInv, SaveInv, StoreInv, FinishInv DEF LG!Handler
<1>3. QED  BY <1>1, <1>2, StartInv, OthersInv DEF LG!Next

LEMMA LoginRuns ==
    /\ RunInit => LG!Init
    /\ [RunNext]_allVars => [LG!Next]_LG!vars
<1> USE DEF allVars, lgVars, LG!vars
<1>1. Account(Next) \/ SoftFailure(SF!Next) \/ Claim(CL!Next) => UNCHANGED LG!vars
  BY DEF Account, SoftFailure, Claim
<1>2. UNCHANGED allVars => UNCHANGED LG!vars
  OBVIOUS
<1>3. QED  BY <1>1, <1>2 DEF RunInit, RunNext, LogIn

LEMMA LoginInit == ASSUME LoginNames, LG!Init PROVE LogInv
<1>1. ASSUME NEW l \in LoginLines
      PROVE  lines[l] \in Profiles /\ (lines[l].on => lines[l].url # None)
  <2>1. lines[l] \in {LG!Absent} \cup {[url |-> u, on |-> TRUE, gen |-> 1] : u \in LoginAddrs}
    BY DEF LG!Init
  <2>2. CASE lines[l] = LG!Absent
    <3>1. LG!Absent \in Profiles /\ ~LG!Absent.on  BY DEF LG!Absent, Profiles
    <3>2. QED  BY <2>2, <3>1
  <2>3. CASE \E u \in LoginAddrs : lines[l] = [url |-> u, on |-> TRUE, gen |-> 1]
    BY <2>3 DEF Profiles, LoginNames
  <2>4. QED  BY <2>1, <2>2, <2>3
<1>2. lines \in [LoginLines -> Profiles]
  <2>1. lines \in [LoginLines -> {LG!Absent} \cup {[url |-> u, on |-> TRUE, gen |-> 1] : u \in LoginAddrs}]
    BY DEF LG!Init
  <2>2. QED  BY <1>1, <2>1
<1>3. acct \in Owners /\ acct.id <= acct.gen
  <2>1. LG!Nobody \in Owners /\ LG!Nobody.id <= LG!Nobody.gen  BY DEF LG!Nobody, Owners
  <2>2. LET b == [LG!Nobody EXCEPT !.id = 1, !.gen = 1] IN b \in Owners /\ b.id <= b.gen
    <3> DEFINE b == [LG!Nobody EXCEPT !.id = 1, !.gen = 1]
    <3>1. b \in Owners /\ b.id = 1 /\ b.gen = 1
      BY <2>1 DEF Owners
    <3> HIDE DEF b
    <3>2. b.id <= b.gen  BY <3>1
    <3>3. QED  BY <3>1, <3>2 DEF b
  <2>3. QED  BY <2>1, <2>2 DEF LG!Init
<1>4. call = [r \in Reqs |-> LG!Quiet]  BY DEF LG!Init
<1>5. LoginTyped
  BY <1>1, <1>2, <1>3, <1>4, QuietIs DEF LoginTyped, LG!Init
<1>6. LoginCalls  BY <1>4, QuietIs DEF LoginCalls, LG!Quiet
<1>7. LoginNew  BY DEF LoginNew, LG!Init
<1>8. QED  BY <1>5, <1>6, <1>7 DEF LogInv

LEMMA SpecLogInv == ASSUME LoginNames PROVE RunSpec => []LogInv
<1>1. RunInit => LogInv
  BY LoginInit, LoginRuns
<1>2. LogInv /\ [RunNext]_allVars => LogInv'
  BY LoginNext, LoginRuns
<1>3. QED  BY <1>1, <1>2, PTL DEF RunSpec

\* A code is sent by one handler and never once its result is held; a session goes out the
\* way that was chosen; the account it created is finished as new, and the key goes to the
\* credential that was brought: for any lines, addresses, codes and handlers, whatever
\* everybody else changes (internal/adminapi/login.go, login_failover.go).
THEOREM StandingLoginKept == ASSUME LoginNames PROVE RunSpec => LoginKept
<1>1. LogInv => LG!TypeOK /\ LG!RedeemsOnce /\ LG!NewStaysNew
  <2> SUFFICES ASSUME LogInv PROVE LG!TypeOK /\ LG!RedeemsOnce /\ LG!NewStaysNew
    OBVIOUS
  <2>1. \A r \in Reqs : call[r] \in Calls  BY DEF LogInv, LoginTyped
  <2>2. acct.id \in 0 .. acct.gen  BY DEF LogInv, LoginTyped, Owners
  <2>3. LG!TypeOK
    <3>1. session # None => session \in Sessions  BY DEF LogInv, LoginTyped
    <3>2. \A r \in Reqs : call[r].at \in Stages  BY <2>1 DEF Calls
    <3>3. QED  BY <2>2, <3>1, <3>2 DEF LogInv, LoginTyped, LoginCalls, LG!TypeOK, Sessions, Stages
  <2>4. LG!RedeemsOnce
    <3> SUFFICES ASSUME NEW r \in Reqs, call[r].at \in {"send", "wait"}
                 PROVE  /\ session.held = None /\ session.account = 0
                        /\ \A q \in Reqs \ {r} : call[q].at \in {"idle", "found"}
      BY DEF LG!RedeemsOnce
    <3>1. Working(call[r]) /\ Redeeming(call[r])  BY DEF Working, Redeeming
    <3>2. QED  BY <3>1 DEF LogInv, LoginCalls, Working
  <2>5. LG!NewStaysNew  BY DEF LogInv, LoginNew, LoginTyped, LG!NewStaysNew
  <2>6. QED  BY <2>3, <2>4, <2>5
<1>2. LogInv /\ [RunNext]_allVars =>
        [\A r \in Reqs : call[r].at = "send" /\ call'[r].at = "wait" =>
           /\ session.kind \in {"direct", "none", "raw"} => session.url = session.chosen
           /\ session.kind = "line" => session.url = session.chosen \/ session.chosen \in session.failed
           /\ session.line # None => session.url \notin session.failed]_LG!vars
  <2>1. ASSUME LogInv, NEW r \in Reqs, call[r].at = "send" PROVE Exit(session)
    BY <2>1 DEF LogInv, LoginCalls, LoginNew
  <2>2. QED  BY <2>1 DEF Exit
<1>3. LogInv /\ [RunNext]_allVars => [KeyStep]_LG!vars
  BY LoginNext, LoginRuns
<1>4. [KeyStep]_LG!vars <=> [acct'.key \notin {acct.key, None} => acct'.key = acct'.cred \/ crossed]_LG!vars
  BY DEF KeyStep
<1>5. QED
  BY SpecLogInv, <1>1, <1>2, <1>3, <1>4, PTL
     DEF RunSpec, LoginKept, LG!ExitKept, LG!KeyOfLogin

=============================================================================
