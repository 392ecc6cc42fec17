------------------------------ MODULE LinesProof ------------------------------
(***************************************************************************)
(* Lines are judged justly, decisions and bindings stand, a claim is posted *)
(* once and a record replayed once: for any lines, requests, users, bounds  *)
(* and terms.  The theorems are about the composed run: whatever part of it *)
(* moves, a part sees steps of its own or none.                             *)
(***************************************************************************)
EXTENDS MCLines, TLAPS

(***************************************************************************)
(* The quarantine of lines after 405.                                      *)
(***************************************************************************)

\* config.go: at least one strike before a line is retired.
Terms ==
    /\ {MinStreak, BaseTime, MaxQuarantine, JailTTL} \subseteq Nat
    /\ {RetireStrikes, MaxTime, MaxGen} \subseteq Nat \ {0}

LEMMA Least == \A x, y \in Int : LQ!Min({x, y}) = IF x <= y THEN x ELSE y
<1> TAKE x, y \in Int
<1>1. CASE x <= y
  BY <1>1 DEF LQ!Min
<1>2. CASE ~(x <= y)
  BY <1>2 DEF LQ!Min
<1>3. QED  BY <1>1, <1>2

LEMMA Greatest == \A x, y \in Int : LQ!Max({x, y}) = IF x >= y THEN x ELSE y
<1> TAKE x, y \in Int
<1>1. CASE x >= y
  BY <1>1 DEF LQ!Max
<1>2. CASE ~(x >= y)
  BY <1>2 DEF LQ!Max
<1>3. QED  BY <1>1, <1>2

\* Nothing is held against the line.
Spotless(e) == e.streak = 0 /\ e.strikes = 0 /\ e.until = 0

\* What a record says is backed by a row of n times 405.
Backed(e, n) ==
    /\ MinStreak > 0 => e.streak <= n
    /\ e.strikes > 0 \/ e.until > 0 => n = MinStreak

\* A restart forgets neither a term nor brings back what a success has cleared, and every
\* record, also the one on disk, is backed.
Jail ==
    \A l \in Lines :
        /\ lqEntry[l].until <= disk[l].until
        /\ Spotless(lqEntry[l]) => Spotless(disk[l])
        /\ Backed(lqEntry[l], row[l]) /\ Backed(disk[l], row[l])

JailInv == LQ!TypeOK /\ Jail

LEMMA TermBound ==
    ASSUME Terms, NEW s \in Nat
    PROVE  LQ!Term(s) \in 0 .. LQ!Max({BaseTime, MaxQuarantine})
<1>1. LQ!Max({BaseTime, MaxQuarantine}) \in Nat
      /\ BaseTime <= LQ!Max({BaseTime, MaxQuarantine})
      /\ MaxQuarantine <= LQ!Max({BaseTime, MaxQuarantine})
  BY Greatest DEF Terms
<1>2. CASE s <= 1
  BY <1>1, <1>2 DEF LQ!Term, Terms
<1>3. CASE s > 1
  <2>1. LQ!Min({s, 4}) \in 1 .. 4
    BY <1>3, Least
  <2>2. <<1, 2, 4, 8>>[LQ!Min({s, 4})] \in Nat
    BY <2>1
  <2>3. BaseTime * <<1, 2, 4, 8>>[LQ!Min({s, 4})] \in Nat
    BY <2>2 DEF Terms
  <2>4. LQ!Term(s) = LQ!Min({BaseTime * <<1, 2, 4, 8>>[LQ!Min({s, 4})], MaxQuarantine})
    BY <1>3 DEF LQ!Term
  <2>5. QED  BY <1>1, <2>3, <2>4, Least DEF Terms
<1>4. QED  BY <1>2, <1>3

Cap == LQ!Max({1, MinStreak})

\* The strikes that matter, and how far a streak is counted.
LEMMA Caps ==
    ASSUME Terms
    PROVE  /\ Cap \in Nat /\ Cap >= 1 /\ Cap >= MinStreak /\ (MinStreak > 0 => Cap = MinStreak)
           /\ LQ!StrikeCap \in Nat /\ LQ!StrikeCap >= 1 /\ LQ!StrikeCap >= RetireStrikes
BY Greatest DEF Terms, Cap, LQ!StrikeCap

\* One more 405 is recorded.
LEMMA HitIs ==
    ASSUME Terms, NEW old \in LQ!Entries, NEW g \in 1 .. MaxGen, now \in 1 .. MaxTime
    PROVE  /\ LQ!Hit(old, g) \in LQ!Entries
           /\ LQ!Hit(old, g).gen = g /\ LQ!Hit(old, g).last = now
           /\ LQ!Hit(old, g).streak >= 1
           /\ LQ!Hit(old, g).streak <= (IF old.gen = g THEN old.streak + 1 ELSE 1)
           /\ LQ!Hit(old, g).strikes = (IF old.gen = g THEN old.strikes ELSE 0)
           /\ LQ!Hit(old, g).until = (IF old.gen = g THEN old.until ELSE 0)
<1> DEFINE e == IF old.gen = g THEN old ELSE [LQ!Clear EXCEPT !.gen = g]
           s == LQ!Min({e.streak + 1, Cap})
<1>1. e \in LQ!Entries /\ e.gen = g
      /\ e.streak = (IF old.gen = g THEN old.streak ELSE 0)
      /\ e.strikes = (IF old.gen = g THEN old.strikes ELSE 0)
      /\ e.until = (IF old.gen = g THEN old.until ELSE 0)
  BY Caps, Greatest DEF LQ!Entries, LQ!Clear, Terms
<1>2. s \in 1 .. Cap /\ s <= e.streak + 1
  BY <1>1, Caps, Least DEF LQ!Entries
<1>3. LQ!Hit(old, g) = [e EXCEPT !.streak = s, !.last = now]
  BY DEF LQ!Hit, Cap
<1> HIDE DEF e, s
<1>4. LQ!Hit(old, g) \in LQ!Entries
  <2>1. now \in 0 .. MaxTime /\ s \in 0 .. Cap
    BY <1>2, Caps
  <2>2. [e EXCEPT !.streak = s] \in LQ!Entries
    BY <2>1, <1>1 DEF LQ!Entries, Cap
  <2>3. QED  BY <2>1, <2>2, <1>3 DEF LQ!Entries
<1>5. QED
  BY <1>1, <1>2, <1>3, <1>4 DEF LQ!Entries

\* The term of a row.
LEMMA JailIs ==
    ASSUME Terms, NEW e \in LQ!Entries, now \in 1 .. MaxTime
    PROVE  /\ LQ!Jail(e) \in LQ!Entries
           /\ LQ!Jail(e).gen = e.gen /\ LQ!Jail(e).streak = e.streak /\ LQ!Jail(e).last = e.last
           /\ LQ!Jail(e).until >= e.until
<1> DEFINE n == LQ!Min({e.strikes + 1, LQ!StrikeCap})
           u == LQ!Max({e.until, now + LQ!Term(n)})
<1>1. n \in 0 .. LQ!StrikeCap
  BY Caps, Least DEF LQ!Entries
<1>2. LQ!Term(n) \in 0 .. LQ!Max({BaseTime, MaxQuarantine})
  BY <1>1, Caps, TermBound
<1> HIDE DEF n
<1>3. u \in 0 .. (MaxTime + LQ!Max({BaseTime, MaxQuarantine})) /\ u >= e.until
  <2>1. LQ!Max({BaseTime, MaxQuarantine}) \in Nat
    BY Greatest DEF Terms
  <2>2. e.until \in 0 .. (MaxTime + LQ!Max({BaseTime, MaxQuarantine}))
    BY DEF LQ!Entries
  <2>3. now + LQ!Term(n) \in 0 .. (MaxTime + LQ!Max({BaseTime, MaxQuarantine}))
    BY <2>1, <1>2 DEF Terms
  <2>4. {e.until, now + LQ!Term(n)} \subseteq Int
    BY <2>2, <2>3
  <2>5. ASSUME NEW x \in Int, NEW y \in Int
        PROVE  LQ!Max({x, y}) \in {x, y} /\ LQ!Max({x, y}) >= x
    BY Greatest
  <2>6. u \in {e.until, now + LQ!Term(n)} /\ u >= e.until
    BY <2>4, <2>5
  <2>7. QED  BY <2>2, <2>3, <2>6
<1>4. LQ!Jail(e) = [e EXCEPT !.strikes = n, !.until = u]
  BY DEF LQ!Jail, n
<1>5. QED  BY <1>1, <1>3, <1>4 DEF LQ!Entries

\* A success leaves nothing against the line.
LEMMA LiftedIs ==
    ASSUME Terms, NEW e \in LQ!Entries
    PROVE  LQ!Lifted(e) \in LQ!Entries /\ Spotless(LQ!Lifted(e))
<1>1. 0 <= MaxTime + LQ!Max({BaseTime, MaxQuarantine}) /\ 0 <= LQ!StrikeCap /\ 0 <= Cap
  BY Caps, Greatest DEF Terms
<1> DEFINE one == [e EXCEPT !.streak = 0]
           two == [one EXCEPT !.strikes = 0]
<1>2. one \in LQ!Entries /\ one.streak = 0
  BY <1>1 DEF LQ!Entries, Cap
<1>3. LQ!Lifted(e) = [two EXCEPT !.until = 0]
  BY DEF LQ!Lifted
<1> HIDE DEF one
<1>4. two \in LQ!Entries /\ two.streak = 0 /\ two.strikes = 0
  BY <1>1, <1>2 DEF LQ!Entries
<1> HIDE DEF two
<1>5. QED  BY <1>1, <1>3, <1>4 DEF LQ!Entries, Spotless

\* Writing the table keeps records or drops them whole, and the disk agrees.
LEMMA CommitIs ==
    ASSUME Terms, now \in 1 .. MaxTime, NEW e \in [Lines -> LQ!Entries], LQ!Commit(e)
    PROVE  /\ lqEntry' \in [Lines -> LQ!Entries] /\ disk' = lqEntry'
           /\ \A l \in Lines : \/ lqEntry'[l] = e[l]
                               \/ /\ lqEntry'[l] = LQ!Clear /\ e[l].until <= now
                                  /\ e[l].last + JailTTL < now
<1> DEFINE kept == [l \in Lines |-> IF e[l].last + JailTTL < now /\ e[l].until <= now
                                    THEN LQ!Clear ELSE e[l]]
<1>1. LQ!Clear \in LQ!Entries
  <2>1. 0 <= MaxTime + LQ!Max({BaseTime, MaxQuarantine}) /\ 0 <= MaxTime
    BY Greatest DEF Terms
  <2>2. 0 <= Cap /\ 0 <= LQ!StrikeCap /\ 0 <= MaxGen
    BY Caps DEF Terms
  <2>3. QED  BY <2>1, <2>2 DEF LQ!Clear, LQ!Entries, Terms, Cap
<1>2. lqEntry' = kept /\ disk' = kept
  BY DEF LQ!Commit
<1>3. kept \in [Lines -> LQ!Entries]
  BY <1>1
<1>4. \A l \in Lines : \/ kept[l] = e[l]
                        \/ /\ kept[l] = LQ!Clear /\ e[l].until <= now
                           /\ e[l].last + JailTTL < now
  <2> TAKE l \in Lines
  <2>1. kept[l] = IF e[l].last + JailTTL < now /\ e[l].until <= now THEN LQ!Clear ELSE e[l]
    OBVIOUS
  <2>2. QED  BY <2>1
<1> HIDE DEF kept
<1>5. QED  BY <1>2, <1>3, <1>4

LEMMA Written ==
    ASSUME Terms, now \in 1 .. MaxTime, row' \in [Lines -> 0 .. MinStreak],
           NEW e \in [Lines -> LQ!Entries], LQ!Commit(e),
           \A l \in Lines : Backed(e[l], row'[l])
    PROVE  lqEntry' \in [Lines -> LQ!Entries] /\ disk' \in [Lines -> LQ!Entries] /\ Jail'
<1>1. \A n \in 0 .. MinStreak : Backed(LQ!Clear, n)
  BY DEF Backed, LQ!Clear
<1>2. \A l \in Lines : Backed(lqEntry'[l], row'[l])
  BY <1>1, CommitIs
<1>3. \A l \in Lines : lqEntry'[l].until <= lqEntry'[l].until
  <2>1. \A f \in LQ!Entries : f.until <= f.until
    BY DEF LQ!Entries
  <2>2. QED  BY <2>1, CommitIs
<1>4. QED  BY <1>2, <1>3, CommitIs DEF Jail, Spotless

\* One more 405 makes the row longer, and backs the record it is written into.
LEMMA RowGrows ==
    ASSUME Terms, NEW l \in Lines, row \in [Lines -> 0 .. MinStreak],
           row' = [row EXCEPT ![l] = LQ!Min({@ + 1, MinStreak})]
    PROVE  /\ row' \in [Lines -> 0 .. MinStreak]
           /\ row'[l] = (IF row[l] < MinStreak THEN row[l] + 1 ELSE MinStreak)
           /\ \A k \in Lines \ {l} : row'[k] = row[k]
<1>1. LQ!Min({row[l] + 1, MinStreak}) = IF row[l] < MinStreak THEN row[l] + 1 ELSE MinStreak
  BY Least DEF Terms
<1>2. QED  BY <1>1 DEF Terms

LEMMA InitJail == Terms /\ LQ!Init => JailInv
<1> SUFFICES ASSUME Terms, LQ!Init PROVE JailInv
  OBVIOUS
<1>1. LQ!Clear \in LQ!Entries
  <2>1. 0 <= MaxTime + LQ!Max({BaseTime, MaxQuarantine}) /\ 0 <= MaxTime
    BY Greatest DEF Terms
  <2>2. 0 <= Cap /\ 0 <= LQ!StrikeCap /\ 0 <= MaxGen
    BY Caps DEF Terms
  <2>3. QED  BY <2>1, <2>2 DEF LQ!Clear, LQ!Entries, Terms, Cap
<1>2. LQ!TypeOK
  BY <1>1 DEF LQ!Init, LQ!TypeOK, Terms
<1>3. Jail
  BY DEF LQ!Init, Jail, Backed, Spotless, LQ!Clear
<1>4. QED  BY <1>2, <1>3 DEF JailInv

LEMMA JailStep == ASSUME Terms, JailInv, [LQ!Next]_LQ!vars  PROVE JailInv'
<1> USE DEF JailInv
<1>0. now \in 1 .. MaxTime /\ lqEntry \in [Lines -> LQ!Entries]
      /\ disk \in [Lines -> LQ!Entries] /\ row \in [Lines -> 0 .. MinStreak]
  BY DEF LQ!TypeOK
<1>1. ASSUME NEW r \in Reqs, NEW l \in Lines, LQ!Dispatch(r, l)  PROVE JailInv'
  BY <1>1 DEF LQ!Dispatch, LQ!TypeOK, Jail
<1>2. ASSUME NEW r \in Reqs, LQ!Answer405(r)  PROVE JailInv'
  <2> DEFINE l == flight[r].line
             hit == LQ!Hit(lqEntry[l], flight[r].gen)
  <2>1. l \in Lines /\ flight[r].gen \in 1 .. MaxGen
        /\ flight' \in [Reqs -> [line : Lines, gen : 1 .. MaxGen] \cup {None}]
    BY <1>2 DEF LQ!Answer405, LQ!Land, LQ!TypeOK
  <2>2. row' = [row EXCEPT ![l] = LQ!Min({@ + 1, MinStreak})]
        /\ UNCHANGED <<now, gen, retired>>
    BY <1>2 DEF LQ!Answer405
  <2>3. IF MinStreak = 0 \/ hit.streak < MinStreak
        THEN lqEntry' = [lqEntry EXCEPT ![l] = hit] /\ UNCHANGED disk
        ELSE LQ!Commit([lqEntry EXCEPT ![l] = LQ!Jail(hit)])
    BY <1>2 DEF LQ!Answer405
  <2>4. hit \in LQ!Entries /\ hit.streak >= 1
        /\ hit.until <= lqEntry[l].until /\ hit.strikes <= lqEntry[l].strikes
        /\ hit.streak <= lqEntry[l].streak + 1
    <3>1. lqEntry[l] \in LQ!Entries /\ flight[r].gen \in 1 .. MaxGen
      BY <2>1, <1>0
    <3> DEFINE old == lqEntry[l]
               g == flight[r].gen
    <3>2. old.until \in Nat /\ old.strikes \in Nat /\ old.streak \in Nat
      BY <3>1 DEF LQ!Entries
    <3> HIDE DEF old, g
    <3>3. LQ!Hit(old, g) \in LQ!Entries /\ LQ!Hit(old, g).streak >= 1
          /\ LQ!Hit(old, g).until <= old.until /\ LQ!Hit(old, g).strikes <= old.strikes
          /\ LQ!Hit(old, g).streak <= old.streak + 1
      <4>1. old \in LQ!Entries /\ g \in 1 .. MaxGen
        BY <3>1 DEF old, g
      <4>2. LQ!Hit(old, g) \in LQ!Entries /\ LQ!Hit(old, g).streak >= 1
            /\ LQ!Hit(old, g).streak <= (IF old.gen = g THEN old.streak + 1 ELSE 1)
            /\ LQ!Hit(old, g).strikes = (IF old.gen = g THEN old.strikes ELSE 0)
            /\ LQ!Hit(old, g).until = (IF old.gen = g THEN old.until ELSE 0)
        BY <4>1, <1>0, HitIs
      <4>3. LQ!Hit(old, g).streak \in Nat
        BY <4>2 DEF LQ!Entries
      <4>4. QED  BY <4>2, <4>3, <3>2
    <3>4. QED  BY <3>3 DEF old, g
  <2> HIDE DEF l, hit
  <2>5. row' \in [Lines -> 0 .. MinStreak]
        /\ row'[l] = (IF row[l] < MinStreak THEN row[l] + 1 ELSE MinStreak)
        /\ \A k \in Lines \ {l} : row'[k] = row[k]
    BY <2>1, <2>2, <1>0, RowGrows
  <2>6. Backed(hit, row'[l])
    <3>1. MinStreak > 0 => hit.streak <= MinStreak
      BY <2>4, Caps DEF LQ!Entries, Cap
    <3>2. QED  BY <3>1, <2>1, <2>4, <2>5, <1>0 DEF Backed, Jail, LQ!Entries, Terms
  <2>7. \A k \in Lines : Backed(lqEntry[k], row'[k]) /\ Backed(disk[k], row'[k])
    BY <2>1, <2>5, <1>0 DEF Jail, Backed, LQ!Entries, Terms
  <2>8. CASE MinStreak = 0 \/ hit.streak < MinStreak
    <3>1. lqEntry' = [lqEntry EXCEPT ![l] = hit] /\ disk' = disk
      BY <2>3, <2>8
    <3>2. LQ!TypeOK'
      BY <3>1, <2>1, <2>2, <2>4, <2>5 DEF LQ!TypeOK
    <3>3. \A k \in Lines : lqEntry'[k].until <= disk[k].until
      BY <3>1, <2>1, <2>4, <1>0 DEF Jail, LQ!Entries
    <3>4. \A k \in Lines : Spotless(lqEntry'[k]) => Spotless(disk[k])
      BY <3>1, <2>1, <2>4, <1>0 DEF Jail, Spotless
    <3>5. QED  BY <3>1, <3>2, <3>3, <3>4, <2>6, <2>7, <1>0, <2>1 DEF Jail
  <2>9. CASE ~(MinStreak = 0 \/ hit.streak < MinStreak)
    <3> DEFINE e == [lqEntry EXCEPT ![l] = LQ!Jail(hit)]
    <3>1. LQ!Commit(e)
      BY <2>3, <2>9
    <3>2. LQ!Jail(hit) \in LQ!Entries /\ LQ!Jail(hit).streak = hit.streak
      BY <2>4, <1>0, JailIs
    <3>3. row'[l] = MinStreak
      BY <2>6, <2>9, <2>5, <2>1, <2>4 DEF Backed, LQ!Entries, Terms
    <3>4. \A k \in Lines : Backed(e[k], row'[k])
      BY <3>2, <3>3, <2>6, <2>7, <2>1, <1>0 DEF Backed
    <3>5. e \in [Lines -> LQ!Entries]
      BY <3>2, <1>0
    <3> HIDE DEF e
    <3>6. lqEntry' \in [Lines -> LQ!Entries] /\ disk' \in [Lines -> LQ!Entries] /\ Jail'
      BY <3>1, <3>4, <3>5, <2>5, <1>0, Written
    <3>7. QED  BY <3>6, <2>1, <2>2, <2>5 DEF LQ!TypeOK
  <2>10. QED  BY <2>8, <2>9
<1>3. ASSUME NEW r \in Reqs, LQ!AnswerOK(r)  PROVE JailInv'
  <2> DEFINE l == flight[r].line
             c == [LQ!Lifted(lqEntry[l]) EXCEPT !.last = now]
             e == [lqEntry EXCEPT ![l] = c]
  <2>1. l \in Lines
        /\ flight' \in [Reqs -> [line : Lines, gen : 1 .. MaxGen] \cup {None}]
    BY <1>3 DEF LQ!AnswerOK, LQ!Land, LQ!TypeOK
  <2>2. row' = [row EXCEPT ![l] = 0] /\ UNCHANGED <<now, gen, retired>>
    BY <1>3 DEF LQ!AnswerOK, LQ!Forgive
  <2>3. \/ lqEntry[l] = LQ!Clear /\ UNCHANGED <<lqEntry, disk>>
        \/ LQ!Commit(e)
        \/ Spotless(lqEntry[l]) /\ lqEntry' = e /\ disk' = disk
    BY <1>3 DEF LQ!AnswerOK, Spotless
  <2>4. c \in LQ!Entries /\ Spotless(c)
    <3>1. LQ!Lifted(lqEntry[l]) \in LQ!Entries /\ Spotless(LQ!Lifted(lqEntry[l]))
      BY <2>1, <1>0, LiftedIs
    <3>2. now \in 0 .. MaxTime
      BY <1>0
    <3>3. QED  BY <3>1, <3>2 DEF LQ!Entries, Spotless
  <2> HIDE DEF l, c
  <2>5. row' \in [Lines -> 0 .. MinStreak] /\ row'[l] = 0
        /\ \A k \in Lines \ {l} : row'[k] = row[k]
    BY <2>1, <2>2, <1>0 DEF Terms
  <2>6. \A f : Spotless(f) => Backed(f, row'[l])
    BY <2>5 DEF Spotless, Backed, Terms
  <2>7. CASE Spotless(lqEntry[l]) /\ disk' = disk /\ lqEntry' \in {lqEntry, e}
    <3>1. Spotless(disk[l]) /\ Spotless(lqEntry'[l])
      BY <2>7, <2>1, <2>4, <1>0 DEF Jail
    <3>2. \A k \in Lines \ {l} : lqEntry'[k] = lqEntry[k]
      BY <2>7, <1>0
    <3>3. lqEntry' \in [Lines -> LQ!Entries]
      BY <2>7, <2>4, <1>0
    <3>4. Jail'
      BY <3>1, <3>2, <2>1, <2>5, <2>6, <2>7 DEF Jail, Spotless
    <3>5. QED  BY <3>3, <3>4, <2>1, <2>2, <2>5, <2>7 DEF LQ!TypeOK
  <2>8. CASE LQ!Commit(e)
    <3>1. e \in [Lines -> LQ!Entries]
      BY <2>4, <1>0
    <3>2. \A k \in Lines : Backed(e[k], row'[k])
      BY <2>1, <2>4, <2>5, <2>6, <1>0 DEF Jail
    <3> HIDE DEF e
    <3>3. lqEntry' \in [Lines -> LQ!Entries] /\ disk' \in [Lines -> LQ!Entries] /\ Jail'
      BY <3>1, <3>2, <2>5, <2>8, <1>0, Written
    <3>4. QED  BY <3>3, <2>1, <2>2, <2>5 DEF LQ!TypeOK
  <2>9. Spotless(LQ!Clear)
    BY DEF Spotless, LQ!Clear
  <2>10. QED  BY <2>3, <2>7, <2>8, <2>9
<1>4. ASSUME NEW r \in Reqs, LQ!AnswerOther(r)  PROVE JailInv'
  BY <1>4 DEF LQ!AnswerOther, LQ!Land, LQ!TypeOK, Jail
<1>5. ASSUME NEW l \in Lines, LQ!ProbeHealthy(l)  PROVE JailInv'
  <2> DEFINE e == [lqEntry EXCEPT ![l] = LQ!Lifted(@)]
  <2>1. LQ!Commit(e) /\ row' = [row EXCEPT ![l] = 0] /\ UNCHANGED <<now, gen, flight, retired>>
    BY <1>5 DEF LQ!ProbeHealthy, LQ!Forgive
  <2>2. row' \in [Lines -> 0 .. MinStreak] /\ row'[l] = 0
        /\ \A k \in Lines \ {l} : row'[k] = row[k]
    BY <2>1, <1>0 DEF Terms
  <2>3. LQ!Lifted(lqEntry[l]) \in LQ!Entries /\ Backed(LQ!Lifted(lqEntry[l]), 0)
    BY <1>0, LiftedIs DEF Spotless, Backed, Terms
  <2>4. e \in [Lines -> LQ!Entries]
    BY <2>3, <1>0
  <2>5. \A k \in Lines : Backed(e[k], row'[k])
    BY <2>2, <2>3, <1>0 DEF Jail
  <2> HIDE DEF e
  <2>6. lqEntry' \in [Lines -> LQ!Entries] /\ disk' \in [Lines -> LQ!Entries] /\ Jail'
    BY <2>1, <2>2, <2>4, <2>5, <1>0, Written
  <2>7. QED  BY <2>1, <2>2, <2>6 DEF LQ!TypeOK
<1>6. ASSUME NEW l \in Lines, LQ!ProbeFailed(l)  PROVE JailInv'
  <2>1. LQ!Commit(lqEntry) /\ UNCHANGED <<now, gen, flight, row>>
        /\ retired' \in {retired, retired \cup {l}}
    BY <1>6 DEF LQ!ProbeFailed
  <2>2. lqEntry' \in [Lines -> LQ!Entries] /\ disk' \in [Lines -> LQ!Entries] /\ Jail'
    BY <2>1, <1>0, Written DEF Jail
  <2>3. QED  BY <2>1, <2>2 DEF LQ!TypeOK
<1>7. ASSUME NEW l \in Lines, LQ!Edit(l)  PROVE JailInv'
  <2>1. gen' \in [Lines -> 1 .. MaxGen]
        /\ UNCHANGED <<now, lqEntry, disk, flight, retired, row>>
    BY <1>7 DEF LQ!Edit, LQ!TypeOK, Terms
  <2>2. QED  BY <2>1 DEF LQ!TypeOK, Jail
<1>8. CASE LQ!Restart
  <2>1. \A l \in Lines : disk[l].until <= disk[l].until
    BY <1>0 DEF LQ!Entries
  <2>2. QED  BY <1>8, <2>1 DEF LQ!Restart, LQ!TypeOK, Jail
<1>9. CASE LQ!Tick
  <2>1. now' \in 1 .. MaxTime /\ UNCHANGED <<gen, lqEntry, disk, flight, retired, row>>
    BY <1>9, <1>0 DEF LQ!Tick, Terms
  <2>2. QED  BY <2>1 DEF LQ!TypeOK, Jail
<1>10. CASE UNCHANGED LQ!vars
  BY <1>10 DEF LQ!vars, LQ!TypeOK, Jail
<1>11. QED
  BY <1>1, <1>2, <1>3, <1>4, <1>5, <1>6, <1>7, <1>8, <1>9, <1>10 DEF LQ!Next

\* Whichever part moves, the quarantine takes a step of its own or none.
LEMMA QuarantineRuns ==
    /\ RunInit => LQ!Init
    /\ [RunNext]_allVars => [LQ!Next]_LQ!vars
BY DEF RunInit, RunNext, Replay, Quarantine, Strict, Bind, Initialize, allVars, lqVars,
   LQ!vars

LEMMA SpecJailInv == ASSUME Terms PROVE RunSpec => []JailInv
<1>1. RunInit => JailInv
  BY QuarantineRuns, InitJail
<1>2. JailInv /\ [RunNext]_allVars => JailInv'
  BY QuarantineRuns, JailStep
<1>3. QED  BY <1>1, <1>2, PTL DEF RunSpec

\* A running quarantine is cut short by a success or by a new record alone: what is dropped
\* has run out, and what a restart reads from the disk lasts as long.
LEMMA Freed ==
    ASSUME Terms, JailInv, LQ!Next, NEW l \in Lines,
           lqEntry'[l].until < lqEntry[l].until, LQ!Blocked(l)
    PROVE  LQ!Succeeded(l) \/ LQ!NewBook(l)
<1>0. now \in 1 .. MaxTime /\ lqEntry \in [Lines -> LQ!Entries] /\ disk \in [Lines -> LQ!Entries]
  BY DEF LQ!TypeOK, JailInv
<1>1. lqEntry[l].until \in Nat /\ lqEntry[l].until > now
  BY <1>0 DEF LQ!Blocked, LQ!Entries
<1>2. lqEntry'[l] # lqEntry[l]
  BY <1>1
<1>3. ASSUME NEW r \in Reqs, LQ!Answer405(r)  PROVE LQ!NewBook(l)
  <2> DEFINE k == flight[r].line
             g == flight[r].gen
             hit == LQ!Hit(lqEntry[k], g)
  <2>1. k \in Lines /\ g \in 1 .. MaxGen
    BY <1>3 DEF LQ!Answer405, LQ!Land, LQ!TypeOK, JailInv
  <2>2. \/ lqEntry' = [lqEntry EXCEPT ![k] = hit]
        \/ LQ!Commit([lqEntry EXCEPT ![k] = LQ!Jail(hit)])
    BY <1>3 DEF LQ!Answer405
  <2>3. hit \in LQ!Entries /\ hit.gen = g /\ hit.last = now /\ hit.streak >= 1
        /\ (lqEntry[k].gen = g => hit.until = lqEntry[k].until)
    BY <2>1, <1>0, HitIs
  <2> HIDE DEF hit, g, k
  <2>4. LQ!Jail(hit) \in LQ!Entries /\ LQ!Jail(hit).gen = g /\ LQ!Jail(hit).last = now
        /\ LQ!Jail(hit).streak >= 1
        /\ LQ!Jail(hit).until >= hit.until
    BY <2>3, <1>0, JailIs
  <2>5. PICK e \in {hit, LQ!Jail(hit)} :
          \/ lqEntry' = [lqEntry EXCEPT ![k] = e]
          \/ LQ!Commit([lqEntry EXCEPT ![k] = e])
    BY <2>2
  <2>6. e \in LQ!Entries /\ e.gen = g /\ e.last = now /\ e.streak >= 1
        /\ (lqEntry[k].gen = g => e.until >= lqEntry[k].until)
    <3>1. \A f \in LQ!Entries : f.until \in Nat
      BY DEF LQ!Entries
    <3>2. QED  BY <2>3, <2>4, <2>5, <3>1, <1>0, <2>1
  <2> DEFINE b == [lqEntry EXCEPT ![k] = e]
  <2>7. b \in [Lines -> LQ!Entries] /\ (l # k => b[l] = lqEntry[l]) /\ (l = k => b[l] = e)
    BY <2>6, <1>0, <2>1
  <2> HIDE DEF b
  <2>8. \/ lqEntry'[l] = b[l]
        \/ lqEntry'[l] = LQ!Clear /\ b[l].until <= now /\ b[l].last + JailTTL < now
    <3>1. CASE lqEntry' = b
      BY <3>1
    <3>2. CASE LQ!Commit(b)
      BY <3>2, <2>7, <1>0, CommitIs
    <3>3. QED  BY <3>1, <3>2, <2>5 DEF b
  <2>9. l = k
    BY <2>7, <2>8, <1>1, <1>2, <1>0
  <2>10. lqEntry[k].gen # g
    <3> SUFFICES ASSUME lqEntry[k].gen = g PROVE FALSE
      OBVIOUS
    <3>1. e.until \in Nat /\ e.until > now /\ e.until >= lqEntry[l].until
      BY <2>6, <2>9, <1>0, <1>1 DEF LQ!Entries
    <3>2. lqEntry'[l] = e
      BY <3>1, <2>7, <2>8, <2>9, <1>0
    <3>3. QED  BY <3>1, <3>2, <1>1
  <2>11. lqEntry'[l] = e
    BY <2>6, <2>7, <2>8, <2>9, <1>0 DEF Terms
  <2>12. QED  BY <2>6, <2>9, <2>10, <2>11 DEF LQ!NewBook, LQ!Clear
<1>4. ASSUME NEW e \in [Lines -> LQ!Entries], LQ!Commit(e), e[l] = lqEntry[l]  PROVE FALSE
  BY <1>4, <1>0, <1>1, <1>2, CommitIs
<1>5. ASSUME NEW r \in Reqs, LQ!AnswerOK(r)  PROVE LQ!Succeeded(l)
  <2> DEFINE k == flight[r].line
             c == [LQ!Lifted(lqEntry[k]) EXCEPT !.last = now]
             e == [lqEntry EXCEPT ![k] = c]
  <2>1. k \in Lines /\ flight[r] # None
    BY <1>5 DEF LQ!AnswerOK, LQ!Land, LQ!TypeOK, JailInv
  <2>2. lqEntry' \in {lqEntry, e} \/ LQ!Commit(e)
    BY <1>5 DEF LQ!AnswerOK
  <2>3. c \in LQ!Entries
    <3>1. LQ!Lifted(lqEntry[k]) \in LQ!Entries
      BY <2>1, <1>0, LiftedIs
    <3>2. QED  BY <3>1, <1>0 DEF LQ!Entries
  <2>4. e \in [Lines -> LQ!Entries] /\ (l # k => e[l] = lqEntry[l])
    BY <2>3, <1>0
  <2> HIDE DEF e, k
  <2>5. l = k
    BY <2>2, <2>4, <1>2, <1>4
  <2>6. QED  BY <2>1, <2>5, <1>5 DEF LQ!Succeeded, k
<1>6. ASSUME NEW k \in Lines, LQ!ProbeHealthy(k)  PROVE LQ!Succeeded(l)
  <2> DEFINE e == [lqEntry EXCEPT ![k] = LQ!Lifted(@)]
  <2>1. LQ!Commit(e)
    BY <1>6 DEF LQ!ProbeHealthy
  <2>2. LQ!Lifted(lqEntry[k]) \in LQ!Entries
    BY <1>0, LiftedIs
  <2>3. e \in [Lines -> LQ!Entries] /\ (l # k => e[l] = lqEntry[l])
    BY <2>2, <1>0
  <2> HIDE DEF e
  <2>4. l = k
    BY <2>1, <2>3, <1>4
  <2>5. QED  BY <2>4, <1>6 DEF LQ!Succeeded
<1>7. ASSUME NEW k \in Lines, LQ!ProbeFailed(k)  PROVE FALSE
  <2>1. LQ!Commit(lqEntry)
    BY <1>7 DEF LQ!ProbeFailed
  <2>2. QED  BY <2>1, <1>0, <1>4
<1>8. ASSUME LQ!Restart  PROVE FALSE
  <2>1. lqEntry'[l] = disk[l] /\ lqEntry[l].until <= disk[l].until
    BY <1>8 DEF LQ!Restart, JailInv, Jail
  <2>2. disk[l].until \in Nat
    BY <1>0 DEF LQ!Entries
  <2>3. QED  BY <2>1, <2>2, <1>1
<1>9. ~UNCHANGED lqEntry
  BY <1>2
<1>10. QED
  BY <1>3, <1>5, <1>6, <1>7, <1>8, <1>9
  DEF LQ!Next, LQ!Dispatch, LQ!AnswerOther, LQ!Edit, LQ!Tick

\* A line is retired by a failed probe only while it has strikes, which a row backs.
LEMMA Guilty ==
    ASSUME Terms, JailInv, LQ!Next, NEW l \in retired' \ retired
    PROVE  lqEntry[l].strikes >= RetireStrikes /\ row[l] = MinStreak
<1>0. now \in 1 .. MaxTime /\ lqEntry \in [Lines -> LQ!Entries]
  BY DEF LQ!TypeOK, JailInv
<1>1. l \in Lines /\ LQ!ProbeFailed(l) /\ LQ!Repeated(lqEntry'[l])
  BY DEF LQ!Next, LQ!Dispatch, LQ!Answer405, LQ!AnswerOK, LQ!AnswerOther, LQ!ProbeHealthy,
     LQ!ProbeFailed, LQ!Edit, LQ!Restart, LQ!Tick
<1>2. LQ!Commit(lqEntry)
  BY <1>1 DEF LQ!ProbeFailed
<1>3. lqEntry'[l] \in {lqEntry[l], LQ!Clear}
  BY <1>0, <1>1, <1>2, CommitIs
<1>4. lqEntry[l].strikes >= RetireStrikes
  BY <1>1, <1>3 DEF LQ!Repeated, LQ!Clear, Terms
<1>5. lqEntry[l].strikes > 0
  BY <1>0, <1>1, <1>4 DEF LQ!Entries, Terms
<1>6. QED  BY <1>1, <1>4, <1>5 DEF JailInv, Jail, Backed

\* A line is quarantined after a row of 405 without a success in between, through restarts,
\* edits and prunings; only a success or an edit cuts the term short; only a line with
\* strikes no success has cleared is retired (line405.go).
THEOREM LinesJustice == ASSUME Terms PROVE RunSpec => LineJustice
<1>1. JailInv => LQ!TypeOK /\ LQ!JailNeedsARow
  <2> SUFFICES ASSUME JailInv, NEW l \in Lines, LQ!Blocked(l)  PROVE row[l] = MinStreak
    BY DEF JailInv, LQ!JailNeedsARow
  <2>1. now \in 1 .. MaxTime /\ lqEntry[l] \in LQ!Entries
    BY DEF JailInv, LQ!TypeOK
  <2>2. lqEntry[l].until > 0
    BY <2>1 DEF LQ!Blocked, LQ!Entries
  <2>3. QED  BY <2>2 DEF JailInv, Jail, Backed
<1>2. JailInv /\ [RunNext]_allVars =>
        [\A l \in Lines : lqEntry'[l].until < lqEntry[l].until /\ LQ!Blocked(l)
                            => LQ!Succeeded(l) \/ LQ!NewBook(l)]_LQ!vars
  BY Freed, QuarantineRuns
<1>3. JailInv /\ [RunNext]_allVars =>
        [\A l \in retired' \ retired :
            lqEntry[l].strikes >= RetireStrikes /\ row[l] = MinStreak]_LQ!vars
  BY Guilty, QuarantineRuns
<1>4. QED
  BY SpecJailInv, <1>1, <1>2, <1>3, PTL
  DEF RunSpec, LineJustice, LQ!OnlySuccessFrees, LQ!RetiredIsGuilty

(***************************************************************************)
(* The strict rule.                                                        *)
(***************************************************************************)

Counts == {MaxFaults, MaxDecisions, MaxLeases} \subseteq Nat

\* The memory has been read from the two media.
Loaded == up \/ op.by = "load"

\* Who holds the mutex, and how far the operation is.
Holder ==
    /\ op.at = "idle" <=> op = SP!Idle
    /\ op # SP!Idle => (up <=> op.by # "load")
    /\ op.at = "commit" => op.line \in StrictLines /\ blocks[op.line] = SP!Retiring
    /\ op.at = "lifted" => /\ op.line \in StrictLines /\ up
                           /\ journal[op.line] = SP!Nothing /\ blocks[op.line] = SP!Removed
    /\ op.by = "retry" => retry.at = "attempt" /\ retry.left > 0
    /\ retry.at = "wait" => retry.left > 0

\* What is in force is held in memory; only a start may hold more, what a decision wrote
\* into the journal before its process forgot it.
Remembers ==
    Loaded =>
        \A l \in StrictLines :
            /\ force[l] # SP!Nothing => blocks[l] # SP!Nothing
            /\ blocks[l] # SP!Nothing
                 => force[l] # SP!Nothing \/ (~up /\ blocks[l] = SP!Retiring)

\* The memory is never behind the media, and a line that is out is out in both.
Agrees ==
    Loaded =>
        \A l \in StrictLines :
            /\ blocks[l] = SP!Nothing => db.blocks[l] = SP!Nothing /\ journal[l] = SP!Nothing
            /\ blocks[l] = SP!Removed <=> db.blocks[l] = SP!Removed
            /\ blocks[l] = SP!Removed => l \notin spProfiles

\* What the media alone say: enough to bring back every decision that is durable.
Media ==
    \A l \in StrictLines :
        /\ force[l] = "durable" => db.blocks[l] # SP!Nothing \/ journal[l] # SP!Nothing
        /\ journal[l] = SP!Removed => db.blocks[l] = SP!Removed
        /\ db.blocks[l] = SP!Removed => force[l] = "durable" /\ l \notin db.profiles
        /\ ~up => force[l] # "process"

StrictInv == SP!TypeOK /\ Holder /\ Remembers /\ Agrees /\ Media

OpSet == [at : {"idle", "commit", "rewrite", "lifted", "unpause", "unpaused", "sweep"},
          by : {SP!Nothing, "decision", "retry", "admin", "load"},
          line : StrictLines \cup {SP!Nothing}]
RetrySet == [at : {SP!Nothing, "wait", "attempt", "ending"}, left : 0 .. SP!Retries]
DbSet == [blocks : [StrictLines -> SP!BlockStates], paused : BOOLEAN,
          profiles : SUBSET StrictLines]

\* A record of the operation keeps the fields that are not assigned.
LEMMA OpAt ==
  ASSUME NEW o \in OpSet,
         NEW a \in {"commit", "rewrite", "lifted", "unpause", "unpaused", "sweep"}
  PROVE  LET p == [o EXCEPT !.at = a]
         IN p \in OpSet /\ p.at = a /\ p.by = o.by /\ p.line = o.line /\ p # SP!Idle
  BY DEF OpSet, SP!Idle

\* The end of an operation that could not be carried through.
LEMMA FailedEnds ==
  ASSUME op \in OpSet, retry \in RetrySet, Holder, op # SP!Idle, up \in BOOLEAN,
         owed \in BOOLEAN, SP!Failed
  PROVE  /\ op' = SP!Idle /\ up' = up /\ owed' \in BOOLEAN
         /\ retry' \in RetrySet
         /\ retry'.at = "wait" => retry'.left > 0
<1> USE DEF OpSet, RetrySet, Holder, SP!Failed, SP!Schedule, SP!Retries, SP!Nothing
<1>1. CASE op.by = "decision"
  <2>1. op' = SP!Idle /\ up' = up /\ owed' = TRUE /\ SP!Schedule  BY <1>1
  <2>2. CASE retry.at = SP!Nothing
    <3>1. retry' = [at |-> "wait", left |-> 3]  BY <2>1, <2>2
    <3>2. QED  BY <2>1, <3>1
  <2>3. CASE retry.at # SP!Nothing
    BY <2>1, <2>3
  <2>4. QED  BY <2>2, <2>3
<1>2. CASE op.by = "retry"
  <2>1. /\ op' = SP!Idle /\ up' = up /\ owed' = owed
        /\ retry' = [at |-> IF retry.left > 1 THEN "wait" ELSE "ending",
                     left |-> retry.left - 1]
    BY <1>2
  <2>2. retry.left \in 1 .. 3  BY <1>2
  <2>3. retry' \in RetrySet  BY <2>1, <2>2
  <2>4. retry'.at = "wait" => retry'.left > 0  BY <2>1, <2>2
  <2>5. QED  BY <2>1, <2>3, <2>4
<1>3. CASE op.by \in {"admin", "load"}
  BY <1>3
<1>4. QED  BY <1>1, <1>2, <1>3

LEMMA InitStrict == ASSUME Counts, SP!Init PROVE StrictInv
<1> USE DEF SP!Init, SP!Idle, SP!NoRetry, SP!Unblocked, SP!Nothing, SP!Retiring, SP!Removed
<1>1. op \in OpSet /\ retry \in RetrySet
  BY DEF OpSet, RetrySet, SP!Retries
<1>2. db \in DbSet
  BY DEF DbSet, SP!BlockStates
<1>3. spFaults \in 0 .. MaxFaults /\ decisions \in 0 .. MaxDecisions
  BY DEF Counts
<1>4. leases \in [StrictLines -> 0 .. MaxLeases]
  BY DEF Counts
<1>5. force \in [StrictLines -> {SP!Nothing, "process", "durable"}]
  OBVIOUS
<1>6. blocks \in [StrictLines -> SP!BlockStates] /\ journal \in [StrictLines -> SP!BlockStates]
  BY DEF SP!BlockStates
<1>7. SP!TypeOK
  BY <1>1, <1>2, <1>3, <1>4, <1>5, <1>6 DEF SP!TypeOK, OpSet, RetrySet, DbSet
<1>8. Holder /\ Remembers /\ Agrees /\ Media
  BY DEF Holder, Remembers, Agrees, Media, Loaded
<1>9. QED  BY <1>7, <1>8 DEF StrictInv

LEMMA Faults ==
  ASSUME Counts, SP!TypeOK, SP!Works \/ SP!Fault
  PROVE  spFaults' \in 0 .. MaxFaults
  BY DEF Counts, SP!TypeOK, SP!Works, SP!Fault

\* The type, part by part.
LEMMA StrictTypes ==
  ASSUME up' \in BOOLEAN, paused' \in BOOLEAN, owed' \in BOOLEAN,
         blocks' \in [StrictLines -> SP!BlockStates],
         journal' \in [StrictLines -> SP!BlockStates],
         spProfiles' \subseteq StrictLines, db' \in DbSet, op' \in OpSet,
         retry' \in RetrySet, leases' \in [StrictLines -> 0 .. MaxLeases],
         force' \in [StrictLines -> {SP!Nothing, "process", "durable"}],
         spFaults' \in 0 .. MaxFaults, decisions' \in 0 .. MaxDecisions
  PROVE  SP!TypeOK'
  BY DEF SP!TypeOK, OpSet, RetrySet, DbSet

LEMMA CommittedTypes ==
  ASSUME NEW b \in [StrictLines -> SP!BlockStates], NEW p \in BOOLEAN,
         NEW q \in SUBSET StrictLines, SP!Committed(b, p, q)
  PROVE  /\ blocks' \in [StrictLines -> SP!BlockStates] /\ paused' \in BOOLEAN
         /\ spProfiles' \in SUBSET StrictLines /\ db' \in DbSet
  BY DEF SP!Committed, SP!Memory, DbSet

LEMMA DurableTypes ==
  ASSUME force \in [StrictLines -> {SP!Nothing, "process", "durable"}],
         NEW b \in [StrictLines -> SP!BlockStates]
  PROVE  SP!Durable(b) \in [StrictLines -> {SP!Nothing, "process", "durable"}]
  BY DEF SP!Durable

LEMMA IdleIs ==
  SP!Idle.at = "idle" /\ SP!Idle.by = SP!Nothing /\ SP!Idle \in OpSet
  BY DEF SP!Idle, OpSet

LEMMA StrictStep == ASSUME Counts, StrictInv, [SP!Next]_SP!vars  PROVE StrictInv'
<1> USE IdleIs DEF StrictInv, SP!NoRetry, SP!Unblocked, SP!Nothing, SP!Retiring, SP!Removed
<1>1. ASSUME NEW l \in StrictLines, SP!Decide(l)  PROVE StrictInv'
  <2>a. op \in OpSet /\ retry \in RetrySet /\ db \in DbSet /\ up /\ op = SP!Idle
    BY <1>1 DEF SP!TypeOK, OpSet, RetrySet, DbSet, SP!Decide
  <2>b. decisions' \in 0 .. MaxDecisions /\ leases' = leases /\ up' = up
    BY <1>1 DEF SP!Decide, SP!TypeOK, Counts
  <2>c. blocks' \in [StrictLines -> SP!BlockStates]
    BY <1>1 DEF SP!Decide, SP!TypeOK, SP!BlockStates
  <2>d. spFaults' \in 0 .. MaxFaults
    <3>1. SP!Works \/ SP!Fault
      BY <1>1 DEF SP!Decide, SP!DecideWritten, SP!DecideUnwritten
    <3>2. QED  BY <3>1, Faults
  <2>e. ASSUME SP!DecideWritten(l)
        PROVE  SP!TypeOK' /\ Holder'
    <3>1. /\ op' = [at |-> "commit", by |-> "decision", line |-> l]
          /\ retry' = retry /\ owed' = owed /\ paused' = paused
          /\ spProfiles' = spProfiles /\ db' = db
          /\ journal' = [blocks EXCEPT ![l] = SP!Retiring]
          /\ force' = [force EXCEPT ![l] = "durable"]
          /\ blocks' = [blocks EXCEPT ![l] = SP!Retiring]
      BY <1>1, <2>e DEF SP!DecideWritten, SP!Decide
    <3>2. /\ op' \in OpSet /\ op' # SP!Idle /\ op'.at = "commit" /\ op'.line = l
          /\ op'.by = "decision"
      BY <3>1 DEF OpSet
    <3>3. journal' \in [StrictLines -> SP!BlockStates]
      BY <3>1 DEF SP!TypeOK, SP!BlockStates
    <3>4. force' \in [StrictLines -> {SP!Nothing, "process", "durable"}]
      BY <3>1 DEF SP!TypeOK
    <3>5. SP!TypeOK'
      BY <2>a, <2>b, <2>c, <2>d, <3>1, <3>2, <3>3, <3>4, StrictTypes DEF SP!TypeOK
    <3>6. blocks'[l] = SP!Retiring  BY <3>1 DEF SP!TypeOK
    <3>7. Holder'
      BY <2>a, <2>b, <3>1, <3>2, <3>6 DEF Holder
    <3>8. QED  BY <3>5, <3>7
  <2>f. ASSUME SP!DecideUnwritten(l)
        PROVE  SP!TypeOK' /\ Holder'
    <3>1. op' = op /\ journal' = journal /\ SP!Schedule
      BY <2>f DEF SP!DecideUnwritten
    <3>2. retry' \in RetrySet /\ owed' = TRUE /\ (retry'.at = "wait" => retry'.left > 0)
      BY <2>a, <3>1 DEF SP!Schedule, RetrySet, SP!Retries, Holder
    <3>3. ASSUME SP!Committed(blocks', TRUE, spProfiles)
                 /\ force' = [k \in StrictLines |->
                                IF blocks'[k] # SP!Nothing THEN "durable" ELSE force[k]]
          PROVE  SP!TypeOK'
      <4>1. paused' \in BOOLEAN /\ spProfiles' \in SUBSET StrictLines /\ db' \in DbSet
        BY <2>c, <3>3, CommittedTypes DEF SP!TypeOK
      <4>2. force' \in [StrictLines -> {SP!Nothing, "process", "durable"}]
        BY <3>3 DEF SP!TypeOK
      <4>3. QED
        BY <2>a, <2>b, <2>c, <2>d, <3>1, <3>2, <4>1, <4>2, StrictTypes DEF SP!TypeOK
    <3>4. ASSUME /\ paused' = TRUE
                 /\ force' = [force EXCEPT ![l] = "process"]
                 /\ UNCHANGED <<spProfiles, db>>
          PROVE  SP!TypeOK'
      <4>2. force' \in [StrictLines -> {SP!Nothing, "process", "durable"}]
        BY <3>4 DEF SP!TypeOK
      <4>3. QED
        BY <2>a, <2>b, <2>c, <2>d, <3>1, <3>2, <3>4, <4>2, StrictTypes DEF SP!TypeOK
    <3>5. SP!TypeOK'
      BY <2>f, <3>3, <3>4 DEF SP!DecideUnwritten
    <3>6. Holder'
      BY <2>a, <2>b, <3>1, <3>2 DEF Holder
    <3>7. QED  BY <3>5, <3>6
  <2>1. SP!TypeOK' /\ Holder'
    BY <1>1, <2>e, <2>f DEF SP!Decide
  <2>2. Holder'  BY <2>1
  <2>3. Remembers' /\ Agrees' /\ Media'
    BY <1>1 DEF SP!TypeOK, SP!BlockStates, SP!Idle, Holder, Loaded, Remembers, Agrees,
       Media, SP!Decide, SP!DecideWritten, SP!DecideUnwritten, SP!Schedule, SP!Committed,
       SP!Memory, SP!Works, SP!Fault, SP!mem, SP!lock
  <2>4. QED  BY <2>1, <2>2, <2>3
<1>2. CASE SP!RetireCommit
  <2>a. /\ op \in OpSet /\ retry \in RetrySet /\ db \in DbSet /\ op.at = "commit"
        /\ op # SP!Idle /\ leases' = leases /\ decisions' = decisions
        /\ (SP!Works \/ SP!Fault)
    BY <1>2 DEF SP!TypeOK, OpSet, RetrySet, DbSet, SP!RetireCommit, SP!mem
  <2>b. spFaults' \in 0 .. MaxFaults  BY <2>a, Faults
  <2>c. ASSUME SP!Fault /\ SP!Failed /\ UNCHANGED <<SP!mem, db, force>>
        PROVE  SP!TypeOK' /\ Holder'
    <3>1. /\ op' = SP!Idle /\ up' = up /\ owed' \in BOOLEAN /\ retry' \in RetrySet
          /\ retry'.at = "wait" => retry'.left > 0
      BY <2>a, <2>c, FailedEnds DEF SP!TypeOK
    <3>2. UNCHANGED <<SP!mem, journal, db, force>>
      BY <1>2, <2>c DEF SP!RetireCommit, SP!mem
    <3>3. op' \in OpSet  BY <3>1 DEF OpSet
    <3>4. SP!TypeOK'
      BY <2>a, <2>b, <3>1, <3>2, <3>3, StrictTypes DEF SP!TypeOK, SP!mem
    <3>5. Holder'
      BY <2>a, <3>1 DEF Holder
    <3>6. QED  BY <3>4, <3>5
  <2>d. ASSUME /\ SP!Works
               /\ SP!Committed([blocks EXCEPT ![op.line] = SP!Removed], paused,
                               spProfiles \ {op.line})
               /\ force' = SP!Durable(blocks)
               /\ SP!To("rewrite") /\ UNCHANGED <<up, retry, owed>>
        PROVE  SP!TypeOK' /\ Holder'
    <3>1. [blocks EXCEPT ![op.line] = SP!Removed] \in [StrictLines -> SP!BlockStates]
      BY DEF SP!TypeOK, SP!BlockStates
    <3>2. spProfiles \ {op.line} \in SUBSET StrictLines  BY DEF SP!TypeOK
    <3>3. /\ blocks' \in [StrictLines -> SP!BlockStates] /\ paused' \in BOOLEAN
          /\ spProfiles' \in SUBSET StrictLines /\ db' \in DbSet
      BY <2>d, <3>1, <3>2, CommittedTypes DEF SP!TypeOK
    <3>4. force' \in [StrictLines -> {SP!Nothing, "process", "durable"}]
      BY <2>d, DurableTypes DEF SP!TypeOK
    <3>5. /\ op' \in OpSet /\ op'.at = "rewrite" /\ op'.by = op.by /\ op' # SP!Idle
      BY <2>a, <2>d, OpAt DEF SP!To
    <3>6. journal' = journal  BY <1>2 DEF SP!RetireCommit
    <3>7. SP!TypeOK'
      BY <2>a, <2>b, <2>d, <3>3, <3>4, <3>5, <3>6, StrictTypes DEF SP!TypeOK
    <3>8. Holder'
      BY <2>a, <2>d, <3>5 DEF Holder
    <3>9. QED  BY <3>7, <3>8
  <2>1. SP!TypeOK' /\ Holder'
    BY <1>2, <2>c, <2>d DEF SP!RetireCommit
  <2>2. Holder'  BY <2>1
  <2>3. Remembers' /\ Agrees' /\ Media'
    BY <1>2 DEF SP!TypeOK, SP!BlockStates, SP!Idle, Holder, Loaded, Remembers, Agrees,
       Media, SP!RetireCommit, SP!Committed, SP!Memory, SP!Works, SP!Fault, SP!Failed,
       SP!Schedule, SP!To, SP!Durable, SP!mem, SP!lock
  <2>4. QED  BY <2>1, <2>2, <2>3
<1>3. CASE SP!RetireRewrite
  <2>a. /\ op \in OpSet /\ retry \in RetrySet /\ db \in DbSet /\ op.at = "rewrite"
        /\ op # SP!Idle /\ leases' = leases /\ decisions' = decisions
        /\ (SP!Works \/ SP!Fault)
    BY <1>3 DEF SP!TypeOK, OpSet, RetrySet, DbSet, SP!RetireRewrite, SP!mem
  <2>b. spFaults' \in 0 .. MaxFaults  BY <2>a, Faults
  <2>c. ASSUME SP!Fault /\ SP!Failed /\ UNCHANGED <<journal, force>>
        PROVE  SP!TypeOK' /\ Holder'
    <3>1. /\ op' = SP!Idle /\ up' = up /\ owed' \in BOOLEAN /\ retry' \in RetrySet
          /\ retry'.at = "wait" => retry'.left > 0
      BY <2>a, <2>c, FailedEnds DEF SP!TypeOK
    <3>2. UNCHANGED <<SP!mem, journal, db, force>>
      BY <1>3, <2>c DEF SP!RetireRewrite, SP!mem
    <3>3. op' \in OpSet  BY <3>1 DEF OpSet
    <3>4. SP!TypeOK'
      BY <2>a, <2>b, <3>1, <3>2, <3>3, StrictTypes DEF SP!TypeOK, SP!mem
    <3>5. Holder'
      BY <2>a, <3>1 DEF Holder
    <3>6. QED  BY <3>4, <3>5
  <2>d. ASSUME /\ SP!Works
               /\ journal' = blocks
               /\ force' = SP!Durable(blocks)
               /\ IF op.by = "decision" THEN op' = SP!Idle
                  ELSE op' = [op EXCEPT !.at = "sweep", !.line = SP!Nothing]
               /\ UNCHANGED <<up, retry, owed>>
        PROVE  SP!TypeOK' /\ Holder'
    <3>1. force' \in [StrictLines -> {SP!Nothing, "process", "durable"}]
      BY <2>d, DurableTypes DEF SP!TypeOK
    <3>2. \/ op' = SP!Idle /\ op' \in OpSet /\ op.by = "decision"
          \/ op' \in OpSet /\ op'.at = "sweep" /\ op'.by = op.by /\ op' # SP!Idle
      <4>1. CASE op.by = "decision"
        BY <2>d, <4>1 DEF OpSet
      <4>2. CASE op.by # "decision"
        <5>1. op' = [op EXCEPT !.at = "sweep", !.line = SP!Nothing]  BY <2>d, <4>2
        <5>2. QED  BY <2>a, <4>2, <5>1 DEF OpSet, SP!Idle
      <4>3. QED  BY <4>1, <4>2
    <3>3. UNCHANGED <<blocks, paused, spProfiles, db>>
      BY <1>3 DEF SP!RetireRewrite, SP!mem
    <3>4. SP!TypeOK'
      BY <2>a, <2>b, <2>d, <3>1, <3>2, <3>3, StrictTypes DEF SP!TypeOK
    <3>5. Holder'
      BY <2>a, <2>d, <3>2 DEF Holder
    <3>6. QED  BY <3>4, <3>5
  <2>1. SP!TypeOK' /\ Holder'
    BY <1>3, <2>c, <2>d DEF SP!RetireRewrite
  <2>2. Holder'  BY <2>1
  <2>3. Remembers' /\ Agrees' /\ Media'
    BY <1>3 DEF SP!TypeOK, SP!BlockStates, SP!Idle, Holder, Loaded, Remembers, Agrees,
       Media, SP!RetireRewrite, SP!Works, SP!Fault, SP!Failed, SP!Schedule, SP!Durable,
       SP!mem, SP!lock
  <2>4. QED  BY <2>1, <2>2, <2>3
<1>4. CASE SP!Attempt
  <2>1. SP!TypeOK'
    BY <1>4 DEF SP!TypeOK, SP!BlockStates, SP!Idle, SP!Retries, Counts, Holder,
       SP!Attempt, SP!Recovering, SP!mem, SP!lock
  <2>2. Holder'
    BY <1>4 DEF SP!TypeOK, SP!BlockStates, SP!Idle, Holder, Loaded, Remembers, Agrees,
       Media, SP!Attempt, SP!Recovering, SP!mem, SP!lock
  <2>3. Remembers' /\ Agrees' /\ Media'
    BY <1>4 DEF SP!TypeOK, SP!BlockStates, SP!Idle, Holder, Loaded, Remembers, Agrees,
       Media, SP!Attempt, SP!Recovering, SP!mem, SP!lock
  <2>4. QED  BY <2>1, <2>2, <2>3
<1>5. CASE SP!AdminRecovers
  <2>1. SP!TypeOK'
    BY <1>5 DEF SP!TypeOK, SP!BlockStates, SP!Idle, SP!Retries, Counts, Holder,
       SP!AdminRecovers, SP!Recovering, SP!mem, SP!lock
  <2>2. Holder'
    BY <1>5 DEF SP!TypeOK, SP!BlockStates, SP!Idle, Holder, Loaded, Remembers, Agrees,
       Media, SP!AdminRecovers, SP!Recovering, SP!mem, SP!lock
  <2>3. Remembers' /\ Agrees' /\ Media'
    BY <1>5 DEF SP!TypeOK, SP!BlockStates, SP!Idle, Holder, Loaded, Remembers, Agrees,
       Media, SP!AdminRecovers, SP!Recovering, SP!mem, SP!lock
  <2>4. QED  BY <2>1, <2>2, <2>3
<1>6. CASE SP!Unpause
  <2>a. /\ op \in OpSet /\ retry \in RetrySet /\ db \in DbSet /\ op.at = "unpause"
        /\ op # SP!Idle /\ leases' = leases /\ decisions' = decisions
        /\ (SP!Works \/ SP!Fault)
    BY <1>6 DEF SP!TypeOK, OpSet, RetrySet, DbSet, SP!Unpause, SP!mem
  <2>b. spFaults' \in 0 .. MaxFaults  BY <2>a, Faults
  <2>c. ASSUME SP!Fault /\ SP!Failed /\ UNCHANGED <<journal, force>>
        PROVE  SP!TypeOK' /\ Holder'
    <3>1. /\ op' = SP!Idle /\ up' = up /\ owed' \in BOOLEAN /\ retry' \in RetrySet
          /\ retry'.at = "wait" => retry'.left > 0
      BY <2>a, <2>c, FailedEnds DEF SP!TypeOK
    <3>2. UNCHANGED <<SP!mem, journal, db, force>>
      BY <1>6, <2>c DEF SP!Unpause, SP!mem
    <3>3. op' \in OpSet  BY <3>1 DEF OpSet
    <3>4. SP!TypeOK'
      BY <2>a, <2>b, <3>1, <3>2, <3>3, StrictTypes DEF SP!TypeOK, SP!mem
    <3>5. Holder'
      BY <2>a, <3>1 DEF Holder
    <3>6. QED  BY <3>4, <3>5
  <2>d. ASSUME /\ SP!Works
               /\ journal' = blocks /\ force' = SP!Durable(blocks)
               /\ SP!To("unpaused") /\ UNCHANGED <<up, retry, owed>>
        PROVE  SP!TypeOK' /\ Holder'
    <3>1. force' \in [StrictLines -> {SP!Nothing, "process", "durable"}]
      BY <2>d, DurableTypes DEF SP!TypeOK
    <3>2. op' \in OpSet /\ op'.at = "unpaused" /\ op'.by = op.by /\ op' # SP!Idle
      BY <2>a, <2>d, OpAt DEF SP!To
    <3>3. UNCHANGED <<blocks, paused, spProfiles, db>>
      BY <1>6 DEF SP!Unpause, SP!mem
    <3>4. SP!TypeOK'
      BY <2>a, <2>b, <2>d, <3>1, <3>2, <3>3, StrictTypes DEF SP!TypeOK
    <3>5. Holder'
      BY <2>a, <2>d, <3>2 DEF Holder
    <3>6. QED  BY <3>4, <3>5
  <2>1. SP!TypeOK' /\ Holder'
    BY <1>6, <2>c, <2>d DEF SP!Unpause
  <2>2. Holder'  BY <2>1
  <2>3. Remembers' /\ Agrees' /\ Media'
    BY <1>6 DEF SP!TypeOK, SP!BlockStates, SP!Idle, Holder, Loaded, Remembers, Agrees,
       Media, SP!Unpause, SP!Works, SP!Fault, SP!Failed, SP!Schedule, SP!Durable, SP!To,
       SP!mem, SP!lock
  <2>4. QED  BY <2>1, <2>2, <2>3
<1>7. CASE SP!Unpaused
  <2>a. /\ op \in OpSet /\ retry \in RetrySet /\ db \in DbSet /\ op.at = "unpaused"
        /\ op # SP!Idle /\ leases' = leases /\ decisions' = decisions
        /\ (SP!Works \/ SP!Fault)
    BY <1>7 DEF SP!TypeOK, OpSet, RetrySet, DbSet, SP!Unpaused, SP!mem
  <2>b. spFaults' \in 0 .. MaxFaults  BY <2>a, Faults
  <2>c. ASSUME SP!Fault /\ SP!Failed /\ UNCHANGED <<SP!mem, db, force>>
        PROVE  SP!TypeOK' /\ Holder'
    <3>1. /\ op' = SP!Idle /\ up' = up /\ owed' \in BOOLEAN /\ retry' \in RetrySet
          /\ retry'.at = "wait" => retry'.left > 0
      BY <2>a, <2>c, FailedEnds DEF SP!TypeOK
    <3>2. UNCHANGED <<SP!mem, journal, db, force>>
      BY <1>7, <2>c DEF SP!Unpaused, SP!mem
    <3>3. op' \in OpSet  BY <3>1 DEF OpSet
    <3>4. SP!TypeOK'
      BY <2>a, <2>b, <3>1, <3>2, <3>3, StrictTypes DEF SP!TypeOK, SP!mem
    <3>5. Holder'
      BY <2>a, <3>1 DEF Holder
    <3>6. QED  BY <3>4, <3>5
  <2>d. ASSUME /\ SP!Works
               /\ SP!Committed(blocks, FALSE, spProfiles)
               /\ force' = SP!Durable(blocks)
               /\ SP!To("sweep") /\ UNCHANGED <<up, retry, owed>>
        PROVE  SP!TypeOK' /\ Holder'
    <3>1. /\ blocks' \in [StrictLines -> SP!BlockStates] /\ paused' \in BOOLEAN
          /\ spProfiles' \in SUBSET StrictLines /\ db' \in DbSet
      BY <2>d, CommittedTypes DEF SP!TypeOK
    <3>2. force' \in [StrictLines -> {SP!Nothing, "process", "durable"}]
      BY <2>d, DurableTypes DEF SP!TypeOK
    <3>3. op' \in OpSet /\ op'.at = "sweep" /\ op'.by = op.by /\ op' # SP!Idle
      BY <2>a, <2>d, OpAt DEF SP!To
    <3>4. journal' = journal  BY <1>7 DEF SP!Unpaused
    <3>5. SP!TypeOK'
      BY <2>a, <2>b, <2>d, <3>1, <3>2, <3>3, <3>4, StrictTypes DEF SP!TypeOK
    <3>6. Holder'
      BY <2>a, <2>d, <3>3 DEF Holder
    <3>7. QED  BY <3>5, <3>6
  <2>1. SP!TypeOK' /\ Holder'
    BY <1>7, <2>c, <2>d DEF SP!Unpaused
  <2>2. Holder'  BY <2>1
  <2>3. Remembers' /\ Agrees' /\ Media'
    BY <1>7 DEF SP!TypeOK, SP!BlockStates, SP!Idle, Holder, Loaded, Remembers, Agrees,
       Media, SP!Unpaused, SP!Committed, SP!Memory, SP!Works, SP!Fault, SP!Failed,
       SP!Schedule, SP!Durable, SP!To, SP!mem, SP!lock
  <2>4. QED  BY <2>1, <2>2, <2>3
<1>8. CASE SP!Sweep
  <2>a. /\ op \in OpSet /\ retry \in RetrySet /\ db \in DbSet /\ op.at = "sweep"
        /\ op # SP!Idle
    BY <1>8 DEF SP!TypeOK, OpSet, RetrySet, DbSet, SP!Sweep
  <2>b. UNCHANGED <<blocks, paused, spProfiles, db, journal, leases, force, owed, spFaults,
                    decisions>>
    BY <1>8 DEF SP!Sweep, SP!mem
  <2>c. ASSUME NEW l \in StrictLines, blocks[l] = SP!Retiring,
               op' = [op EXCEPT !.at = "commit", !.line = l], UNCHANGED <<up, retry>>
        PROVE  SP!TypeOK' /\ Holder'
    <3>1. /\ op' \in OpSet /\ op'.at = "commit" /\ op'.by = op.by /\ op'.line = l
          /\ op' # SP!Idle
      BY <2>a, <2>c DEF OpSet, SP!Idle
    <3>2. SP!TypeOK'
      BY <2>a, <2>b, <2>c, <3>1, StrictTypes DEF SP!TypeOK
    <3>3. Holder'
      BY <2>a, <2>b, <2>c, <3>1 DEF Holder
    <3>4. QED  BY <3>2, <3>3
  <2>d. ASSUME /\ op' = SP!Idle /\ up' = TRUE
               /\ retry' = IF op.by = "retry" THEN [retry EXCEPT !.at = "ending"] ELSE retry
        PROVE  SP!TypeOK' /\ Holder'
    <3>1. op' \in OpSet  BY <2>d DEF OpSet
    <3>2. retry' \in RetrySet /\ (retry'.at = "wait" => retry'.left > 0)
      BY <2>a, <2>d DEF RetrySet, Holder
    <3>3. SP!TypeOK'
      BY <2>a, <2>b, <2>d, <3>1, <3>2, StrictTypes DEF SP!TypeOK
    <3>4. Holder'
      BY <2>a, <2>d, <3>2 DEF Holder
    <3>5. QED  BY <3>3, <3>4
  <2>1. SP!TypeOK' /\ Holder'
    BY <1>8, <2>c, <2>d DEF SP!Sweep
  <2>2. Holder'  BY <2>1
  <2>3. Remembers'
    BY <1>8 DEF SP!TypeOK, SP!BlockStates, SP!Idle, Holder, Loaded, Remembers, Agrees,
       Media, SP!Sweep, SP!mem, SP!lock
  <2>4. Agrees'
    BY <1>8 DEF SP!TypeOK, SP!BlockStates, SP!Idle, Holder, Loaded, Remembers, Agrees,
       Media, SP!Sweep, SP!mem, SP!lock
  <2>5. Media'
    BY <1>8 DEF SP!TypeOK, SP!BlockStates, SP!Idle, Holder, Loaded, Remembers, Agrees,
       Media, SP!Sweep, SP!mem, SP!lock
  <2>6. QED  BY <2>1, <2>2, <2>3, <2>4, <2>5
<1>9. CASE SP!RetryEnds
  <2>1. SP!TypeOK'
    BY <1>9 DEF SP!TypeOK, SP!BlockStates, SP!Idle, SP!Retries, Counts, Holder,
       SP!RetryEnds, SP!mem, SP!lock
  <2>2. Holder'
    BY <1>9 DEF SP!TypeOK, SP!BlockStates, SP!Idle, Holder, Loaded, Remembers, Agrees,
       Media, SP!RetryEnds, SP!mem, SP!lock
  <2>3. Remembers' /\ Agrees' /\ Media'
    BY <1>9 DEF SP!TypeOK, SP!BlockStates, SP!Idle, Holder, Loaded, Remembers, Agrees,
       Media, SP!RetryEnds, SP!mem, SP!lock
  <2>4. QED  BY <2>1, <2>2, <2>3
<1>10. ASSUME NEW l \in StrictLines, SP!Unblock(l)  PROVE StrictInv'
  <2>1. SP!TypeOK'
    BY <1>10 DEF SP!TypeOK, SP!BlockStates, SP!Idle, SP!Retries, Counts, Holder,
       SP!Unblock, SP!mem, SP!Works, SP!Fault, SP!lock
  <2>2. Holder'
    BY <1>10 DEF SP!TypeOK, SP!BlockStates, SP!Idle, Holder, Loaded, Remembers, Agrees,
       Media, SP!Unblock, SP!mem, SP!Works, SP!Fault, SP!lock
  <2>3. Remembers' /\ Agrees' /\ Media'
    BY <1>10 DEF SP!TypeOK, SP!BlockStates, SP!Idle, Holder, Loaded, Remembers, Agrees,
       Media, SP!Unblock, SP!mem, SP!Works, SP!Fault, SP!lock
  <2>4. QED  BY <2>1, <2>2, <2>3
<1>11. CASE SP!Lift
  <2>1. SP!TypeOK'
    BY <1>11 DEF SP!TypeOK, SP!BlockStates, SP!Idle, SP!Retries, Counts, Holder, SP!Lift,
       SP!Committed, SP!Memory, SP!Works, SP!Fault, SP!mem, SP!lock
  <2>2. Holder'
    BY <1>11 DEF SP!TypeOK, SP!BlockStates, SP!Idle, Holder, Loaded, Remembers, Agrees,
       Media, SP!Lift, SP!Committed, SP!Memory, SP!Works, SP!Fault, SP!mem, SP!lock
  <2>3. Remembers' /\ Agrees' /\ Media'
    BY <1>11 DEF SP!TypeOK, SP!BlockStates, SP!Idle, Holder, Loaded, Remembers, Agrees,
       Media, SP!Lift, SP!Committed, SP!Memory, SP!Works, SP!Fault, SP!mem, SP!lock
  <2>4. QED  BY <2>1, <2>2, <2>3
<1>12. ASSUME NEW l \in StrictLines, SP!Acquire(l)  PROVE StrictInv'
  <2>1. SP!TypeOK'
    BY <1>12 DEF SP!TypeOK, SP!BlockStates, SP!Idle, SP!Retries, Counts, Holder,
       SP!Acquire, SP!mem, SP!lock
  <2>2. Holder'
    BY <1>12 DEF SP!TypeOK, SP!BlockStates, SP!Idle, Holder, Loaded, Remembers, Agrees,
       Media, SP!Acquire, SP!mem, SP!lock
  <2>3. Remembers' /\ Agrees' /\ Media'
    BY <1>12 DEF SP!TypeOK, SP!BlockStates, SP!Idle, Holder, Loaded, Remembers, Agrees,
       Media, SP!Acquire, SP!mem, SP!lock
  <2>4. QED  BY <2>1, <2>2, <2>3
<1>13. ASSUME NEW l \in StrictLines, SP!Release(l)  PROVE StrictInv'
  <2>1. SP!TypeOK'
    BY <1>13 DEF SP!TypeOK, SP!BlockStates, SP!Idle, SP!Retries, Counts, Holder,
       SP!Release, SP!mem, SP!lock
  <2>2. Holder'
    BY <1>13 DEF SP!TypeOK, SP!BlockStates, SP!Idle, Holder, Loaded, Remembers, Agrees,
       Media, SP!Release, SP!mem, SP!lock
  <2>3. Remembers' /\ Agrees' /\ Media'
    BY <1>13 DEF SP!TypeOK, SP!BlockStates, SP!Idle, Holder, Loaded, Remembers, Agrees,
       Media, SP!Release, SP!mem, SP!lock
  <2>4. QED  BY <2>1, <2>2, <2>3
<1>14. ASSUME NEW l \in StrictLines, SP!AddProfile(l)  PROVE StrictInv'
  <2>1. SP!TypeOK'
    BY <1>14 DEF SP!TypeOK, SP!BlockStates, SP!Idle, SP!Retries, Counts, Holder,
       SP!AddProfile, SP!Committed, SP!Memory, SP!Works, SP!Durable, SP!Closed, SP!lock,
       SP!mem, SP!lock
  <2>2. Holder'
    BY <1>14 DEF SP!TypeOK, SP!BlockStates, SP!Idle, Holder, Loaded, Remembers, Agrees,
       Media, SP!AddProfile, SP!Committed, SP!Memory, SP!Works, SP!Durable, SP!Closed,
       SP!lock, SP!mem, SP!lock
  <2>3. Remembers' /\ Agrees' /\ Media'
    BY <1>14 DEF SP!TypeOK, SP!BlockStates, SP!Idle, Holder, Loaded, Remembers, Agrees,
       Media, SP!AddProfile, SP!Committed, SP!Memory, SP!Works, SP!Durable, SP!Closed,
       SP!lock, SP!mem, SP!lock
  <2>4. QED  BY <2>1, <2>2, <2>3
<1>15. CASE SP!Configure
  <2>1. SP!TypeOK'
    BY <1>15 DEF SP!TypeOK, SP!BlockStates, SP!Idle, SP!Retries, Counts, Holder,
       SP!Configure, SP!Committed, SP!Memory, SP!Works, SP!Durable, SP!lock, SP!mem,
       SP!lock
  <2>2. Holder'
    BY <1>15 DEF SP!TypeOK, SP!BlockStates, SP!Idle, Holder, Loaded, Remembers, Agrees,
       Media, SP!Configure, SP!Committed, SP!Memory, SP!Works, SP!Durable, SP!lock,
       SP!mem, SP!lock
  <2>3. Remembers' /\ Agrees' /\ Media'
    BY <1>15 DEF SP!TypeOK, SP!BlockStates, SP!Idle, Holder, Loaded, Remembers, Agrees,
       Media, SP!Configure, SP!Committed, SP!Memory, SP!Works, SP!Durable, SP!lock,
       SP!mem, SP!lock
  <2>4. QED  BY <2>1, <2>2, <2>3
<1>16. CASE SP!Crash
  <2>a. /\ op' = SP!Idle /\ retry' = SP!NoRetry /\ up' = FALSE /\ owed' = FALSE
        /\ blocks' = SP!Unblocked /\ paused' = FALSE /\ spProfiles' = {}
        /\ leases' = [k \in StrictLines |-> 0]
        /\ force' = [k \in StrictLines |->
                       IF force[k] = "process" THEN SP!Nothing ELSE force[k]]
        /\ UNCHANGED <<db, journal, decisions>> /\ SP!Fault
    BY <1>16 DEF SP!Crash, SP!Memory, SP!Fault
  <2>b. op' \in OpSet /\ retry' \in RetrySet /\ db' \in DbSet
    BY <2>a DEF SP!TypeOK, OpSet, RetrySet, DbSet, SP!Retries
  <2>c. leases' \in [StrictLines -> 0 .. MaxLeases]
    BY <2>a DEF Counts
  <2>d. force' \in [StrictLines -> {SP!Nothing, "process", "durable"}]
    BY <2>a DEF SP!TypeOK
  <2>e. spFaults' \in 0 .. MaxFaults  BY <2>a, Faults
  <2>f. blocks' \in [StrictLines -> SP!BlockStates]
    BY <2>a DEF SP!BlockStates
  <2>1. SP!TypeOK'
    BY <2>a, <2>b, <2>c, <2>d, <2>e, <2>f, StrictTypes DEF SP!TypeOK
  <2>2. Holder'
    BY <2>a DEF Holder
  <2>3. Remembers' /\ Agrees' /\ Media'
    BY <1>16 DEF SP!TypeOK, SP!BlockStates, SP!Idle, Holder, Loaded, Remembers, Agrees,
       Media, SP!Crash, SP!Memory, SP!mem, SP!lock
  <2>4. QED  BY <2>1, <2>2, <2>3
<1>17. CASE SP!Start
  <2>1. SP!TypeOK'
    BY <1>17 DEF SP!TypeOK, SP!BlockStates, SP!Idle, SP!Retries, Counts, Holder, SP!Start,
       SP!Memory, SP!Merged, SP!mem, SP!lock
  <2>2. Holder'
    BY <1>17 DEF SP!TypeOK, SP!BlockStates, SP!Idle, Holder, Loaded, Remembers, Agrees,
       Media, SP!Start, SP!Memory, SP!Merged, SP!mem, SP!lock
  <2>3. Remembers' /\ Agrees' /\ Media'
    BY <1>17 DEF SP!TypeOK, SP!BlockStates, SP!Idle, Holder, Loaded, Remembers, Agrees,
       Media, SP!Start, SP!Memory, SP!Merged, SP!mem, SP!lock
  <2>4. QED  BY <2>1, <2>2, <2>3
<1>18. CASE UNCHANGED SP!vars
  BY <1>18 DEF SP!vars, SP!mem, SP!lock, SP!TypeOK, Holder, Loaded, Remembers, Agrees, Media
<1>19. QED
  BY <1>1, <1>2, <1>3, <1>4, <1>5, <1>6, <1>7, <1>8, <1>9, <1>10, <1>11, <1>12, <1>13,
     <1>14, <1>15, <1>16, <1>17, <1>18 DEF SP!Next

LEMMA StrictRuns ==
    /\ RunInit => SP!Init
    /\ [RunNext]_allVars => [SP!Next]_SP!vars
<1> USE DEF allVars, spVars, SP!vars, SP!mem, SP!lock
<1>1. RunInit => SP!Init  BY DEF RunInit
<1>2. Strict(SP!Next) => SP!Next  BY DEF Strict
<1>3. Replay(Next) \/ Quarantine(LQ!Next) \/ Bind(BI!Next) \/ Initialize(IZ!Next)
        => UNCHANGED SP!vars
  BY DEF Replay, Quarantine, Bind, Initialize
<1>4. UNCHANGED allVars => UNCHANGED SP!vars
  OBVIOUS
<1>5. QED  BY <1>1, <1>2, <1>3, <1>4 DEF RunNext

LEMMA SpecStrictInv == ASSUME Counts PROVE RunSpec => []StrictInv
<1>1. RunInit => StrictInv
  BY InitStrict, StrictRuns
<1>2. StrictInv /\ [RunNext]_allVars => StrictInv'
  BY StrictStep, StrictRuns
<1>3. QED  BY <1>1, <1>2, PTL DEF RunSpec

\* A permit is only given by Acquire, which asks the memory.
LEMMA Permit ==
    ASSUME Counts, StrictInv, SP!Next, NEW l \in StrictLines, leases'[l] > leases[l]
    PROVE  force[l] = SP!Nothing
<1>1. leases \in [StrictLines -> 0 .. MaxLeases]
  BY DEF StrictInv, SP!TypeOK
<1>2. ~UNCHANGED leases
  BY <1>1
<1>3. ~SP!Crash
  <2>1. SUFFICES ASSUME leases' = [k \in StrictLines |-> 0]  PROVE FALSE
    BY DEF SP!Crash
  <2>2. leases[l] \in Nat /\ leases'[l] = 0
    BY <1>1, <2>1 DEF Counts
  <2>3. QED  BY <2>2
<1>4. ~\E k \in StrictLines : SP!Release(k)
  <2>1. SUFFICES ASSUME NEW k \in StrictLines, SP!Release(k) PROVE FALSE
    OBVIOUS
  <2>2. leases' = [leases EXCEPT ![k] = leases[k] - 1]  BY <2>1 DEF SP!Release
  <2>3. QED  BY <1>1, <2>2
<1>5. PICK k \in StrictLines : SP!Acquire(k)
  BY <1>2, <1>3, <1>4
  DEF SP!Next, SP!Decide, SP!RetireCommit, SP!RetireRewrite, SP!Attempt, SP!AdminRecovers,
      SP!Unpause, SP!Unpaused, SP!Sweep, SP!RetryEnds, SP!Unblock, SP!Lift, SP!AddProfile,
      SP!Configure, SP!Start
<1>6. k = l
  BY <1>1, <1>5 DEF SP!Acquire
<1>7. QED
  BY <1>5, <1>6 DEF SP!Acquire, SP!Closed, StrictInv, Remembers, Loaded

\* What a running process holds closed is what was decided and not lifted, through crashes
\* and refused writes of either medium; a line that is out has no profile; and no dispatch
\* permit is given against a decision in force (proxy_retirement.go, proxy_recovery.go,
\* proxy_strict.go).
THEOREM LinesDecisionStands == ASSUME Counts PROVE RunSpec => DecisionStands
<1>1. StrictInv => SP!TypeOK /\ SP!DecisionStands
  BY DEF StrictInv, SP!DecisionStands, Remembers, Agrees, Loaded
<1>2. StrictInv /\ [RunNext]_allVars =>
        [\A l \in StrictLines : leases'[l] > leases[l] => force[l] = SP!Nothing]_SP!vars
  BY Permit, StrictRuns
<1>3. QED
  BY SpecStrictInv, <1>1, <1>2, PTL DEF RunSpec, DecisionStands, SP!NoTrafficAfterDecision

(***************************************************************************)
(* The initialization of an account.                                       *)
(***************************************************************************)

Upstream == Owner \in Users /\ MaxPosts \in Nat

TaskSet ==
    [state : {"queued", "waiting", "starved", "attempting", "verifying", "skipped",
              "awaiting", "completed", "cancelled"},
     managed : BOOLEAN, paused : BOOLEAN, granted : BOOLEAN, uncertain : BOOLEAN,
     run : {0, 1}, tried : SUBSET Routes, cands : SUBSET (Routes \X Nat),
     line : Routes \cup {IZ!Nothing}, gen : Nat, route : Nat, cred : Nat,
     deadline : {"unset", "set", "passed"}]

AcctSet ==
    [user : Users, cred : Nat, line : Routes \cup {IZ!Nothing}, route : Nat,
     enabled : BOOLEAN]

MgrSet ==
    [at : {"idle", "first", "seen", "preview", "record", "post", "save", "check",
           "checked", "bind"},
     run : {0, 1}, user : Users \cup {IZ!Nothing}, cred : Nat,
     line : Routes \cup {IZ!Nothing}, gen : Nat, route : Nat, verify : BOOLEAN,
     seen : {IZ!Nothing, "missing", "allocated", "available", "unknown"},
     out : {IZ!Nothing, "no_plans", "unreachable", "failed", "captcha", "success", "refused"},
     left : 0 .. 3]

ClaimTypes ==
    /\ task \in TaskSet /\ acct \in AcctSet /\ mgr \in MgrSet
    /\ lines \in [Routes -> [gen : Nat, up : BOOLEAN]]
    /\ quota \in [Users -> {"missing", "allocated", "pending", "available"}]
    /\ posts \in [Users -> Nat]
    /\ running \in {0, 1} /\ auto \in BOOLEAN

Unposted == \A u \in Users : posts[u] = 0

\* The attempt is of credentials the account has or had.
Own ==
    mgr.at # "idle" =>
        /\ mgr.user \in Users /\ mgr.cred <= acct.cred
        /\ mgr.cred = acct.cred => mgr.user = acct.user
        /\ mgr.seen = "available" => quota[mgr.user] = "available"

\* A claim that was sent is remembered as doubtful until quota was seen.
Doubt == Unposted \/ task.uncertain \/ task.granted

\* The attempt may still send its claim, or will look first whether it may.
Unsent ==
    \/ mgr.at \in {"preview", "record", "post"}
    \/ mgr.at \in {"first", "seen"} /\ ~mgr.verify

ClaimInv ==
    /\ ClaimTypes /\ Own /\ Doubt
    /\ \A u \in Users : posts[u] <= 1
    /\ Unsent => Unposted
    /\ mgr.at = "post" => task.uncertain

LEMMA InitClaim == ASSUME Upstream, IZ!Init PROVE ClaimInv
<1> USE DEF IZ!Init, IZ!NoAttempt, IZ!Nothing, Upstream
<1>1. task \in TaskSet  BY DEF TaskSet
<1>2. acct \in AcctSet  BY DEF AcctSet
<1>3. mgr \in MgrSet /\ mgr.at = "idle"  BY DEF MgrSet
<1>4. lines \in [Routes -> [gen : Nat, up : BOOLEAN]]  OBVIOUS
<1>5. ClaimTypes
  BY <1>1, <1>2, <1>3, <1>4 DEF ClaimTypes
<1>6. QED
  BY <1>3, <1>5 DEF ClaimInv, Own, Doubt, Unposted, Unsent

\* A step that leaves the attempt, the claims and the account's credentials alone.
LEMMA Bystander ==
    ASSUME ClaimInv, task' \in TaskSet, acct' \in AcctSet,
           lines' \in [Routes -> [gen : Nat, up : BOOLEAN]],
           running' \in {0, 1}, auto' \in BOOLEAN,
           task'.uncertain = task.uncertain, task'.granted = task.granted,
           mgr' = mgr, quota' = quota, posts' = posts,
           \/ acct'.user = acct.user /\ acct'.cred = acct.cred
           \/ acct'.cred = acct.cred + 1
    PROVE  ClaimInv'
<1>1. ClaimTypes'
  BY DEF ClaimInv, ClaimTypes
<1>2. acct.cred \in Nat /\ acct'.cred \in Nat /\ mgr.cred \in Nat
  BY DEF ClaimInv, ClaimTypes, AcctSet, MgrSet
<1>3. Own'
  BY <1>2 DEF ClaimInv, Own
<1>4. QED
  BY <1>1, <1>3 DEF ClaimInv, Doubt, Unposted, Unsent

\* A step that ends the attempt.
LEMMA AttemptEnds ==
    ASSUME ClaimInv, mgr' = IZ!NoAttempt, task' \in TaskSet, acct' \in AcctSet,
           running' \in {0, 1},
           task.uncertain => task'.uncertain \/ task'.granted,
           task.granted => task'.granted,
           UNCHANGED <<lines, auto, quota, posts>>
    PROVE  ClaimInv'
<1>1. mgr' \in MgrSet /\ mgr'.at = "idle"
  BY DEF MgrSet, IZ!NoAttempt
<1>2. QED
  BY <1>1 DEF ClaimInv, ClaimTypes, Own, Doubt, Unposted, Unsent

LEMMA BoundIs ==
    ASSUME acct \in AcctSet, NEW l \in Routes \cup {IZ!Nothing}
    PROVE  /\ IZ!Bound(l) \in AcctSet
           /\ IZ!Bound(l).user = acct.user /\ IZ!Bound(l).cred = acct.cred
           /\ IZ!Bound(l).line = l
<1>1. PICK r \in Nat : IZ!Bound(l) = [acct EXCEPT !.line = l, !.route = r]
  <2>1. CASE l = acct.line
    BY <2>1 DEF AcctSet, IZ!Bound
  <2>2. CASE l # acct.line
    <3>1. acct.route + 1 \in Nat  BY DEF AcctSet
    <3>2. IZ!Bound(l) = [acct EXCEPT !.line = l, !.route = acct.route + 1]
      BY <2>2 DEF AcctSet, IZ!Bound
    <3>3. QED  BY <3>1, <3>2
  <2>3. QED  BY <2>1, <2>2
<1>2. QED  BY <1>1 DEF AcctSet

\* A task whose state changes.
LEMMA TaskState ==
    ASSUME task \in TaskSet,
           NEW s \in {"queued", "waiting", "starved", "attempting", "verifying", "skipped",
                      "awaiting", "completed", "cancelled"}
    PROVE  LET t == [task EXCEPT !.state = s, !.run = 0]
           IN  t \in TaskSet /\ t.uncertain = task.uncertain /\ t.granted = task.granted
  BY DEF TaskSet

LEMMA MutationIs ==
    ASSUME task \in TaskSet, NEW ls, NEW a
    PROVE  /\ IZ!Mutation(ls, a) \in TaskSet
           /\ IZ!Mutation(ls, a).uncertain = task.uncertain
           /\ IZ!Mutation(ls, a).granted = task.granted
<1>1. \/ IZ!Mutation(ls, a) = task
      \/ IZ!Mutation(ls, a) = [task EXCEPT !.state = "awaiting", !.run = 0]
      \/ IZ!Mutation(ls, a) = [task EXCEPT !.state = "completed", !.run = 0]
      \/ IZ!Mutation(ls, a) = [task EXCEPT !.run = 0, !.state = "waiting"]
      \/ IZ!Mutation(ls, a) = [task EXCEPT !.run = 0, !.state = "queued"]
  <2>1. CASE task.uncertain
    BY <2>1, Zenon DEF IZ!Mutation
  <2>2. CASE ~task.uncertain
    BY <2>2, Zenon DEF IZ!Mutation
  <2>3. QED  BY <2>1, <2>2
<1>2. QED  BY <1>1 DEF TaskSet

\* A step inside an attempt that sends nothing: what it may do later, it could do before.
LEMMA AttemptMoves ==
    ASSUME ClaimInv, mgr' \in MgrSet, mgr.at # "idle", mgr'.at # "idle",
           mgr'.user = mgr.user, mgr'.cred = mgr.cred, mgr'.verify = mgr.verify,
           mgr'.seen = "available" => quota[mgr.user] = "available",
           Unsent' => Unsent,
           task' \in TaskSet,
           task.uncertain => task'.uncertain \/ task'.granted,
           task.granted => task'.granted,
           mgr'.at = "post" => task'.uncertain,
           UNCHANGED <<acct, lines, auto, running, quota, posts>>
    PROVE  ClaimInv'
<1>1. ClaimTypes'
  BY DEF ClaimInv, ClaimTypes
<1>2. Own'
  BY DEF ClaimInv, Own
<1>3. Doubt'
  BY DEF ClaimInv, ClaimTypes, TaskSet, Doubt, Unposted
<1>4. QED
  BY <1>1, <1>2, <1>3 DEF ClaimInv, Unposted

LEMMA ReturnsIs ==
    ASSUME ClaimInv, IZ!Returns
    PROVE  mgr' = IZ!NoAttempt /\ running' \in {0, 1}
  BY DEF IZ!Returns, ClaimInv, ClaimTypes

LEMMA EndedIs ==
    ASSUME ClaimInv, NEW h, NEW r, IZ!Ended(h, r)
    PROVE  /\ task' \in TaskSet
           /\ task'.uncertain = task.uncertain /\ task'.granted = task.granted
<1>1. task \in TaskSet  BY DEF ClaimInv, ClaimTypes
<1>2. \/ task' = task
      \/ task' = [task EXCEPT !.run = 0, !.state = "skipped", !.managed = FALSE]
      \/ task' = [task EXCEPT !.run = 0, !.state = "awaiting"]
      \/ task' = [task EXCEPT !.run = 0, !.state = "queued"]
      \/ task' = [task EXCEPT !.run = 0, !.state = "waiting"]
  BY <1>1 DEF IZ!Ended, IZ!EndedTask
<1>3. QED  BY <1>1, <1>2 DEF TaskSet

LEMMA ObservedIs ==
    ASSUME ClaimInv, IZ!Observed
    PROVE  /\ task' \in TaskSet
           /\ task.uncertain => task'.uncertain \/ task'.granted
           /\ task.granted => task'.granted
<1>1. task \in TaskSet  BY DEF ClaimInv, ClaimTypes
<1>2. \/ task' = task
      \/ task' = [task EXCEPT !.granted = TRUE, !.uncertain = FALSE, !.state = "awaiting"]
  BY DEF IZ!Observed
<1>3. QED  BY <1>1, <1>2 DEF TaskSet

\* An attempt begins: after a doubtful claim it only looks.
LEMMA TokenIs ==
    ASSUME ClaimInv, NEW t \in TaskSet, NEW a \in AcctSet, NEW v \in BOOLEAN,
           a.user = acct.user, a.cred = acct.cred,
           t.uncertain = task.uncertain, t.granted = task.granted,
           ~v => Unposted,
           mgr.at = "idle", IZ!Begun(t, a, v),
           UNCHANGED <<lines, auto, quota, posts>>
    PROVE  ClaimInv'
<1>1. ASSUME task' = t, acct' = a, running' = t.run, mgr' = IZ!Token(t, a, v)
      PROVE  ClaimInv'
  <2>1. /\ mgr' \in MgrSet /\ mgr'.at = "first" /\ mgr'.user = a.user
        /\ mgr'.cred = a.cred /\ mgr'.verify = v /\ mgr'.seen = IZ!Nothing
    <3>1. mgr' = [at |-> "first", run |-> t.run, user |-> a.user, cred |-> a.cred,
                  line |-> a.line, gen |-> t.gen, route |-> a.route, verify |-> v,
                  seen |-> IZ!Nothing, out |-> IZ!Nothing, left |-> 0]
      BY <1>1 DEF IZ!Token, IZ!NoAttempt
    <3>2. /\ t.run \in {0, 1} /\ a.user \in Users /\ a.cred \in Nat
          /\ a.line \in Routes \cup {IZ!Nothing} /\ t.gen \in Nat /\ a.route \in Nat
      BY DEF TaskSet, AcctSet
    <3>3. QED  BY <3>1, <3>2 DEF MgrSet
  <2>2. ClaimTypes'
    BY <1>1, <2>1 DEF ClaimInv, ClaimTypes, TaskSet
  <2>3. Own'
    BY <1>1, <2>1 DEF Own, AcctSet, IZ!Nothing
  <2>4. QED
    BY <1>1, <2>1, <2>2, <2>3 DEF ClaimInv, Doubt, Unposted, Unsent
<1>2. ASSUME UNCHANGED <<task, acct, running, mgr>>
      PROVE  ClaimInv'
  BY <1>2, Bystander DEF ClaimInv, ClaimTypes
<1>3. QED  BY <1>1, <1>2 DEF IZ!Begun

LEMMA BeginStep == ASSUME ClaimInv, IZ!Begin  PROVE ClaimInv'
<1>0. /\ task \in TaskSet /\ acct \in AcctSet /\ mgr.at = "idle" /\ ~task.granted
      /\ lines \in [Routes -> [gen : Nat, up : BOOLEAN]]
      /\ UNCHANGED <<lines, auto, quota, posts>>
  BY DEF IZ!Begin, ClaimInv, ClaimTypes
<1>1. ASSUME NEW st \in {"waiting", "starved"}, IZ!Refused(st)  PROVE ClaimInv'
  <2>1. task' = [task EXCEPT !.state = st, !.run = 0]
    BY <1>1 DEF IZ!Refused, IZ!Wait
  <2>2. task' \in TaskSet /\ task'.uncertain = task.uncertain /\ task'.granted = task.granted
    BY <1>0, <2>1, TaskState
  <2>3. UNCHANGED <<acct, running, mgr>>
    BY <1>1 DEF IZ!Refused
  <2>4. QED
    BY <1>0, <2>2, <2>3, Bystander DEF ClaimInv, ClaimTypes
<1>2. ASSUME IZ!BeginResumes  PROVE ClaimInv'
  <2>1. CASE ~IZ!SameRoute
    BY <1>1, <1>2, <2>1 DEF IZ!BeginResumes
  <2>2. CASE IZ!SameRoute
    <3> DEFINE t == IZ!NextRun([task EXCEPT !.state = "verifying"])
    <3>1. t \in TaskSet /\ t.uncertain = task.uncertain /\ t.granted = task.granted
      BY <1>0 DEF IZ!NextRun, TaskSet
    <3>2. IZ!Begun(t, acct, TRUE)
      BY <1>2, <2>2 DEF IZ!BeginResumes
    <3> HIDE DEF t
    <3>3. QED  BY <1>0, <3>1, <3>2, TokenIs
  <2>3. QED  BY <2>1, <2>2
<1>3. ASSUME ~IZ!Resume, IZ!BeginPicks  PROVE ClaimInv'
  <2>1. PICK cands \in IZ!RoundCandidates :
          LET open == {l \in IZ!Candidates \ task.tried :
                         <<l, lines[l].gen>> \in cands /\ lines[l].up}
          IN  IF cands = {} THEN IZ!Refused("starved")
              ELSE IF open = {} \/ IZ!Cardinality(task.tried) >= MaxAttempts
              THEN IZ!Refused("waiting")
              ELSE \E l \in open :
                 IZ!Begun(IZ!NextRun([task EXCEPT !.state = "attempting", !.cands = cands,
                            !.tried = @ \cup {l}, !.line = l, !.gen = lines[l].gen,
                            !.route = IZ!Bound(l).route,
                            !.deadline = IF @ = "unset" THEN "set" ELSE @]),
                          IZ!Bound(l), FALSE)
    BY <1>3 DEF IZ!BeginPicks
  <2>2. cands \in SUBSET (Routes \X Nat)
    <3>1. CASE task.cands # {}
      BY <1>0, <3>1 DEF IZ!RoundCandidates, TaskSet
    <3>2. CASE task.cands = {}
      <4>1. PICK s \in SUBSET IZ!Candidates : cands = {<<l, lines[l].gen>> : l \in s}
        BY <3>2 DEF IZ!RoundCandidates
      <4>2. \A l \in s : <<l, lines[l].gen>> \in Routes \X Nat
        BY <1>0 DEF IZ!Candidates
      <4>3. QED  BY <4>1, <4>2
    <3>3. QED  BY <3>1, <3>2
  <2>3. ASSUME NEW l \in IZ!Candidates,
               IZ!Begun(IZ!NextRun([task EXCEPT !.state = "attempting", !.cands = cands,
                            !.tried = @ \cup {l}, !.line = l, !.gen = lines[l].gen,
                            !.route = IZ!Bound(l).route,
                            !.deadline = IF @ = "unset" THEN "set" ELSE @]),
                        IZ!Bound(l), FALSE)
        PROVE  ClaimInv'
    <3> DEFINE t == IZ!NextRun([task EXCEPT !.state = "attempting", !.cands = cands,
                            !.tried = @ \cup {l}, !.line = l, !.gen = lines[l].gen,
                            !.route = IZ!Bound(l).route,
                            !.deadline = IF @ = "unset" THEN "set" ELSE @])
    <3>1. /\ IZ!Bound(l) \in AcctSet
          /\ IZ!Bound(l).user = acct.user /\ IZ!Bound(l).cred = acct.cred
      BY <1>0, BoundIs DEF IZ!Candidates
    <3>2. IZ!Bound(l).route \in Nat /\ lines[l].gen \in Nat /\ l \in Routes
      BY <1>0, <3>1 DEF AcctSet, IZ!Candidates
    <3>3. t \in TaskSet /\ t.uncertain = task.uncertain /\ t.granted = task.granted
      BY <1>0, <2>2, <3>2 DEF IZ!NextRun, TaskSet
    <3>4. Unposted
      BY <1>0, <1>3 DEF IZ!Resume, ClaimInv, Doubt
    <3>5. IZ!Begun(t, IZ!Bound(l), FALSE)
      BY <2>3
    <3> HIDE DEF t
    <3>6. QED  BY <1>0, <3>1, <3>3, <3>4, <3>5, TokenIs
  <2>4. QED  BY <1>1, <2>1, <2>3
<1>4. QED
  BY <1>1, <1>2, <1>3 DEF IZ!Begin

LEMMA QueryStep == ASSUME ClaimInv, IZ!Query  PROVE ClaimInv'
<1>0. mgr \in MgrSet /\ mgr.at \in {"first", "check"} /\ mgr.user \in Users
      /\ quota \in [Users -> {"missing", "allocated", "pending", "available"}]
  BY DEF IZ!Query, ClaimInv, ClaimTypes, Own
<1>1. PICK kind \in IZ!Finds \cup {"unknown"} :
        mgr' = [mgr EXCEPT !.at = IF mgr.at = "first" THEN "seen" ELSE "checked",
                           !.seen = kind]
  BY <1>0 DEF IZ!Query, MgrSet
<1>2. kind \in {"missing", "allocated", "available", "unknown"}
      /\ (kind = "available" => quota[mgr.user] = "available")
  BY <1>0 DEF IZ!Finds
<1>3. /\ mgr' \in MgrSet /\ mgr'.user = mgr.user /\ mgr'.cred = mgr.cred
      /\ mgr'.verify = mgr.verify /\ mgr'.seen = kind
      /\ \/ mgr'.at = "seen" /\ mgr.at = "first"
         \/ mgr'.at = "checked" /\ mgr.at = "check"
  <2>1. CASE mgr.at = "first"
    <3>1. mgr' = [mgr EXCEPT !.at = "seen", !.seen = kind]  BY <1>1, <2>1
    <3>2. QED  BY <1>0, <1>2, <2>1, <3>1 DEF MgrSet
  <2>2. CASE mgr.at = "check"
    <3>1. mgr' = [mgr EXCEPT !.at = "checked", !.seen = kind]  BY <1>1, <2>2
    <3>2. QED  BY <1>0, <1>2, <2>2, <3>1 DEF MgrSet
  <2>3. QED  BY <1>0, <2>1, <2>2
<1>4. Unsent' => Unsent
  BY <1>3 DEF Unsent
<1>5. UNCHANGED <<task, acct, lines, auto, running, quota, posts>>
  BY DEF IZ!Query
<1>6. QED
  BY <1>0, <1>2, <1>3, <1>4, <1>5, AttemptMoves DEF ClaimInv, ClaimTypes

LEMMA OutcomeIs ==
    ASSUME ClaimInv, mgr.at # "idle",
           NEW out \in {"no_plans", "unreachable", "failed", "captcha", "success", "refused"},
           IZ!Outcome(out)
    PROVE  /\ mgr' \in MgrSet /\ running' = running /\ mgr'.at = "save"
           /\ mgr'.user = mgr.user /\ mgr'.cred = mgr.cred /\ mgr'.verify = mgr.verify
           /\ mgr'.seen = mgr.seen
           /\ mgr'.seen = "available" => quota[mgr.user] = "available"
  BY DEF IZ!Outcome, ClaimInv, ClaimTypes, Own, MgrSet

LEMMA FirstSeenStep == ASSUME ClaimInv, IZ!FirstSeen  PROVE ClaimInv'
<1>0. /\ mgr.at = "seen" /\ UNCHANGED <<acct, lines, auto, quota, posts>>
      /\ task \in TaskSet /\ acct \in AcctSet
  BY DEF IZ!FirstSeen, ClaimInv, ClaimTypes
<1>1. ASSUME IZ!Returns, \/ UNCHANGED task \/ IZ!Observed
                         \/ \E h, r \in BOOLEAN : IZ!Ended(h, r)
      PROVE  ClaimInv'
  BY <1>0, <1>1, ReturnsIs, EndedIs, ObservedIs, AttemptEnds
<1>2. ASSUME IZ!Observed, IZ!Goto("bind")  PROVE ClaimInv'
  <2>1. /\ mgr' \in MgrSet /\ running' = running /\ mgr'.at = "bind"
        /\ mgr'.user = mgr.user /\ mgr'.cred = mgr.cred /\ mgr'.verify = mgr.verify
        /\ mgr'.seen = "available" => quota[mgr.user] = "available"
    BY <1>0, <1>2 DEF IZ!Goto, ClaimInv, ClaimTypes, Own, MgrSet
  <2>2. Unsent' => Unsent  BY <2>1 DEF Unsent
  <2>3. QED  BY <1>0, <1>2, <2>1, <2>2, ObservedIs, AttemptMoves
<1>3. ASSUME ~mgr.verify, IZ!Goto("preview"), UNCHANGED task  PROVE ClaimInv'
  <2>1. /\ mgr' \in MgrSet /\ running' = running /\ mgr'.at = "preview"
        /\ mgr'.user = mgr.user /\ mgr'.cred = mgr.cred /\ mgr'.verify = mgr.verify
        /\ mgr'.seen = "available" => quota[mgr.user] = "available"
    BY <1>0, <1>3 DEF IZ!Goto, ClaimInv, ClaimTypes, Own, MgrSet
  <2>2. Unsent' => Unsent  BY <1>0, <1>3, <2>1 DEF Unsent
  <2>3. QED  BY <1>0, <1>3, <2>1, <2>2, AttemptMoves
<1>4. QED
  BY <1>1, <1>2, <1>3 DEF IZ!FirstSeen

LEMMA PreviewStep == ASSUME ClaimInv, IZ!Preview  PROVE ClaimInv'
<1>0. /\ mgr.at = "preview" /\ UNCHANGED <<task, acct, lines, auto, quota, posts>>
      /\ task \in TaskSet /\ acct \in AcctSet
  BY DEF IZ!Preview, ClaimInv, ClaimTypes
<1>1. ASSUME NEW out \in {"no_plans", "unreachable", "failed", "captcha"}, IZ!Outcome(out)
      PROVE  ClaimInv'
  <2>1. Unsent' => Unsent  BY <1>0 DEF Unsent
  <2>2. mgr'.at = "save"  BY <1>0, <1>1, OutcomeIs
  <2>3. QED  BY <1>0, <1>1, <2>1, <2>2, OutcomeIs, AttemptMoves
<1>2. ASSUME IZ!Goto("record")  PROVE ClaimInv'
  <2>1. /\ mgr' \in MgrSet /\ running' = running /\ mgr'.at = "record"
        /\ mgr'.user = mgr.user /\ mgr'.cred = mgr.cred /\ mgr'.verify = mgr.verify
        /\ mgr'.seen = "available" => quota[mgr.user] = "available"
    BY <1>0, <1>2 DEF IZ!Goto, ClaimInv, ClaimTypes, Own, MgrSet
  <2>2. Unsent' => Unsent  BY <1>0 DEF Unsent
  <2>3. QED  BY <1>0, <2>1, <2>2, AttemptMoves
<1>3. QED  BY <1>1, <1>2 DEF IZ!Preview

LEMMA RecordStep == ASSUME ClaimInv, IZ!Record  PROVE ClaimInv'
<1>0. /\ mgr.at = "record" /\ UNCHANGED <<acct, lines, auto, quota, posts>>
      /\ task \in TaskSet /\ acct \in AcctSet
  BY DEF IZ!Record, ClaimInv, ClaimTypes
<1>1. ASSUME IZ!Outcome("failed"), UNCHANGED task
      PROVE  ClaimInv'
  <2>1. Unsent' => Unsent  BY <1>0 DEF Unsent
  <2>2. mgr'.at = "save"  BY <1>0, <1>1, OutcomeIs
  <2>3. QED  BY <1>0, <1>1, <2>1, <2>2, OutcomeIs, AttemptMoves
<1>2. ASSUME IZ!Goto("post"),
             task' = [task EXCEPT !.uncertain = TRUE, !.state = "verifying"]
      PROVE ClaimInv'
  <2>1. /\ mgr' \in MgrSet /\ running' = running /\ mgr'.at = "post"
        /\ mgr'.user = mgr.user /\ mgr'.cred = mgr.cred /\ mgr'.verify = mgr.verify
        /\ mgr'.seen = "available" => quota[mgr.user] = "available"
    BY <1>0, <1>2 DEF IZ!Goto, ClaimInv, ClaimTypes, Own, MgrSet
  <2>2. task' \in TaskSet /\ task'.uncertain /\ task'.granted = task.granted
    BY <1>0, <1>2 DEF TaskSet
  <2>3. Unsent' => Unsent  BY <1>0 DEF Unsent
  <2>4. QED  BY <1>0, <2>1, <2>2, <2>3, AttemptMoves
<1>3. QED  BY <1>1, <1>2 DEF IZ!Record

LEMMA PostStep == ASSUME Upstream, ClaimInv, IZ!Post  PROVE ClaimInv'
<1>0. /\ mgr.at = "post" /\ UNCHANGED <<task, acct, lines, auto>>
      /\ task \in TaskSet /\ acct \in AcctSet /\ mgr \in MgrSet /\ mgr.user \in Users
      /\ posts \in [Users -> Nat] /\ Unposted /\ task.uncertain
      /\ quota \in [Users -> {"missing", "allocated", "pending", "available"}]
  BY DEF IZ!Post, ClaimInv, ClaimTypes, Own, Unsent
<1>1. ASSUME NEW out \in {"refused", "unreachable", "captcha", "failed"}, IZ!Outcome(out),
             UNCHANGED <<posts, quota>>
      PROVE  ClaimInv'
  <2>1. Unsent' => Unsent  BY <1>0 DEF Unsent
  <2>2. mgr'.at = "save"  BY <1>0, <1>1, OutcomeIs
  <2>3. QED  BY <1>0, <1>1, <2>1, <2>2, OutcomeIs, AttemptMoves
<1>2. ASSUME mgr' = [mgr EXCEPT !.at = "record", !.out = "captcha"],
             UNCHANGED <<posts, quota, running>>
      PROVE  ClaimInv'
  <2>1. /\ mgr' \in MgrSet /\ mgr'.at = "record"
        /\ mgr'.user = mgr.user /\ mgr'.cred = mgr.cred /\ mgr'.verify = mgr.verify
        /\ mgr'.seen = "available" => quota[mgr.user] = "available"
    BY <1>0, <1>2 DEF ClaimInv, Own, MgrSet
  <2>2. Unsent' => Unsent  BY <1>0 DEF Unsent
  <2>3. QED  BY <1>0, <1>2, <2>1, <2>2, AttemptMoves
<1>3. ASSUME IZ!Effective, NEW out \in {"success", "failed", "unreachable"}, IZ!Outcome(out)
      PROVE  ClaimInv'
  <2>1. /\ mgr' \in MgrSet /\ running' = running /\ mgr'.at = "save"
        /\ mgr'.user = mgr.user /\ mgr'.cred = mgr.cred /\ mgr'.seen = mgr.seen
    BY <1>0, <1>3, OutcomeIs
  <2>2. posts' \in [Users -> Nat] /\ \A u \in Users : posts'[u] <= 1
    BY <1>0, <1>3 DEF IZ!Effective, Unposted
  <2>3. /\ quota' \in [Users -> {"missing", "allocated", "pending", "available"}]
        /\ \A u \in Users : quota[u] = "available" => quota'[u] = "available"
    BY <1>0, <1>3 DEF IZ!Effective
  <2>4. ClaimTypes'
    BY <1>0, <2>1, <2>2, <2>3 DEF ClaimInv, ClaimTypes
  <2>5. Own'
    BY <1>0, <2>1, <2>3 DEF ClaimInv, Own
  <2>6. QED
    BY <1>0, <2>1, <2>2, <2>4, <2>5 DEF ClaimInv, Doubt, Unsent
<1>4. QED  BY <1>1, <1>2, <1>3 DEF IZ!Post

LEMMA SaveStep == ASSUME ClaimInv, IZ!Save  PROVE ClaimInv'
<1>0. /\ mgr.at = "save" /\ UNCHANGED <<task, acct, lines, auto, quota, posts>>
      /\ task \in TaskSet /\ acct \in AcctSet /\ mgr \in MgrSet
  BY DEF IZ!Save, ClaimInv, ClaimTypes
<1>1. ASSUME IZ!Returns  PROVE ClaimInv'
  BY <1>0, <1>1, ReturnsIs, AttemptEnds
<1>2. ASSUME UNCHANGED running,
             mgr' = [mgr EXCEPT !.at = "check",
                                !.left = IF mgr.out = "success" THEN 3 ELSE 1]
      PROVE  ClaimInv'
  <2>0. PICK n \in 0 .. 3 : mgr' = [mgr EXCEPT !.at = "check", !.left = n]
    <3>1. CASE mgr.out = "success"
      BY <1>2, <3>1
    <3>2. CASE mgr.out # "success"
      BY <1>2, <3>2
    <3>3. QED  BY <3>1, <3>2
  <2>1. /\ mgr' \in MgrSet /\ mgr'.at = "check"
        /\ mgr'.user = mgr.user /\ mgr'.cred = mgr.cred /\ mgr'.verify = mgr.verify
        /\ mgr'.seen = "available" => quota[mgr.user] = "available"
    BY <1>0, <2>0 DEF ClaimInv, Own, MgrSet
  <2>2. Unsent' => Unsent  BY <2>1 DEF Unsent
  <2>3. QED  BY <1>0, <1>2, <2>1, <2>2, AttemptMoves
<1>3. QED  BY <1>1, <1>2 DEF IZ!Save

LEMMA CheckedStep == ASSUME ClaimInv, IZ!Checked  PROVE ClaimInv'
<1>0. /\ mgr.at = "checked" /\ UNCHANGED <<acct, lines, auto, quota, posts>>
      /\ task \in TaskSet /\ acct \in AcctSet /\ mgr \in MgrSet
  BY DEF IZ!Checked, ClaimInv, ClaimTypes
<1>1. ASSUME IZ!Returns, \/ UNCHANGED task \/ \E h, r \in BOOLEAN : IZ!Ended(h, r)
      PROVE  ClaimInv'
  BY <1>0, <1>1, ReturnsIs, EndedIs, AttemptEnds
<1>2. ASSUME IZ!Observed, IZ!Goto("bind")  PROVE ClaimInv'
  <2>1. /\ mgr' \in MgrSet /\ running' = running /\ mgr'.at = "bind"
        /\ mgr'.user = mgr.user /\ mgr'.cred = mgr.cred /\ mgr'.verify = mgr.verify
        /\ mgr'.seen = "available" => quota[mgr.user] = "available"
    BY <1>0, <1>2 DEF IZ!Goto, ClaimInv, ClaimTypes, Own, MgrSet
  <2>2. Unsent' => Unsent  BY <2>1 DEF Unsent
  <2>3. QED  BY <1>0, <1>2, <2>1, <2>2, ObservedIs, AttemptMoves
<1>3. ASSUME mgr.left > 1, mgr' = [mgr EXCEPT !.at = "check", !.left = mgr.left - 1],
             UNCHANGED <<task, running>>
      PROVE  ClaimInv'
  <2>0. mgr.left - 1 \in 0 .. 3  BY <1>0, <1>3 DEF MgrSet
  <2>1. /\ mgr' \in MgrSet /\ mgr'.at = "check"
        /\ mgr'.user = mgr.user /\ mgr'.cred = mgr.cred /\ mgr'.verify = mgr.verify
        /\ mgr'.seen = "available" => quota[mgr.user] = "available"
    BY <1>0, <1>3, <2>0 DEF ClaimInv, Own, MgrSet
  <2>2. Unsent' => Unsent  BY <2>1 DEF Unsent
  <2>3. QED  BY <1>0, <1>3, <2>1, <2>2, AttemptMoves
<1>4. QED
  BY <1>1, <1>2, <1>3 DEF IZ!Checked, IZ!Retries

LEMMA CompletedIs ==
    ASSUME ClaimInv, IZ!Completed, IZ!Available(Default)
    PROVE  /\ task' \in TaskSet /\ acct' \in AcctSet
           /\ task'.uncertain = task.uncertain /\ task'.granted = task.granted
           /\ acct'.user = acct.user /\ acct'.cred = acct.cred
<1>1. task \in TaskSet /\ acct \in AcctSet  BY DEF ClaimInv, ClaimTypes
<1>2. Default \in Routes  BY DEF IZ!Available
<1>3. task' = [task EXCEPT !.state = "completed", !.run = 0, !.paused = FALSE]
  BY DEF IZ!Completed
<1>4. acct' = IZ!Bound(Default)  BY DEF IZ!Completed
<1>5. task' \in TaskSet /\ task'.uncertain = task.uncertain /\ task'.granted = task.granted
  BY <1>1, <1>3 DEF TaskSet
<1>6. QED  BY <1>1, <1>2, <1>4, <1>5, BoundIs

LEMMA BindStep == ASSUME ClaimInv, IZ!Bind  PROVE ClaimInv'
<1>1. task \in TaskSet /\ acct \in AcctSet /\ UNCHANGED <<lines, auto, quota, posts>>
      /\ IZ!Returns
  BY DEF IZ!Bind, ClaimInv, ClaimTypes
<1>2. /\ mgr' = IZ!NoAttempt /\ running' \in {0, 1}  BY <1>1, ReturnsIs
<1>3. \/ UNCHANGED <<task, acct>>
      \/ IZ!Completed /\ IZ!Available(Default)
  BY DEF IZ!Bind, IZ!Bindable
<1>4. /\ task' \in TaskSet /\ acct' \in AcctSet
      /\ task'.uncertain = task.uncertain /\ task'.granted = task.granted
  BY <1>1, <1>3, CompletedIs
<1>5. QED  BY <1>1, <1>2, <1>4, AttemptEnds

\* The administrator.
LEMMA AdminStep ==
    ASSUME ClaimInv, \/ IZ!AdminBinds \/ IZ!Pause \/ IZ!Retry \/ IZ!Override \/ IZ!Policy
                     \/ \E u \in Users : IZ!EditSecret(u)
                     \/ \E on \in BOOLEAN : IZ!SetEnabled(on)
    PROVE  ClaimInv'
<1>0. /\ task \in TaskSet /\ acct \in AcctSet /\ running \in {0, 1} /\ auto \in BOOLEAN
      /\ lines \in [Routes -> [gen : Nat, up : BOOLEAN]]
  BY DEF ClaimInv, ClaimTypes
<1> DEFINE Same == /\ task' \in TaskSet /\ task'.uncertain = task.uncertain
                   /\ task'.granted = task.granted
<1>1. CASE IZ!AdminBinds
  <2>1. UNCHANGED <<lines, auto, running, mgr, quota, posts>>
        /\ IZ!Completed /\ IZ!Available(Default)
    BY <1>1 DEF IZ!AdminBinds, IZ!Bindable
  <2>2. QED  BY <1>0, <2>1, CompletedIs, Bystander
<1>2. CASE IZ!Pause
  <2>1. /\ UNCHANGED <<lines, running, mgr, quota, posts, acct, auto>>
        /\ task' = [task EXCEPT !.paused = TRUE, !.run = 0]
    BY <1>2 DEF IZ!Pause, IZ!Admin
  <2>2. Same  BY <1>0, <2>1 DEF TaskSet
  <2>3. QED  BY <1>0, <2>1, <2>2, Bystander
<1>3. CASE IZ!Retry
  <2>1. /\ UNCHANGED <<lines, running, mgr, quota, posts, acct, auto>>
        /\ task' = [task EXCEPT !.cred = acct.cred, !.paused = FALSE, !.state = "queued",
                        !.run = 0, !.deadline = "unset",
                        !.cands = IF task.uncertain THEN task.cands ELSE {},
                        !.tried = IF task.uncertain THEN task.tried ELSE {}]
    BY <1>0, <1>3 DEF IZ!Retry, IZ!Admin, TaskSet
  <2>2. PICK c \in SUBSET (Routes \X Nat), t \in SUBSET Routes :
          task' = [task EXCEPT !.cred = acct.cred, !.paused = FALSE, !.state = "queued",
                        !.run = 0, !.deadline = "unset", !.cands = c, !.tried = t]
    <3>1. CASE task.uncertain
      <4>1. task.cands \in SUBSET (Routes \X Nat) /\ task.tried \in SUBSET Routes
        BY <1>0 DEF TaskSet
      <4>2. QED  BY <2>1, <3>1, <4>1
    <3>2. CASE ~task.uncertain
      <4>1. {} \in SUBSET (Routes \X Nat) /\ {} \in SUBSET Routes  OBVIOUS
      <4>2. QED  BY <2>1, <3>2, <4>1
    <3>3. QED  BY <3>1, <3>2
  <2>3. Same  BY <1>0, <2>2 DEF TaskSet, AcctSet
  <2>4. QED  BY <1>0, <2>1, <2>3, Bystander
<1>4. CASE IZ!Override
  <2>1. /\ UNCHANGED <<lines, running, mgr, quota, posts, auto>>
        /\ task' = [task EXCEPT !.managed = FALSE, !.state = "cancelled", !.run = 0]
        /\ acct' = IZ!Bound(IZ!Nothing)
    BY <1>4 DEF IZ!Override, IZ!Admin
  <2>2. Same  BY <1>0, <2>1 DEF TaskSet
  <2>3. acct' \in AcctSet /\ acct'.user = acct.user /\ acct'.cred = acct.cred
    BY <1>0, <2>1, BoundIs
  <2>4. QED  BY <1>0, <2>1, <2>2, <2>3, Bystander
<1>5. CASE IZ!Policy
  <2>1. /\ UNCHANGED <<lines, running, mgr, quota, posts, acct, task>> /\ auto' = ~auto
    BY <1>5 DEF IZ!Policy, IZ!Admin
  <2>2. QED  BY <1>0, <2>1, Bystander
<1>6. ASSUME NEW u \in Users, IZ!EditSecret(u)  PROVE ClaimInv'
  <2>1. /\ UNCHANGED <<lines, running, mgr, quota, posts, auto>>
        /\ \/ task' = [task EXCEPT !.cred = acct.cred + 1, !.run = 0]
           \/ task' = [task EXCEPT !.state = "waiting", !.paused = TRUE, !.run = 0]
        /\ acct' = [acct EXCEPT !.user = u, !.cred = acct.cred + 1]
    BY <1>0, <1>6 DEF IZ!EditSecret, IZ!Admin, AcctSet
  <2>2. acct.cred + 1 \in Nat  BY <1>0 DEF AcctSet
  <2>3. Same /\ acct' \in AcctSet /\ acct'.cred = acct.cred + 1
    <3>1. ASSUME task' = [task EXCEPT !.cred = acct.cred + 1, !.run = 0]  PROVE Same
      BY <1>0, <2>2, <3>1 DEF TaskSet
    <3>2. ASSUME task' = [task EXCEPT !.state = "waiting", !.paused = TRUE, !.run = 0]
          PROVE  Same
      BY <1>0, <3>2 DEF TaskSet
    <3>3. acct' \in AcctSet /\ acct'.cred = acct.cred + 1
      BY <1>0, <2>1, <2>2 DEF AcctSet
    <3>4. QED  BY <2>1, <3>1, <3>2, <3>3
  <2>4. QED  BY <1>0, <2>1, <2>2, <2>3, Bystander
<1>7. ASSUME NEW on \in BOOLEAN, IZ!SetEnabled(on)  PROVE ClaimInv'
  <2>1. /\ UNCHANGED <<lines, running, mgr, quota, posts, auto>>
        /\ acct' = [acct EXCEPT !.enabled = on]
        /\ \/ task' = [task EXCEPT !.run = 0]
           \/ task' = [task EXCEPT !.paused = TRUE, !.run = 0, !.state = task.state]
           \/ task' = [task EXCEPT !.paused = TRUE, !.run = 0, !.state = "waiting"]
    BY <1>0, <1>7 DEF IZ!SetEnabled, IZ!Admin, TaskSet
  <2>2. Same  BY <1>0, <2>1 DEF TaskSet
  <2>3. acct' \in AcctSet /\ acct'.user = acct.user /\ acct'.cred = acct.cred
    BY <1>0, <2>1 DEF AcctSet
  <2>4. QED  BY <1>0, <2>1, <2>2, <2>3, Bystander
<1>8. QED  BY <1>1, <1>2, <1>3, <1>4, <1>5, <1>6, <1>7

LEMMA ReconfiguredIs ==
    ASSUME ClaimInv, NEW ls \in [Routes -> [gen : Nat, up : BOOLEAN]], NEW a \in AcctSet,
           a.user = acct.user, a.cred = acct.cred, IZ!Reconfigured(ls, a)
    PROVE  ClaimInv'
<1>1. /\ UNCHANGED <<auto, running, mgr, quota, posts>>
      /\ lines' = ls /\ acct' = a /\ task' = IZ!Mutation(ls, a)
  BY DEF IZ!Reconfigured
<1>2. /\ task \in TaskSet /\ running \in {0, 1} /\ auto \in BOOLEAN
  BY DEF ClaimInv, ClaimTypes
<1>3. /\ task' \in TaskSet /\ task'.uncertain = task.uncertain
      /\ task'.granted = task.granted
  BY <1>1, <1>2, MutationIs
<1>4. QED  BY <1>1, <1>2, <1>3, Bystander

LEMMA LineStep ==
    ASSUME ClaimInv, NEW l \in Routes, IZ!Switch(l) \/ IZ!Readdress(l) \/ IZ!Retire(l)
    PROVE  ClaimInv'
<1>0. /\ acct \in AcctSet /\ lines \in [Routes -> [gen : Nat, up : BOOLEAN]]
      /\ lines[l].gen \in Nat /\ lines[l].up \in BOOLEAN
  BY DEF ClaimInv, ClaimTypes
<1>1. CASE IZ!Switch(l)
  <2>1. IZ!Reconfigured([lines EXCEPT ![l] = [gen |-> lines[l].gen + 1,
                                              up |-> ~lines[l].up]], acct)
    BY <1>0, <1>1 DEF IZ!Switch
  <2>2. [lines EXCEPT ![l] = [gen |-> lines[l].gen + 1, up |-> ~lines[l].up]]
          \in [Routes -> [gen : Nat, up : BOOLEAN]]
    BY <1>0
  <2>3. QED  BY <1>0, <2>1, <2>2, ReconfiguredIs
<1>2. CASE IZ!Readdress(l)
  <2> DEFINE a == IF acct.line = l THEN [acct EXCEPT !.route = acct.route + 1] ELSE acct
  <2>1. IZ!Reconfigured([lines EXCEPT ![l].gen = lines[l].gen + 1], a)
    BY <1>0, <1>2 DEF IZ!Readdress, AcctSet
  <2>2. [lines EXCEPT ![l].gen = lines[l].gen + 1] \in [Routes -> [gen : Nat, up : BOOLEAN]]
    BY <1>0
  <2>3. a \in AcctSet /\ a.user = acct.user /\ a.cred = acct.cred
    <3>1. [acct EXCEPT !.route = acct.route + 1] \in AcctSet
          /\ [acct EXCEPT !.route = acct.route + 1].user = acct.user
          /\ [acct EXCEPT !.route = acct.route + 1].cred = acct.cred
      BY <1>0 DEF AcctSet
    <3>2. QED  BY <1>0, <3>1
  <2> HIDE DEF a
  <2>4. QED  BY <2>1, <2>2, <2>3, ReconfiguredIs
<1>3. CASE IZ!Retire(l)
  <2> DEFINE a == IF acct.line = l THEN IZ!Bound(IZ!Nothing) ELSE acct
  <2>1. IZ!Reconfigured([lines EXCEPT ![l] = [gen |-> lines[l].gen + 1, up |-> FALSE]], a)
    BY <1>0, <1>3 DEF IZ!Retire
  <2>2. [lines EXCEPT ![l] = [gen |-> lines[l].gen + 1, up |-> FALSE]]
          \in [Routes -> [gen : Nat, up : BOOLEAN]]
    BY <1>0
  <2>3. a \in AcctSet /\ a.user = acct.user /\ a.cred = acct.cred
    BY <1>0, BoundIs
  <2> HIDE DEF a
  <2>4. QED  BY <2>1, <2>2, <2>3, ReconfiguredIs
<1>4. QED  BY <1>1, <1>2, <1>3

LEMMA ClaimStep == ASSUME Upstream, ClaimInv, [IZ!Next]_IZ!vars  PROVE ClaimInv'
<1>0. /\ task \in TaskSet /\ acct \in AcctSet /\ running \in {0, 1} /\ auto \in BOOLEAN
      /\ lines \in [Routes -> [gen : Nat, up : BOOLEAN]] /\ mgr \in MgrSet
  BY DEF ClaimInv, ClaimTypes
<1>1. CASE IZ!Step
  BY <1>1, QueryStep, FirstSeenStep, PreviewStep, RecordStep, PostStep, SaveStep,
     CheckedStep, BindStep DEF IZ!Step
<1>2. CASE IZ!Abort
  <2>1. IZ!Returns /\ UNCHANGED <<task, acct, lines, auto, quota, posts>>
    BY <1>2 DEF IZ!Abort
  <2>2. QED  BY <1>0, <2>1, ReturnsIs, AttemptEnds
<1>3. CASE IZ!Crash
  <2>1. /\ mgr' = IZ!NoAttempt /\ running' = 0
        /\ UNCHANGED <<task, acct, lines, auto, quota, posts>>
    BY <1>3 DEF IZ!Crash
  <2>2. QED  BY <1>0, <2>1, AttemptEnds
<1>4. CASE IZ!DeadlinePasses
  <2>1. /\ task' = [task EXCEPT !.deadline = "passed"]
        /\ UNCHANGED <<acct, lines, auto, running, mgr, quota, posts>>
    BY <1>4 DEF IZ!DeadlinePasses
  <2>2. task' \in TaskSet /\ task'.uncertain = task.uncertain /\ task'.granted = task.granted
    BY <1>0, <2>1 DEF TaskSet
  <2>3. QED  BY <1>0, <2>1, <2>2, Bystander
<1>5. CASE IZ!Arrives
  <2>1. UNCHANGED <<task, acct, lines, auto, running, mgr, posts>>
    BY <1>5 DEF IZ!Arrives
  <2>2. /\ quota' \in [Users -> {"missing", "allocated", "pending", "available"}]
        /\ \A u \in Users : quota[u] = "available" => quota'[u] = "available"
    BY <1>5 DEF IZ!Arrives, ClaimInv, ClaimTypes
  <2>3. ClaimTypes'  BY <2>1, <2>2 DEF ClaimInv, ClaimTypes
  <2>4. Own'  BY <2>1, <2>2 DEF ClaimInv, Own
  <2>5. QED  BY <2>1, <2>3, <2>4 DEF ClaimInv, Doubt, Unposted, Unsent
<1>6. CASE UNCHANGED IZ!vars
  BY <1>0, <1>6, Bystander DEF IZ!vars
<1>7. QED
  BY <1>1, <1>2, <1>3, <1>4, <1>5, <1>6, BeginStep, AdminStep, LineStep DEF IZ!Next

LEMMA ClaimRuns ==
    /\ RunInit => IZ!Init
    /\ [RunNext]_allVars => [IZ!Next]_IZ!vars
<1> USE DEF allVars, izVars, IZ!vars
<1>1. RunInit => IZ!Init  BY DEF RunInit
<1>2. Initialize(IZ!Next) => IZ!Next  BY DEF Initialize
<1>3. Replay(Next) \/ Quarantine(LQ!Next) \/ Bind(BI!Next) \/ Strict(SP!Next)
        => UNCHANGED IZ!vars
  BY DEF Replay, Quarantine, Bind, Strict
<1>4. UNCHANGED allVars => UNCHANGED IZ!vars
  OBVIOUS
<1>5. QED  BY <1>1, <1>2, <1>3, <1>4 DEF RunNext

LEMMA SpecClaimInv == ASSUME Upstream PROVE RunSpec => []ClaimInv
<1>1. RunInit => ClaimInv
  BY InitClaim, ClaimRuns
<1>2. ClaimInv /\ [RunNext]_allVars => ClaimInv'
  BY ClaimStep, ClaimRuns
<1>3. QED  BY <1>1, <1>2, PTL DEF RunSpec

\* Only an observation that is still current books a grant.
LEMMA Booked ==
    ASSUME ClaimInv, IZ!Next, ~task.granted, task'.granted
    PROVE  quota[acct'.user] = "available"
<1>0. task \in TaskSet /\ acct \in AcctSet  BY DEF ClaimInv, ClaimTypes
<1>1. ASSUME IZ!Observed, IZ!Current, mgr.at # "idle", acct' = acct
      PROVE  quota[acct'.user] = "available"
  <2>1. mgr.seen = "available"  BY <1>1 DEF IZ!Observed
  <2>2. mgr.cred = acct.cred  BY <1>1 DEF IZ!Current
  <2>3. QED  BY <1>1, <2>1, <2>2 DEF ClaimInv, Own
<1>2. ASSUME NEW h, NEW r, IZ!Ended(h, r)  PROVE FALSE
  BY <1>2, EndedIs
<1>3. CASE IZ!FirstSeen
  BY <1>1, <1>2, <1>3 DEF IZ!FirstSeen
<1>4. CASE IZ!Checked
  BY <1>1, <1>2, <1>4 DEF IZ!Checked
<1>5. ~IZ!Begin
  <2>1. ASSUME NEW st, IZ!Refused(st)  PROVE FALSE
    BY <1>0, <2>1 DEF IZ!Refused, IZ!Wait, TaskSet
  <2>2. ASSUME NEW t, NEW a, NEW v, IZ!Begun(t, a, v), ~t.granted  PROVE FALSE
    BY <2>2 DEF IZ!Begun
  <2>3. ~IZ!BeginResumes
    <3>1. IZ!NextRun([task EXCEPT !.state = "verifying"]).granted = task.granted
      BY <1>0 DEF IZ!NextRun, TaskSet
    <3>2. QED  BY <2>1, <2>2, <3>1 DEF IZ!BeginResumes
  <2>4. ~IZ!BeginPicks
    <3>1. ASSUME NEW cands, NEW l
          PROVE  IZ!NextRun([task EXCEPT !.state = "attempting", !.cands = cands,
                            !.tried = @ \cup {l}, !.line = l, !.gen = lines[l].gen,
                            !.route = IZ!Bound(l).route,
                            !.deadline = IF @ = "unset" THEN "set" ELSE @]).granted
                   = task.granted
      BY <1>0 DEF IZ!NextRun, TaskSet
    <3>2. QED  BY <2>1, <2>2, <3>1 DEF IZ!BeginPicks
  <2>5. QED  BY <2>1, <2>3, <2>4 DEF IZ!Begin
<1>6. ~IZ!Query /\ ~IZ!Preview /\ ~IZ!Post /\ ~IZ!Save /\ ~IZ!Abort /\ ~IZ!Crash
      /\ ~IZ!Arrives /\ ~IZ!Policy
  BY DEF IZ!Query, IZ!Preview, IZ!Post, IZ!Save, IZ!Abort, IZ!Crash, IZ!Arrives, IZ!Policy,
         IZ!Admin
<1>7. ~IZ!Record /\ ~IZ!DeadlinePasses /\ ~IZ!Pause /\ ~IZ!Retry /\ ~IZ!Override
  BY <1>0 DEF IZ!Record, IZ!DeadlinePasses, IZ!Pause, IZ!Retry, IZ!Override, IZ!Admin,
     TaskSet
<1>8. ~IZ!Completed
  BY <1>0 DEF IZ!Completed, TaskSet
<1>9. ~IZ!Bind /\ ~IZ!AdminBinds
  BY <1>8 DEF IZ!Bind, IZ!AdminBinds
<1>10. ASSUME NEW u \in Users, IZ!EditSecret(u)  PROVE FALSE
  BY <1>0, <1>10 DEF IZ!EditSecret, IZ!Admin, TaskSet
<1>11. ASSUME NEW on \in BOOLEAN, IZ!SetEnabled(on)  PROVE FALSE
  BY <1>0, <1>11 DEF IZ!SetEnabled, IZ!Admin, TaskSet
<1>12. ASSUME NEW ls, NEW a, IZ!Reconfigured(ls, a)  PROVE FALSE
  BY <1>0, <1>12, MutationIs DEF IZ!Reconfigured
<1>13. ASSUME NEW l \in Routes, IZ!Switch(l) \/ IZ!Readdress(l) \/ IZ!Retire(l)  PROVE FALSE
  BY <1>12, <1>13 DEF IZ!Switch, IZ!Readdress, IZ!Retire
<1>14. QED
  BY <1>3, <1>4, <1>5, <1>6, <1>7, <1>9, <1>10, <1>11, <1>13 DEF IZ!Next, IZ!Step

\* At most one claim POST that may have taken effect is sent for a user, and a grant is
\* booked only on quota the user of the present credentials has, however restarts, refused
\* transactions, edits of lines and the administrator interfere with an attempt
\* (internal/initialization/manager.go, internal/store/initialization*.go).
THEOREM LinesClaimedOnce == ASSUME Upstream PROVE RunSpec => ClaimedOnce
<1>1. ClaimInv => (focus = "initialization" => IZ!PostOnce)
  BY DEF ClaimInv, IZ!PostOnce
<1>2. ClaimInv /\ [RunNext]_allVars =>
        [~task.granted /\ task'.granted => quota[acct'.user] = "available"]_IZ!vars
  BY Booked, ClaimRuns
<1>3. QED
  BY SpecClaimInv, <1>1, <1>2, PTL DEF RunSpec, ClaimedOnce, IZ!GrantIsReal

(***************************************************************************)
(* The bindings of accounts to lines.                                      *)
(***************************************************************************)

\* None is none of the credentials, addresses and lines, and there is a credential.
Names ==
    /\ Creds # {} /\ None \notin Creds /\ None \notin Addrs /\ None \notin BoundLines

ProfileSet == BI!Profile \cup {BI!Gone}

AccountSet ==
    [line : BoundLines \cup {None}, addr : Addrs \cup {None}, cred : Creds \cup {None},
     intent : BI!Intents, waits : Creds \cup {None}, avoid : SUBSET Addrs,
     credGen : Nat, routeGen : Nat]

RequestSet ==
    [phase : {"idle", "selected", "frozen", "sent", "refused"},
     of : Accounts \cup {None}, line : BoundLines \cup {None}, addr : Addrs \cup {None},
     cred : Creds \cup {None}, forced : BOOLEAN, gen : Nat, credGen : Nat, routeGen : Nat,
     pending : BOOLEAN]

Failed == SUBSET [line : BoundLines \cup {None}, addr : Addrs \cup {None}]

BindTypes ==
    /\ biProfiles \in [BoundLines -> ProfileSet] /\ generation \in [BoundLines -> Nat]
    /\ account \in [Accounts -> AccountSet]
    /\ standing \in [Addrs -> {"good", "blocked", "suspect"}]
    /\ failed \in [Accounts -> Failed]
    /\ new \subseteq Accounts /\ overruled \subseteq Accounts
    /\ request \in [Requests -> RequestSet] /\ touched \in [Requests -> BOOLEAN]

\* Every account that names a line has the line's address.
Bounded(ps, accounts) ==
    \A a \in Accounts :
        accounts[a].line # None =>
            /\ ps[accounts[a].line] # BI!Gone
            /\ accounts[a].addr = ps[accounts[a].line].addr

\* A line that is there was once added: its generation says so after it is gone.
Added == \A l \in BoundLines : biProfiles[l] # BI!Gone => generation[l] > 0

\* An account that has a line, or still waits for its first, exists.
Alive ==
    /\ \A a \in Accounts : /\ account[a].line # None => account[a].cred # None
                           /\ account[a].cred # None => account[a].credGen > 0
    /\ \A a \in new : account[a].cred # None

\* What a request froze is not ahead of the store.
Behind(q) ==
    /\ q.of \in Accounts
    /\ q.credGen <= account[q.of].credGen
    /\ q.line # None => generation[q.line] > 0
    /\ q.phase = "frozen" =>
        /\ q.routeGen <= account[q.of].routeGen
        /\ q.line # None => q.gen <= generation[q.line]

\* Some generation tells that what the request was given has changed.
Outdated(q) ==
    \/ account[q.of].credGen > q.credGen
    \/ /\ q.phase = "frozen" /\ ~q.forced
       /\ \/ account[q.of].routeGen > q.routeGen
          \/ q.line # None /\ generation[q.line] > q.gen
          \/ q.line # None /\ biProfiles[q.line] = BI!Gone

Known ==
    \A r \in Requests :
        request[r].phase # "idle" => request[r].of \in Accounts /\ request[r].cred # None

Tells ==
    \A r \in Requests :
        request[r].phase \in {"selected", "frozen"} =>
            Behind(request[r]) /\ (touched[r] => Outdated(request[r]))

BindInv ==
    BindTypes /\ Bounded(biProfiles, account) /\ Added /\ Alive /\ Known /\ Tells

-----------------------------------------------------------------------------

LEMMA FreshIs == Names => BI!Fresh \in AccountSet /\ BI!Fresh.line = None
  BY DEF BI!Fresh, AccountSet, BI!Intents

LEMMA ListedIs ==
    ASSUME Names, NEW ps \in [BoundLines -> ProfileSet], NEW l \in BoundLines,
           ps[l] # BI!Gone
    PROVE  ps[l].addr \in Addrs /\ ps[l].addr # None /\ ps[l] \in BI!Profile
  BY DEF Names, ProfileSet, BI!Profile

LEMMA TrackedIs ==
    ASSUME NEW old \in AccountSet, NEW acc \in AccountSet
    PROVE  LET t == BI!Tracked(old, acc)
           IN  /\ t \in AccountSet
               /\ t.line = acc.line /\ t.addr = acc.addr /\ t.cred = acc.cred
               /\ t.intent = acc.intent
               /\ t.credGen >= old.credGen /\ t.routeGen >= old.routeGen
               /\ acc.cred # old.cred => t.credGen > old.credGen
               /\ acc.line # old.line \/ acc.addr # old.addr => t.routeGen > old.routeGen
<1>1. old.credGen \in Nat /\ old.routeGen \in Nat /\ acc.cred \in Creds \cup {None}
      /\ acc.waits \in Creds \cup {None}
  BY DEF AccountSet
<1> DEFINE cg == IF acc.cred # old.cred THEN old.credGen + 1 ELSE old.credGen
           w == IF acc.cred # old.cred /\ acc.waits # None THEN acc.cred ELSE acc.waits
           rg == IF <<acc.line, acc.addr>> # <<old.line, old.addr>>
                 THEN old.routeGen + 1 ELSE old.routeGen
<1>2. BI!Tracked(old, acc) = [acc EXCEPT !.credGen = cg, !.waits = w, !.routeGen = rg]
  BY DEF BI!Tracked, AccountSet
<1>3. /\ cg \in Nat /\ cg >= old.credGen
      /\ acc.cred # old.cred => cg > old.credGen
      /\ rg \in Nat /\ rg >= old.routeGen
      /\ acc.line # old.line \/ acc.addr # old.addr => rg > old.routeGen
      /\ w \in Creds \cup {None}
  BY <1>1
<1> HIDE DEF cg, w, rg
<1>4. QED  BY <1>2, <1>3 DEF AccountSet

LEMMA IntendedIs ==
    ASSUME NEW acc \in AccountSet, NEW i \in BI!Intents
    PROVE  LET t == BI!Intended(acc, i)
           IN  /\ t \in AccountSet
               /\ t.line = acc.line /\ t.addr = acc.addr /\ t.cred = acc.cred
               /\ t.intent = i
               /\ i # "auto_pending_proxy" => t.waits = None
<1>1. PICK w \in Creds \cup {None} :
         /\ BI!Intended(acc, i) = [acc EXCEPT !.intent = i, !.avoid = {}, !.waits = w]
         /\ i # "auto_pending_proxy" => w = None
  <2>1. CASE i = "auto_pending_proxy"
    BY <2>1 DEF BI!Intended, AccountSet
  <2>2. CASE i # "auto_pending_proxy"
    BY <2>2 DEF BI!Intended, AccountSet
  <2>3. QED  BY <2>1, <2>2
<1>2. QED  BY <1>1 DEF AccountSet

LEMMA RoutedIs ==
    ASSUME NEW acc \in AccountSet, NEW l \in BoundLines \cup {None},
           NEW u \in Addrs \cup {None}
    PROVE  LET t == BI!Routed(acc, l, u)
           IN  /\ t \in AccountSet /\ t.line = l /\ t.addr = u /\ t.cred = acc.cred
               /\ t.intent = acc.intent /\ t.waits = acc.waits
  BY DEF BI!Routed, AccountSet

LEMMA ChosenIs ==
    ASSUME NEW l, NEW ps, NEW from, NEW load, NEW judged, BI!Chosen(l, ps, from, load, judged)
    PROVE  l = None \/ l \in from
  BY DEF BI!Chosen

LEMMA PlacementsIs ==
    ASSUME NEW batch, NEW ps, NEW from, NEW load, NEW judged,
           NEW p \in BI!Placements(batch, ps, from, load, judged)
    PROVE  /\ DOMAIN p = batch
           /\ \A a \in batch : p[a] = None \/ p[a] \in from[a]
  BY ChosenIs DEF BI!Placements

\* An account that gets a listed line is bound to it.
LEMMA PlacedIs ==
    ASSUME Names, NEW acc \in AccountSet, NEW ps \in [BoundLines -> ProfileSet],
           NEW l \in BI!Listed(ps)
    PROVE  LET t == BI!Intended(BI!Routed(acc, l, ps[l].addr), "auto_proxy")
           IN  /\ t \in AccountSet /\ t.line = l /\ t.addr = ps[l].addr /\ t.cred = acc.cred
               /\ t.intent = "auto_proxy"
<1>1. l \in BoundLines /\ ps[l] # BI!Gone  BY DEF BI!Listed
<1>2. ps[l].addr \in Addrs  BY <1>1, ListedIs
<1>3. "auto_proxy" \in BI!Intents  BY DEF BI!Intents
<1> DEFINE r == BI!Routed(acc, l, ps[l].addr)
<1>4. /\ r \in AccountSet /\ r.line = l /\ r.addr = ps[l].addr /\ r.cred = acc.cred
  BY <1>1, <1>2, RoutedIs
<1> HIDE DEF r
<1>5. LET t == BI!Intended(r, "auto_proxy")
      IN  /\ t \in AccountSet /\ t.line = r.line /\ t.addr = r.addr /\ t.cred = r.cred
          /\ t.intent = "auto_proxy"
  BY <1>3, <1>4, IntendedIs
<1>6. QED  BY <1>4, <1>5 DEF r

LEMMA ReassignedIs ==
    ASSUME Names, BindTypes, NEW batch \in SUBSET Accounts,
           NEW ps \in [BoundLines -> ProfileSet], NEW from \in SUBSET BI!Listed(ps),
           NEW judged, NEW avoid \in SUBSET Addrs,
           NEW accounts \in BI!Reassignments(batch, ps, from, judged, avoid)
    PROVE  /\ accounts \in [Accounts -> AccountSet]
           /\ \A a \in Accounts : accounts[a].cred = account[a].cred
           /\ \A a \in Accounts \ batch : accounts[a] = account[a]
           /\ \A a \in batch : accounts[a].line # None =>
                /\ accounts[a].line \in BI!Listed(ps)
                /\ accounts[a].addr = ps[accounts[a].line].addr
<1>1. PICK p \in BI!Placements(batch, ps, [a \in batch |-> from], BI!Load(account), judged) :
        accounts = BI!Reassigned(p, ps, avoid)
  BY DEF BI!Reassignments
<1>2. DOMAIN p = batch /\ \A a \in batch : p[a] = None \/ p[a] \in from
  BY PlacementsIs
<1>3. accounts = [a \in Accounts |->
        IF a \notin batch THEN account[a]
        ELSE IF p[a] = None
        THEN [BI!Intended(BI!Routed(account[a], None, None), "auto_pending_proxy")
                EXCEPT !.avoid = avoid]
        ELSE BI!Intended(BI!Routed(account[a], p[a], ps[p[a]].addr), "auto_proxy")]
  BY <1>1, <1>2 DEF BI!Reassigned
<1>4. ASSUME NEW a \in Accounts
      PROVE  /\ accounts[a] \in AccountSet /\ accounts[a].cred = account[a].cred
             /\ a \notin batch => accounts[a] = account[a]
             /\ a \in batch /\ accounts[a].line # None =>
                  /\ accounts[a].line \in BI!Listed(ps)
                  /\ accounts[a].addr = ps[accounts[a].line].addr
  <2>0. account[a] \in AccountSet  BY DEF BindTypes
  <2>1. CASE a \notin batch
    BY <1>3, <2>0, <2>1
  <2>2. CASE a \in batch /\ p[a] = None
    <3> DEFINE t == BI!Intended(BI!Routed(account[a], None, None), "auto_pending_proxy")
    <3>1. /\ BI!Routed(account[a], None, None) \in AccountSet
          /\ BI!Routed(account[a], None, None).line = None
          /\ BI!Routed(account[a], None, None).cred = account[a].cred
      BY <2>0 DEF BI!Routed, AccountSet
    <3>2. "auto_pending_proxy" \in BI!Intents  BY DEF BI!Intents
    <3>3. t \in AccountSet /\ t.line = None /\ t.cred = account[a].cred
      BY <3>1, <3>2, IntendedIs
    <3>4. accounts[a] = [t EXCEPT !.avoid = avoid]
      BY <1>3, <2>2
    <3> HIDE DEF t
    <3>5. /\ accounts[a] \in AccountSet /\ accounts[a].line = None
          /\ accounts[a].cred = account[a].cred
      BY <3>3, <3>4 DEF AccountSet
    <3>6. QED  BY <2>2, <3>5
  <2>3. CASE a \in batch /\ p[a] # None
    <3>1. p[a] \in BI!Listed(ps)  BY <1>2, <2>3
    <3>2. accounts[a] = BI!Intended(BI!Routed(account[a], p[a], ps[p[a]].addr), "auto_proxy")
      BY <1>3, <2>3
    <3>3. /\ accounts[a] \in AccountSet /\ accounts[a].line = p[a]
          /\ accounts[a].addr = ps[p[a]].addr /\ accounts[a].cred = account[a].cred
      BY <2>0, <3>1, <3>2, PlacedIs
    <3>4. QED  BY <2>3, <3>1, <3>3
  <2>4. QED  BY <2>1, <2>2, <2>3
<1>5. accounts \in [Accounts -> AccountSet]
  BY <1>3, <1>4
<1>6. QED  BY <1>4, <1>5

\* Only accounts that wait for a line, and so have none, are rebound.
LEMMA ReboundIs ==
    ASSUME Names, NEW ps \in [BoundLines -> ProfileSet],
           NEW accounts \in [Accounts -> AccountSet], Bounded(ps, accounts),
           NEW bound \in BI!Reboundings(ps, accounts)
    PROVE  /\ bound \in [Accounts -> AccountSet] /\ Bounded(ps, bound)
           /\ \A a \in Accounts : accounts[a].line # None \/ accounts[a].waits = None =>
                bound[a].line = accounts[a].line /\ bound[a].intent = accounts[a].intent
           /\ \A a \in Accounts :
                /\ bound[a].cred = accounts[a].cred
                /\ bound[a].line # None => accounts[a].line # None \/ accounts[a].cred # None
<1> DEFINE batch == BI!Waiters(accounts)
           from == [a \in batch |-> {m \in BI!Listed(ps) : ps[m].addr \notin accounts[a].avoid}]
<1>1. PICK p \in BI!Placements(batch, ps, from, BI!Load(accounts), standing) :
        bound = BI!Rebound(p, ps, accounts)
  BY DEF BI!Reboundings
<1>2. DOMAIN p = batch /\ \A a \in batch : p[a] = None \/ p[a] \in from[a]
  BY PlacementsIs
<1>3. \A a \in batch : p[a] = None \/ p[a] \in BI!Listed(ps)
  BY <1>2
<1>4. bound = [a \in Accounts |->
        IF accounts[a].waits = None THEN accounts[a]
        ELSE IF a \notin batch THEN [accounts[a] EXCEPT !.waits = None, !.avoid = {}]
        ELSE IF p[a] = None THEN accounts[a]
        ELSE BI!Intended(BI!Routed(accounts[a], p[a], ps[p[a]].addr), "auto_proxy")]
  BY <1>1, <1>2 DEF BI!Rebound
<1>5. \A a \in batch :
        /\ accounts[a].line = None /\ accounts[a].waits # None
        /\ accounts[a].cred # None
  <2>0. \A a \in batch : accounts[a].waits # None /\ accounts[a].cred # None
    BY DEF BI!Waiters, BI!StillWaits
  <2> SUFFICES ASSUME NEW a \in batch, accounts[a].line # None  PROVE FALSE
    BY <2>0
  <2>1. a \in Accounts /\ accounts[a].addr = None
    BY DEF BI!Waiters, BI!StillWaits
  <2>2. accounts[a].line \in BoundLines
    BY <2>1 DEF AccountSet
  <2>3. QED  BY <2>1, <2>2, ListedIs DEF Bounded
<1> HIDE DEF batch, from
<1>6. ASSUME NEW a \in Accounts
      PROVE  /\ bound[a] \in AccountSet /\ bound[a].cred = accounts[a].cred
             /\ bound[a].line # None => /\ ps[bound[a].line] # BI!Gone
                                        /\ bound[a].addr = ps[bound[a].line].addr
             /\ bound[a].line # None => accounts[a].line # None \/ accounts[a].cred # None
             /\ accounts[a].line # None \/ accounts[a].waits = None =>
                  bound[a].line = accounts[a].line /\ bound[a].intent = accounts[a].intent
  <2>0. accounts[a] \in AccountSet  OBVIOUS
  <2>1. CASE bound[a] = accounts[a]
    BY <2>0, <2>1 DEF Bounded
  <2>2. CASE bound[a] = [accounts[a] EXCEPT !.waits = None, !.avoid = {}]
    <3>1. /\ bound[a] \in AccountSet /\ bound[a].cred = accounts[a].cred
          /\ bound[a].line = accounts[a].line /\ bound[a].addr = accounts[a].addr
          /\ bound[a].intent = accounts[a].intent
      BY <2>0, <2>2 DEF AccountSet
    <3>2. QED  BY <3>1 DEF Bounded
  <2>3. CASE /\ a \in batch /\ p[a] # None
             /\ bound[a] = BI!Intended(BI!Routed(accounts[a], p[a], ps[p[a]].addr), "auto_proxy")
    <3>1. p[a] \in BI!Listed(ps)  BY <1>3, <2>3
    <3>2. /\ bound[a] \in AccountSet /\ bound[a].cred = accounts[a].cred
          /\ bound[a].line = p[a] /\ bound[a].addr = ps[p[a]].addr
      BY <2>0, <2>3, <3>1, PlacedIs
    <3>3. QED  BY <1>5, <2>3, <3>1, <3>2 DEF BI!Listed
  <2>4. QED  BY <1>4, <2>1, <2>2, <2>3
<1>7. bound \in [Accounts -> AccountSet]
  BY <1>4, <1>6
<1>8. QED  BY <1>6, <1>7 DEF Bounded

\* Whatever a request was given cannot change without a generation telling.
LEMMA Versions ==
    ASSUME BindInv, account' \in [Accounts -> AccountSet],
           biProfiles' \in [BoundLines -> ProfileSet], generation' \in [BoundLines -> Nat],
           request' = request, BI!Witnessed,
           \A a \in Accounts :
             /\ account'[a].credGen >= account[a].credGen
             /\ account'[a].routeGen >= account[a].routeGen
             /\ account'[a].cred # account[a].cred =>
                  account'[a].credGen > account[a].credGen
             /\ \/ account'[a].line # account[a].line
                \/ account'[a].addr # account[a].addr
                => account'[a].routeGen > account[a].routeGen,
           \A l \in BoundLines :
             /\ generation'[l] >= generation[l]
             /\ biProfiles'[l] # biProfiles[l] =>
                  generation'[l] > generation[l] \/ biProfiles'[l] = BI!Gone
             /\ biProfiles[l] = BI!Gone /\ generation[l] > 0 => biProfiles'[l] = BI!Gone
    PROVE  Tells' /\ touched' \in [Requests -> BOOLEAN]
<1>1. touched' = [r \in Requests |-> touched[r] \/
        BI!Given(request[r], account, biProfiles) # BI!Given(request[r], account', biProfiles')]
  BY DEF BI!Witnessed
<1>2. touched' \in [Requests -> BOOLEAN]
  BY <1>1 DEF BindInv, BindTypes
<1>3. ASSUME NEW r \in Requests, request[r].phase \in {"selected", "frozen"}
      PROVE  Behind(request[r])' /\ (touched'[r] => Outdated(request[r])')
  <2> PICK q : q = request[r]  OBVIOUS
  <2>0. /\ q \in RequestSet /\ Behind(q) /\ (touched[r] => Outdated(q))
        /\ q.of \in Accounts
    BY <1>3 DEF BindInv, BindTypes, Tells, Behind
  <2>1. /\ q.credGen \in Nat /\ q.routeGen \in Nat /\ q.gen \in Nat
        /\ q.line \in BoundLines \cup {None} /\ q.forced \in BOOLEAN
        /\ q.phase \in {"selected", "frozen"}
    BY <1>3, <2>0 DEF RequestSet
  <2>2. /\ account[q.of].credGen \in Nat /\ account[q.of].routeGen \in Nat
        /\ account'[q.of].credGen \in Nat /\ account'[q.of].routeGen \in Nat
    BY <2>0 DEF BindInv, BindTypes, AccountSet
  <2>3. q.line # None => /\ q.line \in BoundLines /\ generation[q.line] \in Nat
                         /\ generation'[q.line] \in Nat
    BY <2>1 DEF BindInv, BindTypes
  <2>4. request'[r] = q  OBVIOUS
  <2>5. Behind(q)'
    BY <2>0, <2>1, <2>2, <2>3 DEF Behind
  <2>6. ASSUME Outdated(q)  PROVE Outdated(q)'
    BY <2>0, <2>1, <2>2, <2>3, <2>6 DEF Behind, Outdated
  <2>7. ASSUME BI!Given(q, account, biProfiles) # BI!Given(q, account', biProfiles')
        PROVE  Outdated(q)'
    <3>1. SUFFICES ASSUME ~Outdated(q)'  PROVE FALSE
      OBVIOUS
    <3>a. /\ account'[q.of].cred # account[q.of].cred =>
               account'[q.of].credGen > account[q.of].credGen
          /\ \/ account'[q.of].line # account[q.of].line
             \/ account'[q.of].addr # account[q.of].addr
             => account'[q.of].routeGen > account[q.of].routeGen
      BY <2>0
    <3>b. account'[q.of].credGen <= q.credGen
      BY <2>0, <2>1, <2>2, <3>1 DEF Outdated
    <3>2. account'[q.of].cred = account[q.of].cred
      BY <2>0, <2>1, <2>2, <3>a, <3>b DEF Behind
    <3>3. CASE q.phase = "selected" \/ q.forced
      BY <2>1, <2>7, <3>2, <3>3 DEF BI!Given
    <3>4. CASE q.phase = "frozen" /\ ~q.forced
      <4>1. /\ account'[q.of].line = account[q.of].line
            /\ account'[q.of].addr = account[q.of].addr
        BY <2>0, <2>1, <2>2, <3>1, <3>4, <3>a DEF Behind, Outdated
      <4>2. q.line # None => biProfiles'[q.line] = biProfiles[q.line]
        BY <2>0, <2>1, <2>3, <3>1, <3>4 DEF Behind, Outdated
      <4>3. QED  BY <2>7, <3>2, <3>4, <4>1, <4>2 DEF BI!Given
    <3>5. QED  BY <2>1, <3>3, <3>4
  <2>8. QED  BY <1>1, <2>0, <2>4, <2>5, <2>6, <2>7
<1>4. QED  BY <1>2, <1>3 DEF Tells

LEMMA WritesIs ==
    ASSUME Names, BindInv, NEW ps \in [BoundLines -> ProfileSet],
           NEW accounts \in [Accounts -> AccountSet], Bounded(ps, accounts),
           \A l \in BoundLines : ps[l] # BI!Gone /\ biProfiles[l] = BI!Gone => generation[l] = 0,
           \A a \in Accounts : accounts[a].line # None => accounts[a].cred # None,
           BI!Commit(ps, accounts), BI!Writes
    PROVE  /\ account' \in [Accounts -> AccountSet]
           /\ biProfiles' = ps /\ generation' \in [BoundLines -> Nat]
           /\ Bounded(biProfiles, account)' /\ Added' /\ Tells'
           /\ request' = request /\ touched' \in [Requests -> BOOLEAN]
           /\ \A a \in Accounts :
                /\ accounts[a].line # None \/ accounts[a].waits = None =>
                     /\ account'[a].line = accounts[a].line
                     /\ account'[a].intent = accounts[a].intent
                /\ account'[a].cred = accounts[a].cred
                /\ account'[a].line # None => account'[a].cred # None
                /\ account'[a].cred # None => account'[a].credGen > 0
<1>1. PICK bound \in IF BI!OpensALine(ps) THEN BI!Reboundings(ps, accounts) ELSE {accounts} :
        account' = [a \in Accounts |-> BI!Tracked(account[a], bound[a])]
  BY DEF BI!Commit
<1>2. /\ bound \in [Accounts -> AccountSet] /\ Bounded(ps, bound)
      /\ \A a \in Accounts :
           /\ accounts[a].line # None \/ accounts[a].waits = None =>
                bound[a].line = accounts[a].line /\ bound[a].intent = accounts[a].intent
           /\ bound[a].cred = accounts[a].cred
           /\ bound[a].line # None => accounts[a].line # None \/ accounts[a].cred # None
  <2>1. CASE bound \in BI!Reboundings(ps, accounts)
    BY <2>1, ReboundIs
  <2>2. CASE bound = accounts
    BY <2>2
  <2>3. QED  BY <1>1, <2>1, <2>2
<1>3. account \in [Accounts -> AccountSet]  BY DEF BindInv, BindTypes
<1>4. \A a \in Accounts :
        /\ account'[a] \in AccountSet
        /\ account'[a].line = bound[a].line /\ account'[a].addr = bound[a].addr
        /\ account'[a].cred = bound[a].cred /\ account'[a].intent = bound[a].intent
        /\ account'[a].credGen >= account[a].credGen
        /\ account'[a].routeGen >= account[a].routeGen
        /\ account'[a].cred # account[a].cred => account'[a].credGen > account[a].credGen
        /\ \/ account'[a].line # account[a].line
           \/ account'[a].addr # account[a].addr
           => account'[a].routeGen > account[a].routeGen
  <2> SUFFICES ASSUME NEW a \in Accounts
               PROVE  LET t == account'[a]
                      IN  /\ t \in AccountSet
                          /\ t.line = bound[a].line /\ t.addr = bound[a].addr
                          /\ t.cred = bound[a].cred /\ t.intent = bound[a].intent
                          /\ t.credGen >= account[a].credGen
                          /\ t.routeGen >= account[a].routeGen
                          /\ bound[a].cred # account[a].cred => t.credGen > account[a].credGen
                          /\ \/ bound[a].line # account[a].line
                             \/ bound[a].addr # account[a].addr
                             => t.routeGen > account[a].routeGen
    OBVIOUS
  <2>1. account'[a] = BI!Tracked(account[a], bound[a])  BY <1>1
  <2>2. account[a] \in AccountSet /\ bound[a] \in AccountSet  BY <1>2, <1>3
  <2>3. QED  BY <2>1, <2>2, TrackedIs
<1>5. account' \in [Accounts -> AccountSet]
  BY <1>1, <1>4
<1>6. /\ biProfiles' = ps /\ request' = request /\ BI!Witnessed
      /\ generation' = [l \in BoundLines |-> IF ps[l] \notin {BI!Gone, biProfiles[l]}
                                             THEN generation[l] + 1 ELSE generation[l]]
  BY DEF BI!Commit, BI!Writes
<1>7. generation \in [BoundLines -> Nat]  BY DEF BindInv, BindTypes
<1>8. generation' \in [BoundLines -> Nat]
  BY <1>6, <1>7
<1>9. \A l \in BoundLines :
        /\ generation'[l] >= generation[l]
        /\ biProfiles'[l] # biProfiles[l] =>
             generation'[l] > generation[l] \/ biProfiles'[l] = BI!Gone
        /\ biProfiles[l] = BI!Gone /\ generation[l] > 0 => biProfiles'[l] = BI!Gone
  BY <1>6, <1>7
<1>10. Bounded(biProfiles, account)'
  BY <1>2, <1>4, <1>6 DEF Bounded
<1>11. Added'
  BY <1>6, <1>7 DEF BindInv, Added
<1>12. Tells' /\ touched' \in [Requests -> BOOLEAN]
  BY <1>4, <1>5, <1>6, <1>8, <1>9, Versions
<1>13. ASSUME NEW a \in Accounts
       PROVE  /\ account'[a].cred = accounts[a].cred
              /\ account'[a].line # None => account'[a].cred # None
              /\ account'[a].cred # None => account'[a].credGen > 0
  <2>1. account[a].credGen \in Nat /\ account'[a].credGen \in Nat
    BY <1>3, <1>5 DEF AccountSet
  <2>2. account[a].cred # None => account[a].credGen > 0
    BY DEF BindInv, Alive
  <2>3. QED  BY <1>2, <1>4, <2>1, <2>2
<1>14. QED
  BY <1>2, <1>4, <1>5, <1>6, <1>8, <1>10, <1>11, <1>12, <1>13

\* Why an account may leave its line in a step.
Reason(a, ps) ==
    \/ ps[account[a].line] = BI!Gone
    \/ BI!Quarantine(account[a].addr)
    \/ [line |-> account[a].line, addr |-> account[a].addr] \in failed'[a]

Stays ==
    \A a \in Accounts : account[a].line # None /\ account'[a].line # account[a].line =>
        \/ Reason(a, biProfiles')
        \/ account'[a].intent \in {"manual_proxy", "explicit_direct"}
        \/ account'[a].cred = None

\* A commit keeps the invariant, and moves nobody whom its caller did not move.
LEMMA CommitStays ==
    ASSUME Names, BindInv, NEW ps \in [BoundLines -> ProfileSet],
           NEW accounts \in [Accounts -> AccountSet], Bounded(ps, accounts),
           \A l \in BoundLines : ps[l] # BI!Gone /\ biProfiles[l] = BI!Gone => generation[l] = 0,
           \A a \in Accounts : accounts[a].line # None => accounts[a].cred # None,
           BI!Commit(ps, accounts), BI!Writes,
           standing' \in [Addrs -> {"good", "blocked", "suspect"}],
           failed' \in [Accounts -> Failed],
           new' \subseteq Accounts, \A a \in new' : accounts[a].cred # None,
           overruled' \subseteq Accounts,
           \A a \in Accounts : account[a].line # None =>
             \/ accounts[a].line = account[a].line
             \/ Reason(a, ps)
             \/ /\ accounts[a].intent \in {"manual_proxy", "explicit_direct"}
                /\ accounts[a].line # None \/ accounts[a].waits = None
    PROVE  BindInv' /\ Stays
<1>1. /\ account' \in [Accounts -> AccountSet]
      /\ biProfiles' = ps /\ generation' \in [BoundLines -> Nat]
      /\ Bounded(biProfiles, account)' /\ Added' /\ Tells'
      /\ request' = request /\ touched' \in [Requests -> BOOLEAN]
      /\ \A a \in Accounts :
           /\ accounts[a].line # None \/ accounts[a].waits = None =>
                /\ account'[a].line = accounts[a].line
                /\ account'[a].intent = accounts[a].intent
           /\ account'[a].cred = accounts[a].cred
           /\ account'[a].line # None => account'[a].cred # None
           /\ account'[a].cred # None => account'[a].credGen > 0
  BY WritesIs
<1>2. BindTypes'
  BY <1>1 DEF BindInv, BindTypes
<1>3. Alive'
  BY <1>1 DEF Alive
<1>4. Known'
  BY <1>1 DEF BindInv, Known
<1>5. Stays
  BY <1>1 DEF Stays, Reason
<1>6. QED  BY <1>1, <1>2, <1>3, <1>4, <1>5 DEF BindInv

\* A commit that reassigns a batch.
LEMMA ReassignStays ==
    ASSUME Names, BindInv, NEW batch \in SUBSET Accounts,
           NEW ps \in [BoundLines -> ProfileSet], NEW from \in SUBSET BI!Listed(ps),
           NEW judged, NEW avoid \in SUBSET Addrs,
           NEW accounts \in BI!Reassignments(batch, ps, from, judged, avoid),
           \A l \in BoundLines : ps[l] \in {BI!Gone, biProfiles[l]},
           \A a \in batch : account[a].cred # None,
           \A a \in batch : account[a].line # None => Reason(a, ps),
           \A a \in Accounts \ batch : account[a].line # None =>
             ps[account[a].line] = biProfiles[account[a].line],
           BI!Commit(ps, accounts), BI!Writes,
           standing' \in [Addrs -> {"good", "blocked", "suspect"}], failed' = failed,
           new' \subseteq new, overruled' = overruled
    PROVE  BindInv' /\ Stays
<1>1. /\ accounts \in [Accounts -> AccountSet]
      /\ \A a \in Accounts : accounts[a].cred = account[a].cred
      /\ \A a \in Accounts \ batch : accounts[a] = account[a]
      /\ \A a \in batch : accounts[a].line # None =>
           /\ accounts[a].line \in BI!Listed(ps)
           /\ accounts[a].addr = ps[accounts[a].line].addr
  <2>1. BindTypes  BY DEF BindInv
  <2>2. QED
    BY ONLY Names, <2>1, batch \in SUBSET Accounts, ps \in [BoundLines -> ProfileSet],
            from \in SUBSET BI!Listed(ps), avoid \in SUBSET Addrs,
            accounts \in BI!Reassignments(batch, ps, from, judged, avoid),
            ReassignedIs, Zenon
<1>2. Bounded(ps, accounts)
  BY <1>1 DEF Bounded, BindInv, BI!Listed
<1>3. \A a \in Accounts : accounts[a].line # None => accounts[a].cred # None
  BY <1>1 DEF BindInv, Alive
<1>4. /\ failed' \in [Accounts -> Failed]
      /\ new' \subseteq Accounts /\ overruled' \subseteq Accounts
  BY DEF BindInv, BindTypes
<1>5. \A a \in new' : accounts[a].cred # None
  BY <1>1 DEF BindInv, BindTypes, Alive
<1>6. \A a \in Accounts : account[a].line # None =>
        accounts[a].line = account[a].line \/ Reason(a, ps)
  BY <1>1
<1>7. \A l \in BoundLines : ps[l] # BI!Gone /\ biProfiles[l] = BI!Gone => generation[l] = 0
  OBVIOUS
<1>8. QED  BY <1>1, <1>2, <1>3, <1>4, <1>5, <1>6, <1>7, CommitStays

\* A commit that changes one account, which is there before and after.
LEMMA OneStays ==
    ASSUME Names, BindInv, NEW a \in Accounts, NEW acc \in AccountSet,
           BI!Commit(biProfiles, [account EXCEPT ![a] = acc]), BI!Writes,
           acc.cred # None,
           acc.line # None => /\ biProfiles[acc.line] # BI!Gone
                              /\ acc.addr = biProfiles[acc.line].addr,
           account[a].line # None =>
             \/ acc.line = account[a].line
             \/ Reason(a, biProfiles)
             \/ /\ acc.intent \in {"manual_proxy", "explicit_direct"}
                /\ acc.line # None \/ acc.waits = None,
           standing' = standing,
           failed' \in [Accounts -> Failed],
           new' \subseteq new \cup {a}, overruled' \subseteq Accounts
    PROVE  BindInv' /\ Stays
<1> DEFINE accounts == [account EXCEPT ![a] = acc]
<1>1. /\ accounts \in [Accounts -> AccountSet] /\ accounts[a] = acc
      /\ \A b \in Accounts : b # a => accounts[b] = account[b]
  BY DEF BindInv, BindTypes
<1>2. BI!Commit(biProfiles, accounts)
  OBVIOUS
<1> HIDE DEF accounts
<1>3. biProfiles \in [BoundLines -> ProfileSet]  BY DEF BindInv, BindTypes
<1>4. Bounded(biProfiles, accounts)
  BY <1>1 DEF Bounded, BindInv
<1>5. \A b \in Accounts : accounts[b].line # None => accounts[b].cred # None
  BY <1>1 DEF BindInv, Alive
<1>6. /\ standing' \in [Addrs -> {"good", "blocked", "suspect"}]
      /\ new' \subseteq Accounts
  BY DEF BindInv, BindTypes
<1>7. \A b \in new' : accounts[b].cred # None
  BY <1>1 DEF BindInv, BindTypes, Alive
<1>8. \A b \in Accounts : account[b].line # None =>
        \/ accounts[b].line = account[b].line
        \/ Reason(b, biProfiles)
        \/ /\ accounts[b].intent \in {"manual_proxy", "explicit_direct"}
           /\ accounts[b].line # None \/ accounts[b].waits = None
  BY <1>1
<1>9. \A l \in BoundLines : biProfiles[l] # BI!Gone /\ biProfiles[l] = BI!Gone => generation[l] = 0
  OBVIOUS
<1>10. QED  BY <1>1, <1>2, <1>3, <1>4, <1>5, <1>6, <1>7, <1>8, <1>9, CommitStays

LEMMA StoredIs ==
    ASSUME Names, NEW ps \in [BoundLines -> ProfileSet], NEW acc \in BI!Stored(ps)
    PROVE  /\ acc \in AccountSet
           /\ acc.line # None => /\ ps[acc.line] # BI!Gone
                                 /\ acc.addr = ps[acc.line].addr
                                 /\ acc.cred # None
           /\ acc.cred # None => acc.credGen > 0
<1> DEFINE first == CHOOSE c \in Creds : TRUE
           added == [BI!Fresh EXCEPT !.cred = first, !.credGen = 1]
           placed(l) == [added EXCEPT !.line = l, !.addr = ps[l].addr,
                                      !.intent = "auto_proxy", !.routeGen = 1]
<1>0. /\ BI!Fresh \in AccountSet /\ BI!Fresh.line = None /\ BI!Fresh.cred = None
  BY FreshIs DEF BI!Fresh
<1>1. first \in Creds /\ first # None
  BY DEF Names
<1>2. acc = BI!Fresh \/ acc = added \/ \E l \in BI!Listed(ps) : acc = placed(l)
  BY DEF BI!Stored
<1> HIDE DEF first
<1>3. added \in AccountSet /\ added.line = None /\ added.cred # None /\ added.credGen = 1
  BY <1>0, <1>1 DEF AccountSet
<1> HIDE DEF added
<1>4. ASSUME NEW l \in BI!Listed(ps), acc = placed(l)
      PROVE  /\ acc \in AccountSet /\ acc.line = l /\ acc.addr = ps[l].addr
             /\ acc.cred # None /\ acc.credGen = 1 /\ ps[l] # BI!Gone
  <2>1. l \in BoundLines /\ ps[l] # BI!Gone  BY DEF BI!Listed
  <2>2. ps[l].addr \in Addrs  BY <2>1, ListedIs
  <2>3. "auto_proxy" \in BI!Intents  BY DEF BI!Intents
  <2>4. QED  BY <1>3, <1>4, <2>1, <2>2, <2>3 DEF AccountSet
<1> HIDE DEF placed
<1>5. QED  BY <1>0, <1>2, <1>3, <1>4

LEMMA InitBind == Names /\ BI!Init => BindInv
<1> SUFFICES ASSUME Names, BI!Init  PROVE BindInv
  OBVIOUS
<1>0. /\ biProfiles \in [BoundLines -> {BI!Gone} \cup BI!Imported]
      /\ generation = [l \in BoundLines |-> IF biProfiles[l] = BI!Gone THEN 0 ELSE 1]
      /\ account \in [Accounts -> BI!Stored(biProfiles)]
      /\ failed = [a \in Accounts |-> {}]
      /\ standing = [u \in Addrs |-> "good"]
      /\ new = {a \in Accounts : BI!Live(a) /\ account[a].line = None} /\ overruled = {}
      /\ request = [r \in Requests |-> BI!Idle] /\ touched = [r \in Requests |-> FALSE]
  BY DEF BI!Init
<1>1. /\ biProfiles \in [BoundLines -> ProfileSet] /\ generation \in [BoundLines -> Nat]
  <2>1. BI!Imported \subseteq BI!Profile
    <3>1. \A u \in Addrs : [addr |-> u, on |-> TRUE, keep |-> FALSE] \in BI!Profile
      BY DEF BI!Profile
    <3>2. QED  BY <3>1, Zenon DEF BI!Imported
  <2>2. biProfiles \in [BoundLines -> ProfileSet]
    BY <1>0, <2>1 DEF ProfileSet
  <2>3. QED  BY <1>0, <2>2
<1>2. ASSUME NEW a \in Accounts
      PROVE  /\ account[a] \in AccountSet
             /\ account[a].line # None =>
                  /\ biProfiles[account[a].line] # BI!Gone
                  /\ account[a].addr = biProfiles[account[a].line].addr
                  /\ account[a].cred # None
             /\ account[a].cred # None => account[a].credGen > 0
  BY <1>0, <1>1, StoredIs
<1>3. BindTypes
  <2>1. account \in [Accounts -> AccountSet]  BY <1>0, <1>2
  <2>2. BI!Idle \in RequestSet  BY DEF BI!Idle, RequestSet
  <2>3. QED  BY <1>0, <1>1, <2>1, <2>2 DEF BindTypes, Failed
<1>4. Bounded(biProfiles, account) /\ Alive
  BY <1>0, <1>2 DEF Bounded, Alive, BI!Live
<1>5. Added
  BY <1>0 DEF Added
<1>6. Known /\ Tells
  BY <1>0 DEF Known, Tells, BI!Idle
<1>7. QED  BY <1>3, <1>4, <1>5, <1>6 DEF BindInv

-----------------------------------------------------------------------------

LEMMA ProfilesBind ==
    ASSUME Names, BindInv, NEW l \in BoundLines, NEW p \in BI!Profile,
           BI!AddProxyProfile(l, p) \/ BI!UpdateProxyProfile(l, p)
    PROVE  BindInv' /\ Stays
<1> DEFINE ps == [biProfiles EXCEPT ![l] = p]
<1>0. /\ biProfiles \in [BoundLines -> ProfileSet] /\ account \in [Accounts -> AccountSet]
      /\ p # BI!Gone /\ p.addr \in Addrs /\ p \in ProfileSet
  BY DEF BindInv, BindTypes, Names, ProfileSet, BI!Profile, BI!Gone
<1>1. /\ ps \in [BoundLines -> ProfileSet] /\ ps[l] = p
      /\ \A m \in BoundLines : m # l => ps[m] = biProfiles[m]
  BY <1>0
<1> HIDE DEF ps
<1>2. \A a \in Accounts : account[a].line # None =>
        /\ account[a].line \in BoundLines /\ biProfiles[account[a].line] # BI!Gone
        /\ account[a].addr = biProfiles[account[a].line].addr /\ account[a].cred # None
  BY <1>0 DEF BindInv, Bounded, Alive, AccountSet
<1>3. CASE BI!AddProxyProfile(l, p)
  <2>1. /\ generation[l] = 0 /\ BI!Commit(ps, account) /\ BI!Writes
        /\ failed' = failed /\ standing' = standing /\ new' = new /\ overruled' = overruled
    BY <1>3 DEF BI!AddProxyProfile, ps
  <2>2. biProfiles[l] = BI!Gone
    BY <2>1 DEF BindInv, Added
  <2>3. Bounded(ps, account)
    BY <1>1, <1>2, <2>2 DEF Bounded
  <2>4. /\ \A m \in BoundLines : ps[m] # BI!Gone /\ biProfiles[m] = BI!Gone => generation[m] = 0
        /\ \A a \in Accounts : account[a].line # None => account[a].cred # None
        /\ \A a \in new' : account[a].cred # None
        /\ standing' \in [Addrs -> {"good", "blocked", "suspect"}]
        /\ failed' \in [Accounts -> Failed]
        /\ new' \subseteq Accounts /\ overruled' \subseteq Accounts
    BY <1>1, <1>2, <2>1, <2>2 DEF BindInv, BindTypes, Alive
  <2>5. QED  BY <1>0, <1>1, <2>1, <2>3, <2>4, CommitStays
<1>4. CASE BI!UpdateProxyProfile(l, p)
  <2> DEFINE accounts == BI!Followed(l, p.addr)
  <2>1. /\ biProfiles[l] # BI!Gone /\ BI!Commit(ps, accounts) /\ BI!Writes
        /\ failed' = failed /\ standing' = standing /\ new' = new /\ overruled' = overruled
    BY <1>4 DEF BI!UpdateProxyProfile, ps
  <2>2. accounts = [a \in Accounts |-> IF account[a].line = l
                                       THEN [account[a] EXCEPT !.addr = p.addr]
                                       ELSE account[a]]
    BY DEF BI!Followed
  <2> HIDE DEF accounts
  <2>3. \A a \in Accounts :
          /\ accounts[a] \in AccountSet
          /\ accounts[a].line = account[a].line /\ accounts[a].cred = account[a].cred
          /\ account[a].line = l => accounts[a].addr = p.addr
          /\ account[a].line # l => accounts[a].addr = account[a].addr
    <3> SUFFICES ASSUME NEW a \in Accounts
                 PROVE  /\ accounts[a] \in AccountSet
                        /\ accounts[a].line = account[a].line
                        /\ accounts[a].cred = account[a].cred
                        /\ account[a].line = l => accounts[a].addr = p.addr
                        /\ account[a].line # l => accounts[a].addr = account[a].addr
      OBVIOUS
    <3>1. account[a] \in AccountSet  BY <1>0
    <3>2. QED  BY <1>0, <2>2, <3>1 DEF AccountSet
  <2>4. accounts \in [Accounts -> AccountSet]
    BY <2>2, <2>3
  <2>5. Bounded(ps, accounts)
    BY <1>0, <1>1, <1>2, <2>3 DEF Bounded
  <2>6. /\ \A m \in BoundLines : ps[m] # BI!Gone /\ biProfiles[m] = BI!Gone => generation[m] = 0
        /\ \A a \in Accounts : accounts[a].line # None => accounts[a].cred # None
        /\ \A a \in new' : accounts[a].cred # None
        /\ standing' \in [Addrs -> {"good", "blocked", "suspect"}]
        /\ failed' \in [Accounts -> Failed]
        /\ new' \subseteq Accounts /\ overruled' \subseteq Accounts
    BY <1>1, <1>2, <2>1, <2>3 DEF BindInv, BindTypes, Alive
  <2>7. QED  BY <1>1, <2>1, <2>3, <2>4, <2>5, <2>6, CommitStays
<1>5. QED  BY <1>3, <1>4

LEMMA RemoveBind ==
    ASSUME Names, BindInv, NEW ids \in SUBSET BoundLines, NEW avoid \in SUBSET Addrs,
           NEW manual \in BOOLEAN, BI!RemoveProxies(ids, avoid, manual)
    PROVE  BindInv' /\ Stays
<1> DEFINE gone == BI!Removed(ids, manual)
           ps == [l \in BoundLines |-> IF l \in gone THEN BI!Gone ELSE biProfiles[l]]
           from == {l \in BI!Listed(ps) : ps[l].addr \notin avoid}
           batch == BI!Leaving(ids, gone)
<1>1. PICK accounts \in BI!Reassignments(batch, ps, from, standing, avoid) :
        BI!Commit(ps, accounts)
  BY DEF BI!RemoveProxies
<1>2. /\ BI!Writes /\ failed' = failed /\ standing' = standing /\ new' = new
      /\ overruled' = overruled
  BY DEF BI!RemoveProxies
<1>3. batch = {a \in Accounts : account[a].line \in gone} /\ gone \subseteq BoundLines
  BY DEF BI!Leaving, BI!BoundTo, BI!Removed, BI!Listed
<1>4. biProfiles \in [BoundLines -> ProfileSet] /\ account \in [Accounts -> AccountSet]
  BY DEF BindInv, BindTypes
<1> HIDE DEF gone
<1>5. ps \in [BoundLines -> ProfileSet]
  BY <1>4 DEF ProfileSet
<1>6. /\ \A l \in gone : ps[l] = BI!Gone
      /\ \A l \in BoundLines \ gone : ps[l] = biProfiles[l]
  BY <1>3
<1>7. from \in SUBSET BI!Listed(ps)
  OBVIOUS
<1> HIDE DEF ps, from, batch
<1>8. batch \in SUBSET Accounts
  BY <1>3
<1>9. \A l \in BoundLines : ps[l] \in {BI!Gone, biProfiles[l]}
  BY <1>6
<1>10. \A a \in batch : account[a].cred # None
  BY <1>3 DEF BindInv, Alive, Names
<1>11. \A a \in batch : account[a].line # None => Reason(a, ps)
  BY <1>3, <1>6 DEF Reason
<1>12. \A a \in Accounts \ batch : account[a].line # None =>
         ps[account[a].line] = biProfiles[account[a].line]
  BY <1>3, <1>4, <1>6 DEF AccountSet
<1>13. standing' \in [Addrs -> {"good", "blocked", "suspect"}] /\ new' \subseteq new
  BY <1>2 DEF BindInv, BindTypes
<1>14. QED
  BY <1>1, <1>2, <1>5, <1>7, <1>8, <1>9, <1>10, <1>11, <1>12, <1>13, ReassignStays

LEMMA QuarantineBind ==
    ASSUME Names, BindInv, NEW u \in Addrs, BI!Quarantine(u)
    PROVE  BindInv' /\ Stays
<1> DEFINE judged == [standing EXCEPT ![u] = IF @ = "suspect" THEN @ ELSE "blocked"]
           batch == {a \in Accounts : account[a].line # None /\ account[a].addr = u}
<1>1. PICK accounts \in BI!Reassignments(batch, biProfiles, BI!Listed(biProfiles), judged, {}) :
        BI!Commit(biProfiles, accounts)
  BY DEF BI!Quarantine
<1>2. /\ BI!Writes /\ failed' = failed /\ new' = new /\ overruled' = overruled
      /\ standing' = judged
  BY DEF BI!Quarantine
<1>3. standing' \in [Addrs -> {"good", "blocked", "suspect"}]
  BY <1>2 DEF BindInv, BindTypes
<1>4. \A a \in batch : account[a].cred # None /\ Reason(a, biProfiles)
  BY DEF BindInv, Alive, Reason
<1>5. biProfiles \in [BoundLines -> ProfileSet]  BY DEF BindInv, BindTypes
<1>6. batch \in SUBSET Accounts /\ {} \in SUBSET Addrs
  OBVIOUS
<1> HIDE DEF batch, judged
<1>7. QED
  BY <1>1, <1>2, <1>3, <1>4, <1>5, <1>6, ReassignStays

\* Where a quarantine puts an account of the address: on a usable line, or, when there is
\* none, nowhere.
LEMMA QuarantinePlaces ==
    ASSUME Names, BindInv, NEW u \in Addrs, BI!Quarantine(u), NEW a \in Accounts,
           account[a].line # None, account[a].addr = u
    PROVE  IF \E l \in BI!Listed(biProfiles) : BI!Usable(l)
           THEN account'[a].line \in BI!Listed(biProfiles) /\ BI!Usable(account'[a].line)
           ELSE account'[a].line = None
<1> DEFINE judged == [standing EXCEPT ![u] = IF @ = "suspect" THEN @ ELSE "blocked"]
           batch == {b \in Accounts : account[b].line # None /\ account[b].addr = u}
           from == [b \in batch |-> BI!Listed(biProfiles)]
           load == BI!Load(account)
           usable == {l \in BI!Listed(biProfiles) : BI!Usable(l)}
<1>1. PICK accounts \in BI!Reassignments(batch, biProfiles, BI!Listed(biProfiles), judged, {}) :
        BI!Commit(biProfiles, accounts)
  BY DEF BI!Quarantine
<1>2. PICK p \in BI!Placements(batch, biProfiles, from, load, judged) :
        accounts = BI!Reassigned(p, biProfiles, {})
  BY <1>1 DEF BI!Reassignments
<1>3. a \in batch /\ batch \in SUBSET Accounts
  OBVIOUS
<1>4. /\ biProfiles \in [BoundLines -> ProfileSet] /\ BindTypes
      /\ standing \in [Addrs -> {"good", "blocked", "suspect"}]
      /\ account \in [Accounts -> AccountSet]
  BY DEF BindInv, BindTypes
<1>5. DOMAIN p = batch /\ \A b \in batch : p[b] = None \/ p[b] \in from[b]
  BY <1>2, PlacementsIs
<1>6. BI!Chosen(p[a], biProfiles, from[a], BI!Counted(load, p, a), judged)
  BY <1>2, <1>3 DEF BI!Placements
<1>7. {l \in from[a] : biProfiles[l].on /\ judged[biProfiles[l].addr] # "suspect"} = usable
  <2>1. from[a] = BI!Listed(biProfiles)  BY <1>3
  <2>2. ASSUME NEW l \in BI!Listed(biProfiles)
        PROVE  judged[biProfiles[l].addr] = "suspect"
                 <=> standing[biProfiles[l].addr] = "suspect"
    <3>1. l \in BoundLines /\ biProfiles[l] # BI!Gone  BY DEF BI!Listed
    <3>2. biProfiles[l].addr \in Addrs  BY <1>4, <3>1, ListedIs
    <3>3. QED  BY <1>4, <3>2
  <2>3. QED  BY <2>1, <2>2 DEF BI!Usable
<1> HIDE DEF judged, usable, from
<1>8. \/ usable = {} /\ p[a] = None
      \/ p[a] \in usable
  <2> DEFINE allowed == {m \in usable : judged[biProfiles[m].addr] # "blocked"}
  <2>1. \/ allowed # {} /\ p[a] \in allowed
        \/ allowed = {} /\ usable = {} /\ p[a] = None
        \/ allowed = {} /\ p[a] \in usable
    BY <1>6, <1>7 DEF BI!Chosen
  <2>2. QED  BY <2>1
<1>9. accounts[a].line = p[a]
  <2>0. a \in Accounts /\ account[a] \in AccountSet  BY <1>4
  <2>1. p[a] = None \/ p[a] \in BI!Listed(biProfiles)
    BY <1>3, <1>5 DEF from
  <2>2. CASE p[a] = None
    <3> DEFINE t == BI!Intended(BI!Routed(account[a], None, None), "auto_pending_proxy")
    <3>1. /\ BI!Routed(account[a], None, None) \in AccountSet
          /\ BI!Routed(account[a], None, None).line = None
      BY <2>0 DEF BI!Routed, AccountSet
    <3>2. "auto_pending_proxy" \in BI!Intents  BY DEF BI!Intents
    <3>3. t \in AccountSet /\ t.line = None
      BY <3>1, <3>2, IntendedIs
    <3>4. accounts[a] = [t EXCEPT !.avoid = {}]
      BY <1>2, <1>3, <1>5, <2>2 DEF BI!Reassigned
    <3> HIDE DEF t
    <3>5. QED  BY <2>2, <3>3, <3>4 DEF AccountSet
  <2>3. CASE p[a] # None
    <3>1. p[a] \in BI!Listed(biProfiles)  BY <2>1, <2>3
    <3>2. accounts[a]
            = BI!Intended(BI!Routed(account[a], p[a], biProfiles[p[a]].addr), "auto_proxy")
      BY <1>2, <1>3, <1>5, <2>3 DEF BI!Reassigned
    <3>3. QED  BY <1>4, <2>0, <3>1, <3>2, PlacedIs
  <2>4. QED  BY <2>2, <2>3
<1>10. accounts[a] \in AccountSet
  <2> HIDE DEF batch
  <2>1. accounts \in [Accounts -> AccountSet]
    BY ONLY Names, <1>1, <1>3, <1>4, ReassignedIs, Zenon
  <2>2. QED  BY <2>1
<1>11. account'[a] = BI!Tracked(account[a], accounts[a])
  <2>1. ~BI!OpensALine(biProfiles)  BY DEF BI!OpensALine
  <2>2. account' = [b \in Accounts |-> BI!Tracked(account[b], accounts[b])]
    BY <1>1, <2>1 DEF BI!Commit
  <2>3. QED  BY <2>2
<1>12. account'[a].line = p[a]
  BY <1>4, <1>9, <1>10, <1>11, TrackedIs
<1>13. None \notin usable
  BY DEF Names, usable, BI!Listed
<1>14. QED
  BY <1>8, <1>12, <1>13 DEF usable

LEMMA AutoAssignBind ==
    ASSUME Names, BindInv, BI!AutoAssignProxies
    PROVE  BindInv' /\ Stays
<1> DEFINE batch == {a \in new : account[a].addr = None /\ account[a].intent # "explicit_direct"}
<1>1. PICK accounts \in BI!Reassignments(batch, biProfiles, BI!Listed(biProfiles), standing, {}) :
        BI!Commit(biProfiles, accounts)
  BY DEF BI!AutoAssignProxies
<1>2. /\ BI!Writes /\ failed' = failed /\ new' = {} /\ overruled' = overruled
      /\ standing' = standing
  BY DEF BI!AutoAssignProxies
<1>3. standing' \in [Addrs -> {"good", "blocked", "suspect"}] /\ new' \subseteq new
  BY <1>2 DEF BindInv, BindTypes
<1>4. biProfiles \in [BoundLines -> ProfileSet] /\ account \in [Accounts -> AccountSet]
  BY DEF BindInv, BindTypes
<1>5. batch \in SUBSET Accounts /\ {} \in SUBSET Addrs
  BY DEF BindInv, BindTypes
<1>6. \A a \in batch : account[a].cred # None /\ account[a].line = None
  <2> SUFFICES ASSUME NEW a \in batch  PROVE account[a].cred # None /\ account[a].line = None
    OBVIOUS
  <2>1. a \in Accounts /\ account[a].cred # None /\ account[a].addr = None
    BY <1>5 DEF BindInv, Alive
  <2>2. account[a].line # None => /\ account[a].line \in BoundLines
                                  /\ biProfiles[account[a].line] # BI!Gone
                                  /\ account[a].addr = biProfiles[account[a].line].addr
    BY <1>4, <2>1 DEF BindInv, Bounded, AccountSet
  <2>3. QED  BY <1>4, <2>1, <2>2, ListedIs
<1> HIDE DEF batch
<1>7. QED
  BY <1>1, <1>2, <1>3, <1>4, <1>5, <1>6, ReassignStays

LEMMA EnterBind ==
    ASSUME Names, BindInv, NEW batch \in SUBSET Accounts, NEW given \in [batch -> Creds],
           BI!Enter(given)
    PROVE  BindInv' /\ Stays
<1> DEFINE accounts == [a \in Accounts |-> IF a \in batch
                                          THEN [BI!Fresh EXCEPT !.cred = given[a]]
                                          ELSE account[a]]
<1>1. /\ \A a \in batch : account[a].credGen = 0
      /\ BI!Commit(biProfiles, accounts) /\ BI!Writes
      /\ new' = new \cup batch
      /\ failed' = failed /\ standing' = standing /\ overruled' = overruled
  BY DEF BI!Enter
<1>2. \A c \in Creds : [BI!Fresh EXCEPT !.cred = c] \in AccountSet
                       /\ [BI!Fresh EXCEPT !.cred = c].line = None
                       /\ [BI!Fresh EXCEPT !.cred = c].cred = c
  BY FreshIs DEF AccountSet, Names
<1>3. ASSUME NEW a \in batch
      PROVE  /\ accounts[a] \in AccountSet /\ accounts[a].line = None
             /\ accounts[a].cred # None /\ account[a].line = None
  <2>1. accounts[a] = [BI!Fresh EXCEPT !.cred = given[a]] /\ given[a] \in Creds
    OBVIOUS
  <2>2. account[a].line = None
    BY <1>1 DEF BindInv, Alive
  <2> HIDE DEF accounts
  <2>3. QED  BY <1>2, <2>1, <2>2 DEF Names
<1>4. \A a \in Accounts \ batch : accounts[a] = account[a]
  OBVIOUS
<1>5. accounts = [a \in Accounts |-> accounts[a]]
  OBVIOUS
<1> HIDE DEF accounts
<1>6. accounts \in [Accounts -> AccountSet]
  BY <1>3, <1>4, <1>5 DEF BindInv, BindTypes
<1>7. Bounded(biProfiles, accounts)
  BY <1>3, <1>4 DEF Bounded, BindInv
<1>8. \A b \in Accounts : accounts[b].line # None => accounts[b].cred # None
  BY <1>3, <1>4 DEF BindInv, Alive
<1>9. /\ biProfiles \in [BoundLines -> ProfileSet]
      /\ standing' \in [Addrs -> {"good", "blocked", "suspect"}]
      /\ failed' \in [Accounts -> Failed]
      /\ new' \subseteq Accounts /\ overruled' \subseteq Accounts
  BY <1>1 DEF BindInv, BindTypes
<1>10. \A b \in new' : accounts[b].cred # None
  BY <1>1, <1>3, <1>4 DEF BindInv, BindTypes, Alive
<1>11. \A b \in Accounts : account[b].line # None =>
        \/ accounts[b].line = account[b].line
        \/ Reason(b, biProfiles)
        \/ /\ accounts[b].intent \in {"manual_proxy", "explicit_direct"}
           /\ accounts[b].line # None \/ accounts[b].waits = None
  BY <1>3, <1>4
<1>12. \A l \in BoundLines : biProfiles[l] # BI!Gone /\ biProfiles[l] = BI!Gone => generation[l] = 0
  OBVIOUS
<1>13. QED
  BY <1>1, <1>6, <1>7, <1>8, <1>9, <1>10, <1>11, <1>12, CommitStays

\* The account is taken to a line, to an address alone, or to neither.
LEMMA RoutedBind ==
    ASSUME Names, BindInv, NEW a \in Accounts, NEW l \in BoundLines \cup {None},
           NEW u \in Addrs \cup {None}, NEW i \in BI!Intents,
           account[a].cred # None,
           l # None => biProfiles[l] # BI!Gone /\ u = biProfiles[l].addr,
           BI!Commit(biProfiles, [account EXCEPT
              ![a] = BI!Intended(BI!Routed(account[a], l, u), i)]), BI!Writes,
           \/ account[a].line = None
           \/ account[a].line = l
           \/ i \in {"manual_proxy", "explicit_direct"},
           standing' = standing, failed' = failed, new' \subseteq new, overruled' \subseteq Accounts
    PROVE  BindInv' /\ Stays
<1> DEFINE r == BI!Routed(account[a], l, u)
           acc == BI!Intended(r, i)
<1>1. BI!Commit(biProfiles, [account EXCEPT ![a] = acc])
  OBVIOUS
<1>2. account[a] \in AccountSet  BY DEF BindInv, BindTypes
<1>3. r \in AccountSet /\ r.line = l /\ r.addr = u /\ r.cred = account[a].cred
  BY <1>2, RoutedIs
<1> HIDE DEF r
<1>4. /\ acc \in AccountSet /\ acc.line = r.line /\ acc.addr = r.addr /\ acc.cred = r.cred
      /\ acc.intent = i /\ (i # "auto_pending_proxy" => acc.waits = None)
  BY <1>3, IntendedIs
<1> HIDE DEF acc
<1>5. /\ failed' \in [Accounts -> Failed]
      /\ new' \subseteq new \cup {a}
  BY DEF BindInv, BindTypes
<1>6. account[a].line # None =>
        \/ acc.line = account[a].line
        \/ /\ acc.intent \in {"manual_proxy", "explicit_direct"}
           /\ acc.waits = None
  BY <1>3, <1>4
<1>7. QED  BY <1>1, <1>3, <1>4, <1>5, <1>6, OneStays

LEMMA LoginBind ==
    ASSUME Names, BindInv, NEW a \in Accounts, NEW l \in BoundLines \cup {None},
           BI!AssignAutomaticLoginProxy(a, l)
    PROVE  BindInv' /\ Stays
<1>1. /\ a \in new /\ account[a].addr = None /\ new' = new \ {a}
      /\ failed' = failed /\ standing' = standing /\ overruled' = overruled /\ BI!Writes
  BY DEF BI!AssignAutomaticLoginProxy
<1>2. account[a] \in AccountSet /\ account[a].cred # None
  BY <1>1 DEF BindInv, BindTypes, Alive
<1>3. account[a].line = None
  <2>1. account[a].line # None => /\ account[a].line \in BoundLines
                                  /\ biProfiles[account[a].line] # BI!Gone
                                  /\ account[a].addr = biProfiles[account[a].line].addr
    BY <1>2 DEF BindInv, Bounded, AccountSet
  <2>2. biProfiles \in [BoundLines -> ProfileSet]  BY DEF BindInv, BindTypes
  <2>3. QED  BY <1>1, <2>1, <2>2, ListedIs
<1>4. new' \subseteq new /\ overruled' \subseteq Accounts
  BY <1>1 DEF BindInv, BindTypes
<1>5. CASE l = None
  <2> DEFINE acc == BI!Intended(account[a], "auto_pending_proxy")
  <2>1. BI!Commit(biProfiles, [account EXCEPT ![a] = acc])
    BY <1>5 DEF BI!AssignAutomaticLoginProxy
  <2>2. "auto_pending_proxy" \in BI!Intents  BY DEF BI!Intents
  <2>3. acc \in AccountSet /\ acc.line = None /\ acc.cred # None
    BY <1>2, <1>3, <2>2, IntendedIs
  <2> HIDE DEF acc
  <2>4. failed' \in [Accounts -> Failed]
    BY <1>1 DEF BindInv, BindTypes
  <2>5. QED  BY <1>1, <1>3, <1>4, <2>1, <2>3, <2>4, OneStays
<1>6. CASE l # None
  <2>1. BI!Commit(biProfiles, [account EXCEPT
          ![a] = BI!Intended(BI!Routed(account[a], l, biProfiles[l].addr), "auto_proxy")])
    BY <1>6 DEF BI!AssignAutomaticLoginProxy
  <2>2. BI!Chosen(l, biProfiles, BI!Listed(biProfiles) \cap {l}, [m \in BoundLines |-> 0], standing)
    BY <1>6 DEF BI!AssignAutomaticLoginProxy
  <2>3. l \in BI!Listed(biProfiles)
    BY <1>6, <2>2, ChosenIs
  <2>4. l \in BoundLines /\ biProfiles[l] # BI!Gone
    BY <2>3 DEF BI!Listed
  <2>5. biProfiles[l].addr \in Addrs
    BY <2>4, ListedIs DEF BindInv, BindTypes
  <2>6. "auto_proxy" \in BI!Intents  BY DEF BI!Intents
  <2>7. QED  BY <1>1, <1>2, <1>3, <1>4, <2>1, <2>4, <2>5, <2>6, RoutedBind
<1>7. QED  BY <1>5, <1>6

LEMMA DecidedBind ==
    ASSUME Names, BindInv, NEW a \in Accounts, NEW l \in BoundLines \cup {None},
           NEW u \in Addrs \cup {None},
           l # None => biProfiles[l] # BI!Gone /\ u = biProfiles[l].addr,
           BI!Decided(a, BI!Routed(account[a], l, u))
    PROVE  BindInv' /\ Stays
<1> DEFINE r == BI!Routed(account[a], l, u)
           i == IF r.addr = None THEN "explicit_direct" ELSE "manual_proxy"
<1>1. /\ account[a].cred # None /\ BI!Writes
      /\ BI!Commit(biProfiles, [account EXCEPT ![a] = BI!Intended(r, i)])
      /\ overruled' = overruled \ {a} /\ failed' = failed /\ standing' = standing /\ new' = new
  BY DEF BI!Decided, BI!Live, BI!Manual
<1>2. i \in BI!Intents /\ i \in {"manual_proxy", "explicit_direct"}
  BY DEF BI!Intents
<1> HIDE DEF i
<1>3. new' \subseteq new /\ overruled' \subseteq Accounts
  BY <1>1 DEF BindInv, BindTypes
<1>4. QED  BY <1>1, <1>2, <1>3, RoutedBind

LEMMA RouteBind ==
    ASSUME Names, BindInv, NEW a \in Accounts,
           \/ \E l \in BoundLines \cup {None} : BI!AssignProxyProfile(a, l)
           \/ \E u \in Addrs \cup {None} : BI!SetProxyURL(a, u) \/ BI!EditProxyURL(a, u)
    PROVE  BindInv' /\ Stays
<1>0. /\ biProfiles \in [BoundLines -> ProfileSet] /\ account[a] \in AccountSet
      /\ account[a].line \in BoundLines \cup {None}
      /\ account[a].line # None => /\ biProfiles[account[a].line] # BI!Gone
                                   /\ account[a].addr = biProfiles[account[a].line].addr
  BY DEF BindInv, BindTypes, Bounded, AccountSet
<1>1. ASSUME NEW l \in BoundLines \cup {None}, BI!AssignProxyProfile(a, l)
      PROVE  BindInv' /\ Stays
  <2>1. CASE l = None /\ BI!Decided(a, BI!Routed(account[a], None, None))
    BY <2>1, DecidedBind
  <2>2. CASE l \in BI!Listed(biProfiles) /\ BI!Decided(a, BI!Routed(account[a], l, biProfiles[l].addr))
    <3>1. l \in BoundLines /\ biProfiles[l] # BI!Gone  BY <2>2 DEF BI!Listed
    <3>2. biProfiles[l].addr \in Addrs  BY <1>0, <3>1, ListedIs
    <3>3. QED  BY <2>2, <3>1, <3>2, DecidedBind
  <2>3. QED  BY <1>1, <2>1, <2>2 DEF BI!AssignProxyProfile
<1>2. ASSUME NEW u \in Addrs \cup {None}, BI!SetProxyURL(a, u)
      PROVE  BindInv' /\ Stays
  BY <1>2, DecidedBind DEF BI!SetProxyURL
<1>3. ASSUME NEW u \in Addrs \cup {None}, BI!EditProxyURL(a, u)
      PROVE  BindInv' /\ Stays
  <2> DEFINE l == IF u = account[a].addr THEN account[a].line ELSE None
  <2>1. BI!Decided(a, BI!Routed(account[a], l, u))  BY <1>3 DEF BI!EditProxyURL
  <2>2. /\ l \in BoundLines \cup {None}
        /\ l # None => biProfiles[l] # BI!Gone /\ u = biProfiles[l].addr
    BY <1>0
  <2> HIDE DEF l
  <2>3. QED  BY <2>1, <2>2, DecidedBind
<1>4. QED  BY <1>1, <1>2, <1>3

LEMMA SecretBind ==
    ASSUME Names, BindInv, NEW a \in Accounts, NEW c \in Creds,
           BI!EditSecret(a, c) \/ BI!SaveOAuthAccount(a, c)
    PROVE  BindInv' /\ Stays
<1> DEFINE edited == [account[a] EXCEPT !.cred = c, !.waits = None, !.avoid = {}]
           saved == [account[a] EXCEPT !.cred = c]
<1>0. /\ account \in [Accounts -> AccountSet] /\ account[a] \in AccountSet /\ c # None
      /\ account[a].line # None => /\ biProfiles[account[a].line] # BI!Gone
                                   /\ account[a].addr = biProfiles[account[a].line].addr
  BY DEF BindInv, BindTypes, Bounded, Names
<1>1. /\ BI!Writes /\ failed' = failed /\ standing' = standing /\ new' = new
      /\ overruled' = overruled
  BY DEF BI!EditSecret, BI!SaveOAuthAccount
<1>2. PICK acc \in {edited, saved} : BI!Commit(biProfiles, [account EXCEPT ![a] = acc])
  <2>1. CASE BI!EditSecret(a, c)
    <3>1. [account EXCEPT ![a].cred = c, ![a].waits = None, ![a].avoid = {}]
            = [account EXCEPT ![a] = edited]
      BY <1>0
    <3>2. QED  BY <2>1, <3>1 DEF BI!EditSecret
  <2>2. CASE BI!SaveOAuthAccount(a, c)
    BY <2>2 DEF BI!SaveOAuthAccount
  <2>3. QED  BY <2>1, <2>2
<1>3. /\ acc \in AccountSet /\ acc.line = account[a].line /\ acc.addr = account[a].addr
      /\ acc.cred = c
  BY <1>0, <1>2 DEF AccountSet
<1>4. /\ failed' \in [Accounts -> Failed]
      /\ new' \subseteq new \cup {a} /\ overruled' \subseteq Accounts
  BY <1>1 DEF BindInv, BindTypes
<1> HIDE DEF edited, saved
<1>5. QED  BY <1>0, <1>1, <1>2, <1>3, <1>4, OneStays

LEMMA ErasedIs ==
    ASSUME Names, NEW old \in AccountSet
    PROVE  /\ BI!Erased(old) \in AccountSet
           /\ BI!Erased(old).line = None /\ BI!Erased(old).cred = None
           /\ BI!Erased(old).credGen = old.credGen + 1
           /\ BI!Erased(old).routeGen = old.routeGen + 1
<1> DEFINE cg == old.credGen + 1
           rg == old.routeGen + 1
<1>1. cg \in Nat /\ rg \in Nat  BY DEF AccountSet
<1>2. BI!Erased(old) = [BI!Fresh EXCEPT !.credGen = cg, !.routeGen = rg]
  BY DEF BI!Erased
<1>3. BI!Fresh.cred = None  BY DEF BI!Fresh
<1> HIDE DEF cg, rg
<1>4. /\ BI!Erased(old) \in AccountSet /\ BI!Erased(old).line = BI!Fresh.line
      /\ BI!Erased(old).cred = BI!Fresh.cred
      /\ BI!Erased(old).credGen = cg /\ BI!Erased(old).routeGen = rg
  BY <1>1, <1>2, FreshIs DEF AccountSet
<1>5. QED  BY <1>3, <1>4, FreshIs DEF cg, rg

LEMMA EraseBind ==
    ASSUME Names, BindInv, NEW gone \in SUBSET Accounts, BI!Erase(gone)
    PROVE  BindInv' /\ Stays
<1>0. account \in [Accounts -> AccountSet] /\ failed \in [Accounts -> Failed]
  BY DEF BindInv, BindTypes
<1>1. /\ account' = [a \in Accounts |-> IF a \in gone THEN BI!Erased(account[a]) ELSE account[a]]
      /\ failed' = [a \in Accounts |-> IF a \in gone THEN {} ELSE failed[a]]
      /\ new' = new \ gone /\ overruled' = overruled \ gone
      /\ biProfiles' = biProfiles /\ generation' = generation /\ standing' = standing
      /\ request' = request /\ BI!Witnessed
  BY DEF BI!Erase, BI!Writes
<1>2. \A a \in gone :
        /\ account'[a] \in AccountSet
        /\ account'[a].line = None /\ account'[a].cred = None
        /\ account'[a].credGen = account[a].credGen + 1
        /\ account'[a].routeGen = account[a].routeGen + 1
  BY <1>0, <1>1, ErasedIs
<1>3. /\ account' \in [Accounts -> AccountSet]
      /\ \A b \in Accounts \ gone : account'[b] = account[b]
  BY <1>0, <1>1, ErasedIs
<1>4. \A b \in Accounts :
        /\ account'[b].credGen >= account[b].credGen
        /\ account'[b].routeGen >= account[b].routeGen
        /\ account'[b].cred # account[b].cred => account'[b].credGen > account[b].credGen
        /\ \/ account'[b].line # account[b].line
           \/ account'[b].addr # account[b].addr
           => account'[b].routeGen > account[b].routeGen
  <2> SUFFICES ASSUME NEW b \in Accounts
               PROVE  /\ account'[b].credGen >= account[b].credGen
                      /\ account'[b].routeGen >= account[b].routeGen
                      /\ account'[b].cred # account[b].cred =>
                           account'[b].credGen > account[b].credGen
                      /\ \/ account'[b].line # account[b].line
                         \/ account'[b].addr # account[b].addr
                         => account'[b].routeGen > account[b].routeGen
    OBVIOUS
  <2>1. account[b].credGen \in Nat /\ account[b].routeGen \in Nat
    BY <1>0 DEF AccountSet
  <2>2. CASE b \in gone
    BY <1>2, <2>1, <2>2
  <2>3. CASE b \notin gone
    BY <1>3, <2>1, <2>3
  <2>4. QED  BY <2>2, <2>3
<1>5. /\ biProfiles' \in [BoundLines -> ProfileSet] /\ generation' \in [BoundLines -> Nat]
      /\ \A l \in BoundLines :
           /\ generation'[l] >= generation[l]
           /\ biProfiles'[l] # biProfiles[l] =>
                generation'[l] > generation[l] \/ biProfiles'[l] = BI!Gone
           /\ biProfiles[l] = BI!Gone /\ generation[l] > 0 => biProfiles'[l] = BI!Gone
  BY <1>1 DEF BindInv, BindTypes
<1>6. Tells' /\ touched' \in [Requests -> BOOLEAN]
  BY <1>1, <1>3, <1>4, <1>5, Versions
<1>7. failed' \in [Accounts -> Failed]
  BY <1>0, <1>1 DEF Failed
<1>8. BindTypes'
  BY <1>1, <1>3, <1>5, <1>6, <1>7 DEF BindInv, BindTypes
<1>9. Bounded(biProfiles, account)' /\ Added' /\ Known' /\ Alive'
  <2>1. Bounded(biProfiles, account)'
    BY <1>1, <1>2, <1>3 DEF BindInv, Bounded
  <2>2. Added'
    BY <1>1, <1>2, <1>3 DEF BindInv, BindTypes, Added
  <2>3. Known'
    BY <1>1 DEF BindInv, Known
  <2>4. Alive'
    BY <1>0, <1>1, <1>2, <1>3 DEF BindInv, BindTypes, Alive, AccountSet
  <2>5. QED  BY <2>1, <2>2, <2>3, <2>4
<1>10. Stays
  BY <1>2, <1>3 DEF Stays
<1>11. QED  BY <1>6, <1>8, <1>9, <1>10 DEF BindInv

LEMMA RotateBind ==
    ASSUME Names, BindInv, NEW r \in Requests, BI!RotateAccountProxyAt(r)
    PROVE  BindInv' /\ Stays
<1> DEFINE q == request[r]
           a == q.of
           from == {l \in BI!Listed(biProfiles) : ~BI!Tainted(r, l)}
           avoid == {biProfiles[m].addr : m \in BI!Listed(biProfiles) \ from}
           pending == BI!Intended(BI!Routed(account[a], None, None), "auto_pending_proxy")
<1>1. /\ q.phase = "sent" /\ BI!SameCredential(q, account[a]) /\ BI!SameBytes(q, account[a])
      /\ failed' = [failed EXCEPT ![a] = BI!Failures(r)]
      /\ BI!Writes /\ standing' = standing /\ new' = new
  BY DEF BI!RotateAccountProxyAt
<1>2. PICK l \in BoundLines \cup {None} :
        /\ BI!Chosen(l, biProfiles, from, BI!Load(account), standing)
        /\ \/ l # None /\ BI!Commit(biProfiles, [account EXCEPT
                            ![a] = BI!Routed(account[a], l, biProfiles[l].addr)])
           \/ BI!Commit(biProfiles, [account EXCEPT ![a] = [pending EXCEPT !.avoid = avoid]])
           \/ BI!Commit(biProfiles, account)
        /\ overruled' \in {overruled, overruled \cup {a}}
  BY DEF BI!RotateAccountProxyAt
<1>3. /\ q \in RequestSet /\ a \in Accounts /\ q.cred # None
      /\ q.line \in BoundLines \cup {None} /\ q.addr \in Addrs \cup {None}
  BY <1>1 DEF BindInv, BindTypes, Known, RequestSet
<1>4. /\ account \in [Accounts -> AccountSet] /\ account[a] \in AccountSet
      /\ biProfiles \in [BoundLines -> ProfileSet]
      /\ account[a].cred # None /\ account[a].line = q.line /\ account[a].addr = q.addr
  BY <1>1, <1>3 DEF BindInv, BindTypes, BI!SameCredential, BI!SameBytes
<1>5. account[a].line # None =>
        /\ account[a].line \in BoundLines
        /\ biProfiles[account[a].line] # BI!Gone
        /\ account[a].addr = biProfiles[account[a].line].addr
  BY <1>3, <1>4 DEF BindInv, Bounded
<1>6. account[a].line # None => account[a].addr # None
  BY <1>4, <1>5, ListedIs
<1>7. BI!Failures(r) \in Failed
  <2>1. failed[a] \in Failed
    BY <1>3 DEF BindInv, BindTypes
  <2>2. QED  BY <1>3, <2>1 DEF BI!Failures, Failed
<1>8. /\ failed' \in [Accounts -> Failed]
      /\ failed'[a] = BI!Failures(r)
  BY <1>1, <1>3, <1>7 DEF BindInv, BindTypes
<1>9. account[a].line # None => Reason(a, biProfiles)
  BY <1>4, <1>6, <1>8 DEF Reason, BI!Failures
<1>10. new' \subseteq new \cup {a} /\ overruled' \subseteq Accounts
  BY <1>1, <1>2, <1>3 DEF BindInv, BindTypes
<1>11. avoid \subseteq Addrs
  <2>1. ASSUME NEW m \in BI!Listed(biProfiles)  PROVE biProfiles[m].addr \in Addrs
    BY <1>4, ListedIs DEF BI!Listed
  <2>2. QED  BY <2>1
<1> HIDE DEF q, avoid
<1>12. CASE l # None /\ BI!Commit(biProfiles, [account EXCEPT
                            ![a] = BI!Routed(account[a], l, biProfiles[l].addr)])
  <2> DEFINE acc == BI!Routed(account[a], l, biProfiles[l].addr)
  <2>1. l \in BI!Listed(biProfiles)
    BY <1>2, <1>12, ChosenIs
  <2>2. l \in BoundLines /\ biProfiles[l] # BI!Gone
    BY <2>1 DEF BI!Listed
  <2>3. biProfiles[l].addr \in Addrs
    BY <1>4, <2>2, ListedIs
  <2>4. /\ acc \in AccountSet /\ acc.line = l /\ acc.addr = biProfiles[l].addr
        /\ acc.cred = account[a].cred
    BY <1>4, <2>3, RoutedIs
  <2>5. BI!Commit(biProfiles, [account EXCEPT ![a] = acc])
    BY <1>12
  <2> HIDE DEF acc, a
  <2>6. QED
    BY <1>1, <1>3, <1>4, <1>8, <1>9, <1>10, <2>2, <2>4, <2>5, OneStays
<1>13. CASE BI!Commit(biProfiles, [account EXCEPT ![a] = [pending EXCEPT !.avoid = avoid]])
  <2> DEFINE acc == [pending EXCEPT !.avoid = avoid]
  <2>1. /\ BI!Routed(account[a], None, None) \in AccountSet
        /\ BI!Routed(account[a], None, None).line = None
        /\ BI!Routed(account[a], None, None).cred = account[a].cred
    BY <1>4, RoutedIs
  <2>2. "auto_pending_proxy" \in BI!Intents  BY DEF BI!Intents
  <2>3. pending \in AccountSet /\ pending.line = None /\ pending.cred = account[a].cred
    BY <2>1, <2>2, IntendedIs
  <2>4. BI!Commit(biProfiles, [account EXCEPT ![a] = acc])
    BY <1>13
  <2> HIDE DEF pending
  <2>5. acc \in AccountSet /\ acc.line = None /\ acc.cred = account[a].cred
    BY <1>11, <2>3 DEF AccountSet
  <2> HIDE DEF acc, a
  <2>6. QED
    BY <1>1, <1>3, <1>4, <1>8, <1>9, <1>10, <2>4, <2>5, OneStays
<1>14. CASE BI!Commit(biProfiles, account)
  <2>1. BI!Commit(biProfiles, [account EXCEPT ![a] = account[a]])
    <3>1. [account EXCEPT ![a] = account[a]] = account  BY <1>4
    <3>2. QED  BY <1>14, <3>1
  <2> HIDE DEF a
  <2>2. QED
    BY <1>1, <1>3, <1>4, <1>5, <1>8, <1>10, <2>1, OneStays
<1>15. QED  BY <1>2, <1>12, <1>13, <1>14

LEMMA PurgeBind ==
    ASSUME Names, BindInv, NEW r \in Requests, BI!PurgeFailedAccountProxy(r)
    PROVE  BindInv' /\ Stays
<1> DEFINE q == request[r]
<1>1. /\ q.phase = "sent" /\ ~q.forced /\ q.line # None /\ BI!Admitted(q)
      /\ BI!RemoveProxies({q.line}, {q.addr}, FALSE)
  BY DEF BI!PurgeFailedAccountProxy
<1>2. q.of \in Accounts /\ q.line \in BoundLines
  BY <1>1 DEF BindInv, BindTypes, Known, RequestSet
<1>3. account[q.of].line = q.line /\ account[q.of].addr = q.addr
  BY <1>1 DEF BI!Admitted, BI!SameRoute, BI!SameBytes
<1>4. biProfiles[q.line] # BI!Gone /\ q.addr = biProfiles[q.line].addr
  BY <1>1, <1>2, <1>3 DEF BindInv, Bounded
<1>5. q.addr \in Addrs
  BY <1>2, <1>4, ListedIs DEF BindInv, BindTypes
<1> HIDE DEF q
<1>6. {q.line} \in SUBSET BoundLines /\ {q.addr} \in SUBSET Addrs /\ FALSE \in BOOLEAN
  BY <1>2, <1>5
<1>7. QED  BY <1>1, <1>6, RemoveBind

-----------------------------------------------------------------------------

\* Nothing the requests were given changes here.
LEMMA RequestStays ==
    ASSUME BindInv, UNCHANGED <<biProfiles, generation, account, standing, new, overruled>>,
           failed' \in [Accounts -> Failed],
           request' \in [Requests -> RequestSet], touched' \in [Requests -> BOOLEAN],
           \A r \in Requests :
             \/ request'[r] = request[r] /\ touched'[r] = touched[r]
             \/ /\ request'[r].phase # "idle" =>
                     request'[r].of \in Accounts /\ request'[r].cred # None
                /\ request'[r].phase \in {"selected", "frozen"} =>
                     /\ Behind(request'[r])
                     /\ touched'[r] => Outdated(request'[r])
    PROVE  BindInv' /\ Stays
<1>1. BindTypes' /\ Bounded(biProfiles, account)' /\ Added' /\ Alive'
  BY DEF BindInv, BindTypes, Bounded, Added, Alive
<1>2. Known'
  BY DEF BindInv, Known
<1>3. Tells'
  BY DEF BindInv, Tells, Behind, Outdated
<1>4. Stays
  BY DEF Stays
<1>5. QED  BY <1>1, <1>2, <1>3, <1>4 DEF BindInv

LEMMA SelectBind ==
    ASSUME Names, BindInv, NEW r \in Requests, NEW a \in Accounts, BI!Select(r, a)
    PROVE  BindInv' /\ Stays
<1> DEFINE q == [BI!Idle EXCEPT !.phase = "selected", !.of = a,
                   !.line = account[a].line, !.addr = account[a].addr,
                   !.cred = account[a].cred, !.credGen = account[a].credGen]
<1>1. /\ request' = [request EXCEPT ![r] = q] /\ touched' = [touched EXCEPT ![r] = FALSE]
      /\ UNCHANGED <<biProfiles, generation, account, failed, standing, new, overruled>>
      /\ account[a].cred # None
  BY DEF BI!Select, BI!Live
<1>2. /\ account[a].line \in BoundLines \cup {None} /\ account[a].addr \in Addrs \cup {None}
      /\ account[a].cred \in Creds \cup {None} /\ account[a].credGen \in Nat
  BY DEF BindInv, BindTypes, AccountSet
<1>3. /\ q.phase = "selected" /\ q.of = a /\ q.line = account[a].line
      /\ q.cred = account[a].cred /\ q.credGen = account[a].credGen
  BY DEF BI!Idle
<1>4. q \in RequestSet
  BY <1>2 DEF BI!Idle, RequestSet
<1> HIDE DEF q
<1>5. q.line # None => generation[q.line] > 0
  BY <1>2, <1>3 DEF BindInv, Bounded, Added
<1>6. Behind(q)
  BY <1>2, <1>3, <1>5 DEF Behind
<1>7. /\ request' \in [Requests -> RequestSet] /\ touched' \in [Requests -> BOOLEAN]
      /\ request'[r] = q /\ touched'[r] = FALSE
      /\ \A s \in Requests : s # r => request'[s] = request[s] /\ touched'[s] = touched[s]
      /\ failed' \in [Accounts -> Failed]
  BY <1>1, <1>4 DEF BindInv, BindTypes
<1>8. QED  BY <1>1, <1>3, <1>6, <1>7, RequestStays

LEMMA FreezeBind ==
    ASSUME Names, BindInv, NEW r \in Requests, NEW forced \in BOOLEAN, BI!Freeze(r, forced)
    PROVE  BindInv' /\ Stays
<1> DEFINE old == request[r]
           rg == account[old.of].routeGen
           g == IF old.line = None THEN 0 ELSE generation[old.line]
           pending == account[old.of].intent = "auto_pending_proxy"
           q == [old EXCEPT !.phase = "frozen", !.forced = forced, !.routeGen = rg,
                            !.gen = g, !.pending = pending]
<1>1. old \in RequestSet /\ old.phase = "selected" /\ old.of \in Accounts /\ old.cred # None
      /\ request \in [Requests -> RequestSet]
  BY DEF BI!Freeze, BindInv, BindTypes, Known
<1>2. /\ request' = [request EXCEPT ![r] = q] /\ touched' = touched
      /\ UNCHANGED <<biProfiles, generation, account, failed, standing, new, overruled>>
  BY <1>1 DEF BI!Freeze
<1>3. /\ rg \in Nat /\ g \in Nat /\ pending \in BOOLEAN
      /\ old.line # None => g = generation[old.line]
  BY <1>1 DEF BindInv, BindTypes, AccountSet, RequestSet
<1>4. Behind(old) /\ (touched[r] => Outdated(old))
  BY <1>1 DEF BindInv, Tells
<1> HIDE DEF rg, g, pending, old
<1>5. /\ q \in RequestSet /\ q.of = old.of /\ q.line = old.line /\ q.cred = old.cred
      /\ q.credGen = old.credGen /\ q.routeGen = rg /\ q.gen = g /\ q.phase = "frozen"
  BY <1>1, <1>3 DEF RequestSet
<1> HIDE DEF q
<1>6. Behind(q)
  BY <1>3, <1>4, <1>5 DEF Behind, rg
<1>7. touched[r] => Outdated(q)
  BY <1>1, <1>4, <1>5 DEF Outdated
<1>8. /\ request' \in [Requests -> RequestSet] /\ touched' \in [Requests -> BOOLEAN]
      /\ request'[r] = q /\ touched'[r] = touched[r]
      /\ \A s \in Requests : s # r => request'[s] = request[s] /\ touched'[s] = touched[s]
      /\ failed' \in [Accounts -> Failed]
  BY <1>1, <1>2, <1>5 DEF BindInv, BindTypes
<1>9. QED  BY <1>1, <1>2, <1>5, <1>6, <1>7, <1>8, RequestStays

LEMMA EndBind ==
    ASSUME Names, BindInv, NEW r \in Requests, BI!Dispatch(r) \/ BI!Finish(r)
    PROVE  BindInv' /\ Stays
<1>1. /\ request \in [Requests -> RequestSet] /\ touched \in [Requests -> BOOLEAN]
      /\ failed \in [Accounts -> Failed]
  BY DEF BindInv, BindTypes
<1>2. CASE BI!Dispatch(r)
  <2> DEFINE ph == IF BI!Admitted(request[r]) THEN "sent" ELSE "refused"
             q == [request[r] EXCEPT !.phase = ph]
  <2>1. /\ request' = [request EXCEPT ![r] = q] /\ touched' = touched
        /\ UNCHANGED <<biProfiles, generation, account, failed, standing, new, overruled>>
        /\ request[r].phase = "frozen"
    BY <1>1, <1>2 DEF BI!Dispatch
  <2>2. ph \in {"sent", "refused"}  OBVIOUS
  <2> HIDE DEF ph
  <2>3. /\ q \in RequestSet /\ q.of = request[r].of /\ q.cred = request[r].cred
        /\ q.phase = ph
    BY <1>1, <2>2 DEF RequestSet
  <2> HIDE DEF q
  <2>4. request[r].of \in Accounts /\ request[r].cred # None
    BY <2>1 DEF BindInv, Known
  <2>5. /\ request' \in [Requests -> RequestSet] /\ request'[r] = q
        /\ \A s \in Requests : s # r => request'[s] = request[s]
    BY <1>1, <2>1, <2>3
  <2>6. QED  BY <1>1, <2>1, <2>2, <2>3, <2>4, <2>5, RequestStays
<1>3. CASE BI!Finish(r)
  <2>1. /\ request' = [request EXCEPT ![r] = BI!Idle] /\ touched' = touched
        /\ UNCHANGED <<biProfiles, generation, account, failed, standing, new, overruled>>
    BY <1>3 DEF BI!Finish
  <2>2. BI!Idle \in RequestSet /\ BI!Idle.phase = "idle"
    BY DEF BI!Idle, RequestSet
  <2>3. /\ request' \in [Requests -> RequestSet] /\ request'[r] = BI!Idle
        /\ \A s \in Requests : s # r => request'[s] = request[s]
    BY <1>1, <2>1, <2>2
  <2>4. QED  BY <1>1, <2>1, <2>2, <2>3, RequestStays
<1>4. QED  BY <1>2, <1>3

LEMMA EvidenceBind ==
    ASSUME Names, BindInv,
           \/ \E u \in Addrs, j \in {"good", "blocked", "suspect"} : BI!Judge(u, j)
           \/ \E a \in Accounts : BI!HistoryAges(a)
           \/ UNCHANGED BI!vars
    PROVE  BindInv' /\ Stays
<1>1. /\ UNCHANGED <<biProfiles, generation, account, request, touched, new, overruled>>
      /\ standing' \in [Addrs -> {"good", "blocked", "suspect"}]
      /\ failed' \in [Accounts -> Failed]
  BY DEF BI!Judge, BI!HistoryAges, BI!vars, BI!Writes, BindInv, BindTypes, Failed
<1>2. BindTypes'
  BY <1>1 DEF BindInv, BindTypes
<1>3. (Bounded(biProfiles, account) /\ Added /\ Alive /\ Known /\ Tells)' /\ Stays
  BY <1>1 DEF BindInv, Bounded, Added, Alive, Known, Tells, Behind, Outdated, Stays
<1>4. QED  BY <1>2, <1>3 DEF BindInv

LEMMA BindingStep ==
    ASSUME Names, BindInv, [BI!Next]_BI!vars
    PROVE  BindInv' /\ Stays
<1>1. ASSUME NEW l \in BoundLines, BI!DeleteProxyProfile(l)  PROVE BindInv' /\ Stays
  <2>1. {l} \in SUBSET BoundLines /\ {} \in SUBSET Addrs /\ TRUE \in BOOLEAN
    OBVIOUS
  <2>2. QED  BY <1>1, <2>1, RemoveBind DEF BI!DeleteProxyProfile
<1>2. ASSUME NEW ids \in SUBSET BoundLines, BI!PurgeProxyProfiles(ids)
      PROVE  BindInv' /\ Stays
  <2>1. {} \in SUBSET Addrs /\ FALSE \in BOOLEAN  OBVIOUS
  <2>2. QED  BY <1>2, <2>1, RemoveBind DEF BI!PurgeProxyProfiles
<1>3. ASSUME NEW r \in Requests, BI!Freeze(r, TRUE) \/ BI!Freeze(r, FALSE)
      PROVE  BindInv' /\ Stays
  BY <1>3, FreezeBind
<1>4. ASSUME \/ \E a \in Accounts, c \in Creds : BI!AddAccount(a, c)
             \/ \E given \in UNION {[batch -> Creds] : batch \in SUBSET Accounts} :
                  BI!BatchAddAccounts(given)
      PROVE  BindInv' /\ Stays
  <2>1. CASE \E a \in Accounts, c \in Creds : BI!AddAccount(a, c)
    <3>1. PICK a \in Accounts, c \in Creds : BI!Enter([b \in {a} |-> c])
      BY <2>1 DEF BI!AddAccount
    <3>2. [b \in {a} |-> c] \in [{a} -> Creds] /\ {a} \in SUBSET Accounts
      OBVIOUS
    <3>3. QED  BY <3>1, <3>2, EnterBind
  <2>2. CASE \E given \in UNION {[batch -> Creds] : batch \in SUBSET Accounts} :
               BI!BatchAddAccounts(given)
    <3>1. PICK batch \in SUBSET Accounts : \E given \in [batch -> Creds] :
             BI!BatchAddAccounts(given)
      BY <2>2
    <3>2. QED  BY <3>1, EnterBind DEF BI!BatchAddAccounts
  <2>3. QED  BY <1>4, <2>1, <2>2
<1>5. ASSUME \/ \E a \in Accounts : BI!DeleteAccount(a)
             \/ \E ids \in SUBSET Accounts, missingOK \in BOOLEAN :
                  BI!BatchRemoveAccounts(ids, missingOK)
      PROVE  BindInv' /\ Stays
  <2>1. CASE \E a \in Accounts : BI!DeleteAccount(a)
    <3>1. \A a \in Accounts : {a} \in SUBSET Accounts  OBVIOUS
    <3>2. QED  BY <2>1, <3>1, EraseBind DEF BI!DeleteAccount
  <2>2. CASE \E ids \in SUBSET Accounts, missingOK \in BOOLEAN :
               BI!BatchRemoveAccounts(ids, missingOK)
    <3>1. PICK ids \in SUBSET Accounts : BI!Erase({a \in ids : BI!Live(a)})
      BY <2>2 DEF BI!BatchRemoveAccounts
    <3>2. {a \in ids : BI!Live(a)} \in SUBSET Accounts  OBVIOUS
    <3>3. QED  BY <3>1, <3>2, EraseBind
  <2>3. QED  BY <1>5, <2>1, <2>2
<1>6. QED
  BY <1>1, <1>2, <1>3, <1>4, <1>5, ProfilesBind, QuarantineBind, AutoAssignBind,
     LoginBind, RouteBind, SecretBind, RotateBind, PurgeBind, SelectBind, EndBind,
     EvidenceBind
  DEF BI!Next

\* What is admitted is outdated by no generation, so it has not been touched.
LEMMA Sent ==
    ASSUME Names, BindInv, BI!Next, NEW r \in Requests,
           request[r].phase = "frozen", request'[r].phase = "sent"
    PROVE  ~touched[r]
<1>0. request \in [Requests -> RequestSet]  BY DEF BindInv, BindTypes
<1>1. request' # request
  OBVIOUS
<1>2. ASSUME NEW ps, NEW accounts, BI!Commit(ps, accounts), BI!Writes  PROVE FALSE
  BY <1>1, <1>2 DEF BI!Writes
<1>3. ASSUME NEW ids, NEW avoid, NEW manual, BI!RemoveProxies(ids, avoid, manual)  PROVE FALSE
  BY <1>1, <1>3 DEF BI!RemoveProxies, BI!Writes
<1>4. PICK s \in Requests : BI!Dispatch(s)
  <2>1. ASSUME NEW s \in Requests, NEW a \in Accounts, BI!Select(s, a)  PROVE FALSE
    <3>1. request[s].phase = "idle"
          /\ request' = [request EXCEPT ![s] = [BI!Idle EXCEPT !.phase = "selected", !.of = a,
               !.line = account[a].line, !.addr = account[a].addr,
               !.cred = account[a].cred, !.credGen = account[a].credGen]]
      BY <2>1 DEF BI!Select
    <3>2. QED  BY <1>0, <3>1
  <2>2. ASSUME NEW s \in Requests, NEW forced \in BOOLEAN, BI!Freeze(s, forced)  PROVE FALSE
    <3>1. request[s].phase = "selected" /\ \E v : request' = [request EXCEPT ![s] = v]
      BY <1>0, <2>2 DEF BI!Freeze
    <3>2. QED  BY <1>0, <3>1
  <2>3. ASSUME NEW s \in Requests, BI!Finish(s)  PROVE FALSE
    <3>1. /\ request[s].phase \in {"sent", "refused"}
          /\ request' = [request EXCEPT ![s] = BI!Idle]
      BY <2>3 DEF BI!Finish
    <3>2. QED  BY <1>0, <3>1
  <2>4. ~\E l \in BoundLines, p \in BI!Profile :
           BI!AddProxyProfile(l, p) \/ BI!UpdateProxyProfile(l, p)
    BY <1>2 DEF BI!AddProxyProfile, BI!UpdateProxyProfile
  <2>5. /\ ~\E l \in BoundLines : BI!DeleteProxyProfile(l)
        /\ ~\E ids \in SUBSET BoundLines : BI!PurgeProxyProfiles(ids)
        /\ ~\E s \in Requests : BI!PurgeFailedAccountProxy(s)
    BY <1>3 DEF BI!DeleteProxyProfile, BI!PurgeProxyProfiles, BI!PurgeFailedAccountProxy
  <2>6. /\ ~\E u \in Addrs : BI!Quarantine(u)
        /\ ~\E u \in Addrs, j \in {"good", "blocked", "suspect"} : BI!Judge(u, j)
        /\ ~BI!AutoAssignProxies
    BY <1>1 DEF BI!Quarantine, BI!Judge, BI!AutoAssignProxies, BI!Writes
  <2>7. /\ ~\E a \in Accounts, c \in Creds :
             BI!AddAccount(a, c) \/ BI!EditSecret(a, c) \/ BI!SaveOAuthAccount(a, c)
        /\ ~\E a \in Accounts : BI!DeleteAccount(a) \/ BI!HistoryAges(a)
        /\ ~\E given \in UNION {[batch -> Creds] : batch \in SUBSET Accounts} :
             BI!BatchAddAccounts(given)
        /\ ~\E ids \in SUBSET Accounts, missingOK \in BOOLEAN :
             BI!BatchRemoveAccounts(ids, missingOK)
    <3>1. (~\E given : BI!Enter(given)) /\ ~\E gone : BI!Erase(gone)
      BY <1>1 DEF BI!Enter, BI!Erase, BI!Writes
    <3>2. QED
      BY <1>1, <3>1 DEF BI!AddAccount, BI!EditSecret, BI!SaveOAuthAccount, BI!DeleteAccount,
        BI!BatchAddAccounts, BI!BatchRemoveAccounts, BI!HistoryAges, BI!Writes
  <2>8. ~\E a \in Accounts : \E acc : BI!Decided(a, acc)
    BY <1>1 DEF BI!Decided, BI!Writes
  <2>9. /\ ~\E a \in Accounts, l \in BoundLines \cup {None} :
             BI!AssignAutomaticLoginProxy(a, l) \/ BI!AssignProxyProfile(a, l)
        /\ ~\E a \in Accounts, u \in Addrs \cup {None} :
             BI!SetProxyURL(a, u) \/ BI!EditProxyURL(a, u)
    BY <1>1, <2>8 DEF BI!AssignAutomaticLoginProxy, BI!AssignProxyProfile, BI!SetProxyURL,
                      BI!EditProxyURL, BI!Writes
  <2>10. ~\E s \in Requests : BI!RotateAccountProxyAt(s)
    BY <1>1 DEF BI!RotateAccountProxyAt, BI!Writes
  <2>11. QED
    BY <2>1, <2>2, <2>3, <2>4, <2>5, <2>6, <2>7, <2>9, <2>10 DEF BI!Next
<1>5. s = r
  BY <1>0, <1>4 DEF BI!Dispatch
<1>6. BI!Admitted(request[r])
  <2>1. request' = [request EXCEPT ![r].phase =
                      IF BI!Admitted(request[r]) THEN "sent" ELSE "refused"]
    BY <1>4, <1>5 DEF BI!Dispatch
  <2>2. request[r] \in RequestSet  BY <1>0
  <2>3. request'[r].phase = IF BI!Admitted(request[r]) THEN "sent" ELSE "refused"
    BY <1>0, <2>1, <2>2 DEF RequestSet
  <2>4. QED  BY <2>3
<1>7. SUFFICES ASSUME Outdated(request[r])  PROVE FALSE
  BY DEF BindInv, Tells
<1> DEFINE q == request[r]
<1>8. /\ q \in RequestSet /\ q.of \in Accounts /\ q.forced \in BOOLEAN
      /\ q.line \in BoundLines \cup {None}
  BY <1>0 DEF BindInv, Known, RequestSet
<1>9. /\ account[q.of].credGen = q.credGen /\ q.credGen \in Nat /\ q.routeGen \in Nat
      /\ q.gen \in Nat
  BY <1>6, <1>8 DEF BI!Admitted, BI!SameCredential, RequestSet
<1>10. /\ ~q.forced /\ account[q.of].routeGen = q.routeGen
       /\ q.line # None => generation[q.line] = q.gen /\ biProfiles[q.line].on
  BY <1>6, <1>7, <1>9 DEF Outdated, BI!Admitted, BI!SameRoute, BI!LineCurrent
<1>11. q.line # None => biProfiles[q.line] # BI!Gone
  <2>1. ~BI!Gone.on  BY DEF BI!Gone
  <2>2. QED  BY <1>10, <2>1, Zenon
<1>12. /\ q.line # None => ~(generation[q.line] > q.gen)
       /\ ~(account[q.of].credGen > q.credGen)
       /\ ~(account[q.of].routeGen > q.routeGen)
  BY <1>9, <1>10
<1>13. Outdated(q)
  BY <1>7
<1>14. QED
  BY <1>11, <1>12, <1>13, Zenon DEF Outdated

LEMMA BindRuns ==
    /\ RunInit => BI!Init
    /\ [RunNext]_allVars => [BI!Next]_BI!vars
<1> USE DEF allVars, biVars, BI!vars
<1>1. RunInit => BI!Init  BY DEF RunInit
<1>2. Bind(BI!Next) => BI!Next  BY DEF Bind
<1>3. Replay(Next) \/ Quarantine(LQ!Next) \/ Strict(SP!Next) \/ Initialize(IZ!Next)
        => UNCHANGED BI!vars
  BY DEF Replay, Quarantine, Strict, Initialize
<1>4. UNCHANGED allVars => UNCHANGED BI!vars
  OBVIOUS
<1>5. QED  BY <1>1, <1>2, <1>3, <1>4 DEF RunNext

LEMMA SpecBindInv == ASSUME Names PROVE RunSpec => []BindInv
<1>1. RunInit => BindInv
  BY InitBind, BindRuns
<1>2. BindInv /\ [RunNext]_allVars => BindInv'
  BY BindingStep, BindRuns
<1>3. QED  BY <1>1, <1>2, PTL DEF RunSpec

\* An account that names a line goes out by that line's address, and it leaves the line only
\* because the line is removed, its address is quarantined, that very route got a risk
\* verdict, or the administrator decides, whatever is edited, purged, imported, reassigned
\* or rotated meanwhile.  A quarantine moves it to a line that is on and not suspect, and
\* takes it off every line only when there is none, its own included
\* (internal/store/proxy_transactions.go, proxy_strict_transactions.go,
\* risk_proxy_history.go).
THEOREM LinesStaysOnItsLine == ASSUME Names PROVE RunSpec => StaysOnItsLine
<1>1. BindInv => BI!TypeOK /\ BI!BoundLine
  <2> SUFFICES ASSUME BindInv  PROVE BI!TypeOK /\ BI!BoundLine
    OBVIOUS
  <2>1. BI!BoundLine
    BY DEF BindInv, Bounded, BI!BoundLine
  <2>2. ASSUME NEW a \in Accounts
        PROVE  /\ account[a].line \in BoundLines \cup {None}
               /\ account[a].addr \in Addrs \cup {None}
               /\ account[a].cred \in Creds \cup {None} /\ account[a].intent \in BI!Intents
               /\ account[a].waits \in Creds \cup {None} /\ account[a].avoid \subseteq Addrs
               /\ account[a].line # None => account[a].addr # None
    <3>1. account[a] \in AccountSet /\ biProfiles \in [BoundLines -> ProfileSet]
      BY DEF BindInv, BindTypes
    <3>2. account[a].line # None => account[a].addr # None
      BY <3>1, ListedIs DEF BindInv, Bounded, AccountSet
    <3>3. QED  BY <3>1, <3>2 DEF AccountSet
  <2>3. biProfiles \in [BoundLines -> BI!Profile \cup {BI!Gone}]
    BY DEF BindInv, BindTypes, ProfileSet
  <2>4. BI!TypeOK
    BY <2>2, <2>3 DEF BindInv, BindTypes, BI!TypeOK
  <2>5. QED  BY <2>1, <2>4
<1>2. BindInv /\ [RunNext]_allVars =>
        [\A a \in Accounts : account[a].line # None /\ account'[a].line # account[a].line =>
           \/ biProfiles'[account[a].line] = BI!Gone
           \/ /\ BI!Quarantine(account[a].addr)
              /\ IF \E l \in BI!Listed(biProfiles) : BI!Usable(l)
                 THEN account'[a].line \in BI!Listed(biProfiles) /\ BI!Usable(account'[a].line)
                 ELSE account'[a].line = None
           \/ [line |-> account[a].line, addr |-> account[a].addr] \in failed'[a]
           \/ account'[a].intent \in {"manual_proxy", "explicit_direct"}
           \/ account'[a].cred = None]_BI!vars
  <2>1. ASSUME BindInv, NEW a \in Accounts, account[a].line # None,
               BI!Quarantine(account[a].addr)
        PROVE  IF \E l \in BI!Listed(biProfiles) : BI!Usable(l)
               THEN account'[a].line \in BI!Listed(biProfiles) /\ BI!Usable(account'[a].line)
               ELSE account'[a].line = None
    <3>1. account[a].line \in BoundLines /\ biProfiles \in [BoundLines -> ProfileSet]
      BY <2>1 DEF BindInv, BindTypes, AccountSet
    <3>2. account[a].addr \in Addrs
      BY <2>1, <3>1, ListedIs DEF BindInv, Bounded
    <3>3. QED  BY <2>1, <3>2, QuarantinePlaces
  <2>2. QED  BY <2>1, BindingStep, BindRuns DEF Stays, Reason
<1>3. QED
  BY SpecBindInv, <1>1, <1>2, PTL DEF RunSpec, StaysOnItsLine, BI!StaysOnItsLine

\* What is sent over a line is what account and line have been ever since the client of the
\* request was built: a route or a credential that changed and changed back has still
\* changed (internal/store/proxy_dispatch.go, proxy_versions.go).
THEOREM LinesDispatchIsCurrent == ASSUME Names PROVE RunSpec => DispatchIsCurrent
<1>1. BindInv /\ [RunNext]_allVars =>
        [\A r \in Requests : request[r].phase = "frozen" /\ request'[r].phase = "sent" =>
           ~touched[r]]_BI!vars
  BY Sent, BindRuns
<1>2. QED
  BY SpecBindInv, <1>1, PTL DEF RunSpec, DispatchIsCurrent, BI!DispatchIsCurrent

(***************************************************************************)
(* The replay guard: a record lets one replay through.                     *)
(***************************************************************************)

GuardInv == TypeOK /\ OncePerWindow

\* What the table holds of a content that is live.
LEMMA LiveRecord ==
    ASSUME TypeOK, NEW k \in Contents, Live(k)
    PROVE  /\ entry[k] \in Records /\ entry[k].age + 1 \in 0..TTL
           /\ k \in Kept
  BY ReplayGuardAssumption DEF TypeOK, Live, Kept, Records

LEMMA InitGuardInv == Init => GuardInv
<1> SUFFICES ASSUME Init PROVE GuardInv
  OBVIOUS
<1>1. TypeOK
  BY DEF Init, TypeOK, Idle
<1>2. OncePerWindow
  BY DEF Init, OncePerWindow, Kept
<1>3. QED  BY <1>1, <1>2 DEF GuardInv

\* An arriving request takes the allowance of a record at most once.
LEMMA ArriveInv ==
    ASSUME GuardInv, NEW r \in Reqs, NEW k \in Contents, Arrive(r, k)
    PROVE  GuardInv'
<1> USE DEF GuardInv
<1>1. req' \in [Reqs -> [body : Contents \cup {None}, lines : SUBSET Lines]]
  BY DEF Arrive, TypeOK
<1>2. CASE TakeExpired(k)
  <2>1. entry' \in [Contents -> Records \cup {None}] /\ let' \in [Contents -> 0..2]
    BY <1>2 DEF TakeExpired, TypeOK
  <2>2. OncePerWindow'
    BY <1>2 DEF TakeExpired, OncePerWindow, Kept, TypeOK
  <2>3. QED  BY <1>1, <2>1, <2>2 DEF TypeOK
<1>3. CASE TakeAllowance(k)
  <2>1. entry[k] \in Records /\ k \in Kept
    BY <1>3, LiveRecord DEF TakeAllowance
  <2>2. entry[k].left = 1
    BY <1>3, <2>1 DEF TakeAllowance, Blocked, Records
  <2>3. let[k] = 0
    BY <2>1, <2>2 DEF OncePerWindow, TypeOK
  <2>4. entry' = [entry EXCEPT ![k] = [@ EXCEPT !.left = 0]]
    BY <1>3, <2>2 DEF TakeAllowance
  <2>5. [entry[k] EXCEPT !.left = 0] \in Records
    BY <2>1 DEF Records
  <2>6. let' = [let EXCEPT ![k] = 1]
    BY <1>3, <2>3 DEF TakeAllowance, LetThrough, TypeOK
  <2>7. entry' \in [Contents -> Records \cup {None}] /\ let' \in [Contents -> 0..2]
    BY <2>4, <2>5, <2>6 DEF TypeOK
  <2>8. OncePerWindow'
    <3> SUFFICES ASSUME NEW x \in Contents, entry'[x] # None
                 PROVE  let'[x] + entry'[x].left <= 1
      BY DEF OncePerWindow, Kept
    <3>1. CASE x = k
      BY <3>1, <2>1, <2>4, <2>6 DEF TypeOK, Records
    <3>2. CASE x # k
      BY <3>2, <2>4, <2>6 DEF TypeOK, OncePerWindow, Kept
    <3>3. QED  BY <3>1, <3>2
  <2>9. QED  BY <1>1, <2>7, <2>8 DEF TypeOK
<1>4. CASE TakeRefused(k)
  BY <1>1, <1>4 DEF TakeRefused, TypeOK, OncePerWindow, Kept
<1>5. QED  BY <1>2, <1>3, <1>4 DEF Arrive

\* A verdict leaves the allowances of the records it keeps alone.
LEMMA RecordInv ==
    ASSUME GuardInv, NEW k, Record(k)
    PROVE  /\ entry' \in [Contents -> Records \cup {None}]
           /\ let' \in [Contents -> 0..2]
           /\ OncePerWindow'
<1> DEFINE fresh == {x \in Contents : Live(x)}
           kept == IF Full(fresh) THEN {} ELSE fresh
<1> USE DEF GuardInv
<1>1. /\ entry' = [x \in Contents |->
                     IF x = k THEN [age |-> 0, left |-> Allowances(k, kept)]
                     ELSE IF x \in kept THEN entry[x] ELSE None]
      /\ let' = [x \in Contents |-> IF x \in kept THEN let[x] ELSE 0]
  BY DEF Record
<1>2. \A x \in kept : x \in Contents /\ x \in Kept /\ entry[x] \in Records
  BY LiveRecord
<1> HIDE DEF kept
<1>3. Allowances(k, kept) \in 0..1
  BY <1>2 DEF Allowances, Records
<1>4. [age |-> 0, left |-> Allowances(k, kept)] \in Records
  BY <1>3, ReplayGuardAssumption DEF Records
<1>5. entry' \in [Contents -> Records \cup {None}]
  BY <1>1, <1>2, <1>4
<1>6. let' \in [Contents -> 0..2]
  BY <1>1 DEF TypeOK
<1>7. OncePerWindow'
  <2> SUFFICES ASSUME NEW x \in Contents, entry'[x] # None
               PROVE  let'[x] + entry'[x].left <= 1
    BY DEF OncePerWindow, Kept
  <2>1. CASE x = k /\ x \in kept
    BY <2>1, <1>1, <1>2 DEF Allowances, OncePerWindow
  <2>2. CASE x = k /\ x \notin kept
    BY <2>2, <1>1, <1>3
  <2>3. CASE x # k
    BY <2>3, <1>1, <1>2 DEF OncePerWindow
  <2>4. QED  BY <2>1, <2>2, <2>3
<1>8. QED  BY <1>5, <1>6, <1>7

LEMMA RefusedInv ==
    ASSUME GuardInv, NEW r \in Reqs, NEW l \in Lines, NEW dirty \in BOOLEAN, Refused(r, l, dirty)
    PROVE  GuardInv'
<1> DEFINE tried == IF dirty THEN req[r].lines ELSE req[r].lines \cup {l}
<1>1. tried \in SUBSET Lines
  BY DEF GuardInv, TypeOK
<1>2. req' \in [Reqs -> [body : Contents \cup {None}, lines : SUBSET Lines]]
  <2>1. req' = [req EXCEPT ![r] = Idle] \/ req' = [req EXCEPT ![r].lines = tried]
    BY DEF Refused
  <2> HIDE DEF tried
  <2>2. QED  BY <1>1, <2>1 DEF GuardInv, TypeOK, Idle
<1>3. CASE Record(req[r].body)
  BY <1>2, <1>3, RecordInv DEF GuardInv, TypeOK
<1>4. CASE UNCHANGED <<entry, let>>
  BY <1>2, <1>4 DEF GuardInv, TypeOK, OncePerWindow, Kept
<1>5. QED  BY <1>3, <1>4 DEF Refused

LEMMA TickInv == ASSUME GuardInv, Tick  PROVE GuardInv'
<1>1. \A k \in Contents : /\ entry'[k] \in Records \cup {None}
                          /\ entry'[k] = None <=> entry[k] = None
                          /\ entry'[k] # None => entry'[k].left = entry[k].left
  <2> SUFFICES ASSUME NEW k \in Contents
               PROVE  /\ entry'[k] \in Records \cup {None}
                      /\ entry'[k] = None <=> entry[k] = None
                      /\ entry'[k] # None => entry'[k].left = entry[k].left
    OBVIOUS
  <2>1. CASE Live(k)
    <3>1. entry'[k] = [entry[k] EXCEPT !.age = @ + 1]
      BY <2>1 DEF Tick
    <3>2. entry[k] \in Records /\ entry[k].age + 1 \in 0..TTL /\ entry[k] # None
      BY <2>1, LiveRecord DEF GuardInv, Kept
    <3>3. entry'[k] \in Records /\ entry'[k].left = entry[k].left
      BY <3>1, <3>2 DEF Records
    <3>4. entry'[k] # None
      BY <3>3, ReplayGuardAssumption DEF Records
    <3>5. QED  BY <3>2, <3>3, <3>4
  <2>2. CASE ~Live(k)
    BY <2>2 DEF Tick, GuardInv, TypeOK
  <2>3. QED  BY <2>1, <2>2
<1>2. entry' \in [Contents -> Records \cup {None}]
  BY <1>1 DEF Tick
<1>3. QED
  BY <1>1, <1>2 DEF Tick, GuardInv, TypeOK, OncePerWindow, Kept

LEMMA EndInv == ASSUME GuardInv, NEW r \in Reqs, End(r)  PROVE GuardInv'
  BY DEF End, Idle, GuardInv, TypeOK, OncePerWindow, Kept

LEMMA NextGuardInv == ASSUME GuardInv, [Next]_vars PROVE GuardInv'
<1>1. CASE Next
  BY <1>1, ArriveInv, RefusedInv, EndInv, TickInv DEF Next
<1>2. CASE UNCHANGED vars
  BY <1>2 DEF vars, GuardInv, TypeOK, OncePerWindow, Kept
<1>3. QED  BY <1>1, <1>2

LEMMA GuardRuns ==
    /\ RunInit => Init
    /\ [RunNext]_allVars => [Next]_vars
<1> USE DEF allVars, vars
<1>1. Quarantine(LQ!Next) \/ Strict(SP!Next) \/ Bind(BI!Next) \/ Initialize(IZ!Next)
        => UNCHANGED vars
  BY DEF Quarantine, Strict, Bind, Initialize
<1>2. UNCHANGED allVars => UNCHANGED vars
  OBVIOUS
<1>3. QED  BY <1>1, <1>2 DEF RunInit, RunNext, Replay

LEMMA SpecGuardInv == RunSpec => []GuardInv
<1>1. RunInit => GuardInv
  BY InitGuardInv, GuardRuns
<1>2. GuardInv /\ [RunNext]_allVars => GuardInv'
  BY NextGuardInv, GuardRuns
<1>3. QED  BY <1>1, <1>2, PTL DEF RunSpec

\* The guard's table and its requests have their types.
THEOREM ReplayGuardType == RunSpec => []TypeOK
  BY SpecGuardInv, PTL DEF GuardInv

\* No sequence of verdicts and replays, however concurrent, makes a record let
\* a second replay through (internal/gateway/replayguard.go).
THEOREM ReplayGuardOnce == RunSpec => []OncePerWindow
  BY SpecGuardInv, PTL DEF GuardInv

=============================================================================
