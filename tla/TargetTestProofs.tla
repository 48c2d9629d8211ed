-------------------------- MODULE TargetTestProofs --------------------------
(***************************************************************************)
(* Theorems about TargetTest, for every number of targets and repetitions. *)
(***************************************************************************)
EXTENDS TargetTest, TLAPS, FiniteSetTheorems

\* The selections that were not missed, among the first n.
HitsAmong(ids, n) == {k \in 1..n : ids[k] # MISSED}

-----------------------------------------------------------------------------
\* The inductive invariant.

\* Every press counted is one entry of fitts_IDs and one hit or miss; the
\* entries of trials match their order, and the hits are those not missed.
Tally ==
    /\ Len(fitts_IDs) = current_trial
    /\ hits + misses = current_trial
    /\ current_trial <= Trials =>
          /\ \A k \in 1..current_trial : fitts_IDs[k] \in {trials[k], MISSED}
          /\ IsFiniteSet(HitsAmong(fitts_IDs, current_trial))
          /\ hits = Cardinality(HitsAmong(fitts_IDs, current_trial))

\* After an attempt there is a button or no trial left; nothing is left after
\* the second.
Phases ==
    /\ student_ID <=> ~form
    /\ student_ID => testStartTime \in Nat
    /\ continue_button => attempt = 1 /\ current_trial >= Trials
    /\ attempt = 2 => current_trial >= Trials
    /\ form => attempt = 0

\* What holds as long as nothing was resized before START.
OnTime ==
    ~early =>
        /\ form => ~draw_targets /\ current_trial = 0 /\ ~entering
        /\ ~form => testStartTime = 0
        /\ attempt < 2 /\ ~continue_button => current_trial < Trials

IInv == TypeOK /\ Tally /\ Phases /\ OnTime /\ WholeAttempts /\ TimedWhole
        /\ CanGoOn

LEMMA TrialsType == Trials \in Nat \ {0}
BY SizesAssumption DEF Trials

LEMMA InitIInv == Init => IInv
<1> SUFFICES ASSUME Init PROVE IInv
  OBVIOUS
<1> USE TrialsType, SizesAssumption
<1>1. TypeOK
  <2>1. << >> \in Seq(Targets \cup {MISSED}) /\ << >> \in Seq(Record)
    OBVIOUS
  <2>2. 0 \in Nat /\ 0 \in 0..2
    OBVIOUS
  <2>3. QED
    BY <2>1, <2>2, Zenon DEF Init, TypeOK
<1>2. /\ fitts_IDs = << >> /\ Len(fitts_IDs) = 0 /\ current_trial = 0
      /\ hits = 0 /\ misses = 0
  BY DEF Init
<1>3. Tally
  <2>1. HitsAmong(fitts_IDs, current_trial) = {}
    BY <1>2 DEF HitsAmong
  <2>2. \A k \in 1..current_trial : fitts_IDs[k] \in {trials[k], MISSED}
    BY <1>2
  <2>3. IsFiniteSet({}) /\ Cardinality({}) = 0
    BY FS_EmptySet
  <2>4. /\ IsFiniteSet(HitsAmong(fitts_IDs, current_trial))
        /\ hits = Cardinality(HitsAmong(fitts_IDs, current_trial))
    BY <2>1, <2>3, <1>2, Zenon
  <2>5. Len(fitts_IDs) = current_trial /\ hits + misses = current_trial
    BY <1>2
  <2>6. QED
    BY <2>2, <2>4, <2>5, Zenon DEF Tally
<1>4. Phases /\ OnTime
  BY <1>2 DEF Init, Phases, OnTime
<1>5. WholeAttempts /\ TimedWhole /\ CanGoOn
  BY DEF Init, WholeAttempts, TimedWhole, CanGoOn
<1>6. QED
  BY <1>1, <1>3, <1>4, <1>5 DEF IInv

-----------------------------------------------------------------------------
\* A press that counts keeps the tally.

LEMMA ScoreTally ==
    ASSUME TypeOK, Tally, NEW p \in Targets \cup {Away}, Score(p), trials' = trials
    PROVE  /\ Tally'
           /\ current_trial' \in Nat /\ hits' \in Nat /\ misses' \in Nat
           /\ fitts_IDs' \in Seq(Targets \cup {MISSED})
<1> DEFINE v == IF InTarget(p) THEN p ELSE MISSED
           n == current_trial
<1> USE TrialsType, SizesAssumption
<1>1. /\ n \in Nat /\ hits \in Nat /\ misses \in Nat
      /\ fitts_IDs \in Seq(Targets \cup {MISSED})
      /\ Len(fitts_IDs) = n /\ hits + misses = n
  BY DEF TypeOK, Tally
<1>2. InTarget(p) => p \in Targets /\ n < Trials /\ p = trials[n + 1]
  BY DEF InTarget, TypeOK, Orders
<1>3. v \in Targets \cup {MISSED} /\ (v # MISSED <=> InTarget(p))
  BY <1>2
<1>4. fitts_IDs' = Append(fitts_IDs, v) /\ n' = n + 1
  BY DEF Score
<1>5. /\ fitts_IDs' \in Seq(Targets \cup {MISSED})
      /\ Len(fitts_IDs') = n + 1
      /\ \A k \in 1..n : fitts_IDs'[k] = fitts_IDs[k]
      /\ fitts_IDs'[n + 1] = v
  BY <1>1, <1>3, <1>4
<1>6. /\ hits' = hits + (IF InTarget(p) THEN 1 ELSE 0)
      /\ misses' = misses + (IF InTarget(p) THEN 0 ELSE 1)
  BY DEF Score
<1>7. hits' \in Nat /\ misses' \in Nat /\ hits' + misses' = n + 1
  BY <1>1, <1>6
<1>8. ASSUME n' <= Trials
      PROVE  /\ \A k \in 1..n' : fitts_IDs'[k] \in {trials'[k], MISSED}
             /\ IsFiniteSet(HitsAmong(fitts_IDs', n'))
             /\ hits' = Cardinality(HitsAmong(fitts_IDs', n'))
  <2> DEFINE H == HitsAmong(fitts_IDs, n)
             K == HitsAmong(fitts_IDs', n + 1)
  <2>1. /\ \A k \in 1..n : fitts_IDs[k] \in {trials[k], MISSED}
        /\ IsFiniteSet(H) /\ hits = Cardinality(H)
    BY <1>1, <1>4, <1>8 DEF Tally
  <2>2. \A k \in 1..(n + 1) : fitts_IDs'[k] \in {trials[k], MISSED}
    BY <2>1, <1>1, <1>2, <1>5
  <2>3. n + 1 \notin H
    BY <1>1 DEF HitsAmong
  <2>4. CASE InTarget(p)
    <3>1. K = H \cup {n + 1}
      BY <2>4, <1>1, <1>3, <1>5 DEF HitsAmong
    <3>2. IsFiniteSet(K) /\ Cardinality(K) = Cardinality(H) + 1
      BY <3>1, <2>1, <2>3, FS_AddElement
    <3>3. QED
      BY <3>2, <2>1, <2>2, <2>4, <1>4, <1>6
  <2>5. CASE ~InTarget(p)
    <3>1. K = H
      BY <2>5, <1>1, <1>3, <1>5 DEF HitsAmong
    <3>2. QED
      BY <3>1, <2>1, <2>2, <2>5, <1>1, <1>4, <1>6
  <2>6. QED
    BY <2>4, <2>5
<1>9. QED
  BY <1>1, <1>4, <1>5, <1>7, <1>8 DEF Tally

\* A press that counts and is not the last of the attempt.
LEMMA PressTrialIInv ==
    ASSUME IInv, NEW p \in Targets \cup {Away}, PressTrial(p)
    PROVE  IInv'
<1> USE TrialsType
<1>1. /\ Tally'
      /\ current_trial' \in Nat /\ hits' \in Nat /\ misses' \in Nat
      /\ fitts_IDs' \in Seq(Targets \cup {MISSED})
  BY ScoreTally DEF IInv, PressTrial
<1>2. current_trial \in Nat /\ current_trial' = current_trial + 1
  BY DEF IInv, TypeOK, PressTrial, Score
<1>3. TypeOK'
  BY <1>1 DEF IInv, TypeOK, PressTrial, Press, Record, Orders
<1>4. Phases'
  BY <1>2 DEF IInv, Phases, PressTrial
<1>5. OnTime'
  BY <1>2 DEF IInv, OnTime, PressTrial
<1>6. WholeAttempts' /\ TimedWhole'
  BY DEF IInv, PressTrial, WholeAttempts, TimedWhole, FittsMatch
<1>7. CanGoOn'
  BY <1>2 DEF IInv, PressTrial, CanGoOn
<1>8. QED
  BY <1>1, <1>3, <1>4, <1>5, <1>6, <1>7 DEF IInv

\* The press that ends an attempt: its record is whole.
LEMMA EndAttemptIInv ==
    ASSUME IInv, NEW p \in Targets \cup {Away}, EndAttempt(p)
    PROVE  IInv'
<1> USE TrialsType
<1>1. /\ Tally'
      /\ current_trial' \in Nat /\ hits' \in Nat /\ misses' \in Nat
      /\ fitts_IDs' \in Seq(Targets \cup {MISSED})
  BY ScoreTally DEF IInv, EndAttempt
<1>2. current_trial \in Nat /\ current_trial' = Trials
  BY DEF IInv, TypeOK, EndAttempt, Score
<1>3. attempt \in 0..1 /\ student_ID /\ ~form /\ testStartTime \in Nat
  BY <1>2 DEF IInv, TypeOK, Phases, EndAttempt
<1> DEFINE r == [attempt |-> attempt, order |-> trials,
                 fitts_IDs |-> fitts_IDs', hits |-> hits', misses |-> misses',
                 untimed |-> testStartTime]
<1>4. database' = Append(database, r) /\ attempt' = attempt + 1
  BY DEF EndAttempt, AttemptData
<1>5. r \in Record
  BY <1>1, <1>3 DEF IInv, TypeOK, Record
<1>6. database \in Seq(Record) /\ Len(database) = attempt
  BY DEF IInv, TypeOK, WholeAttempts
<1>7. /\ database' \in Seq(Record) /\ Len(database') = attempt + 1
      /\ \A n \in 1..Len(database) : database'[n] = database[n]
      /\ database'[attempt + 1] = r
  <2> HIDE DEF r
  <2>1. QED
    BY <1>3, <1>4, <1>5, <1>6
<1>8. continue_button' \in BOOLEAN /\ (continue_button' <=> attempt = 0)
  <2>1. ~continue_button
    BY <1>2 DEF IInv, TypeOK, Phases, EndAttempt, Score
  <2>2. continue_button = FALSE
    BY <2>1, Zenon DEF IInv, TypeOK
  <2>3. attempt + 1 < 2 <=> attempt = 0
    BY <1>3
  <2>4. continue_button' = IF attempt + 1 < 2 THEN TRUE ELSE continue_button
    BY Zenon DEF EndAttempt
  <2>5. attempt = 0 => continue_button' = TRUE
    BY <2>3, <2>4
  <2>6. attempt # 0 => continue_button' = FALSE
    BY <2>2, <2>3, <2>4
  <2>7. QED
    BY <2>5, <2>6, Zenon
<1>9. TypeOK'
  <2>1. attempt' \in 0..2 /\ Orders' = Orders /\ Record' = Record
    BY <1>3, <1>4 DEF Orders, Record
  <2>2. QED
    BY <1>1, <1>3, <1>7, <1>8, <2>1, Zenon
    DEF IInv, TypeOK, EndAttempt, Press
<1>10. Phases'
  BY <1>1, <1>2, <1>3, <1>4, <1>8 DEF IInv, Phases, EndAttempt
<1>11. OnTime'
  BY <1>2, <1>3, <1>4 DEF IInv, OnTime, EndAttempt
<1>12. /\ hits' + misses' = Trials /\ Len(fitts_IDs') = Trials
       /\ \A k \in 1..Trials : fitts_IDs'[k] \in {trials[k], MISSED}
       /\ hits' = Cardinality({k \in 1..Trials : fitts_IDs'[k] # MISSED})
  BY <1>1, <1>2 DEF Tally, HitsAmong, EndAttempt
<1>13. WholeAttempts'
  <2> SUFFICES ASSUME NEW n \in 1..(attempt + 1)
               PROVE  LET q == database'[n]
                      IN  /\ q.attempt = n - 1
                          /\ q.hits + q.misses = Trials
                          /\ Len(q.fitts_IDs) = Trials
                          /\ FittsMatch(q.fitts_IDs, q.order)
                          /\ q.hits = Cardinality(
                                {k \in 1..Trials : q.fitts_IDs[k] # MISSED})
    BY <1>4, <1>7 DEF WholeAttempts, FittsMatch
  <2>1. CASE n = attempt + 1
    BY <2>1, <1>3, <1>7, <1>12 DEF FittsMatch
  <2>2. CASE n \in 1..attempt
    BY <2>2, <1>6, <1>7 DEF IInv, WholeAttempts
  <2>3. QED
    BY <2>1, <2>2, <1>3
<1>14. TimedWhole'
  <2> SUFFICES ASSUME ~early, NEW n \in 1..(attempt + 1)
               PROVE  database'[n].untimed = 0
    BY <1>7 DEF TimedWhole, EndAttempt
  <2>1. CASE n = attempt + 1
    BY <2>1, <1>3, <1>7 DEF IInv, OnTime
  <2>2. CASE n \in 1..attempt
    BY <2>2, <1>6, <1>7 DEF IInv, TimedWhole
  <2>3. QED
    BY <2>1, <2>2, <1>3
<1>15. CanGoOn'
  BY <1>3, <1>4, <1>8 DEF CanGoOn
<1>16. QED
  BY <1>1, <1>9, <1>10, <1>11, <1>13, <1>14, <1>15 DEF IInv

\* A press that would end an attempt no one has signed up for.
LEMMA RefusedIInv ==
    ASSUME IInv, NEW p \in Targets \cup {Away}, EndAttemptRefused(p)
    PROVE  IInv'
<1> USE TrialsType
<1>1. /\ Tally'
      /\ current_trial' \in Nat /\ hits' \in Nat /\ misses' \in Nat
      /\ fitts_IDs' \in Seq(Targets \cup {MISSED})
  BY ScoreTally DEF IInv, EndAttemptRefused
<1>2. form /\ early /\ attempt = 0
  BY DEF IInv, TypeOK, Phases, OnTime, EndAttemptRefused
<1>3. TypeOK'
  BY <1>1 DEF IInv, TypeOK, EndAttemptRefused, Press, Record, Orders
<1>4. Phases' /\ OnTime' /\ TimedWhole' /\ CanGoOn'
  BY <1>2 DEF IInv, Phases, OnTime, TimedWhole, CanGoOn, EndAttemptRefused
<1>5. WholeAttempts'
  BY DEF IInv, EndAttemptRefused, WholeAttempts, FittsMatch
<1>6. QED
  BY <1>1, <1>3, <1>4, <1>5 DEF IInv

\* START, and the second attempt.
LEMMA StartIInv == ASSUME IInv, StartTest PROVE IInv'
<1> USE TrialsType
<1>1. TypeOK' /\ Tally'
  BY DEF IInv, TypeOK, Tally, StartTest, Release, counters, Record, Orders
<1>2. Phases' /\ OnTime' /\ CanGoOn'
  BY DEF IInv, TypeOK, Phases, OnTime, CanGoOn, StartTest, counters
<1>3. WholeAttempts' /\ TimedWhole'
  BY DEF IInv, WholeAttempts, FittsMatch, TimedWhole, StartTest
<1>4. QED
  BY <1>1, <1>2, <1>3 DEF IInv

LEMMA ContinueIInv == ASSUME IInv, ContinueTest PROVE IInv'
<1> USE TrialsType
<1>1. TypeOK'
  <2>1. << >> \in Seq(Targets \cup {MISSED}) /\ 0 \in Nat
    OBVIOUS
  <2>2. Orders' = Orders /\ Record' = Record
    BY DEF Orders, Record
  <2>3. QED
    BY <2>1, <2>2, Zenon DEF IInv, TypeOK, ContinueTest, Release
<1>2. HitsAmong(fitts_IDs, current_trial)' = {}
  BY DEF ContinueTest, HitsAmong
<1>3. Tally'
  BY <1>2, FS_EmptySet DEF Tally, ContinueTest
<1>4. Phases' /\ OnTime' /\ CanGoOn'
  BY DEF IInv, TypeOK, Phases, OnTime, CanGoOn, ContinueTest
<1>5. WholeAttempts' /\ TimedWhole'
  BY DEF IInv, WholeAttempts, FittsMatch, TimedWhole, ContinueTest
<1>6. QED
  BY <1>1, <1>3, <1>4, <1>5 DEF IInv

\* A resize, at any time.
LEMMA ResizedIInv == ASSUME IInv, WindowResized PROVE IInv'
<1> USE TrialsType
<1>1. TypeOK' /\ Tally'
  BY DEF IInv, TypeOK, Tally, WindowResized, counters, Record, Orders
<1>2. Phases' /\ OnTime' /\ CanGoOn'
  BY DEF IInv, TypeOK, Phases, OnTime, CanGoOn, WindowResized, counters
<1>3. WholeAttempts' /\ TimedWhole'
  BY DEF IInv, WholeAttempts, FittsMatch, TimedWhole, WindowResized
<1>4. QED
  BY <1>1, <1>2, <1>3 DEF IInv

\* What only presses or releases the mouse, or nothing.
LEMMA IdleIInv ==
    ASSUME IInv, PressOutsideTest \/ ReleaseElsewhere \/ UNCHANGED vars
    PROVE  IInv'
<1>1. TypeOK'
  BY DEF IInv, TypeOK, PressOutsideTest, ReleaseElsewhere, Press, Release,
         vars, counters, Record, Orders
<1>2. Tally'
  BY DEF IInv, Tally, PressOutsideTest, ReleaseElsewhere, vars, counters
<1>3. Phases' /\ OnTime'
  BY DEF IInv, Phases, OnTime, PressOutsideTest, ReleaseElsewhere, vars,
         counters
<1>4. WholeAttempts'
  BY DEF IInv, WholeAttempts, FittsMatch, PressOutsideTest,
         ReleaseElsewhere, vars, counters
<1>5. TimedWhole' /\ CanGoOn'
  BY DEF IInv, TimedWhole, CanGoOn, PressOutsideTest, ReleaseElsewhere, vars,
         counters
<1>6. QED
  BY <1>1, <1>2, <1>3, <1>4, <1>5 DEF IInv

-----------------------------------------------------------------------------
\* The inductive invariant holds in every state, whatever the user does with
\* the mouse and the window (mousePressed, continueTest, windowResized).
THEOREM Inductive == Spec => []IInv
<1>1. IInv /\ [Next]_vars => IInv'
  <2> SUFFICES ASSUME IInv, [Next]_vars PROVE IInv'
    OBVIOUS
  <2>1. ASSUME NEW p \in Targets \cup {Away}, PressTrial(p) PROVE IInv'
    BY <2>1, PressTrialIInv
  <2>2. ASSUME NEW p \in Targets \cup {Away}, EndAttempt(p) PROVE IInv'
    BY <2>2, EndAttemptIInv
  <2>3. ASSUME NEW p \in Targets \cup {Away}, EndAttemptRefused(p) PROVE IInv'
    BY <2>3, RefusedIInv
  <2>4. QED
    BY <2>1, <2>2, <2>3, StartIInv, ContinueIInv, ResizedIInv, IdleIInv DEF Next
<1>2. QED
  BY InitIInv, <1>1, PTL DEF Spec

\* Every variable of the test keeps its type.
THEOREM TypeCorrect == Spec => []TypeOK
<1>1. IInv => TypeOK
  BY DEF IInv
<1>2. QED
  BY Inductive, <1>1, PTL

\* The database has whole attempts only, one after another, and nothing that was
\* selected before their clock started (mousePressed, printAndSavePerformance,
\* startTest, continueTest), for any number of targets and repetitions.
THEOREM WholeRecords == Spec => []RecordsAreWhole
<1>1. IInv => RecordsAreWhole
  BY DEF IInv, RecordsAreWhole
<1>2. QED
  BY Inductive, <1>1, PTL

\* The test never gets stuck, if the window keeps its size until START.
THEOREM NeverStuck == Spec => []CanGoOn
<1>1. IInv => CanGoOn
  BY DEF IInv
<1>2. QED
  BY Inductive, <1>1, PTL

=============================================================================
