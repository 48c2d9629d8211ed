-------------------------- MODULE WritingTestProofs --------------------------
(***************************************************************************)
(* Theorems about WritingTest, for any words and phrases: the suggestions  *)
(* are the most used words that fit, the text is what the words add up to, *)
(* and an attempt is scored with the edit distances of its two phrases.    *)
(***************************************************************************)
EXTENDS WritingTest, TLAPS, FiniteSetTheorems, SequenceTheorems,
        WellFoundedInduction

-----------------------------------------------------------------------------
\* A set of numbers from 1 to n that is not empty has a least member.
LEMMA LeastMember ==
    ASSUME NEW n \in Nat, NEW S \in SUBSET (1 .. n), S # {}
    PROVE  \E x \in S : \A y \in S : x <= y
<1> DEFINE below(m) == {u \in S : u <= m}
           T == {below(m) : m \in S}
           R == StrictSubsetOrdering(1 .. n)
<1>1. T \subseteq FiniteSubsetsOf(1 .. n) /\ T # {}
  <2>1. FiniteSubsetsOf(1 .. n) = SUBSET (1 .. n)
    <3>1. IsFiniteSet(1 .. n)
      BY FS_Interval
    <3>2. QED
      BY <3>1, FS_FiniteSubsetsOfFinite
  <2>2. \A m \in S : below(m) \in SUBSET (1 .. n)
    OBVIOUS
  <2>3. T \subseteq SUBSET (1 .. n)
    BY <2>2
  <2>4. T # {}
    OBVIOUS
  <2> HIDE DEF T
  <2>5. QED
    BY <2>1, <2>3, <2>4
<1>2. PICK M \in T : \A x \in T : ~(<<x, M>> \in R)
  <2>1. IsWellFoundedOn(R, FiniteSubsetsOf(1 .. n))
    BY FS_Interval, FS_StrictSubsetOrderingWellFounded
  <2> HIDE DEF T, R
  <2>2. QED
    BY <1>1, <2>1, WFMin
<1>3. PICK m \in S : M = below(m)
  BY <1>2
<1>4. ASSUME NEW u \in S, ~(m <= u) PROVE FALSE
  <2>1. u \in Nat /\ m \in Nat /\ S \subseteq Nat /\ u <= m
    BY <1>4
  <2>2. below(u) \subseteq M
    <3>1. \A v \in S : v <= u => v <= m
      BY <2>1
    <3>2. QED
      BY <1>3, <3>1
  <2>3. m \in M /\ m \notin below(u) /\ below(u) \in T
    BY <1>3, <1>4, <2>1
  <2>4. <<below(u), M>> \in R
    BY <1>3, <2>2, <2>3 DEF StrictSubsetOrdering
  <2>5. QED
    BY <1>2, <2>3, <2>4
<1>5. QED
  BY <1>4

\* The least of the places of some words.
LEMMA MinOfWords ==
    ASSUME NEW S \in SUBSET Words, S # {}
    PROVE  Min(S) \in S /\ \A y \in S : Min(S) <= y
<1>1. Words = 1 .. Len(all_words) /\ Len(all_words) \in Nat
  BY WordsAssumption DEF Words
<1>2. \E x \in S : \A y \in S : x <= y
  BY <1>1, LeastMember
<1>3. QED
  BY <1>2 DEF Min

\* A search keeps the suggestion or takes the next word that fits.
LEMMA SearchFinds ==
    ASSUME NEW i \in Words, NEW from \in 3 .. Len(all_words) + 1, NEW word
    PROVE  \/ /\ Search(i, from, word) = <<i, from>>
              /\ StartsWith(all_words[i], word) \/ Fitting(from, word) = {}
           \/ /\ ~StartsWith(all_words[i], word)
              /\ \E n \in Fitting(from, word) :
                    /\ Search(i, from, word) = <<n, n + 1>>
                    /\ \A k \in Fitting(from, word) : n <= k
<1>1. CASE StartsWith(all_words[i], word) \/ Fitting(from, word) = {}
  BY <1>1 DEF Search
<1>2. CASE ~(StartsWith(all_words[i], word) \/ Fitting(from, word) = {})
  <2> DEFINE n == Min(Fitting(from, word))
  <2>1. Fitting(from, word) \in SUBSET Words
    BY DEF Fitting
  <2>2. n \in Fitting(from, word) /\ \A k \in Fitting(from, word) : n <= k
    BY <1>2, <2>1, MinOfWords
  <2>3. Search(i, from, word) = <<n, n + 1>>
    BY <1>2 DEF Search
  <2> HIDE DEF n
  <2>4. QED
    BY <1>2, <2>2, <2>3
<1>3. QED
  BY <1>1, <1>2

-----------------------------------------------------------------------------
\* These two are all the words before from that fit, and they fit if any after
\* from does.
Covers(word, i, j, from) ==
    /\ i < from /\ j < from /\ i # j
    /\ \A k \in Fitting(1, word) : k < from => k \in {i, j}

Fit(word, i, j, from) ==
    Fitting(from, word) # {} => {i, j} \subseteq Fitting(1, word)

LEMMA OneSearch ==
    ASSUME NEW i \in Words, NEW j \in Words, NEW word,
           NEW from \in 3 .. Len(all_words) + 1, Covers(word, i, j, from)
    PROVE  \E n \in Words, f \in 3 .. Len(all_words) + 1 :
              /\ Search(i, from, word) = <<n, f>>
              /\ Covers(word, n, j, f) /\ f >= from
              /\ Fitting(f, word) # {} => n \in Fitting(1, word)
<1>1. CASE /\ Search(i, from, word) = <<i, from>>
           /\ StartsWith(all_words[i], word) \/ Fitting(from, word) = {}
  <2>1. Fitting(from, word) # {} => i \in Fitting(1, word)
    BY <1>1 DEF Fitting, Words
  <2>2. QED
    BY <1>1, <2>1
<1>2. CASE /\ ~StartsWith(all_words[i], word)
           /\ \E n \in Fitting(from, word) :
                 /\ Search(i, from, word) = <<n, n + 1>>
                 /\ \A k \in Fitting(from, word) : n <= k
  <2>1. PICK n \in Fitting(from, word) :
           /\ Search(i, from, word) = <<n, n + 1>>
           /\ \A k \in Fitting(from, word) : n <= k
    BY <1>2
  <2>2. /\ n \in Words /\ n \in Nat /\ from <= n /\ n \in Fitting(1, word)
        /\ n + 1 \in 3 .. Len(all_words) + 1
    BY WordsAssumption DEF Fitting, Words
  <2>3. ASSUME NEW k \in Fitting(1, word), k < n + 1 PROVE k \in {n, j}
    <3>1. k \in Nat /\ k # i
      BY <1>2 DEF Fitting, Words
    <3>2. CASE k < from
      BY <3>1, <3>2 DEF Covers
    <3>3. CASE from <= k
      <4>1. k \in Fitting(from, word)
        BY <3>3 DEF Fitting
      <4>2. n <= k
        BY <2>1, <4>1
      <4>3. QED
        BY <2>2, <2>3, <3>1, <4>2
    <3>4. QED
      BY <3>1, <3>2, <3>3
  <2>4. Covers(word, n, j, n + 1)
    BY <2>2, <2>3 DEF Covers, Words
  <2>5. QED
    BY <2>1, <2>2, <2>4
<1>3. QED
  BY <1>1, <1>2, SearchFinds

LEMMA AutoCompleteCovers ==
    ASSUME NEW i \in Words, NEW j \in Words, NEW word,
           NEW from \in 3 .. Len(all_words) + 1, Covers(word, i, j, from),
           autoComplete(word, i, j, from)
    PROVE  /\ first_word' \in Words /\ second_word' \in Words
           /\ last_index' \in 3 .. Len(all_words) + 1
           /\ Covers(word, first_word', second_word', last_index')
           /\ Fit(word, first_word', second_word', last_index')
<1>1. PICK n \in Words, f \in 3 .. Len(all_words) + 1 :
         /\ Search(i, from, word) = <<n, f>>
         /\ Covers(word, n, j, f)
         /\ Fitting(f, word) # {} => n \in Fitting(1, word)
  BY OneSearch
<1>2. Covers(word, j, n, f)
  BY <1>1 DEF Covers
<1>3. PICK p \in Words, g \in 3 .. Len(all_words) + 1 :
         /\ Search(j, f, word) = <<p, g>>
         /\ Covers(word, p, n, g) /\ g >= f
         /\ Fitting(g, word) # {} => p \in Fitting(1, word)
  BY <1>2, OneSearch
<1>4. first_word' = n /\ second_word' = p /\ last_index' = g
  BY <1>1, <1>3 DEF autoComplete
<1>5. Covers(word, n, p, g)
  BY <1>3 DEF Covers
<1>6. Fit(word, n, p, g)
  <2>1. Fitting(g, word) \subseteq Fitting(f, word)
    BY <1>3, WordsAssumption DEF Fitting, Words
  <2>2. QED
    BY <1>1, <1>3, <2>1 DEF Fit
<1>7. QED
  BY <1>4, <1>5, <1>6

-----------------------------------------------------------------------------
\* The inductive invariant.

IInv == /\ TypingTypeOK
        /\ Covers(current_word, first_word, second_word, last_index)
        /\ Fit(current_word, first_word, second_word, last_index)

\* At the start of a word every word fits, and the first two are suggested.
LEMMA FirstTwo ==
    ASSUME NEW word \in Word
    PROVE  /\ 1 \in Words /\ 2 \in Words /\ 3 \in 3 .. Len(all_words) + 1
           /\ Covers(word, 1, 2, 3)
           /\ word = << >> => Fit(word, 1, 2, 3)
<1>1. 1 \in Words /\ 2 \in Words /\ 3 \in 3 .. Len(all_words) + 1
  BY WordsAssumption DEF Words
<1>2. Covers(word, 1, 2, 3)
  BY DEF Covers, Fitting, Words
<1>3. word = << >> => Fit(word, 1, 2, 3)
  BY <1>1, WordsAssumption DEF Fit, Fitting, Words, StartsWith
<1>4. QED
  BY <1>1, <1>2, <1>3

LEMMA InitIInv == Init => IInv
<1> SUFFICES ASSUME Init PROVE IInv
  OBVIOUS
<1>1. << >> \in Word /\ << >> \in Text /\ << >> \in Seq(Word)
  BY DEF Word, Text
<1>2. first_word = 1 /\ second_word = 2 /\ last_index = 3
  BY DEF Init
<1>3. /\ currently_typed = << >> /\ current_word = << >> /\ words_typed = << >>
      /\ strayed = FALSE /\ click = NoKey
  BY DEF Init
<1>4. TypingTypeOK
  BY <1>1, <1>2, <1>3, FirstTwo DEF TypingTypeOK
<1>5. QED
  BY <1>1, <1>2, <1>3, <1>4, FirstTwo DEF IInv

\* A step that starts a new word with the first two suggestions.
LEMMA NewWord ==
    ASSUME IInv, currently_typed' \in Text, current_word' = << >>,
           words_typed' \in Seq(Word), resetAutoComplete,
           strayed' \in BOOLEAN, click' \in Keys \cup {NoKey}
    PROVE  IInv'
<1>1. current_word' \in Word
  BY DEF Word
<1>2. TypingTypeOK'
  BY <1>1, FirstTwo DEF TypingTypeOK, resetAutoComplete
<1>3. QED
  BY <1>1, <1>2, FirstTwo DEF IInv, resetAutoComplete

\* A step that leaves the word and its suggestions alone.
LEMMA SameTyping ==
    ASSUME IInv, UNCHANGED typing, click' \in Keys \cup {NoKey}
    PROVE  IInv'
BY DEF IInv, typing, suggestions, TypingTypeOK

LEMMA CompleteInv ==
    ASSUME IInv, NEW k \in Keys, NEW i \in Words, Complete(k, i)
    PROVE  IInv'
<1>1. all_words[i] \in Word
  BY WordsAssumption DEF Words
<1>2. words_typed' \in Seq(Word)
  BY <1>1 DEF Complete, IInv, TypingTypeOK
<1>3. currently_typed' \in Text
  <2> DEFINE n == Len(currently_typed) - Len(current_word)
  <2>1. currently_typed \in Text /\ current_word \in Word
    BY DEF IInv, TypingTypeOK
  <2>2. n \in Int /\ n <= Len(currently_typed)
    BY <2>1 DEF Text, Word
  <2>3. SubSeq(currently_typed, 1, n) \in Text
    BY <2>1, <2>2 DEF Text
  <2>4. all_words[i] \in Text /\ <<Space>> \in Text
    BY <1>1 DEF Text, Word
  <2>5. currently_typed' = SubSeq(currently_typed, 1, n) \o all_words[i] \o <<Space>>
    BY DEF Complete
  <2> HIDE DEF n
  <2>6. QED
    BY <2>3, <2>4, <2>5 DEF Text
<1>4. QED
  BY <1>2, <1>3, NewWord DEF Complete, Type, IInv, TypingTypeOK

LEMMA TypeNoLetterInv == IInv /\ TypeNoLetter => IInv'
<1> SUFFICES ASSUME IInv, TypeNoLetter PROVE IInv'
  OBVIOUS
<1>1. /\ first_word' \in Words /\ second_word' \in Words
      /\ last_index' \in 3 .. Len(all_words) + 1
      /\ Covers(current_word, first_word', second_word', last_index')
      /\ Fit(current_word, first_word', second_word', last_index')
  BY AutoCompleteCovers DEF TypeNoLetter, IInv, TypingTypeOK
<1>2. QED
  BY <1>1 DEF TypeNoLetter, Type, IInv, TypingTypeOK

LEMMA TypeLetterInv ==
    ASSUME IInv, NEW letter \in Letters, TypeLetter(letter)
    PROVE  IInv'
<1> DEFINE word == Append(current_word, letter)
<1>1. /\ current_word \in Word /\ word \in Word
      /\ currently_typed' \in Text
  BY DEF TypeLetter, IInv, TypingTypeOK, Word, Text
<1>2. Covers(word, first_word, second_word, last_index)
  <2>1. ASSUME NEW k \in Fitting(1, word) PROVE k \in Fitting(1, current_word)
    <3>1. Len(word) = Len(current_word) + 1
          /\ \A n \in 1 .. Len(current_word) : word[n] = current_word[n]
      BY <1>1 DEF Word
    <3>2. all_words[k] \in Word
      BY WordsAssumption DEF Fitting, Words
    <3> HIDE DEF word
    <3>3. StartsWith(all_words[k], current_word)
      BY <1>1, <3>1, <3>2 DEF Fitting, StartsWith, Word
    <3>4. QED
      BY <3>3 DEF Fitting
  <2>2. QED
    BY <2>1 DEF IInv, Covers
<1>3. autoComplete(word, first_word, second_word, last_index)
      /\ current_word' = word
  BY DEF TypeLetter
<1> HIDE DEF word
<1>4. /\ first_word' \in Words /\ second_word' \in Words
      /\ last_index' \in 3 .. Len(all_words) + 1
      /\ Covers(word, first_word', second_word', last_index')
      /\ Fit(word, first_word', second_word', last_index')
  BY <1>2, <1>3, AutoCompleteCovers DEF IInv, TypingTypeOK
<1>5. QED
  BY <1>1, <1>3, <1>4 DEF TypeLetter, Type, IInv, TypingTypeOK

LEMMA TypeSpaceInv == IInv /\ TypeSpace => IInv'
<1> SUFFICES ASSUME IInv, TypeSpace PROVE IInv'
  OBVIOUS
<1>1. currently_typed' \in Text /\ words_typed' \in Seq(Word)
  BY DEF TypeSpace, IInv, TypingTypeOK, Text
<1>2. QED
  BY <1>1, NewWord DEF TypeSpace, Type, IInv, TypingTypeOK

LEMMA DeleteInv == IInv /\ Delete => IInv'
<1> SUFFICES ASSUME IInv, Delete PROVE IInv'
  OBVIOUS
<1>1. currently_typed' \in Text
  BY DEF Delete, IInv, TypingTypeOK, Text, Front
<1>2. /\ current_word' \in Word /\ words_typed' \in Seq(Word)
      /\ strayed' \in BOOLEAN
  <2>1. CASE current_word # << >>
    <3>1. Front(current_word) \in Word
      BY <2>1 DEF IInv, TypingTypeOK, Word, Front
    <3>2. QED
      BY <2>1, <3>1 DEF Delete, IInv, TypingTypeOK
  <2>2. CASE current_word = << >>
    <3>1. words_typed # << >> =>
             Last(words_typed) \in Word /\ Front(words_typed) \in Seq(Word)
      BY DEF IInv, TypingTypeOK, Front, Last
    <3>2. QED
      BY <2>2, <3>1 DEF Delete, IInv, TypingTypeOK
  <2>3. QED
    BY <2>1, <2>2
<1>3. /\ first_word' \in Words /\ second_word' \in Words
      /\ last_index' \in 3 .. Len(all_words) + 1
      /\ Covers(current_word', first_word', second_word', last_index')
      /\ Fit(current_word', first_word', second_word', last_index')
  BY <1>2, FirstTwo, AutoCompleteCovers DEF Delete
<1>4. QED
  BY <1>1, <1>2, <1>3 DEF Delete, Type, IInv, TypingTypeOK

LEMMA NextIInv == IInv /\ [Next]_vars => IInv'
<1> SUFFICES ASSUME IInv, [Next]_vars PROVE IInv'
  OBVIOUS
<1>1. CASE \/ PressNothing \/ AcceptLastPhrase \/ ReleaseNothing
           \/ \E k \in Keys : PressKey(k)
  BY <1>1, SameTyping DEF PressNothing, AcceptLastPhrase, ReleaseNothing, PressKey
<1>2. CASE StartTest \/ windowResized \/ UNCHANGED vars
  BY <1>2, SameTyping DEF StartTest, windowResized, vars, IInv, TypingTypeOK
<1>3. CASE AcceptPhrase \/ startSecondAttempt
  <2>1. << >> \in Text /\ << >> \in Seq(Word)
    BY DEF Text
  <2>2. QED
    BY <1>3, <2>1, NewWord DEF AcceptPhrase, startSecondAttempt, IInv, TypingTypeOK
<1>4. CASE Complete("first", first_word) \/ Complete("second", second_word)
  BY <1>4, CompleteInv DEF IInv, TypingTypeOK, Keys
<1>5. CASE \/ TypeNoLetter \/ TypeSpace \/ Delete
           \/ \E letter \in Letters : TypeLetter(letter)
  BY <1>5, TypeNoLetterInv, TypeSpaceInv, DeleteInv, TypeLetterInv
<1>6. QED
  BY <1>1, <1>2, <1>3, <1>4, <1>5 DEF Next

-----------------------------------------------------------------------------
\* Of the words before last_index those that fit are the two suggestions.
THEOREM Inductive == Spec => []IInv
<1>1. QED
  BY InitIInv, NextIInv, PTL DEF Spec

\* The text, the word and the suggestions keep their types: the suggestions are
\* always words of the list.
THEOREM TypingTypeCorrect == Spec => []TypingTypeOK
<1>1. IInv => TypingTypeOK
  BY DEF IInv
<1>2. QED
  BY <1>1, Inductive, PTL

\* Whatever is typed, deleted and completed, the suggestions are the most used
\* words that fit (autoComplete, resetAutoComplete and mouseReleased).
THEOREM MostUsedAreSuggested == Spec => []SuggestsMostUsed
<1>1. IInv => SuggestsMostUsed
  <2> SUFFICES ASSUME IInv, NEW i \in Fitting(1, current_word),
                      i \notin {first_word, second_word}
               PROVE  /\ {first_word, second_word} \subseteq Fitting(1, current_word)
                      /\ first_word < i /\ second_word < i
                      /\ first_word # second_word
    BY DEF SuggestsMostUsed
  <2>1. i \in Nat /\ last_index \in Nat /\ first_word \in Nat /\ second_word \in Nat
    BY WordsAssumption DEF IInv, TypingTypeOK, Fitting, Words
  <2>2. last_index <= i
    BY <2>1 DEF IInv, Covers
  <2>3. i \in Fitting(last_index, current_word)
    BY <2>2 DEF Fitting
  <2>4. QED
    BY <2>1, <2>2, <2>3 DEF IInv, Covers, Fit
<1>2. QED
  BY <1>1, Inductive, PTL

-----------------------------------------------------------------------------
\* The text of some words.

\* f[i] is the first i texts of s, one after the other.
Flattens(f, s, n) ==
    \A i \in 1 .. n : f[i] = IF i = 1 THEN s[1] ELSE f[i-1] \o s[i]

LEMMA FlatteningExists ==
    ASSUME NEW T, NEW s \in Seq(Seq(T)), NEW n \in 1 .. Len(s)
    PROVE  \E f \in [1 .. n -> Seq(T)] : Flattens(f, s, n)
<1> DEFINE some(m) == \E f \in [1 .. m -> Seq(T)] : Flattens(f, s, m)
           bad == {m \in 1 .. n : ~some(m)}
<1> SUFFICES ASSUME bad # {} PROVE FALSE
  OBVIOUS
<1>1. PICK m \in bad : \A k \in bad : m <= k
  <2>1. n \in Nat /\ bad \in SUBSET (1 .. n)
    OBVIOUS
  <2> HIDE DEF bad
  <2>2. QED
    BY <2>1, LeastMember
<1>2. s[m] \in Seq(T)
  OBVIOUS
<1>3. CASE m = 1
  <2> DEFINE f == [i \in 1 .. 1 |-> s[1]]
  <2>1. f \in [1 .. m -> Seq(T)] /\ Flattens(f, s, m)
    BY <1>2, <1>3 DEF Flattens
  <2> HIDE DEF f
  <2>2. QED
    BY <2>1
<1>4. CASE m # 1
  <2>1. m \in 2 .. n /\ m - 1 \in 1 .. n /\ ~(m <= m - 1)
    BY <1>4
  <2>2. some(m - 1)
    BY <1>1, <2>1
  <2>3. PICK g \in [1 .. m - 1 -> Seq(T)] : Flattens(g, s, m - 1)
    BY <2>2
  <2> DEFINE f == [i \in 1 .. m |-> IF i = m THEN g[m-1] \o s[m] ELSE g[i]]
  <2>4. f \in [1 .. m -> Seq(T)]
    <3>1. m - 1 \in 1 .. m - 1 /\ \A i \in 1 .. m : i = m \/ i \in 1 .. m - 1
      BY <2>1
    <3>2. QED
      BY <1>2, <3>1
  <2>5. ASSUME NEW i \in 1 .. m
        PROVE  f[i] = IF i = 1 THEN s[1] ELSE f[i-1] \o s[i]
    <3>1. CASE i = m
      <4>1. i # 1 /\ i - 1 \in 1 .. m /\ i - 1 # m
        BY <2>1, <3>1
      <4>2. QED
        BY <3>1, <4>1
    <3>2. CASE i # m
      <4>1. i \in 1 .. m - 1 /\ (i # 1 => i - 1 \in 1 .. m /\ i - 1 # m)
        BY <2>1, <3>2
      <4>2. g[i] = IF i = 1 THEN s[1] ELSE g[i-1] \o s[i]
        BY <2>3, <4>1 DEF Flattens
      <4>3. QED
        BY <3>2, <4>1, <4>2
    <3>3. QED
      BY <3>1, <3>2
  <2>6. Flattens(f, s, m)
    BY <2>5 DEF Flattens
  <2> HIDE DEF f
  <2>7. QED
    BY <2>4, <2>6
<1>5. QED
  BY <1>3, <1>4

\* Two such functions agree.
LEMMA FlatteningUnique ==
    ASSUME NEW s, NEW n \in Nat, NEW f, Flattens(f, s, n),
           NEW g, Flattens(g, s, n), NEW i \in 1 .. n
    PROVE  f[i] = g[i]
<1> DEFINE bad == {m \in 1 .. n : f[m] # g[m]}
<1> SUFFICES ASSUME bad # {} PROVE FALSE
  OBVIOUS
<1>1. PICK m \in bad : \A k \in bad : m <= k
  <2>1. bad \in SUBSET (1 .. n)
    OBVIOUS
  <2> HIDE DEF bad
  <2>2. QED
    BY <2>1, LeastMember
<1>2. m = 1 \/ (m - 1 \in 1 .. n /\ ~(m <= m - 1))
  OBVIOUS
<1>3. m = 1 \/ f[m-1] = g[m-1]
  BY <1>1, <1>2
<1>4. QED
  BY <1>1, <1>3 DEF Flattens

LEMMA FlattenSeqIs ==
    ASSUME NEW T, NEW s \in Seq(Seq(T)), s # << >>,
           NEW f \in [1 .. Len(s) -> Seq(T)], Flattens(f, s, Len(s))
    PROVE  FlattenSeq(s) = f[Len(s)]
<1> DEFINE n == Len(s)
           step(g, i) == IF i = 1 THEN s[i] ELSE g[i-1] \o s[i]
           eq(g) == g = [i \in 1 .. n |-> step(g, i)]
           h == CHOOSE g : eq(g)
<1>1. n \in Nat /\ n # 0 /\ n \in 1 .. n
  OBVIOUS
<1>2. eq(f)
  <2>1. \A i \in 1 .. n : f[i] = step(f, i)
    BY DEF Flattens
  <2>2. f = [i \in 1 .. n |-> f[i]]
    OBVIOUS
  <2>3. QED
    BY <2>1, <2>2
<1>3. eq(h)
  BY <1>2
<1>4. Flattens(h, s, n)
  <2> HIDE DEF h, n
  <2>1. QED
    BY <1>3 DEF Flattens
<1>5. FlattenSeq(s) = h[n]
  BY <1>1 DEF FlattenSeq
<1> HIDE DEF h
<1>6. QED
  BY <1>1, <1>4, <1>5, FlatteningUnique

\* Flattening one text more adds it at the end.
LEMMA FlattenAppend ==
    ASSUME NEW T, NEW s \in Seq(Seq(T)), NEW x \in Seq(T)
    PROVE  /\ FlattenSeq(s) \in Seq(T)
           /\ FlattenSeq(Append(s, x)) = FlattenSeq(s) \o x
<1>1. PICK r \in Seq(Seq(T)) : r = Append(s, x)
  BY AppendProperties
<1>2. /\ Len(s) \in Nat /\ Len(r) = Len(s) + 1 /\ r # << >> /\ r[Len(s)+1] = x
      /\ Len(r) \in 1 .. Len(r) /\ \A i \in 1 .. Len(s) : r[i] = s[i]
  BY <1>1
<1>3. PICK f \in [1 .. Len(r) -> Seq(T)] : Flattens(f, r, Len(r))
  BY <1>2, FlatteningExists
<1>4. FlattenSeq(r) = f[Len(r)]
  BY <1>2, <1>3, FlattenSeqIs
<1>5. CASE s = << >>
  <2>1. FlattenSeq(s) = << >>
    BY <1>5 DEF FlattenSeq
  <2>2. Len(s) = 0 /\ Len(r) = 1 /\ r[1] = x
    BY <1>2, <1>5
  <2>3. f[1] = x
    BY <1>3, <2>2 DEF Flattens
  <2>4. QED
    BY <1>1, <1>4, <2>1, <2>2, <2>3
<1>6. CASE s # << >>
  <2> DEFINE n == Len(s)
             g == [i \in 1 .. n |-> f[i]]
  <2>1. n \in Nat \ {0} /\ Len(r) = n + 1
    BY <1>2, <1>6
  <2>2. g \in [1 .. n -> Seq(T)]
    BY <1>3, <2>1
  <2>3. Flattens(g, s, n)
    <3>1. ASSUME NEW i \in 1 .. n
          PROVE  g[i] = IF i = 1 THEN s[1] ELSE g[i-1] \o s[i]
      <4>1. i \in 1 .. Len(r) /\ (i # 1 => i - 1 \in 1 .. n)
        BY <2>1
      <4>2. f[i] = IF i = 1 THEN r[1] ELSE f[i-1] \o r[i]
        BY <1>3, <4>1 DEF Flattens
      <4>3. QED
        BY <1>2, <4>1, <4>2
    <3>2. QED
      BY <3>1 DEF Flattens
  <2>4. FlattenSeq(s) = g[n]
    <3> HIDE DEF g
    <3>1. QED
      BY <1>6, <2>2, <2>3, FlattenSeqIs
  <2>5. g[n] = f[n] /\ f[n] \in Seq(T)
    BY <2>1, <2>2
  <2>6. f[n + 1] = f[n] \o r[n + 1]
    <3>1. n + 1 \in 1 .. Len(r) /\ n + 1 # 1 /\ (n + 1) - 1 = n
      BY <2>1
    <3>2. QED
      BY <1>3, <3>1 DEF Flattens
  <2>7. QED
    BY <1>1, <1>2, <1>4, <2>1, <2>4, <2>5, <2>6
<1>7. QED
  BY <1>5, <1>6

LEMMA LastAdded ==
    ASSUME NEW T, NEW a \in Seq(T), NEW e \in T
    PROVE  Front(Append(a, e)) = a /\ Last(Append(a, e)) = e
BY DEF Front, Last

LEMMA FrontAndLast ==
    ASSUME NEW T, NEW a \in Seq(T), a # << >>
    PROVE  /\ Front(a) \in Seq(T) /\ Last(a) \in T
           /\ a = Append(Front(a), Last(a))
<1>1. PICK s \in Seq(T), e \in T : a = Append(s, e)
  BY SequenceEmptyOrAppend
<1>2. QED
  BY <1>1, LastAdded

LEMMA DropLast ==
    ASSUME NEW T, NEW a \in Seq(T), NEW b \in Seq(T)
    PROVE  SubSeq(a \o b, 1, Len(a \o b) - Len(b)) = a
<1>1. Len(a \o b) - Len(b) = Len(a) /\ a \o b \in Seq(T)
  OBVIOUS
<1>2. PICK c \in Seq(T) : c = SubSeq(a \o b, 1, Len(a))
  BY <1>1
<1>3. Len(c) = Len(a) /\ \A i \in 1 .. Len(a) : c[i] = a[i]
  BY <1>2
<1>4. c = a
  BY <1>3
<1>5. QED
  BY <1>1, <1>2, <1>4

\* The text of words and one more is the text of the words, that word and a space.
LEMMA JoinedAppend ==
    ASSUME NEW words \in Seq(Word), NEW word \in Word
    PROVE  /\ Joined(words) \in Text
           /\ Joined(Append(words, word)) = Joined(words) \o Append(word, Space)
<1> DEFINE spaced(ws) == [k \in DOMAIN ws |-> Append(ws[k], Space)]
           T == Letters \cup {Space}
<1>1. ASSUME NEW v \in Word PROVE Append(v, Space) \in Seq(T)
  BY DEF Word
<1>2. spaced(words) \in Seq(Seq(T)) /\ Append(word, Space) \in Seq(T)
  <2>1. \A k \in 1 .. Len(words) : Append(words[k], Space) \in Seq(T)
    BY <1>1
  <2>2. PICK S : S = Seq(T)
    OBVIOUS
  <2>3. Len(words) \in Nat /\ spaced(words) = [k \in 1 .. Len(words) |-> Append(words[k], Space)]
    OBVIOUS
  <2> HIDE DEF T, spaced
  <2>4. spaced(words) \in Seq(S)
    BY <2>1, <2>2, <2>3
  <2>5. QED
    BY <1>1, <2>2, <2>4
<1>3. spaced(Append(words, word)) = Append(spaced(words), Append(word, Space))
  <2>1. PICK ws : ws = Append(words, word) /\ ws \in Seq(Word)
    BY AppendProperties
  <2>2. PICK s : s = spaced(words)
    OBVIOUS
  <2>3. PICK x : x = Append(word, Space)
    OBVIOUS
  <2>0. s \in Seq(Seq(T)) /\ x \in Seq(T)
    BY <1>2, <2>2, <2>3
  <2>4. PICK r \in Seq(Seq(T)) : r = Append(s, x)
    BY <2>0, AppendProperties
  <2>12. Len(s) = Len(words) /\ \A k \in 1 .. Len(words) : s[k] = Append(words[k], Space)
    <3>1. s = [k \in 1 .. Len(words) |-> Append(words[k], Space)]
      BY <2>2
    <3>2. QED
      BY <3>1
  <2>5. /\ Len(ws) = Len(words) + 1 /\ Len(s) = Len(words) /\ Len(r) = Len(s) + 1
        /\ ws[Len(words) + 1] = word /\ \A k \in 1 .. Len(words) : ws[k] = words[k]
        /\ r[Len(s) + 1] = x /\ \A k \in 1 .. Len(s) : r[k] = s[k]
    BY <2>0, <2>1, <2>4, <2>12, AppendProperties
  <2>6. \A k \in 1 .. Len(ws) : r[k] = Append(ws[k], Space)
    <3>1. Len(words) \in Nat
      OBVIOUS
    <3>2. \A k \in 1 .. Len(ws) : k = Len(words) + 1 \/ k \in 1 .. Len(words)
      BY <2>5, <3>1
    <3>3. QED
      BY <2>3, <2>5, <2>12, <3>2
  <2>7. r = [k \in 1 .. Len(ws) |-> r[k]]
    <3>1. Len(r) = Len(ws)
      BY <2>5
    <3>2. r = [k \in 1 .. Len(r) |-> r[k]]
      OBVIOUS
    <3>3. QED
      BY <3>1, <3>2
  <2>8. r = spaced(ws)
    BY <2>6, <2>7
  <2> HIDE DEF spaced
  <2>9. QED
    BY <2>1, <2>2, <2>3, <2>4, <2>8
<1>4. \A ws : Joined(ws) = FlattenSeq(spaced(ws))
  BY DEF Joined
<1> HIDE DEF spaced
<1>5. QED
  BY <1>2, <1>3, <1>4, FlattenAppend DEF Text

\* No words, no text.
LEMMA JoinedEmpty == Joined(<< >>) = << >>
<1>1. [k \in DOMAIN << >> |-> Append(<< >>[k], Space)] = << >>
  OBVIOUS
<1>2. QED
  BY <1>1 DEF Joined, FlattenSeq

\* The text is that of the words and the word being typed: what TextAgrees says.
TextOf(text, words, word) == text = Joined(words) \o word

LEMMA WordText ==
    ASSUME NEW word \in Word
    PROVE  word \in Text /\ Append(word, Space) \in Text
BY DEF Word, Text

LEMMA TextAdded ==
    ASSUME NEW a \in Text, NEW b \in Text, NEW e \in Letters \cup {Space}
    PROVE  /\ a \o b \in Text
           /\ Append(a \o b, e) = a \o Append(b, e)
           /\ (a \o b) \o <<e>> = a \o Append(b, e)
<1>1. PICK T : T = Letters \cup {Space}
  OBVIOUS
<1>2. Text = Seq(T)
  BY <1>1 DEF Text
<1>3. a \in Seq(T) /\ b \in Seq(T) /\ e \in T
  BY <1>1, <1>2
<1>4. a \o b \in Seq(T)
  BY <1>3, ConcatProperties
<1>5. Append(a \o b, e) = (a \o b) \o <<e>> /\ Append(b, e) = b \o <<e>>
  BY <1>3, <1>4, AppendIsConcat
<1>6. (a \o b) \o <<e>> = a \o (b \o <<e>>)
  BY <1>3, ConcatAssociative
<1>7. QED
  BY <1>2, <1>4, <1>5, <1>6

LEMMA TextFront ==
    ASSUME NEW a \in Text, NEW e \in Letters \cup {Space}
    PROVE  Front(Append(a, e)) = a
BY LastAdded DEF Text

\* Each step keeps the text that of the words, unless a space is deleted and its
\* word kept, which stays so until the phrase ends.
LEMMA NextText == IInv /\ IInv' /\ TextAgrees /\ [Next]_vars => TextAgrees'
<1> SUFFICES ASSUME IInv, IInv', TextAgrees, [Next]_vars, ~strayed'
             PROVE  TextOf(currently_typed', words_typed', current_word')
  BY DEF TextAgrees, TextOf
<1>0. PICK T : Text = Seq(T) /\ T = Letters \cup {Space}
  BY DEF Text
<1>1. /\ words_typed \in Seq(Word) /\ current_word \in Word /\ currently_typed \in Text
      /\ current_word \in Text /\ Joined(words_typed) \in Text
      /\ Space \in Letters \cup {Space}
  BY WordText, JoinedAppend DEF IInv, TypingTypeOK, Word
<1>2. CASE UNCHANGED typing
  BY <1>2 DEF TextAgrees, TextOf, typing
<1>3. CASE currently_typed' = << >> /\ words_typed' = << >> /\ current_word' = << >>
  BY <1>3, JoinedEmpty DEF TextOf
<1>4. ASSUME NEW k, NEW i \in Words, Complete(k, i)
      PROVE  TextOf(currently_typed', words_typed', current_word')
  <2>1. ~strayed
    BY <1>4 DEF Complete
  <2>2. PICK J : J = Joined(words_typed)
    OBVIOUS
  <2>3. currently_typed = J \o current_word
    BY <2>1, <2>2 DEF TextAgrees
  <2>4. SubSeq(currently_typed, 1, Len(currently_typed) - Len(current_word)) = J
    BY <1>0, <1>1, <2>2, <2>3, DropLast
  <2>5. all_words[i] \in Word /\ all_words[i] \in Text
    BY WordsAssumption, WordText DEF Words
  <2>6. currently_typed' = (J \o all_words[i]) \o <<Space>>
    BY <1>4, <2>4 DEF Complete
  <2>7. currently_typed' = J \o Append(all_words[i], Space)
    BY <1>0, <1>1, <2>2, <2>5, <2>6, TextAdded
  <2>8. Joined(words_typed') = J \o Append(all_words[i], Space) /\ current_word' = << >>
    BY <1>1, <1>4, <2>2, <2>5, JoinedAppend DEF Complete
  <2>9. QED
    BY <2>7, <2>8 DEF TextOf, IInv, TypingTypeOK, Text
<1>5. CASE TypeNoLetter
  <2>1. /\ UNCHANGED <<currently_typed, current_word, words_typed, strayed>>
    BY <1>5 DEF TypeNoLetter
  <2>2. QED
    BY <2>1 DEF TextAgrees, TextOf
<1>6. ASSUME NEW letter \in Letters, TypeLetter(letter)
      PROVE  TextOf(currently_typed', words_typed', current_word')
  <2>1. ~strayed /\ words_typed' = words_typed
        /\ currently_typed' = Append(currently_typed, letter)
        /\ current_word' = Append(current_word, letter)
    BY <1>6 DEF TypeLetter
  <2>2. PICK J : J = Joined(words_typed)
    OBVIOUS
  <2>3. currently_typed = J \o current_word
    BY <2>1, <2>2 DEF TextAgrees
  <2>4. Append(J \o current_word, letter) = J \o Append(current_word, letter)
    <3>1. letter \in Letters \cup {Space}
      OBVIOUS
    <3>2. QED
      BY <1>1, <2>2, <3>1, TextAdded
  <2>5. QED
    BY <2>1, <2>2, <2>3, <2>4 DEF TextOf
<1>7. CASE TypeSpace
  <2>1. ~strayed /\ words_typed' = Append(words_typed, current_word)
        /\ currently_typed' = Append(currently_typed, Space) /\ current_word' = << >>
    BY <1>7 DEF TypeSpace
  <2>2. PICK J : J = Joined(words_typed)
    OBVIOUS
  <2>3. currently_typed = J \o current_word
    BY <2>1, <2>2 DEF TextAgrees
  <2>4. Append(J \o current_word, Space) = J \o Append(current_word, Space)
    BY <1>1, <2>2, TextAdded
  <2>5. Joined(words_typed') = J \o Append(current_word, Space)
    BY <1>1, <2>1, <2>2, JoinedAppend
  <2>6. QED
    BY <2>1, <2>3, <2>4, <2>5 DEF TextOf, IInv, TypingTypeOK, Text
<1>8. CASE Delete
  <2>1. /\ ~strayed /\ currently_typed' = Front(currently_typed)
        /\ \/ /\ current_word # << >> /\ current_word' = Front(current_word)
              /\ words_typed' = words_typed
           \/ /\ current_word = << >> /\ words_typed # << >>
              /\ current_word' = Last(words_typed) /\ words_typed' = Front(words_typed)
    BY <1>8 DEF Delete
  <2>2. PICK J : J = Joined(words_typed)
    OBVIOUS
  <2>3. currently_typed = J \o current_word
    BY <2>1, <2>2 DEF TextAgrees
  <2>4. CASE current_word # << >>
    <3>1. PICK w, e : w = Front(current_word) /\ e = Last(current_word)
      OBVIOUS
    <3>2. /\ w \in Text /\ e \in Letters \cup {Space}
          /\ current_word = Append(w, e)
      BY <1>0, <1>1, <2>4, <3>1, FrontAndLast
    <3>3. /\ J \o Append(w, e) = Append(J \o w, e) /\ J \o w \in Text
      BY <1>0, <1>1, <2>2, <3>2, TextAdded
    <3>4. Front(currently_typed) = J \o w
      BY <2>3, <3>2, <3>3, TextFront
    <3>5. QED
      BY <2>1, <2>2, <2>4, <3>1, <3>4 DEF TextOf
  <2>5. CASE current_word = << >>
    <3>1. PICK ws, w : ws = Front(words_typed) /\ w = Last(words_typed)
      OBVIOUS
    <3>2. ws \in Seq(Word) /\ w \in Word /\ words_typed = Append(ws, w)
      BY <1>1, <2>1, <2>5, <3>1, FrontAndLast
    <3>3. PICK K : K = Joined(ws)
      OBVIOUS
    <3>4. K \in Text /\ w \in Text /\ J = K \o Append(w, Space)
      BY <2>2, <3>2, <3>3, JoinedAppend, WordText
    <3>5. K \o Append(w, Space) = Append(K \o w, Space) /\ K \o w \in Text
      BY <1>0, <1>1, <3>4, TextAdded
    <3>6. currently_typed = J
      BY <1>1, <2>2, <2>3, <2>5 DEF Text
    <3>7. Front(currently_typed) = K \o w
      BY <1>1, <3>4, <3>5, <3>6, TextFront
    <3>8. QED
      BY <2>1, <2>5, <3>1, <3>3, <3>7 DEF TextOf
  <2>6. QED
    BY <2>4, <2>5
<1>9. CASE \/ PressNothing \/ AcceptLastPhrase \/ ReleaseNothing \/ StartTest
           \/ windowResized \/ UNCHANGED vars \/ \E k \in Keys : PressKey(k)
  BY <1>2, <1>9 DEF PressNothing, AcceptLastPhrase, ReleaseNothing, PressKey,
     StartTest, windowResized, vars
<1>10. CASE AcceptPhrase \/ startSecondAttempt
  BY <1>3, <1>10 DEF AcceptPhrase, startSecondAttempt
<1>11. CASE Complete("first", first_word) \/ Complete("second", second_word)
  BY <1>4, <1>11 DEF IInv, TypingTypeOK
<1>12. QED
  BY <1>5, <1>6, <1>7, <1>8, <1>9, <1>10, <1>11 DEF Next

\* The text shown is what the words add up to, whatever is typed, completed and
\* deleted (mouseReleased), until a space is deleted and its word kept.
THEOREM TextIsThatOfWords == Spec => []TextAgrees
<1>1. Init => TextAgrees
  BY JoinedEmpty DEF Init, TextAgrees
<1>2. IInv /\ TextAgrees /\ [Next]_vars => TextAgrees'
  BY NextIInv, NextText
<1>3. QED
  BY <1>1, <1>2, Inductive, PTL DEF Spec

-----------------------------------------------------------------------------
\* The errors of a phrase.

\* A matching of the first i places of a with the first j of b, and what it
\* costs: the places outside it, and those inside it that differ.
InOrder(M) ==
    \A p, q \in M : p # q => (p[1] < q[1] <=> p[2] < q[2])
                             /\ p[1] # q[1] /\ p[2] # q[2]

Matchings(i, j) == {M \in SUBSET ((1 .. i) \X (1 .. j)) : InOrder(M)}

Unlike(a, b, M) == {p \in M : a[p[1]] # b[p[2]]}

CostOf(a, b, M, i, j) ==
    i + j - 2 * Cardinality(M) + Cardinality(Unlike(a, b, M))

Least(a, b, i, j) == Min({CostOf(a, b, M, i, j) : M \in Matchings(i, j)})

LEMMA MatchingsFinite ==
    ASSUME NEW i \in Nat, NEW j \in Nat, NEW M \in Matchings(i, j),
           NEW a, NEW b
    PROVE  /\ IsFiniteSet(M) /\ IsFiniteSet(Unlike(a, b, M))
           /\ Cardinality(M) \in Nat /\ Cardinality(Unlike(a, b, M)) \in Nat
           /\ Cardinality(Unlike(a, b, M)) <= Cardinality(M)
           /\ Cardinality((1 .. i) \X (1 .. j)) \in Nat
           /\ Cardinality(M) <= Cardinality((1 .. i) \X (1 .. j))
           /\ CostOf(a, b, M, i, j) \in Int
<1> DEFINE P == (1 .. i) \X (1 .. j)
<1>1. IsFiniteSet(P)
  <2>1. IsFiniteSet(1 .. i) /\ IsFiniteSet(1 .. j)
    BY FS_Interval
  <2>2. QED
    BY <2>1, FS_Product
<1>2. M \in SUBSET P
  BY DEF Matchings
<1> HIDE DEF P
<1>3. IsFiniteSet(M) /\ Cardinality(M) <= Cardinality(P)
  BY <1>1, <1>2, FS_Subset
<1>4. Unlike(a, b, M) \in SUBSET M
  BY DEF Unlike
<1>5. IsFiniteSet(Unlike(a, b, M))
      /\ Cardinality(Unlike(a, b, M)) <= Cardinality(M)
  BY <1>3, <1>4, FS_Subset
<1>6. /\ Cardinality(P) \in Nat /\ Cardinality(M) \in Nat
      /\ Cardinality(Unlike(a, b, M)) \in Nat
  BY <1>1, <1>3, <1>5, FS_CardinalityType
<1>7. CostOf(a, b, M, i, j) \in Int
  BY <1>6 DEF CostOf
<1>8. QED
  BY <1>3, <1>5, <1>6, <1>7 DEF P

\* There is a cheapest matching.
LEMMA LeastCost ==
    ASSUME NEW i \in Nat, NEW j \in Nat, NEW a, NEW b
    PROVE  /\ Least(a, b, i, j) \in Int
           /\ \E M \in Matchings(i, j) : Least(a, b, i, j) = CostOf(a, b, M, i, j)
           /\ \A M \in Matchings(i, j) : Least(a, b, i, j) <= CostOf(a, b, M, i, j)
<1> DEFINE cost(M) == CostOf(a, b, M, i, j)
           costs == {cost(M) : M \in Matchings(i, j)}
           K == Cardinality((1 .. i) \X (1 .. j))
           n == i + j + 2 * K + 1
           raised == {c + 2 * K + 1 : c \in costs}
<1>1. {} \in Matchings(i, j)
  BY DEF Matchings, InOrder
<1>2. K \in Nat
  BY <1>1, MatchingsFinite
<1>3. ASSUME NEW M \in Matchings(i, j)
      PROVE  cost(M) \in Int /\ cost(M) + 2 * K + 1 \in 1 .. n
  <2>1. /\ Cardinality(M) \in Nat /\ Cardinality(Unlike(a, b, M)) \in Nat
        /\ Cardinality(Unlike(a, b, M)) <= Cardinality(M)
        /\ Cardinality(M) <= K
    BY MatchingsFinite
  <2> HIDE DEF K
  <2>2. QED
    BY <1>2, <2>1 DEF CostOf
<1> HIDE DEF K, cost
<1>4. n \in Nat /\ raised \in SUBSET (1 .. n) /\ raised # {}
  BY <1>1, <1>2, <1>3
<1>5. \E x \in raised : \A y \in raised : x <= y
  <2> HIDE DEF n, raised
  <2>1. QED
    BY <1>4, LeastMember
<1>6. PICK x \in costs : \A y \in costs : x + 2 * K + 1 <= y + 2 * K + 1
  BY <1>5
<1>7. costs \subseteq Int
  BY <1>3
<1>8. x \in costs /\ \A y \in costs : x <= y
  <2> HIDE DEF costs
  <2>1. ASSUME NEW y \in costs PROVE x <= y
    <3>1. x \in Int /\ y \in Int /\ x + 2 * K + 1 <= y + 2 * K + 1
      BY <1>6, <1>7
    <3>2. QED
      BY <1>2, <3>1
  <2>2. QED
    BY <2>1
<1>9. Min(costs) \in costs /\ \A y \in costs : Min(costs) <= y
  <2> HIDE DEF costs
  <2>1. QED
    BY <1>8 DEF Min
<1>10. Least(a, b, i, j) = Min(costs)
  BY DEF Least, cost
<1>11. QED
  BY <1>7, <1>9, <1>10 DEF cost

\* A matching that does not use the last place of one of the texts.
LEMMA ShorterFirst ==
    ASSUME NEW i \in Nat \ {0}, NEW j \in Nat, NEW a, NEW b,
           NEW M \in Matchings(i, j), \A p \in M : p[1] # i
    PROVE  /\ M \in Matchings(i - 1, j)
           /\ CostOf(a, b, M, i, j) = CostOf(a, b, M, i - 1, j) + 1
<1>1. M \in Matchings(i - 1, j)
  <2>1. \A k \in 1 .. i : k # i => k \in 1 .. i - 1
    OBVIOUS
  <2>2. \A p \in M : p \in (1 .. i) \X (1 .. j)
    BY DEF Matchings
  <2>3. \A p \in M : p \in (1 .. i - 1) \X (1 .. j)
    BY <2>1, <2>2
  <2>4. QED
    BY <2>3 DEF Matchings
<1>2. Cardinality(M) \in Nat /\ Cardinality(Unlike(a, b, M)) \in Nat
  BY MatchingsFinite
<1>3. QED
  BY <1>1, <1>2 DEF CostOf

LEMMA ShorterSecond ==
    ASSUME NEW i \in Nat, NEW j \in Nat \ {0}, NEW a, NEW b,
           NEW M \in Matchings(i, j), \A p \in M : p[2] # j
    PROVE  /\ M \in Matchings(i, j - 1)
           /\ CostOf(a, b, M, i, j) = CostOf(a, b, M, i, j - 1) + 1
<1>1. M \in Matchings(i, j - 1)
  <2>1. \A k \in 1 .. j : k # j => k \in 1 .. j - 1
    OBVIOUS
  <2>2. \A p \in M : p \in (1 .. i) \X (1 .. j)
    BY DEF Matchings
  <2>3. \A p \in M : p \in (1 .. i) \X (1 .. j - 1)
    BY <2>1, <2>2
  <2>4. QED
    BY <2>3 DEF Matchings
<1>2. Cardinality(M) \in Nat /\ Cardinality(Unlike(a, b, M)) \in Nat
  BY MatchingsFinite
<1>3. QED
  BY <1>1, <1>2 DEF CostOf

LEMMA WiderFirst ==
    ASSUME NEW i \in Nat \ {0}, NEW j \in Nat, NEW a, NEW b,
           NEW M \in Matchings(i - 1, j)
    PROVE  /\ M \in Matchings(i, j)
           /\ CostOf(a, b, M, i, j) = CostOf(a, b, M, i - 1, j) + 1
<1>1. M \in Matchings(i, j) /\ \A p \in M : p[1] # i
  BY DEF Matchings
<1>2. QED
  BY <1>1, ShorterFirst

LEMMA WiderSecond ==
    ASSUME NEW i \in Nat, NEW j \in Nat \ {0}, NEW a, NEW b,
           NEW M \in Matchings(i, j - 1)
    PROVE  /\ M \in Matchings(i, j)
           /\ CostOf(a, b, M, i, j) = CostOf(a, b, M, i, j - 1) + 1
<1>1. M \in Matchings(i, j) /\ \A p \in M : p[2] # j
  BY DEF Matchings
<1>2. QED
  BY <1>1, ShorterSecond

Change(a, b, i, j) == IF a[i] = b[j] THEN 0 ELSE 1

\* Both last places, matched with each other or not at all.
LEMMA LastPair ==
    ASSUME NEW i \in Nat \ {0}, NEW j \in Nat \ {0}, NEW M \in Matchings(i, j),
           NEW p \in M, p[1] = i, NEW q \in M, q[2] = j
    PROVE  <<i, j>> \in M
<1>1. \A r \in M : /\ r = <<r[1], r[2]>> /\ r[1] \in Nat /\ r[2] \in Nat
                   /\ r[1] <= i /\ r[2] <= j
  BY DEF Matchings
<1>2. p = q
  <2> SUFFICES ASSUME p # q PROVE FALSE
    OBVIOUS
  <2>1. (q[1] < p[1] <=> q[2] < p[2]) /\ p[1] # q[1] /\ p[2] # q[2]
    BY DEF Matchings, InOrder
  <2>2. q[1] < p[1] /\ ~(q[2] < p[2])
    BY <1>1, <2>1
  <2>3. QED
    BY <2>1, <2>2
<1>3. QED
  BY <1>1, <1>2

\* Both last places matched with each other, beside a matching of the others.
LEMMA AddPair ==
    ASSUME NEW i \in Nat \ {0}, NEW j \in Nat \ {0}, NEW a, NEW b,
           NEW M \in Matchings(i - 1, j - 1)
    PROVE  /\ M \cup {<<i, j>>} \in Matchings(i, j)
           /\ CostOf(a, b, M \cup {<<i, j>>}, i, j)
                = CostOf(a, b, M, i - 1, j - 1) + Change(a, b, i, j)
<1> DEFINE last == <<i, j>>
           N == M \cup {last}
<1>1. \A p \in M : /\ p \in (1 .. i) \X (1 .. j) /\ p[1] \in Nat /\ p[2] \in Nat
                   /\ p[1] < i /\ p[2] < j
  BY DEF Matchings
<1>2. last \in (1 .. i) \X (1 .. j) /\ last[1] = i /\ last[2] = j
  OBVIOUS
<1>3. last \notin M
  BY <1>1, <1>2
<1>4. InOrder(M)
  BY DEF Matchings
<1>5. N \in Matchings(i, j)
  <2> HIDE DEF last
  <2>1. ASSUME NEW p \in N, NEW q \in N, p # q
        PROVE  (p[1] < q[1] <=> p[2] < q[2]) /\ p[1] # q[1] /\ p[2] # q[2]
    <3>1. CASE p \in M /\ q \in M
      BY <1>4, <2>1, <3>1 DEF InOrder
    <3>2. CASE p = last /\ q \in M
      BY <1>1, <1>2, <3>2
    <3>3. CASE p \in M /\ q = last
      BY <1>1, <1>2, <3>3
    <3>4. QED
      BY <2>1, <3>1, <3>2, <3>3
  <2>2. N \in SUBSET ((1 .. i) \X (1 .. j))
    BY <1>1, <1>2
  <2>3. QED
    BY <2>1, <2>2 DEF Matchings, InOrder
<1>6. /\ IsFiniteSet(M) /\ IsFiniteSet(Unlike(a, b, M))
      /\ Cardinality(M) \in Nat /\ Cardinality(Unlike(a, b, M)) \in Nat
  <2>1. i - 1 \in Nat /\ j - 1 \in Nat
    OBVIOUS
  <2>2. QED
    BY <2>1, MatchingsFinite
<1> HIDE DEF last
<1>7. Cardinality(N) = Cardinality(M) + 1
  BY <1>3, <1>6, FS_AddElement
<1>8. Cardinality(Unlike(a, b, N)) = Cardinality(Unlike(a, b, M)) + Change(a, b, i, j)
  <2>1. last \notin Unlike(a, b, M)
    BY <1>3 DEF Unlike
  <2>2. CASE a[i] = b[j]
    <3>1. Unlike(a, b, N) = Unlike(a, b, M)
      BY <1>2, <2>2 DEF Unlike
    <3>2. QED
      BY <1>6, <2>2, <3>1 DEF Change
  <2>3. CASE a[i] # b[j]
    <3>1. Unlike(a, b, N) = Unlike(a, b, M) \cup {last}
      BY <1>2, <2>3 DEF Unlike
    <3>2. Cardinality(Unlike(a, b, M) \cup {last}) = Cardinality(Unlike(a, b, M)) + 1
      BY <1>6, <2>1, FS_AddElement
    <3>3. QED
      BY <2>3, <3>1, <3>2 DEF Change
  <2>4. QED
    BY <2>2, <2>3
<1>9. CostOf(a, b, N, i, j) = CostOf(a, b, M, i - 1, j - 1) + Change(a, b, i, j)
  <2>1. Change(a, b, i, j) \in Int
    BY DEF Change
  <2> HIDE DEF N
  <2>2. QED
    BY <1>6, <1>7, <1>8, <2>1 DEF CostOf
<1>10. QED
  BY <1>5, <1>9 DEF last

LEMMA RemovePair ==
    ASSUME NEW i \in Nat \ {0}, NEW j \in Nat \ {0}, NEW a, NEW b,
           NEW M \in Matchings(i, j), <<i, j>> \in M
    PROVE  \E N \in Matchings(i - 1, j - 1) :
              CostOf(a, b, M, i, j)
                = CostOf(a, b, N, i - 1, j - 1) + Change(a, b, i, j)
<1> DEFINE last == <<i, j>>
           N == M \ {last}
<1>1. ASSUME NEW p \in N
      PROVE  p \in (1 .. i - 1) \X (1 .. j - 1)
  <2>1. p \in (1 .. i) \X (1 .. j) /\ p # last
    BY DEF Matchings
  <2>2. p[1] # i /\ p[2] # j
    BY <2>1 DEF Matchings, InOrder
  <2>3. \A k \in 1 .. i : k # i => k \in 1 .. i - 1
    OBVIOUS
  <2>4. \A k \in 1 .. j : k # j => k \in 1 .. j - 1
    OBVIOUS
  <2>5. QED
    BY <2>1, <2>2, <2>3, <2>4
<1>2. InOrder(N)
  BY DEF Matchings, InOrder
<1>3. N \in Matchings(i - 1, j - 1)
  <2> HIDE DEF N
  <2>1. N \in SUBSET ((1 .. i - 1) \X (1 .. j - 1))
    BY <1>1
  <2>2. QED
    BY <1>2, <2>1 DEF Matchings
<1>4. M = N \cup {last}
  OBVIOUS
<1> HIDE DEF N
<1>5. CostOf(a, b, N \cup {<<i, j>>}, i, j)
        = CostOf(a, b, N, i - 1, j - 1) + Change(a, b, i, j)
  BY <1>3, AddPair
<1>6. QED
  BY <1>3, <1>4, <1>5

LEMMA MinOfThree ==
    ASSUME NEW x \in Int, NEW y \in Int, NEW z \in Int
    PROVE  /\ Min({x, y, z}) \in {x, y, z}
           /\ Min({x, y, z}) <= x /\ Min({x, y, z}) <= y /\ Min({x, y, z}) <= z
<1>1. \E m \in {x, y, z} : m <= x /\ m <= y /\ m <= z
  OBVIOUS
<1>2. \E m \in {x, y, z} : \A w \in {x, y, z} : m <= w
  BY <1>1
<1>3. QED
  BY <1>2 DEF Min

\* The cost of the cheapest matching follows the recursion of the code.
LEMMA LeastOfEmptyFirst ==
    ASSUME NEW j \in Nat, NEW a, NEW b
    PROVE  Least(a, b, 0, j) = j
<1>1. \A M \in Matchings(0, j) : M = {}
  BY DEF Matchings
<1>2. PICK M \in Matchings(0, j) : Least(a, b, 0, j) = CostOf(a, b, M, 0, j)
  BY LeastCost
<1>3. M = {} /\ Unlike(a, b, M) = {}
  BY <1>1 DEF Unlike
<1>4. QED
  BY <1>2, <1>3, FS_EmptySet DEF CostOf

LEMMA LeastOfEmptySecond ==
    ASSUME NEW i \in Nat, NEW a, NEW b
    PROVE  Least(a, b, i, 0) = i
<1>1. \A M \in Matchings(i, 0) : M = {}
  BY DEF Matchings
<1>2. PICK M \in Matchings(i, 0) : Least(a, b, i, 0) = CostOf(a, b, M, i, 0)
  BY LeastCost
<1>3. M = {} /\ Unlike(a, b, M) = {}
  BY <1>1 DEF Unlike
<1>4. QED
  BY <1>2, <1>3, FS_EmptySet DEF CostOf

LEMMA LeastStep ==
    ASSUME NEW i \in Nat \ {0}, NEW j \in Nat \ {0}, NEW a, NEW b
    PROVE  Least(a, b, i, j)
             = Min({Least(a, b, i - 1, j) + 1, Least(a, b, i, j - 1) + 1,
                    Least(a, b, i - 1, j - 1) + Change(a, b, i, j)})
<1> DEFINE x == Least(a, b, i - 1, j) + 1
           y == Least(a, b, i, j - 1) + 1
           z == Least(a, b, i - 1, j - 1) + Change(a, b, i, j)
           l == Least(a, b, i, j)
<1>0. i - 1 \in Nat /\ j - 1 \in Nat
  OBVIOUS
<1>1. x \in Int /\ y \in Int /\ z \in Int /\ l \in Int
  <2>1. /\ Least(a, b, i - 1, j) \in Int /\ Least(a, b, i, j - 1) \in Int
        /\ Least(a, b, i - 1, j - 1) \in Int /\ l \in Int
    BY <1>0, LeastCost
  <2>2. Change(a, b, i, j) \in Int
    BY DEF Change
  <2>3. QED
    BY <2>1, <2>2
<1>2. l <= x
  <2>1. PICK M \in Matchings(i - 1, j) :
           Least(a, b, i - 1, j) = CostOf(a, b, M, i - 1, j)
    BY <1>0, LeastCost
  <2>2. M \in Matchings(i, j) /\ CostOf(a, b, M, i, j) = x
    BY <2>1, WiderFirst
  <2>3. QED
    BY <2>2, LeastCost
<1>3. l <= y
  <2>1. PICK M \in Matchings(i, j - 1) :
           Least(a, b, i, j - 1) = CostOf(a, b, M, i, j - 1)
    BY <1>0, LeastCost
  <2>2. M \in Matchings(i, j) /\ CostOf(a, b, M, i, j) = y
    BY <2>1, WiderSecond
  <2>3. QED
    BY <2>2, LeastCost
<1>4. l <= z
  <2>1. PICK M \in Matchings(i - 1, j - 1) :
           Least(a, b, i - 1, j - 1) = CostOf(a, b, M, i - 1, j - 1)
    BY <1>0, LeastCost
  <2>2. /\ M \cup {<<i, j>>} \in Matchings(i, j)
        /\ CostOf(a, b, M \cup {<<i, j>>}, i, j) = z
    BY <2>1, AddPair
  <2>3. QED
    BY <2>2, LeastCost
<1>5. x <= l \/ y <= l \/ z <= l
  <2>1. PICK M \in Matchings(i, j) : l = CostOf(a, b, M, i, j)
    BY LeastCost
  <2>2. CASE \A p \in M : p[1] # i
    <3>1. M \in Matchings(i - 1, j) /\ l = CostOf(a, b, M, i - 1, j) + 1
      BY <2>1, <2>2, ShorterFirst
    <3>2. Least(a, b, i - 1, j) <= CostOf(a, b, M, i - 1, j)
      BY <1>0, <3>1, LeastCost
    <3>3. CostOf(a, b, M, i - 1, j) \in Int /\ Least(a, b, i - 1, j) \in Int
      BY <1>0, <3>1, MatchingsFinite, LeastCost
    <3>4. QED
      BY <3>1, <3>2, <3>3
  <2>3. CASE \A p \in M : p[2] # j
    <3>1. M \in Matchings(i, j - 1) /\ l = CostOf(a, b, M, i, j - 1) + 1
      BY <2>1, <2>3, ShorterSecond
    <3>2. Least(a, b, i, j - 1) <= CostOf(a, b, M, i, j - 1)
      BY <1>0, <3>1, LeastCost
    <3>3. CostOf(a, b, M, i, j - 1) \in Int /\ Least(a, b, i, j - 1) \in Int
      BY <1>0, <3>1, MatchingsFinite, LeastCost
    <3>4. QED
      BY <3>1, <3>2, <3>3
  <2>4. CASE (\E p \in M : p[1] = i) /\ (\E q \in M : q[2] = j)
    <3>1. <<i, j>> \in M
      BY <2>4, LastPair
    <3>2. PICK N \in Matchings(i - 1, j - 1) :
             l = CostOf(a, b, N, i - 1, j - 1) + Change(a, b, i, j)
      BY <2>1, <3>1, RemovePair
    <3>3. Least(a, b, i - 1, j - 1) <= CostOf(a, b, N, i - 1, j - 1)
      BY <1>0, LeastCost
    <3>4. /\ CostOf(a, b, N, i - 1, j - 1) \in Int
          /\ Least(a, b, i - 1, j - 1) \in Int
      BY <1>0, MatchingsFinite, LeastCost
    <3>5. Change(a, b, i, j) \in Int
      BY DEF Change
    <3>6. QED
      BY <3>2, <3>3, <3>4, <3>5
  <2>5. QED
    BY <2>2, <2>3, <2>4
<1> HIDE DEF x, y, z, l
<1>6. /\ Min({x, y, z}) \in {x, y, z}
      /\ Min({x, y, z}) <= x /\ Min({x, y, z}) <= y /\ Min({x, y, z}) <= z
  BY <1>1, MinOfThree
<1>7. l = Min({x, y, z})
  BY <1>1, <1>2, <1>3, <1>4, <1>5, <1>6
<1>8. QED
  BY <1>7 DEF x, y, z, l

LEMMA LeastIsNat ==
    ASSUME NEW a, NEW b, NEW i0 \in Nat, NEW j0 \in Nat
    PROVE  Least(a, b, i0, j0) \in Nat
<1> SUFFICES ASSUME Least(a, b, i0, j0) \notin Nat PROVE FALSE
  OBVIOUS
<1> DEFINE wrong(i, j) == i \in Nat /\ j \in Nat /\ Least(a, b, i, j) \notin Nat
           S == {k \in 1 .. i0 + j0 + 1 : \E i, j : wrong(i, j) /\ k = i + j + 1}
<1>1. PICK k \in S : \A y \in S : k <= y
  <2>1. i0 + j0 + 1 \in S
    OBVIOUS
  <2>2. S \in SUBSET (1 .. i0 + j0 + 1)
    OBVIOUS
  <2>3. i0 + j0 + 1 \in Nat
    OBVIOUS
  <2> HIDE DEF S
  <2>4. S # {}
    BY <2>1
  <2>5. QED
    BY <2>2, <2>3, <2>4, LeastMember
<1>2. PICK i, j : wrong(i, j) /\ k = i + j + 1
  OBVIOUS
<1>3. ASSUME NEW p \in Nat, NEW q \in Nat, p + q < i + j
      PROVE  Least(a, b, p, q) \in Nat
  <2> SUFFICES ASSUME wrong(p, q) PROVE FALSE
    BY <1>3
  <2>1. p + q + 1 \in S
    BY <1>2, <1>3
  <2>2. k <= p + q + 1
    BY <1>1, <2>1
  <2>3. QED
    BY <1>2, <1>3, <2>2
<1>4. i \in Nat /\ j \in Nat /\ Least(a, b, i, j) \notin Nat
  BY <1>2
<1> HIDE DEF wrong, S
<1>5. i # 0 /\ j # 0
  BY <1>4, LeastOfEmptyFirst, LeastOfEmptySecond
<1>6. /\ i - 1 \in Nat /\ j - 1 \in Nat
      /\ (i - 1) + j < i + j /\ i + (j - 1) < i + j /\ (i - 1) + (j - 1) < i + j
  BY <1>4, <1>5
<1> DEFINE x == Least(a, b, i - 1, j) + 1
           y == Least(a, b, i, j - 1) + 1
           z == Least(a, b, i - 1, j - 1) + Change(a, b, i, j)
<1>7. x \in Nat /\ y \in Nat /\ z \in Nat
  <2>1. /\ Least(a, b, i - 1, j) \in Nat /\ Least(a, b, i, j - 1) \in Nat
        /\ Least(a, b, i - 1, j - 1) \in Nat
    BY <1>3, <1>4, <1>6
  <2>2. Change(a, b, i, j) \in Nat
    BY DEF Change
  <2>3. QED
    BY <2>1, <2>2
<1>8. Least(a, b, i, j) = Min({x, y, z})
  BY <1>4, <1>5, LeastStep
<1> HIDE DEF x, y, z
<1>9. Min({x, y, z}) \in {x, y, z}
  <2>1. x \in Int /\ y \in Int /\ z \in Int
    BY <1>7
  <2>2. QED
    BY <2>1, MinOfThree
<1>10. QED
  BY <1>4, <1>7, <1>8, <1>9

\* The code's table: the distances of the first i signs of one text and the first
\* j of the other.
At(f, i, j) == f[<<i, j>>]

Step(a, b, f, i, j) ==
    IF i = 0 THEN j
    ELSE IF j = 0 THEN i
    ELSE Min({At(f, i-1, j) + 1, At(f, i, j-1) + 1,
              At(f, i-1, j-1) + (IF a[i] = b[j] THEN 0 ELSE 1)})

Places(m, n) == (0 .. m) \X (0 .. n)

Distances(f, a, b, m, n) ==
    \A i \in 0 .. m : \A j \in 0 .. n : At(f, i, j) = Step(a, b, f, i, j)

\* The cheapest matchings make such a table.
LEMMA LeastDistances ==
    ASSUME NEW a, NEW b, NEW m \in Nat, NEW n \in Nat
    PROVE  Distances([p \in Places(m, n) |-> Least(a, b, p[1], p[2])], a, b, m, n)
<1> DEFINE h == [p \in Places(m, n) |-> Least(a, b, p[1], p[2])]
<1>1. ASSUME NEW i \in 0 .. m, NEW j \in 0 .. n
      PROVE  At(h, i, j) = Least(a, b, i, j)
  BY DEF Places, At
<1> HIDE DEF h
<1>2. ASSUME NEW i \in 0 .. m, NEW j \in 0 .. n
      PROVE  At(h, i, j) = Step(a, b, h, i, j)
  <2>1. CASE i = 0
    BY <1>1, <2>1, LeastOfEmptyFirst DEF Step
  <2>2. CASE i # 0 /\ j = 0
    BY <1>1, <2>2, LeastOfEmptySecond DEF Step
  <2>3. CASE i # 0 /\ j # 0
    <3>1. i - 1 \in 0 .. m /\ j - 1 \in 0 .. n /\ i \in Nat \ {0} /\ j \in Nat \ {0}
      BY <2>3
    <3>2. /\ At(h, i, j) = Least(a, b, i, j)
          /\ At(h, i - 1, j) = Least(a, b, i - 1, j)
          /\ At(h, i, j - 1) = Least(a, b, i, j - 1)
          /\ At(h, i - 1, j - 1) = Least(a, b, i - 1, j - 1)
      BY <1>1, <3>1
    <3>3. At(h, i, j) = Min({At(h, i - 1, j) + 1, At(h, i, j - 1) + 1,
                             At(h, i - 1, j - 1) + Change(a, b, i, j)})
      BY <3>1, <3>2, LeastStep
    <3>4. QED
      BY <2>3, <3>3 DEF Step, Change
  <2>4. QED
    BY <2>1, <2>2, <2>3
<1>3. Distances(h, a, b, m, n)
  BY <1>2 DEF Distances
<1>4. QED
  BY <1>3 DEF h

\* There is only one such table: two would differ first where what they are
\* computed from agrees.
LEMMA DistancesUnique ==
    ASSUME NEW a, NEW b, NEW m \in Nat, NEW n \in Nat, NEW f, NEW g,
           Distances(f, a, b, m, n), Distances(g, a, b, m, n)
    PROVE  \A i \in 0 .. m : \A j \in 0 .. n : At(f, i, j) = At(g, i, j)
<1> SUFFICES ASSUME NEW i0 \in 0 .. m, NEW j0 \in 0 .. n, At(f, i0, j0) # At(g, i0, j0)
             PROVE  FALSE
  OBVIOUS
<1> DEFINE differ(i, j) == i \in 0 .. m /\ j \in 0 .. n /\ At(f, i, j) # At(g, i, j)
           S == {k \in 1 .. m + n + 1 : \E i, j : differ(i, j) /\ k = i + j + 1}
<1>1. PICK k \in S : \A y \in S : k <= y
  <2>1. i0 + j0 + 1 \in S
    OBVIOUS
  <2>2. S \in SUBSET (1 .. m + n + 1)
    OBVIOUS
  <2>3. m + n + 1 \in Nat
    OBVIOUS
  <2> HIDE DEF S
  <2>4. S # {}
    BY <2>1
  <2>5. QED
    BY <2>2, <2>3, <2>4, LeastMember
<1>2. PICK i, j : differ(i, j) /\ k = i + j + 1
  OBVIOUS
<1>3. ASSUME NEW p, NEW q, p \in 0 .. m, q \in 0 .. n, p + q < i + j
      PROVE  At(f, p, q) = At(g, p, q)
  <2> SUFFICES ASSUME differ(p, q) PROVE FALSE
    BY <1>3
  <2>1. p + q + 1 \in S
    OBVIOUS
  <2>2. k <= p + q + 1
    BY <1>1, <2>1
  <2>3. QED
    BY <1>2, <1>3, <2>2
<1>4. i \in 0 .. m /\ j \in 0 .. n /\ At(f, i, j) # At(g, i, j)
  BY <1>2
<1> HIDE DEF differ, S
<1>5. At(f, i, j) = Step(a, b, f, i, j) /\ At(g, i, j) = Step(a, b, g, i, j)
  BY <1>4 DEF Distances
<1>6. i # 0 /\ j # 0
  BY <1>4, <1>5 DEF Step
<1>7. /\ i - 1 \in 0 .. m /\ j - 1 \in 0 .. n
      /\ (i - 1) + j < i + j /\ i + (j - 1) < i + j /\ (i - 1) + (j - 1) < i + j
  BY <1>4, <1>6
<1>8. /\ At(f, i - 1, j) = At(g, i - 1, j) /\ At(f, i, j - 1) = At(g, i, j - 1)
      /\ At(f, i - 1, j - 1) = At(g, i - 1, j - 1)
  BY <1>3, <1>4, <1>7
<1>9. QED
  BY <1>4, <1>5, <1>6, <1>8 DEF Step

\* What computeLevenshteinDistance returns is in a table like that.
LEMMA CodeDistances ==
    ASSUME NEW a, NEW b, NEW h,
           h = [p \in Places(Len(a), Len(b)) |-> h[p]],
           Distances(h, a, b, Len(a), Len(b))
    PROVE  \E f : /\ Distances(f, a, b, Len(a), Len(b))
                  /\ At(f, Len(a), Len(b)) = computeLevenshteinDistance(a, b)
<1> DEFINE step(f, p) ==
               LET i == p[1]
                   j == p[2]
               IN  IF i = 0 THEN j
                   ELSE IF j = 0 THEN i
                   ELSE Min({f[<<i-1, j>>] + 1, f[<<i, j-1>>] + 1,
                             f[<<i-1, j-1>>]
                               + (IF a[i] = b[j] THEN 0 ELSE 1)})
           eq(f) == f = [p \in (0 .. Len(a)) \X (0 .. Len(b)) |-> step(f, p)]
           d == CHOOSE f : eq(f)
<1>1. At(d, Len(a), Len(b)) = computeLevenshteinDistance(a, b)
  BY DEF At, computeLevenshteinDistance
<1>2. ASSUME NEW f, NEW i, NEW j PROVE step(f, <<i, j>>) = Step(a, b, f, i, j)
  BY DEF Step, At
<1> HIDE DEF step
<1>3. eq(h)
  <2>1. \A p \in Places(Len(a), Len(b)) : h[p] = step(h, p)
    <3>1. ASSUME NEW i \in 0 .. Len(a), NEW j \in 0 .. Len(b)
          PROVE  At(h, i, j) = step(h, <<i, j>>)
      <4>1. At(h, i, j) = Step(a, b, h, i, j)
        BY DEF Distances
      <4>2. QED
        BY <1>2, <4>1
    <3>2. SUFFICES ASSUME NEW p \in Places(Len(a), Len(b)) PROVE h[p] = step(h, p)
      OBVIOUS
    <3>3. PICK i \in 0 .. Len(a), j \in 0 .. Len(b) : p = <<i, j>>
      BY DEF Places
    <3>4. QED
      BY <3>1, <3>3 DEF At
  <2>2. QED
    BY <2>1 DEF Places
<1>4. eq(d)
  <2>1. \E f : eq(f)
    BY <1>3
  <2> HIDE DEF eq
  <2>2. QED
    BY <2>1
<1> HIDE DEF d
<1>5. Distances(d, a, b, Len(a), Len(b))
  <2>1. ASSUME NEW i \in 0 .. Len(a), NEW j \in 0 .. Len(b)
        PROVE  At(d, i, j) = Step(a, b, d, i, j)
    <3>1. <<i, j>> \in Places(Len(a), Len(b))
      BY DEF Places
    <3>2. At(d, i, j) = step(d, <<i, j>>)
      BY <1>4, <3>1 DEF Places, At
    <3>3. QED
      BY <1>2, <3>2
  <2>2. QED
    BY <2>1 DEF Distances
<1>6. QED
  BY <1>1, <1>5

\* The errors of a phrase (computeLevenshteinDistance) are the fewest insertions,
\* deletions and replacements that make one text of the other, for any texts.
THEOREM LevenshteinIsEditDistance ==
    ASSUME NEW T, NEW a \in Seq(T), NEW b \in Seq(T)
    PROVE  /\ computeLevenshteinDistance(a, b) = EditDistance(a, b)
           /\ computeLevenshteinDistance(a, b) \in Nat
<1>0. PICK m \in Nat, n \in Nat : m = Len(a) /\ n = Len(b)
  OBVIOUS
<1> DEFINE h == [p \in Places(m, n) |-> Least(a, b, p[1], p[2])]
<1>1. Distances(h, a, b, m, n) /\ At(h, m, n) = Least(a, b, m, n)
  <2>1. Distances(h, a, b, m, n)
    BY LeastDistances
  <2>2. At(h, m, n) = Least(a, b, m, n)
    BY DEF Places, At
  <2>3. QED
    BY <2>1, <2>2
<1>2. h = [p \in Places(m, n) |-> h[p]]
  OBVIOUS
<1> HIDE DEF h
<1>3. PICK f : /\ Distances(f, a, b, m, n)
               /\ At(f, m, n) = computeLevenshteinDistance(a, b)
  BY <1>0, <1>1, <1>2, CodeDistances
<1>4. computeLevenshteinDistance(a, b) = Least(a, b, m, n)
  <2>1. At(f, m, n) = At(h, m, n)
    BY <1>1, <1>3, DistancesUnique
  <2>2. QED
    BY <1>1, <1>3, <2>1
<1>5. EditDistance(a, b) = Least(a, b, Len(a), Len(b))
  BY DEF EditDistance, Least, Matchings, InOrder, CostOf, Unlike
<1>6. QED
  BY <1>0, <1>4, <1>5, LeastIsNat

-----------------------------------------------------------------------------
\* The scores of an attempt.

\* A set of numbers from 1 to n that is not empty has a greatest member.
LEMMA GreatestMember ==
    ASSUME NEW n \in Nat, NEW S \in SUBSET (1 .. n), S # {}
    PROVE  \E x \in S : \A y \in S : x >= y
<1> DEFINE T == {n + 1 - x : x \in S}
<1>1. T \in SUBSET (1 .. n)
  OBVIOUS
<1>2. T # {}
  OBVIOUS
<1> HIDE DEF T
<1>3. PICK t \in T : \A u \in T : t <= u
  BY <1>1, <1>2, LeastMember
<1>4. PICK x \in S : t = n + 1 - x
  BY DEF T
<1>5. ASSUME NEW y \in S PROVE x >= y
  <2>1. n + 1 - y \in T
    BY DEF T
  <2>2. t <= n + 1 - y
    BY <1>3, <2>1
  <2>3. x \in Int /\ y \in Int
    OBVIOUS
  <2>4. QED
    BY <1>4, <2>2, <2>3
<1>6. QED
  BY <1>5

LEMMA TrimIsText ==
    ASSUME NEW text \in Text
    PROVE  trim(text) \in Text
<1> DEFINE inside == {i \in 1 .. Len(text) : text[i] # Space}
<1>0. PICK T : Text = Seq(T)
  BY DEF Text
<1>1. CASE inside = {}
  BY <1>0, <1>1 DEF trim
<1>2. CASE inside # {}
  <2>1. Len(text) \in Nat /\ inside \in SUBSET (1 .. Len(text))
    BY <1>0
  <2>2. trim(text) = SubSeq(text, Min(inside), Max(inside))
    BY <1>2 DEF trim
  <2> HIDE DEF inside
  <2>3. \E x \in inside : \A y \in inside : x <= y
    BY <1>2, <2>1, LeastMember
  <2>4. \E x \in inside : \A y \in inside : x >= y
    BY <1>2, <2>1, GreatestMember
  <2>5. Min(inside) \in inside
    BY <2>3 DEF Min
  <2>6. Max(inside) \in inside
    BY <2>4 DEF Max
  <2>7. \A y \in inside : y \in 1 .. Len(text)
    BY <2>1
  <2>8. Min(inside) \in 1 .. Len(text) /\ Max(inside) \in 1 .. Len(text)
    BY <2>5, <2>6, <2>7
  <2>9. \A m, n \in 1 .. Len(text) : SubSeq(text, m, n) \in Seq(T)
    BY <1>0
  <2>10. QED
    BY <1>0, <2>2, <2>8, <2>9
<1>3. QED
  BY <1>1, <1>2

\* What a phrase adds to the scores are numbers.
LEMMA PhraseScores ==
    ASSUME NEW typed \in Text, NEW phrase \in Text
    PROVE  /\ Len(trim(typed)) \in Nat /\ Len(trim(phrase)) \in Nat
           /\ computeLevenshteinDistance(trim(typed), trim(phrase)) \in Nat
           /\ computeLevenshteinDistance(trim(typed), trim(phrase))
                = EditDistance(trim(typed), trim(phrase))
<1>1. PICK T : Text = Seq(T)
  BY DEF Text
<1>2. trim(typed) \in Seq(T) /\ trim(phrase) \in Seq(T)
  BY <1>1, TrimIsText
<1>3. QED
  BY <1>2, LevenshteinIsEditDistance

\* How many attempts have ended, by the phrases of this one: in the first
\* attempt one for each phrase after the first, and in the second at least one more.
done == IF current_trial <= 1 THEN 0 ELSE current_trial - 1

Counted ==
    /\ current_trial \in 0 .. MaxTrials
    /\ \/ attempt = done /\ (second_attempt_button <=> attempt >= 1)
       \/ ~second_attempt_button /\ attempt \in 1 + done .. MaxTrials - 1 + done

\* The scores are those of the phrases accepted so far.
Scored ==
    /\ current_trial \in {0, 1} => target_phrase = phrases[current_trial + 1]
    /\ current_trial = 0 =>
          letters_expected = 0 /\ letters_entered = 0 /\ errors = 0
    /\ current_trial = 1 =>
          /\ letters_expected = Len(trim(phrases[1]))
          /\ letters_entered = Len(trim(entered[1]))
          /\ errors = computeLevenshteinDistance(trim(entered[1]), trim(phrases[1]))
    /\ current_trial >= 2 /\ draw_finger_arm => late

AttemptTypeOK ==
    /\ form \in BOOLEAN /\ draw_finger_arm \in BOOLEAN
    /\ second_attempt_button \in BOOLEAN /\ late \in BOOLEAN
    /\ phrases \in Orders /\ target_phrase \in Phrases
    /\ letters_expected \in Nat /\ letters_entered \in Nat /\ errors \in Nat
    /\ entered \in Text \X Text

AInv == AttemptTypeOK /\ Counted /\ Scored

LEMMA OrdersArePhrases ==
    ASSUME NEW p \in Orders
    PROVE  /\ p[1] \in Phrases /\ p[2] \in Phrases
           /\ p[1] \in Text /\ p[2] \in Text
BY PhrasesAssumption DEF Orders

LEMMA InitAInv == Init => AInv
<1> SUFFICES ASSUME Init PROVE AInv
  OBVIOUS
<1>1. << << >>, << >> >> \in Text \X Text
  <2>1. << >> \in Text
    BY DEF Text
  <2>2. QED
    BY <2>1
<1>2. AttemptTypeOK
  BY <1>1, OrdersArePhrases DEF Init, AttemptTypeOK
<1>3. Counted
  BY LettersAssumption DEF Init, Counted, done
<1>4. Scored
  BY DEF Init, Scored
<1>5. QED
  BY <1>2, <1>3, <1>4 DEF AInv

\* What accepting a phrase does to the scores.
LEMMA ScoreInv ==
    ASSUME AInv, TypingTypeOK, Score
    PROVE  /\ letters_expected' \in Nat /\ letters_entered' \in Nat /\ errors' \in Nat
           /\ entered' \in Text \X Text
           /\ current_trial = 0 =>
                 /\ letters_expected' = Len(trim(phrases[1]))
                 /\ letters_entered' = Len(trim(entered'[1]))
                 /\ errors' = computeLevenshteinDistance(trim(entered'[1]), trim(phrases[1]))
           /\ current_trial = 1 =>
                 /\ letters_expected' = Len(trim(phrases[1])) + Len(trim(phrases[2]))
                 /\ letters_entered' = Len(trim(entered'[1])) + Len(trim(entered'[2]))
                 /\ errors' = computeLevenshteinDistance(trim(entered'[1]), trim(phrases[1]))
                               + computeLevenshteinDistance(trim(entered'[2]), trim(phrases[2]))
<1>1. /\ currently_typed \in Text /\ target_phrase \in Text
      /\ phrases[1] \in Text /\ phrases[2] \in Text
      /\ entered[1] \in Text /\ entered[2] \in Text /\ entered = <<entered[1], entered[2]>>
  BY OrdersArePhrases, PhrasesAssumption DEF AInv, AttemptTypeOK, TypingTypeOK
<1>2. PICK typed, expected, wrong :
         /\ typed = Len(trim(currently_typed)) /\ expected = Len(trim(target_phrase))
         /\ wrong = computeLevenshteinDistance(trim(currently_typed), trim(target_phrase))
  OBVIOUS
<1>3. typed \in Nat /\ expected \in Nat /\ wrong \in Nat
  BY <1>1, <1>2, PhraseScores
<1>4. /\ letters_expected' = letters_expected + expected
      /\ letters_entered' = letters_entered + typed
      /\ errors' = errors + wrong
  BY <1>2 DEF Score
<1>5. /\ current_trial = 0 => entered' = <<currently_typed, entered[2]>>
      /\ current_trial = 1 => entered' = <<entered[1], currently_typed>>
      /\ current_trial \notin {0, 1} => entered' = entered
  BY <1>1 DEF Score
<1>6. letters_expected' \in Nat /\ letters_entered' \in Nat /\ errors' \in Nat
  BY <1>3, <1>4 DEF AInv, AttemptTypeOK
<1>7. entered' \in Text \X Text
  BY <1>1, <1>5
<1>8. CASE current_trial = 0
  <2>1. letters_expected = 0 /\ letters_entered = 0 /\ errors = 0
        /\ target_phrase = phrases[1]
    BY <1>8 DEF AInv, Scored
  <2>2. entered'[1] = currently_typed
    BY <1>5, <1>8
  <2>3. QED
    BY <1>2, <1>3, <1>4, <1>6, <1>7, <1>8, <2>1, <2>2
<1>9. CASE current_trial = 1
  <2>1. /\ letters_expected = Len(trim(phrases[1]))
        /\ letters_entered = Len(trim(entered[1]))
        /\ errors = computeLevenshteinDistance(trim(entered[1]), trim(phrases[1]))
        /\ target_phrase = phrases[2]
    BY <1>9 DEF AInv, Scored
  <2>2. entered'[1] = entered[1] /\ entered'[2] = currently_typed
    BY <1>5, <1>9
  <2>3. QED
    BY <1>2, <1>4, <1>6, <1>7, <1>9, <2>1, <2>2
<1>10. QED
  BY <1>6, <1>7, <1>8, <1>9

LEMMA AcceptPhraseAInv ==
    ASSUME AInv, TypingTypeOK, AcceptPhrase
    PROVE  AInv'
<1>1. Score
  BY DEF AcceptPhrase
<1>2. current_trial = 0 /\ current_trial' = 1 /\ target_phrase' = phrases[2]
      /\ UNCHANGED <<form, draw_finger_arm, second_attempt_button, phrases, attempt, late>>
  BY DEF AcceptPhrase, AInv, Counted
<1>3. AttemptTypeOK'
  BY <1>1, <1>2, ScoreInv, OrdersArePhrases DEF AInv, AttemptTypeOK
<1>4. Counted'
  BY <1>2, LettersAssumption DEF AInv, Counted, done
<1>5. Scored'
  BY <1>1, <1>2, ScoreInv DEF Scored
<1>6. QED
  BY <1>3, <1>4, <1>5 DEF AInv

LEMMA AcceptLastPhraseAInv ==
    ASSUME AInv, TypingTypeOK, AcceptLastPhrase
    PROVE  AInv'
<1>1. Score
  BY DEF AcceptLastPhrase
<1>2. /\ current_trial >= 1 /\ current_trial < MaxTrials
      /\ current_trial' = current_trial + 1 /\ draw_finger_arm' = FALSE
      /\ attempt' = attempt + 1
      /\ second_attempt_button' = (attempt' < 2 \/ second_attempt_button)
      /\ UNCHANGED <<form, phrases, target_phrase, late>>
      /\ current_trial \in Nat /\ MaxTrials \in Nat
  BY LettersAssumption DEF AcceptLastPhrase, AInv, Counted
<1>3. AttemptTypeOK'
  BY <1>1, <1>2, ScoreInv DEF AInv, AttemptTypeOK
<1>4. Counted'
  <2>1. current_trial' \in 0 .. MaxTrials
    BY <1>2
  <2>2. done \in Nat /\ done' = done + 1 /\ done' = current_trial
    BY <1>2 DEF done
  <2>3. CASE attempt = done /\ (second_attempt_button <=> attempt >= 1)
    <3>1. attempt' = done' /\ attempt' >= 1
      BY <1>2, <2>2, <2>3
    <3>2. second_attempt_button'
      <4>1. attempt' < 2 \/ second_attempt_button
        BY <1>2, <2>2, <2>3
      <4>2. QED
        BY <1>2, <4>1
    <3>3. QED
      BY <2>1, <3>1, <3>2 DEF Counted
  <2>4. CASE ~second_attempt_button /\ attempt \in 1 + done .. MaxTrials - 1 + done
    <3>1. attempt' \in 1 + done' .. MaxTrials - 1 + done' /\ ~(attempt' < 2)
      BY <1>2, <2>2, <2>4
    <3>2. ~second_attempt_button'
      BY <1>2, <2>4, <3>1
    <3>3. QED
      BY <2>1, <3>1, <3>2 DEF Counted
  <2>5. QED
    BY <2>3, <2>4 DEF AInv, Counted
<1>5. Scored'
  BY <1>2 DEF Scored
<1>6. QED
  BY <1>3, <1>4, <1>5 DEF AInv

LEMMA startSecondAttemptAInv ==
    ASSUME AInv, startSecondAttempt
    PROVE  AInv'
<1>1. /\ second_attempt_button /\ second_attempt_button' = FALSE
      /\ phrases' \in Orders /\ target_phrase' = phrases'[1]
      /\ current_trial' = 0
      /\ letters_expected' = 0 /\ letters_entered' = 0 /\ errors' = 0
      /\ draw_finger_arm' = TRUE /\ late' = FALSE
      /\ UNCHANGED <<form, attempt, entered>>
  BY DEF startSecondAttempt
<1>2. AttemptTypeOK'
  BY <1>1, OrdersArePhrases DEF AInv, AttemptTypeOK
<1>3. Counted'
  <2>1. attempt = done /\ attempt >= 1 /\ current_trial \in 0 .. MaxTrials
    BY <1>1 DEF AInv, Counted
  <2>2. attempt \in 1 .. MaxTrials - 1
    BY <2>1, LettersAssumption DEF done
  <2>3. done' = 0
    BY <1>1 DEF done
  <2>4. attempt' \in 1 + done' .. MaxTrials - 1 + done'
    BY <1>1, <2>2, <2>3, LettersAssumption
  <2>5. current_trial' \in 0 .. MaxTrials
    BY <1>1, LettersAssumption
  <2>6. QED
    BY <1>1, <2>4, <2>5 DEF Counted
<1>4. Scored'
  BY <1>1 DEF Scored
<1>5. QED
  BY <1>2, <1>3, <1>4 DEF AInv

LEMMA NextAInv == AInv /\ IInv /\ [Next]_vars => AInv'
<1> SUFFICES ASSUME AInv, IInv, [Next]_vars PROVE AInv'
  OBVIOUS
<1>0. TypingTypeOK
  BY DEF IInv
<1>1. CASE UNCHANGED <<scores, test>>
  BY <1>1 DEF AInv, AttemptTypeOK, Counted, Scored, done, scores, test
<1>2. CASE StartTest
  BY <1>2 DEF StartTest, AInv, AttemptTypeOK, Counted, Scored, done, scores
<1>3. CASE windowResized
  <2>1. /\ draw_finger_arm' = TRUE /\ late' = (late \/ current_trial >= 2)
        /\ UNCHANGED <<letters_expected, letters_entered, errors, entered, form,
                       second_attempt_button, phrases, target_phrase,
                       current_trial, attempt>>
    BY <1>3 DEF windowResized, scores
  <2>2. AttemptTypeOK'
    BY <2>1 DEF AInv, AttemptTypeOK
  <2>3. Counted'
    BY <2>1 DEF AInv, Counted, done
  <2>4. Scored'
    BY <2>1 DEF AInv, Scored
  <2>5. QED
    BY <2>2, <2>3, <2>4 DEF AInv
<1>4. CASE PressNothing \/ ReleaseNothing \/ TypeNoLetter \/ TypeSpace \/ Delete
           \/ UNCHANGED vars \/ (\E k \in Keys : PressKey(k))
           \/ (\E letter \in Letters : TypeLetter(letter))
           \/ Complete("first", first_word) \/ Complete("second", second_word)
  BY <1>1, <1>4 DEF PressNothing, ReleaseNothing, TypeNoLetter, TypeSpace, Delete,
     PressKey, TypeLetter, Complete, Type, vars
<1>5. CASE AcceptPhrase
  BY <1>0, <1>5, AcceptPhraseAInv
<1>6. CASE AcceptLastPhrase
  BY <1>0, <1>6, AcceptLastPhraseAInv
<1>7. CASE startSecondAttempt
  BY <1>7, startSecondAttemptAInv
<1>8. QED
  BY <1>2, <1>3, <1>4, <1>5, <1>6, <1>7 DEF Next

LEMMA AttemptsInductive == Spec => []AInv
<1>1. AInv /\ IInv /\ [Next]_vars => AInv'
  BY NextAInv
<1>2. QED
  BY <1>1, InitAInv, Inductive, PTL DEF Spec

\* Every variable keeps its type, the counts of phrases and attempts their bounds.
THEOREM TypeCorrect == Spec => []TypeOK
<1>1. AInv /\ IInv => TypeOK
  <2> SUFFICES ASSUME AInv, IInv PROVE TypeOK
    OBVIOUS
  <2>1. MaxTrials \in Nat /\ MaxTrials >= 2
    BY LettersAssumption
  <2>2. current_trial \in 0 .. MaxTrials /\ done \in 0 .. MaxTrials - 1
    BY <2>1 DEF AInv, Counted, done
  <2>3. attempt \in 0 .. 2 * MaxTrials
    BY <2>1, <2>2 DEF AInv, Counted
  <2>4. current_trial \in 0 .. MaxTrials + 1
    BY <2>1, <2>2
  <2>5. QED
    BY <2>3, <2>4 DEF AInv, AttemptTypeOK, IInv, TypeOK
<1>2. QED
  BY <1>1, AttemptsInductive, Inductive, PTL

\* An attempt that ends with its second phrase (the ACCEPT of mousePressed) shows
\* the letters and errors of its own two phrases as they were typed, the errors
\* being the edit distance.
THEOREM AttemptsAreScored == Spec => AttemptIsScored
<1>1. ASSUME AInv, IInv, [Next]_vars, attempt' # attempt
      PROVE  \/ late
             \/ /\ current_trial' = 2
                /\ letters_expected' = Len(trim(phrases[1])) + Len(trim(phrases[2]))
                /\ letters_entered' = Len(trim(entered'[1])) + Len(trim(entered'[2]))
                /\ errors' = EditDistance(trim(entered'[1]), trim(phrases[1]))
                             + EditDistance(trim(entered'[2]), trim(phrases[2]))
  <2>1. AcceptLastPhrase
    BY <1>1 DEF Next, vars, test, PressNothing, PressKey, AcceptPhrase, Complete, Type,
       TypeNoLetter, TypeLetter, TypeSpace, Delete, ReleaseNothing, StartTest,
       startSecondAttempt, windowResized
  <2>2. CASE current_trial >= 2
    BY <1>1, <2>1, <2>2 DEF AcceptLastPhrase, AInv, Scored
  <2>3. CASE current_trial = 1
    <3>1. Score /\ current_trial' = 2
      BY <2>1, <2>3 DEF AcceptLastPhrase
    <3>2. /\ entered' \in Text \X Text
          /\ letters_expected' = Len(trim(phrases[1])) + Len(trim(phrases[2]))
          /\ letters_entered' = Len(trim(entered'[1])) + Len(trim(entered'[2]))
          /\ errors' = computeLevenshteinDistance(trim(entered'[1]), trim(phrases[1]))
                        + computeLevenshteinDistance(trim(entered'[2]), trim(phrases[2]))
      <4>1. TypingTypeOK
        BY <1>1 DEF IInv
      <4>2. QED
        BY <1>1, <2>3, <3>1, <4>1, ScoreInv
    <3>3. /\ phrases[1] \in Text /\ phrases[2] \in Text
          /\ entered'[1] \in Text /\ entered'[2] \in Text
      BY <1>1, <3>2, OrdersArePhrases DEF AInv, AttemptTypeOK
    <3>4. \A typed, phrase \in Text :
             computeLevenshteinDistance(trim(typed), trim(phrase))
               = EditDistance(trim(typed), trim(phrase))
      BY PhraseScores
    <3>5. QED
      BY <3>1, <3>2, <3>3, <3>4
  <2>4. current_trial \in Nat /\ current_trial >= 1
    BY <1>1, <2>1 DEF AcceptLastPhrase, AInv, Counted
  <2>5. QED
    BY <2>2, <2>3, <2>4
<1>2. QED
  BY <1>1, AttemptsInductive, Inductive, PTL DEF Spec, AttemptIsScored

=============================================================================
