----------------------------- MODULE WritingTest -----------------------------
(***************************************************************************)
(* The writing test of IPM/Proj3 (sketch.js, support.js): a user types two *)
(* phrases on the keyboard of a watch, in two attempts, with two suggested *)
(* words to complete the one being typed, and each attempt is scored.  The *)
(* browser calls the handlers one at a time: the mouse is pressed, it is   *)
(* released, a button is used, the window is resized.                      *)
(*                                                                         *)
(* A press is abstracted to the key it is on, which mouseReleased finds    *)
(* from where the press was, and a swipe to the letter it gives, if any.   *)
(* Times, and the rates made of them, are left out: the clock is the one   *)
(* of TargetTest.  BAKE_OFF_DAY and STORE are false, and nothing is sent:  *)
(* an attempt ends with its scores on the screen.                          *)
(***************************************************************************)
EXTENDS Integers, Sequences, FiniteSetsExt, SequencesExt

CONSTANTS
    Letters,
    Space,        \* ' '
    all_words,    \* the words of data/words.txt, the most used first
    Phrases,      \* the phrases of data/phrases.txt
    NoKey,        \* no key is held down
    MaxTyped,     \* bound on the text that is added to
    MaxTrials     \* bound on the phrases accepted in an attempt

Text == Seq(Letters \cup {Space})
Word == Seq(Letters)
Words == 1 .. Len(all_words)

ASSUME WordsAssumption == all_words \in Seq(Word) /\ Len(all_words) >= 2
ASSUME PhrasesAssumption == Phrases \subseteq Text
ASSUME LettersAssumption ==
    /\ Space \notin Letters
    /\ MaxTyped \in Nat /\ MaxTrials \in Nat \ {0, 1}

\* The areas of the keyboard: the two suggestions, the three keys of nine
\* letters each, and what is between them.
Keys == {"first", "second", "letters", "space", "delete", "between"}

VARIABLES
    form,               \* the form and its START button are shown
    draw_finger_arm,    \* the watch is shown
    second_attempt_button,
    click,              \* the key the mouse was pressed on
    phrases,            \* the first two, in the order shuffle left them
    target_phrase, current_trial, attempt,
    currently_typed,
    current_word, words_typed,
    first_word, second_word,    \* the suggestions, by their place in all_words
    last_index,         \* where the search for suggestions goes on
    letters_expected, letters_entered, errors,
    entered,
    strayed,            \* a space was deleted, its word kept (history)
    late                \* the watch was shown again after an attempt (history)

suggestions == <<first_word, second_word, last_index>>
typing == <<currently_typed, current_word, words_typed, suggestions, strayed>>
scores == <<letters_expected, letters_entered, errors, entered>>
test == <<form, draw_finger_arm, second_attempt_button, phrases, target_phrase,
          current_trial, attempt, late>>
vars == <<typing, scores, test, click>>

Orders == {p \in Phrases \X Phrases : p[1] # p[2]}

Init ==
    /\ form = TRUE /\ draw_finger_arm = FALSE
    /\ second_attempt_button = FALSE
    /\ click = NoKey
    /\ phrases \in Orders /\ target_phrase = phrases[1]
    /\ current_trial = 0 /\ attempt = 0
    /\ currently_typed = << >> /\ current_word = << >> /\ words_typed = << >>
    /\ first_word = 1 /\ second_word = 2 /\ last_index = 3
    /\ letters_expected = 0 /\ letters_entered = 0 /\ errors = 0
    /\ entered = << << >>, << >> >>
    /\ strayed = FALSE /\ late = FALSE

-----------------------------------------------------------------------------
\* Suggestions.  The operators marked "mutant" are faulty variants used to test
\* the properties; nothing in the specification refers to them.

StartsWith(s, prefix) ==
    Len(prefix) <= Len(s) /\ \A k \in 1 .. Len(prefix) : s[k] = prefix[k]

Fitting(from, word) == {i \in Words : from <= i /\ StartsWith(all_words[i], word)}

\* A suggestion that fits stays; another gives way to the next word that fits.
\* If there is none it stays as well: the blank that should take its place is
\* never reached, because the loop that fails ends with i = number_words.
Search(i, from, word) ==
    IF StartsWith(all_words[i], word) \/ Fitting(from, word) = {}
    THEN <<i, from>>
    ELSE <<Min(Fitting(from, word)), Min(Fitting(from, word)) + 1>>

\* autoComplete, for this word, with these suggestions before.
autoComplete(word, i, j, from) ==
    LET one == Search(i, from, word)
        two == Search(j, one[2], word)
    IN  /\ first_word' = one[1] /\ second_word' = two[1]
        /\ last_index' = two[2]

resetAutoComplete == first_word' = 1 /\ second_word' = 2 /\ last_index' = 3

-----------------------------------------------------------------------------
\* Scores.

trim(text) ==
    LET inside == {i \in 1 .. Len(text) : text[i] # Space}
    IN  IF inside = {} THEN << >> ELSE SubSeq(text, Min(inside), Max(inside))

computeLevenshteinDistance(phrase1, phrase2) ==
    LET distance[p \in (0 .. Len(phrase1)) \X (0 .. Len(phrase2))] ==
            LET i == p[1]
                j == p[2]
            IN  IF i = 0 THEN j
                ELSE IF j = 0 THEN i
                ELSE Min({distance[<<i-1, j>>] + 1, distance[<<i, j-1>>] + 1,
                          distance[<<i-1, j-1>>]
                            + (IF phrase1[i] = phrase2[j] THEN 0 ELSE 1)})
    IN  distance[<<Len(phrase1), Len(phrase2)>>]

\* entered has a third place by then, which nobody reads.
Score ==
    /\ letters_expected' = letters_expected + Len(trim(target_phrase))
    /\ letters_entered' = letters_entered + Len(trim(currently_typed))
    /\ errors' = errors + computeLevenshteinDistance(trim(currently_typed),
                                                     trim(target_phrase))
    /\ entered' = IF current_trial \in {0, 1}
                  THEN [entered EXCEPT ![current_trial + 1] = currently_typed]
                  ELSE entered

-----------------------------------------------------------------------------
\* mousePressed: outside the test, on a key, on ACCEPT or elsewhere.

PressNothing ==
    /\ click' = NoKey
    /\ UNCHANGED <<typing, scores, test>>

PressKey(k) ==
    /\ draw_finger_arm
    /\ click' = k
    /\ UNCHANGED <<typing, scores, test>>

AcceptPhraseKeepsWords ==                                            \* mutant
    /\ draw_finger_arm /\ current_trial + 1 < 2
    /\ click' = NoKey
    /\ Score
    /\ current_trial' = current_trial + 1
    /\ currently_typed' = << >> /\ current_word' = << >>
    /\ resetAutoComplete
    /\ target_phrase' = phrases[current_trial' + 1]
    /\ strayed' = FALSE
    /\ UNCHANGED <<form, draw_finger_arm, second_attempt_button, phrases,
                   attempt, late, words_typed>>

AcceptPhrase ==
    /\ draw_finger_arm /\ current_trial + 1 < 2
    /\ click' = NoKey
    /\ Score
    /\ current_trial' = current_trial + 1
    /\ currently_typed' = << >> /\ current_word' = << >> /\ words_typed' = << >>
    /\ resetAutoComplete
    /\ target_phrase' = phrases[current_trial' + 1]
    /\ strayed' = FALSE
    /\ UNCHANGED <<form, draw_finger_arm, second_attempt_button, phrases,
                   attempt, late>>

\* printAndSavePerformance shows the scores.
AcceptLastPhrase ==
    /\ draw_finger_arm /\ current_trial + 1 >= 2 /\ current_trial < MaxTrials
    /\ click' = NoKey
    /\ Score
    /\ current_trial' = current_trial + 1
    /\ draw_finger_arm' = FALSE
    /\ attempt' = attempt + 1
    /\ second_attempt_button' = (attempt' < 2 \/ second_attempt_button)
    /\ UNCHANGED <<typing, form, phrases, target_phrase, late>>

-----------------------------------------------------------------------------
\* mouseReleased, after a press on a key.

Type(k) == click = k /\ click' = NoKey /\ UNCHANGED <<scores, test>>
HasRoom == Len(currently_typed) < MaxTyped /\ Len(words_typed) < MaxTyped

Complete(k, i) ==
    /\ Type(k) /\ HasRoom
    /\ currently_typed' =
          SubSeq(currently_typed, 1, Len(currently_typed) - Len(current_word))
            \o all_words[i] \o <<Space>>
    /\ words_typed' = Append(words_typed, all_words[i])
    /\ current_word' = << >>
    /\ resetAutoComplete
    /\ UNCHANGED strayed

\* The swipe has no letter: below the third key, or as long as the limit
\* between a swipe and none.
TypeNoLetter ==
    /\ Type("letters")
    /\ autoComplete(current_word, first_word, second_word, last_index)
    /\ UNCHANGED <<currently_typed, current_word, words_typed, strayed>>

TypeLetter(letter) ==
    /\ Type("letters") /\ HasRoom
    /\ currently_typed' = Append(currently_typed, letter)
    /\ current_word' = Append(current_word, letter)
    /\ autoComplete(current_word', first_word, second_word, last_index)
    /\ UNCHANGED <<words_typed, strayed>>

TypeSpace ==
    /\ Type("space") /\ HasRoom
    /\ currently_typed' = Append(currently_typed, Space)
    /\ words_typed' = Append(words_typed, current_word)
    /\ current_word' = << >>
    /\ resetAutoComplete
    /\ UNCHANGED strayed

\* autoComplete goes on from where it was.
DeleteKeepsIndex ==                                                  \* mutant
    /\ Type("delete") /\ currently_typed # << >>
    /\ currently_typed' = Front(currently_typed)
    /\ IF current_word # << >>
         THEN /\ current_word' = Front(current_word)
              /\ UNCHANGED <<words_typed, strayed>>
         ELSE IF words_typed # << >>
                 /\ (currently_typed' = << >> \/ Last(currently_typed') # Space)
         THEN /\ current_word' = Last(words_typed)
              /\ words_typed' = Front(words_typed)
              /\ UNCHANGED strayed
         ELSE /\ strayed' = TRUE
              /\ UNCHANGED <<current_word, words_typed>>
    /\ autoComplete(current_word', first_word, second_word, last_index)

\* The word that comes back is the last of words_typed, unless what is left
\* ends with another space: then the empty word between the two is kept.
Delete ==
    /\ Type("delete") /\ currently_typed # << >>
    /\ currently_typed' = Front(currently_typed)
    /\ IF current_word # << >>
         THEN /\ current_word' = Front(current_word)
              /\ UNCHANGED <<words_typed, strayed>>
         ELSE IF words_typed # << >>
                 /\ (currently_typed' = << >> \/ Last(currently_typed') # Space)
         THEN /\ current_word' = Last(words_typed)
              /\ words_typed' = Front(words_typed)
              /\ UNCHANGED strayed
         ELSE /\ strayed' = TRUE
              /\ UNCHANGED <<current_word, words_typed>>
    /\ autoComplete(current_word', 1, 2, 3)

ReleaseNothing ==
    /\ click = "between" \/ (click = "delete" /\ currently_typed = << >>)
    /\ click' = NoKey
    /\ UNCHANGED <<typing, scores, test>>

-----------------------------------------------------------------------------
\* The buttons and the window.

\* startTest, with a number and a size in range: full screen comes with a resize.
StartTest ==
    /\ form /\ form' = FALSE
    /\ UNCHANGED <<typing, scores, click, draw_finger_arm,
                   second_attempt_button, phrases, target_phrase,
                   current_trial, attempt, late>>

startSecondAttemptWithErrors ==                                      \* mutant
    /\ second_attempt_button /\ second_attempt_button' = FALSE
    /\ phrases' \in Orders /\ target_phrase' = phrases'[1]
    /\ current_trial' = 0
    /\ letters_expected' = 0 /\ letters_entered' = 0
    /\ currently_typed' = << >> /\ current_word' = << >> /\ words_typed' = << >>
    /\ resetAutoComplete
    /\ draw_finger_arm' = TRUE
    /\ strayed' = FALSE /\ late' = FALSE
    /\ UNCHANGED <<form, attempt, entered, click, errors>>

startSecondAttemptAgain ==                                           \* mutant
    /\ second_attempt_button
    /\ phrases' \in Orders /\ target_phrase' = phrases'[1]
    /\ current_trial' = 0
    /\ letters_expected' = 0 /\ letters_entered' = 0 /\ errors' = 0
    /\ currently_typed' = << >> /\ current_word' = << >> /\ words_typed' = << >>
    /\ resetAutoComplete
    /\ draw_finger_arm' = TRUE
    /\ strayed' = FALSE /\ late' = FALSE
    /\ UNCHANGED <<form, attempt, entered, click, second_attempt_button>>

startSecondAttempt ==
    /\ second_attempt_button /\ second_attempt_button' = FALSE
    /\ phrases' \in Orders /\ target_phrase' = phrases'[1]
    /\ current_trial' = 0
    /\ letters_expected' = 0 /\ letters_entered' = 0 /\ errors' = 0
    /\ currently_typed' = << >> /\ current_word' = << >> /\ words_typed' = << >>
    /\ resetAutoComplete
    /\ draw_finger_arm' = TRUE
    /\ strayed' = FALSE /\ late' = FALSE
    /\ UNCHANGED <<form, attempt, entered, click>>

\* The window goes full screen, leaves it, or changes its size at any time.
\* The keys move, and a press that is not released yet may come to be on another.
windowResized ==
    /\ draw_finger_arm' = TRUE
    /\ IF click = NoKey THEN UNCHANGED click ELSE click' \in Keys
    /\ late' = (late \/ current_trial >= 2)
    /\ UNCHANGED <<typing, scores, form, second_attempt_button, phrases,
                   target_phrase, current_trial, attempt>>

Next ==
    \/ PressNothing \/ \E k \in Keys : PressKey(k)
    \/ AcceptPhrase \/ AcceptLastPhrase
    \/ Complete("first", first_word) \/ Complete("second", second_word)
    \/ TypeNoLetter \/ \E letter \in Letters : TypeLetter(letter)
    \/ TypeSpace \/ Delete \/ ReleaseNothing
    \/ StartTest \/ startSecondAttempt \/ windowResized

Spec == Init /\ [][Next]_vars

-----------------------------------------------------------------------------
\* Properties.

TypingTypeOK ==
    /\ currently_typed \in Text /\ current_word \in Word
    /\ words_typed \in Seq(Word)
    /\ first_word \in Words /\ second_word \in Words
    /\ last_index \in 3 .. Len(all_words) + 1
    /\ strayed \in BOOLEAN /\ click \in Keys \cup {NoKey}

\* Every variable keeps its type, and an attempt has as many phrases as the
\* bound allows: the second is started once.
TypeOK ==
    /\ TypingTypeOK
    /\ form \in BOOLEAN /\ draw_finger_arm \in BOOLEAN
    /\ second_attempt_button \in BOOLEAN /\ late \in BOOLEAN
    /\ phrases \in Orders /\ target_phrase \in Phrases
    /\ current_trial \in 0 .. MaxTrials + 1 /\ attempt \in 0 .. 2 * MaxTrials
    /\ letters_expected \in Nat /\ letters_entered \in Nat /\ errors \in Nat
    /\ entered \in Text \X Text

\* The text of these words with a space after each.
Joined(words) == FlattenSeq([k \in DOMAIN words |-> Append(words[k], Space)])

\* What is shown as the text is what the words add up to: a suggestion replaces
\* the word being typed and no more, and deleting goes back into the word
\* before.  (Until one of two spaces in a row is deleted: the code keeps a word
\* too many, up to the end of the phrase.)
TextAgrees == ~strayed => currently_typed = Joined(words_typed) \o current_word

\* The suggestions are the most used words that fit what has been typed of the
\* word, however it was typed and deleted: a word that fits is suggested, or
\* there are two that do and are used more.
SuggestsMostUsed ==
    \A i \in Fitting(1, current_word) :
        \/ i \in {first_word, second_word}
        \/ {first_word, second_word} \subseteq Fitting(1, current_word)
              /\ first_word < i /\ second_word < i /\ first_word # second_word

\* The fewest insertions, deletions and replacements that make one text of
\* another: those outside a matching of their places that keeps the order.
EditDistance(a, b) ==
    LET Matchings == {M \in SUBSET ((1..Len(a)) \X (1..Len(b))) :
                         \A p, q \in M : p # q => (p[1] < q[1] <=> p[2] < q[2])
                                                  /\ p[1] # q[1] /\ p[2] # q[2]}
        Cost(M) == Len(a) + Len(b) - 2 * Cardinality(M)
                     + Cardinality({p \in M : a[p[1]] # b[p[2]]})
    IN  Min({Cost(M) : M \in Matchings})

\* An attempt ends with its second phrase, and is scored for these two as they
\* were typed, and nothing of an earlier attempt.  (If the window was resized
\* after the last phrase, the watch is shown again and takes another.)
AttemptIsScored ==
    [][attempt' # attempt =>
          \/ late
          \/ /\ current_trial' = 2
             /\ letters_expected' = Len(trim(phrases[1])) + Len(trim(phrases[2]))
             /\ letters_entered' = Len(trim(entered'[1])) + Len(trim(entered'[2]))
             /\ errors' = EditDistance(trim(entered'[1]), trim(phrases[1]))
                          + EditDistance(trim(entered'[2]), trim(phrases[2]))]_vars

=============================================================================
