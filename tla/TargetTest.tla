----------------------------- MODULE TargetTest -----------------------------
(***************************************************************************)
(* The target selection test of IPM/Proj2 (sketch.js, support.js): a user  *)
(* fills in a form, selects every target in two attempts, and the results  *)
(* of each attempt are sent to a database.  The browser calls the handlers *)
(* one at a time: the mouse is pressed, it is released (over a button or   *)
(* not), the window is resized.                                            *)
(*                                                                         *)
(* Where the mouse is pressed is abstracted to the target it is over, or   *)
(* Away; the Fitts ID of a hit, a distance, to the target that was hit.    *)
(***************************************************************************)
EXTENDS Integers, Sequences, FiniteSets

CONSTANTS
    TARGETS,      \* targets on the screen (16 in the code)
    REPEATS,      \* how often each is to be selected (3)
    Away,         \* a place outside all targets
    MISSED,       \* the entry of fitts_IDs for a failed selection (-1)
    None,         \* undefined
    MaxExtra      \* bound on the presses counted beyond the last trial

Targets == 0 .. TARGETS - 1
Trials == TARGETS * REPEATS          \* trials.length

ASSUME SizesAssumption ==
    /\ TARGETS \in Nat \ {0} /\ REPEATS \in Nat \ {0} /\ MaxExtra \in Nat
    /\ Away \notin Targets /\ MISSED \notin Targets /\ None \notin Nat

VARIABLES
    form,             \* the form and its START button are shown
    student_ID,       \* it has been typed in (it is sent with the results)
    entering,         \* full screen was asked for; the resize is still to come
    continue_button,  \* START 2ND ATTEMPT is shown
    draw_targets, trials, current_trial, attempt, hits, misses, fitts_IDs,
    testStartTime,    \* how many trials were over when it was taken
    database,         \* what firebase has accepted
    down,             \* the mouse button is held down
    early             \* the window was resized before START (history)

counters == <<current_trial, hits, misses, fitts_IDs>>
vars == <<form, student_ID, entering, continue_button, draw_targets, trials,
          attempt, counters, testStartTime, database, down, early>>

\* What shuffle can make of the trials.
Orders == {s \in [1..Trials -> Targets] :
              \A i \in Targets : Cardinality({k \in 1..Trials : s[k] = i}) = REPEATS}

Init ==
    /\ form = TRUE /\ student_ID = FALSE /\ entering = FALSE
    /\ continue_button = FALSE /\ draw_targets = FALSE
    /\ trials \in Orders
    /\ current_trial = 0 /\ attempt = 0 /\ hits = 0 /\ misses = 0
    /\ fitts_IDs = << >>
    /\ testStartTime = None /\ database = << >>
    /\ down = FALSE /\ early = FALSE

-----------------------------------------------------------------------------
\* mousePressed.  The operators marked "mutant" are faulty variants used to
\* test the properties; nothing in the specification refers to them.

\* Beyond the last trial the target has no bounds, and any press is a miss.
InTarget(p) == current_trial < Trials /\ p = trials[current_trial + 1]

Score(p) ==
    /\ hits' = hits + (IF InTarget(p) THEN 1 ELSE 0)
    /\ misses' = misses + (IF InTarget(p) THEN 0 ELSE 1)
    /\ fitts_IDs' = Append(fitts_IDs, IF InTarget(p) THEN p ELSE MISSED)
    /\ current_trial' = current_trial + 1

\* attempt_data, with the order of the trials in place of what is computed.
AttemptData == [attempt |-> attempt, order |-> trials, fitts_IDs |-> fitts_IDs',
                hits |-> hits', misses |-> misses', untimed |-> testStartTime]

Press == ~down /\ down' = TRUE

PressOutsideTest ==
    /\ Press
    /\ ~draw_targets
    /\ UNCHANGED <<form, student_ID, entering, continue_button, draw_targets,
                   trials, attempt, counters, testStartTime, database, early>>

PressTrial(p) ==
    /\ Press
    /\ draw_targets
    /\ current_trial + 1 # Trials /\ current_trial < Trials + MaxExtra
    /\ Score(p)
    /\ UNCHANGED <<form, student_ID, entering, continue_button, draw_targets,
                   trials, attempt, testStartTime, database, early>>

\* The results are saved; the button for the second attempt appears.
EndAttempt(p) ==
    /\ Press
    /\ draw_targets /\ current_trial + 1 = Trials
    /\ Score(p)
    /\ draw_targets' = FALSE
    /\ student_ID
    /\ database' = Append(database, AttemptData)
    /\ attempt' = attempt + 1
    /\ continue_button' = IF attempt + 1 < 2 THEN TRUE ELSE continue_button
    /\ UNCHANGED <<form, student_ID, entering, trials, testStartTime, early>>

\* firebase refuses data that is undefined: push throws, and mousePressed ends
\* there.
EndAttemptRefused(p) ==
    /\ Press
    /\ draw_targets /\ current_trial + 1 = Trials
    /\ Score(p)
    /\ draw_targets' = FALSE
    /\ ~student_ID
    /\ UNCHANGED <<form, student_ID, entering, continue_button, trials, attempt,
                   testStartTime, database, early>>

-----------------------------------------------------------------------------
\* The mouse is released: over the START button, over START 2ND ATTEMPT, or
\* anywhere else.  Where it was pressed does not matter.

Release == down /\ down' = FALSE

ReleaseElsewhere ==
    /\ Release
    /\ UNCHANGED <<form, student_ID, entering, continue_button, draw_targets,
                   trials, attempt, counters, testStartTime, database, early>>

\* startTest, with a number and a size in range.
StartTest ==
    /\ Release
    /\ form
    /\ form' = FALSE /\ student_ID' = TRUE
    /\ entering' = TRUE
    /\ testStartTime' = current_trial
    /\ UNCHANGED <<continue_button, draw_targets, trials, attempt, counters,
                   database, early>>

ContinueKeepsCount ==                                                \* mutant
    /\ Release
    /\ continue_button
    /\ trials' \in Orders
    /\ current_trial' = 0 /\ hits' = hits /\ misses' = 0 /\ fitts_IDs' = << >>
    /\ continue_button' = FALSE
    /\ draw_targets' = TRUE
    /\ testStartTime' = 0
    /\ UNCHANGED <<form, student_ID, entering, attempt, database, early>>

ContinueHidden ==                                                    \* mutant
    /\ Release
    /\ continue_button
    /\ trials' \in Orders
    /\ current_trial' = 0 /\ hits' = 0 /\ misses' = 0 /\ fitts_IDs' = << >>
    /\ continue_button' = FALSE
    /\ testStartTime' = 0
    /\ UNCHANGED <<form, student_ID, entering, attempt, draw_targets, database,
                   early>>

ContinueTest ==
    /\ Release
    /\ continue_button
    /\ trials' \in Orders
    /\ current_trial' = 0 /\ hits' = 0 /\ misses' = 0 /\ fitts_IDs' = << >>
    /\ continue_button' = FALSE
    /\ draw_targets' = TRUE
    /\ testStartTime' = 0
    /\ UNCHANGED <<form, student_ID, entering, attempt, database, early>>

\* The window goes full screen, leaves it, or changes its size at any time.
WindowResized ==
    /\ draw_targets' = TRUE
    /\ entering' = FALSE
    /\ early' = (early \/ form)
    /\ UNCHANGED <<form, student_ID, continue_button, trials, attempt, counters,
                   testStartTime, database, down>>

Next ==
    \/ PressOutsideTest
    \/ \E p \in Targets \cup {Away} :
          PressTrial(p) \/ EndAttempt(p) \/ EndAttemptRefused(p)
    \/ ReleaseElsewhere \/ StartTest \/ ContinueTest
    \/ WindowResized

Spec == Init /\ [][Next]_vars

-----------------------------------------------------------------------------
\* Properties.

Record == [attempt : 0..1, order : Orders,
           fitts_IDs : Seq(Targets \cup {MISSED}), hits : Nat, misses : Nat,
           untimed : Nat]

\* Every variable keeps its type.
TypeOK ==
    /\ form \in BOOLEAN /\ student_ID \in BOOLEAN /\ entering \in BOOLEAN
    /\ continue_button \in BOOLEAN /\ draw_targets \in BOOLEAN
    /\ trials \in Orders
    /\ current_trial \in Nat /\ attempt \in 0..2
    /\ hits \in Nat /\ misses \in Nat
    /\ fitts_IDs \in Seq(Targets \cup {MISSED})
    /\ testStartTime \in Nat \cup {None}
    /\ database \in Seq(Record)
    /\ down \in BOOLEAN /\ early \in BOOLEAN

\* An entry of fitts_IDs is the target that was to be selected, or a miss.
FittsMatch(ids, order) == \A k \in 1..Trials : ids[k] \in {order[k], MISSED}

\* The records are those of the attempts, in order; each has as many results as
\* trials, and its hits are those that were not missed.
WholeAttempts ==
    /\ Len(database) = attempt
    /\ \A n \in 1..Len(database) :
          LET r == database[n]
          IN  /\ r.attempt = n - 1
              /\ r.hits + r.misses = Trials /\ Len(r.fitts_IDs) = Trials
              /\ FittsMatch(r.fitts_IDs, r.order)
              /\ r.hits = Cardinality({k \in 1..Trials : r.fitts_IDs[k] # MISSED})

\* Every selection was made after the clock of its attempt was started, if the
\* window keeps its size until START.
TimedWhole ==
    ~early => \A n \in 1..Len(database) : database[n].untimed = 0

\* What the database has is one whole attempt after another: none of its
\* results is from outside the attempt or its time, whatever is pressed or
\* resized before, between and after attempts (mousePressed, startTest,
\* continueTest, windowResized).
RecordsAreWhole == WholeAttempts /\ TimedWhole

\* A user who has not done both attempts can go on: there is a button to press,
\* a trial to do, or the window is about to go full screen (if the window keeps
\* its size until START: otherwise the presses on the form are the trials, the
\* results are refused and there is no way on).
CanGoOn ==
    early \/ attempt = 2 \/ form \/ entering \/ continue_button
          \/ (draw_targets /\ current_trial < Trials)

=============================================================================
