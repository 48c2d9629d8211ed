------------------------------ MODULE Dispatch ------------------------------
(***************************************************************************)
(* What the command queue of TecnicoFS part 2 promises to the file system  *)
(* and to whoever reads the printed tree, without the queue: the commands  *)
(* of the file are handed to the workers one at a time and in file order,  *)
(* a worker ends only when nothing is left to hand out, and the tree is    *)
(* printed only when every worker has ended.                               *)
(***************************************************************************)
EXTENDS Integers, Sequences

CONSTANTS Threads, Inputs

Nothing == 0

VARIABLES
    input,    \* the lines of the file, as in CommandQueue
    handed,   \* the last line handed to a worker
    inHand,   \* the line each worker is running
    applied,  \* how many times each line has been run
    over,     \* the workers that have ended
    phase     \* "running", "done" (tree printed) or "stopped" (by an error)

vars == <<input, handed, inHand, applied, over, phase>>

Init ==
    /\ input \in Inputs
    /\ handed = 0
    /\ inHand = [t \in Threads |-> Nothing]
    /\ applied = [i \in 1..Len(input) |-> 0]
    /\ over = {}
    /\ phase = "running"

Skipped(lo, hi) == \A i \in lo..hi : input[i] = "skip"

\* The next line that is not skipped goes to a worker that runs none.
Hand(t) ==
    /\ phase = "running" /\ inHand[t] = Nothing /\ t \notin over
    /\ \E i \in handed+1..Len(input) :
          /\ input[i] \in {"op", "wrong"} /\ Skipped(handed+1, i-1)
          /\ handed' = i
          /\ inHand' = [inHand EXCEPT ![t] = i]
    /\ UNCHANGED <<input, applied, over, phase>>

Run(t) ==
    /\ phase = "running" /\ inHand[t] # Nothing /\ input[inHand[t]] = "op"
    /\ applied' = [applied EXCEPT ![inHand[t]] = @ + 1]
    /\ inHand' = [inHand EXCEPT ![t] = Nothing]
    /\ UNCHANGED <<input, handed, over, phase>>

End(t) ==
    /\ phase = "running" /\ inHand[t] = Nothing /\ t \notin over
    /\ Skipped(handed+1, Len(input))
    /\ over' = over \cup {t}
    /\ UNCHANGED <<input, handed, inHand, applied, phase>>

PrintTree ==
    /\ phase = "running" /\ over = Threads
    /\ phase' = "done"
    /\ UNCHANGED <<input, handed, inHand, applied, over>>

\* A worker holds a line it refuses, or processInput has read one.
Stop ==
    /\ phase = "running"
    /\ \/ \E t \in Threads : inHand[t] # Nothing /\ input[inHand[t]] = "wrong"
       \/ \E i \in handed+1..Len(input) : input[i] = "bad"
    /\ phase' = "stopped"
    /\ UNCHANGED <<input, handed, inHand, applied, over>>

Next == (\E t \in Threads : Hand(t) \/ Run(t) \/ End(t)) \/ PrintTree \/ Stop

Spec == Init /\ [][Next]_vars
=============================================================================
