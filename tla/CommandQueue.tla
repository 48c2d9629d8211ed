---------------------------- MODULE CommandQueue ----------------------------
(***************************************************************************)
(* The producer/consumer core of TecnicoFS part 2 (SO/Part2/main.c): the   *)
(* main thread reads the input file and puts its commands in a circular    *)
(* buffer of MAX_COMMANDS slots; numberThreads worker threads take them    *)
(* out and run them against the file system; the string "End of file" is   *)
(* the poison pill each worker puts back before it ends.                   *)
(*                                                                         *)
(* A command is represented by the number of its line in the file, the     *)
(* pill by EOF.  The file-system operation a worker runs on a command is   *)
(* atomic here and always returns: its own locking is another module.      *)
(***************************************************************************)
EXTENDS Integers, Sequences, FiniteSets

CONSTANTS
    Threads,        \* the worker threads (argv[3])
    Main,           \* the main thread
    None,           \* "no thread": a free mutex
    MAX_COMMANDS,   \* slots of the circular buffer
    Inputs,         \* the input files considered, sequences of kinds of line
    MaxSpurious     \* bound on the spurious wake-ups of pthread_cond_wait

Procs == Threads \cup {Main}

\* What processInput and applyCommands tell apart in a line:
\*   "op"     a command both accept
\*   "skip"   a comment
\*   "bad"    processInput stops the program on it (errorParse), blank or not
\*   "wrong"  processInput accepts it, applyCommands stops the program on it
Kinds == {"op", "skip", "bad", "wrong"}

ASSUME ProcsAssumption ==
    /\ IsFiniteSet(Threads) /\ Threads # {}
    /\ Main \notin Threads /\ None \notin Procs
ASSUME SizeAssumption == MAX_COMMANDS \in Nat \ {0}
ASSUME InputAssumption == Inputs \subseteq Seq(Kinds) /\ MaxSpurious \in Nat

EOF == 0

VARIABLES
    input,           \* the lines of inputfile
    line,            \* the next line fgets returns
    inputCommands,   \* the circular buffer
    numberCommands,  \* commands in it
    headQueue,       \* slot of the oldest
    tailQueue,       \* slot the next one goes to
    accessVector,    \* owner of the mutex
    canInsert,       \* threads blocked on the condition variable canInsert
    canRemove,       \* threads blocked on the condition variable canRemove
    pc,              \* where each thread is
    item,            \* the command each thread inserts or has removed
    applied,         \* how many times each line has been run
    exited,          \* the program called exit(EXIT_FAILURE)
    spurious         \* spurious wake-ups so far (bounds the model only)

queueVars == <<inputCommands, numberCommands, headQueue, tailQueue>>
syncVars  == <<accessVector, canInsert, canRemove, spurious>>
vars == <<input, line, queueVars, syncVars, pc, item, applied, exited>>

Init ==
    /\ input \in Inputs
    /\ line = 1
    /\ inputCommands = [s \in 0..MAX_COMMANDS-1 |-> EOF]
    /\ numberCommands = 0 /\ headQueue = 0 /\ tailQueue = 0
    /\ accessVector = None /\ canInsert = {} /\ canRemove = {}
    /\ pc = [p \in Procs |-> IF p = Main THEN "read" ELSE "lockRemove"]
    /\ item = [p \in Procs |-> EOF]
    /\ applied = [i \in 1..Len(input) |-> 0]
    /\ exited = FALSE
    /\ spurious = 0

-----------------------------------------------------------------------------
\* Building blocks.

\* The operators marked "mutant" are faulty variants used to test the
\* properties; nothing in the specification refers to them.

Goto(p, label) == pc' = [pc EXCEPT ![p] = label]

\* The loop conditions of the two waits.
QueueFull  == numberCommands = MAX_COMMANDS
QueueEmpty == numberCommands = 0

\* headQueue++ and tailQueue++ wrap to 0 at MAX_COMMANDS.
Unwrapped(index) == index + 1                                       \* mutant
Next_(index) == IF index + 1 = MAX_COMMANDS THEN 0 ELSE index + 1

\* commandIndex: the slot removeCommand takes.
TakenSlotAfterIncrement == Next_(headQueue)                          \* mutant
TakenSlot == headQueue

\* pthread_cond_signal wakes at least one of the threads blocked, if any.
Signalled(waiting) ==
    IF waiting = {} THEN {{}} ELSE {waiting \ {p} : p \in waiting}

\* The thread takes the mutex at "from" and goes on at "to"; the threads that
\* pthread_cond_wait has released take it again in the same way.
Lock(p, from, to) ==
    /\ pc[p] = from
    /\ accessVector = None
    /\ accessVector' = p
    /\ Goto(p, to)
    /\ UNCHANGED <<input, line, queueVars, canInsert, canRemove, spurious,
                   item, applied, exited>>

-----------------------------------------------------------------------------
\* processInput: one turn of the loop up to the call of insertCommand.

ReadLine ==
    /\ pc[Main] = "read" /\ line <= Len(input)
    /\ line' = line + 1
    /\ \/ /\ input[line] = "skip"
          /\ UNCHANGED <<pc, item, exited>>
       \/ /\ input[line] = "bad"
          /\ exited' = TRUE /\ UNCHANGED <<pc, item>>
       \/ /\ input[line] \in {"op", "wrong"}
          /\ item' = [item EXCEPT ![Main] = line]
          /\ Goto(Main, "lockInsert") /\ UNCHANGED exited
    /\ UNCHANGED <<input, queueVars, syncVars, applied>>

ReadEndOfFile ==
    /\ pc[Main] = "read" /\ line > Len(input)
    /\ item' = [item EXCEPT ![Main] = EOF]
    /\ Goto(Main, "lockInsert")
    /\ UNCHANGED <<input, line, queueVars, syncVars, applied, exited>>

-----------------------------------------------------------------------------
\* insertCommand, called by Main and by a worker that puts the pill back.

InsertLock(p)   == Lock(p, "lockInsert", "insert")
InsertRelock(p) == p \notin canInsert /\ Lock(p, "waitInsert", "insert")

InsertWait(p) ==
    /\ pc[p] = "insert" /\ QueueFull
    /\ canInsert' = canInsert \cup {p}
    /\ accessVector' = None
    /\ Goto(p, "waitInsert")
    /\ UNCHANGED <<input, line, queueVars, canRemove, spurious, item, applied,
                   exited>>

\* Where the caller of insertCommand continues.
AfterInsertReadOn(p) == IF p = Main THEN "read" ELSE "ended"         \* mutant
AfterInsert(p) == IF p # Main THEN "ended"
                  ELSE IF item[p] = EOF THEN "join" ELSE "read"

InsertStore(p) ==
    /\ pc[p] = "insert" /\ ~QueueFull
    /\ inputCommands' = [inputCommands EXCEPT ![tailQueue] = item[p]]
    /\ tailQueue' = Next_(tailQueue)
    /\ numberCommands' = numberCommands + 1
    /\ canRemove' \in Signalled(canRemove)
    /\ accessVector' = None
    /\ Goto(p, AfterInsert(p))
    /\ UNCHANGED <<input, line, headQueue, canInsert, spurious, item, applied,
                   exited>>

-----------------------------------------------------------------------------
\* applyCommands and removeCommand, run by the workers.

RemoveLock(t)   == Lock(t, "lockRemove", "remove")
RemoveRelock(t) == t \notin canRemove /\ Lock(t, "waitRemove", "remove")

RemoveWait(t) ==
    /\ pc[t] = "remove" /\ QueueEmpty
    /\ canRemove' = canRemove \cup {t}
    /\ accessVector' = None
    /\ Goto(t, "waitRemove")
    /\ UNCHANGED <<input, line, queueVars, canInsert, spurious, item, applied,
                   exited>>

RemoveTake(t) ==
    /\ pc[t] = "remove" /\ ~QueueEmpty
    /\ item' = [item EXCEPT ![t] = inputCommands[TakenSlot]]
    /\ headQueue' = Next_(headQueue)
    /\ numberCommands' = numberCommands - 1
    /\ canInsert' \in Signalled(canInsert)
    /\ accessVector' = None
    /\ Goto(t, "apply")
    /\ UNCHANGED <<input, line, inputCommands, tailQueue, canRemove, spurious,
                   applied, exited>>

\* The command taken is run, or is the pill, or stops the program.
ApplyOp(t) ==
    /\ pc[t] = "apply" /\ item[t] # EOF
    /\ \/ /\ input[item[t]] = "op"
          /\ applied' = [applied EXCEPT ![item[t]] = @ + 1]
          /\ Goto(t, "lockRemove") /\ UNCHANGED exited
       \/ /\ input[item[t]] = "wrong"
          /\ exited' = TRUE /\ UNCHANGED <<applied, pc>>
    /\ UNCHANGED <<input, line, queueVars, syncVars, item>>

ApplyEndOfFileKept(t) ==                                             \* mutant
    /\ pc[t] = "apply" /\ item[t] = EOF
    /\ Goto(t, "ended")
    /\ UNCHANGED <<input, line, queueVars, syncVars, item, applied, exited>>

ApplyEndOfFile(t) ==
    /\ pc[t] = "apply" /\ item[t] = EOF
    /\ Goto(t, "lockInsert")
    /\ UNCHANGED <<input, line, queueVars, syncVars, item, applied, exited>>

-----------------------------------------------------------------------------
\* main: pthread_join on every worker, then the tree is printed.

JoinOne ==                                                           \* mutant
    /\ pc[Main] = "join" /\ \E t \in Threads : pc[t] = "ended"
    /\ Goto(Main, "done")
    /\ UNCHANGED <<input, line, queueVars, syncVars, item, applied, exited>>

Join ==
    /\ pc[Main] = "join" /\ \A t \in Threads : pc[t] = "ended"
    /\ Goto(Main, "done")
    /\ UNCHANGED <<input, line, queueVars, syncVars, item, applied, exited>>

\* pthread_cond_wait may return although nobody signalled.
SpuriousWakeup(p) ==
    /\ p \in canInsert \cup canRemove
    /\ spurious < MaxSpurious
    /\ spurious' = spurious + 1
    /\ canInsert' = canInsert \ {p}
    /\ canRemove' = canRemove \ {p}
    /\ UNCHANGED <<input, line, queueVars, accessVector, pc, item, applied,
                   exited>>

-----------------------------------------------------------------------------
Insert(p) == InsertLock(p) \/ InsertRelock(p) \/ InsertWait(p) \/ InsertStore(p)

MainStep == ReadLine \/ ReadEndOfFile \/ Insert(Main) \/ Join

WorkerStep(t) ==
    \/ RemoveLock(t) \/ RemoveRelock(t) \/ RemoveWait(t) \/ RemoveTake(t)
    \/ ApplyOp(t) \/ ApplyEndOfFile(t)
    \/ Insert(t)

Finished == exited \/ pc[Main] = "done"

Next ==
    \/ /\ ~exited
       /\ \/ MainStep
          \/ \E t \in Threads : WorkerStep(t)
          \/ \E p \in Procs : SpuriousWakeup(p)
    \/ Finished /\ UNCHANGED vars

Spec == Init /\ [][Next]_vars

\* Every thread that can take a step is eventually scheduled.
Fairness ==
    /\ WF_vars(~exited /\ MainStep)
    /\ \A t \in Threads : WF_vars(~exited /\ WorkerStep(t))

FairSpec == Spec /\ Fairness

-----------------------------------------------------------------------------
\* The refinement mapping: the lines removed are those run or in hand.

RemovedLines ==
    {i \in 1..Len(input) : applied[i] > 0
                             \/ \E t \in Threads : pc[t] = "apply" /\ item[t] = i}

Handed == CHOOSE i \in RemovedLines \cup {0} : \A j \in RemovedLines : j <= i
InHand == [t \in Threads |-> IF pc[t] = "apply" THEN item[t] ELSE EOF]
Over   == {t \in Threads : pc[t] = "ended"}
Phase  == IF exited THEN "stopped"
          ELSE IF pc[Main] = "done" THEN "done" ELSE "running"

Dispatch == INSTANCE Dispatch WITH
    handed <- Handed, inHand <- InHand, over <- Over, phase <- Phase

-----------------------------------------------------------------------------
\* Properties.

Labels == {"read", "lockInsert", "insert", "waitInsert", "join", "done",
           "lockRemove", "remove", "waitRemove", "apply", "ended"}

\* Every variable keeps its type.
TypeOK ==
    /\ input \in Seq(Kinds)
    /\ line \in 1..Len(input)+1
    /\ inputCommands \in [0..MAX_COMMANDS-1 -> 0..Len(input)]
    /\ numberCommands \in 0..MAX_COMMANDS
    /\ headQueue \in 0..MAX_COMMANDS-1
    /\ tailQueue \in 0..MAX_COMMANDS-1
    /\ accessVector \in Procs \cup {None}
    /\ canInsert \subseteq Procs
    /\ canRemove \subseteq Threads
    /\ pc \in [Procs -> Labels]
    /\ item \in [Procs -> 0..Len(input)]
    /\ applied \in [1..Len(input) -> Nat]
    /\ exited \in BOOLEAN
    /\ spurious \in 0..MaxSpurious

\* The slot of the k-th oldest command of the queue (k from 0) and its content.
Slot(k) == IF headQueue + k < MAX_COMMANDS THEN headQueue + k
                                          ELSE headQueue + k - MAX_COMMANDS
Queued(k) == inputCommands[Slot(k)]
Positions == 0..numberCommands-1

\* The queue is in file order, the pill is behind every command, and there is
\* one pill at most among the queue and the workers.
PillIsLast ==
    /\ \A j, k \in Positions : j < k =>
            Queued(j) # EOF /\ (Queued(k) = EOF \/ Queued(j) < Queued(k))
    /\ (\E t \in Threads : pc[t] = "apply" /\ item[t] = EOF) => numberCommands = 0

\* A worker that puts the pill back never finds the queue full, so it never
\* waits on canInsert, where no other thread might be left to wake it.
WorkerNeverWaitsToInsert ==
    \A t \in Threads :
        pc[t] \in {"lockInsert", "insert", "waitInsert"} =>
            numberCommands = 0 /\ t \notin canInsert

\* The queue implements Dispatch: the lines removed from it are handed out, in
\* file order and each once; a worker ends when it has put the pill back.
Dispatched == Dispatch!Spec

\* The program always ends: no wake-up is lost (one signal per insertion and
\* per removal is enough) and the pill reaches every worker.
Termination == <>Finished

=============================================================================
