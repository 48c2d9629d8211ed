-------------------------- MODULE CommandQueueProofs --------------------------
(***************************************************************************)
(* Theorems about CommandQueue, for every set of workers, capacity and     *)
(* input file: its types, its safety invariants, and that it implements    *)
(* Dispatch, every step of the queue being a step of Dispatch or none.     *)
(***************************************************************************)
EXTENDS CommandQueue, TLAPS

\* Type correctness.
LEMMA InitType == Init => TypeOK
  <1> SUFFICES ASSUME Init PROVE TypeOK
    OBVIOUS
  <1>1. input \in Seq(Kinds) /\ Len(input) \in Nat
    BY InputAssumption DEF Init
  <1>2. /\ inputCommands \in [0..MAX_COMMANDS-1 -> 0..Len(input)]
        /\ item \in [Procs -> 0..Len(input)]
        /\ applied \in [1..Len(input) -> Nat]
        /\ pc \in [Procs -> Labels]
    BY <1>1 DEF Init, EOF, Labels
  <1>3. line \in 1..Len(input)+1
    BY <1>1 DEF Init
  <1>4. /\ numberCommands \in 0..MAX_COMMANDS
        /\ headQueue \in 0..MAX_COMMANDS-1 /\ tailQueue \in 0..MAX_COMMANDS-1
        /\ spurious \in 0..MaxSpurious
    BY SizeAssumption, InputAssumption DEF Init
  <1> QED
    BY <1>1, <1>2, <1>3, <1>4 DEF Init, TypeOK

\* Every step of the producer and of the workers keeps the types.
LEMMA NextType == TypeOK /\ [Next]_vars => TypeOK'
  <1> SUFFICES ASSUME TypeOK, [Next]_vars PROVE TypeOK'
    OBVIOUS
  <1> USE DEF TypeOK, Goto, Labels
  <1>0. /\ Len(input) \in Nat /\ MAX_COMMANDS \in Nat \ {0}
        /\ MaxSpurious \in Nat /\ Main \in Procs /\ Threads \subseteq Procs
    BY SizeAssumption, InputAssumption DEF Procs
  <1>1. CASE ReadLine
    <2>1. line' \in 1..Len(input)+1 /\ item' \in [Procs -> 0..Len(input)]
      BY <1>0, <1>1 DEF ReadLine
    <2>2. pc' \in [Procs -> Labels] /\ exited' \in BOOLEAN
      BY <1>1 DEF ReadLine
    <2> QED
      BY <1>1, <2>1, <2>2 DEF ReadLine, queueVars, syncVars
  <1>2. CASE ReadEndOfFile
    BY <1>0, <1>2 DEF ReadEndOfFile, queueVars, syncVars, EOF
  <1>3. ASSUME NEW p \in Procs, InsertLock(p) \/ InsertRelock(p) PROVE TypeOK'
    BY <1>0, <1>3 DEF InsertLock, InsertRelock, Lock, queueVars
  <1>4. ASSUME NEW p \in Procs, InsertWait(p) PROVE TypeOK'
    BY <1>0, <1>4 DEF InsertWait, queueVars
  <1>5. ASSUME NEW p \in Procs, InsertStore(p) PROVE TypeOK'
    <2>1. /\ canRemove' \subseteq Threads
          /\ AfterInsert(p) \in Labels
      BY <1>5 DEF InsertStore, Signalled, AfterInsert
    <2>2. /\ inputCommands' \in [0..MAX_COMMANDS-1 -> 0..Len(input)]
          /\ tailQueue' \in 0..MAX_COMMANDS-1
          /\ numberCommands' \in 0..MAX_COMMANDS
      BY <1>0, <1>5 DEF InsertStore, Next_, QueueFull
    <2> QED
      BY <1>5, <2>1, <2>2 DEF InsertStore
  <1>6. ASSUME NEW t \in Threads, RemoveLock(t) \/ RemoveRelock(t) PROVE TypeOK'
    BY <1>0, <1>6 DEF RemoveLock, RemoveRelock, Lock, queueVars
  <1>7. ASSUME NEW t \in Threads, RemoveWait(t) PROVE TypeOK'
    BY <1>0, <1>7 DEF RemoveWait, queueVars
  <1>8. ASSUME NEW t \in Threads, RemoveTake(t) PROVE TypeOK'
    BY <1>0, <1>8 DEF RemoveTake, Next_, QueueEmpty, Signalled, TakenSlot
  <1>9. ASSUME NEW t \in Threads, ApplyOp(t) PROVE TypeOK'
    <2>1. applied' \in [1..Len(input) -> Nat]
      BY <1>0, <1>9 DEF ApplyOp
    <2> QED
      BY <1>9, <2>1 DEF ApplyOp, queueVars, syncVars
  <1>10. ASSUME NEW t \in Threads, ApplyEndOfFile(t) PROVE TypeOK'
    BY <1>0, <1>10 DEF ApplyEndOfFile, queueVars, syncVars
  <1>11. CASE Join
    BY <1>0, <1>11 DEF Join, queueVars, syncVars
  <1>12. ASSUME NEW p \in Procs, SpuriousWakeup(p) PROVE TypeOK'
    BY <1>0, <1>12 DEF SpuriousWakeup, queueVars
  <1>13. CASE UNCHANGED vars
    BY <1>13 DEF vars, queueVars, syncVars
  <1> QED
    BY <1>0, <1>1, <1>2, <1>3, <1>4, <1>5, <1>6, <1>7, <1>8, <1>9, <1>10,
       <1>11, <1>12, <1>13
    DEF Next, MainStep, WorkerStep, Insert

\* Every variable keeps its type, whatever the number of workers, the capacity
\* and the input file.
THEOREM TypeCorrect == Spec => []TypeOK
  <1> QED
    BY InitType, NextType, PTL DEF Spec

-----------------------------------------------------------------------------
\* The inductive invariant behind the pill protocol.

InsertLabels == {"lockInsert", "insert", "waitInsert"}

\* The labels of each kind of thread.
Roles ==
    /\ pc[Main] \in InsertLabels \cup {"read", "join", "done"}
    /\ \A t \in Threads : pc[t] \in InsertLabels
            \cup {"lockRemove", "remove", "waitRemove", "apply", "ended"}

\* The queue is read and written by the owner of accessVector alone.
Mutex == \A p \in Procs : pc[p] \in {"insert", "remove"} => accessVector = p

Waiting ==
    /\ \A p \in canInsert : pc[p] = "waitInsert"
    /\ \A t \in canRemove : pc[t] = "waitRemove"

\* The three counters of the circular buffer agree.
Ring == tailQueue = Slot(numberCommands)

Ordered ==
    \A j, k \in Positions : j < k =>
        Queued(j) # EOF /\ (Queued(k) = EOF \/ Queued(j) < Queued(k))

\* What is queued was read before what main is about to queue.
ReadBefore ==
    /\ \A k \in Positions : Queued(k) < line
    /\ pc[Main] \in InsertLabels /\ item[Main] # EOF =>
           /\ item[Main] < line
           /\ \A k \in Positions : Queued(k) < item[Main]

\* The worker has the pill in its hands.
HasPill(t) == pc[t] \in InsertLabels \/ (pc[t] = "apply" /\ item[t] = EOF)

NoPillYet ==
    pc[Main] \in InsertLabels \cup {"read"} =>
        /\ \A k \in Positions : Queued(k) # EOF
        /\ \A t \in Threads : ~HasPill(t)

OnePill ==
    \A t \in Threads : HasPill(t) =>
        /\ item[t] = EOF /\ numberCommands = 0 /\ t \notin canInsert
        /\ \A u \in Threads : HasPill(u) => u = t

IInv == /\ TypeOK /\ Roles /\ Mutex /\ Waiting /\ Ring
        /\ Ordered /\ ReadBefore /\ NoPillYet /\ OnePill

-----------------------------------------------------------------------------
\* The arithmetic of the circular buffer: the positions of the queue are in
\* different slots, and the next position is in the next slot.
LEMMA SlotFacts ==
    ASSUME TypeOK
    PROVE  /\ \A k \in 0..MAX_COMMANDS : Slot(k) \in 0..MAX_COMMANDS-1
           /\ \A j, k \in 0..MAX_COMMANDS-1 : Slot(j) = Slot(k) => j = k
           /\ \A k \in 0..MAX_COMMANDS-1 : Next_(Slot(k)) = Slot(k + 1)
  BY SizeAssumption DEF TypeOK, Slot, Next_

\* Removing the oldest command moves every other one position forward.
LEMMA SlotShift ==
    ASSUME TypeOK, headQueue' = Next_(headQueue)
    PROVE  \A k \in 0..MAX_COMMANDS-1 : Slot(k)' = Slot(k + 1)
  BY SizeAssumption DEF TypeOK, Slot, Next_

-----------------------------------------------------------------------------
\* IInv holds when the threads start: the queue is empty.
LEMMA InitIInv == Init => IInv
  <1> SUFFICES ASSUME Init PROVE IInv
    OBVIOUS
  <1>1. TypeOK /\ numberCommands = 0
    BY InitType DEF Init
  <1>2. Roles /\ Mutex /\ Waiting /\ NoPillYet /\ OnePill
    BY ProcsAssumption
    DEF Init, Roles, Mutex, Waiting, NoPillYet, OnePill, HasPill, Procs,
        InsertLabels, Positions
  <1>3. Ring
    BY SizeAssumption DEF Init, Ring, Slot
  <1>4. Ordered /\ ReadBefore
    BY ProcsAssumption DEF Init, Ordered, ReadBefore, Positions, InsertLabels, Procs
  <1> QED
    BY <1>1, <1>2, <1>3, <1>4 DEF IInv

\* Every step keeps IInv.
LEMMA NextIInv == IInv /\ [Next]_vars => IInv'
  <1> SUFFICES ASSUME IInv, [Next]_vars PROVE IInv'
    OBVIOUS
  <1>y. TypeOK /\ TypeOK'
    BY NextType DEF IInv
  <1>0. /\ MAX_COMMANDS \in Nat \ {0}
        /\ Main \in Procs /\ Main \notin Threads /\ Threads \subseteq Procs
        /\ None \notin Procs /\ Len(input) \in Nat
    BY <1>y, SizeAssumption, ProcsAssumption DEF Procs, TypeOK
  <1>t. /\ pc \in [Procs -> Labels] /\ item \in [Procs -> 0..Len(input)]
        /\ line \in 1..Len(input)+1 /\ numberCommands \in 0..MAX_COMMANDS
        /\ canInsert \subseteq Procs /\ canRemove \subseteq Threads
    BY <1>y DEF TypeOK
  <1>n. \A k \in Positions : Queued(k) \in Nat
    <2> SUFFICES ASSUME NEW k \in Positions PROVE Queued(k) \in Nat
      OBVIOUS
    <2>1. k \in 0..MAX_COMMANDS
      BY <1>t, <1>0 DEF Positions
    <2>2. Slot(k) \in 0..MAX_COMMANDS-1
      BY <1>y, <2>1, SlotFacts
    <2> QED
      <3>1. inputCommands \in [0..MAX_COMMANDS-1 -> 0..Len(input)]
        BY <1>y DEF TypeOK
      <3> QED
        BY <1>0, <2>2, <3>1 DEF Queued
  <1> DEFINE Inv == /\ Roles /\ Mutex /\ Waiting /\ Ring
                    /\ Ordered /\ ReadBefore /\ NoPillYet /\ OnePill
  <1>i. Inv
    BY DEF IInv
  <1> SUFFICES Inv'
    BY <1>y DEF IInv
  <1>q. ASSUME UNCHANGED queueVars
        PROVE  /\ (Ring /\ Ordered)'
               /\ UNCHANGED numberCommands
               /\ \A k : Queued(k)' = Queued(k)
    BY <1>i, <1>q DEF Ring, Ordered, queueVars, Slot, Queued, Positions
  <1>1. CASE ReadLine
    <2>1. (Ring /\ Ordered)' /\ UNCHANGED numberCommands /\ \A k : Queued(k)' = Queued(k)
      BY <1>1, <1>q DEF ReadLine
    <2>2. Roles'
      BY <1>1, <1>i, <1>0, <1>t DEF ReadLine, Goto, Roles, InsertLabels
    <2>5. Mutex'
      BY <1>1, <1>i, <1>0, <1>t DEF ReadLine, Goto, Mutex, syncVars
    <2>6. Waiting'
      BY <1>1, <1>i, <1>0, <1>t DEF ReadLine, Goto, Waiting, syncVars
    <2>3. ReadBefore'
      BY <1>1, <1>i, <1>0, <1>t, <1>n, <2>1
      DEF ReadLine, Goto, ReadBefore, Positions, InsertLabels
    <2>4. (NoPillYet /\ OnePill)'
      BY <1>1, <1>i, <1>0, <1>t, <2>1
      DEF ReadLine, Goto, NoPillYet, OnePill, HasPill, Positions, InsertLabels
    <2> QED
      BY <2>1, <2>2, <2>3, <2>4, <2>5, <2>6
  <1>2. CASE ReadEndOfFile
    <2>1. (Ring /\ Ordered)' /\ UNCHANGED numberCommands /\ \A k : Queued(k)' = Queued(k)
      BY <1>2, <1>q DEF ReadEndOfFile
    <2>2. (Roles /\ Mutex /\ Waiting)'
      BY <1>2, <1>i, <1>0, <1>t DEF ReadEndOfFile, Goto, Roles, Mutex, Waiting, InsertLabels, syncVars
    <2>3. ReadBefore'
      BY <1>2, <1>i, <1>0, <1>t, <2>1
      DEF ReadEndOfFile, Goto, ReadBefore, Positions, InsertLabels
    <2>4. (NoPillYet /\ OnePill)'
      BY <1>2, <1>i, <1>0, <1>t, <2>1
      DEF ReadEndOfFile, Goto, NoPillYet, OnePill, HasPill, Positions, InsertLabels
    <2> QED
      BY <2>1, <2>2, <2>3, <2>4
  <1>3. ASSUME NEW p \in Procs, InsertLock(p) \/ InsertRelock(p) PROVE Inv'
    <2>1. (Ring /\ Ordered)' /\ UNCHANGED numberCommands /\ \A k : Queued(k)' = Queued(k)
      BY <1>3, <1>q DEF InsertLock, InsertRelock, Lock
    <2>2. Roles'
      BY <1>3, <1>i, <1>0, <1>t DEF InsertLock, InsertRelock, Lock, Goto, Roles, InsertLabels
    <2>3. Mutex'
      BY <1>3, <1>i, <1>0, <1>t DEF InsertLock, InsertRelock, Lock, Goto, Mutex, syncVars
    <2>4. Waiting'
      BY <1>3, <1>i, <1>0, <1>t DEF InsertLock, InsertRelock, Lock, Goto, Waiting, syncVars
    <2>5. ReadBefore'
      BY <1>3, <1>i, <1>0, <1>t, <1>n, <2>1
      DEF InsertLock, InsertRelock, Lock, Goto, ReadBefore, Positions, InsertLabels
    <2>6. (NoPillYet /\ OnePill)'
      BY <1>3, <1>i, <1>0, <1>t, <2>1
      DEF InsertLock, InsertRelock, Lock, Goto, NoPillYet, OnePill, HasPill, Positions, InsertLabels
    <2> QED
      BY <2>1, <2>2, <2>3, <2>4, <2>5, <2>6
  <1>4. ASSUME NEW p \in Procs, InsertWait(p) PROVE Inv'
    <2>1. (Ring /\ Ordered)' /\ UNCHANGED numberCommands /\ \A k : Queued(k)' = Queued(k)
      BY <1>4, <1>q DEF InsertWait
    <2>2. Roles'
      BY <1>4, <1>i, <1>0, <1>t DEF InsertWait, Goto, Roles, InsertLabels
    <2>3. Mutex'
      BY <1>4, <1>i, <1>0, <1>t DEF InsertWait, Goto, Mutex, syncVars
    <2>4. Waiting'
      BY <1>4, <1>i, <1>0, <1>t DEF InsertWait, Goto, Waiting, syncVars
    <2>5. ReadBefore'
      BY <1>4, <1>i, <1>0, <1>t, <1>n, <2>1
      DEF InsertWait, Goto, ReadBefore, Positions, InsertLabels
    <2>6. (NoPillYet /\ OnePill)'
      BY <1>4, <1>i, <1>0, <1>t, <2>1
      DEF InsertWait, Goto, NoPillYet, OnePill, HasPill, Positions, InsertLabels, QueueFull
    <2> QED
      BY <2>1, <2>2, <2>3, <2>4, <2>5, <2>6
  <1>6. ASSUME NEW t \in Threads, RemoveLock(t) \/ RemoveRelock(t) PROVE Inv'
    <2>1. (Ring /\ Ordered)' /\ UNCHANGED numberCommands /\ \A k : Queued(k)' = Queued(k)
      BY <1>6, <1>q DEF RemoveLock, RemoveRelock, Lock
    <2>2. Roles'
      BY <1>6, <1>i, <1>0, <1>t DEF RemoveLock, RemoveRelock, Lock, Goto, Roles, InsertLabels
    <2>3. Mutex'
      BY <1>6, <1>i, <1>0, <1>t DEF RemoveLock, RemoveRelock, Lock, Goto, Mutex, syncVars
    <2>4. Waiting'
      BY <1>6, <1>i, <1>0, <1>t DEF RemoveLock, RemoveRelock, Lock, Goto, Waiting, syncVars
    <2>5. ReadBefore'
      BY <1>6, <1>i, <1>0, <1>t, <1>n, <2>1
      DEF RemoveLock, RemoveRelock, Lock, Goto, ReadBefore, Positions, InsertLabels
    <2>6. (NoPillYet /\ OnePill)'
      BY <1>6, <1>i, <1>0, <1>t, <2>1
      DEF RemoveLock, RemoveRelock, Lock, Goto, NoPillYet, OnePill, HasPill, Positions, InsertLabels
    <2> QED
      BY <2>1, <2>2, <2>3, <2>4, <2>5, <2>6
  <1>7. ASSUME NEW t \in Threads, RemoveWait(t) PROVE Inv'
    <2>1. (Ring /\ Ordered)' /\ UNCHANGED numberCommands /\ \A k : Queued(k)' = Queued(k)
      BY <1>7, <1>q DEF RemoveWait
    <2>2. Roles'
      BY <1>7, <1>i, <1>0, <1>t DEF RemoveWait, Goto, Roles, InsertLabels
    <2>3. Mutex'
      BY <1>7, <1>i, <1>0, <1>t DEF RemoveWait, Goto, Mutex, syncVars
    <2>4. Waiting'
      BY <1>7, <1>i, <1>0, <1>t DEF RemoveWait, Goto, Waiting, syncVars
    <2>5. ReadBefore'
      BY <1>7, <1>i, <1>0, <1>t, <1>n, <2>1
      DEF RemoveWait, Goto, ReadBefore, Positions, InsertLabels
    <2>6. (NoPillYet /\ OnePill)'
      BY <1>7, <1>i, <1>0, <1>t, <2>1
      DEF RemoveWait, Goto, NoPillYet, OnePill, HasPill, Positions, InsertLabels
    <2> QED
      BY <2>1, <2>2, <2>3, <2>4, <2>5, <2>6
  <1>9. ASSUME NEW t \in Threads, ApplyOp(t) PROVE Inv'
    <2>1. (Ring /\ Ordered)' /\ UNCHANGED numberCommands /\ \A k : Queued(k)' = Queued(k)
      BY <1>9, <1>q DEF ApplyOp
    <2>2. Roles'
      BY <1>9, <1>i, <1>0, <1>t DEF ApplyOp, Goto, Roles, InsertLabels
    <2>3. Mutex'
      BY <1>9, <1>i, <1>0, <1>t DEF ApplyOp, Goto, Mutex, syncVars
    <2>4. Waiting'
      BY <1>9, <1>i, <1>0, <1>t DEF ApplyOp, Goto, Waiting, syncVars
    <2>5. ReadBefore'
      BY <1>9, <1>i, <1>0, <1>t, <1>n, <2>1
      DEF ApplyOp, Goto, ReadBefore, Positions, InsertLabels
    <2>6. (NoPillYet /\ OnePill)'
      BY <1>9, <1>i, <1>0, <1>t, <2>1
      DEF ApplyOp, Goto, NoPillYet, OnePill, HasPill, Positions, InsertLabels, syncVars
    <2> QED
      BY <2>1, <2>2, <2>3, <2>4, <2>5, <2>6
  <1>10. ASSUME NEW t \in Threads, ApplyEndOfFile(t) PROVE Inv'
    <2>1. (Ring /\ Ordered)' /\ UNCHANGED numberCommands /\ \A k : Queued(k)' = Queued(k)
      BY <1>10, <1>q DEF ApplyEndOfFile
    <2>2. Roles'
      BY <1>10, <1>i, <1>0, <1>t DEF ApplyEndOfFile, Goto, Roles, InsertLabels
    <2>3. Mutex'
      BY <1>10, <1>i, <1>0, <1>t DEF ApplyEndOfFile, Goto, Mutex, syncVars
    <2>4. Waiting'
      BY <1>10, <1>i, <1>0, <1>t DEF ApplyEndOfFile, Goto, Waiting, syncVars
    <2>5. ReadBefore'
      BY <1>10, <1>i, <1>0, <1>t, <1>n, <2>1
      DEF ApplyEndOfFile, Goto, ReadBefore, Positions, InsertLabels
    <2>6. (NoPillYet /\ OnePill)'
      BY <1>10, <1>i, <1>0, <1>t, <2>1
      DEF ApplyEndOfFile, Goto, NoPillYet, OnePill, HasPill, Positions, InsertLabels, syncVars
    <2> QED
      BY <2>1, <2>2, <2>3, <2>4, <2>5, <2>6
  <1>11. CASE Join
    <2>1. (Ring /\ Ordered)' /\ UNCHANGED numberCommands /\ \A k : Queued(k)' = Queued(k)
      BY <1>11, <1>q DEF Join
    <2>2. Roles'
      BY <1>11, <1>i, <1>0, <1>t DEF Join, Goto, Roles, InsertLabels
    <2>3. Mutex'
      BY <1>11, <1>i, <1>0, <1>t DEF Join, Goto, Mutex, syncVars
    <2>4. Waiting'
      BY <1>11, <1>i, <1>0, <1>t DEF Join, Goto, Waiting, syncVars
    <2>5. ReadBefore'
      BY <1>11, <1>i, <1>0, <1>t, <1>n, <2>1
      DEF Join, Goto, ReadBefore, Positions, InsertLabels
    <2>6. (NoPillYet /\ OnePill)'
      BY <1>11, <1>i, <1>0, <1>t, <2>1
      DEF Join, Goto, NoPillYet, OnePill, HasPill, Positions, InsertLabels
    <2> QED
      BY <2>1, <2>2, <2>3, <2>4, <2>5, <2>6
  <1>12. ASSUME NEW p \in Procs, SpuriousWakeup(p) PROVE Inv'
    <2>1. (Ring /\ Ordered)' /\ UNCHANGED numberCommands /\ \A k : Queued(k)' = Queued(k)
      BY <1>12, <1>q DEF SpuriousWakeup
    <2>2. Roles'
      BY <1>12, <1>i, <1>0, <1>t DEF SpuriousWakeup, Goto, Roles, InsertLabels
    <2>3. Mutex'
      BY <1>12, <1>i, <1>0, <1>t DEF SpuriousWakeup, Goto, Mutex, syncVars
    <2>4. Waiting'
      BY <1>12, <1>i, <1>0, <1>t DEF SpuriousWakeup, Goto, Waiting, syncVars
    <2>5. ReadBefore'
      BY <1>12, <1>i, <1>0, <1>t, <1>n, <2>1
      DEF SpuriousWakeup, Goto, ReadBefore, Positions, InsertLabels
    <2>6. (NoPillYet /\ OnePill)'
      BY <1>12, <1>i, <1>0, <1>t, <2>1
      DEF SpuriousWakeup, Goto, NoPillYet, OnePill, HasPill, Positions, InsertLabels
    <2> QED
      BY <2>1, <2>2, <2>3, <2>4, <2>5, <2>6
  <1>13. CASE UNCHANGED vars
    <2>1. (Ring /\ Ordered)' /\ UNCHANGED numberCommands /\ \A k : Queued(k)' = Queued(k)
      BY <1>13, <1>q DEF vars
    <2>2. Roles'
      BY <1>13, <1>i, <1>0, <1>t DEF vars, Goto, Roles, InsertLabels
    <2>3. Mutex'
      BY <1>13, <1>i, <1>0, <1>t DEF vars, Goto, Mutex, syncVars
    <2>4. Waiting'
      BY <1>13, <1>i, <1>0, <1>t DEF vars, Goto, Waiting, syncVars
    <2>5. ReadBefore'
      BY <1>13, <1>i, <1>0, <1>t, <1>n, <2>1
      DEF vars, Goto, ReadBefore, Positions, InsertLabels
    <2>6. (NoPillYet /\ OnePill)'
      BY <1>13, <1>i, <1>0, <1>t, <2>1
      DEF vars, Goto, NoPillYet, OnePill, HasPill, Positions, InsertLabels, syncVars
    <2> QED
      BY <2>1, <2>2, <2>3, <2>4, <2>5, <2>6
  <1>5. ASSUME NEW p \in Procs, InsertStore(p) PROVE Inv'
    <2>0. numberCommands < MAX_COMMANDS /\ numberCommands' = numberCommands + 1
      BY <1>5, <1>0, <1>t DEF InsertStore, QueueFull
    <2>s. \A k : Slot(k)' = Slot(k)
      BY <1>5 DEF InsertStore, Slot
    <2>1. Ring'
      BY <1>5, <1>i, <1>y, <1>t, <1>0, <2>0, <2>s, SlotFacts DEF InsertStore, Ring
    <2>2. \A k : k = numberCommands => Queued(k)' = item[p]
      <3>1. tailQueue \in 0..MAX_COMMANDS-1
        BY <1>y DEF TypeOK
      <3>2. inputCommands \in [0..MAX_COMMANDS-1 -> 0..Len(input)]
        BY <1>y DEF TypeOK
      <3> QED
        BY <1>5, <1>i, <2>s, <3>1, <3>2 DEF InsertStore, Queued, Ring
    <2>3. \A k \in Positions : Queued(k)' = Queued(k)
      <3> SUFFICES ASSUME NEW k \in Positions PROVE Queued(k)' = Queued(k)
        OBVIOUS
      <3>1. k \in 0..MAX_COMMANDS-1 /\ numberCommands \in 0..MAX_COMMANDS-1 /\ k # numberCommands
        BY <1>0, <1>t, <2>0 DEF Positions
      <3>2. Slot(k) \in 0..MAX_COMMANDS-1 /\ Slot(k) # Slot(numberCommands)
        <4>1. k \in 0..MAX_COMMANDS
          BY <1>0, <3>1
        <4> QED
          BY <1>y, <3>1, <4>1, SlotFacts
      <3>3. Slot(k) # tailQueue
        BY <1>i, <3>2 DEF Ring
      <3> QED
        BY <1>5, <2>s, <3>2, <3>3 DEF InsertStore, Queued
    <2>4. Positions' = Positions \cup {numberCommands}
      BY <1>t, <2>0 DEF Positions
    <2>5. /\ p \in Threads => item[p] = EOF /\ numberCommands = 0
          /\ p = Main /\ item[p] # EOF => \A k \in Positions : Queued(k) < item[p] /\ Queued(k) # EOF
          /\ p = Main => \A k \in Positions : Queued(k) # EOF
      BY <1>5, <1>i
      DEF InsertStore, OnePill, HasPill, ReadBefore, NoPillYet, InsertLabels
    <2>6. Ordered'
      BY <1>t, <1>i, <1>n, <2>2, <2>3, <2>4, <2>5 DEF Ordered, Positions, Procs
    <2>7. (Roles /\ Mutex /\ Waiting)'
      <3>1. Roles'
        BY <1>5, <1>i, <1>0, <1>t DEF InsertStore, Goto, AfterInsert, Roles, InsertLabels
      <3>2. Mutex'
        BY <1>5, <1>i, <1>0, <1>t DEF InsertStore, Goto, AfterInsert, Mutex
      <3>3. Waiting'
        BY <1>5, <1>i, <1>0, <1>t DEF InsertStore, Goto, Signalled, Waiting
      <3> QED
        BY <3>1, <3>2, <3>3
    <2>8. ReadBefore'
      BY <1>5, <1>i, <1>0, <1>t, <1>n, <2>2, <2>3, <2>4, <2>5
      DEF InsertStore, Goto, AfterInsert, ReadBefore, InsertLabels, Procs, EOF
    <2>9. NoPillYet'
      BY <1>5, <1>i, <1>0, <1>t, <2>2, <2>3, <2>4, <2>5
      DEF InsertStore, Goto, AfterInsert, NoPillYet, HasPill, InsertLabels, Procs
    <2>10. OnePill'
      BY <1>5, <1>i, <1>0, <1>t, <2>0
      DEF InsertStore, Goto, AfterInsert, NoPillYet, OnePill, HasPill, InsertLabels, Procs
    <2> QED
      BY <2>1, <2>6, <2>7, <2>8, <2>9, <2>10
  <1>8. ASSUME NEW t \in Threads, RemoveTake(t) PROVE Inv'
    <2>0. numberCommands > 0 /\ numberCommands' = numberCommands - 1
      BY <1>8, <1>0, <1>t DEF RemoveTake, QueueEmpty
    <2>s. \A k \in 0..MAX_COMMANDS-1 : Slot(k)' = Slot(k + 1)
      BY <1>8, <1>y, SlotShift DEF RemoveTake
    <2>1. Ring'
      BY <1>8, <1>i, <1>t, <1>0, <2>0, <2>s DEF RemoveTake, Ring
    <2>2. Queued(0) = inputCommands[headQueue]
      BY <1>y, <1>0 DEF TypeOK, Queued, Slot
    <2>3. \A k \in Positions' : k + 1 \in Positions /\ Queued(k)' = Queued(k + 1)
      BY <1>8, <1>0, <1>t, <2>0, <2>s DEF RemoveTake, Positions, Queued
    <2>4. 0 \in Positions /\ \A k \in Positions' : k \in Nat /\ 0 < k + 1
      BY <1>t, <2>0 DEF Positions
    <2>5. Ordered'
      BY <1>i, <2>3, <2>4 DEF Ordered
    <2>6. Roles'
      BY <1>8, <1>i, <1>0, <1>t DEF RemoveTake, Goto, Roles, InsertLabels
    <2>7. Mutex'
      BY <1>8, <1>i, <1>0, <1>t DEF RemoveTake, Goto, Mutex
    <2>8. Waiting'
      BY <1>8, <1>i, <1>0, <1>t DEF RemoveTake, Goto, Signalled, Waiting
    <2>9. ReadBefore'
      BY <1>8, <1>i, <1>0, <1>t, <2>3 DEF RemoveTake, Goto, ReadBefore, InsertLabels
    <2>10. NoPillYet'
      BY <1>8, <1>i, <1>0, <1>t, <2>2, <2>3, <2>4
      DEF RemoveTake, TakenSlot, Goto, NoPillYet, HasPill, InsertLabels
    <2>11. item'[t] = EOF => numberCommands' = 0
      <3>1. ASSUME item'[t] = EOF, numberCommands' > 0 PROVE FALSE
        <4>1. 0 \in Positions /\ 1 \in Positions /\ Queued(0) = EOF
          BY <1>0, <1>8, <1>t, <2>0, <2>2, <3>1 DEF RemoveTake, TakenSlot, Positions
        <4> QED
          BY <1>i, <4>1 DEF Ordered
      <3> QED
        BY <3>1, <1>t, <2>0
    <2>12. \A u \in Threads : ~HasPill(u)
      BY <1>i, <2>0, <1>t DEF OnePill
    <2>13. OnePill'
      BY <1>8, <1>i, <1>0, <1>t, <2>11, <2>12
      DEF RemoveTake, Goto, Signalled, Waiting, OnePill, HasPill, InsertLabels
    <2> QED
      BY <2>1, <2>5, <2>6, <2>7, <2>8, <2>9, <2>10, <2>13
  <1> QED
    BY <1>1, <1>2, <1>3, <1>4, <1>5, <1>6, <1>7, <1>8, <1>9, <1>10,
       <1>11, <1>12, <1>13
    DEF Next, MainStep, WorkerStep, Insert, Procs

\* The queue is in order, the pill is queued, held or put back by one thread at
\* most, and the mutex has one owner, in every reachable state.
THEOREM Inductive == Spec => []IInv
  <1> QED
    BY InitIInv, NextIInv, PTL DEF Spec

-----------------------------------------------------------------------------
\* The pill stays behind every command: no worker can end while a command is
\* queued.
THEOREM PillStaysLast == Spec => []PillIsLast
  <1>1. IInv => PillIsLast
    BY DEF IInv, Ordered, OnePill, HasPill, PillIsLast
  <1> QED
    BY <1>1, Inductive, PTL

\* Putting the pill back never blocks a worker, for any number of workers and
\* even if the buffer had one slot.
THEOREM PillNeverBlocks == Spec => []WorkerNeverWaitsToInsert
  <1>1. IInv => WorkerNeverWaitsToInsert
    BY DEF IInv, OnePill, HasPill, InsertLabels, WorkerNeverWaitsToInsert
  <1> QED
    BY <1>1, Inductive, PTL

-----------------------------------------------------------------------------
\* What the refinement rests on, beside IInv.

MainHas(i) == pc[Main] \in InsertLabels /\ item[Main] = i

\* One line was removed last, and what is queued or about to be comes after it.
RemovedFirst ==
    /\ \E m \in RemovedLines \cup {0} : \A j \in RemovedLines : j <= m
    /\ \A j \in RemovedLines :
          /\ j < line
          /\ \A k \in Positions : Queued(k) # EOF => j < Queued(k)
          /\ pc[Main] \in InsertLabels /\ item[Main] # EOF => j < item[Main]

\* No line is lost: what was read is skipped, removed, queued, or about to be.
Accounted ==
    \A i \in 1..line-1 :
        \/ exited \/ input[i] = "skip" \/ i \in RemovedLines
        \/ (\E k \in Positions : Queued(k) = i) \/ MainHas(i)

\* Only lines that main accepts are queued.
Accepted ==
    /\ \A k \in Positions : Queued(k) # EOF => input[Queued(k)] \in {"op", "wrong"}
    /\ pc[Main] \in InsertLabels /\ item[Main] # EOF =>
          input[item[Main]] \in {"op", "wrong"}

AllRead ==
    pc[Main] \in {"join", "done"} \/ MainHas(EOF) => line = Len(input) + 1

AllEnded == pc[Main] = "done" => \A t \in Threads : pc[t] = "ended"

RInv == RemovedFirst /\ Accounted /\ Accepted /\ AllRead /\ AllEnded

-----------------------------------------------------------------------------
\* The greatest line is the one chosen.
LEMMA Greatest ==
    ASSUME NEW S \in SUBSET Nat, NEW m \in S \cup {0}, \A j \in S : j <= m
    PROVE  (CHOOSE i \in S \cup {0} : \A j \in S : j <= i) = m
<1> DEFINE c == CHOOSE i \in S \cup {0} : \A j \in S : j <= i
<1>1. c \in S \cup {0} /\ \A j \in S : j <= c
  OBVIOUS
<1> HIDE DEF c
<1>2. c \in Nat /\ m \in Nat
  BY <1>1
<1>3. c = m
  BY <1>1, <1>2
<1>4. QED
  BY <1>3 DEF c

LEMMA InitRInv == Init => RInv
<1> SUFFICES ASSUME Init PROVE RInv
  OBVIOUS
<1>1. TypeOK /\ Main \notin Threads /\ Main \in Procs
  BY InitType, ProcsAssumption DEF Procs
<1>2. RemovedLines = {}
  BY <1>1 DEF Init, RemovedLines, Procs
<1>3. RemovedFirst
  BY <1>2 DEF RemovedFirst
<1>4. Positions = {}
  BY DEF Init, Positions
<1>5. pc[Main] = "read" /\ line = 1
  BY <1>1 DEF Init
<1>6. QED
  BY <1>3, <1>4, <1>5 DEF RInv, Accounted, Accepted, AllRead, AllEnded,
     InsertLabels, MainHas

-----------------------------------------------------------------------------
\* Steps that remove and queue nothing.
LEMMA QuietRInv ==
    ASSUME RInv, UNCHANGED <<input, line, queueVars, exited>>,
           RemovedLines' = RemovedLines,
           pc'[Main] \in InsertLabels <=> pc[Main] \in InsertLabels,
           item'[Main] = item[Main],
           pc'[Main] \in {"join", "done"} <=> pc[Main] \in {"join", "done"},
           AllEnded'
    PROVE  RInv'
<1>1. /\ \A k : Queued(k)' = Queued(k)
      /\ Positions' = Positions
      /\ \A i : MainHas(i)' = MainHas(i)
  BY DEF queueVars, Queued, Slot, Positions, MainHas
<1>2. RemovedFirst'
  BY <1>1 DEF RInv, RemovedFirst
<1>3. Accounted'
  BY <1>1 DEF RInv, Accounted
<1>4. Accepted' /\ AllRead'
  BY <1>1 DEF RInv, Accepted, AllRead
<1>5. QED
  BY <1>2, <1>3, <1>4 DEF RInv

\* The threads whose label is another one afterwards neither have a line in
\* hand nor get one.
LEMMA SameRemoved ==
    ASSUME UNCHANGED <<input, applied>>,
           \A t \in Threads : \/ pc'[t] = pc[t] /\ item'[t] = item[t]
                              \/ /\ pc[t] # "apply" \/ item[t] = EOF
                                 /\ pc'[t] # "apply" \/ item'[t] = EOF
    PROVE  RemovedLines' = RemovedLines /\ InHand' = InHand
<1>1. \A t \in Threads : \A i \in 1..Len(input) :
         pc'[t] = "apply" /\ item'[t] = i <=> pc[t] = "apply" /\ item[t] = i
  <2> SUFFICES ASSUME NEW t \in Threads, NEW i \in 1..Len(input)
               PROVE  pc'[t] = "apply" /\ item'[t] = i
                        <=> pc[t] = "apply" /\ item[t] = i
    OBVIOUS
  <2>1. i # EOF
    BY DEF EOF
  <2>2. QED
    BY <2>1
<1>2. RemovedLines' = RemovedLines
  BY <1>1 DEF RemovedLines
<1>3. InHand' = InHand
  BY DEF InHand
<1>4. QED
  BY <1>2, <1>3

LEMMA RemovedAreLines == RemovedLines \in SUBSET Nat
BY DEF RemovedLines

\* Handed is the last line removed.
LEMMA HandedIsLast ==
    ASSUME RemovedFirst
    PROVE  /\ Handed \in RemovedLines \cup {0}
           /\ \A j \in RemovedLines : j <= Handed
           /\ Handed \in Nat
<1>1. PICK m \in RemovedLines \cup {0} : \A j \in RemovedLines : j <= m
  BY DEF RemovedFirst
<1>2. Handed = m
  BY <1>1, RemovedAreLines, Greatest DEF Handed
<1>3. QED
  BY <1>1, <1>2, RemovedAreLines

\* The last line removed stays it, if no other is removed.
LEMMA HandedStays ==
    ASSUME RemovedFirst, RemovedLines' = RemovedLines
    PROVE  Handed' = Handed
<1>1. PICK m \in RemovedLines \cup {0} : \A j \in RemovedLines : j <= m
  BY DEF RemovedFirst
<1>2. Handed = m
  BY <1>1, RemovedAreLines, Greatest DEF Handed
<1>3. Handed' = m
  <2>1. RemovedLines' \in SUBSET Nat
    BY RemovedAreLines
  <2>2. QED
    BY <1>1, <2>1, Greatest DEF Handed
<1>4. QED
  BY <1>2, <1>3

\* What Dispatch does not see.
LEMMA Unseen ==
    ASSUME RemovedFirst, UNCHANGED <<input, applied, exited>>,
           RemovedLines' = RemovedLines, InHand' = InHand,
           \A t \in Threads : pc'[t] = "ended" <=> pc[t] = "ended",
           pc'[Main] = "done" <=> pc[Main] = "done"
    PROVE  UNCHANGED Dispatch!vars
<1>1. Handed' = Handed
  BY HandedStays
<1>2. Over' = Over /\ Phase' = Phase
  BY DEF Over, Phase
<1>3. QED
  BY <1>1, <1>2 DEF Dispatch!vars

-----------------------------------------------------------------------------
\* A step Dispatch sees or not; what every step may use.
Simulates == RInv' /\ [Dispatch!Next]_(Dispatch!vars)

LEMMA Types ==
    ASSUME IInv
    PROVE  /\ Main \in Procs /\ Main \notin Threads /\ Threads \subseteq Procs
           /\ Len(input) \in Nat /\ line \in 1..Len(input)+1
           /\ numberCommands \in 0..MAX_COMMANDS
           /\ pc \in [Procs -> Labels] /\ item \in [Procs -> 0..Len(input)]
           /\ applied \in [1..Len(input) -> Nat]
           /\ pc[Main] \in InsertLabels \cup {"read", "join", "done"}
           /\ \A t \in Threads : pc[t] \in InsertLabels
                  \cup {"lockRemove", "remove", "waitRemove", "apply", "ended"}
BY ProcsAssumption DEF IInv, TypeOK, Roles, Procs

\* Steps that only change the label of one thread, to none that counts.
LEMMA QuietStep ==
    ASSUME IInv, RInv, UNCHANGED <<input, line, queueVars, exited, applied, item>>,
           NEW p \in Procs,
           pc' = pc \/ \E label \in InsertLabels \cup {"remove", "waitRemove"} :
                          pc' = [pc EXCEPT ![p] = label],
           pc' # pc => /\ pc[p] \notin {"ended", "done", "join", "read"}
                       /\ pc[p] = "apply" => item[p] = EOF
                       /\ p = Main => pc'[p] \in InsertLabels
    PROVE  Simulates
<1> USE Types
<1>1. \A t \in Threads : pc'[t] = "ended" <=> pc[t] = "ended"
  BY DEF InsertLabels
<1>2. /\ pc'[Main] \in InsertLabels <=> pc[Main] \in InsertLabels
      /\ \A label \in {"join", "done"} : pc'[Main] = label <=> pc[Main] = label
  BY DEF InsertLabels
<1>3. \A t \in Threads : \/ pc'[t] = pc[t] /\ item'[t] = item[t]
                         \/ /\ pc[t] # "apply" \/ item[t] = EOF
                            /\ pc'[t] # "apply" \/ item'[t] = EOF
  BY DEF InsertLabels
<1>4. RemovedLines' = RemovedLines /\ InHand' = InHand
  BY <1>3, SameRemoved
<1>5. AllEnded'
  BY <1>1, <1>2 DEF RInv, AllEnded
<1>6. RInv'
  BY <1>2, <1>4, <1>5, QuietRInv
<1>7. UNCHANGED Dispatch!vars
  BY <1>1, <1>2, <1>4, Unseen DEF RInv
<1>8. QED
  BY <1>6, <1>7 DEF Simulates

LEMMA LockSimulates ==
    ASSUME IInv, RInv, NEW p \in Procs,
           \/ InsertLock(p) \/ InsertRelock(p) \/ InsertWait(p)
           \/ p \in Threads /\ (RemoveLock(p) \/ RemoveRelock(p) \/ RemoveWait(p)
                               \/ ApplyEndOfFile(p))
    PROVE  Simulates
<1>1. \E label \in InsertLabels \cup {"remove", "waitRemove"} :
         pc' = [pc EXCEPT ![p] = label]
  BY DEF InsertLock, InsertRelock, InsertWait, RemoveLock, RemoveRelock,
         RemoveWait, ApplyEndOfFile, Lock, Goto, InsertLabels
<1>2. /\ pc[p] \notin {"ended", "done", "join", "read"}
      /\ pc[p] = "apply" => item[p] = EOF
      /\ p = Main => pc'[p] \in InsertLabels
  BY Types DEF InsertLock, InsertRelock, InsertWait, RemoveLock, RemoveRelock,
               RemoveWait, ApplyEndOfFile, Lock, Goto, InsertLabels
<1>3. UNCHANGED <<input, line, queueVars, exited, applied, item>>
  BY DEF InsertLock, InsertRelock, InsertWait, RemoveLock, RemoveRelock,
         RemoveWait, ApplyEndOfFile, Lock
<1>4. QED
  BY <1>1, <1>2, <1>3, QuietStep

LEMMA SpuriousSimulates ==
    ASSUME IInv, RInv, NEW p \in Procs, SpuriousWakeup(p)
    PROVE  Simulates
<1>1. UNCHANGED <<input, line, queueVars, exited, applied, item, pc>>
  BY DEF SpuriousWakeup
<1>2. QED
  BY <1>1, QuietStep

LEMMA JoinSimulates ==
    ASSUME IInv, RInv, ~exited, Join
    PROVE  Simulates
<1> USE Types
<1>1. /\ pc[Main] = "join" /\ pc' = [pc EXCEPT ![Main] = "done"]
      /\ \A t \in Threads : pc[t] = "ended"
      /\ UNCHANGED <<input, line, queueVars, item, applied, exited>>
  BY DEF Join, Goto
<1>2. \A t \in Threads : pc'[t] = pc[t] /\ item'[t] = item[t]
  BY <1>1
<1>3. RemovedLines' = RemovedLines /\ InHand' = InHand
  BY <1>1, <1>2, SameRemoved
<1>4. AllEnded' /\ pc'[Main] = "done"
  BY <1>1, <1>2 DEF AllEnded
<1>5. RInv'
  BY <1>1, <1>3, <1>4, QuietRInv DEF InsertLabels
<1>6. Handed' = Handed
  BY <1>3, HandedStays DEF RInv
<1>7. Phase = "running" /\ Phase' = "done" /\ Over = Threads /\ Over' = Over
  BY <1>1, <1>2, <1>4 DEF Phase, Over
<1>8. Dispatch!PrintTree
  BY <1>1, <1>3, <1>6, <1>7 DEF Dispatch!PrintTree
<1>9. QED
  BY <1>5, <1>8 DEF Simulates, Dispatch!Next

\* Main reads a line: it is skipped, refused, or about to be queued.
LEMMA ReadLineSimulates ==
    ASSUME IInv, RInv, ~exited, ReadLine
    PROVE  Simulates
<1> USE Types
<1>1. /\ pc[Main] = "read" /\ line <= Len(input) /\ line' = line + 1
      /\ UNCHANGED <<input, queueVars, applied>>
  BY DEF ReadLine
<1>2. /\ \A k : Queued(k)' = Queued(k)
      /\ Positions' = Positions
      /\ \A k \in Positions : Queued(k) < line
  BY <1>1 DEF queueVars, Queued, Slot, Positions, IInv, ReadBefore
<1>3. \A t \in Threads : pc'[t] = pc[t] /\ item'[t] = item[t]
  BY DEF ReadLine, Goto
<1>4. RemovedLines' = RemovedLines /\ InHand' = InHand
  BY <1>1, <1>3, SameRemoved
<1>5. /\ RemovedFirst /\ \A j \in RemovedLines : j < line /\ j < line'
  BY <1>1, RemovedAreLines DEF RInv, RemovedFirst
<1>6. \/ /\ input[line] = "skip" /\ UNCHANGED <<pc, item, exited>>
      \/ /\ input[line] = "bad" /\ exited' = TRUE /\ UNCHANGED <<pc, item>>
      \/ /\ input[line] \in {"op", "wrong"} /\ pc'[Main] = "lockInsert"
         /\ item'[Main] = line /\ UNCHANGED exited
  BY DEF ReadLine, Goto
<1>7. line # EOF
  BY DEF EOF
<1>8. RInv'
  <2>1. RemovedFirst'
    BY <1>1, <1>2, <1>4, <1>5, <1>6 DEF RemovedFirst, InsertLabels
  <2>2. Accounted'
    <3> SUFFICES ASSUME NEW i \in 1..line, ~exited'
                 PROVE  \/ input[i] = "skip" \/ i \in RemovedLines
                        \/ (\E k \in Positions : Queued(k) = i) \/ MainHas(i)'
      BY <1>1, <1>2, <1>4 DEF Accounted
    <3>1. CASE i = line
      BY <1>6, <3>1 DEF MainHas, InsertLabels
    <3>2. CASE i # line
      <4>1. i \in 1..line-1 /\ ~MainHas(i)
        BY <1>1, <3>2 DEF MainHas, InsertLabels
      <4>2. QED
        BY <4>1 DEF RInv, Accounted
    <3>3. QED
      BY <3>1, <3>2
  <2>3. Accepted'
    BY <1>1, <1>2, <1>6 DEF RInv, Accepted, InsertLabels
  <2>4. AllRead' /\ AllEnded'
    BY <1>1, <1>6, <1>7 DEF AllRead, AllEnded, MainHas, InsertLabels
  <2>5. QED
    BY <2>1, <2>2, <2>3, <2>4 DEF RInv
<1>9. CASE UNCHANGED exited
  <2>1. pc'[Main] # "done" /\ pc[Main] # "done"
    BY <1>1, <1>6
  <2>2. UNCHANGED Dispatch!vars
    BY <1>1, <1>3, <1>4, <1>5, <1>9, <2>1, Unseen
  <2>3. QED
    BY <1>8, <2>2 DEF Simulates
<1>10. CASE input[line] = "bad" /\ exited' = TRUE /\ UNCHANGED <<pc, item>>
  <2>1. Handed < line /\ Handed \in Nat
    <3>1. Handed \in RemovedLines \cup {0}
      BY <1>5, HandedIsLast
    <3>2. \A j \in RemovedLines : j \in Nat /\ j < line
      BY <1>5, RemovedAreLines
    <3>3. 0 < line
      OBVIOUS
    <3>4. QED
      BY <3>1, <3>2, <3>3
  <2>2. \E i \in Handed+1..Len(input) : input[i] = "bad"
    <3>1. line \in Handed+1..Len(input)
      BY <1>1, <2>1
    <3>2. QED
      BY <1>10, <3>1
  <2>3. Handed' = Handed
    BY <1>4, <1>5, HandedStays
  <2>4. Phase = "running" /\ Phase' = "stopped" /\ Over' = Over
    BY <1>1, <1>10 DEF Phase, Over
  <2>5. Dispatch!Stop
    BY <1>1, <1>4, <2>2, <2>3, <2>4 DEF Dispatch!Stop
  <2>6. QED
    BY <1>8, <2>5 DEF Simulates, Dispatch!Next
<1>11. QED
  BY <1>6, <1>9, <1>10

LEMMA ReadEndOfFileSimulates ==
    ASSUME IInv, RInv, ReadEndOfFile
    PROVE  Simulates
<1> USE Types
<1>1. /\ pc[Main] = "read" /\ line > Len(input)
      /\ pc'[Main] = "lockInsert" /\ item'[Main] = EOF
      /\ UNCHANGED <<input, line, queueVars, applied, exited>>
  BY DEF ReadEndOfFile, Goto
<1>2. /\ \A k : Queued(k)' = Queued(k)
      /\ Positions' = Positions
  BY <1>1 DEF queueVars, Queued, Slot, Positions
<1>3. \A t \in Threads : pc'[t] = pc[t] /\ item'[t] = item[t]
  BY DEF ReadEndOfFile, Goto
<1>4. RemovedLines' = RemovedLines /\ InHand' = InHand
  BY <1>1, <1>3, SameRemoved
<1>5. RemovedFirst'
  BY <1>1, <1>2, <1>4 DEF RInv, RemovedFirst
<1>6. Accounted'
  BY <1>1, <1>2, <1>4 DEF RInv, Accounted, MainHas, InsertLabels
<1>7. Accepted' /\ AllRead' /\ AllEnded'
  BY <1>1, <1>2 DEF RInv, Accepted, AllRead, AllEnded
<1>8. UNCHANGED Dispatch!vars
  BY <1>1, <1>3, <1>4, Unseen DEF RInv
<1>9. QED
  BY <1>5, <1>6, <1>7, <1>8 DEF Simulates, RInv

\* A worker runs its line, or stops the program.
LEMMA ApplyOpSimulates ==
    ASSUME IInv, RInv, ~exited, NEW t \in Threads, ApplyOp(t)
    PROVE  Simulates
<1> USE Types
<1>1. /\ pc[t] = "apply" /\ item[t] # EOF
      /\ UNCHANGED <<input, line, queueVars, item>>
      /\ pc'[Main] = pc[Main] /\ pc[Main] # "done"
  BY DEF ApplyOp, Goto, RInv, AllEnded
<1>2. /\ t # Main /\ InHand[t] = item[t] /\ item[t] \in 1..Len(input)
  BY <1>1 DEF InHand, EOF
<1>3. CASE /\ input[item[t]] = "op"
           /\ applied' = [applied EXCEPT ![item[t]] = @ + 1]
           /\ Goto(t, "lockRemove") /\ UNCHANGED exited
  <2>1. \A i \in 1..Len(input) : applied'[i] > 0 <=> applied[i] > 0 \/ i = item[t]
    BY <1>2, <1>3
  <2>2. \A u \in Threads : pc'[u] = "apply" <=> pc[u] = "apply" /\ u # t
    BY <1>3 DEF Goto
  <2>3. RemovedLines' = RemovedLines
    BY <1>1, <1>2, <2>1, <2>2 DEF RemovedLines
  <2>4. AllEnded'
    BY <1>1 DEF AllEnded
  <2>5. RInv'
    BY <1>1, <1>3, <2>3, <2>4, QuietRInv
  <2>6. Handed' = Handed
    BY <2>3, HandedStays DEF RInv
  <2>7. InHand' = [InHand EXCEPT ![t] = 0]
    BY <1>1, <2>2 DEF InHand, EOF
  <2>8. Over' = Over /\ Phase = "running" /\ Phase' = "running"
    BY <1>1, <1>3 DEF Over, Phase, Goto
  <2>9. Dispatch!Run(t)
    BY <1>1, <1>2, <1>3, <2>6, <2>7, <2>8 DEF Dispatch!Run, Dispatch!Nothing, EOF
  <2>10. QED
    BY <2>5, <2>9 DEF Simulates, Dispatch!Next
<1>4. CASE /\ input[item[t]] = "wrong"
           /\ exited' = TRUE /\ UNCHANGED <<applied, pc>>
  <2>1. RemovedLines' = RemovedLines /\ InHand' = InHand
    BY <1>1, <1>4, SameRemoved
  <2>2. /\ \A k : Queued(k)' = Queued(k)
        /\ Positions' = Positions
    BY <1>1 DEF queueVars, Queued, Slot, Positions
  <2>3. RemovedFirst'
    BY <1>1, <1>4, <2>1, <2>2 DEF RInv, RemovedFirst
  <2>4. Accounted'
    BY <1>4 DEF Accounted
  <2>5. Accepted' /\ AllRead' /\ AllEnded'
    BY <1>1, <1>4, <2>2 DEF RInv, Accepted, AllRead, AllEnded, MainHas
  <2>6. Handed' = Handed
    BY <2>1, HandedStays DEF RInv
  <2>7. Over' = Over /\ Phase = "running" /\ Phase' = "stopped"
    BY <1>1, <1>4 DEF Over, Phase
  <2>8. Dispatch!Stop
    BY <1>1, <1>2, <1>4, <2>1, <2>6, <2>7 DEF Dispatch!Stop, Dispatch!Nothing, EOF
  <2>9. QED
    BY <2>3, <2>4, <2>5, <2>8 DEF Simulates, RInv, Dispatch!Next
<1>5. QED
  BY <1>3, <1>4 DEF ApplyOp

-----------------------------------------------------------------------------
\* The queue grows by one command: main's next, or the pill put back, which
\* ends the worker when there is nothing left to hand out.
LEMMA InsertStoreSimulates ==
    ASSUME IInv, IInv', RInv, ~exited, NEW p \in Procs, InsertStore(p)
    PROVE  Simulates
<1> USE Types
<1>1. /\ pc[p] = "insert" /\ numberCommands # MAX_COMMANDS
      /\ inputCommands' = [inputCommands EXCEPT ![tailQueue] = item[p]]
      /\ numberCommands' = numberCommands + 1
      /\ pc' = [pc EXCEPT ![p] = AfterInsert(p)]
      /\ UNCHANGED <<input, line, headQueue, item, applied, exited>>
  BY DEF InsertStore, QueueFull, Goto
<1>2. /\ Positions' = Positions \cup {numberCommands}
      /\ numberCommands \in Positions'
  BY <1>1 DEF Positions
<1>3. \A k : Slot(k)' = Slot(k)
  BY <1>1 DEF Slot
<1>4. /\ tailQueue = Slot(numberCommands) /\ tailQueue \in 0..MAX_COMMANDS-1
      /\ inputCommands \in [0..MAX_COMMANDS-1 -> 0..Len(input)]
  BY DEF IInv, Ring, TypeOK
<1>5. \A k : k = numberCommands => Queued(k)' = item[p]
  BY <1>1, <1>3, <1>4 DEF Queued
<1>6. ASSUME NEW k \in Positions PROVE Queued(k)' = Queued(k)
  <2>1. k \in 0..MAX_COMMANDS-1 /\ numberCommands \in 0..MAX_COMMANDS-1
        /\ k # numberCommands
    BY <1>1, SizeAssumption DEF Positions
  <2>2. Slot(k) \in 0..MAX_COMMANDS-1 /\ Slot(k) # tailQueue
    <3>1. TypeOK /\ k \in 0..MAX_COMMANDS
      BY <2>1, SizeAssumption DEF IInv
    <3>2. QED
      BY <1>4, <2>1, <3>1, SlotFacts
  <2>3. QED
    BY <1>1, <1>3, <1>4, <2>2 DEF Queued
<1>7. /\ RemovedLines' = RemovedLines /\ InHand' = InHand
      /\ Handed' = Handed
  <2>1. \A t \in Threads : \/ pc'[t] = pc[t] /\ item'[t] = item[t]
                           \/ pc[t] # "apply" /\ pc'[t] # "apply"
    BY <1>1 DEF AfterInsert
  <2>2. RemovedLines' = RemovedLines /\ InHand' = InHand
    BY <1>1, <2>1, SameRemoved
  <2>3. QED
    BY <2>2, HandedStays DEF RInv
<1>8. pc[p] \in InsertLabels
  BY <1>1 DEF InsertLabels
<1>9. CASE p = Main
  <2>1. /\ pc'[Main] = IF item[Main] = EOF THEN "join" ELSE "read"
        /\ \A t \in Threads : pc'[t] = pc[t]
    BY <1>1, <1>9 DEF AfterInsert
  <2>2. RemovedFirst'
    BY <1>1, <1>2, <1>5, <1>6, <1>7, <1>8, <1>9, <2>1
    DEF RInv, RemovedFirst, InsertLabels
  <2>3. Accounted'
    <3> SUFFICES ASSUME NEW i \in 1..line-1
                 PROVE  \/ input[i] = "skip" \/ i \in RemovedLines
                        \/ \E k \in Positions' : Queued(k)' = i
      BY <1>1, <1>7 DEF Accounted
    <3>1. CASE \E k \in Positions : Queued(k) = i
      BY <1>2, <1>6, <3>1
    <3>2. CASE MainHas(i)
      BY <1>2, <1>5, <1>9, <3>2 DEF MainHas
    <3>3. QED
      BY <1>1, <3>1, <3>2 DEF RInv, Accounted
  <2>4. Accepted'
    BY <1>1, <1>2, <1>5, <1>6, <1>8, <1>9, <2>1 DEF RInv, Accepted, InsertLabels
  <2>5. AllRead' /\ AllEnded'
    BY <1>1, <1>8, <1>9, <2>1 DEF RInv, AllRead, AllEnded, MainHas, InsertLabels
  <2>6. UNCHANGED Dispatch!vars
    BY <1>1, <1>7, <1>9, <2>1, Unseen DEF RInv
  <2>7. QED
    BY <2>2, <2>3, <2>4, <2>5, <2>6 DEF Simulates, RInv
<1>10. CASE p \in Threads
  <2>1. /\ item[p] = EOF /\ numberCommands = 0 /\ Positions = {}
        /\ pc[Main] \in {"join", "done"}
    BY <1>8, <1>10 DEF IInv, OnePill, NoPillYet, HasPill, Positions
  <2>2. /\ pc[Main] = "join" /\ line = Len(input) + 1
        /\ pc'[Main] = "join" /\ pc' = [pc EXCEPT ![p] = "ended"]
    BY <1>1, <1>10, <2>1 DEF RInv, AllRead, AllEnded, AfterInsert
  <2>3. \A k \in Positions' : Queued(k)' = EOF
    BY <1>2, <1>5, <2>1
  <2>4. RemovedFirst'
    BY <1>1, <1>7, <2>2, <2>3 DEF RInv, RemovedFirst, InsertLabels
  <2>5. \A i \in 1..Len(input) : input[i] = "skip" \/ i \in RemovedLines
    BY <2>1, <2>2 DEF RInv, Accounted, MainHas, InsertLabels
  <2>6. Accounted' /\ Accepted' /\ AllRead' /\ AllEnded'
    BY <1>1, <1>7, <2>2, <2>3, <2>5
    DEF Accounted, Accepted, AllRead, AllEnded, InsertLabels, MainHas
  <2>7. Dispatch!Skipped(Handed+1, Len(input))
    <3>1. \A j \in RemovedLines : j <= Handed
      BY HandedIsLast DEF RInv
    <3>2. Handed \in Nat
      BY HandedIsLast DEF RInv
    <3>3. QED
      BY <2>5, <3>1, <3>2 DEF Dispatch!Skipped
  <2>8. /\ Phase = "running" /\ Phase' = "running"
        /\ Over' = Over \cup {p} /\ p \notin Over /\ InHand[p] = 0
    BY <1>1, <1>10, <2>2 DEF Phase, Over, InHand, EOF
  <2>9. Dispatch!End(p)
    BY <1>1, <1>7, <2>7, <2>8 DEF Dispatch!End, Dispatch!Nothing
  <2>10. QED
    BY <1>10, <2>4, <2>6, <2>9 DEF Simulates, RInv, Dispatch!Next
<1>11. QED
  BY <1>9, <1>10 DEF Procs

\* A worker takes the oldest command: it is handed the next line, or the pill.
LEMMA RemoveTakeSimulates ==
    ASSUME IInv, IInv', RInv, ~exited, NEW t \in Threads, RemoveTake(t)
    PROVE  Simulates
<1> USE Types
<1>1. /\ pc[t] = "remove" /\ numberCommands # 0
      /\ item' = [item EXCEPT ![t] = inputCommands[headQueue]]
      /\ headQueue' = Next_(headQueue)
      /\ numberCommands' = numberCommands - 1
      /\ pc' = [pc EXCEPT ![t] = "apply"]
      /\ UNCHANGED <<input, line, inputCommands, applied, exited>>
  BY DEF RemoveTake, QueueEmpty, TakenSlot, Goto
<1>2. PICK i \in 0..Len(input) : i = Queued(0) /\ i = inputCommands[headQueue]
  <2>1. /\ headQueue \in 0..MAX_COMMANDS-1 /\ MAX_COMMANDS \in Nat
        /\ inputCommands \in [0..MAX_COMMANDS-1 -> 0..Len(input)]
    BY SizeAssumption DEF IInv, TypeOK
  <2>2. Slot(0) = headQueue
    BY <2>1 DEF Slot
  <2>3. QED
    BY <2>1, <2>2 DEF Queued
<1>3. /\ 0 \in Positions
      /\ \A k \in Positions' : /\ k + 1 \in Positions /\ 0 < k + 1
                               /\ Queued(k)' = Queued(k + 1)
  <2>1. \A k \in 0..MAX_COMMANDS-1 : Slot(k)' = Slot(k + 1)
    BY <1>1, SlotShift DEF IInv
  <2>2. QED
    BY <1>1, <2>1, SizeAssumption DEF Positions, Queued
<1>4. \A k \in Positions : k # 0 => \E j \in Positions' : k = j + 1
  <2> SUFFICES ASSUME NEW k \in Positions, k # 0
               PROVE  k - 1 \in Positions' /\ k = (k - 1) + 1
    OBVIOUS
  <2>1. QED
    BY <1>1 DEF Positions
<1>5. /\ item'[t] = i /\ pc'[t] = "apply"
      /\ \A u \in Threads : u # t => pc'[u] = pc[u] /\ item'[u] = item[u]
      /\ pc'[Main] = pc[Main] /\ item'[Main] = item[Main]
  BY <1>1, <1>2
<1>6. \A n \in 1..Len(input) : n \in RemovedLines' <=> n \in RemovedLines \/ n = i
  BY <1>1, <1>5 DEF RemovedLines
<1>7. RemovedLines' \subseteq 1..Len(input) /\ RemovedLines \subseteq 1..Len(input)
  BY <1>1 DEF RemovedLines
<1>8. /\ RemovedFirst
      /\ i # EOF => \A j \in RemovedLines : j < i
      /\ i < line
      /\ pc[Main] \in InsertLabels /\ item[Main] # EOF => i < item[Main]
      /\ \A k \in Positions : k # 0 => i # EOF /\ (Queued(k) = EOF \/ i < Queued(k))
  <2>1. \A k \in Positions : k # 0 => 0 < k
    BY DEF Positions
  <2>2. QED
    BY <1>2, <1>3, <2>1 DEF IInv, Ordered, ReadBefore, RInv, RemovedFirst
<1>9. RInv'
  <2>1. \E m \in RemovedLines' \cup {0} : \A j \in RemovedLines' : j <= m
    <3>1. PICK m \in RemovedLines \cup {0} : \A j \in RemovedLines : j <= m
      BY <1>8 DEF RemovedFirst
    <3>2. CASE i = EOF
      <4>1. RemovedLines' = RemovedLines
        BY <1>1, <1>5, <3>2, SameRemoved
      <4>2. QED
        BY <3>1, <4>1
    <3>3. CASE i # EOF
      <4>1. i \in RemovedLines'
        BY <1>6, <3>3 DEF EOF
      <4>2. \A j \in RemovedLines' : j <= i
        BY <1>6, <1>7, <1>8, <3>3
      <4>3. QED
        BY <4>1, <4>2
    <3>4. QED
      BY <3>2, <3>3
  <2>2. ASSUME NEW j \in RemovedLines'
        PROVE  /\ j < line
               /\ \A k \in Positions' : Queued(k)' # EOF => j < Queued(k)'
               /\ pc[Main] \in InsertLabels /\ item[Main] # EOF => j < item[Main]
    <3>1. CASE j \in RemovedLines
      BY <1>3, <1>8, <3>1 DEF RemovedFirst
    <3>2. CASE j = i
      <4>1. \A k \in Positions' : k + 1 \in Positions /\ k + 1 # 0
        BY <1>3
      <4>2. QED
        BY <1>3, <1>8, <3>2, <4>1
    <3>3. QED
      BY <1>6, <1>7, <3>1, <3>2
  <2>3. RemovedFirst'
    BY <1>1, <1>5, <2>1, <2>2 DEF RemovedFirst
  <2>4. Accounted'
    <3> SUFFICES ASSUME NEW n \in 1..line-1
                 PROVE  \/ input[n] = "skip" \/ n \in RemovedLines'
                        \/ (\E k \in Positions' : Queued(k)' = n) \/ MainHas(n)
      BY <1>1, <1>5 DEF Accounted, MainHas
    <3>1. n \in 1..Len(input)
      OBVIOUS
    <3>2. CASE n \in RemovedLines
      BY <1>6, <3>1, <3>2
    <3>3. CASE \E k \in Positions : Queued(k) = n
      BY <1>2, <1>3, <1>4, <1>6, <3>1, <3>3
    <3>4. QED
      BY <3>2, <3>3 DEF RInv, Accounted
  <2>5. Accepted'
    BY <1>1, <1>3, <1>5 DEF RInv, Accepted
  <2>6. AllRead' /\ AllEnded'
    BY <1>1, <1>5 DEF RInv, AllRead, AllEnded, MainHas
  <2>7. QED
    BY <2>3, <2>4, <2>5, <2>6 DEF RInv
<1>10. /\ pc'[Main] # "done" /\ pc[Main] # "done"
       /\ \A u \in Threads : pc'[u] = "ended" <=> pc[u] = "ended"
  BY <1>1, <1>5 DEF RInv, AllEnded
<1>11. CASE i = EOF
  <2>1. RemovedLines' = RemovedLines /\ InHand' = InHand
    BY <1>1, <1>5, <1>11, SameRemoved
  <2>2. UNCHANGED Dispatch!vars
    BY <1>1, <1>8, <1>10, <2>1, Unseen
  <2>3. QED
    BY <1>9, <2>2 DEF Simulates
<1>12. CASE i # EOF
  <2>1. Handed' = i
    <3>1. RemovedLines' \in SUBSET Nat /\ i \in RemovedLines' \cup {0}
      BY <1>6, <1>7, <1>12 DEF EOF
    <3>2. \A j \in RemovedLines' : j <= i
      BY <1>6, <1>7, <1>8, <1>12
    <3>3. QED
      BY <3>1, <3>2, Greatest DEF Handed
  <2>2. /\ Handed \in Nat /\ Handed < i
        /\ \A j \in RemovedLines : j <= Handed
    BY <1>8, <1>12, HandedIsLast DEF EOF
  <2>3. Dispatch!Skipped(Handed+1, i-1)
    <3> SUFFICES ASSUME NEW n \in Handed+1..i-1 PROVE input[n] = "skip"
      BY DEF Dispatch!Skipped
    <3>1. n \in 1..line-1 /\ n < i /\ n \notin RemovedLines
      BY <1>8, <2>2
    <3>2. \A k \in Positions : Queued(k) # n
      BY <1>2, <1>8, <3>1 DEF EOF
    <3>3. ~MainHas(n)
      BY <1>8, <3>1 DEF MainHas, EOF
    <3>4. QED
      BY <3>1, <3>2, <3>3 DEF RInv, Accounted
  <2>4. i \in Handed+1..Len(input) /\ input[i] \in {"op", "wrong"}
    BY <1>2, <1>3, <1>12, <2>2 DEF RInv, Accepted
  <2>5. /\ InHand' = [InHand EXCEPT ![t] = i] /\ InHand[t] = 0
        /\ Over' = Over /\ t \notin Over
        /\ Phase = "running" /\ Phase' = "running"
    BY <1>1, <1>5, <1>10 DEF InHand, Over, Phase, EOF
  <2>6. Dispatch!Hand(t)
    BY <1>1, <2>1, <2>3, <2>4, <2>5 DEF Dispatch!Hand, Dispatch!Nothing
  <2>7. QED
    BY <1>9, <2>6 DEF Simulates, Dispatch!Next
<1>13. QED
  BY <1>11, <1>12

-----------------------------------------------------------------------------
LEMMA InitDispatch == Init => Dispatch!Init
<1> SUFFICES ASSUME Init PROVE Dispatch!Init
  OBVIOUS
<1>1. Main \notin Threads /\ pc[Main] = "read" /\ Procs = Threads \cup {Main}
  BY ProcsAssumption DEF Init, Procs
<1>2. RemovedLines = {}
  BY <1>1 DEF Init, RemovedLines
<1>3. Handed = 0
  BY <1>2 DEF Handed
<1>4. InHand = [t \in Threads |-> 0] /\ Over = {} /\ Phase = "running"
  <2>1. \A t \in Threads : pc[t] = "lockRemove"
    BY <1>1 DEF Init
  <2>2. exited = FALSE
    BY DEF Init
  <2>3. InHand = [t \in Threads |-> 0] /\ Over = {}
    BY <2>1 DEF InHand, Over, EOF
  <2>4. Phase = "running"
    BY <1>1, <2>2 DEF Phase
  <2>5. QED
    BY <2>3, <2>4
<1>5. QED
  BY <1>3, <1>4 DEF Init, Dispatch!Init, Dispatch!Nothing

LEMMA NextSimulates ==
    IInv /\ IInv' /\ RInv /\ [Next]_vars => RInv' /\ [Dispatch!Next]_(Dispatch!vars)
<1> SUFFICES ASSUME IInv, IInv', RInv, [Next]_vars PROVE Simulates
  BY DEF Simulates
<1>1. CASE UNCHANGED vars
  <2>1. UNCHANGED <<input, line, queueVars, exited, applied, item, pc>> /\ Main \in Procs
    BY <1>1, Types DEF vars
  <2>2. QED
    BY <2>1, QuietStep
<1>2. CASE ~exited /\ (ReadLine \/ ReadEndOfFile \/ Join)
  BY <1>2, ReadLineSimulates, ReadEndOfFileSimulates, JoinSimulates
<1>3. ASSUME NEW p \in Procs, ~exited, Insert(p) PROVE Simulates
  BY <1>3, LockSimulates, InsertStoreSimulates DEF Insert
<1>4. ASSUME NEW t \in Threads, ~exited, WorkerStep(t) PROVE Simulates
  <2>1. t \in Procs
    BY Types
  <2>2. QED
    BY <1>3, <1>4, <2>1, LockSimulates, RemoveTakeSimulates, ApplyOpSimulates
    DEF WorkerStep
<1>5. ASSUME NEW p \in Procs, SpuriousWakeup(p) PROVE Simulates
  BY <1>5, SpuriousSimulates
<1>6. QED
  BY <1>1, <1>2, <1>3, <1>4, <1>5, Types DEF Next, MainStep

\* The queue implements Dispatch: main's lines are handed to the workers one at
\* a time, in file order and each once, and a worker ends only when nothing is
\* left, for any number of workers and slots and any file.
THEOREM Implements == Spec => Dispatched
<1>1. Spec => []IInv
  BY Inductive
<1>2. QED
  BY <1>1, InitRInv, InitDispatch, NextSimulates, PTL
  DEF Spec, Dispatched, Dispatch!Spec
=============================================================================
