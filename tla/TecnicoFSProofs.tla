--------------------------- MODULE TecnicoFSProofs ---------------------------
(***************************************************************************)
(* Theorems about TecnicoFS, for any number of threads, any size of the    *)
(* table and of a directory, and any set of requests.                      *)
(*                                                                         *)
(* The invariant IInv has three parts: the types, what the place and the   *)
(* stage of a thread say of its request and its variables (ControlOK), and *)
(* the write locks it has at each place (WritesLocked).  The last one is   *)
(* not preserved by a move that comes to hold one directory in both roles, *)
(* which upgrades, and so gives up, a lock it already has: hence the       *)
(* hypothesis []DistinctParents of ChangesLocked.                          *)
(***************************************************************************)
EXTENDS TecnicoFS, FiniteSetTheorems, WellFoundedInduction,
        SequenceTheorems, TLAPS

Labels == {"idle", "lookup", "upgrade", "try", "scan", "probe", "lockChild",
           "addEntry", "remove", "resetEntry", "open", "lockRoot", "print",
           "unlock"}
Stages == {"none", "target", "first", "path1", "path2", "recover"}

ControlTypes == pc \in [Threads -> Labels] /\ stage \in [Threads -> Stages]

\* The operation a thread runs, by its stage and its place.
OpOK(t) ==
    /\ stage[t] = "first" => req[t].op = "delete"
    /\ stage[t] = "path1" => req[t].op \in {"create", "delete", "move"}
    /\ stage[t] \in {"path2", "recover"} => req[t].op = "move"
    /\ pc[t] = "lookup" => stage[t] # "none"
    /\ pc[t] \in {"upgrade", "try"} => stage[t] \in {"path1", "path2"}
    /\ pc[t] \in {"scan", "probe"} => req[t].op = "create" /\ stage[t] = "path1"
    /\ pc[t] = "lockChild" => stage[t] = "path1"
    /\ pc[t] = "addEntry" =>
          req[t].op = "create" \/ (req[t].op = "move" /\ stage[t] = "path2")
    /\ pc[t] = "resetEntry" => req[t].op = "move" /\ stage[t] = "path2"
    /\ pc[t] = "probe" => index[t] \in Inodes
    /\ pc[t] \in {"lockChild", "remove", "addEntry", "resetEntry"} =>
          child[t] \in Inodes
    /\ stage[t] \in {"path2", "recover"} =>
          child[t] \in Inodes /\ parent1[t] \in Inodes
    /\ pc[t] = "lockChild" /\ req[t].op = "move" => parent1[t] = cur[t]
    /\ pc[t] \in {"idle", "open", "lockRoot", "print"} => stage[t] = "none"

ControlOK == ControlTypes /\ \A t \in Threads : OpOK(t)

\* The write locks of thread t.
Writes(t) ==
    /\ pc[t] \in {"scan", "probe", "lockChild", "addEntry", "remove", "resetEntry"}
          => writer[cur[t]] = t
    /\ pc[t] = "probe" => writer[index[t]] = t /\ index[t] # cur[t]
    /\ pc[t] = "remove" => writer[child[t]] = t
    /\ stage[t] \in {"path2", "recover"} /\ pc[t] # "unlock" => writer[parent1[t]] = t
WritesLocked == \A t \in Threads : Writes(t)

\* A hypothesis of theorems, which a move within one directory does not meet: no
\* move comes to hold the directory it takes from as the one it puts into.
DistinctParents ==
    \A t \in Threads :
        stage[t] = "path2" /\ pc[t] \in {"upgrade", "try"} => cur[t] # parent1[t]

-----------------------------------------------------------------------------
\* The scans of a directory.

\* First finds the lowest member of a set of slots.
LEMMA FirstIsLowest ==
  ASSUME NEW hits \in SUBSET Slots
  PROVE  /\ hits = {} <=> First(hits) = 0
         /\ hits # {} => First(hits) \in hits /\ \A u \in hits : First(hits) <= u
  <1>1. hits \subseteq Nat /\ 0 \notin hits
    BY TableAssumption DEF Slots
  <1>2. ASSUME hits # {} PROVE \E s \in hits : \A u \in hits : s <= u
    <2> DEFINE below(n) == {u \in hits : u <= n}
               T == {below(n) : n \in hits}
               R == StrictSubsetOrdering(Slots)
    <2>1. IsFiniteSet(Slots)
      BY TableAssumption, FS_Interval DEF Slots
    <2>2. T \subseteq FiniteSubsetsOf(Slots) /\ T # {}
      <3>1. FiniteSubsetsOf(Slots) = SUBSET Slots
        BY <2>1, FS_FiniteSubsetsOfFinite
      <3>2. \A n \in hits : below(n) \in SUBSET Slots
        OBVIOUS
      <3>3. T \subseteq SUBSET Slots
        BY <3>2
      <3>4. T # {}
        BY <1>2
      <3> QED
        BY <3>1, <3>3, <3>4
    <2>3. PICK M \in T : \A U \in T : <<U, M>> \notin R
      <3>1. IsWellFoundedOn(R, FiniteSubsetsOf(Slots))
        BY FS_StrictSubsetOrderingWellFounded
      <3> HIDE DEF T, R
      <3> QED
        BY <2>2, <3>1, WFMin
    <2>4. PICK n \in hits : M = below(n)
      BY <2>3
    <2>5. ASSUME NEW u \in hits, ~(n <= u) PROVE FALSE
      <3>1. u \in Nat /\ n \in Nat /\ hits \subseteq Nat
        BY <1>1
      <3>2. u <= n /\ ~(n <= u) /\ n <= n
        BY <2>5, <3>1
      <3>3. below(u) \subseteq M
        <4>1. \A v \in hits : v <= u => v <= n
          BY <3>1, <3>2
        <4> QED
          BY <2>4, <4>1
      <3>4. n \in M /\ n \notin below(u) /\ below(u) \in T
        BY <2>4, <3>2
      <3>5. <<below(u), M>> \in R
        BY <2>4, <3>3, <3>4 DEF StrictSubsetOrdering
      <3> QED
        BY <2>3, <3>4, <3>5
    <2> QED
      BY <2>5
  <1> QED
    BY <1>1, <1>2 DEF First

\* What lookup_sub_node returns is an i-node or FAIL.
LEMMA SubNodeType ==
  ASSUME dirEntries \in [Inodes -> [Slots -> Entry]],
         NEW d \in Inodes, NEW name
  PROVE  lookup_sub_node(name, d) \in Inodes \cup {FAIL}
  <1> DEFINE hits == {s \in Slots : /\ dirEntries[d][s].inumber # FREE_INODE
                                    /\ dirEntries[d][s].name = name}
  <1>1. hits \in SUBSET Slots
    OBVIOUS
  <1>2. First(hits) = 0 \/ First(hits) \in hits
    BY <1>1, FirstIsLowest
  <1>3. \A s \in hits : dirEntries[d][s].inumber \in Inodes
    BY DEF Entry
  <1> QED
    BY <1>2, <1>3 DEF lookup_sub_node, SlotNamed

\* What is in a request, by its operation.
LEMMA RequestType ==
  ASSUME NEW r \in Requests \cup {NoRequest}
  PROVE  /\ r.op \in {"create", "delete", "lookup", "move", "print", "none"}
         /\ r.op = "create" => r.type \in Types
         /\ r.op \in {"create", "delete", "lookup", "move"} => r.path \in Seq(Names)
         /\ r.op = "move" => r.to \in Seq(Names)
         /\ r \in Requests => r.op # "none"
  BY RequestsAssumption DEF Request, NoRequest, Types, Paths

\* The parts of a path.
LEMMA PathType ==
  ASSUME NEW path \in Seq(Names)
  PROVE  /\ ParentOf(path) \in Seq(Names)
         /\ NameOf(path) \in Names \cup {NoName}
  <1>1. ParentOf(path) \in Seq(Names)
    <2>1. CASE path = << >>
      <3>1. ParentOf(path) = << >>
        BY <2>1 DEF ParentOf
      <3> QED
        BY <3>1
    <2>2. CASE path # << >>
      <3>1. Len(path) \in Nat \ {0}
        BY <2>2
      <3>2. \A i \in 1..Len(path)-1 : path[i] \in Names
        BY <3>1
      <3> QED
        BY <3>1, <3>2, SubSeqProperties DEF ParentOf
    <2> QED
      BY <2>1, <2>2
  <1>2. NameOf(path) \in Names \cup {NoName}
    <2>1. path # << >> => Len(path) \in 1..Len(path)
      OBVIOUS
    <2> QED
      BY <2>1 DEF NameOf
  <1> QED
    BY <1>1, <1>2

-----------------------------------------------------------------------------
\* Type correctness.

Typed == TypeOK /\ ControlOK

\* In the initial states, every thread is idle.
LEMMA InitTypes == Init => Typed
  <1> SUFFICES ASSUME Init PROVE Typed
    OBVIOUS
  <1>1. FS_ROOT \in Inodes /\ 0 \in 0..INODE_TABLE_SIZE
    BY TableAssumption DEF FS_ROOT, Inodes
  <1>2. nodeType \in [Inodes -> Types] /\ dirEntries \in [Inodes -> [Slots -> Entry]]
    BY TablesAssumption DEF Init
  <1>3. TableTypeOK
    BY <1>2 DEF Init, TableTypeOK
  <1>4. TypeOK
    <2>1. rest \in [Threads -> Seq(Names)]
      BY DEF Init
    <2>2. req \in [Threads -> Requests \cup {NoRequest}]
      BY DEF Init
    <2>3. /\ held \in [Threads -> SUBSET Inodes] /\ cur \in [Threads -> Inodes]
          /\ parent1 \in [Threads -> Inodes \cup {FREE_INODE}]
          /\ child \in [Threads -> Inodes \cup {FREE_INODE}]
      BY <1>1 DEF Init
    <2>4. /\ index \in [Threads -> 0..INODE_TABLE_SIZE]
          /\ result \in [Threads -> {SUCCESS, FAIL}] /\ exited \in BOOLEAN
      BY <1>1 DEF Init
    <2> QED
      BY <1>3, <2>1, <2>2, <2>3, <2>4 DEF TypeOK
  <1>5. ControlOK
    BY DEF Init, ControlOK, ControlTypes, OpOK, Labels, Stages, NoRequest
  <1> QED
    BY <1>4, <1>5 DEF Typed

\* The request of a thread, and what follows from its stage.
LEMMA ThreadFacts ==
  ASSUME Typed, NEW t \in Threads
  PROVE  /\ req[t] \in Requests \cup {NoRequest}
         /\ cur[t] \in Inodes /\ rest[t] \in Seq(Names)
         /\ stage[t] = "path1" => ParentOf(req[t].path) \in Seq(Names)
         /\ stage[t] = "first" => ParentOf(req[t].path) \in Seq(Names)
         /\ req[t].op = "move" => ParentOf(req[t].to) \in Seq(Names)
         /\ req[t].op = "move" => RecoverPath(req[t]) \in Seq(Names)
         /\ FS_ROOT \in Inodes
         /\ \A name : lookup_sub_node(name, cur[t]) \in Inodes \cup {FAIL}
  <1> USE DEF Typed, TypeOK
  <1>1. req[t] \in Requests \cup {NoRequest}
    OBVIOUS
  <1>2. cur[t] \in Inodes /\ rest[t] \in Seq(Names)
    OBVIOUS
  <1>3. FS_ROOT \in Inodes
    BY TableAssumption DEF FS_ROOT, Inodes
  <1>4. \A name : lookup_sub_node(name, cur[t]) \in Inodes \cup {FAIL}
    BY <1>2, SubNodeType DEF TableTypeOK
  <1>5. /\ stage[t] = "path1" => req[t].path \in Seq(Names)
        /\ stage[t] = "first" => req[t].path \in Seq(Names)
    BY <1>1, RequestType DEF ControlOK, OpOK
  <1>6. req[t].op = "move" => req[t].to \in Seq(Names)
    BY <1>1, RequestType
  <1>7. req[t].op = "move" => RecoverPath(req[t]) \in Seq(Names)
    <2>1. << >> \in Seq(Names)
      OBVIOUS
    <2> QED
      BY <1>6, <2>1, PathType DEF RecoverPath
  <1> QED
    BY <1>1, <1>2, <1>3, <1>4, <1>5, <1>6, <1>7, PathType

\* What StartLookup gives its variables.
LEMMA StartLookupTypes ==
  ASSUME Typed, NEW t \in Threads, NEW s \in Stages, NEW path \in Seq(Names),
         StartLookup(t, s, path)
  PROVE  /\ pc' \in [Threads -> Labels] /\ stage' \in [Threads -> Stages]
         /\ cur' \in [Threads -> Inodes] /\ rest' \in [Threads -> Seq(Names)]
  BY ThreadFacts DEF Typed, TypeOK, ControlOK, ControlTypes, StartLookup,
     Goto, Labels

\* Taking or releasing locks keeps their types.
LEMMA LockTypes ==
  ASSUME TableTypeOK, NEW t \in Threads
  PROVE  /\ \A i \in Inodes : RdLock(i) \/ WrLock(t, i) =>
                /\ writer' \in [Inodes -> Threads \cup {None}]
                /\ readers' \in [Inodes -> Int]
         /\ \A I : UnlockSet(t, I) =>
                /\ writer' \in [Inodes -> Threads \cup {None}]
                /\ readers' \in [Inodes -> Int]
  BY DEF TableTypeOK, RdLock, WrLock, UnlockSet

\* Writing one entry, whichever it is, keeps the type of the directories.
LEMMA SetEntryType ==
  ASSUME dirEntries \in [Inodes -> [Slots -> Entry]], NEW e \in Entry,
         NEW d, NEW s
  PROVE  [dirEntries EXCEPT ![d][s] = e] \in [Inodes -> [Slots -> Entry]]
  OBVIOUS

\* The array of a thread that has gone one node further.
LEMMA AcquireTypes ==
  ASSUME Typed, NEW t \in Threads, Acquire(t)
  PROVE  held' \in [Threads -> SUBSET Inodes]
  <1>1. held' = held \/ held' = [held EXCEPT ![t] = @ \cup {cur[t]}]
    BY DEF Acquire
  <1>2. held \in [Threads -> SUBSET Inodes] /\ cur[t] \in Inodes
    BY DEF Typed, TypeOK
  <1> QED
    BY <1>1, <1>2

\* The other threads' variables are left alone.
OnlyThread(t) ==
    \A u \in Threads \ {t} :
        /\ pc'[u] = pc[u] /\ stage'[u] = stage[u] /\ req'[u] = req[u]
        /\ index'[u] = index[u] /\ child'[u] = child[u]
        /\ cur'[u] = cur[u] /\ parent1'[u] = parent1[u]

\* So ControlOK is kept if it is kept for the thread that takes the step.
LEMMA ControlFrame ==
  ASSUME ControlOK, NEW t \in Threads, ControlTypes', OnlyThread(t), OpOK(t)'
  PROVE  ControlOK'
  BY DEF ControlOK, OpOK, OnlyThread

\* Receive keeps every type, and the variables of the other threads.
LEMMA ReceiveTypes ==
  ASSUME Typed, NEW t \in Threads, Receive(t)
  PROVE  Typed' /\ OnlyThread(t)
  <1> USE DEF Typed, ControlOK, ControlTypes
  <1>1. TableTypeOK'
    BY LockTypes, ThreadFacts DEF Receive, StartLookup, Goto, Return, TypeOK,
       TableTypeOK, tableVars, lockVars
  <1>2. ControlTypes'
    BY StartLookupTypes DEF Receive, StartLookup, Goto, Return, Labels, Stages
  <1>3. TypeOK'
    <2>1. req' \in [Threads -> Requests \cup {NoRequest}]
      BY DEF Receive, TypeOK
    <2>2. \/ UNCHANGED <<cur, rest>>
          \/ \E s \in Stages, path \in Seq(Names) : StartLookup(t, s, path)
      <3>1. PICK r \in Requests :
              \/ UNCHANGED <<cur, rest>>
              \/ r.op = "lookup" /\ StartLookup(t, "target", r.path)
              \/ r.op = "delete" /\ StartLookup(t, "first", ParentOf(r.path))
              \/ r.op \notin {"print", "lookup", "delete"}
                   /\ StartLookup(t, "path1", ParentOf(r.path))
        BY DEF Receive
      <3>2. r.op \in {"create", "delete", "lookup", "move", "print"}
        BY RequestType
      <3>3. r.op # "print" => r.path \in Seq(Names) /\ ParentOf(r.path) \in Seq(Names)
        BY <3>2, RequestType, PathType
      <3> QED
        BY <3>1, <3>2, <3>3 DEF Stages
    <2>3. cur' \in [Threads -> Inodes] /\ rest' \in [Threads -> Seq(Names)]
      BY <2>2, StartLookupTypes DEF TypeOK
    <2> QED
      BY <1>1, <2>1, <2>3 DEF Receive, TypeOK
  <1>4. OnlyThread(t)
    BY DEF Receive, StartLookup, Goto, Return, OnlyThread, TypeOK
  <1>5. OpOK(t)'
    BY ThreadFacts, RequestType DEF Receive, StartLookup, Goto, Return, OpOK,
       TypeOK
  <1> QED
    BY <1>2, <1>3, <1>4, <1>5, ControlFrame

\* LookupDown keeps every type, and the variables of the other threads.
LEMMA LookupDownTypes ==
  ASSUME Typed, NEW t \in Threads, LookupDown(t)
  PROVE  Typed' /\ OnlyThread(t)
  <1> USE DEF Typed, ControlOK, ControlTypes
  <1>1. TableTypeOK'
    BY LockTypes, ThreadFacts DEF LookupDown, Acquire, Goto, Return, TypeOK,
       TableTypeOK, tableVars, lockVars
  <1>2. ControlTypes'
    BY StartLookupTypes DEF LookupDown, Acquire, Goto, Return, Labels, Stages
  <1>3. TypeOK'
    <2>1. cur' \in [Threads -> Inodes]
      BY ThreadFacts DEF LookupDown, NextNode, TypeOK
    <2>2. Tail(rest[t]) \in Seq(Names)
      BY ThreadFacts, HeadTailProperties DEF LookupDown
    <2>3. rest' \in [Threads -> Seq(Names)]
      BY <2>2 DEF LookupDown, TypeOK
    <2> QED
      BY <1>1, <2>1, <2>3, AcquireTypes DEF LookupDown, TypeOK
  <1>4. OnlyThread(t)
    BY DEF LookupDown, Acquire, Goto, Return, OnlyThread, TypeOK
  <1>5. OpOK(t)'
    BY ThreadFacts, RequestType DEF LookupDown, Acquire, Goto, Return, OpOK,
       TypeOK
  <1> QED
    BY <1>2, <1>3, <1>4, <1>5, ControlFrame

\* LookupMissing keeps every type, and the variables of the other threads.
LEMMA LookupMissingTypes ==
  ASSUME Typed, NEW t \in Threads, LookupMissing(t)
  PROVE  Typed' /\ OnlyThread(t)
  <1> USE DEF Typed, ControlOK, ControlTypes
  <1>1. TableTypeOK'
    BY LockTypes, ThreadFacts DEF LookupMissing, Acquire, StartLookup, Goto,
       Return, TypeOK, TableTypeOK, tableVars, lockVars
  <1>2. ControlTypes'
    BY StartLookupTypes DEF LookupMissing, Acquire, StartLookup, Goto, Return,
       Labels, Stages
  <1>3. TypeOK'
    <2>1. /\ cur' \in [Threads -> Inodes] /\ rest' \in [Threads -> Seq(Names)]
      BY ThreadFacts, StartLookupTypes DEF LookupMissing, OpOK, Stages, TypeOK
    <2>2. result' \in [Threads -> {SUCCESS, FAIL}]
      BY DEF LookupMissing, Return, TypeOK
    <2> QED
      BY <1>1, <2>1, <2>2, AcquireTypes DEF LookupMissing, TypeOK
  <1>4. OnlyThread(t)
    BY DEF LookupMissing, Acquire, StartLookup, Goto, Return, OnlyThread,
       TypeOK
  <1>5. OpOK(t)'
    BY ThreadFacts, RequestType DEF LookupMissing, Acquire, StartLookup, Goto,
       Return, OpOK, TypeOK
  <1> QED
    BY <1>2, <1>3, <1>4, <1>5, ControlFrame

\* LookupFound keeps every type, and the variables of the other threads.
LEMMA LookupFoundTypes ==
  ASSUME Typed, NEW t \in Threads, LookupFound(t)
  PROVE  Typed' /\ OnlyThread(t)
  <1> USE DEF Typed, ControlOK, ControlTypes
  <1>1. TableTypeOK'
    BY LockTypes, ThreadFacts DEF LookupFound, Acquire, StartLookup, Goto,
       Return, TypeOK, TableTypeOK, tableVars, lockVars
  <1>2. ControlTypes'
    BY StartLookupTypes DEF LookupFound, Acquire, StartLookup, Goto, Return,
       Labels, Stages
  <1>3. TypeOK'
    <2>1. /\ cur' \in [Threads -> Inodes] /\ rest' \in [Threads -> Seq(Names)]
      BY ThreadFacts, StartLookupTypes DEF LookupFound, OpOK, Stages, TypeOK
    <2>2. held' \in [Threads -> SUBSET Inodes]
      BY AcquireTypes DEF LookupFound
    <2>3. result' \in [Threads -> {SUCCESS, FAIL}]
      BY DEF LookupFound, Return, TypeOK
    <2> QED
      BY <1>1, <2>1, <2>2, <2>3 DEF LookupFound, TypeOK
  <1>4. OnlyThread(t)
    BY DEF LookupFound, Acquire, StartLookup, Goto, Return, OnlyThread, TypeOK
  <1>5. OpOK(t)'
    BY ThreadFacts, RequestType DEF LookupFound, Acquire, StartLookup, Goto,
       Return, OpOK, TypeOK
  <1> QED
    BY <1>2, <1>3, <1>4, <1>5, ControlFrame

\* Upgrade keeps every type, and the variables of the other threads.
LEMMA UpgradeTypes ==
  ASSUME Typed, NEW t \in Threads, Upgrade(t)
  PROVE  Typed' /\ OnlyThread(t)
  <1> USE DEF Typed, ControlOK, ControlTypes
  <1>1. TableTypeOK'
    BY LockTypes, ThreadFacts DEF Upgrade, Goto, Return, TypeOK, TableTypeOK,
       tableVars, lockVars
  <1>2. ControlTypes'
    BY StartLookupTypes DEF Upgrade, Goto, Return, Labels, Stages
  <1>3. TypeOK'
    BY <1>1, ThreadFacts DEF Upgrade, Goto, Return, TypeOK
  <1>4. OnlyThread(t)
    BY DEF Upgrade, Goto, Return, OnlyThread, TypeOK
  <1>5. OpOK(t)'
    BY ThreadFacts, RequestType DEF Upgrade, Goto, Return, OpOK, TypeOK
  <1> QED
    BY <1>2, <1>3, <1>4, <1>5, ControlFrame

\* TryFails keeps every type, and the variables of the other threads.
LEMMA TryFailsTypes ==
  ASSUME Typed, NEW t \in Threads, TryFails(t)
  PROVE  Typed' /\ OnlyThread(t)
  <1> USE DEF Typed, ControlOK, ControlTypes
  <1>1. TableTypeOK'
    BY LockTypes, ThreadFacts DEF TryFails, StartLookup, Goto, Return, TypeOK,
       TableTypeOK, tableVars, lockVars
  <1>2. ControlTypes'
    BY StartLookupTypes DEF TryFails, StartLookup, Goto, Return, Labels, Stages
  <1>3. TypeOK'
    BY <1>1, ThreadFacts DEF TryFails, StartLookup, Goto, Return, TypeOK
  <1>4. OnlyThread(t)
    BY DEF TryFails, StartLookup, Goto, Return, OnlyThread, TypeOK
  <1>5. OpOK(t)'
    BY ThreadFacts, RequestType DEF TryFails, StartLookup, Goto, Return, OpOK,
       TypeOK
  <1> QED
    BY <1>2, <1>3, <1>4, <1>5, ControlFrame

\* TryFails2 keeps every type, and the variables of the other threads.
LEMMA TryFails2Types ==
  ASSUME Typed, NEW t \in Threads, TryFails2(t)
  PROVE  Typed' /\ OnlyThread(t)
  <1> USE DEF Typed, ControlOK, ControlTypes
  <1>1. TableTypeOK'
    BY LockTypes, ThreadFacts DEF TryFails2, StartLookup, Goto, Return, TypeOK,
       TableTypeOK, tableVars, lockVars
  <1>2. ControlTypes'
    BY StartLookupTypes DEF TryFails2, StartLookup, Goto, Return, Labels,
       Stages
  <1>3. TypeOK'
    <2>1. req[t].op = "move" /\ RecoverPath(req[t]) \in Seq(Names)
      BY ThreadFacts DEF TryFails2, OpOK
    <2>2. /\ cur' \in [Threads -> Inodes] /\ rest' \in [Threads -> Seq(Names)]
      BY <2>1, StartLookupTypes DEF TryFails2, Stages
    <2>3. parent1[t] \in Inodes
      BY DEF TryFails2, OpOK
    <2>4. held' \in [Threads -> SUBSET Inodes]
      BY <2>3 DEF TryFails2, TypeOK
    <2> QED
      BY <1>1, <2>2, <2>4 DEF TryFails2, TypeOK
  <1>4. OnlyThread(t)
    BY DEF TryFails2, StartLookup, Goto, Return, OnlyThread, TypeOK
  <1>5. OpOK(t)'
    BY ThreadFacts, RequestType DEF TryFails2, StartLookup, Goto, Return, OpOK,
       TypeOK
  <1> QED
    BY <1>2, <1>3, <1>4, <1>5, ControlFrame

\* CreateTry keeps every type, and the variables of the other threads.
LEMMA CreateTryTypes ==
  ASSUME Typed, NEW t \in Threads, CreateTry(t)
  PROVE  Typed' /\ OnlyThread(t)
  <1> USE DEF Typed, ControlOK, ControlTypes
  <1>1. TableTypeOK'
    BY LockTypes, ThreadFacts DEF CreateTry, Try, Goto, Return, TypeOK,
       TableTypeOK, tableVars, lockVars
  <1>2. ControlTypes'
    BY StartLookupTypes DEF CreateTry, Try, Goto, Return, Labels, Stages
  <1>3. TypeOK'
    BY <1>1, ThreadFacts DEF CreateTry, Try, Goto, Return, TypeOK
  <1>4. OnlyThread(t)
    BY DEF CreateTry, Try, Goto, Return, OnlyThread, TypeOK
  <1>5. OpOK(t)'
    BY ThreadFacts, RequestType DEF CreateTry, Try, Goto, Return, OpOK, TypeOK
  <1> QED
    BY <1>2, <1>3, <1>4, <1>5, ControlFrame

\* DeleteTry keeps every type, and the variables of the other threads.
LEMMA DeleteTryTypes ==
  ASSUME Typed, NEW t \in Threads, DeleteTry(t)
  PROVE  Typed' /\ OnlyThread(t)
  <1> USE DEF Typed, ControlOK, ControlTypes
  <1>1. TableTypeOK'
    BY LockTypes, ThreadFacts DEF DeleteTry, Try, Goto, Return, TypeOK,
       TableTypeOK, tableVars, lockVars
  <1>2. ControlTypes'
    BY StartLookupTypes DEF DeleteTry, Try, Goto, Return, Labels, Stages
  <1>3. TypeOK'
    <2>1. EntryNamed(t, req[t].path) \in Inodes \cup {FAIL}
      BY ThreadFacts DEF EntryNamed
    <2>2. child' \in [Threads -> Inodes \cup {FREE_INODE}]
      BY <2>1 DEF DeleteTry, TypeOK
    <2>3. parent1' \in [Threads -> Inodes \cup {FREE_INODE}]
      BY DEF DeleteTry, TypeOK
    <2> QED
      BY <1>1, <2>2, <2>3 DEF DeleteTry, Try, Return, TypeOK
  <1>4. OnlyThread(t)
    BY DEF DeleteTry, Try, Goto, Return, OnlyThread, TypeOK
  <1>5. OpOK(t)'
    <2>1. EntryNamed(t, req[t].path) \in Inodes \cup {FAIL}
      BY ThreadFacts DEF EntryNamed
    <2> QED
      BY <2>1 DEF DeleteTry, Try, Return, Goto, OpOK, TypeOK
  <1> QED
    BY <1>2, <1>3, <1>4, <1>5, ControlFrame

\* MoveTry1 keeps every type, and the variables of the other threads.
LEMMA MoveTry1Types ==
  ASSUME Typed, NEW t \in Threads, MoveTry1(t)
  PROVE  Typed' /\ OnlyThread(t)
  <1> USE DEF Typed, ControlOK, ControlTypes
  <1>1. TableTypeOK'
    BY LockTypes, ThreadFacts DEF MoveTry1, Try, Goto, Return, TypeOK,
       TableTypeOK, tableVars, lockVars
  <1>2. ControlTypes'
    BY StartLookupTypes DEF MoveTry1, Try, Goto, Return, Labels, Stages
  <1>3. TypeOK'
    <2>1. EntryNamed(t, req[t].path) \in Inodes \cup {FAIL}
      BY ThreadFacts DEF EntryNamed
    <2>2. child' \in [Threads -> Inodes \cup {FREE_INODE}]
      BY <2>1 DEF MoveTry1, TypeOK
    <2>3. parent1' \in [Threads -> Inodes \cup {FREE_INODE}]
      BY DEF MoveTry1, TypeOK
    <2> QED
      BY <1>1, <2>2, <2>3 DEF MoveTry1, Try, Return, TypeOK
  <1>4. OnlyThread(t)
    BY DEF MoveTry1, Try, Goto, Return, OnlyThread, TypeOK
  <1>5. OpOK(t)'
    <2>1. EntryNamed(t, req[t].path) \in Inodes \cup {FAIL}
      BY ThreadFacts DEF EntryNamed
    <2> QED
      BY <2>1 DEF MoveTry1, Try, Return, Goto, OpOK, TypeOK
  <1> QED
    BY <1>2, <1>3, <1>4, <1>5, ControlFrame

\* MoveTry2 keeps every type, and the variables of the other threads.
LEMMA MoveTry2Types ==
  ASSUME Typed, NEW t \in Threads, MoveTry2(t)
  PROVE  Typed' /\ OnlyThread(t)
  <1> USE DEF Typed, ControlOK, ControlTypes
  <1>1. TableTypeOK'
    BY LockTypes, ThreadFacts DEF MoveTry2, Try, Goto, Return, TypeOK,
       TableTypeOK, tableVars, lockVars
  <1>2. ControlTypes'
    BY StartLookupTypes DEF MoveTry2, Try, Goto, Return, Labels, Stages
  <1>3. TypeOK'
    BY <1>1, ThreadFacts DEF MoveTry2, Try, Goto, Return, TypeOK
  <1>4. OnlyThread(t)
    BY DEF MoveTry2, Try, Goto, Return, OnlyThread, TypeOK
  <1>5. OpOK(t)'
    BY ThreadFacts, RequestType DEF MoveTry2, Try, Goto, Return, OpOK, TypeOK
  <1> QED
    BY <1>2, <1>3, <1>4, <1>5, ControlFrame

\* SkipInode keeps every type, and the variables of the other threads.
LEMMA SkipInodeTypes ==
  ASSUME Typed, NEW t \in Threads, SkipInode(t)
  PROVE  Typed' /\ OnlyThread(t)
  <1> USE DEF Typed, ControlOK, ControlTypes
  <1>1. TableTypeOK'
    BY LockTypes, ThreadFacts DEF SkipInode, Goto, Return, TypeOK, TableTypeOK,
       tableVars, lockVars
  <1>2. ControlTypes'
    BY StartLookupTypes DEF SkipInode, Goto, Return, Labels, Stages
  <1>3. TypeOK'
    <2>1. index[t] \in Nat /\ index[t] < INODE_TABLE_SIZE
      BY TableAssumption DEF SkipInode, TypeOK, OpOK, Inodes
    <2>2. index' \in [Threads -> 0..INODE_TABLE_SIZE]
      BY <2>1, TableAssumption DEF SkipInode, TypeOK
    <2> QED
      BY <1>1, <2>2 DEF SkipInode, TypeOK
  <1>4. OnlyThread(t)
    BY DEF SkipInode, Goto, Return, OnlyThread, TypeOK
  <1>5. OpOK(t)'
    BY ThreadFacts, RequestType DEF SkipInode, Goto, Return, OpOK, TypeOK
  <1> QED
    BY <1>2, <1>3, <1>4, <1>5, ControlFrame

\* LockInode keeps every type, and the variables of the other threads.
LEMMA LockInodeTypes ==
  ASSUME Typed, NEW t \in Threads, LockInode(t)
  PROVE  Typed' /\ OnlyThread(t)
  <1> USE DEF Typed, ControlOK, ControlTypes
  <1>0. index[t] \in Inodes
    BY TableAssumption DEF LockInode, TypeOK, Inodes
  <1>1. TableTypeOK'
    BY <1>0, LockTypes DEF LockInode, TypeOK, TableTypeOK, tableVars
  <1>2. ControlTypes'
    BY StartLookupTypes DEF LockInode, Goto, Return, Labels, Stages
  <1>3. TypeOK'
    BY <1>1, ThreadFacts DEF LockInode, Goto, Return, TypeOK
  <1>4. OnlyThread(t)
    BY DEF LockInode, Goto, Return, OnlyThread, TypeOK
  <1>5. OpOK(t)'
    BY <1>0 DEF LockInode, Goto, OpOK, TypeOK
  <1> QED
    BY <1>2, <1>3, <1>4, <1>5, ControlFrame

\* InodeInUse keeps every type, and the variables of the other threads.
LEMMA InodeInUseTypes ==
  ASSUME Typed, NEW t \in Threads, InodeInUse(t)
  PROVE  Typed' /\ OnlyThread(t)
  <1> USE DEF Typed, ControlOK, ControlTypes
  <1>1. TableTypeOK'
    BY LockTypes, ThreadFacts DEF InodeInUse, Goto, Return, TypeOK,
       TableTypeOK, tableVars, lockVars
  <1>2. ControlTypes'
    BY StartLookupTypes DEF InodeInUse, Goto, Return, Labels, Stages
  <1>3. TypeOK'
    <2>1. index[t] \in Nat /\ index[t] < INODE_TABLE_SIZE
      BY TableAssumption DEF InodeInUse, TypeOK, OpOK, Inodes
    <2>2. index' \in [Threads -> 0..INODE_TABLE_SIZE]
      BY <2>1, TableAssumption DEF InodeInUse, TypeOK
    <2> QED
      BY <1>1, <2>2 DEF InodeInUse, TypeOK
  <1>4. OnlyThread(t)
    BY DEF InodeInUse, Goto, Return, OnlyThread, TypeOK
  <1>5. OpOK(t)'
    BY ThreadFacts, RequestType DEF InodeInUse, Goto, Return, OpOK, TypeOK
  <1> QED
    BY <1>2, <1>3, <1>4, <1>5, ControlFrame

\* AllocateInode keeps every type, and the variables of the other threads.
LEMMA AllocateInodeTypes ==
  ASSUME Typed, NEW t \in Threads, AllocateInode(t)
  PROVE  Typed' /\ OnlyThread(t)
  <1> USE DEF Typed, ControlOK, ControlTypes
  <1>1. TableTypeOK'
    <2>1. req[t].type \in Types
      BY ThreadFacts, RequestType DEF AllocateInode, OpOK
    <2>2. nodeType' \in [Inodes -> Types]
      BY <2>1 DEF AllocateInode, TypeOK, TableTypeOK
    <2>3. NoEntries \in [Slots -> Entry]
      BY DEF NoEntries, FreeEntry, Entry
    <2>4. dirEntries' \in [Inodes -> [Slots -> Entry]]
      BY <2>3 DEF AllocateInode, TypeOK, TableTypeOK
    <2> QED
      BY <2>2, <2>4, LockTypes DEF AllocateInode, TypeOK, TableTypeOK
  <1>2. ControlTypes'
    BY StartLookupTypes DEF AllocateInode, Goto, Return, Labels, Stages
  <1>3. TypeOK'
    <2>1. child' \in [Threads -> Inodes \cup {FREE_INODE}]
      BY DEF AllocateInode, TypeOK, OpOK
    <2> QED
      BY <1>1, <2>1 DEF AllocateInode, TypeOK
  <1>4. OnlyThread(t)
    BY DEF AllocateInode, Goto, Return, OnlyThread, TypeOK
  <1>5. OpOK(t)'
    BY ThreadFacts, RequestType DEF AllocateInode, Goto, Return, OpOK, TypeOK
  <1> QED
    BY <1>2, <1>3, <1>4, <1>5, ControlFrame

\* NoInode keeps every type, and the variables of the other threads.
LEMMA NoInodeTypes ==
  ASSUME Typed, NEW t \in Threads, NoInode(t)
  PROVE  Typed' /\ OnlyThread(t)
  <1> USE DEF Typed, ControlOK, ControlTypes
  <1>1. TableTypeOK'
    BY LockTypes, ThreadFacts DEF NoInode, Goto, Return, TypeOK, TableTypeOK,
       tableVars, lockVars
  <1>2. ControlTypes'
    BY StartLookupTypes DEF NoInode, Goto, Return, Labels, Stages
  <1>3. TypeOK'
    BY <1>1, ThreadFacts DEF NoInode, Goto, Return, TypeOK
  <1>4. OnlyThread(t)
    BY DEF NoInode, Goto, Return, OnlyThread, TypeOK
  <1>5. OpOK(t)'
    BY ThreadFacts, RequestType DEF NoInode, Goto, Return, OpOK, TypeOK
  <1> QED
    BY <1>2, <1>3, <1>4, <1>5, ControlFrame

\* LockChild keeps every type, and the variables of the other threads.
LEMMA LockChildTypes ==
  ASSUME Typed, NEW t \in Threads, LockChild(t)
  PROVE  Typed' /\ OnlyThread(t)
  <1> USE DEF Typed, ControlOK, ControlTypes
  <1>1. TableTypeOK'
    <2>1. child[t] \in Inodes
      BY DEF LockChild, OpOK
    <2> QED
      BY <2>1, LockTypes DEF LockChild, TypeOK, TableTypeOK, tableVars
  <1>2. ControlTypes'
    BY StartLookupTypes DEF LockChild, StartLookup, Goto, Return, Labels,
       Stages
  <1>3. TypeOK'
    <2>1. /\ cur' \in [Threads -> Inodes] /\ rest' \in [Threads -> Seq(Names)]
      <3>1. CASE req[t].op \in {"create", "delete"}
        BY <3>1 DEF LockChild, TypeOK
      <3>2. CASE req[t].op \notin {"create", "delete"}
        <4>1. req[t].op = "move" /\ ParentOf(req[t].to) \in Seq(Names)
          BY <3>2, ThreadFacts DEF LockChild, OpOK
        <4> QED
          BY <4>1, StartLookupTypes DEF LockChild, Stages
      <3> QED
        BY <3>1, <3>2
    <2> QED
      BY <1>1, <2>1 DEF LockChild, TypeOK
  <1>4. OnlyThread(t)
    BY DEF LockChild, StartLookup, Goto, Return, OnlyThread, TypeOK
  <1>5. OpOK(t)'
    <2>1. CASE req[t].op \in {"create", "delete"}
      BY <2>1 DEF LockChild, Goto, OpOK, TypeOK
    <2>2. CASE req[t].op \notin {"create", "delete"}
      BY <2>2 DEF LockChild, StartLookup, Goto, OpOK, TypeOK
    <2> QED
      BY <2>1, <2>2
  <1> QED
    BY <1>2, <1>3, <1>4, <1>5, ControlFrame

\* CreateAddEntry keeps every type, and the variables of the other threads.
LEMMA CreateAddEntryTypes ==
  ASSUME Typed, NEW t \in Threads, CreateAddEntry(t)
  PROVE  Typed' /\ OnlyThread(t)
  <1> USE DEF Typed, ControlOK, ControlTypes
  <1>1. TableTypeOK'
    <2>1. req[t].path \in Seq(Names)
      BY ThreadFacts, RequestType DEF CreateAddEntry
    <2>2. NameOf(req[t].path) \in Names \cup {NoName} /\ child[t] \in Inodes
      BY <2>1, PathType DEF CreateAddEntry, OpOK
    <2>3. [name |-> NameOf(req[t].path), inumber |-> child[t]] \in Entry
      BY <2>2 DEF Entry
    <2>4. dirEntries' \in [Inodes -> [Slots -> Entry]]
      <3> DEFINE e == [name |-> NameOf(req[t].path), inumber |-> child[t]]
      <3>1. \/ dirEntries' = [dirEntries EXCEPT ![cur[t]][FreeSlot(cur[t])] = e]
            \/ dirEntries' = dirEntries
        BY DEF CreateAddEntry, AddEntry
      <3>2. dirEntries \in [Inodes -> [Slots -> Entry]] /\ e \in Entry
        BY <2>3 DEF TypeOK, TableTypeOK
      <3> HIDE DEF e
      <3>3. [dirEntries EXCEPT ![cur[t]][FreeSlot(cur[t])] = e]
              \in [Inodes -> [Slots -> Entry]]
        BY <3>2, SetEntryType
      <3> QED
        BY <3>1, <3>2, <3>3
    <2> QED
      BY <2>4 DEF CreateAddEntry, TypeOK, TableTypeOK, lockVars
  <1>2. ControlTypes'
    BY StartLookupTypes DEF CreateAddEntry, Goto, Return, Labels, Stages
  <1>3. TypeOK'
    BY <1>1, ThreadFacts DEF CreateAddEntry, Goto, Return, TypeOK
  <1>4. OnlyThread(t)
    BY DEF CreateAddEntry, Goto, Return, OnlyThread, TypeOK
  <1>5. OpOK(t)'
    BY ThreadFacts, RequestType DEF CreateAddEntry, Goto, Return, OpOK, TypeOK
  <1> QED
    BY <1>2, <1>3, <1>4, <1>5, ControlFrame

\* DeleteRemove keeps every type, and the variables of the other threads.
LEMMA DeleteRemoveTypes ==
  ASSUME Typed, NEW t \in Threads, DeleteRemove(t)
  PROVE  Typed' /\ OnlyThread(t)
  <1> USE DEF Typed, ControlOK, ControlTypes
  <1>1. TableTypeOK'
    <2>1. FreeEntry \in Entry /\ NoEntries \in [Slots -> Entry]
      BY DEF FreeEntry, NoEntries, Entry
    <2>2. WithoutEntry(cur[t], child[t]) \in [Inodes -> [Slots -> Entry]]
      BY <2>1, SetEntryType DEF WithoutEntry, TypeOK, TableTypeOK
    <2>3. dirEntries' \in [Inodes -> [Slots -> Entry]]
      BY <2>1, <2>2 DEF DeleteRemove, tableVars, TypeOK, TableTypeOK
    <2>4. nodeType' \in [Inodes -> Types]
      BY DEF DeleteRemove, tableVars, TypeOK, TableTypeOK, Types
    <2> QED
      BY <2>3, <2>4 DEF DeleteRemove, TypeOK, TableTypeOK, lockVars
  <1>2. ControlTypes'
    BY StartLookupTypes DEF DeleteRemove, Goto, Return, Labels, Stages
  <1>3. TypeOK'
    BY <1>1, ThreadFacts DEF DeleteRemove, Goto, Return, TypeOK
  <1>4. OnlyThread(t)
    BY DEF DeleteRemove, Goto, Return, OnlyThread, TypeOK
  <1>5. OpOK(t)'
    BY ThreadFacts, RequestType DEF DeleteRemove, Goto, Return, OpOK, TypeOK
  <1> QED
    BY <1>2, <1>3, <1>4, <1>5, ControlFrame

\* MoveAddEntry keeps every type, and the variables of the other threads.
LEMMA MoveAddEntryTypes ==
  ASSUME Typed, NEW t \in Threads, MoveAddEntry(t)
  PROVE  Typed' /\ OnlyThread(t)
  <1> USE DEF Typed, ControlOK, ControlTypes
  <1>1. TableTypeOK'
    <2>1. req[t].to \in Seq(Names)
      BY ThreadFacts, RequestType DEF MoveAddEntry
    <2>2. NameOf(req[t].to) \in Names \cup {NoName} /\ child[t] \in Inodes
      BY <2>1, PathType DEF MoveAddEntry, OpOK
    <2>3. [name |-> NameOf(req[t].to), inumber |-> child[t]] \in Entry
      BY <2>2 DEF Entry
    <2>4. dirEntries' \in [Inodes -> [Slots -> Entry]]
      <3> DEFINE e == [name |-> NameOf(req[t].to), inumber |-> child[t]]
      <3>1. \/ dirEntries' = [dirEntries EXCEPT ![cur[t]][FreeSlot(cur[t])] = e]
            \/ dirEntries' = dirEntries
        BY DEF MoveAddEntry, AddEntry
      <3>2. dirEntries \in [Inodes -> [Slots -> Entry]] /\ e \in Entry
        BY <2>3 DEF TypeOK, TableTypeOK
      <3> HIDE DEF e
      <3>3. [dirEntries EXCEPT ![cur[t]][FreeSlot(cur[t])] = e]
              \in [Inodes -> [Slots -> Entry]]
        BY <3>2, SetEntryType
      <3> QED
        BY <3>1, <3>2, <3>3
    <2> QED
      BY <2>4 DEF MoveAddEntry, TypeOK, TableTypeOK, lockVars
  <1>2. ControlTypes'
    BY StartLookupTypes DEF MoveAddEntry, Goto, Return, Labels, Stages
  <1>3. TypeOK'
    BY <1>1, ThreadFacts DEF MoveAddEntry, Goto, Return, TypeOK
  <1>4. OnlyThread(t)
    BY DEF MoveAddEntry, Goto, Return, OnlyThread, TypeOK
  <1>5. OpOK(t)'
    BY ThreadFacts, RequestType DEF MoveAddEntry, Goto, Return, OpOK, TypeOK
  <1> QED
    BY <1>2, <1>3, <1>4, <1>5, ControlFrame

\* MoveResetEntry keeps every type, and the variables of the other threads.
LEMMA MoveResetEntryTypes ==
  ASSUME Typed, NEW t \in Threads, MoveResetEntry(t)
  PROVE  Typed' /\ OnlyThread(t)
  <1> USE DEF Typed, ControlOK, ControlTypes
  <1>1. TableTypeOK'
    <2>1. FreeEntry \in Entry
      BY DEF FreeEntry, Entry
    <2>2. dirEntries' \in [Inodes -> [Slots -> Entry]]
      <3>1. \/ dirEntries' = WithoutEntry(parent1[t], child[t])
            \/ dirEntries' = dirEntries
        BY DEF MoveResetEntry
      <3>2. dirEntries \in [Inodes -> [Slots -> Entry]]
        BY DEF TypeOK, TableTypeOK
      <3>3. WithoutEntry(parent1[t], child[t]) \in [Inodes -> [Slots -> Entry]]
        BY <2>1, <3>2, SetEntryType DEF WithoutEntry
      <3> QED
        BY <3>1, <3>2, <3>3
    <2> QED
      BY <2>2 DEF MoveResetEntry, TypeOK, TableTypeOK, lockVars
  <1>2. ControlTypes'
    BY StartLookupTypes DEF MoveResetEntry, Goto, Return, Labels, Stages
  <1>3. TypeOK'
    BY <1>1, ThreadFacts DEF MoveResetEntry, Goto, Return, TypeOK
  <1>4. OnlyThread(t)
    BY DEF MoveResetEntry, Goto, Return, OnlyThread, TypeOK
  <1>5. OpOK(t)'
    BY ThreadFacts, RequestType DEF MoveResetEntry, Goto, Return, OpOK, TypeOK
  <1> QED
    BY <1>2, <1>3, <1>4, <1>5, ControlFrame

\* PrintOpen keeps every type, and the variables of the other threads.
LEMMA PrintOpenTypes ==
  ASSUME Typed, NEW t \in Threads, PrintOpen(t)
  PROVE  Typed' /\ OnlyThread(t)
  <1> USE DEF Typed, ControlOK, ControlTypes
  <1>1. TableTypeOK'
    BY LockTypes, ThreadFacts DEF PrintOpen, Goto, Return, TypeOK, TableTypeOK,
       tableVars, lockVars
  <1>2. ControlTypes'
    BY StartLookupTypes DEF PrintOpen, Goto, Return, Labels, Stages
  <1>3. TypeOK'
    BY <1>1, ThreadFacts DEF PrintOpen, Goto, Return, TypeOK
  <1>4. OnlyThread(t)
    BY DEF PrintOpen, Goto, Return, OnlyThread, TypeOK
  <1>5. OpOK(t)'
    BY ThreadFacts, RequestType DEF PrintOpen, Goto, Return, OpOK, TypeOK
  <1> QED
    BY <1>2, <1>3, <1>4, <1>5, ControlFrame

\* PrintLock keeps every type, and the variables of the other threads.
LEMMA PrintLockTypes ==
  ASSUME Typed, NEW t \in Threads, PrintLock(t)
  PROVE  Typed' /\ OnlyThread(t)
  <1> USE DEF Typed, ControlOK, ControlTypes
  <1>1. TableTypeOK'
    BY LockTypes, ThreadFacts DEF PrintLock, Goto, Return, TypeOK, TableTypeOK,
       tableVars, lockVars
  <1>2. ControlTypes'
    BY StartLookupTypes DEF PrintLock, Goto, Return, Labels, Stages
  <1>3. TypeOK'
    BY <1>1, ThreadFacts DEF PrintLock, Goto, Return, TypeOK
  <1>4. OnlyThread(t)
    BY DEF PrintLock, Goto, Return, OnlyThread, TypeOK
  <1>5. OpOK(t)'
    BY ThreadFacts, RequestType DEF PrintLock, Goto, Return, OpOK, TypeOK
  <1> QED
    BY <1>2, <1>3, <1>4, <1>5, ControlFrame

\* PrintUnlock keeps every type, and the variables of the other threads.
LEMMA PrintUnlockTypes ==
  ASSUME Typed, NEW t \in Threads, PrintUnlock(t)
  PROVE  Typed' /\ OnlyThread(t)
  <1> USE DEF Typed, ControlOK, ControlTypes
  <1>1. TableTypeOK'
    BY LockTypes, ThreadFacts DEF PrintUnlock, Goto, Return, TypeOK,
       TableTypeOK, tableVars, lockVars
  <1>2. ControlTypes'
    BY StartLookupTypes DEF PrintUnlock, Goto, Return, Labels, Stages
  <1>3. TypeOK'
    BY <1>1, ThreadFacts DEF PrintUnlock, Goto, Return, TypeOK
  <1>4. OnlyThread(t)
    BY DEF PrintUnlock, Goto, Return, OnlyThread, TypeOK
  <1>5. OpOK(t)'
    BY ThreadFacts, RequestType DEF PrintUnlock, Goto, Return, OpOK, TypeOK
  <1> QED
    BY <1>2, <1>3, <1>4, <1>5, ControlFrame

\* Unlock keeps every type, and the variables of the other threads.
LEMMA UnlockTypes ==
  ASSUME Typed, NEW t \in Threads, Unlock(t)
  PROVE  Typed' /\ OnlyThread(t)
  <1> USE DEF Typed, ControlOK, ControlTypes
  <1>1. TableTypeOK'
    BY LockTypes, ThreadFacts DEF Unlock, Goto, Return, TypeOK, TableTypeOK,
       tableVars, lockVars
  <1>2. ControlTypes'
    BY StartLookupTypes DEF Unlock, Goto, Return, Labels, Stages
  <1>3. TypeOK'
    <2>1. << >> \in Seq(Names) /\ 0 \in 0..INODE_TABLE_SIZE
      BY TableAssumption
    <2>2. held' \in [Threads -> SUBSET Inodes] /\ index' \in [Threads -> 0..INODE_TABLE_SIZE]
      BY <2>1 DEF Unlock, TypeOK
    <2>3. cur' \in [Threads -> Inodes] /\ rest' \in [Threads -> Seq(Names)]
      BY <2>1, ThreadFacts DEF Unlock, TypeOK
    <2>4. /\ req' \in [Threads -> Requests \cup {NoRequest}]
          /\ parent1' \in [Threads -> Inodes \cup {FREE_INODE}]
          /\ child' \in [Threads -> Inodes \cup {FREE_INODE}]
          /\ result' \in [Threads -> {SUCCESS, FAIL}] /\ exited' \in BOOLEAN
      BY DEF Unlock, TypeOK
    <2> QED
      BY <1>1, <2>2, <2>3, <2>4 DEF TypeOK
  <1>4. OnlyThread(t)
    BY DEF Unlock, Goto, Return, OnlyThread, TypeOK
  <1>5. OpOK(t)'
    BY ThreadFacts, RequestType DEF Unlock, Goto, Return, OpOK, TypeOK
  <1> QED
    BY <1>2, <1>3, <1>4, <1>5, ControlFrame

\* Every step keeps the types.
LEMMA NextTypes == Typed /\ [Next]_vars => Typed'
  <1> SUFFICES ASSUME Typed, [Next]_vars PROVE Typed'
    OBVIOUS
  <1>1. ASSUME NEW t \in Threads, LookupSelfDeadlock(t) PROVE Typed'
    BY <1>1 DEF LookupSelfDeadlock, threadVars, tableVars, lockVars, Typed,
       TypeOK, TableTypeOK, ControlOK, ControlTypes, OpOK
  <1>2. CASE UNCHANGED vars
    BY <1>2 DEF vars, threadVars, tableVars, lockVars, Typed, TypeOK,
       TableTypeOK, ControlOK, ControlTypes, OpOK
  <1> QED
    BY <1>1, <1>2, ReceiveTypes, LookupDownTypes, LookupMissingTypes,
       LookupFoundTypes, UpgradeTypes, TryFailsTypes, TryFails2Types,
       CreateTryTypes, DeleteTryTypes, MoveTry1Types, MoveTry2Types,
       SkipInodeTypes, LockInodeTypes, InodeInUseTypes, AllocateInodeTypes,
       NoInodeTypes, LockChildTypes, CreateAddEntryTypes, DeleteRemoveTypes,
       MoveAddEntryTypes, MoveResetEntryTypes, PrintOpenTypes, PrintLockTypes,
       PrintUnlockTypes, UnlockTypes
       DEF Next, Step

\* Every variable keeps its type, in every instance of the model.
THEOREM TypeCorrect == Spec => []TypeOK
  <1>1. Typed => TypeOK
    BY DEF Typed
  <1> QED
    BY <1>1, InitTypes, NextTypes, PTL DEF Spec

-----------------------------------------------------------------------------
\* Write locks.

\* No thread loses a write lock by what thread t does.
KeepsWrites(t) ==
    \A i \in Inodes, u \in Threads \ {t} : writer[i] = u => writer'[i] = u

\* That is so of each operation on a lock.
LEMMA LocksKeepWrites ==
  ASSUME Typed, NEW t \in Threads
  PROVE  /\ UNCHANGED writer => KeepsWrites(t)
         /\ \A i : RdLock(i) \/ WrLock(t, i) => KeepsWrites(t)
         /\ \A I : UnlockSet(t, I) => KeepsWrites(t)
  <1>1. writer \in [Inodes -> Threads \cup {None}] /\ None \notin Threads
    BY ThreadsAssumption DEF Typed, TypeOK, TableTypeOK
  <1>2. UNCHANGED writer => KeepsWrites(t)
    BY DEF KeepsWrites
  <1>3. ASSUME NEW i, RdLock(i) \/ WrLock(t, i) PROVE KeepsWrites(t)
    BY <1>1, <1>3 DEF KeepsWrites, RdLock, WrLock, Unlocked
  <1>4. ASSUME NEW I, UnlockSet(t, I) PROVE KeepsWrites(t)
    BY <1>1, <1>4 DEF KeepsWrites, UnlockSet
  <1> QED
    BY <1>2, <1>3, <1>4

\* So the write locks of the other threads stand, and only those of the thread
\* that takes a step are to be looked at.
LEMMA WritesFrame ==
  ASSUME Typed, WritesLocked, NEW t \in Threads, OnlyThread(t), KeepsWrites(t),
         Writes(t)'
  PROVE  WritesLocked'
  <1> SUFFICES ASSUME NEW u \in Threads \ {t} PROVE Writes(u)'
    BY DEF WritesLocked
  <1>1. Writes(u) /\ OpOK(u) /\ cur[u] \in Inodes
    BY DEF WritesLocked, Typed, ControlOK, TypeOK
  <1>2. \A i \in Inodes : writer[i] = u => writer'[i] = u
    BY DEF KeepsWrites
  <1> QED
    BY <1>1, <1>2 DEF Writes, OpOK, OnlyThread

\* Receive keeps WritesLocked: it holds no lock yet.
LEMMA ReceiveWrites ==
  ASSUME Typed, WritesLocked, NEW t \in Threads, Receive(t)
  PROVE  WritesLocked'
  <1>1. KeepsWrites(t)
    BY LocksKeepWrites DEF Receive, lockVars
  <1>2. Writes(t)'
    BY ThreadsAssumption DEF Receive, StartLookup, Goto, Return, lockVars,
       Typed, TypeOK, TableTypeOK, ControlOK, ControlTypes, OpOK,
       WritesLocked, Writes
  <1> QED
    BY <1>1, <1>2, ReceiveTypes, WritesFrame

\* LookupDown keeps WritesLocked: only read locks are taken.
LEMMA LookupDownWrites ==
  ASSUME Typed, WritesLocked, NEW t \in Threads, LookupDown(t)
  PROVE  WritesLocked'
  <1>1. KeepsWrites(t)
    BY LocksKeepWrites DEF LookupDown, Acquire, lockVars
  <1>2. Writes(t)'
    BY ThreadsAssumption DEF LookupDown, Acquire, RdLock, lockVars, Goto,
       Return, Typed, TypeOK, TableTypeOK, ControlOK, ControlTypes, OpOK,
       WritesLocked, Writes
  <1> QED
    BY <1>1, <1>2, LookupDownTypes, WritesFrame

\* LookupMissing keeps WritesLocked: only read locks are taken.
LEMMA LookupMissingWrites ==
  ASSUME Typed, WritesLocked, NEW t \in Threads, LookupMissing(t)
  PROVE  WritesLocked'
  <1>1. KeepsWrites(t)
    BY LocksKeepWrites DEF LookupMissing, Acquire, lockVars
  <1>2. Writes(t)'
    BY ThreadsAssumption DEF LookupMissing, Acquire, RdLock, lockVars,
       StartLookup, Goto, Return, Typed, TypeOK, TableTypeOK, ControlOK,
       ControlTypes, OpOK, WritesLocked, Writes
  <1> QED
    BY <1>1, <1>2, LookupMissingTypes, WritesFrame

\* LookupFound keeps WritesLocked: only read locks are taken.
LEMMA LookupFoundWrites ==
  ASSUME Typed, WritesLocked, NEW t \in Threads, LookupFound(t)
  PROVE  WritesLocked'
  <1>1. KeepsWrites(t)
    BY LocksKeepWrites DEF LookupFound, Acquire, lockVars
  <1>2. Writes(t)'
    <2>1. /\ writer' = writer /\ UNCHANGED parent1
          /\ pc'[t] \in {"unlock", "upgrade", "lookup"}
          /\ stage'[t] \in {"path2", "recover"} => stage[t] \in {"path2", "recover"}
      BY DEF LookupFound, Acquire, RdLock, lockVars, StartLookup, Goto, Return,
         Typed, ControlOK, ControlTypes
    <2>2. pc[t] = "lookup"
      BY DEF LookupFound, Acquire
    <2> QED
      BY <2>1, <2>2 DEF WritesLocked, Writes
  <1> QED
    BY <1>1, <1>2, LookupFoundTypes, WritesFrame

\* Upgrade keeps WritesLocked: the lock given up is not that of the first
\* directory of a move.
LEMMA UpgradeWrites ==
  ASSUME Typed, WritesLocked, DistinctParents, NEW t \in Threads, Upgrade(t)
  PROVE  WritesLocked'
  <1>1. KeepsWrites(t)
    BY LocksKeepWrites DEF Upgrade, lockVars
  <1>2. Writes(t)'
    BY ThreadsAssumption DEF Upgrade, UnlockSet, DistinctParents, Goto, Return,
       lockVars, Typed, TypeOK, TableTypeOK, ControlOK, ControlTypes, OpOK,
       WritesLocked, Writes
  <1> QED
    BY <1>1, <1>2, UpgradeTypes, WritesFrame

\* TryFails keeps WritesLocked: none is claimed when path1 is looked up again.
LEMMA TryFailsWrites ==
  ASSUME Typed, WritesLocked, NEW t \in Threads, TryFails(t)
  PROVE  WritesLocked'
  <1>1. KeepsWrites(t)
    BY LocksKeepWrites DEF TryFails, lockVars
  <1>2. Writes(t)'
    BY ThreadsAssumption DEF TryFails, StartLookup, UnlockSet, Goto, Return,
       lockVars, Typed, TypeOK, TableTypeOK, ControlOK, ControlTypes, OpOK,
       WritesLocked, Writes
  <1> QED
    BY <1>1, <1>2, TryFailsTypes, WritesFrame

\* TryFails2 keeps WritesLocked: the lock of the first directory is left out of
\* what is released.
LEMMA TryFails2Writes ==
  ASSUME Typed, WritesLocked, NEW t \in Threads, TryFails2(t)
  PROVE  WritesLocked'
  <1>1. KeepsWrites(t)
    BY LocksKeepWrites DEF TryFails2, lockVars
  <1>2. Writes(t)'
    BY ThreadsAssumption DEF TryFails2, StartLookup, UnlockSet, Goto, Return,
       lockVars, Typed, TypeOK, TableTypeOK, ControlOK, ControlTypes, OpOK,
       WritesLocked, Writes
  <1> QED
    BY <1>1, <1>2, TryFails2Types, WritesFrame

\* CreateTry keeps WritesLocked: the directory is locked.
LEMMA CreateTryWrites ==
  ASSUME Typed, WritesLocked, NEW t \in Threads, CreateTry(t)
  PROVE  WritesLocked'
  <1>1. KeepsWrites(t)
    BY LocksKeepWrites DEF CreateTry, Try, lockVars
  <1>2. Writes(t)'
    BY ThreadsAssumption DEF CreateTry, Try, WrLock, Goto, Return, lockVars,
       Typed, TypeOK, TableTypeOK, ControlOK, ControlTypes, OpOK,
       WritesLocked, Writes
  <1> QED
    BY <1>1, <1>2, CreateTryTypes, WritesFrame

\* DeleteTry keeps WritesLocked: the directory is locked.
LEMMA DeleteTryWrites ==
  ASSUME Typed, WritesLocked, NEW t \in Threads, DeleteTry(t)
  PROVE  WritesLocked'
  <1>1. KeepsWrites(t)
    BY LocksKeepWrites DEF DeleteTry, Try, lockVars
  <1>2. Writes(t)'
    BY ThreadsAssumption DEF DeleteTry, Try, WrLock, Goto, Return, lockVars,
       Typed, TypeOK, TableTypeOK, ControlOK, ControlTypes, OpOK,
       WritesLocked, Writes
  <1> QED
    BY <1>1, <1>2, DeleteTryTypes, WritesFrame

\* MoveTry1 keeps WritesLocked: the first directory is locked.
LEMMA MoveTry1Writes ==
  ASSUME Typed, WritesLocked, NEW t \in Threads, MoveTry1(t)
  PROVE  WritesLocked'
  <1>1. KeepsWrites(t)
    BY LocksKeepWrites DEF MoveTry1, Try, lockVars
  <1>2. Writes(t)'
    BY ThreadsAssumption DEF MoveTry1, Try, WrLock, Goto, Return, lockVars,
       Typed, TypeOK, TableTypeOK, ControlOK, ControlTypes, OpOK,
       WritesLocked, Writes
  <1> QED
    BY <1>1, <1>2, MoveTry1Types, WritesFrame

\* MoveTry2 keeps WritesLocked: both directories are locked.
LEMMA MoveTry2Writes ==
  ASSUME Typed, WritesLocked, NEW t \in Threads, MoveTry2(t)
  PROVE  WritesLocked'
  <1>1. KeepsWrites(t)
    BY LocksKeepWrites DEF MoveTry2, Try, lockVars
  <1>2. Writes(t)'
    BY ThreadsAssumption DEF MoveTry2, Try, WrLock, Goto, Return, lockVars,
       Typed, TypeOK, TableTypeOK, ControlOK, ControlTypes, OpOK,
       WritesLocked, Writes
  <1> QED
    BY <1>1, <1>2, MoveTry2Types, WritesFrame

\* SkipInode keeps WritesLocked: no lock changes.
LEMMA SkipInodeWrites ==
  ASSUME Typed, WritesLocked, NEW t \in Threads, SkipInode(t)
  PROVE  WritesLocked'
  <1>1. KeepsWrites(t)
    BY LocksKeepWrites DEF SkipInode, lockVars
  <1>2. Writes(t)'
    BY ThreadsAssumption DEF SkipInode, Goto, Return, lockVars, Typed, TypeOK,
       TableTypeOK, ControlOK, ControlTypes, OpOK, WritesLocked, Writes
  <1> QED
    BY <1>1, <1>2, SkipInodeTypes, WritesFrame

\* LockInode keeps WritesLocked: the i-node was unlocked, so it is not the
\* directory.
LEMMA LockInodeWrites ==
  ASSUME Typed, WritesLocked, NEW t \in Threads, LockInode(t)
  PROVE  WritesLocked'
  <1>1. KeepsWrites(t)
    BY LocksKeepWrites DEF LockInode, lockVars
  <1>2. Writes(t)'
    <2>1. index[t] \in Inodes /\ cur[t] \in Inodes
      BY TableAssumption DEF LockInode, Typed, TypeOK, Inodes
    <2>2. writer[cur[t]] = t /\ writer[index[t]] = None /\ None # t
      BY ThreadsAssumption DEF LockInode, WrLock, Unlocked, WritesLocked,
         Writes
    <2>3. writer' = [writer EXCEPT ![index[t]] = t] /\ index[t] # cur[t]
      BY <2>2 DEF LockInode, WrLock
    <2>4. /\ writer'[index[t]] = t /\ writer'[cur[t]] = t
          /\ pc'[t] = "probe" /\ stage'[t] = "path1"
          /\ index' = index /\ cur' = cur
      BY <2>1, <2>2, <2>3 DEF LockInode, Goto, Typed, TypeOK, TableTypeOK,
         ControlOK, ControlTypes, OpOK
    <2> QED
      BY <2>3, <2>4 DEF Writes
  <1> QED
    BY <1>1, <1>2, LockInodeTypes, WritesFrame

\* InodeInUse keeps WritesLocked: only the i-node probed is released.
LEMMA InodeInUseWrites ==
  ASSUME Typed, WritesLocked, NEW t \in Threads, InodeInUse(t)
  PROVE  WritesLocked'
  <1>1. KeepsWrites(t)
    BY LocksKeepWrites DEF InodeInUse, lockVars
  <1>2. Writes(t)'
    BY ThreadsAssumption DEF InodeInUse, UnlockSet, Goto, Return, lockVars,
       Typed, TypeOK, TableTypeOK, ControlOK, ControlTypes, OpOK,
       WritesLocked, Writes
  <1> QED
    BY <1>1, <1>2, InodeInUseTypes, WritesFrame

\* AllocateInode keeps WritesLocked: only the i-node probed is released.
LEMMA AllocateInodeWrites ==
  ASSUME Typed, WritesLocked, NEW t \in Threads, AllocateInode(t)
  PROVE  WritesLocked'
  <1>1. KeepsWrites(t)
    BY LocksKeepWrites DEF AllocateInode, lockVars
  <1>2. Writes(t)'
    BY ThreadsAssumption DEF AllocateInode, UnlockSet, Goto, Return, lockVars,
       Typed, TypeOK, TableTypeOK, ControlOK, ControlTypes, OpOK,
       WritesLocked, Writes
  <1> QED
    BY <1>1, <1>2, AllocateInodeTypes, WritesFrame

\* NoInode keeps WritesLocked: no lock changes.
LEMMA NoInodeWrites ==
  ASSUME Typed, WritesLocked, NEW t \in Threads, NoInode(t)
  PROVE  WritesLocked'
  <1>1. KeepsWrites(t)
    BY LocksKeepWrites DEF NoInode, lockVars
  <1>2. Writes(t)'
    BY ThreadsAssumption DEF NoInode, Goto, Return, lockVars, Typed, TypeOK,
       TableTypeOK, ControlOK, ControlTypes, OpOK, WritesLocked, Writes
  <1> QED
    BY <1>1, <1>2, NoInodeTypes, WritesFrame

\* LockChild keeps WritesLocked: the child is locked as well.
LEMMA LockChildWrites ==
  ASSUME Typed, WritesLocked, NEW t \in Threads, LockChild(t)
  PROVE  WritesLocked'
  <1>1. KeepsWrites(t)
    BY LocksKeepWrites DEF LockChild, lockVars
  <1>2. Writes(t)'
    BY ThreadsAssumption DEF LockChild, StartLookup, WrLock, Unlocked, Goto,
       Return, lockVars, Typed, TypeOK, TableTypeOK, ControlOK, ControlTypes,
       OpOK, WritesLocked, Writes
  <1> QED
    BY <1>1, <1>2, LockChildTypes, WritesFrame

\* CreateAddEntry keeps WritesLocked: no lock changes.
LEMMA CreateAddEntryWrites ==
  ASSUME Typed, WritesLocked, NEW t \in Threads, CreateAddEntry(t)
  PROVE  WritesLocked'
  <1>1. KeepsWrites(t)
    BY LocksKeepWrites DEF CreateAddEntry, lockVars
  <1>2. Writes(t)'
    BY ThreadsAssumption DEF CreateAddEntry, Goto, Return, lockVars, Typed,
       TypeOK, TableTypeOK, ControlOK, ControlTypes, OpOK, WritesLocked, Writes
  <1> QED
    BY <1>1, <1>2, CreateAddEntryTypes, WritesFrame

\* DeleteRemove keeps WritesLocked: no lock changes.
LEMMA DeleteRemoveWrites ==
  ASSUME Typed, WritesLocked, NEW t \in Threads, DeleteRemove(t)
  PROVE  WritesLocked'
  <1>1. KeepsWrites(t)
    BY LocksKeepWrites DEF DeleteRemove, lockVars
  <1>2. Writes(t)'
    BY ThreadsAssumption DEF DeleteRemove, Goto, Return, lockVars, Typed,
       TypeOK, TableTypeOK, ControlOK, ControlTypes, OpOK, WritesLocked, Writes
  <1> QED
    BY <1>1, <1>2, DeleteRemoveTypes, WritesFrame

\* MoveAddEntry keeps WritesLocked: no lock changes.
LEMMA MoveAddEntryWrites ==
  ASSUME Typed, WritesLocked, NEW t \in Threads, MoveAddEntry(t)
  PROVE  WritesLocked'
  <1>1. KeepsWrites(t)
    BY LocksKeepWrites DEF MoveAddEntry, lockVars
  <1>2. Writes(t)'
    BY ThreadsAssumption DEF MoveAddEntry, Goto, Return, lockVars, Typed,
       TypeOK, TableTypeOK, ControlOK, ControlTypes, OpOK, WritesLocked, Writes
  <1> QED
    BY <1>1, <1>2, MoveAddEntryTypes, WritesFrame

\* MoveResetEntry keeps WritesLocked: no lock changes.
LEMMA MoveResetEntryWrites ==
  ASSUME Typed, WritesLocked, NEW t \in Threads, MoveResetEntry(t)
  PROVE  WritesLocked'
  <1>1. KeepsWrites(t)
    BY LocksKeepWrites DEF MoveResetEntry, lockVars
  <1>2. Writes(t)'
    BY ThreadsAssumption DEF MoveResetEntry, Goto, Return, lockVars, Typed,
       TypeOK, TableTypeOK, ControlOK, ControlTypes, OpOK, WritesLocked, Writes
  <1> QED
    BY <1>1, <1>2, MoveResetEntryTypes, WritesFrame

\* PrintOpen keeps WritesLocked: no lock changes.
LEMMA PrintOpenWrites ==
  ASSUME Typed, WritesLocked, NEW t \in Threads, PrintOpen(t)
  PROVE  WritesLocked'
  <1>1. KeepsWrites(t)
    BY LocksKeepWrites DEF PrintOpen, lockVars
  <1>2. Writes(t)'
    BY ThreadsAssumption DEF PrintOpen, Goto, Return, lockVars, Typed, TypeOK,
       TableTypeOK, ControlOK, ControlTypes, OpOK, WritesLocked, Writes
  <1> QED
    BY <1>1, <1>2, PrintOpenTypes, WritesFrame

\* PrintLock keeps WritesLocked: print claims none of these.
LEMMA PrintLockWrites ==
  ASSUME Typed, WritesLocked, NEW t \in Threads, PrintLock(t)
  PROVE  WritesLocked'
  <1>1. KeepsWrites(t)
    BY LocksKeepWrites DEF PrintLock, lockVars
  <1>2. Writes(t)'
    BY ThreadsAssumption DEF PrintLock, WrLock, Goto, Return, lockVars, Typed,
       TypeOK, TableTypeOK, ControlOK, ControlTypes, OpOK, WritesLocked, Writes
  <1> QED
    BY <1>1, <1>2, PrintLockTypes, WritesFrame

\* PrintUnlock keeps WritesLocked: print claims none of these.
LEMMA PrintUnlockWrites ==
  ASSUME Typed, WritesLocked, NEW t \in Threads, PrintUnlock(t)
  PROVE  WritesLocked'
  <1>1. KeepsWrites(t)
    BY LocksKeepWrites DEF PrintUnlock, lockVars
  <1>2. Writes(t)'
    BY ThreadsAssumption DEF PrintUnlock, UnlockSet, Goto, Return, lockVars,
       Typed, TypeOK, TableTypeOK, ControlOK, ControlTypes, OpOK,
       WritesLocked, Writes
  <1> QED
    BY <1>1, <1>2, PrintUnlockTypes, WritesFrame

\* Unlock keeps WritesLocked: the thread claims none any more.
LEMMA UnlockWrites ==
  ASSUME Typed, WritesLocked, NEW t \in Threads, Unlock(t)
  PROVE  WritesLocked'
  <1>1. KeepsWrites(t)
    BY LocksKeepWrites DEF Unlock, lockVars
  <1>2. Writes(t)'
    BY ThreadsAssumption DEF Unlock, UnlockSet, Goto, Return, lockVars, Typed,
       TypeOK, TableTypeOK, ControlOK, ControlTypes, OpOK, WritesLocked, Writes
  <1> QED
    BY <1>1, <1>2, UnlockTypes, WritesFrame

\* Every step keeps WritesLocked, if no move holds one directory in both roles.
LEMMA NextWrites ==
  Typed /\ WritesLocked /\ DistinctParents /\ [Next]_vars => WritesLocked'
  <1> SUFFICES ASSUME Typed, WritesLocked, DistinctParents, [Next]_vars
               PROVE  WritesLocked'
    OBVIOUS
  <1>1. ASSUME NEW t \in Threads, LookupSelfDeadlock(t) PROVE WritesLocked'
    BY <1>1 DEF LookupSelfDeadlock, threadVars, lockVars, WritesLocked, Writes
  <1>2. CASE UNCHANGED vars
    BY <1>2 DEF vars, threadVars, lockVars, WritesLocked, Writes
  <1> QED
    BY <1>1, <1>2, ReceiveWrites, LookupDownWrites, LookupMissingWrites,
       LookupFoundWrites, UpgradeWrites, TryFailsWrites, TryFails2Writes,
       CreateTryWrites, DeleteTryWrites, MoveTry1Writes, MoveTry2Writes,
       SkipInodeWrites, LockInodeWrites, InodeInUseWrites, AllocateInodeWrites,
       NoInodeWrites, LockChildWrites, CreateAddEntryWrites,
       DeleteRemoveWrites, MoveAddEntryWrites, MoveResetEntryWrites,
       PrintOpenWrites, PrintLockWrites, PrintUnlockWrites, UnlockWrites
       DEF Next, Step

\* A step changes an i-node only if it is one of five, and then the thread that
\* takes it has the i-node locked to write.
LEMMA ChangeIsLocked ==
  ASSUME Typed, WritesLocked, NEW t \in Threads, Receive(t) \/ Step(t),
         NEW i \in Inodes,
         <<nodeType[i], dirEntries[i]>>' # <<nodeType[i], dirEntries[i]>>
  PROVE  writer[i] = t /\ pc[t] # pc'[t]
  <1> USE DEF Typed, TypeOK, TableTypeOK, ControlOK, ControlTypes, Writes,
              WritesLocked, OpOK, Goto, Return
  <1>1. CASE AllocateInode(t)
    BY <1>1 DEF AllocateInode
  <1>2. CASE CreateAddEntry(t)
    BY <1>2 DEF CreateAddEntry, AddEntry
  <1>3. CASE DeleteRemove(t)
    <2>1. i = cur[t] \/ i = child[t]
      BY <1>3 DEF DeleteRemove, WithoutEntry, tableVars
    <2> QED
      BY <1>3, <2>1 DEF DeleteRemove
  <1>4. CASE MoveAddEntry(t)
    BY <1>4 DEF MoveAddEntry, AddEntry
  <1>5. CASE MoveResetEntry(t)
    <2>1. i = parent1[t]
      BY <1>5 DEF MoveResetEntry, WithoutEntry
    <2> QED
      BY <1>5, <2>1 DEF MoveResetEntry
  <1>6. UNCHANGED tableVars \/ AllocateInode(t) \/ CreateAddEntry(t)
          \/ DeleteRemove(t) \/ MoveAddEntry(t) \/ MoveResetEntry(t)
    BY DEF Step, Receive, LookupDown, LookupMissing, LookupFound,
       LookupSelfDeadlock, Upgrade, TryFails, TryFails2, CreateTry, DeleteTry,
       MoveTry1, MoveTry2, Try, SkipInode, LockInode, InodeInUse, NoInode,
       LockChild, PrintOpen, PrintLock, PrintUnlock, Unlock
  <1> QED
    BY <1>1, <1>2, <1>3, <1>4, <1>5, <1>6 DEF tableVars

\* Nobody changes an i-node without its write lock, however many threads, as
\* long as no move comes to hold one directory in both its roles.
THEOREM ChangesLocked == Spec /\ []DistinctParents => ChangesAreLocked
  <1> DEFINE Changed(i) ==
        <<nodeType[i], dirEntries[i]>>' # <<nodeType[i], dirEntries[i]>>
             A == \A i \in Inodes : Changed(i)
                    => \E t \in Threads : writer[i] = t /\ pc[t] # pc'[t]
  <1>1. Init => WritesLocked
    BY DEF Init, WritesLocked, Writes
  <1>2. Typed /\ WritesLocked /\ [Next]_vars => [A]_vars
    <2> SUFFICES ASSUME Typed, WritesLocked, Next PROVE A
      BY DEF vars
    <2>1. (\E t \in Threads : Receive(t) \/ Step(t)) \/ UNCHANGED tableVars
      BY DEF Next, vars
    <2> QED
      BY <2>1, ChangeIsLocked DEF tableVars
  <1> QED
    BY <1>1, <1>2, InitTypes, NextTypes, NextWrites, PTL DEF Spec,
       ChangesAreLocked

=============================================================================
