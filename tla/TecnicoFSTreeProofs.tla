------------------------- MODULE TecnicoFSTreeProofs -------------------------
(***************************************************************************)
(* Further theorems about TecnicoFS: the locks are those the arrays say,   *)
(* the table is a tree, a path followed under locks still leads where the  *)
(* thread is, and print sees one tree.                                     *)
(***************************************************************************)
EXTENDS TecnicoFSProofs

\* Thread t is inside an operation, between its first lookup and the release.
Running(t) == stage[t] # "none" /\ pc[t] # "unlock"

\* How many names of its path it has followed.
Depth(t) == Len(Target(t)) - Len(rest[t])

\* w walks along the first n names of a path: it starts at the root, goes from a
\* node to the one its entry refers to, and comes to no node twice.
Walk(w, path, n) ==
    /\ w \in [0..n -> Inodes] /\ w[0] = FS_ROOT
    /\ \A k \in 1..n : w[k] = lookup_sub_node(path[k], w[k-1])
    /\ \A j, k \in 0..n : w[j] = w[k] => j = k

\* What thread t has followed is a walk to where it is, through nodes that it
\* holds; what is left to follow is the end of the path.
OnPath(t) ==
    /\ Target(t) \in Seq(Names) /\ Depth(t) \in Nat
    /\ \A j \in 1..Len(rest[t]) : rest[t][j] = Target(t)[Depth(t) + j]
    /\ \E w : /\ Walk(w, Target(t), Depth(t)) /\ w[Depth(t)] = cur[t]
              /\ \A k \in 0..Depth(t)-1 : w[k] \in held[t]

PathOK(t) ==
    Running(t) => OnPath(t) /\ (pc[t] # "lookup" => rest[t] = << >>)

\* Places where the parent directory has been found and its lock upgraded.
Parented == {"upgrade", "try", "scan", "probe", "lockChild", "addEntry",
             "remove", "resetEntry"}

\* Thread t has locked its child, to write.
ChildBound(t) ==
    pc[t] # "unlock" /\ (\/ stage[t] \in {"path2", "recover"}
                         \/ pc[t] \in {"remove", "addEntry", "resetEntry"})

\* The array, the child and the write locks of thread t, by its place.
LocksOK(t) ==
    /\ stage[t] = "none" => held[t] = {}
    /\ stage[t] \in {"none", "target", "first"} => child[t] = FREE_INODE
    /\ stage[t] = "path1" /\ pc[t] \in {"lookup", "upgrade", "try", "scan", "probe"}
          => child[t] = FREE_INODE
    /\ pc[t] \in Parented => cur[t] \in held[t]
    /\ pc[t] = "probe" => index[t] \notin held[t]
    /\ pc[t] = "print" => writer[FS_ROOT] = t
    /\ stage[t] \in {"path2", "recover"} /\ pc[t] # "unlock" => parent1[t] \in held[t]
    /\ ChildBound(t) => writer[child[t]] = t /\ child[t] \notin held[t]
    /\ \A i \in Inodes : writer[i] = t =>
          /\ pc[t] \in {"lookup", "upgrade", "try"} =>
                stage[t] \in {"path2", "recover"} /\ i \in {parent1[t], child[t]}
          /\ pc[t] = "lockChild" /\ req[t].op = "move" => i = cur[t]

LInv == ArrayMatchesLocks /\ \A t \in Threads : LocksOK(t)

Unreferenced(c) == \A d \in Inodes, s \in Slots : dirEntries[d][s].inumber # c

\* The table is a tree: TreeShape in a form that is inductive.  Two entries refer
\* to one i-node only while it is moved from the directory of one of them to the
\* directory of the other.
EntriesOK == \A d \in Inodes, s \in Slots : dirEntries[d][s].inumber # FREE_INODE =>
    /\ nodeType[d] = "T_DIRECTORY"
    /\ dirEntries[d][s].inumber # FS_ROOT
    /\ nodeType[dirEntries[d][s].inumber] # "T_NONE"
NamesUnique == \A d \in Inodes, s, r \in Slots :
    /\ dirEntries[d][s].inumber # FREE_INODE /\ dirEntries[d][r].inumber # FREE_INODE
    /\ dirEntries[d][s].name = dirEntries[d][r].name
    => s = r
Moving(t, d, e, c) == /\ pc[t] = "resetEntry" /\ child[t] = c
                      /\ d \in {cur[t], parent1[t]} /\ e \in {cur[t], parent1[t]}
ReferencesUnique == \A d, e \in Inodes, s, r \in Slots :
    /\ dirEntries[d][s].inumber # FREE_INODE
    /\ dirEntries[e][r].inumber = dirEntries[d][s].inumber
    /\ <<d, s>> # <<e, r>>
    => d # e /\ \E t \in Threads : Moving(t, d, e, dirEntries[d][s].inumber)
OrphansEmpty == \A i \in Inodes \ {FS_ROOT} :
    nodeType[i] # "T_NONE" /\ Unreferenced(i) => is_dir_empty(i)

TreeOK == /\ nodeType[FS_ROOT] = "T_DIRECTORY"
          /\ EntriesOK /\ NamesUnique /\ ReferencesUnique /\ OrphansEmpty

\* The last name of a path is that of the entry that refers to i-node c.
EndsAt(path, c) ==
    IF path = << >> THEN c = FS_ROOT
    ELSE \E d \in Inodes, s \in Slots :
            dirEntries[d][s].inumber = c /\ dirEntries[d][s].name = NameOf(path)

\* Thread t has a child that it created and that is in no directory yet.
Creating(t) == req[t].op = "create" /\ pc[t] \in {"lockChild", "addEntry"}

\* Directory d has an entry of that name, for i-node c; it has none.
HasEntry(d, name, c) ==
    \E s \in Slots : dirEntries[d][s].inumber = c /\ dirEntries[d][s].name = name
NoEntry(d, name) ==
    \A s \in Slots : dirEntries[d][s].inumber # FREE_INODE
                        => dirEntries[d][s].name # name

\* What a thread at place l and stage s of request r, in directory d, with p as
\* the first directory of a move and c as its child, has found and is still so.
FoundAt(l, s, r, d, p, c) ==
    /\ r.op = "create" /\ l \in {"scan", "probe", "lockChild", "addEntry"} =>
          NoEntry(d, NameOf(r.path))
    /\ r.op = "create" /\ l \in {"lockChild", "addEntry"} =>
          c # FS_ROOT /\ nodeType[c] # "T_NONE" /\ Unreferenced(c)
    /\ l = "remove" => r.op = "delete"
    /\ r.op = "delete" /\ l \in {"lockChild", "remove"} => HasEntry(d, NameOf(r.path), c)
    /\ /\ r.op = "move" /\ l # "unlock"
       /\ l = "lockChild" \/ s \in {"path2", "recover"}
       => HasEntry(p, NameOf(r.path), c) /\ EndsAt(ParentOf(r.path), p)
    /\ r.op = "move" /\ l = "addEntry" => NoEntry(d, NameOf(r.to))
    /\ r.op = "move" /\ l = "resetEntry" => HasEntry(d, NameOf(r.to), c)
    /\ r.op = "move" /\ l \in {"addEntry", "resetEntry"} => d # p

Found(t) == FoundAt(pc[t], stage[t], req[t], cur[t], parent1[t], child[t])

\* Two threads create two i-nodes.
OwnChildren == \A t, u \in Threads :
    Creating(t) /\ Creating(u) /\ child[t] = child[u] => t = u

PInv == \A t \in Threads : PathOK(t)
TInv == TreeOK /\ OwnChildren /\ \A t \in Threads : Found(t)

IInv == Typed /\ WritesLocked /\ LInv /\ PInv /\ TInv

-----------------------------------------------------------------------------
\* Operators.

\* A set of natural numbers up to n that is not empty has a least member.
LEMMA LeastMember ==
  ASSUME NEW n \in Nat, NEW hits \in SUBSET (0..n), hits # {}
  PROVE  \E s \in hits : \A u \in hits : s <= u
  <1> DEFINE below(m) == {u \in hits : u <= m}
             T == {below(m) : m \in hits}
             R == StrictSubsetOrdering(0..n)
  <1>1. IsFiniteSet(0..n)
    BY FS_Interval
  <1>2. T \subseteq FiniteSubsetsOf(0..n) /\ T # {}
    <2>1. FiniteSubsetsOf(0..n) = SUBSET (0..n)
      BY <1>1, FS_FiniteSubsetsOfFinite
    <2>2. \A m \in hits : below(m) \in SUBSET (0..n)
      OBVIOUS
    <2>3. T \subseteq SUBSET (0..n)
      BY <2>2
    <2>4. T # {}
      OBVIOUS
    <2> QED
      BY <2>1, <2>3, <2>4
  <1>3. PICK M \in T : \A U \in T : <<U, M>> \notin R
    <2>1. IsWellFoundedOn(R, FiniteSubsetsOf(0..n))
      BY FS_StrictSubsetOrderingWellFounded
    <2> HIDE DEF T, R
    <2> QED
      BY <1>2, <2>1, WFMin
  <1>4. PICK m \in hits : M = below(m)
    BY <1>3
  <1>5. ASSUME NEW u \in hits, ~(m <= u) PROVE FALSE
    <2>1. u \in Nat /\ m \in Nat /\ hits \subseteq Nat
      OBVIOUS
    <2>2. u <= m /\ ~(m <= u) /\ m <= m
      BY <1>5, <2>1
    <2>3. below(u) \subseteq M
      <3>1. \A v \in hits : v <= u => v <= m
        BY <2>1, <2>2
      <3> QED
        BY <1>4, <3>1
    <2>4. m \in M /\ m \notin below(u) /\ below(u) \in T
      BY <1>4, <2>2
    <2>5. <<below(u), M>> \in R
      BY <1>4, <2>3, <2>4 DEF StrictSubsetOrdering
    <2> QED
      BY <1>3, <2>4, <2>5
  <1> QED
    BY <1>5

\* What lookup_sub_node returns: FAIL if no entry has the name, or what such an
\* entry refers to.
LEMMA SubNodeFound ==
  ASSUME dirEntries \in [Inodes -> [Slots -> Entry]],
         NEW d \in Inodes, NEW name
  PROVE  /\ lookup_sub_node(name, d) \in Inodes \cup {FAIL}
         /\ lookup_sub_node(name, d) = FAIL <=>
              \A s \in Slots : dirEntries[d][s].inumber # FREE_INODE
                                 => dirEntries[d][s].name # name
         /\ lookup_sub_node(name, d) # FAIL =>
              \E s \in Slots : /\ dirEntries[d][s].inumber = lookup_sub_node(name, d)
                               /\ dirEntries[d][s].inumber # FREE_INODE
                               /\ dirEntries[d][s].name = name
  <1> DEFINE hits == {s \in Slots : /\ dirEntries[d][s].inumber # FREE_INODE
                                    /\ dirEntries[d][s].name = name}
  <1>1. hits \in SUBSET Slots
    OBVIOUS
  <1>2. SlotNamed(d, name) = First(hits)
    BY DEF SlotNamed
  <1>3. hits = {} <=> SlotNamed(d, name) = 0
    BY <1>1, <1>2, FirstIsLowest
  <1>4. hits # {} => SlotNamed(d, name) \in hits
    BY <1>1, <1>2, FirstIsLowest
  <1>5. \A s \in hits : dirEntries[d][s].inumber \in Inodes
    BY DEF Entry
  <1>6. FAIL \notin Inodes /\ FAIL = FREE_INODE
    BY DEF FAIL, FREE_INODE, Inodes
  <1> QED
    BY <1>3, <1>4, <1>5, <1>6 DEF lookup_sub_node

\* Who follows a path from the root, name by name, ends where Resolve says.
LEMMA FollowResolves ==
  ASSUME NEW path \in Seq(Names), NEW w \in [0..Len(path) -> Inodes], w[0] = FS_ROOT,
         \A k \in 1..Len(path) : w[k] = lookup_sub_node(path[k], w[k-1])
  PROVE  Resolve(path) = w[Len(path)]
  <1> DEFINE n == Len(path)
             step(f, k) == IF k = 0 THEN FS_ROOT
                           ELSE IF f[k-1] = FAIL THEN FAIL
                           ELSE lookup_sub_node(path[k], f[k-1])
             eq(f) == f = [k \in 0..n |-> step(f, k)]
             g == CHOOSE f : eq(f)
  <1>1. n \in Nat
    OBVIOUS
  <1>2. FAIL \notin Inodes
    BY DEF FAIL, Inodes
  <1>3. eq(w)
    <2>1. \A k \in 0..n : w[k] = step(w, k)
      BY <1>1, <1>2
    <2>2. w = [k \in 0..n |-> w[k]]
      OBVIOUS
    <2> QED
      BY <2>1, <2>2
  <1>4. eq(g)
    BY <1>3
  <1>5. \A k \in 0..n : g[k] = step(g, k) /\ w[k] = step(w, k)
    <2> HIDE DEF g, step
    <2> QED
      BY <1>3, <1>4
  <1>6. \A k \in 0..n : g[k] = w[k]
    <2> DEFINE bad == {k \in 0..n : g[k] # w[k]}
    <2> SUFFICES ASSUME bad # {} PROVE FALSE
      OBVIOUS
    <2>1. PICK k \in bad : \A j \in bad : k <= j
      BY <1>1, LeastMember
    <2>2. CASE k = 0
      BY <1>5, <2>1, <2>2
    <2>3. CASE k # 0
      <3>1. k - 1 \in 0..n /\ ~(k <= k - 1) /\ k \in 0..n
        BY <1>1, <2>3
      <3>2. g[k-1] = w[k-1]
        BY <2>1, <3>1
      <3>3. step(g, k) = step(w, k)
        BY <3>2
      <3> QED
        BY <1>5, <2>1, <3>1, <3>3
    <2> QED
      BY <2>2, <2>3
  <1>7. Resolve(path) = g[n]
    BY DEF Resolve
  <1> QED
    BY <1>1, <1>6, <1>7

\* A walk along a whole path ends where Resolve says the path leads.
LEMMA WalkResolves ==
  ASSUME NEW path \in Seq(Names), NEW w, Walk(w, path, Len(path))
  PROVE  Resolve(path) = w[Len(path)]
  BY FollowResolves DEF Walk

-----------------------------------------------------------------------------
\* What a step leaves alone.

\* A step of thread t does one thing with the locks, or nothing.
LockStep(t) ==
    \/ UNCHANGED lockVars
    \/ \E i \in Inodes : RdLock(i) \/ WrLock(t, i)
    \/ \E I \in SUBSET Inodes : UnlockSet(t, I)

\* The variables of the other threads, and their write locks.
LeavesOthers(t) ==
    /\ OnlyThread(t)
    /\ \A u \in Threads \ {t} :
          /\ held'[u] = held[u] /\ rest'[u] = rest[u]
          /\ \A i \in Inodes : writer'[i] = u <=> writer[i] = u

\* The steps that change no table.
LEMMA StepFrame ==
  ASSUME Typed, NEW t \in Threads, Receive(t) \/ Step(t)
  PROVE  /\ LeavesOthers(t)
         /\ \/ UNCHANGED tableVars
            \/ AllocateInode(t) \/ CreateAddEntry(t) \/ DeleteRemove(t)
            \/ MoveAddEntry(t) \/ MoveResetEntry(t)
  <1>1. /\ held \in [Threads -> SUBSET Inodes] /\ rest \in [Threads -> Seq(Names)]
        /\ writer \in [Inodes -> Threads \cup {None}] /\ None \notin Threads
        /\ cur[t] \in Inodes /\ held[t] \in SUBSET Inodes
        /\ child[t] \in Inodes \cup {FREE_INODE} /\ FS_ROOT \in Inodes
    BY ThreadsAssumption, TableAssumption
       DEF Typed, TypeOK, TableTypeOK, FS_ROOT, Inodes
  <1>2. OnlyThread(t)
    <2>1. LookupSelfDeadlock(t) => OnlyThread(t)
      BY DEF LookupSelfDeadlock, threadVars, OnlyThread
    <2> QED
      BY <2>1, ReceiveTypes, LookupDownTypes, LookupMissingTypes,
         LookupFoundTypes, UpgradeTypes, TryFailsTypes, TryFails2Types,
         CreateTryTypes, DeleteTryTypes, MoveTry1Types, MoveTry2Types,
         SkipInodeTypes, LockInodeTypes, InodeInUseTypes, AllocateInodeTypes,
         NoInodeTypes, LockChildTypes, CreateAddEntryTypes, DeleteRemoveTypes,
         MoveAddEntryTypes, MoveResetEntryTypes, PrintOpenTypes, PrintLockTypes,
         PrintUnlockTypes, UnlockTypes
         DEF Step
  <1>3. \A u \in Threads \ {t} : held'[u] = held[u] /\ rest'[u] = rest[u]
    <2>1. ASSUME Receive(t) PROVE held' = held /\ \A u \in Threads \ {t} : rest'[u] = rest[u]
      BY <1>1, <2>1 DEF Receive, StartLookup
    <2>2. ASSUME LookupDown(t) \/ LookupMissing(t) \/ LookupFound(t)
          PROVE  \A u \in Threads \ {t} : held'[u] = held[u] /\ rest'[u] = rest[u]
      BY <1>1, <2>2 DEF LookupDown, LookupMissing, LookupFound, Acquire,
         StartLookup
    <2>3. ASSUME TryFails(t) \/ TryFails2(t) \/ LockChild(t) \/ Unlock(t)
          PROVE  \A u \in Threads \ {t} : held'[u] = held[u] /\ rest'[u] = rest[u]
      BY <1>1, <2>3 DEF TryFails, TryFails2, LockChild, Unlock, StartLookup
    <2>4. Step(t) => \/ LookupDown(t) \/ LookupMissing(t) \/ LookupFound(t)
                     \/ TryFails(t) \/ TryFails2(t) \/ LockChild(t) \/ Unlock(t)
                     \/ UNCHANGED <<held, rest>>
      BY DEF Step, LookupSelfDeadlock, threadVars, Upgrade, CreateTry,
         DeleteTry, MoveTry1, MoveTry2, Try, SkipInode, LockInode, InodeInUse,
         AllocateInode, NoInode, CreateAddEntry, DeleteRemove, MoveAddEntry,
         MoveResetEntry, PrintOpen, PrintLock, PrintUnlock
    <2> QED
      BY <2>1, <2>2, <2>3, <2>4
  <1>4. LockStep(t)
    <2>1. ASSUME LookupDown(t) \/ LookupMissing(t) \/ LookupFound(t)
          PROVE  LockStep(t)
      BY <1>1, <2>1 DEF LookupDown, LookupMissing, LookupFound, Acquire, LockStep
    <2>2. ASSUME \/ CreateTry(t) \/ DeleteTry(t) \/ MoveTry1(t) \/ MoveTry2(t)
                 \/ LockInode(t) \/ LockChild(t) \/ PrintLock(t)
          PROVE  LockStep(t)
      <3>1. index[t] \in Nat
        BY DEF Typed, TypeOK
      <3>2. pc[t] = "lockChild" => child[t] \in Inodes
        BY DEF Typed, ControlOK, OpOK
      <3> QED
        BY <1>1, <2>2, <3>1, <3>2, TableAssumption DEF CreateTry, DeleteTry,
           MoveTry1, MoveTry2, Try, LockInode, LockChild, PrintLock, Inodes,
           LockStep
    <2>3. ASSUME \/ Upgrade(t) \/ TryFails(t) \/ TryFails2(t) \/ InodeInUse(t)
                 \/ AllocateInode(t) \/ PrintUnlock(t) \/ Unlock(t)
          PROVE  LockStep(t)
      <3>1. \E I \in SUBSET Inodes : UnlockSet(t, I)
        <4>1. pc[t] = "probe" => index[t] \in Inodes
          BY DEF Typed, ControlOK, OpOK
        <4>2. /\ {cur[t]} \in SUBSET Inodes /\ {FS_ROOT} \in SUBSET Inodes
              /\ held[t] \ {cur[t]} \in SUBSET Inodes
              /\ held[t] \ {cur[t], parent1[t]} \in SUBSET Inodes
              /\ AllHeld(t) \in SUBSET Inodes
              /\ pc[t] = "probe" => {index[t]} \in SUBSET Inodes
          BY <1>1, <4>1 DEF AllHeld
        <4> QED
          BY <2>3, <4>2 DEF Upgrade, TryFails, TryFails2, InodeInUse,
             AllocateInode, PrintUnlock, Unlock
      <3> QED
        BY <3>1 DEF LockStep
    <2>4. UNCHANGED lockVars => LockStep(t)
      BY DEF LockStep
    <2>5. \/ UNCHANGED lockVars
          \/ LookupDown(t) \/ LookupMissing(t) \/ LookupFound(t)
          \/ CreateTry(t) \/ DeleteTry(t) \/ MoveTry1(t) \/ MoveTry2(t)
          \/ LockInode(t) \/ LockChild(t) \/ PrintLock(t)
          \/ Upgrade(t) \/ TryFails(t) \/ TryFails2(t) \/ InodeInUse(t)
          \/ AllocateInode(t) \/ PrintUnlock(t) \/ Unlock(t)
      BY DEF Receive, Step, LookupSelfDeadlock, SkipInode, NoInode,
         CreateAddEntry, DeleteRemove, MoveAddEntry, MoveResetEntry, PrintOpen
    <2> QED
      BY <2>1, <2>2, <2>3, <2>4, <2>5
  <1>5. \A u \in Threads \ {t}, i \in Inodes : writer'[i] = u <=> writer[i] = u
    BY <1>1, <1>4 DEF LockStep, lockVars, RdLock, WrLock, Unlocked, UnlockSet
  <1>6. \/ UNCHANGED tableVars
        \/ AllocateInode(t) \/ CreateAddEntry(t) \/ DeleteRemove(t)
        \/ MoveAddEntry(t) \/ MoveResetEntry(t)
    BY DEF Step, Receive, LookupDown, LookupMissing, LookupFound,
       LookupSelfDeadlock, Upgrade, TryFails, TryFails2, CreateTry, DeleteTry,
       MoveTry1, MoveTry2, Try, SkipInode, LockInode, InodeInUse, NoInode,
       LockChild, PrintOpen, PrintLock, PrintUnlock, Unlock
  <1> QED
    BY <1>2, <1>3, <1>5, <1>6 DEF LeavesOthers

-----------------------------------------------------------------------------
\* The locks are those that the threads have marked.

\* What a step of thread t does with the lock of i-node i: nothing, take it to
\* read, take it to write, or release it; its array follows.
LockMove(t, i) ==
    \/ /\ writer'[i] = writer[i] /\ readers'[i] = readers[i]
       /\ i \in Marked(t)' <=> i \in Marked(t)
    \/ /\ i \notin Marked(t) /\ i \in Marked(t)'
       /\ writer[i] = None /\ writer'[i] = None /\ readers'[i] = readers[i] + 1
    \/ /\ i \notin Marked(t) /\ i \in Marked(t)'
       /\ Unlocked(i) /\ writer'[i] = t /\ readers'[i] = readers[i]
    \/ /\ i \in Marked(t) /\ i \notin Marked(t)'
       /\ writer[i] = t /\ writer'[i] = None /\ readers'[i] = readers[i]
    \/ /\ i \in Marked(t) /\ i \notin Marked(t)'
       /\ writer[i] # t /\ writer'[i] = writer[i] /\ readers'[i] = readers[i] - 1

\* A thread that has marked an i-node excludes another writer.
LEMMA MarkedExcludes ==
  ASSUME Typed, ArrayMatchesLocks, NEW i \in Inodes, NEW t \in Threads,
         i \in Marked(t)
  PROVE  writer[i] \in {t, None}
  <1>1. SUFFICES ASSUME writer[i] # None, writer[i] # t PROVE FALSE
    OBVIOUS
  <1>2. Cardinality(ReadersOf(i)) = 0
    BY <1>1 DEF ArrayMatchesLocks
  <1>3. IsFiniteSet(ReadersOf(i))
    BY FS_Subset, ThreadsAssumption DEF ReadersOf
  <1>4. ReadersOf(i) = {}
    BY <1>2, <1>3, FS_EmptySet
  <1> QED
    BY <1>1, <1>4 DEF ReadersOf

\* What the other threads have marked is left alone.
LEMMA OthersMarked ==
  ASSUME NEW t \in Threads, LeavesOthers(t), NEW u \in Threads \ {t}
  PROVE  Marked(u)' = Marked(u)
  BY DEF LeavesOthers, OnlyThread, Marked, ChildLocked

\* Any of these moves keeps the count of readers right, and a writer alone.
LEMMA LockMoveMatches ==
  ASSUME Typed, ArrayMatchesLocks, NEW t \in Threads, LeavesOthers(t), TypeOK',
         \A i \in Inodes : LockMove(t, i)
  PROVE  ArrayMatchesLocks'
  <1> SUFFICES ASSUME NEW i \in Inodes
               PROVE  /\ readers'[i] = Cardinality(ReadersOf(i)')
                      /\ \A u \in Threads : writer'[i] = u =>
                            i \in Marked(u)' /\ readers'[i] = 0
    BY DEF ArrayMatchesLocks, TypeOK, TableTypeOK
  <1> DEFINE R == ReadersOf(i)
             S == ReadersOf(i)'
  <1>1. /\ R = {u \in Threads : i \in Marked(u) /\ writer[i] # u}
        /\ S = {u \in Threads : i \in Marked(u)' /\ writer'[i] # u}
    BY DEF ReadersOf
  <1>2. IsFiniteSet(R) /\ IsFiniteSet(S) /\ IsFiniteSet({})
    BY <1>1, FS_Subset, FS_EmptySet, ThreadsAssumption
  <1>3. /\ readers[i] = Cardinality(R) /\ readers[i] \in Int
        /\ \A u \in Threads : writer[i] = u => i \in Marked(u) /\ readers[i] = 0
        /\ writer[i] \in Threads \cup {None} /\ None \notin Threads
    BY ThreadsAssumption DEF ArrayMatchesLocks, Typed, TypeOK, TableTypeOK
  <1>4. readers[i] = 0 => R = {}
    BY <1>2, <1>3, FS_EmptySet
  <1>5. \A u \in Threads \ {t} : /\ i \in Marked(u)' <=> i \in Marked(u)
                                 /\ writer'[i] = u <=> writer[i] = u
    BY OthersMarked DEF LeavesOthers
  <1>6. Cardinality({}) = 0
    BY FS_EmptySet
  <1>7. writer'[i] \in Threads \cup {None}
    BY DEF TypeOK, TableTypeOK
  <1> SUFFICES /\ readers'[i] = Cardinality(S)
               /\ \A u \in Threads : writer'[i] = u =>
                     i \in Marked(u)' /\ readers'[i] = 0
    OBVIOUS
  <1> HIDE DEF R, S
  <1>8. CASE /\ writer'[i] = writer[i] /\ readers'[i] = readers[i]
             /\ i \in Marked(t)' <=> i \in Marked(t)
    <2>1. S = R
      BY <1>1, <1>5, <1>8
    <2> QED
      BY <1>3, <1>5, <1>8, <2>1
  <1>9. CASE /\ i \notin Marked(t) /\ i \in Marked(t)'
             /\ writer[i] = None /\ writer'[i] = None /\ readers'[i] = readers[i] + 1
    <2>1. S = R \cup {t} /\ t \notin R
      BY <1>1, <1>3, <1>5, <1>9
    <2>2. Cardinality(S) = Cardinality(R) + 1
      BY <1>2, <2>1, FS_AddElement
    <2> QED
      BY <1>3, <1>9, <2>2
  <1>10. CASE /\ i \notin Marked(t) /\ i \in Marked(t)'
              /\ Unlocked(i) /\ writer'[i] = t /\ readers'[i] = readers[i]
    <2>1. S = {}
      BY <1>1, <1>3, <1>4, <1>5, <1>10 DEF Unlocked
    <2> QED
      BY <1>3, <1>6, <1>10, <2>1 DEF Unlocked
  <1>11. CASE /\ i \in Marked(t) /\ i \notin Marked(t)'
              /\ writer[i] = t /\ writer'[i] = None /\ readers'[i] = readers[i]
    <2>1. S = {} /\ readers[i] = 0
      BY <1>1, <1>3, <1>4, <1>5, <1>11
    <2> QED
      BY <1>3, <1>6, <1>11, <2>1
  <1>12. CASE /\ i \in Marked(t) /\ i \notin Marked(t)'
              /\ writer[i] # t /\ writer'[i] = writer[i] /\ readers'[i] = readers[i] - 1
    <2>1. S = R \ {t} /\ t \in R
      BY <1>1, <1>5, <1>12
    <2>2. Cardinality(S) = Cardinality(R) - 1
      BY <1>2, <2>1, FS_RemoveElement
    <2>3. writer[i] = None
      BY <1>3, <1>4, <2>1
    <2> QED
      BY <1>3, <1>12, <2>2, <2>3
  <1> QED
    BY <1>8, <1>9, <1>10, <1>11, <1>12 DEF LockMove

\* Each step makes one of these moves with each lock.
LEMMA StepLockMoves ==
  ASSUME Typed, WritesLocked, LInv, DistinctParents, NEW t \in Threads,
         Receive(t) \/ Step(t), NEW i \in Inodes
  PROVE  LockMove(t, i)
  <1>1. /\ LocksOK(t) /\ OpOK(t) /\ Writes(t)
        /\ writer[i] \in Threads \cup {None} /\ None \notin Threads
        /\ \A u \in Threads : writer[i] = u => i \in Marked(u)
        /\ Unlocked(i) => i \notin Marked(t)
    <2>1. Unlocked(i) => i \notin Marked(t)
      <3> SUFFICES ASSUME Unlocked(i), i \in Marked(t) PROVE FALSE
        OBVIOUS
      <3>1. Cardinality(ReadersOf(i)) = 0 /\ t \in ReadersOf(i)
        BY ThreadsAssumption DEF LInv, ArrayMatchesLocks, Unlocked, ReadersOf
      <3>2. IsFiniteSet(ReadersOf(i))
        BY FS_Subset, ThreadsAssumption DEF ReadersOf
      <3> QED
        BY <3>1, <3>2, FS_EmptySet
    <2> QED
      BY <2>1, ThreadsAssumption DEF LInv, ArrayMatchesLocks, WritesLocked, Typed,
         ControlOK, TypeOK, TableTypeOK
  <1>2. /\ pc \in [Threads -> Labels] /\ stage \in [Threads -> Stages]
        /\ held \in [Threads -> SUBSET Inodes] /\ cur \in [Threads -> Inodes]
        /\ child \in [Threads -> Inodes \cup {FREE_INODE}]
        /\ parent1 \in [Threads -> Inodes \cup {FREE_INODE}]
        /\ index \in [Threads -> 0..INODE_TABLE_SIZE]
        /\ writer \in [Inodes -> Threads \cup {None}] /\ readers \in [Inodes -> Int]
        /\ FREE_INODE \notin Inodes
    BY DEF Typed, ControlOK, ControlTypes, TypeOK, TableTypeOK, FREE_INODE, Inodes
  <1> USE DEF LockMove, Marked, ChildLocked, LocksOK, ChildBound, Parented, OpOK,
              Writes, Goto, Return, Unlocked
  <1>3. CASE Receive(t)
    <2>1. /\ UNCHANGED <<writer, readers, held, child>>
          /\ pc[t] = "idle" /\ pc'[t] \in {"lookup", "open"}
      BY <1>2, <1>3 DEF Receive, StartLookup, lockVars
    <2> QED
      BY <1>1, <1>2, <2>1
  <1>a. ASSUME Acquire(t), pc'[t] \in {"lookup", "unlock", "upgrade"},
               UNCHANGED child
        PROVE  LockMove(t, i)
    <2>1. Marked(t) = held[t] \cup (IF child[t] # FREE_INODE THEN {child[t]} ELSE {})
      BY <1>a DEF Acquire
    <2>2. Marked(t)' = held'[t] \cup (IF child[t] # FREE_INODE THEN {child[t]} ELSE {})
      BY <1>a
    <2>3. CASE cur[t] \in held[t] /\ UNCHANGED <<lockVars, held>>
      BY <2>1, <2>2, <2>3 DEF lockVars
    <2>4. CASE /\ cur[t] \notin held[t] /\ RdLock(cur[t])
               /\ held' = [held EXCEPT ![t] = @ \cup {cur[t]}]
      <3>1. writer[cur[t]] = None
        BY <2>4 DEF RdLock
      <3>2. child[t] # FREE_INODE => child[t] # cur[t]
        BY <1>1, <1>2, <1>a, <3>1 DEF Acquire, Stages
      <3>3. held'[t] = held[t] \cup {cur[t]}
        BY <1>2, <2>4
      <3>4. CASE i = cur[t]
        BY <1>2, <2>1, <2>2, <2>4, <3>1, <3>2, <3>3, <3>4 DEF RdLock
      <3>5. CASE i # cur[t]
        BY <1>2, <2>1, <2>2, <2>4, <3>3, <3>5 DEF RdLock
      <3> QED
        BY <3>4, <3>5
    <2> QED
      BY <1>a, <2>3, <2>4 DEF Acquire
  <1>4. CASE LookupDown(t)
    <2>1. Acquire(t) /\ UNCHANGED child /\ pc'[t] = "lookup"
      BY <1>4 DEF LookupDown, Acquire
    <2> QED
      BY <1>a, <2>1
  <1>5. CASE LookupMissing(t)
    <2>1. Acquire(t) /\ UNCHANGED child /\ pc'[t] \in {"lookup", "unlock"}
      BY <1>2, <1>5 DEF LookupMissing, StartLookup
    <2> QED
      BY <1>a, <2>1
  <1>6. CASE LookupFound(t)
    <2>1. Acquire(t) /\ UNCHANGED child /\ pc'[t] \in {"lookup", "unlock", "upgrade"}
      BY <1>2, <1>6 DEF LookupFound, StartLookup
    <2> QED
      BY <1>a, <2>1
  <1>7. CASE Upgrade(t)
    BY <1>1, <1>2, <1>7 DEF Upgrade, UnlockSet, DistinctParents
  <1>8. CASE TryFails(t)
    BY <1>1, <1>2, <1>8 DEF TryFails, UnlockSet, StartLookup
  <1>9. CASE TryFails2(t)
    BY <1>1, <1>2, <1>9 DEF TryFails2, UnlockSet, StartLookup, DistinctParents
  <1>10. CASE CreateTry(t)
    BY <1>1, <1>2, <1>10 DEF CreateTry, Try, WrLock
  <1>11. CASE DeleteTry(t)
    BY <1>1, <1>2, <1>11 DEF DeleteTry, Try, WrLock
  <1>12. CASE MoveTry1(t)
    BY <1>1, <1>2, <1>12 DEF MoveTry1, Try, WrLock
  <1>13. CASE MoveTry2(t)
    BY <1>1, <1>2, <1>13 DEF MoveTry2, Try, WrLock
  <1>14. CASE LockInode(t)
    BY <1>1, <1>2, <1>14 DEF LockInode, WrLock
  <1>15. CASE InodeInUse(t)
    BY <1>1, <1>2, <1>15 DEF InodeInUse, UnlockSet
  <1>16. CASE AllocateInode(t)
    BY <1>1, <1>2, <1>16 DEF AllocateInode, UnlockSet
  <1>17. CASE LockChild(t)
    BY <1>1, <1>2, <1>17 DEF LockChild, WrLock, StartLookup
  <1>18. CASE PrintLock(t)
    BY <1>1, <1>2, <1>18 DEF PrintLock, WrLock
  <1>19. CASE PrintUnlock(t)
    BY <1>1, <1>2, <1>19 DEF PrintUnlock, UnlockSet
  <1>20. CASE Unlock(t)
    BY <1>1, <1>2, <1>20 DEF Unlock, UnlockSet, AllHeld
  <1>21. CASE SkipInode(t)
    BY <1>1, <1>2, <1>21 DEF SkipInode, lockVars
  <1>22. CASE NoInode(t)
    BY <1>1, <1>2, <1>22 DEF NoInode, lockVars
  <1>23. CASE CreateAddEntry(t)
    BY <1>1, <1>2, <1>23 DEF CreateAddEntry, lockVars
  <1>24. CASE DeleteRemove(t)
    BY <1>1, <1>2, <1>24 DEF DeleteRemove, lockVars
  <1>25. CASE MoveAddEntry(t)
    BY <1>1, <1>2, <1>25 DEF MoveAddEntry, lockVars
  <1>26. CASE MoveResetEntry(t)
    BY <1>1, <1>2, <1>26 DEF MoveResetEntry, lockVars
  <1>27. CASE PrintOpen(t)
    BY <1>1, <1>2, <1>27 DEF PrintOpen, lockVars
  <1>28. CASE LookupSelfDeadlock(t)
    BY <1>1, <1>2, <1>28 DEF LookupSelfDeadlock, lockVars, threadVars
  <1> QED
    BY <1>3, <1>4, <1>5, <1>6, <1>7, <1>8, <1>9, <1>10, <1>11, <1>12, <1>13,
       <1>14, <1>15, <1>16, <1>17, <1>18, <1>19, <1>20, <1>21, <1>22, <1>23,
       <1>24, <1>25, <1>26, <1>27, <1>28 DEF Step

\* LocksOK is about the variables and the write locks of one thread: the steps of
\* the others keep it.
LEMMA LocksOKFrame ==
  ASSUME Typed, Typed', NEW t \in Threads, LeavesOthers(t),
         NEW u \in Threads \ {t}, LocksOK(u)
  PROVE  LocksOK(u)'
  <1>1. \A i \in Inodes : writer'[i] = u <=> writer[i] = u
    BY DEF LeavesOthers
  <1>2. OpOK(u) /\ cur[u] \in Inodes
    BY DEF Typed, ControlOK, TypeOK
  <1>3. FS_ROOT \in Inodes
    BY TableAssumption DEF FS_ROOT, Inodes
  <1> QED
    BY <1>1, <1>2, <1>3 DEF LocksOK, ChildBound, LeavesOthers, OnlyThread, OpOK

\* And a thread's own steps keep it.
LEMMA LocksOKStep ==
  ASSUME Typed, Typed', WritesLocked, LInv, DistinctParents, NEW t \in Threads,
         Receive(t) \/ Step(t)
  PROVE  LocksOK(t)'
  <1>1. /\ LocksOK(t) /\ OpOK(t) /\ Writes(t) /\ OpOK(t)'
        /\ None \notin Threads
        /\ \A i \in Inodes : writer[i] = t => i \in Marked(t)
        /\ \A i \in Inodes : Unlocked(i) => i \notin Marked(t)
    <2>1. ASSUME NEW i \in Inodes, Unlocked(i), i \in Marked(t) PROVE FALSE
      <3>1. Cardinality(ReadersOf(i)) = 0 /\ t \in ReadersOf(i)
        BY <2>1, ThreadsAssumption DEF LInv, ArrayMatchesLocks, Unlocked, ReadersOf
      <3>2. IsFiniteSet(ReadersOf(i))
        BY FS_Subset, ThreadsAssumption DEF ReadersOf
      <3> QED
        BY <3>1, <3>2, FS_EmptySet
    <2> QED
      BY <2>1, ThreadsAssumption DEF LInv, ArrayMatchesLocks, WritesLocked, Typed,
         ControlOK
  <1>2. /\ pc \in [Threads -> Labels] /\ stage \in [Threads -> Stages]
        /\ held \in [Threads -> SUBSET Inodes] /\ cur \in [Threads -> Inodes]
        /\ child \in [Threads -> Inodes \cup {FREE_INODE}]
        /\ parent1 \in [Threads -> Inodes \cup {FREE_INODE}]
        /\ index \in [Threads -> 0..INODE_TABLE_SIZE]
        /\ writer \in [Inodes -> Threads \cup {None}] /\ readers \in [Inodes -> Int]
        /\ FREE_INODE \notin Inodes
    BY DEF Typed, ControlOK, ControlTypes, TypeOK, TableTypeOK, FREE_INODE, Inodes
  <1> USE DEF Marked, ChildLocked, LocksOK, ChildBound, Parented, OpOK, Writes,
              Goto, Return, Unlocked
  <1>3. CASE Receive(t)
    BY <1>1, <1>2, <1>3 DEF Receive, StartLookup, lockVars
  <1>4. CASE LookupDown(t)
    BY <1>1, <1>2, <1>4 DEF LookupDown, Acquire, RdLock, lockVars
  <1>5. CASE LookupMissing(t)
    BY <1>1, <1>2, <1>5 DEF LookupMissing, Acquire, RdLock, StartLookup,
       lockVars
  <1>6. CASE LookupFound(t)
    BY <1>1, <1>2, <1>6 DEF LookupFound, Acquire, RdLock, StartLookup,
       lockVars
  <1>7. CASE LookupSelfDeadlock(t)
    BY <1>1, <1>2, <1>7 DEF LookupSelfDeadlock, threadVars, lockVars
  <1>8. CASE Upgrade(t)
    BY <1>1, <1>2, <1>8 DEF Upgrade, UnlockSet, DistinctParents
  <1>9. CASE TryFails(t)
    BY <1>1, <1>2, <1>9 DEF TryFails, UnlockSet, StartLookup
  <1>10. CASE TryFails2(t)
    BY <1>1, <1>2, <1>10 DEF TryFails2, UnlockSet, StartLookup,
       DistinctParents
  <1>11. CASE CreateTry(t)
    BY <1>1, <1>2, <1>11 DEF CreateTry, Try, WrLock
  <1>12. CASE DeleteTry(t)
    BY <1>1, <1>2, <1>12 DEF DeleteTry, Try, WrLock
  <1>13. CASE MoveTry1(t)
    BY <1>1, <1>2, <1>13 DEF MoveTry1, Try, WrLock
  <1>14. CASE MoveTry2(t)
    BY <1>1, <1>2, <1>14 DEF MoveTry2, Try, WrLock
  <1>15. CASE SkipInode(t)
    BY <1>1, <1>2, <1>15 DEF SkipInode, lockVars
  <1>16. CASE LockInode(t)
    BY <1>1, <1>2, <1>16 DEF LockInode, WrLock
  <1>17. CASE InodeInUse(t)
    BY <1>1, <1>2, <1>17 DEF InodeInUse, UnlockSet
  <1>18. CASE AllocateInode(t)
    BY <1>1, <1>2, <1>18 DEF AllocateInode, UnlockSet
  <1>19. CASE NoInode(t)
    BY <1>1, <1>2, <1>19 DEF NoInode, lockVars
  <1>20. CASE LockChild(t)
    BY <1>1, <1>2, <1>20 DEF LockChild, WrLock, StartLookup
  <1>21. CASE CreateAddEntry(t)
    BY <1>1, <1>2, <1>21 DEF CreateAddEntry, lockVars
  <1>22. CASE DeleteRemove(t)
    BY <1>1, <1>2, <1>22 DEF DeleteRemove, lockVars
  <1>23. CASE MoveAddEntry(t)
    BY <1>1, <1>2, <1>23 DEF MoveAddEntry, lockVars
  <1>24. CASE MoveResetEntry(t)
    BY <1>1, <1>2, <1>24 DEF MoveResetEntry, lockVars
  <1>25. CASE PrintOpen(t)
    BY <1>1, <1>2, <1>25 DEF PrintOpen, lockVars
  <1>26. CASE PrintLock(t)
    <2>1. FS_ROOT \in Inodes
      BY TableAssumption DEF FS_ROOT, Inodes
    <2> QED
      BY <1>1, <1>2, <1>26, <2>1 DEF PrintLock, WrLock
  <1>27. CASE PrintUnlock(t)
    BY <1>1, <1>2, <1>27 DEF PrintUnlock, UnlockSet
  <1>28. CASE Unlock(t)
    BY <1>1, <1>2, <1>28 DEF Unlock, UnlockSet, AllHeld
  <1> QED
    BY <1>3, <1>4, <1>5, <1>6, <1>7, <1>8, <1>9, <1>10, <1>11, <1>12, <1>13,
       <1>14, <1>15, <1>16, <1>17, <1>18, <1>19, <1>20, <1>21, <1>22, <1>23,
       <1>24, <1>25, <1>26, <1>27, <1>28 DEF Step

\* Every step keeps LInv, if no move holds one directory in both roles.
LEMMA NextLInv ==
  Typed /\ WritesLocked /\ LInv /\ DistinctParents /\ [Next]_vars => LInv'
  <1> SUFFICES ASSUME Typed, WritesLocked, LInv, DistinctParents, [Next]_vars
               PROVE  LInv'
    OBVIOUS
  <1>1. Typed'
    BY NextTypes
  <1>2. ASSUME NEW t \in Threads, Receive(t) \/ Step(t) PROVE LInv'
    <2>1. LeavesOthers(t)
      BY <1>2, StepFrame
    <2>2. ArrayMatchesLocks'
      BY <1>1, <1>2, <2>1, StepLockMoves, LockMoveMatches DEF LInv, Typed
    <2>3. ASSUME NEW u \in Threads PROVE LocksOK(u)'
      BY <1>1, <1>2, <2>1, LocksOKStep, LocksOKFrame DEF LInv
    <2> QED
      BY <2>2, <2>3 DEF LInv
  <1>3. CASE UNCHANGED vars
    BY <1>3 DEF vars, threadVars, tableVars, lockVars, LInv, ArrayMatchesLocks,
       ReadersOf, Marked, ChildLocked, LocksOK, ChildBound
  <1> QED
    BY <1>2, <1>3 DEF Next

-----------------------------------------------------------------------------
\* The path a thread has followed.

\* A lookup in a directory that did not change finds the same.
LEMMA SubNodeSame ==
  ASSUME NEW d \in Inodes, NEW name, dirEntries'[d] = dirEntries[d]
  PROVE  lookup_sub_node(name, d)' = lookup_sub_node(name, d)
  BY DEF lookup_sub_node, SlotNamed

\* In a tree, two entries in directories that nobody else writes to do not refer
\* to the same i-node.
LEMMA OneReference ==
  ASSUME Typed, WritesLocked, TreeOK, NEW t \in Threads, pc[t] # "resetEntry",
         NEW d \in Inodes, writer[d] \in {t, None},
         NEW e \in Inodes, NEW s \in Slots, NEW r \in Slots,
         dirEntries[d][s].inumber # FREE_INODE,
         dirEntries[e][r].inumber = dirEntries[d][s].inumber
  PROVE  d = e /\ s = r
  <1> SUFFICES ASSUME <<d, s>> # <<e, r>> PROVE FALSE
    OBVIOUS
  <1>1. PICK u \in Threads : Moving(u, d, e, dirEntries[d][s].inumber)
    BY DEF TreeOK, ReferencesUnique
  <1>2. u # t /\ u # None
    BY <1>1, ThreadsAssumption DEF Moving
  <1>3. writer[cur[u]] = u /\ writer[parent1[u]] = u
    BY <1>1 DEF Moving, WritesLocked, Writes, Typed, ControlOK, OpOK
  <1> QED
    BY <1>1, <1>2, <1>3 DEF Moving

\* A path that was followed still leads to the same node if the nodes on it that
\* the thread holds did not change.
LEMMA OnPathFrame ==
  ASSUME Typed, NEW u \in Threads, OnPath(u),
         stage'[u] = stage[u], req'[u] = req[u], cur'[u] = cur[u],
         rest'[u] = rest[u], held[u] \subseteq held'[u],
         \A d \in held[u] \ {cur[u]} : dirEntries'[d] = dirEntries[d]
  PROVE  OnPath(u)'
  <1>1. Target(u)' = Target(u) /\ Depth(u)' = Depth(u)
    BY DEF Target, Depth
  <1> DEFINE n == Depth(u)
             path == Target(u)
  <1>2. PICK w : /\ Walk(w, path, n) /\ w[n] = cur[u]
                 /\ \A k \in 0..n-1 : w[k] \in held[u]
    BY DEF OnPath
  <1>3. n \in Nat
    BY DEF OnPath
  <1>4. ASSUME NEW k \in 1..n
        PROVE  lookup_sub_node(path[k], w[k-1])' = lookup_sub_node(path[k], w[k-1])
    <2>1. k - 1 \in 0..n-1 /\ k - 1 \in 0..n /\ n \in 0..n /\ k - 1 # n
      BY <1>3
    <2>2. w[k-1] \in held[u] /\ w[k-1] # cur[u] /\ w[k-1] \in Inodes
      BY <1>2, <2>1 DEF Walk
    <2> HIDE DEF path, n
    <2> QED
      BY <1>1, <2>2, SubNodeSame DEF path
  <1>5. Walk(w, path, n)'
    BY <1>1, <1>2, <1>4 DEF Walk
  <1>6. \A k \in 0..n-1 : w[k] \in held'[u]
    BY <1>2
  <1> QED
    BY <1>1, <1>2, <1>5, <1>6 DEF OnPath

\* A lookup that starts has followed nothing and is at the root.
LEMMA StartsAtRoot ==
  ASSUME Typed, Typed', NEW t \in Threads, NEW s \in Stages, NEW path \in Seq(Names),
         StartLookup(t, s, path), Target(t)' = path
  PROVE  PathOK(t)'
  <1>1. /\ pc'[t] = "lookup" /\ cur'[t] = FS_ROOT /\ rest'[t] = path
    BY DEF StartLookup, Goto, Typed, TypeOK, ControlOK, ControlTypes
  <1>2. FS_ROOT \in Inodes
    BY TableAssumption DEF FS_ROOT, Inodes
  <1>3. Depth(t)' = 0
    BY <1>1 DEF Depth
  <1> DEFINE w == [k \in 0..0 |-> FS_ROOT]
  <1>4. w \in [0..0 -> Inodes] /\ w[0] = FS_ROOT
    BY <1>2
  <1>5. Walk(w, path, 0)'
    BY <1>4 DEF Walk
  <1>6. OnPath(t)'
    <2>1. \A j \in 1..Len(rest'[t]) : rest'[t][j] = path[0 + j]
      BY <1>1
    <2>2. \A k \in 0..0-1 : w[k] \in held'[t]
      OBVIOUS
    <2> HIDE DEF w
    <2> QED
      BY <1>1, <1>3, <1>4, <1>5, <2>1, <2>2 DEF OnPath
  <1> QED
    BY <1>1, <1>6 DEF PathOK

\* A lookup that goes one node further extends the walk.
LEMMA LookupDownPath ==
  ASSUME Typed, Typed', WritesLocked, LInv, TreeOK, NEW t \in Threads, PathOK(t),
         LookupDown(t)
  PROVE  PathOK(t)'
  <1>0. PICK n, path, c : n = Depth(t) /\ path = Target(t) /\ c = NextNode(t)
    OBVIOUS
  <1>1. /\ pc[t] = "lookup" /\ stage[t] # "none" /\ rest[t] # << >>
        /\ c # FAIL /\ cur'[t] = c /\ rest'[t] = Tail(rest[t])
        /\ stage' = stage /\ req' = req /\ pc' = pc /\ dirEntries' = dirEntries
    BY <1>0 DEF LookupDown, Acquire, Typed, TypeOK, ControlOK, ControlTypes,
       OpOK, tableVars
  <1>2. Running(t) /\ OnPath(t)
    BY <1>1 DEF PathOK, Running
  <1>3. PICK w : /\ Walk(w, path, n) /\ w[n] = cur[t]
                 /\ \A k \in 0..n-1 : w[k] \in held[t]
    BY <1>0, <1>2 DEF OnPath
  <1>4. /\ path \in Seq(Names) /\ n \in Nat /\ n = Len(path) - Len(rest[t])
        /\ \A j \in 1..Len(rest[t]) : rest[t][j] = path[n + j]
    BY <1>0, <1>2 DEF OnPath, Depth
  <1>5. /\ rest[t] \in Seq(Names) /\ cur[t] \in Inodes
        /\ held[t] \in SUBSET Inodes
        /\ dirEntries \in [Inodes -> [Slots -> Entry]]
    BY DEF Typed, TypeOK, TableTypeOK
  <1>6. /\ Len(rest[t]) \in Nat \ {0} /\ Len(Tail(rest[t])) = Len(rest[t]) - 1
        /\ Head(rest[t]) = rest[t][1]
        /\ \A j \in 1..Len(Tail(rest[t])) : Tail(rest[t])[j] = rest[t][j+1]
    BY <1>1, <1>5
  <1>7. Target(t)' = path /\ Depth(t)' = n + 1
    <2>1. Target(t)' = path
      BY <1>0, <1>1 DEF Target
    <2>2. Depth(t)' = Len(path) - Len(Tail(rest[t]))
      BY <1>1, <2>1 DEF Depth
    <2>3. Len(path) \in Nat
      BY <1>4
    <2>4. \A a, b \in Int : a - (b - 1) = a - b + 1
      OBVIOUS
    <2>5. Len(path) - (Len(rest[t]) - 1) = Len(path) - Len(rest[t]) + 1
      BY <1>6, <2>3, <2>4
    <2> QED
      BY <1>4, <1>6, <2>1, <2>2, <2>5
  <1>8. \A j \in 1..Len(rest'[t]) : rest'[t][j] = path[n + 1 + j]
    <2> SUFFICES ASSUME NEW j \in 1..Len(rest'[t])
                 PROVE  rest'[t][j] = path[n + 1 + j]
      OBVIOUS
    <2>1. rest'[t][j] = rest[t][j+1] /\ j + 1 \in 1..Len(rest[t])
      BY <1>1, <1>6
    <2>2. n + (j + 1) = n + 1 + j
      BY <1>1, <1>4, <1>6
    <2> QED
      BY <1>4, <2>1, <2>2
  <1>9. held[t] \subseteq held'[t] /\ cur[t] \in held'[t]
    BY <1>5 DEF LookupDown, Acquire, Typed, TypeOK
  <1>10. writer[cur[t]] \in {t, None}
    <2>1. cur[t] \in held[t] => cur[t] \in Marked(t)
      BY <1>1 DEF Marked
    <2> QED
      BY <1>5, <2>1, MarkedExcludes DEF LookupDown, Acquire, RdLock, LInv
  <1>11. c = lookup_sub_node(path[n+1], cur[t]) /\ c \in Inodes
    <2>1. 1 \in 1..Len(rest[t])
      BY <1>6
    <2>2. rest[t][1] = path[n+1]
      BY <1>4, <2>1
    <2> QED
      BY <1>0, <1>1, <1>5, <1>6, <2>2, SubNodeFound DEF NextNode
  <1>12. PICK r \in Slots : /\ dirEntries[cur[t]][r].inumber = c
                            /\ dirEntries[cur[t]][r].inumber # FREE_INODE
    BY <1>0, <1>1, <1>5, SubNodeFound DEF NextNode
  <1>13. \A k \in 0..n : w[k] \in Inodes
    BY <1>3 DEF Walk
  <1>14. ASSUME NEW k \in 0..n PROVE w[k] # c
    <2>1. CASE k = 0
      <3>1. c # FS_ROOT
        BY <1>5, <1>12 DEF TreeOK, EntriesOK
      <3> QED
        BY <1>3, <2>1, <3>1 DEF Walk
    <2>2. CASE k # 0
      <3> SUFFICES ASSUME w[k] = c PROVE FALSE
        OBVIOUS
      <3>1. k \in 1..n /\ k - 1 \in 0..n /\ n \in 0..n /\ k - 1 # n
        BY <1>4, <2>2
      <3>2. w[k] = lookup_sub_node(path[k], w[k-1]) /\ w[k-1] \in Inodes
        BY <1>3, <1>13, <3>1 DEF Walk
      <3>3. PICK q \in Slots : dirEntries[w[k-1]][q].inumber = c
        BY <1>1, <1>5, <3>2, SubNodeFound
      <3>4. w[k-1] = cur[t]
        BY <1>1, <1>5, <1>10, <1>12, <3>2, <3>3, OneReference
      <3> QED
        BY <1>3, <3>1, <3>4 DEF Walk
    <2> QED
      BY <2>1, <2>2
  <1> DEFINE v == [k \in 0..n+1 |-> IF k = n + 1 THEN c ELSE w[k]]
  <1>15. /\ \A k \in 0..n : v[k] = w[k] /\ k \in 0..n+1
         /\ v[n+1] = c /\ n + 1 \in 0..n+1 /\ v \in [0..n+1 -> Inodes]
         /\ \A k \in 0..n+1 : k \in 0..n \/ k = n + 1
         /\ \A k \in 1..n+1 : k - 1 \in 0..n /\ (k \in 1..n \/ k = n + 1)
    <2>1. /\ \A k \in 0..n+1 : k \in 0..n \/ k = n + 1
          /\ \A k \in 0..n : k \in 0..n+1 /\ k # n + 1
          /\ \A k \in 1..n+1 : k - 1 \in 0..n /\ (k \in 1..n \/ k = n + 1)
          /\ n + 1 \in 0..n+1
      BY <1>4
    <2>2. \A k \in 0..n+1 : (IF k = n + 1 THEN c ELSE w[k]) \in Inodes
      BY <1>11, <1>13, <2>1
    <2>3. v \in [0..n+1 -> Inodes]
      BY <2>2
    <2> QED
      BY <2>1, <2>3
  <1> HIDE DEF v
  <1>16. Walk(v, path, n + 1)
    <2>1. v[0] = FS_ROOT
      BY <1>3, <1>4, <1>15 DEF Walk
    <2>2. ASSUME NEW k \in 1..n+1 PROVE v[k] = lookup_sub_node(path[k], v[k-1])
      <3>1. CASE k \in 1..n
        <4>1. v[k] = w[k] /\ v[k-1] = w[k-1]
          BY <1>4, <1>15, <3>1
        <4> QED
          BY <1>3, <3>1, <4>1 DEF Walk
      <3>2. CASE k = n + 1
        <4>1. k - 1 = n /\ n \in 0..n
          BY <1>4, <3>2
        <4>2. v[k] = c /\ v[k-1] = cur[t]
          BY <1>3, <1>15, <3>2, <4>1
        <4> QED
          BY <1>11, <3>2, <4>2
      <3> QED
        BY <1>15, <3>1, <3>2
    <2>3. ASSUME NEW j \in 0..n+1, NEW k \in 0..n+1, v[j] = v[k] PROVE j = k
      <3>1. CASE j \in 0..n /\ k \in 0..n
        BY <1>3, <1>15, <2>3, <3>1 DEF Walk
      <3>2. CASE j = n + 1 /\ k = n + 1
        BY <3>2
      <3>3. CASE j \in 0..n /\ k = n + 1
        BY <1>14, <1>15, <2>3, <3>3
      <3>4. CASE j = n + 1 /\ k \in 0..n
        BY <1>14, <1>15, <2>3, <3>4
      <3> QED
        BY <1>15, <3>1, <3>2, <3>3, <3>4
    <2> QED
      BY <1>15, <2>1, <2>2, <2>3 DEF Walk
  <1>17. Walk(v, Target(t), Depth(t))'
    <2>1. \A k \in 1..n+1 : lookup_sub_node(path[k], v[k-1])'
                               = lookup_sub_node(path[k], v[k-1])
      BY <1>1 DEF lookup_sub_node, SlotNamed
    <2>2. /\ v \in [0..n+1 -> Inodes] /\ v[0] = FS_ROOT
          /\ \A k \in 1..n+1 : v[k] = lookup_sub_node(path[k], v[k-1])'
          /\ \A k, m \in 0..n+1 : v[k] = v[m] => k = m
      BY <1>16, <2>1 DEF Walk
    <2> QED
      BY <1>7, <2>2 DEF Walk
  <1>18. \A k \in 0..n : v[k] \in held'[t]
    <2>1. \A k \in 0..n : k = n \/ k \in 0..n-1
      BY <1>4
    <2> QED
      BY <1>3, <1>9, <1>15, <2>1
  <1>19. OnPath(t)'
    <2>1. n + 1 \in Nat
      BY <1>4
    <2>2. /\ v[Depth(t)'] = cur'[t]
          /\ \A k \in 0..Depth(t)'-1 : v[k] \in held'[t]
      <3>1. v[Depth(t)'] = cur'[t]
        BY <1>1, <1>7, <1>15
      <3>2. \A k \in 0..Depth(t)'-1 : v[k] \in held'[t]
        <4>0. n \in Nat
          BY <1>4
        <4>1. \A m \in Nat : m = n + 1 => 0..m-1 = 0..n
          BY <4>0
        <4>2. Depth(t)' \in Nat
          BY <1>7, <2>1
        <4> QED
          BY <1>7, <1>18, <4>1, <4>2, Zenon
      <3> QED
        BY <3>1, <3>2
    <2>3. \E x : /\ Walk(x, Target(t), Depth(t))' /\ x[Depth(t)'] = cur'[t]
                 /\ \A k \in 0..Depth(t)'-1 : x[k] \in held'[t]
      BY <1>17, <2>2
    <2>4. \A j \in 1..Len(rest'[t]) : rest'[t][j] = Target(t)'[Depth(t)' + j]
      BY <1>7, <1>8
    <2>5. Target(t)' \in Seq(Names) /\ Depth(t)' \in Nat
      BY <1>4, <1>7, <2>1
    <2> QED
      BY <2>3, <2>4, <2>5 DEF OnPath
  <1> QED
    BY <1>1, <1>19 DEF PathOK

\* An i-node that thread t has not locked to write is as it was.
LEMMA UnwrittenSame ==
  ASSUME Typed, WritesLocked, NEW t \in Threads, Receive(t) \/ Step(t),
         NEW i \in Inodes, writer[i] # t
  PROVE  nodeType'[i] = nodeType[i] /\ dirEntries'[i] = dirEntries[i]
  BY ChangeIsLocked

\* The path of a thread is not affected by the steps of the others.
LEMMA OthersPath ==
  ASSUME Typed, WritesLocked, LInv, NEW t \in Threads, Receive(t) \/ Step(t),
         NEW u \in Threads \ {t}, PathOK(u)
  PROVE  PathOK(u)'
  <1>1. LeavesOthers(t)
    BY StepFrame
  <1>2. SUFFICES ASSUME Running(u) PROVE OnPath(u)'
    BY <1>1 DEF PathOK, Running, LeavesOthers, OnlyThread
  <1>3. ASSUME NEW d \in held[u] \ {cur[u]} PROVE dirEntries'[d] = dirEntries[d]
    <2>1. d \in Inodes /\ d \in Marked(u)
      BY DEF Marked, Typed, TypeOK
    <2>2. writer[d] # t
      BY <2>1, MarkedExcludes, ThreadsAssumption DEF LInv
    <2> QED
      BY <2>1, <2>2, UnwrittenSame
  <1> QED
    BY <1>1, <1>2, <1>3, OnPathFrame DEF PathOK, LeavesOthers, OnlyThread

\* A thread that goes on with its operation stays on its path, if it changes no
\* directory on it.
LEMMA StaysOnPath ==
  ASSUME Typed, NEW t \in Threads, PathOK(t), Running(t),
         stage'[t] = stage[t], req'[t] = req[t], cur'[t] = cur[t],
         rest'[t] = rest[t], held[t] \subseteq held'[t], rest[t] = << >>,
         \A d \in held[t] \ {cur[t]} : dirEntries'[d] = dirEntries[d]
  PROVE  PathOK(t)'
  BY OnPathFrame DEF PathOK

\* And a thread's own steps keep it on its path.
LEMMA PathStep ==
  ASSUME Typed, Typed', WritesLocked, LInv, TreeOK, NEW t \in Threads, PathOK(t),
         Receive(t) \/ Step(t)
  PROVE  PathOK(t)'
  <1>1. /\ pc \in [Threads -> Labels] /\ stage \in [Threads -> Stages]
        /\ req \in [Threads -> Requests \cup {NoRequest}]
        /\ held \in [Threads -> SUBSET Inodes]
        /\ OpOK(t) /\ LocksOK(t)
    BY DEF Typed, ControlOK, ControlTypes, TypeOK, LInv
  <1>2. /\ stage[t] \in {"first", "path1"} => ParentOf(req[t].path) \in Seq(Names)
        /\ req[t].op = "move" =>
              ParentOf(req[t].to) \in Seq(Names) /\ RecoverPath(req[t]) \in Seq(Names)
    BY ThreadFacts
  <1>3. CASE Receive(t)
    <2>1. PICK r \in Requests :
            /\ req' = [req EXCEPT ![t] = r]
            /\ \/ r.op = "print" /\ Goto(t, "open") /\ UNCHANGED <<stage, cur, rest>>
               \/ r.op = "lookup" /\ StartLookup(t, "target", r.path)
               \/ r.op = "delete" /\ StartLookup(t, "first", ParentOf(r.path))
               \/ r.op \notin {"print", "lookup", "delete"}
                    /\ StartLookup(t, "path1", ParentOf(r.path))
      BY <1>3 DEF Receive
    <2>2. req'[t] = r /\ pc[t] = "idle"
      BY <1>1, <1>3, <2>1 DEF Receive
    <2>3. r.op # "print" => r.path \in Seq(Names) /\ ParentOf(r.path) \in Seq(Names)
      BY RequestType, PathType
    <2>4. CASE r.op = "print" /\ Goto(t, "open") /\ UNCHANGED <<stage, cur, rest>>
      BY <1>1, <2>2, <2>4 DEF PathOK, Running, OpOK
    <2>5. CASE r.op = "lookup" /\ StartLookup(t, "target", r.path)
      <3>1. Target(t)' = r.path
        BY <1>1, <2>2, <2>5 DEF Target, StartLookup
      <3> QED
        BY <2>3, <2>5, <3>1, StartsAtRoot DEF Stages
    <2>6. CASE r.op = "delete" /\ StartLookup(t, "first", ParentOf(r.path))
      <3>1. Target(t)' = ParentOf(r.path)
        BY <1>1, <2>2, <2>6 DEF Target, StartLookup, ParentOf
      <3> QED
        BY <2>3, <2>6, <3>1, StartsAtRoot DEF Stages
    <2>7. CASE r.op \notin {"print", "lookup", "delete"}
                 /\ StartLookup(t, "path1", ParentOf(r.path))
      <3>1. Target(t)' = ParentOf(r.path)
        BY <1>1, <2>2, <2>7 DEF Target, StartLookup, ParentOf
      <3> QED
        BY <2>3, <2>7, <3>1, StartsAtRoot DEF Stages
    <2> QED
      BY <2>1, <2>4, <2>5, <2>6, <2>7
  <1>4. ASSUME UNCHANGED req,
               \/ /\ StartLookup(t, "path1", ParentOf(req[t].path))
                  /\ stage[t] \in {"first", "path1"}
               \/ /\ req[t].op = "move"
                  /\ \/ StartLookup(t, "path2", ParentOf(req[t].to))
                     \/ StartLookup(t, "recover", RecoverPath(req[t]))
        PROVE  PathOK(t)'
    <2>1. CASE /\ StartLookup(t, "path1", ParentOf(req[t].path))
               /\ stage[t] \in {"first", "path1"}
      <3>1. Target(t)' = ParentOf(req[t].path)
        BY <1>1, <1>4, <2>1 DEF Target, StartLookup, ParentOf
      <3> QED
        BY <1>2, <2>1, <3>1, StartsAtRoot DEF Stages
    <2>2. CASE /\ req[t].op = "move"
               /\ StartLookup(t, "path2", ParentOf(req[t].to))
      <3>1. Target(t)' = ParentOf(req[t].to)
        BY <1>1, <1>4, <2>2 DEF Target, StartLookup, ParentOf
      <3> QED
        BY <1>2, <2>2, <3>1, StartsAtRoot DEF Stages
    <2>3. CASE /\ req[t].op = "move"
               /\ StartLookup(t, "recover", RecoverPath(req[t]))
      <3>1. Target(t)' = RecoverPath(req[t])
        BY <1>1, <1>4, <2>3 DEF Target, StartLookup
      <3> QED
        BY <1>2, <2>3, <3>1, StartsAtRoot DEF Stages
    <2> QED
      BY <1>4, <2>1, <2>2, <2>3
  <1>5. ASSUME pc'[t] = "unlock" \/ stage'[t] = "none" PROVE PathOK(t)'
    BY <1>5 DEF PathOK, Running
  <1>6. CASE LookupMissing(t) \/ LookupFound(t)
    <2>1. \/ pc'[t] = "unlock"
          \/ /\ UNCHANGED req
             /\ \/ /\ StartLookup(t, "path1", ParentOf(req[t].path))
                   /\ stage[t] \in {"first", "path1"}
                \/ /\ req[t].op = "move"
                   /\ StartLookup(t, "path2", ParentOf(req[t].to))
          \/ LookupFound(t) /\ stage[t] \in {"path1", "path2"} /\ Goto(t, "upgrade")
               /\ UNCHANGED <<stage, cur, rest>>
      BY <1>1, <1>6 DEF LookupMissing, LookupFound, Return, Goto, OpOK
    <2>2. CASE LookupFound(t) /\ stage[t] \in {"path1", "path2"} /\ Goto(t, "upgrade")
               /\ UNCHANGED <<stage, cur, rest>>
      <3>1. /\ UNCHANGED <<req, dirEntries>> /\ rest[t] = << >> /\ Running(t)
            /\ held[t] \subseteq held'[t]
        BY <1>1, <2>2 DEF LookupFound, Acquire, tableVars, Running
      <3> QED
        BY <2>2, <3>1, StaysOnPath
    <2> QED
      BY <1>4, <1>5, <2>1, <2>2
  <1>7. CASE TryFails(t) \/ TryFails2(t)
    BY <1>4, <1>7, <1>1 DEF TryFails, TryFails2, OpOK
  <1>8. CASE LockChild(t) /\ StartLookup(t, "path2", ParentOf(req[t].to))
    <2>1. req[t].op = "move"
      <3>1. StartLookup(t, "path2", ParentOf(req[t].to)) => pc'[t] = "lookup"
        BY <1>1 DEF StartLookup, Goto
      <3>2. req[t].op \in {"create", "delete"} => pc'[t] \in {"addEntry", "remove"}
        BY <1>1, <1>8 DEF LockChild, Goto
      <3> QED
        BY <1>1, <1>8, <3>1, <3>2 DEF LockChild, OpOK
    <2> QED
      BY <1>4, <1>8, <2>1 DEF LockChild
  <1>9. ASSUME pc[t] \in Parented, UNCHANGED <<stage, req, cur, rest, held>>,
               \A d \in held[t] \ {cur[t]} : dirEntries'[d] = dirEntries[d]
        PROVE  PathOK(t)'
    <2>1. Running(t)
      BY <1>1, <1>9 DEF Parented, Running, LocksOK
    <2>2. rest[t] = << >>
      BY <1>9, <2>1 DEF PathOK, Parented
    <2> QED
      BY <1>9, <2>1, <2>2, StaysOnPath
  <1>10. CASE \/ Upgrade(t) \/ CreateTry(t) \/ DeleteTry(t) \/ MoveTry1(t)
              \/ MoveTry2(t) \/ SkipInode(t) \/ LockInode(t) \/ InodeInUse(t)
    BY <1>9, <1>10 DEF Upgrade, CreateTry, DeleteTry, MoveTry1, MoveTry2, Try,
       SkipInode, LockInode, InodeInUse, tableVars, Parented
  <1>11. CASE LockChild(t) /\ UNCHANGED <<stage, cur, rest>>
    BY <1>9, <1>11 DEF LockChild, tableVars, Parented
  <1>12. CASE AllocateInode(t)
    <2>1. index[t] \notin held[t]
      BY <1>1, <1>12 DEF AllocateInode, LocksOK
    <2>2. \A d \in held[t] : dirEntries'[d] = dirEntries[d]
      BY <1>1, <1>12, <2>1 DEF AllocateInode, Typed, TypeOK, TableTypeOK
    <2> QED
      BY <1>9, <1>12, <2>2 DEF AllocateInode, Parented
  <1>13. CASE MoveAddEntry(t)
    <2>1. \A d \in Inodes \ {cur[t]} : dirEntries'[d] = dirEntries[d]
      BY <1>13 DEF MoveAddEntry, AddEntry, Typed, TypeOK, TableTypeOK
    <2> QED
      BY <1>1, <1>9, <1>13, <2>1 DEF MoveAddEntry, Parented
  <1>14. CASE \/ NoInode(t) \/ CreateAddEntry(t) \/ DeleteRemove(t)
              \/ MoveResetEntry(t) \/ PrintOpen(t) \/ PrintLock(t)
              \/ PrintUnlock(t) \/ Unlock(t)
    BY <1>1, <1>5, <1>14 DEF NoInode, CreateAddEntry, DeleteRemove,
       MoveResetEntry, PrintOpen, PrintLock, PrintUnlock, Unlock, Return, Goto,
       OpOK
  <1>15. CASE LookupSelfDeadlock(t)
    BY <1>15, OnPathFrame DEF LookupSelfDeadlock, threadVars, tableVars, PathOK,
       Running
  <1>16. LockChild(t) => \/ UNCHANGED <<stage, cur, rest>>
                         \/ StartLookup(t, "path2", ParentOf(req[t].to))
    BY DEF LockChild
  <1> QED
    BY <1>3, <1>6, <1>7, <1>8, <1>10, <1>11, <1>12, <1>13, <1>14, <1>15, <1>16,
       LookupDownPath DEF Step

\* Every step keeps every thread on its path.
LEMMA NextPInv ==
  Typed /\ WritesLocked /\ LInv /\ PInv /\ TreeOK /\ [Next]_vars => PInv'
  <1> SUFFICES ASSUME Typed, WritesLocked, LInv, PInv, TreeOK, [Next]_vars,
                      NEW u \in Threads
               PROVE  PathOK(u)'
    BY DEF PInv
  <1>1. Typed' /\ PathOK(u)
    BY NextTypes DEF PInv
  <1>2. ASSUME NEW t \in Threads, Receive(t) \/ Step(t) PROVE PathOK(u)'
    BY <1>1, <1>2, OthersPath, PathStep
  <1>3. CASE UNCHANGED vars
    BY <1>1, <1>3, OnPathFrame DEF vars, threadVars, tableVars, PathOK, Running
  <1> QED
    BY <1>2, <1>3 DEF Next

-----------------------------------------------------------------------------
\* The table is a tree.

\* Entries are written one at a time.
Puts(d, s, e) ==
    \A x \in Inodes, r \in Slots :
        dirEntries'[x][r] = IF x = d /\ r = s THEN e ELSE dirEntries[x][r]

\* dir_add_entry writes a free entry.
LEMMA AddPuts ==
  ASSUME dirEntries \in [Inodes -> [Slots -> Entry]], NEW d \in Inodes, NEW c,
         NEW name, AddEntry(d, c, name), FreeSlot(d) # 0
  PROVE  \E s \in Slots : /\ dirEntries[d][s].inumber = FREE_INODE
                          /\ Puts(d, s, [name |-> name, inumber |-> c])
  <1> DEFINE hits == {s \in Slots : dirEntries[d][s].inumber = FREE_INODE}
  <1>1. hits \in SUBSET Slots /\ FreeSlot(d) = First(hits)
    BY DEF FreeSlot
  <1>2. First(hits) \in hits
    BY <1>1, FirstIsLowest
  <1>3. Puts(d, FreeSlot(d), [name |-> name, inumber |-> c])
    BY DEF AddEntry, Puts
  <1> QED
    BY <1>1, <1>2, <1>3

\* dir_reset_entry frees an entry that refers to c.
LEMMA ResetPuts ==
  ASSUME dirEntries \in [Inodes -> [Slots -> Entry]], NEW d \in Inodes, NEW c,
         SlotOf(d, c) # 0
  PROVE  \E s \in Slots : /\ dirEntries[d][s].inumber = c
                          /\ \A x \in Inodes, r \in Slots :
                                WithoutEntry(d, c)[x][r] =
                                  IF x = d /\ r = s THEN FreeEntry ELSE dirEntries[x][r]
  <1> DEFINE hits == {s \in Slots : dirEntries[d][s].inumber = c}
  <1>1. hits \in SUBSET Slots /\ SlotOf(d, c) = First(hits)
    BY DEF SlotOf
  <1>2. First(hits) \in hits
    BY <1>1, FirstIsLowest
  <1>3. \A x \in Inodes, r \in Slots :
          WithoutEntry(d, c)[x][r] =
            IF x = d /\ r = SlotOf(d, c) THEN FreeEntry ELSE dirEntries[x][r]
    BY DEF WithoutEntry
  <1> QED
    BY <1>1, <1>2, <1>3

\* A directory that has an entry for c has a slot to reset.
LEMMA SlotOfFound ==
  ASSUME NEW d \in Inodes, NEW c, NEW s \in Slots, dirEntries[d][s].inumber = c
  PROVE  SlotOf(d, c) # 0
  <1> DEFINE hits == {x \in Slots : dirEntries[d][x].inumber = c}
  <1>1. hits \in SUBSET Slots /\ hits # {} /\ SlotOf(d, c) = First(hits)
    BY DEF SlotOf
  <1> HIDE DEF hits
  <1> QED
    BY <1>1, FirstIsLowest

\* The threads that are between the two steps of a move stay there.
MoversStay ==
    \A u \in Threads : pc[u] = "resetEntry" =>
        /\ pc'[u] = "resetEntry" /\ child'[u] = child[u]
        /\ cur'[u] = cur[u] /\ parent1'[u] = parent1[u]

\* A step that changes no table keeps the tree.
LEMMA SameTree ==
  ASSUME TreeOK, UNCHANGED tableVars, MoversStay
  PROVE  TreeOK'
  <1>1. EntriesOK' /\ NamesUnique' /\ OrphansEmpty' /\ nodeType'[FS_ROOT] = "T_DIRECTORY"
    BY DEF TreeOK, EntriesOK, NamesUnique, OrphansEmpty, Unreferenced,
       is_dir_empty, tableVars
  <1>2. ReferencesUnique'
    BY DEF TreeOK, ReferencesUnique, Moving, MoversStay, tableVars
  <1> QED
    BY <1>1, <1>2 DEF TreeOK

\* A free i-node that is allocated is a tree of its own.
LEMMA AllocateTree ==
  ASSUME Typed, TreeOK, NEW i \in Inodes, nodeType[i] = "T_NONE", NEW y \in Types,
         nodeType' = [nodeType EXCEPT ![i] = y], y # "T_NONE",
         dirEntries' = [dirEntries EXCEPT ![i] = NoEntries], MoversStay
  PROVE  TreeOK'
  <1>1. /\ nodeType \in [Inodes -> Types]
        /\ dirEntries \in [Inodes -> [Slots -> Entry]]
        /\ FS_ROOT \in Inodes
    BY TableAssumption DEF Typed, TypeOK, TableTypeOK, FS_ROOT, Inodes
  <1>2. \A s \in Slots : dirEntries[i][s].inumber = FREE_INODE
    BY DEF TreeOK, EntriesOK
  <1>3. \A s \in Slots : dirEntries'[i][s].inumber = FREE_INODE
    BY <1>1 DEF NoEntries, FreeEntry
  <1>4. \A x \in Inodes \ {i} : dirEntries'[x] = dirEntries[x] /\ nodeType'[x] = nodeType[x]
    BY <1>1
  <1>5. nodeType'[i] # "T_NONE"
    BY <1>1
  <1>6. \A x \in Inodes, s \in Slots :
          /\ dirEntries'[x][s].inumber = dirEntries[x][s].inumber
          /\ dirEntries'[x][s].inumber # FREE_INODE =>
                x # i /\ dirEntries'[x][s] = dirEntries[x][s]
    BY <1>2, <1>3, <1>4
  <1>7. i # FS_ROOT /\ nodeType'[FS_ROOT] = "T_DIRECTORY"
    BY <1>1, <1>4 DEF TreeOK
  <1>8. EntriesOK'
    BY <1>1, <1>4, <1>5, <1>6 DEF TreeOK, EntriesOK, Entry
  <1>9. NamesUnique'
    BY <1>6 DEF TreeOK, NamesUnique
  <1>10. ReferencesUnique'
    BY <1>6 DEF TreeOK, ReferencesUnique, Moving, MoversStay
  <1>11. OrphansEmpty'
    BY <1>2, <1>3, <1>4, <1>6 DEF TreeOK, OrphansEmpty, Unreferenced, is_dir_empty
  <1> QED
    BY <1>7, <1>8, <1>9, <1>10, <1>11 DEF TreeOK

\* A tree is kept by an entry for an i-node that has none, or that is being
\* moved from where it has one.
LEMMA AddTree ==
  ASSUME Typed, TreeOK, NEW d \in Inodes, NEW s \in Slots, NEW c \in Inodes, NEW name,
         Puts(d, s, [name |-> name, inumber |-> c]), UNCHANGED nodeType,
         dirEntries[d][s].inumber = FREE_INODE,
         nodeType[d] = "T_DIRECTORY", nodeType[c] # "T_NONE", c # FS_ROOT,
         NoEntry(d, name), MoversStay, d = FS_ROOT \/ ~Unreferenced(d),
         \A e \in Inodes, r \in Slots : dirEntries[e][r].inumber = c =>
            d # e /\ \E u \in Threads : Moving(u, d, e, c)'
  PROVE  TreeOK'
  <1>1. /\ dirEntries \in [Inodes -> [Slots -> Entry]] /\ FREE_INODE \notin Inodes
    BY DEF Typed, TypeOK, TableTypeOK, FREE_INODE, Inodes
  <1>2. /\ dirEntries'[d][s].inumber = c /\ dirEntries'[d][s].name = name
        /\ \A x \in Inodes, r \in Slots : <<x, r>> # <<d, s>> =>
              dirEntries'[x][r] = dirEntries[x][r]
    BY DEF Puts
  <1>3. EntriesOK'
    BY <1>2 DEF TreeOK, EntriesOK
  <1>4. NamesUnique'
    BY <1>2 DEF TreeOK, NamesUnique, NoEntry
  <1>5. ReferencesUnique'
    <2> SUFFICES ASSUME NEW x \in Inodes, NEW y \in Inodes, NEW q \in Slots, NEW r \in Slots,
                        NEW b, b = dirEntries'[x][q].inumber, b # FREE_INODE,
                        dirEntries'[y][r].inumber = b, <<x, q>> # <<y, r>>
                 PROVE  x # y /\ \E u \in Threads : Moving(u, x, y, b)'
      BY DEF ReferencesUnique, Moving
    <2>1. CASE <<x, q>> = <<d, s>>
      <3>1. dirEntries[y][r].inumber = c /\ b = c /\ x = d
        BY <1>2, <2>1
      <3>2. d # y
        BY <3>1
      <3>3. PICK u \in Threads : Moving(u, d, y, c)'
        BY <3>1
      <3>4. Moving(u, x, y, b)'
        BY <3>1, <3>3 DEF Moving
      <3> QED
        BY <3>1, <3>2, <3>4
    <2>2. CASE <<y, r>> = <<d, s>>
      <3>1. dirEntries[x][q].inumber = c /\ b = c /\ y = d
        BY <1>2, <2>2
      <3>2. PICK u \in Threads : Moving(u, d, x, c)'
        BY <3>1
      <3>3. Moving(u, x, d, c)'
        BY <3>2 DEF Moving
      <3> QED
        BY <3>1, <3>3
    <2>3. CASE <<x, q>> # <<d, s>> /\ <<y, r>> # <<d, s>>
      <3>1. b = dirEntries[x][q].inumber /\ b = dirEntries[y][r].inumber
        BY <1>2, <2>3
      <3>2. x # y /\ \E u \in Threads : Moving(u, x, y, b)
        <4>1. ReferencesUnique
          BY DEF TreeOK
        <4>2. x # y /\ \E u \in Threads : Moving(u, x, y, dirEntries[x][q].inumber)
          BY <3>1, <4>1 DEF ReferencesUnique
        <4> QED
          BY <3>1, <4>2
      <3>3. PICK u \in Threads : Moving(u, x, y, b)
        BY <3>2
      <3>4. Moving(u, x, y, b)'
        BY <3>3 DEF Moving, MoversStay
      <3> QED
        BY <3>2, <3>4
    <2> QED
      BY <2>1, <2>2, <2>3
  <1>6. OrphansEmpty'
    <2> SUFFICES ASSUME NEW i \in Inodes \ {FS_ROOT}, nodeType[i] # "T_NONE",
                        \A x \in Inodes, r \in Slots : dirEntries'[x][r].inumber # i
                 PROVE  \A r \in Slots : dirEntries'[i][r].inumber = FREE_INODE
      BY DEF OrphansEmpty, Unreferenced, is_dir_empty
    <2>1. ASSUME NEW x \in Inodes, NEW r \in Slots PROVE dirEntries[x][r].inumber # i
      <3>1. CASE <<x, r>> = <<d, s>>
        BY <1>1, <3>1
      <3>2. CASE <<x, r>> # <<d, s>>
        BY <1>2, <3>2
      <3> QED
        BY <3>1, <3>2
    <2>2. i # d
      BY <2>1 DEF Unreferenced
    <2>3. \A r \in Slots : dirEntries[i][r].inumber = FREE_INODE
      BY <2>1 DEF TreeOK, OrphansEmpty, Unreferenced, is_dir_empty
    <2> QED
      BY <1>2, <2>2, <2>3
  <1> QED
    BY <1>3, <1>4, <1>5, <1>6 DEF TreeOK

\* At most one thread moves an i-node: it has locked it.
LEMMA OneMover ==
  ASSUME Typed, LInv, NEW t \in Threads, NEW u \in Threads,
         ChildBound(t), ChildBound(u), child[u] = child[t]
  PROVE  u = t
  BY DEF LInv, LocksOK

\* A tree is kept when a move removes the old entry.
LEMMA RemoveTree ==
  ASSUME Typed, LInv, TreeOK, NEW t \in Threads, pc[t] = "resetEntry", Found(t),
         LeavesOthers(t), UNCHANGED nodeType, NEW s \in Slots,
         NEW d, d = parent1[t], NEW c, c = child[t],
         dirEntries[d][s].inumber = c,
         \A x \in Inodes, r \in Slots :
            dirEntries'[x][r] = IF x = d /\ r = s THEN FreeEntry ELSE dirEntries[x][r]
  PROVE  TreeOK'
  <1>1. /\ dirEntries \in [Inodes -> [Slots -> Entry]] /\ FREE_INODE \notin Inodes
        /\ OpOK(t) /\ d \in Inodes /\ c \in Inodes /\ cur[t] \in Inodes
    BY DEF Typed, TypeOK, TableTypeOK, FREE_INODE, Inodes, ControlOK, OpOK
  <1>2. /\ dirEntries'[d][s].inumber = FREE_INODE
        /\ \A x \in Inodes, r \in Slots : <<x, r>> # <<d, s>> =>
              dirEntries'[x][r] = dirEntries[x][r]
    BY <1>1 DEF FreeEntry
  <1>3. HasEntry(cur[t], NameOf(req[t].to), c) /\ cur[t] # d
    BY <1>1 DEF Found, FoundAt, OpOK
  <1>4. EntriesOK'
    BY <1>2 DEF TreeOK, EntriesOK
  <1>5. NamesUnique'
    BY <1>2 DEF TreeOK, NamesUnique
  <1>6. ReferencesUnique'
    <2> SUFFICES ASSUME NEW x \in Inodes, NEW y \in Inodes, NEW q \in Slots, NEW r \in Slots,
                        NEW b, b = dirEntries'[x][q].inumber, b # FREE_INODE,
                        dirEntries'[y][r].inumber = b, <<x, q>> # <<y, r>>
                 PROVE  x # y /\ \E u \in Threads : Moving(u, x, y, b)'
      BY DEF ReferencesUnique, Moving
    <2>0. ReferencesUnique
      BY DEF TreeOK
    <2>1. /\ <<x, q>> # <<d, s>> /\ <<y, r>> # <<d, s>>
          /\ dirEntries[x][q].inumber = b /\ dirEntries[y][r].inumber = b
      BY <1>2
    <2>2. x # y /\ \E u \in Threads : Moving(u, x, y, dirEntries[x][q].inumber)
      BY <2>0, <2>1 DEF ReferencesUnique
    <2>3. PICK u \in Threads : Moving(u, x, y, b)
      BY <2>1, <2>2
    <2>4. u # t
      <3> SUFFICES ASSUME u = t PROVE FALSE
        OBVIOUS
      <3>1. b = c /\ {x, y} \subseteq {cur[t], d} /\ x # y
        BY <2>2, <2>3 DEF Moving
      <3>2. PICK z \in {x, y}, m \in {q, r} :
               z = d /\ m \in Slots /\ <<z, m>> # <<d, s>> /\ dirEntries[z][m].inumber = c
        BY <2>1, <3>1
      <3>3. z # d
        BY <1>1, <2>0, <3>2 DEF ReferencesUnique
      <3> QED
        BY <3>2, <3>3
    <2>5. Moving(u, x, y, b)'
      BY <2>3, <2>4 DEF Moving, LeavesOthers, OnlyThread
    <2> QED
      BY <2>2, <2>5
  <1>7. OrphansEmpty'
    <2> SUFFICES ASSUME NEW i \in Inodes \ {FS_ROOT}, nodeType[i] # "T_NONE",
                        \A x \in Inodes, r \in Slots : dirEntries'[x][r].inumber # i
                 PROVE  \A r \in Slots : dirEntries'[i][r].inumber = FREE_INODE
      BY DEF OrphansEmpty, Unreferenced, is_dir_empty
    <2>1. i # c
      <3>1. PICK r \in Slots : dirEntries[cur[t]][r].inumber = c
        BY <1>3 DEF HasEntry
      <3>2. dirEntries'[cur[t]][r].inumber = c
        BY <1>1, <1>2, <1>3, <3>1
      <3> QED
        BY <1>1, <3>2
    <2>2. Unreferenced(i)
      BY <1>2, <2>1 DEF Unreferenced
    <2>3. \A r \in Slots : dirEntries[i][r].inumber = FREE_INODE
      BY <2>2 DEF TreeOK, OrphansEmpty, is_dir_empty
    <2> QED
      BY <1>2, <2>3
  <1>8. nodeType'[FS_ROOT] = "T_DIRECTORY"
    BY DEF TreeOK
  <1> QED
    BY <1>4, <1>5, <1>6, <1>7, <1>8 DEF TreeOK

\* A tree is kept when a delete removes the only entry of an i-node with nothing
\* below it and frees the i-node.
LEMMA DeleteTree ==
  ASSUME Typed, LInv, TreeOK, NEW t \in Threads, pc[t] = "remove",
         LeavesOthers(t), NEW s \in Slots,
         NEW d, d = cur[t], NEW c, c = child[t],
         dirEntries[d][s].inumber = c, Deletable(t),
         nodeType'[c] = "T_NONE",
         \A x \in Inodes \ {c} : nodeType'[x] = nodeType[x],
         \A x \in Inodes \ {c}, r \in Slots :
            dirEntries'[x][r] = IF x = d /\ r = s THEN FreeEntry ELSE dirEntries[x][r],
         dirEntries'[c] = NoEntries
  PROVE  TreeOK'
  <1>1. /\ dirEntries \in [Inodes -> [Slots -> Entry]] /\ FREE_INODE \notin Inodes
        /\ OpOK(t) /\ d \in Inodes /\ c \in Inodes /\ nodeType \in [Inodes -> Types]
    BY DEF Typed, TypeOK, TableTypeOK, FREE_INODE, Inodes, ControlOK, OpOK
  <1>2. \A r \in Slots : dirEntries[c][r].inumber = FREE_INODE
    BY <1>1 DEF Deletable, IsDir, is_dir_empty, TreeOK, EntriesOK
  <1>3. c # d /\ c # FS_ROOT
    BY <1>1, <1>2 DEF TreeOK, EntriesOK
  <1>4. \A x \in Inodes, r \in Slots : dirEntries'[x][r].inumber # FREE_INODE =>
           x # c /\ <<x, r>> # <<d, s>> /\ dirEntries'[x][r] = dirEntries[x][r]
    BY <1>1 DEF NoEntries, FreeEntry
  <1>5. \A x \in Inodes, r \in Slots : dirEntries[x][r].inumber # FREE_INODE =>
           <<x, r>> = <<d, s>> \/ dirEntries'[x][r] = dirEntries[x][r]
    BY <1>1, <1>2
  <1>6. \A x \in Inodes, r \in Slots : dirEntries[x][r].inumber = c => <<x, r>> = <<d, s>>
    <2> SUFFICES ASSUME NEW x \in Inodes, NEW r \in Slots, dirEntries[x][r].inumber = c,
                        <<x, r>> # <<d, s>>
                 PROVE  FALSE
      OBVIOUS
    <2>0. ReferencesUnique
      BY DEF TreeOK
    <2>1. \E u \in Threads : Moving(u, d, x, dirEntries[d][s].inumber)
      BY <1>1, <2>0 DEF ReferencesUnique
    <2>2. PICK u \in Threads : Moving(u, d, x, c)
      BY <2>1
    <2>3. ChildBound(t) /\ ChildBound(u) /\ child[u] = child[t] /\ u # t
      BY <2>2 DEF Moving, ChildBound
    <2> QED
      BY <2>3, OneMover
  <1>7. \A x \in Inodes \ {c} : nodeType'[x] = nodeType[x]
    BY <1>1
  <1>8. EntriesOK'
    BY <1>4, <1>6, <1>7, <1>1 DEF TreeOK, EntriesOK, Entry
  <1>9. NamesUnique'
    BY <1>4 DEF TreeOK, NamesUnique
  <1>10. ReferencesUnique'
    <2> SUFFICES ASSUME NEW x \in Inodes, NEW y \in Inodes, NEW q \in Slots, NEW r \in Slots,
                        NEW b, b = dirEntries'[x][q].inumber, b # FREE_INODE,
                        dirEntries'[y][r].inumber = b, <<x, q>> # <<y, r>>
                 PROVE  x # y /\ \E u \in Threads : Moving(u, x, y, b)'
      BY DEF ReferencesUnique, Moving
    <2>0. ReferencesUnique
      BY DEF TreeOK
    <2>1. dirEntries[x][q].inumber = b /\ dirEntries[y][r].inumber = b
      BY <1>4
    <2>2. x # y /\ \E u \in Threads : Moving(u, x, y, dirEntries[x][q].inumber)
      BY <2>0, <2>1 DEF ReferencesUnique
    <2>3. PICK u \in Threads : Moving(u, x, y, b)
      BY <2>1, <2>2
    <2>4. Moving(u, x, y, b)'
      BY <2>3 DEF Moving, LeavesOthers, OnlyThread
    <2> QED
      BY <2>2, <2>4
  <1>11. OrphansEmpty'
    <2> SUFFICES ASSUME NEW i \in Inodes \ {FS_ROOT}, nodeType'[i] # "T_NONE",
                        \A x \in Inodes, r \in Slots : dirEntries'[x][r].inumber # i
                 PROVE  \A r \in Slots : dirEntries'[i][r].inumber = FREE_INODE
      BY DEF OrphansEmpty, Unreferenced, is_dir_empty
    <2>1. i # c /\ nodeType[i] # "T_NONE"
      BY <1>1
    <2>2. Unreferenced(i)
      BY <1>1, <1>5, <2>1 DEF Unreferenced
    <2>3. \A r \in Slots : dirEntries[i][r].inumber = FREE_INODE
      BY <2>1, <2>2 DEF TreeOK, OrphansEmpty, is_dir_empty
    <2> QED
      BY <1>4, <2>3
  <1>12. nodeType'[FS_ROOT] = "T_DIRECTORY"
    BY <1>1, <1>3, TableAssumption DEF TreeOK, FS_ROOT, Inodes
  <1> QED
    BY <1>8, <1>9, <1>10, <1>11, <1>12 DEF TreeOK

\* Where a followed path ends is the root, or what the entry of its last name
\* refers to.
LEMMA PathEnd ==
  ASSUME Typed, NEW t \in Threads, OnPath(t)
  PROVE  /\ cur[t] = FS_ROOT \/ ~Unreferenced(cur[t])
         /\ rest[t] = << >> => EndsAt(Target(t), cur[t])
  <1>0. PICK n, path : n = Depth(t) /\ path = Target(t)
    OBVIOUS
  <1>1. PICK w : Walk(w, path, n) /\ w[n] = cur[t]
    BY <1>0 DEF OnPath
  <1>2. /\ n \in Nat /\ path \in Seq(Names)
        /\ rest[t] = << >> => n = Len(path)
    <2>1. rest[t] = << >> => Len(rest[t]) = 0
      OBVIOUS
    <2>2. Len(path) \in Nat /\ n = Len(path) - Len(rest[t])
      BY <1>0 DEF OnPath, Depth
    <2> QED
      BY <1>0, <2>1, <2>2 DEF OnPath
  <1>3. CASE n = 0
    <2>1. cur[t] = FS_ROOT
      BY <1>1, <1>3 DEF Walk
    <2>2. rest[t] = << >> => path = << >>
      BY <1>2, <1>3
    <2> QED
      BY <1>0, <2>1, <2>2 DEF EndsAt
  <1>4. CASE n # 0
    <2>1. n \in 1..n /\ n - 1 \in 0..n /\ n \in 0..n
      BY <1>2, <1>4
    <2>2. cur[t] = lookup_sub_node(path[n], w[n-1]) /\ w[n-1] \in Inodes
      BY <1>1, <2>1 DEF Walk
    <2>3. cur[t] # FAIL /\ dirEntries \in [Inodes -> [Slots -> Entry]]
      BY DEF Typed, TypeOK, TableTypeOK, FAIL, Inodes
    <2>4. PICK s \in Slots : /\ dirEntries[w[n-1]][s].inumber = cur[t]
                             /\ dirEntries[w[n-1]][s].name = path[n]
      BY <2>2, <2>3, SubNodeFound
    <2>5. rest[t] = << >> => path # << >> /\ NameOf(path) = path[n]
      BY <1>2, <1>4 DEF NameOf
    <2> QED
      BY <1>0, <2>2, <2>4, <2>5 DEF EndsAt, Unreferenced
  <1> QED
    BY <1>3, <1>4

\* What a move has found to remove is there to be removed.
LEMMA ResetSucceeds ==
  ASSUME Typed, TreeOK, NEW t \in Threads, pc[t] = "resetEntry", Found(t)
  PROVE  CanResetEntry(parent1[t], child[t])
  <1>1. /\ parent1[t] \in Inodes /\ child[t] \in Inodes /\ FREE_INODE \notin Inodes
        /\ HasEntry(parent1[t], NameOf(req[t].path), child[t])
    BY DEF Typed, ControlOK, OpOK, Found, FoundAt, FREE_INODE, Inodes
  <1>2. PICK s \in Slots : dirEntries[parent1[t]][s].inumber = child[t]
    BY <1>1 DEF HasEntry
  <1>3. SlotOf(parent1[t], child[t]) # 0
    BY <1>1, <1>2, SlotOfFound
  <1> QED
    BY <1>1, <1>2, <1>3 DEF CanResetEntry, TreeOK, EntriesOK

\* What is created is a file or a directory.
LEMMA CreateType ==
  ASSUME NEW r \in Requests \cup {NoRequest}, r.op = "create"
  PROVE  r.type \in Types /\ r.type # "T_NONE"
  BY RequestsAssumption DEF Request, NoRequest, Types, Paths

\* What a step of thread t does to an entry, and to the type of an i-node.
EntryMove(t, x, s) ==
    \/ dirEntries'[x][s] = dirEntries[x][s]
    \/ dirEntries[x][s].inumber = FREE_INODE /\ dirEntries'[x][s].inumber = FREE_INODE
    \/ /\ pc[t] = "addEntry" /\ dirEntries[x][s].inumber = FREE_INODE
       /\ dirEntries'[x][s].inumber = child[t] /\ dirEntries'[x][s].name # NoName
    \/ /\ pc[t] \in {"remove", "resetEntry"} /\ dirEntries[x][s].inumber = child[t]
       /\ dirEntries'[x][s].inumber = FREE_INODE
       /\ pc[t] = "remove" => Deletable(t)
       /\ pc[t] = "resetEntry" => x = parent1[t]
TypeMove(t, i) ==
    \/ nodeType'[i] = nodeType[i]
    \/ nodeType'[i] # "T_NONE"
    \/ i = child[t] /\ ~Unreferenced(i)

LEMMA TableMoves ==
  ASSUME Typed, TreeOK, NEW t \in Threads, Receive(t) \/ Step(t)
  PROVE  \A x \in Inodes : TypeMove(t, x) /\ \A s \in Slots : EntryMove(t, x, s)
  <1> SUFFICES ASSUME NEW x \in Inodes, NEW s \in Slots
               PROVE  TypeMove(t, x) /\ EntryMove(t, x, s)
    <2>1. 1 \in Slots
      BY TableAssumption DEF Slots
    <2> QED
      BY <2>1
  <1>1. /\ dirEntries \in [Inodes -> [Slots -> Entry]] /\ FREE_INODE \notin Inodes
        /\ nodeType \in [Inodes -> Types] /\ OpOK(t) /\ cur[t] \in Inodes
        /\ parent1[t] \in Inodes \cup {FREE_INODE}
    BY DEF Typed, TypeOK, TableTypeOK, FREE_INODE, Inodes, ControlOK
  <1>2. CASE UNCHANGED tableVars
    BY <1>2 DEF tableVars, EntryMove, TypeMove
  <1>3. CASE AllocateInode(t)
    <2>1. x # index[t] => dirEntries'[x] = dirEntries[x] /\ nodeType'[x] = nodeType[x]
      BY <1>1, <1>3 DEF AllocateInode
    <2>2. x = index[t] => nodeType'[x] # "T_NONE"
      <3>1. req[t].op = "create" /\ req[t] \in Requests \cup {NoRequest}
        BY <1>1, <1>3 DEF AllocateInode, OpOK, Typed, TypeOK
      <3> QED
        BY <1>1, <1>3, <3>1, CreateType DEF AllocateInode
    <2>3. x = index[t] => dirEntries'[x][s].inumber = FREE_INODE
      BY <1>1, <1>3 DEF AllocateInode, NoEntries, FreeEntry
    <2>4. x = index[t] => dirEntries[x][s].inumber = FREE_INODE
      BY <1>3 DEF AllocateInode, TreeOK, EntriesOK
    <2> QED
      BY <2>1, <2>2, <2>3, <2>4 DEF EntryMove, TypeMove
  <1>4. CASE /\ pc[t] = "addEntry"
             /\ \E name : /\ CanAddEntry(cur[t], child[t], name)
                          /\ AddEntry(cur[t], child[t], name)
             /\ UNCHANGED nodeType
    <2>1. PICK name : /\ CanAddEntry(cur[t], child[t], name)
                      /\ AddEntry(cur[t], child[t], name)
      BY <1>4
    <2>2. FreeSlot(cur[t]) # 0 /\ name # NoName
      BY <2>1 DEF CanAddEntry
    <2>3. PICK q \in Slots : /\ dirEntries[cur[t]][q].inumber = FREE_INODE
                             /\ Puts(cur[t], q, [name |-> name, inumber |-> child[t]])
      BY <1>1, <2>1, <2>2, AddPuts
    <2> QED
      BY <1>4, <2>2, <2>3 DEF Puts, EntryMove, TypeMove
  <1>5. CASE DeleteRemove(t) /\ ~UNCHANGED tableVars
    <2>1. /\ pc[t] = "remove" /\ Deletable(t) /\ CanResetEntry(cur[t], child[t])
          /\ nodeType' = [nodeType EXCEPT ![child[t]] = "T_NONE"]
          /\ dirEntries' =
                [WithoutEntry(cur[t], child[t]) EXCEPT ![child[t]] = NoEntries]
      BY <1>5 DEF DeleteRemove
    <2>2. child[t] \in Inodes
      BY <1>1, <2>1 DEF OpOK
    <2>3. PICK q \in Slots :
            /\ dirEntries[cur[t]][q].inumber = child[t]
            /\ \A y \in Inodes, r \in Slots : WithoutEntry(cur[t], child[t])[y][r] =
                  IF y = cur[t] /\ r = q THEN FreeEntry ELSE dirEntries[y][r]
      <3>1. SlotOf(cur[t], child[t]) # 0
        BY <2>1 DEF CanResetEntry
      <3> QED
        BY <1>1, <3>1, ResetPuts
    <2>4. \A y \in Inodes \ {child[t]} :
             dirEntries'[y] = WithoutEntry(cur[t], child[t])[y]
      BY <1>1, <2>1, <2>2 DEF WithoutEntry
    <2>5. x = child[t] => dirEntries[x][s].inumber = FREE_INODE
      BY <1>1, <2>1 DEF Deletable, IsDir, is_dir_empty, TreeOK, EntriesOK
    <2>6. dirEntries'[child[t]] = NoEntries
      BY <1>1, <2>1, <2>2 DEF WithoutEntry
    <2>7. EntryMove(t, x, s)
      BY <2>1, <2>3, <2>4, <2>5, <2>6 DEF EntryMove, NoEntries, FreeEntry
    <2>8. TypeMove(t, x)
      BY <1>1, <2>1, <2>3 DEF TypeMove, Unreferenced
    <2> QED
      BY <2>7, <2>8
  <1>6. CASE MoveResetEntry(t) /\ ~UNCHANGED tableVars
    <2>1. /\ pc[t] = "resetEntry" /\ CanResetEntry(parent1[t], child[t])
          /\ dirEntries' = WithoutEntry(parent1[t], child[t]) /\ UNCHANGED nodeType
      BY <1>6 DEF MoveResetEntry, tableVars
    <2>2. parent1[t] \in Inodes
      BY <1>1, <2>1 DEF OpOK
    <2>3. PICK q \in Slots :
            /\ dirEntries[parent1[t]][q].inumber = child[t]
            /\ \A y \in Inodes, r \in Slots : WithoutEntry(parent1[t], child[t])[y][r] =
                  IF y = parent1[t] /\ r = q THEN FreeEntry ELSE dirEntries[y][r]
      BY <1>1, <2>1, <2>2, ResetPuts DEF CanResetEntry
    <2> QED
      BY <2>1, <2>3 DEF EntryMove, TypeMove, FreeEntry
  <1>7. CreateAddEntry(t) \/ MoveAddEntry(t) =>
          \/ UNCHANGED tableVars
          \/ /\ pc[t] = "addEntry" /\ UNCHANGED nodeType
             /\ \E name : /\ CanAddEntry(cur[t], child[t], name)
                          /\ AddEntry(cur[t], child[t], name)
    BY DEF CreateAddEntry, MoveAddEntry, tableVars
  <1> QED
    BY <1>2, <1>3, <1>4, <1>5, <1>6, <1>7, StepFrame

-----------------------------------------------------------------------------
\* What the threads have found.

\* What a thread has found in a directory it has locked to write, and on the way
\* there, is not affected by the steps of the others.
LEMMA OthersFound ==
  ASSUME Typed, WritesLocked, LInv, TInv, NEW t \in Threads, Receive(t) \/ Step(t),
         NEW u \in Threads \ {t}
  PROVE  Found(u)'
  <1>0. PICK l, s, r, d, p, c :
          /\ l = pc[u] /\ s = stage[u] /\ r = req[u]
          /\ d = cur[u] /\ p = parent1[u] /\ c = child[u]
    OBVIOUS
  <1>1. /\ l = pc'[u] /\ s = stage'[u] /\ r = req'[u]
        /\ d = cur'[u] /\ p = parent1'[u] /\ c = child'[u]
    BY <1>0, StepFrame DEF LeavesOthers, OnlyThread
  <1>2. /\ FoundAt(l, s, r, d, p, c) /\ OpOK(u) /\ Writes(u) /\ Found(t) /\ OpOK(t)
        /\ d \in Inodes /\ FREE_INODE \notin Inodes
    BY <1>0 DEF TInv, Found, Typed, TypeOK, ControlOK, WritesLocked, FREE_INODE, Inodes
  <1>3. l \in {"scan", "probe", "lockChild", "addEntry", "remove", "resetEntry"} =>
           dirEntries'[d] = dirEntries[d]
    BY <1>0, <1>2, UnwrittenSame DEF Writes
  <1>4. r.op = "move" /\ l # "unlock" /\ (l = "lockChild" \/ s \in {"path2", "recover"}) =>
           p \in Inodes /\ writer[p] = u
    BY <1>0, <1>2 DEF Writes, OpOK
  <1>5. ASSUME p \in Inodes, writer[p] = u, EndsAt(ParentOf(r.path), p)
        PROVE  EndsAt(ParentOf(r.path), p)'
    <2>1. CASE ParentOf(r.path) = << >>
      BY <1>5, <2>1 DEF EndsAt
    <2>2. CASE ParentOf(r.path) # << >>
      <3>1. PICK x \in Inodes, q \in Slots : /\ dirEntries[x][q].inumber = p
                                             /\ dirEntries[x][q].name = NameOf(ParentOf(r.path))
        BY <1>5, <2>2 DEF EndsAt
      <3>2. EntryMove(t, x, q)
        BY TableMoves DEF TInv
      <3>3. pc[t] \in {"remove", "resetEntry"} => child[t] # p
        BY <1>5 DEF LInv, LocksOK, ChildBound
      <3>4. dirEntries'[x][q] = dirEntries[x][q]
        BY <1>2, <1>5, <3>1, <3>2, <3>3 DEF EntryMove
      <3> QED
        BY <2>2, <3>1, <3>4 DEF EndsAt
    <2> QED
      BY <2>1, <2>2
  <1>6. ASSUME r.op = "create", l \in {"lockChild", "addEntry"}
        PROVE  c # FS_ROOT /\ nodeType'[c] # "T_NONE" /\ Unreferenced(c)'
    <2>1. c \in Inodes /\ c # FS_ROOT /\ nodeType[c] # "T_NONE" /\ Unreferenced(c)
      BY <1>0, <1>2, <1>6 DEF OpOK, FoundAt
    <2>2. TypeMove(t, c)
      BY <2>1, TableMoves DEF TInv
    <2>3. pc[t] = "addEntry" => child[t] # c
      <3>1. CASE req[t].op = "create"
        BY <1>0, <1>6, <3>1 DEF TInv, OwnChildren, Creating
      <3>2. CASE req[t].op = "move"
        BY <1>2, <2>1, <3>2 DEF Found, FoundAt, HasEntry, Unreferenced, OpOK
      <3> QED
        BY <1>2, <3>1, <3>2 DEF OpOK
    <2>4. ASSUME NEW x \in Inodes, NEW q \in Slots PROVE dirEntries'[x][q].inumber # c
      <3>1. EntryMove(t, x, q) /\ dirEntries[x][q].inumber # c
        BY <2>1, TableMoves DEF TInv, Unreferenced
      <3> QED
        BY <1>2, <2>1, <2>3, <3>1 DEF EntryMove
    <2> QED
      BY <2>1, <2>2, <2>4 DEF TypeMove, Unreferenced
  <1>7. /\ r.op = "move" /\ l = "lockChild" => p = d
        /\ r.op = "move" /\ s \in {"path2", "recover"} /\ l # "unlock" =>
              dirEntries'[p] = dirEntries[p]
    BY <1>0, <1>2, <1>4, UnwrittenSame DEF OpOK
  <1>8. FoundAt(l, s, r, d, p, c)'
    BY <1>2, <1>3, <1>4, <1>5, <1>6, <1>7 DEF FoundAt, NoEntry, HasEntry
  <1> QED
    BY <1>1, <1>8 DEF Found

\* What lookup_sub_node finds is in an entry of that name.
LEMMA NamedEntry ==
  ASSUME Typed, NEW d \in Inodes, NEW name, lookup_sub_node(name, d) # FAIL
  PROVE  HasEntry(d, name, lookup_sub_node(name, d))
  <1>1. dirEntries \in [Inodes -> [Slots -> Entry]]
    BY DEF Typed, TypeOK, TableTypeOK
  <1> QED
    BY <1>1, SubNodeFound DEF HasEntry

\* Found(t) in the next state, from what holds in this one of the next values.
LEMMA FoundNext ==
  ASSUME NEW t \in Threads, UNCHANGED tableVars,
         NEW l, NEW s, NEW r, NEW d, NEW p, NEW c,
         l = pc'[t], s = stage'[t], r = req'[t], d = cur'[t], p = parent1'[t],
         c = child'[t], FoundAt(l, s, r, d, p, c)
  PROVE  Found(t)'
  <1>1. FoundAt(l, s, r, d, p, c)'
    BY DEF FoundAt, NoEntry, HasEntry, EndsAt, Unreferenced, tableVars
  <1> QED
    BY <1>1 DEF Found

\* What a thread has found while it looks a path up or tries the lock at its end:
\* nothing, or the first directory of a move and what it moves.
LEMMA FoundOnTheWay ==
  ASSUME NEW l \in {"idle", "open", "lockRoot", "print", "lookup", "upgrade", "try"},
         NEW s, NEW r, NEW d, NEW p, NEW c
  PROVE  FoundAt(l, s, r, d, p, c) <=>
           (r.op = "move" /\ s \in {"path2", "recover"} =>
              HasEntry(p, NameOf(r.path), c) /\ EndsAt(ParentOf(r.path), p))
  BY DEF FoundAt

\* And a thread's own steps keep what it has found, or find it.
LEMMA FoundStep ==
  ASSUME Typed, Typed', WritesLocked, LInv, PInv, TInv, DistinctParents,
         NEW t \in Threads, Receive(t) \/ Step(t)
  PROVE  Found(t)'
  <1>1. /\ pc \in [Threads -> Labels] /\ stage \in [Threads -> Stages]
        /\ req \in [Threads -> Requests \cup {NoRequest}]
        /\ cur \in [Threads -> Inodes] /\ index \in [Threads -> 0..INODE_TABLE_SIZE]
        /\ child \in [Threads -> Inodes \cup {FREE_INODE}]
        /\ parent1 \in [Threads -> Inodes \cup {FREE_INODE}]
        /\ dirEntries \in [Inodes -> [Slots -> Entry]]
        /\ nodeType \in [Inodes -> Types]
        /\ FREE_INODE \notin Inodes /\ FAIL \notin Inodes
        /\ OpOK(t) /\ Writes(t)
    <2>1. OpOK(t) /\ Writes(t)
      BY DEF Typed, ControlOK, WritesLocked
    <2>2. FREE_INODE \notin Inodes /\ FAIL \notin Inodes
      BY DEF FREE_INODE, FAIL, Inodes
    <2> QED
      BY <2>1, <2>2 DEF Typed, TypeOK, TableTypeOK, ControlOK, ControlTypes
  <1>2. LocksOK(t) /\ PathOK(t) /\ Found(t) /\ TreeOK
    BY DEF LInv, TInv, PInv
  <1>3. OpOK(t)'
    BY DEF Typed, ControlOK
  <1>0. PICK l, s, r, d, p, c :
          /\ l = pc'[t] /\ s = stage'[t] /\ r = req'[t]
          /\ d = cur'[t] /\ p = parent1'[t] /\ c = child'[t]
    OBVIOUS
  <1>4. ASSUME UNCHANGED tableVars, FoundAt(l, s, r, d, p, c) PROVE Found(t)'
    BY <1>0, <1>4, FoundNext
  <1>5. l = "unlock" => Found(t)'
    BY <1>0 DEF Found, FoundAt
  \* On the way, only what a move has found counts.
  <1>6. ASSUME l \in {"idle", "open", "lockRoot", "print", "lookup", "upgrade", "try"},
               UNCHANGED tableVars,
               \/ s \notin {"path2", "recover"}
               \/ /\ r = req[t] /\ p = parent1[t] /\ c = child[t] /\ pc[t] # "unlock"
                  /\ stage[t] \in {"path2", "recover"} \/ pc[t] = "lockChild"
        PROVE  Found(t)'
    <2>1. r.op = "move" /\ s \in {"path2", "recover"} =>
              HasEntry(p, NameOf(r.path), c) /\ EndsAt(ParentOf(r.path), p)
      BY <1>2, <1>6 DEF Found, FoundAt
    <2>2. FoundAt(l, s, r, d, p, c)
      BY <1>6, <2>1, FoundOnTheWay
    <2> QED
      BY <1>4, <1>6, <2>2
  <1>7. CASE Receive(t)
    <2>1. UNCHANGED tableVars /\ l \in {"lookup", "open"}
      BY <1>0, <1>1, <1>7 DEF Receive, StartLookup, Goto
    <2>2. pc[t] = "idle" /\ stage[t] = "none"
      BY <1>1, <1>7 DEF Receive, OpOK
    <2>3. s \notin {"path2", "recover"}
      BY <1>0, <1>1, <1>7, <2>2 DEF Receive, StartLookup, Goto
    <2> QED
      BY <1>6, <2>1, <2>3
  <1>8. CASE LookupDown(t) \/ LookupMissing(t) \/ LookupFound(t)
    <2>1. /\ UNCHANGED <<tableVars, req, parent1, child>> /\ pc[t] = "lookup"
          /\ l \in {"lookup", "upgrade", "unlock"}
          /\ s \in {"path2", "recover"} => stage[t] \in {"path2", "recover"}
      BY <1>0, <1>1, <1>8 DEF LookupDown, LookupMissing, LookupFound, Acquire,
         StartLookup, Goto, Return
    <2> QED
      BY <1>0, <1>5, <1>6, <2>1
  <1>9. CASE Upgrade(t) \/ TryFails(t) \/ TryFails2(t)
    <2>1. /\ UNCHANGED <<tableVars, req, parent1, child>>
          /\ pc[t] \in {"upgrade", "try"} /\ l \in {"lookup", "try"}
          /\ s \in {"path2", "recover"} => stage[t] \in {"path2", "recover"}
      BY <1>0, <1>1, <1>9 DEF Upgrade, TryFails, TryFails2, StartLookup, Goto
    <2> QED
      BY <1>0, <1>6, <2>1
  <1>10. CASE CreateTry(t)
    <2>1. /\ UNCHANGED <<tableVars, stage, req, cur>> /\ req[t].op = "create"
          /\ stage[t] = "path1"
          /\ \/ l = "unlock"
             \/ l = "scan" /\ lookup_sub_node(NameOf(req[t].path), cur[t]) = FAIL
      BY <1>0, <1>1, <1>10 DEF CreateTry, Try, EntryNamed, Goto, Return
    <2>2. cur[t] \in Inodes
      BY <1>1
    <2>3. ASSUME l = "scan" PROVE NoEntry(cur[t], NameOf(req[t].path))
      BY <1>1, <2>1, <2>2, <2>3, SubNodeFound DEF NoEntry
    <2>4. ASSUME l = "scan" PROVE FoundAt(l, s, r, d, p, c)
      BY <1>0, <2>1, <2>3, <2>4 DEF FoundAt
    <2> QED
      BY <1>4, <1>5, <2>1, <2>4
  <1>11. CASE DeleteTry(t)
    <2>1. /\ UNCHANGED <<tableVars, stage, req, cur>> /\ req[t].op = "delete"
          /\ stage[t] = "path1"
          /\ \/ l = "unlock"
             \/ /\ l = "lockChild" /\ c # FAIL
                /\ c = lookup_sub_node(NameOf(req[t].path), cur[t])
      BY <1>0, <1>1, <1>11 DEF DeleteTry, Try, EntryNamed, Goto, Return
    <2>2. cur[t] \in Inodes
      BY <1>1
    <2>3. ASSUME l = "lockChild" PROVE HasEntry(cur[t], NameOf(req[t].path), c)
      BY <1>1, <2>1, <2>2, <2>3, NamedEntry
    <2>4. ASSUME l = "lockChild" PROVE FoundAt(l, s, r, d, p, c)
      BY <1>0, <2>1, <2>3, <2>4 DEF FoundAt
    <2> QED
      BY <1>4, <1>5, <2>1, <2>4
  <1>12. CASE MoveTry1(t)
    <2>1. /\ UNCHANGED <<tableVars, stage, req, cur>> /\ req[t].op = "move"
          /\ stage[t] = "path1" /\ pc[t] = "try"
          /\ \/ l = "unlock"
             \/ /\ l = "lockChild" /\ p = cur[t] /\ c # FAIL
                /\ c = lookup_sub_node(NameOf(req[t].path), cur[t])
      BY <1>0, <1>1, <1>12 DEF MoveTry1, Try, EntryNamed, Goto, Return
    <2>2. cur[t] \in Inodes
      BY <1>1
    <2>3. ASSUME l = "lockChild" PROVE HasEntry(p, NameOf(req[t].path), c)
      <3>1. HasEntry(cur[t], NameOf(req[t].path), c)
        BY <1>1, <2>1, <2>2, <2>3, NamedEntry
      <3> QED
        BY <2>1, <2>3, <3>1
    <2>4. ASSUME l = "lockChild" PROVE EndsAt(ParentOf(req[t].path), p)
      <3>1. OnPath(t) /\ rest[t] = << >>
        BY <1>2, <2>1 DEF PathOK, Running
      <3>2. Target(t) = ParentOf(req[t].path)
        BY <2>1 DEF Target, ParentOf
      <3> QED
        BY <2>1, <2>4, <3>1, <3>2, PathEnd
    <2>5. ASSUME l = "lockChild" PROVE FoundAt(l, s, r, d, p, c)
      BY <1>0, <2>1, <2>3, <2>4, <2>5 DEF FoundAt
    <2> QED
      BY <1>4, <1>5, <2>1, <2>5
  <1>13. CASE MoveTry2(t)
    <2>1. /\ UNCHANGED <<tableVars, stage, req, cur, parent1, child>>
          /\ req[t].op = "move" /\ stage[t] = "path2" /\ pc[t] = "try"
          /\ \/ l = "unlock"
             \/ l = "addEntry" /\ lookup_sub_node(NameOf(req[t].to), cur[t]) = FAIL
      BY <1>0, <1>1, <1>13 DEF MoveTry2, Try, EntryNamed, Goto, Return
    <2>2. cur[t] \in Inodes /\ cur[t] # parent1[t]
      BY <1>1, <2>1 DEF DistinctParents
    <2>3. ASSUME l = "addEntry" PROVE NoEntry(cur[t], NameOf(req[t].to))
      BY <1>1, <2>1, <2>2, <2>3, SubNodeFound DEF NoEntry
    <2>4. HasEntry(p, NameOf(r.path), c) /\ EndsAt(ParentOf(r.path), p)
      BY <1>0, <1>2, <2>1 DEF Found, FoundAt
    <2>5. ASSUME l = "addEntry" PROVE FoundAt(l, s, r, d, p, c)
      BY <1>0, <2>1, <2>2, <2>3, <2>4, <2>5 DEF FoundAt
    <2> QED
      BY <1>4, <1>5, <2>1, <2>5
  <1>14. CASE SkipInode(t) \/ LockInode(t) \/ InodeInUse(t)
    <2>1. /\ UNCHANGED <<tableVars, stage, req, cur>> /\ l \in {"scan", "probe"}
          /\ pc[t] \in {"scan", "probe"} /\ req[t].op = "create" /\ stage[t] = "path1"
      BY <1>0, <1>1, <1>14 DEF SkipInode, LockInode, InodeInUse, Goto, OpOK
    <2>2. NoEntry(cur[t], NameOf(req[t].path))
      BY <1>2, <2>1 DEF Found, FoundAt
    <2>3. FoundAt(l, s, r, d, p, c)
      BY <1>0, <2>1, <2>2 DEF FoundAt
    <2> QED
      BY <1>4, <2>1, <2>3
  <1>15. CASE LockChild(t)
    <2>1. /\ UNCHANGED <<tableVars, req, parent1, child>> /\ pc[t] = "lockChild"
          /\ \/ req[t].op = "create" /\ l = "addEntry" /\ UNCHANGED <<stage, cur>>
             \/ req[t].op = "delete" /\ l = "remove" /\ UNCHANGED <<stage, cur>>
             \/ req[t].op \notin {"create", "delete"} /\ l = "lookup"
      BY <1>0, <1>1, <1>15 DEF LockChild, StartLookup, Goto
    <2>2. ASSUME l # "lookup" PROVE FoundAt(l, s, r, d, p, c)
      BY <1>0, <1>2, <2>1, <2>2 DEF Found, FoundAt
    <2> QED
      BY <1>0, <1>4, <1>6, <2>1, <2>2
  <1>16. CASE LookupSelfDeadlock(t) /\ l # "unlock"
    <2>1. UNCHANGED <<tableVars, stage, req, cur, parent1, child, pc>>
      BY <1>16 DEF LookupSelfDeadlock, threadVars
    <2>2. FoundAt(l, s, r, d, p, c)
      BY <1>0, <1>2, <2>1 DEF Found
    <2> QED
      BY <1>4, <2>1, <2>2
  <1>17. CASE PrintOpen(t) \/ PrintLock(t) \/ PrintUnlock(t) \/ Unlock(t)
    <2>1. /\ UNCHANGED tableVars
          /\ l \in {"idle", "open", "lockRoot", "print", "unlock"}
          /\ l # "unlock" => s = "none"
      BY <1>0, <1>1, <1>17 DEF PrintOpen, PrintLock, PrintUnlock, Unlock,
         Return, Goto, OpOK
    <2> QED
      BY <1>5, <1>6, <2>1
  <1>18. CASE NoInode(t) \/ CreateAddEntry(t) \/ DeleteRemove(t) \/ MoveResetEntry(t)
    <2>1. l = "unlock"
      BY <1>0, <1>1, <1>18 DEF NoInode, CreateAddEntry, DeleteRemove,
         MoveResetEntry, Return, Goto
    <2> QED
      BY <1>5, <2>1
  <1>19. CASE AllocateInode(t)
    <2>1. /\ l = "lockChild" /\ r = req[t] /\ s = stage[t] /\ d = cur[t]
          /\ c = index[t] /\ pc[t] = "probe" /\ nodeType[c] = "T_NONE"
          /\ nodeType' = [nodeType EXCEPT ![c] = r.type]
          /\ dirEntries' = [dirEntries EXCEPT ![c] = NoEntries]
      BY <1>0, <1>1, <1>19 DEF AllocateInode, Goto
    <2>2. r.op = "create" /\ c \in Inodes /\ c # d /\ d \in Inodes
      BY <1>1, <2>1 DEF OpOK, Writes
    <2>3. NoEntry(d, NameOf(r.path))'
      <3>1. NoEntry(d, NameOf(r.path)) /\ dirEntries'[d] = dirEntries[d]
        BY <1>1, <1>2, <2>1, <2>2 DEF Found, FoundAt
      <3> QED
        BY <3>1 DEF NoEntry
    <2>4. c # FS_ROOT
      BY <1>2, <2>1 DEF TreeOK
    <2>5. nodeType'[c] # "T_NONE"
      BY <1>1, <2>1, <2>2, CreateType
    <2>6. Unreferenced(c)'
      <3>1. \A x \in Inodes, q \in Slots : dirEntries[x][q].inumber # c
        BY <1>1, <1>2, <2>1, <2>2 DEF TreeOK, EntriesOK
      <3>2. \A x \in Inodes, q \in Slots : dirEntries'[x][q].inumber # c
        BY <1>1, <2>1, <2>2, <3>1 DEF NoEntries, FreeEntry
      <3> QED
        BY <3>2 DEF Unreferenced
    <2>7. FoundAt(l, s, r, d, p, c)'
      BY <2>1, <2>2, <2>3, <2>4, <2>5, <2>6 DEF FoundAt
    <2> QED
      BY <1>0, <2>7 DEF Found
  <1>20. CASE MoveAddEntry(t) /\ l # "unlock"
    <2>1. /\ l = "resetEntry" /\ r = req[t] /\ s = stage[t] /\ d = cur[t]
          /\ p = parent1[t] /\ c = child[t] /\ pc[t] = "addEntry" /\ r.op = "move"
          /\ CanAddEntry(d, c, NameOf(r.to)) /\ AddEntry(d, c, NameOf(r.to))
      BY <1>0, <1>1, <1>20 DEF MoveAddEntry, Goto, Return
    <2>2. d \in Inodes /\ p \in Inodes /\ c \in Inodes /\ s = "path2"
      BY <1>1, <2>1 DEF OpOK
    <2>3. d # p /\ HasEntry(p, NameOf(r.path), c) /\ EndsAt(ParentOf(r.path), p)
      BY <1>2, <2>1, <2>2 DEF Found, FoundAt
    <2>4. FreeSlot(d) # 0
      BY <2>1 DEF CanAddEntry
    <2>5. PICK q \in Slots : /\ dirEntries[d][q].inumber = FREE_INODE
                             /\ Puts(d, q, [name |-> NameOf(r.to), inumber |-> c])
      BY <1>1, <2>1, <2>2, <2>4, AddPuts
    <2>6. HasEntry(d, NameOf(r.to), c)'
      BY <2>2, <2>5 DEF Puts, HasEntry
    <2>7. HasEntry(p, NameOf(r.path), c)'
      BY <2>2, <2>3, <2>5 DEF Puts, HasEntry
    <2>8. EndsAt(ParentOf(r.path), p)'
      <3>1. CASE ParentOf(r.path) = << >>
        BY <2>3, <3>1 DEF EndsAt
      <3>2. CASE ParentOf(r.path) # << >>
        <4>1. PICK x \in Inodes, m \in Slots :
                 /\ dirEntries[x][m].inumber = p
                 /\ dirEntries[x][m].name = NameOf(ParentOf(r.path))
          BY <2>3, <3>2 DEF EndsAt
        <4>2. dirEntries'[x][m] = dirEntries[x][m]
          BY <1>1, <2>2, <2>5, <4>1 DEF Puts
        <4> QED
          BY <3>2, <4>1, <4>2 DEF EndsAt
      <3> QED
        BY <3>1, <3>2
    <2>9. FoundAt(l, s, r, d, p, c)'
      BY <2>1, <2>3, <2>6, <2>7, <2>8 DEF FoundAt
    <2> QED
      BY <1>0, <2>9 DEF Found
  <1> QED
    BY <1>5, <1>7, <1>8, <1>9, <1>10, <1>11, <1>12, <1>13, <1>14, <1>15, <1>16,
       <1>17, <1>18, <1>19, <1>20 DEF Step

-----------------------------------------------------------------------------
\* Every step keeps the tree.

\* Nothing else is done at the place where a move removes the old entry.
LEMMA ResetOnly ==
  ASSUME NEW t \in Threads, Receive(t) \/ Step(t), pc[t] = "resetEntry"
  PROVE  MoveResetEntry(t)
  BY DEF Receive, Step, LookupDown, LookupMissing, LookupFound, Acquire,
     LookupSelfDeadlock, Upgrade, TryFails, TryFails2, CreateTry, DeleteTry,
     MoveTry1, MoveTry2, Try, SkipInode, LockInode, InodeInUse, AllocateInode,
     NoInode, LockChild, CreateAddEntry, DeleteRemove, MoveAddEntry, PrintOpen,
     PrintLock, PrintUnlock, Unlock

LEMMA TreeStep ==
  ASSUME Typed, WritesLocked, LInv, PInv, TInv,
         NEW t \in Threads, Receive(t) \/ Step(t)
  PROVE  TreeOK'
  <1>1. /\ dirEntries \in [Inodes -> [Slots -> Entry]]
        /\ nodeType \in [Inodes -> Types] /\ FREE_INODE \notin Inodes
        /\ pc \in [Threads -> Labels] /\ cur[t] \in Inodes
        /\ req[t] \in Requests \cup {NoRequest} /\ OpOK(t) /\ LocksOK(t)
        /\ TreeOK /\ Found(t) /\ PathOK(t)
    <2>1. FREE_INODE \notin Inodes
      BY DEF FREE_INODE, Inodes
    <2>2. LocksOK(t) /\ TreeOK /\ Found(t) /\ PathOK(t)
      BY DEF LInv, TInv, PInv
    <2> QED
      BY <2>1, <2>2 DEF Typed, TypeOK, TableTypeOK, ControlOK, ControlTypes
  <1>2. LeavesOthers(t)
    BY StepFrame
  <1>3. ASSUME pc[t] # "resetEntry" PROVE MoversStay
    BY <1>2, <1>3 DEF LeavesOthers, OnlyThread, MoversStay
  <1>4. ASSUME pc[t] \in {"addEntry", "remove"} PROVE OnPath(t) /\ rest[t] = << >>
    BY <1>1, <1>4 DEF PathOK, Running, LocksOK, Parented
  <1>5. CASE pc[t] = "resetEntry"
    <2>1. MoveResetEntry(t) /\ CanResetEntry(parent1[t], child[t])
      BY <1>1, <1>5, ResetOnly, ResetSucceeds
    <2>2. dirEntries' = WithoutEntry(parent1[t], child[t]) /\ UNCHANGED nodeType
      BY <2>1 DEF MoveResetEntry
    <2>3. parent1[t] \in Inodes /\ SlotOf(parent1[t], child[t]) # 0
      BY <1>1, <1>5, <2>1 DEF OpOK, CanResetEntry
    <2>4. PICK d, c : d = parent1[t] /\ c = child[t]
      OBVIOUS
    <2>5. PICK s \in Slots :
            /\ dirEntries[d][s].inumber = c
            /\ \A x \in Inodes, r \in Slots : WithoutEntry(d, c)[x][r] =
                  IF x = d /\ r = s THEN FreeEntry ELSE dirEntries[x][r]
      BY <1>1, <2>3, <2>4, ResetPuts
    <2> QED
      BY <1>1, <1>2, <1>5, <2>2, <2>4, <2>5, RemoveTree
  <1>6. CASE UNCHANGED tableVars /\ pc[t] # "resetEntry"
    BY <1>1, <1>3, <1>6, SameTree
  <1>7. CASE AllocateInode(t)
    <2>1. /\ pc[t] = "probe" /\ nodeType[index[t]] = "T_NONE"
          /\ nodeType' = [nodeType EXCEPT ![index[t]] = req[t].type]
          /\ dirEntries' = [dirEntries EXCEPT ![index[t]] = NoEntries]
      BY <1>7 DEF AllocateInode
    <2>2. index[t] \in Inodes /\ req[t].type \in Types /\ req[t].type # "T_NONE"
      BY <1>1, <2>1, CreateType DEF OpOK
    <2>3. PICK i \in Inodes, y \in Types : i = index[t] /\ y = req[t].type
      BY <2>2
    <2> QED
      BY <1>1, <1>3, <2>1, <2>2, <2>3, AllocateTree
  <1>8. CASE CreateAddEntry(t) /\ ~UNCHANGED tableVars
    <2>1. PICK d, c, name :
            /\ d = cur[t] /\ c = child[t] /\ name = NameOf(req[t].path)
      OBVIOUS
    <2>2. /\ pc[t] = "addEntry" /\ req[t].op = "create" /\ UNCHANGED nodeType
          /\ CanAddEntry(d, c, name) /\ AddEntry(d, c, name)
      BY <1>8, <2>1 DEF CreateAddEntry, tableVars
    <2>3. /\ d \in Inodes /\ c \in Inodes /\ FreeSlot(d) # 0
          /\ nodeType[d] = "T_DIRECTORY" /\ nodeType[c] # "T_NONE"
      BY <1>1, <2>1, <2>2 DEF OpOK, CanAddEntry
    <2>4. NoEntry(d, name) /\ c # FS_ROOT /\ Unreferenced(c)
      BY <1>1, <2>1, <2>2 DEF Found, FoundAt
    <2>5. d = FS_ROOT \/ ~Unreferenced(d)
      BY <1>4, <2>1, <2>2, PathEnd
    <2>6. PICK s \in Slots : /\ dirEntries[d][s].inumber = FREE_INODE
                             /\ Puts(d, s, [name |-> name, inumber |-> c])
      BY <1>1, <2>2, <2>3, AddPuts
    <2>7. ASSUME NEW e \in Inodes, NEW r \in Slots, dirEntries[e][r].inumber = c
          PROVE  d # e /\ \E u \in Threads : Moving(u, d, e, c)'
      BY <2>4, <2>7 DEF Unreferenced
    <2>8. MoversStay
      BY <1>3, <2>2
    <2> QED
      BY <1>1, <2>2, <2>3, <2>4, <2>5, <2>6, <2>7, <2>8, AddTree
  <1>9. CASE MoveAddEntry(t) /\ ~UNCHANGED tableVars
    <2>1. PICK d, c, p, name :
            /\ d = cur[t] /\ c = child[t] /\ p = parent1[t] /\ name = NameOf(req[t].to)
      OBVIOUS
    <2>2. /\ pc[t] = "addEntry" /\ req[t].op = "move" /\ UNCHANGED nodeType
          /\ CanAddEntry(d, c, name) /\ AddEntry(d, c, name)
          /\ pc'[t] = "resetEntry" /\ UNCHANGED <<cur, parent1, child>>
      BY <1>1, <1>9, <2>1 DEF MoveAddEntry, tableVars, Goto
    <2>3. /\ d \in Inodes /\ c \in Inodes /\ FreeSlot(d) # 0 /\ stage[t] = "path2"
          /\ nodeType[d] = "T_DIRECTORY" /\ nodeType[c] # "T_NONE" /\ p \in Inodes
      BY <1>1, <2>1, <2>2 DEF OpOK, CanAddEntry
    <2>4. NoEntry(d, name) /\ d # p /\ HasEntry(p, NameOf(req[t].path), c)
      BY <1>1, <2>1, <2>2, <2>3 DEF Found, FoundAt
    <2>5. d = FS_ROOT \/ ~Unreferenced(d)
      BY <1>4, <2>1, <2>2, PathEnd
    <2>6. PICK s \in Slots : /\ dirEntries[d][s].inumber = FREE_INODE
                             /\ Puts(d, s, [name |-> name, inumber |-> c])
      BY <1>1, <2>2, <2>3, AddPuts
    <2>7. PICK m \in Slots : dirEntries[p][m].inumber = c
      BY <2>4 DEF HasEntry
    <2>8. c # FS_ROOT /\ c # FREE_INODE
      BY <1>1, <2>3, <2>7 DEF TreeOK, EntriesOK
    <2>9. ASSUME NEW e \in Inodes, NEW r \in Slots, dirEntries[e][r].inumber = c
          PROVE  e = p
      <3> SUFFICES ASSUME e # p PROVE FALSE
        OBVIOUS
      <3>1. ReferencesUnique
        BY <1>1 DEF TreeOK
      <3>2. \E u \in Threads : Moving(u, e, p, dirEntries[e][r].inumber)
        BY <2>3, <2>7, <2>8, <2>9, <3>1 DEF ReferencesUnique
      <3>3. PICK u \in Threads : Moving(u, e, p, c)
        BY <2>9, <3>2
      <3>4. ChildBound(t) /\ ChildBound(u) /\ child[u] = child[t] /\ u # t
        BY <2>1, <2>2, <3>3 DEF Moving, ChildBound
      <3> QED
        BY <3>4, OneMover
    <2>10. Moving(t, d, p, c)'
      BY <2>1, <2>2 DEF Moving
    <2>11. ASSUME NEW e \in Inodes, NEW r \in Slots, dirEntries[e][r].inumber = c
           PROVE  d # e /\ \E u \in Threads : Moving(u, d, e, c)'
      <3>1. e = p
        BY <2>9, <2>11
      <3>2. Moving(t, d, e, c)'
        BY <2>10, <3>1 DEF Moving
      <3> QED
        BY <2>4, <3>1, <3>2
    <2>12. MoversStay
      BY <1>3, <2>2
    <2> QED
      BY <1>1, <2>2, <2>3, <2>4, <2>5, <2>6, <2>8, <2>11, <2>12, AddTree
  <1>10. CASE DeleteRemove(t) /\ ~UNCHANGED tableVars
    <2>1. PICK d, c : d = cur[t] /\ c = child[t]
      OBVIOUS
    <2>2. /\ pc[t] = "remove" /\ Deletable(t) /\ CanResetEntry(d, c)
          /\ nodeType' = [nodeType EXCEPT ![c] = "T_NONE"]
          /\ dirEntries' = [WithoutEntry(d, c) EXCEPT ![c] = NoEntries]
      BY <1>10, <2>1 DEF DeleteRemove
    <2>3. d \in Inodes /\ c \in Inodes /\ SlotOf(d, c) # 0
      BY <1>1, <2>1, <2>2 DEF OpOK, CanResetEntry
    <2>4. PICK s \in Slots :
            /\ dirEntries[d][s].inumber = c
            /\ \A x \in Inodes, r \in Slots : WithoutEntry(d, c)[x][r] =
                  IF x = d /\ r = s THEN FreeEntry ELSE dirEntries[x][r]
      BY <1>1, <2>3, ResetPuts
    <2>5. \A x \in Inodes \ {c} : dirEntries'[x] = WithoutEntry(d, c)[x]
      BY <1>1, <2>2, <2>3 DEF WithoutEntry
    <2>6. dirEntries'[c] = NoEntries
      BY <1>1, <2>2, <2>3 DEF WithoutEntry
    <2>7. \A x \in Inodes \ {c}, r \in Slots :
            dirEntries'[x][r] = IF x = d /\ r = s THEN FreeEntry ELSE dirEntries[x][r]
      BY <2>4, <2>5
    <2>8. dirEntries[d][s].inumber = c
      BY <2>4
    <2>9. /\ TreeOK /\ LeavesOthers(t) /\ pc[t] = "remove" /\ Deletable(t)
          /\ d = cur[t] /\ c = child[t]
          /\ nodeType'[c] = "T_NONE"
          /\ \A x \in Inodes \ {c} : nodeType'[x] = nodeType[x]
      BY <1>1, <1>2, <2>1, <2>2, <2>3
    <2> QED
      BY <2>6, <2>7, <2>8, <2>9, DeleteTree
  <1>11. MoveResetEntry(t) => pc[t] = "resetEntry"
    BY DEF MoveResetEntry
  <1> QED
    BY <1>5, <1>6, <1>7, <1>8, <1>9, <1>10, <1>11, StepFrame

\* Two threads create two i-nodes.
LEMMA OwnChildrenStep ==
  ASSUME Typed, WritesLocked, LInv, TInv, NEW t \in Threads, Receive(t) \/ Step(t)
  PROVE  OwnChildren'
  <1>1. LeavesOthers(t)
    BY StepFrame
  <1>2. \A u \in Threads \ {t} : /\ Creating(u)' <=> Creating(u)
                                 /\ child'[u] = child[u]
    BY <1>1 DEF LeavesOthers, OnlyThread, Creating
  <1>3. /\ pc \in [Threads -> Labels] /\ child \in [Threads -> Inodes \cup {FREE_INODE}]
        /\ req \in [Threads -> Requests \cup {NoRequest}] /\ OpOK(t)
        /\ stage \in [Threads -> Stages]
    BY DEF Typed, TypeOK, ControlOK, ControlTypes
  <1>4. \/ Creating(t)' => Creating(t) /\ child'[t] = child[t]
        \/ pc[t] = "probe" /\ nodeType[child'[t]] = "T_NONE"
    <2>1. CASE AllocateInode(t)
      BY <1>3, <2>1 DEF AllocateInode
    <2>2. CASE LockChild(t)
      BY <1>3, <2>2 DEF LockChild, Creating, Goto, StartLookup
    <2>3. CASE LookupSelfDeadlock(t)
      BY <2>3 DEF LookupSelfDeadlock, threadVars, Creating
    <2>4. CASE DeleteTry(t) \/ MoveTry1(t) \/ MoveTry2(t) \/ MoveAddEntry(t)
      BY <1>3, <2>4 DEF DeleteTry, MoveTry1, MoveTry2, Try, MoveAddEntry, Creating
    <2>5. CASE Receive(t)
      <3>1. pc'[t] \in {"lookup", "open"}
        BY <1>3, <2>5 DEF Receive, StartLookup, Goto
      <3> QED
        BY <3>1 DEF Creating
    <2>6. CASE \/ LookupDown(t) \/ LookupMissing(t) \/ LookupFound(t) \/ Upgrade(t)
               \/ TryFails(t) \/ TryFails2(t) \/ CreateTry(t)
      BY <1>3, <2>6 DEF LookupDown, LookupMissing, LookupFound, Acquire, Upgrade,
         TryFails, TryFails2, CreateTry, Creating, Goto, Return, StartLookup
    <2>7. CASE \/ SkipInode(t) \/ LockInode(t) \/ InodeInUse(t) \/ NoInode(t)
               \/ CreateAddEntry(t) \/ DeleteRemove(t) \/ MoveResetEntry(t)
               \/ PrintOpen(t) \/ PrintLock(t) \/ PrintUnlock(t) \/ Unlock(t)
      BY <1>3, <2>7 DEF SkipInode, LockInode, InodeInUse, NoInode, CreateAddEntry,
         DeleteRemove, MoveResetEntry, PrintOpen, PrintLock, PrintUnlock, Unlock,
         Creating, Goto, Return
    <2> QED
      BY <2>1, <2>2, <2>3, <2>4, <2>5, <2>6, <2>7 DEF Step
  <1>5. \A u \in Threads : Creating(u) => nodeType[child[u]] # "T_NONE"
    BY DEF TInv, Found, FoundAt, Creating
  <1> SUFFICES ASSUME NEW v \in Threads, NEW u \in Threads, Creating(v)', Creating(u)',
                      child'[v] = child'[u]
               PROVE  v = u
    BY DEF OwnChildren
  <1>6. \A a, b \in Threads : Creating(a) /\ Creating(b) /\ child[a] = child[b] => a = b
    BY DEF TInv, OwnChildren
  <1> QED
    BY <1>2, <1>4, <1>5, <1>6

\* Every step keeps the tree and what the threads have found.
LEMMA NextTInv ==
  Typed /\ WritesLocked /\ LInv /\ PInv /\ TInv /\ DistinctParents /\ [Next]_vars => TInv'
  <1> SUFFICES ASSUME Typed, WritesLocked, LInv, PInv, TInv, DistinctParents, [Next]_vars
               PROVE  TInv'
    OBVIOUS
  <1>1. Typed'
    BY NextTypes
  <1>2. ASSUME NEW t \in Threads, Receive(t) \/ Step(t) PROVE TInv'
    <2>1. TreeOK' /\ OwnChildren'
      BY <1>2, TreeStep, OwnChildrenStep
    <2>2. ASSUME NEW u \in Threads PROVE Found(u)'
      BY <1>1, <1>2, FoundStep, OthersFound
    <2> QED
      BY <2>1, <2>2 DEF TInv
  <1>3. CASE UNCHANGED vars
    <2>1. UNCHANGED tableVars /\ MoversStay
      BY <1>3 DEF vars, threadVars, MoversStay
    <2>2. TreeOK'
      BY <2>1, SameTree DEF TInv
    <2>3. OwnChildren'
      BY <1>3 DEF vars, threadVars, TInv, OwnChildren, Creating
    <2>4. ASSUME NEW u \in Threads PROVE Found(u)'
      <3>1. FoundAt(pc'[u], stage'[u], req'[u], cur'[u], parent1'[u], child'[u])
        BY <1>3 DEF vars, threadVars, TInv, Found
      <3> QED
        BY <2>1, <3>1, FoundNext
    <2> QED
      BY <2>2, <2>3, <2>4 DEF TInv
  <1> QED
    BY <1>2, <1>3 DEF Next

-----------------------------------------------------------------------------
\* The inductive invariant.

\* It holds in the initial states.
LEMMA InitIInv == Init => IInv
  <1> SUFFICES ASSUME Init PROVE IInv
    OBVIOUS
  <1>1. Typed
    BY InitTypes
  <1>2. WritesLocked
    BY DEF Init, WritesLocked, Writes
  <1>3. \A t \in Threads : /\ pc[t] = "idle" /\ stage[t] = "none" /\ held[t] = {}
                           /\ child[t] = FREE_INODE /\ req[t].op = "none"
    BY DEF Init, NoRequest
  <1>4. LInv
    <2>1. \A i \in Inodes : writer[i] = None /\ readers[i] = 0
      BY DEF Init
    <2>2. \A i \in Inodes : ReadersOf(i) = {}
      BY <1>3 DEF ReadersOf, Marked, ChildLocked
    <2>3. ArrayMatchesLocks
      BY <2>1, <2>2, FS_EmptySet DEF ArrayMatchesLocks
    <2>4. ASSUME NEW t \in Threads PROVE LocksOK(t)
      BY <1>3, <2>1, ThreadsAssumption DEF LocksOK, ChildBound, Parented
    <2> QED
      BY <2>3, <2>4 DEF LInv
  <1>5. PInv
    BY <1>3 DEF PInv, PathOK, Running
  <1>6. TreeOK
    <2>1. PICK T \in Tables : nodeType = T[1] /\ dirEntries = T[2]
      BY DEF Init
    <2> DEFINE entry(r) == dirEntries[r[1]][r[2]]
               used == {r \in Inodes \X Slots : entry(r).inumber # FREE_INODE}
    <2>2. /\ nodeType[FS_ROOT] = "T_DIRECTORY"
          /\ \A r \in used : /\ nodeType[r[1]] = "T_DIRECTORY"
                             /\ entry(r).inumber # FS_ROOT
                             /\ nodeType[entry(r).inumber] # "T_NONE"
          /\ \A r, q \in used :
                (\/ entry(r).inumber = entry(q).inumber
                 \/ r[1] = q[1] /\ entry(r).name = entry(q).name)
                => r = q
          /\ \A i \in Inodes \ {FS_ROOT} : nodeType[i] # "T_NONE" =>
                \E r \in used : entry(r).inumber = i
      BY <2>1, TreesAssumption
    <2>3. \A d \in Inodes, s \in Slots : dirEntries[d][s].inumber # FREE_INODE =>
             <<d, s>> \in used
      OBVIOUS
    <2>4. ASSUME NEW d \in Inodes, NEW s \in Slots, dirEntries[d][s].inumber # FREE_INODE
          PROVE  /\ nodeType[d] = "T_DIRECTORY"
                 /\ dirEntries[d][s].inumber # FS_ROOT
                 /\ nodeType[dirEntries[d][s].inumber] # "T_NONE"
      <3>1. <<d, s>> \in used
        BY <2>3, <2>4
      <3>2. <<d, s>>[1] = d /\ entry(<<d, s>>) = dirEntries[d][s]
        OBVIOUS
      <3> HIDE DEF entry, used
      <3> QED
        BY <2>2, <3>1, <3>2
    <2>5. ASSUME NEW d \in Inodes, NEW s \in Slots, NEW e \in Inodes, NEW r \in Slots,
                 dirEntries[d][s].inumber # FREE_INODE,
                 dirEntries[e][r].inumber # FREE_INODE,
                 \/ dirEntries[d][s].inumber = dirEntries[e][r].inumber
                 \/ d = e /\ dirEntries[d][s].name = dirEntries[e][r].name
          PROVE  d = e /\ s = r
      <3>1. <<d, s>> \in used /\ <<e, r>> \in used
        BY <2>3, <2>5
      <3>2. /\ <<d, s>>[1] = d /\ entry(<<d, s>>) = dirEntries[d][s]
            /\ <<e, r>>[1] = e /\ entry(<<e, r>>) = dirEntries[e][r]
        OBVIOUS
      <3> HIDE DEF entry, used
      <3>3. <<d, s>> = <<e, r>>
        BY <2>2, <2>5, <3>1, <3>2
      <3> QED
        BY <3>3
    <2> HIDE DEF entry, used
    <2>6. EntriesOK /\ NamesUnique /\ ReferencesUnique
      BY <2>4, <2>5 DEF EntriesOK, NamesUnique, ReferencesUnique
    <2> USE DEF entry, used
    <2>7. OrphansEmpty
      BY <2>2 DEF OrphansEmpty, Unreferenced
    <2> QED
      BY <2>2, <2>6, <2>7 DEF TreeOK
  <1>7. OwnChildren /\ \A t \in Threads : Found(t)
    BY <1>3 DEF OwnChildren, Creating, Found, FoundAt
  <1> QED
    BY <1>1, <1>2, <1>4, <1>5, <1>6, <1>7 DEF IInv, TInv

\* And every step keeps it, if no move holds one directory in both roles.
LEMMA NextIInv == IInv /\ DistinctParents /\ [Next]_vars => IInv'
  <1>1. IInv => TreeOK
    BY DEF IInv, TInv
  <1> QED
    BY <1>1, NextTypes, NextWrites, NextLInv, NextPInv, NextTInv DEF IInv

\* The parent directories of a move have different names in each request.  "/",
\* which has none, counts as one that differs from every name.
MovesApart ==
    \A r \in Requests : r.op = "move" => NameOf(ParentOf(r.path)) # NameOf(ParentOf(r.to))

\* Then no move holds one directory in both roles: a directory has one entry, so
\* two paths that lead to it end in the same name.
LEMMA ApartDistinct == IInv /\ MovesApart => DistinctParents
  <1> SUFFICES ASSUME IInv, MovesApart, NEW t \in Threads,
                      stage[t] = "path2", pc[t] \in {"upgrade", "try"},
                      NEW d, d = cur[t], d = parent1[t]
               PROVE  FALSE
    BY DEF DistinctParents
  <1>1. /\ Typed /\ WritesLocked /\ TreeOK /\ Found(t) /\ PathOK(t)
        /\ OpOK(t) /\ Writes(t)
    BY DEF IInv, LInv, TInv, PInv, Typed, ControlOK, WritesLocked
  <1>2. d \in Inodes /\ FREE_INODE \notin Inodes /\ writer[d] = t /\ req[t] \in Requests
    <2>1. req[t] \in Requests \cup {NoRequest} /\ req[t].op = "move"
      BY <1>1 DEF Typed, TypeOK, OpOK
    <2>2. FREE_INODE \notin Inodes
      BY DEF FREE_INODE, Inodes
    <2>3. req[t] \in Requests
      BY <2>1 DEF NoRequest
    <2>4. writer[d] = t
      BY <1>1 DEF Writes
    <2>5. cur[t] \in Inodes
      BY <1>1 DEF Typed, TypeOK
    <2> QED
      BY <2>2, <2>3, <2>4, <2>5
  <1> DEFINE p == ParentOf(req[t].path)
             q == ParentOf(req[t].to)
  <1>3. EndsAt(q, d)
    <2>1. OnPath(t) /\ rest[t] = << >>
      BY <1>1 DEF PathOK, Running
    <2>2. Target(t) = q
      BY DEF Target, ParentOf
    <2> QED
      BY <1>1, <2>1, <2>2, PathEnd
  <1>4. EndsAt(p, d)
    BY <1>1 DEF Found, FoundAt, OpOK
  <1>5. NameOf(p) # NameOf(q)
    BY <1>1, <1>2 DEF MovesApart, OpOK
  <1> HIDE DEF p, q
  <1>6. \A x \in Inodes, s \in Slots : dirEntries[x][s].inumber = d => d # FS_ROOT
    BY <1>1, <1>2 DEF TreeOK, EntriesOK
  <1>7. p # << >> /\ q # << >>
    BY <1>3, <1>4, <1>5, <1>6 DEF EndsAt
  <1>8. PICK x \in Inodes, s \in Slots : /\ dirEntries[x][s].inumber = d
                                         /\ dirEntries[x][s].name = NameOf(p)
    BY <1>4, <1>7 DEF EndsAt
  <1>9. PICK y \in Inodes, r \in Slots : /\ dirEntries[y][r].inumber = d
                                         /\ dirEntries[y][r].name = NameOf(q)
    BY <1>3, <1>7 DEF EndsAt
  <1>10. <<x, s>> # <<y, r>>
    BY <1>5, <1>8, <1>9
  <1>11. \E u \in Threads : Moving(u, x, y, dirEntries[x][s].inumber)
    <2>1. ReferencesUnique
      BY <1>1 DEF TreeOK
    <2> QED
      BY <1>2, <1>8, <1>9, <1>10, <2>1 DEF ReferencesUnique
  <1>12. PICK u \in Threads : Moving(u, x, y, d)
    BY <1>8, <1>11
  <1>13. writer[d] = u
    BY <1>12 DEF IInv, LInv, LocksOK, ChildBound, Moving
  <1> QED
    BY <1>2, <1>12, <1>13 DEF Moving

-----------------------------------------------------------------------------
\* What the invariant says of the paths, of the table and of print.

\* Walking along the beginning of a path is walking along that part.
LEMMA WalkPrefix ==
  ASSUME NEW path \in Seq(Names), NEW n \in 0..Len(path), NEW w, Walk(w, path, n)
  PROVE  /\ SubSeq(path, 1, n) \in Seq(Names) /\ Len(SubSeq(path, 1, n)) = n
         /\ Walk(w, SubSeq(path, 1, n), n)
  <1>1. Len(path) \in Nat /\ n \in Nat /\ n <= Len(path)
    OBVIOUS
  <1>2. \A k \in 1..n : path[k] \in Names
    BY <1>1
  <1>3. /\ SubSeq(path, 1, n) \in Seq(Names) /\ Len(SubSeq(path, 1, n)) = n
        /\ \A k \in 1..n : SubSeq(path, 1, n)[k] = path[k]
    BY <1>1, <1>2, SubSeqProperties
  <1> QED
    BY <1>3 DEF Walk

\* The path a thread has followed leads where it is.
LEMMA PathsLead == IInv => NoStalePath
  <1> SUFFICES ASSUME IInv, NEW t \in Threads, stage[t] # "none", pc[t] # "unlock"
               PROVE  /\ Resolve(Followed(t)) = cur[t]
                      /\ nodeType[cur[t]] # "T_NONE"
                      /\ child[t] # FREE_INODE => nodeType[child[t]] # "T_NONE"
    BY DEF NoStalePath
  <1>1. /\ Typed /\ TreeOK /\ Found(t) /\ OpOK(t) /\ LocksOK(t) /\ OnPath(t)
        /\ cur[t] \in Inodes /\ rest[t] \in Seq(Names)
        /\ stage[t] \in Stages /\ pc[t] \in Labels
    BY DEF IInv, TInv, LInv, PInv, PathOK, Running, Typed, ControlOK,
       ControlTypes, TypeOK
  <1>2. Resolve(Followed(t)) = cur[t]
    <2>1. PICK n, path : n = Depth(t) /\ path = Target(t)
      OBVIOUS
    <2>2. PICK w : Walk(w, path, n) /\ w[n] = cur[t]
      BY <1>1, <2>1 DEF OnPath
    <2>3. path \in Seq(Names) /\ n \in 0..Len(path)
      <3>1. path \in Seq(Names) /\ n \in Nat /\ n = Len(path) - Len(rest[t])
        BY <1>1, <2>1 DEF OnPath, Depth
      <3>2. Len(path) \in Nat /\ Len(rest[t]) \in Nat
        BY <1>1, <3>1
      <3> QED
        BY <3>1, <3>2
    <2>4. Followed(t) = SubSeq(path, 1, n)
      BY <2>1 DEF Followed, Depth
    <2>5. PICK f : f = SubSeq(path, 1, n)
      OBVIOUS
    <2>6. f \in Seq(Names) /\ Len(f) = n /\ Walk(w, f, Len(f))
      BY <2>2, <2>3, <2>5, WalkPrefix
    <2>7. Resolve(f) = w[Len(f)]
      BY <2>6, WalkResolves
    <2> QED
      BY <2>2, <2>4, <2>5, <2>6, <2>7
  <1>3. nodeType[cur[t]] # "T_NONE"
    BY <1>1, PathEnd DEF TreeOK, EntriesOK, Unreferenced, FREE_INODE, Inodes
  <1>4. ASSUME child[t] # FREE_INODE PROVE nodeType[child[t]] # "T_NONE"
    <2>1. \A d \in Inodes : \A name : HasEntry(d, name, child[t]) => nodeType[child[t]] # "T_NONE"
      BY <1>1, <1>4 DEF HasEntry, TreeOK, EntriesOK
    <2>2. CASE stage[t] \in {"path2", "recover"}
      BY <1>1, <2>1, <2>2 DEF Found, FoundAt, OpOK
    <2>3. CASE stage[t] \notin {"path2", "recover"}
      <3>1. pc[t] \in {"lockChild", "addEntry", "remove"}
        BY <1>1, <1>4, <2>3 DEF LocksOK, OpOK, Stages, Labels
      <3>2. /\ stage[t] = "path1" /\ req[t].op \in {"create", "delete", "move"}
            /\ req[t].op = "move" => parent1[t] = cur[t] /\ pc[t] = "lockChild"
        BY <1>1, <1>4, <2>3, <3>1 DEF LocksOK, OpOK, Stages, Found, FoundAt
      <3>3. CASE req[t].op = "create"
        BY <1>1, <3>1, <3>3 DEF Found, FoundAt
      <3>4. CASE req[t].op = "delete"
        BY <1>1, <2>1, <3>1, <3>4 DEF Found, FoundAt, OpOK
      <3>5. CASE req[t].op = "move"
        BY <1>1, <2>1, <3>2, <3>5 DEF Found, FoundAt
      <3> QED
        BY <3>2, <3>3, <3>4, <3>5
    <2> QED
      BY <2>2, <2>3
  <1> QED
    BY <1>2, <1>3, <1>4

\* The table has the shape of a tree.
LEMMA TreeHasShape == IInv => TreeShape
  <1> SUFFICES ASSUME IInv PROVE TreeShape
    OBVIOUS
  <1>1. Typed /\ LInv /\ TreeOK
    BY DEF IInv, TInv
  <1>2. FREE_INODE \notin Inodes /\ FS_ROOT \in Inodes
    BY TableAssumption DEF FREE_INODE, FS_ROOT, Inodes
  <1>3. nodeType[FS_ROOT] = "T_DIRECTORY" /\ References(FS_ROOT) = {}
    <2>1. \A r \in Inodes \X Slots : dirEntries[r[1]][r[2]].inumber # FS_ROOT
      BY <1>1, <1>2 DEF TreeOK, EntriesOK
    <2> QED
      BY <1>1, <2>1 DEF TreeOK, References
  <1>4. \A d \in Inodes, s \in Slots :
          LET e == dirEntries[d][s]
          IN  e.inumber # FREE_INODE =>
                /\ nodeType[d] = "T_DIRECTORY" /\ nodeType[e.inumber] # "T_NONE"
                /\ \A u \in Slots \ {s} : dirEntries[d][u].inumber # FREE_INODE =>
                       dirEntries[d][u].name # e.name
    BY <1>1 DEF TreeOK, EntriesOK, NamesUnique
  <1>5. ASSUME NEW i \in Allocated \ {FS_ROOT}
        PROVE  LET moving == {t \in Threads : pc[t] = "resetEntry" /\ child[t] = i}
               IN  CASE References(i) = {}             -> is_dir_empty(i)
                     [] Cardinality(References(i)) = 2 -> moving # {}
                     [] OTHER -> Cardinality(References(i)) = 1
    <2> DEFINE R == References(i)
    <2>1. /\ i \in Inodes /\ nodeType[i] # "T_NONE" /\ i # FREE_INODE
          /\ \A r : r \in R <=> r \in Inodes \X Slots
                                 /\ dirEntries[r[1]][r[2]].inumber = i
      BY <1>2 DEF Allocated, References
    <2>2. R = {} => is_dir_empty(i)
      <3>1. \A d \in Inodes, s \in Slots :
               dirEntries[d][s].inumber = i => <<d, s>> \in R
        BY DEF References
      <3>2. R = {} => Unreferenced(i)
        BY <3>1 DEF Unreferenced
      <3> QED
        BY <1>1, <2>1, <3>2 DEF TreeOK, OrphansEmpty
    <2>3. ASSUME NEW a \in R, NEW b \in R, a # b
          PROVE  a[1] # b[1] /\ \E t \in Threads : Moving(t, a[1], b[1], i)
      <3>1. PICK d \in Inodes, s \in Slots : a = <<d, s>> /\ dirEntries[d][s].inumber = i
        BY <2>1
      <3>2. PICK e \in Inodes, r \in Slots : b = <<e, r>> /\ dirEntries[e][r].inumber = i
        BY <2>1
      <3>3. d # e /\ \E t \in Threads : Moving(t, d, e, dirEntries[d][s].inumber)
        BY <1>1, <2>1, <2>3, <3>1, <3>2 DEF TreeOK, ReferencesUnique
      <3> QED
        BY <3>1, <3>2, <3>3
    <2> HIDE DEF R
    <2> DEFINE moving == {t \in Threads : pc[t] = "resetEntry" /\ child[t] = i}
    <2> SUFFICES /\ R = {} => is_dir_empty(i)
                 /\ R # {} /\ Cardinality(R) = 2 => moving # {}
                 /\ R # {} /\ Cardinality(R) # 2 => Cardinality(R) = 1
      <3>1. References(i) = {} => Cardinality(References(i)) # 2
        BY FS_EmptySet
      <3> QED
        BY <3>1 DEF R
    <2>4. CASE \A a, b \in R : a = b
      <3>1. R # {} => Cardinality(R) = 1
        <4>1. ASSUME R # {} PROVE Cardinality(R) = 1
          <5>1. PICK a : a \in R
            BY <4>1
          <5>2. R = {a}
            BY <2>4, <5>1
          <5> QED
            BY <5>2, FS_Singleton
        <4> QED
          BY <4>1
      <3> QED
        BY <2>2, <3>1
    <2>5. CASE \E a, b \in R : a # b
      <3>1. PICK a \in R, b \in R : a # b
        BY <2>5
      <3>2. PICK t \in Threads : Moving(t, a[1], b[1], i) /\ a[1] # b[1]
        BY <2>3, <3>1
      <3>3. ASSUME NEW z \in R, z # a PROVE z = b
        <4> SUFFICES ASSUME z # b PROVE FALSE
          OBVIOUS
        <4>1. PICK u \in Threads : Moving(u, z[1], a[1], i) /\ z[1] # a[1]
          BY <2>3, <3>3
        <4>2. z[1] # b[1]
          BY <2>3
        <4>3. u = t
          BY <1>1, <3>2, <4>1, OneMover DEF Moving, ChildBound
        <4> QED
          BY <3>2, <4>1, <4>2, <4>3 DEF Moving
      <3>4. R = {a} \cup {b} /\ b \notin {a}
        BY <3>1, <3>3
      <3>5. IsFiniteSet({a}) /\ Cardinality({a}) = 1
        BY FS_Singleton
      <3>6. Cardinality(R) = 2
        <4>1. Cardinality({a} \cup {b}) = 1 + 1
          BY <3>4, <3>5, FS_AddElement
        <4> QED
          BY <3>4, <4>1
      <3>7. t \in {u \in Threads : pc[u] = "resetEntry" /\ child[u] = i}
        BY <3>2 DEF Moving
      <3> QED
        BY <2>2, <3>1, <3>6, <3>7
    <2> QED
      BY <2>4, <2>5
  <1> QED
    BY <1>3, <1>4, <1>5 DEF TreeShape

\* While a thread prints, no other changes the table: it would have the root
\* locked, to read on its way down or to write.
LEMMA PrintExcludes ==
  IInv /\ [Next]_vars =>
     ((\E t \in Threads : pc[t] = "print") => UNCHANGED tableVars)
  <1> SUFFICES ASSUME IInv, NEW t \in Threads, Receive(t) \/ Step(t),
                      NEW v \in Threads, pc[v] = "print", ~UNCHANGED tableVars
               PROVE  FALSE
    BY DEF Next, vars
  <1>1. pc[t] \in {"probe", "addEntry", "remove", "resetEntry"}
    BY StepFrame DEF IInv, AllocateInode, CreateAddEntry, DeleteRemove,
       MoveAddEntry, MoveResetEntry
  <1>2. /\ Typed /\ LInv /\ LocksOK(t) /\ LocksOK(v) /\ OpOK(t) /\ Writes(t)
        /\ PathOK(t) /\ FS_ROOT \in Inodes
    BY TableAssumption DEF IInv, LInv, PInv, Typed, ControlOK, WritesLocked,
       FS_ROOT, Inodes
  <1>3. writer[FS_ROOT] = v /\ v # t /\ None \notin Threads
    BY <1>1, <1>2, ThreadsAssumption DEF LocksOK
  <1>4. OnPath(t)
    BY <1>1, <1>2 DEF PathOK, Running, LocksOK, Parented
  <1>5. PICK n, path : n = Depth(t) /\ path = Target(t)
    OBVIOUS
  <1>6. PICK w : /\ Walk(w, path, n) /\ w[n] = cur[t]
                 /\ \A k \in 0..n-1 : w[k] \in held[t]
    BY <1>4, <1>5 DEF OnPath
  <1>7. n \in Nat /\ w[0] = FS_ROOT
    BY <1>4, <1>5, <1>6 DEF OnPath, Walk
  <1>8. CASE n = 0
    BY <1>1, <1>2, <1>3, <1>6, <1>7, <1>8 DEF Writes
  <1>9. CASE n # 0
    <2>1. 0 \in 0..n-1
      BY <1>7, <1>9
    <2>2. FS_ROOT \in held[t]
      BY <1>6, <1>7, <2>1
    <2>3. FS_ROOT \in Marked(t)
      BY <1>1, <2>2 DEF Marked
    <2> QED
      BY <1>2, <1>3, <2>3, MarkedExcludes DEF LInv
  <1> QED
    BY <1>8, <1>9

-----------------------------------------------------------------------------
\* The first path of a move.

\* No move takes away a node that is above the parent of what another moves: no
\* name before the last two of a first path is the last name of one.
MovesSettled ==
    \A r, q \in Requests : r.op = "move" /\ q.op = "move" =>
        \A k \in 1..Len(r.path)-2 : r.path[k] # NameOf(q.path)

\* w is the way along a path: each of its nodes has the entry of the next.
Way(w, path) == /\ w \in [0..Len(path) -> Inodes] /\ w[0] = FS_ROOT
                /\ \A k \in 1..Len(path) : HasEntry(w[k-1], path[k], w[k])

\* The move that t runs has found what it moves, and locked it.
Bound(t) == stage[t] \in {"path2", "recover"} /\ pc[t] # "unlock"

\* The way along its first path passes its first directory and ends at its child.
FirstWay(w, path, p, c) ==
    /\ path # << >> /\ Way(w, path)
    /\ w[Len(path)-1] = p /\ w[Len(path)] = c
FirstKept(t) ==
    Bound(t) => \E w : FirstWay(w, req[t].path, parent1[t], child[t])

NamesGiven == \A d \in Inodes, s \in Slots :
    dirEntries[d][s].inumber # FREE_INODE => dirEntries[d][s].name # NoName

FInv == NamesGiven /\ \A t \in Threads : FirstKept(t)

\* A way ends where Resolve says.
LEMMA WayResolves ==
  ASSUME Typed, TreeOK, NEW path \in Seq(Names), NEW w, Way(w, path)
  PROVE  Resolve(path) = w[Len(path)]
  <1>1. ASSUME NEW k \in 1..Len(path)
        PROVE  w[k] = lookup_sub_node(path[k], w[k-1])
    <2>1. k \in 0..Len(path) /\ k - 1 \in 0..Len(path)
      OBVIOUS
    <2>2. PICK d, c, name : d = w[k-1] /\ c = w[k] /\ name = path[k]
      OBVIOUS
    <2>3. d \in Inodes /\ c \in Inodes /\ HasEntry(d, name, c)
      BY <2>1, <2>2 DEF Way
    <2>4. dirEntries \in [Inodes -> [Slots -> Entry]] /\ FREE_INODE \notin Inodes
      BY DEF Typed, TypeOK, TableTypeOK, FREE_INODE, Inodes
    <2>5. PICK s \in Slots : dirEntries[d][s].inumber = c /\ dirEntries[d][s].name = name
      BY <2>3 DEF HasEntry
    <2>6. lookup_sub_node(name, d) # FAIL
      BY <2>3, <2>4, <2>5, SubNodeFound
    <2>7. PICK r \in Slots : /\ dirEntries[d][r].inumber = lookup_sub_node(name, d)
                             /\ dirEntries[d][r].inumber # FREE_INODE
                             /\ dirEntries[d][r].name = name
      BY <2>3, <2>4, <2>6, SubNodeFound
    <2>8. s = r
      BY <2>3, <2>4, <2>5, <2>7 DEF TreeOK, NamesUnique
    <2> QED
      BY <2>2, <2>5, <2>7, <2>8
  <1> QED
    BY <1>1, FollowResolves DEF Way

\* While a move is bound, no step removes an entry on the way to its child, but
\* for the last of its own.
LEMMA WayKept ==
  ASSUME IInv, MovesSettled, NEW t \in Threads, Bound(t),
         NEW u \in Threads, Receive(u) \/ Step(u), u # t \/ pc[u] # "resetEntry",
         NEW path, path = req[t].path,
         NEW w, FirstWay(w, path, parent1[t], child[t])
  PROVE  Way(w, path)'
  <1> SUFFICES ASSUME NEW k \in 1..Len(path) PROVE HasEntry(w[k-1], path[k], w[k])'
    BY DEF FirstWay, Way
  <1>1. /\ Typed /\ LInv /\ TreeOK /\ Found(t) /\ OpOK(t) /\ Writes(t) /\ LocksOK(t)
        /\ Found(u) /\ OpOK(u) /\ LocksOK(u) /\ FREE_INODE \notin Inodes
        /\ req[t] \in Requests /\ req[t].op = "move" /\ path \in Seq(Names)
    <2>1. /\ Typed /\ LInv /\ TreeOK /\ Found(t) /\ OpOK(t) /\ Writes(t) /\ LocksOK(t)
          /\ Found(u) /\ OpOK(u) /\ LocksOK(u)
      BY DEF IInv, TInv, LInv, Typed, ControlOK, WritesLocked
    <2>2. req[t] \in Requests \cup {NoRequest} /\ req[t].op = "move"
      BY <2>1 DEF Typed, TypeOK, OpOK, Bound
    <2>3. req[t] \in Requests /\ path \in Seq(Names)
      BY <2>2, RequestType DEF NoRequest
    <2> QED
      BY <2>1, <2>2, <2>3 DEF FREE_INODE, Inodes
  <1>2. PICK n \in Nat : n = Len(path) /\ n # 0
    BY <1>1 DEF FirstWay
  <1>3. /\ k \in 1..n /\ k - 1 \in 0..n /\ k \in 0..n
        /\ k = n \/ k = n - 1 \/ k < n - 1
    BY <1>2
  <1>4. PICK d, c, name : d = w[k-1] /\ c = w[k] /\ name = path[k]
    OBVIOUS
  <1>5. d \in Inodes /\ c \in Inodes /\ HasEntry(d, name, c)
    BY <1>2, <1>3, <1>4 DEF FirstWay, Way
  <1>6. PICK s \in Slots : dirEntries[d][s].inumber = c /\ dirEntries[d][s].name = name
    BY <1>5 DEF HasEntry
  <1>7. ASSUME pc[u] \in {"remove", "resetEntry"}, child[u] = c,
               pc[u] = "remove" => Deletable(u),
               pc[u] = "resetEntry" => d = parent1[u]
        PROVE  FALSE
    <2>1. writer[c] = u
      BY <1>1, <1>7 DEF LocksOK, ChildBound
    <2>2. pc[u] = "remove" => req[u].op = "delete"
      BY <1>1 DEF Found, FoundAt
    <2>3. CASE k = n
      <3>1. writer[c] = t
        BY <1>1, <1>2, <1>4, <2>3 DEF LocksOK, ChildBound, Bound, FirstWay
      <3> QED
        BY <1>1, <1>7, <2>1, <2>2, <3>1
    <2>4. CASE k = n - 1
      <3>1. c = parent1[t]
        BY <1>2, <1>4, <2>4 DEF FirstWay
      <3>2. u = t
        BY <1>1, <2>1, <3>1 DEF Writes, Bound
      <3>3. parent1[t] \in held[t] /\ child[t] \notin held[t]
        BY <1>1 DEF LocksOK, ChildBound, Bound
      <3> QED
        BY <1>7, <3>1, <3>2, <3>3
    <2>5. CASE k < n - 1 /\ pc[u] = "remove"
      <3>1. k + 1 \in 1..n /\ (k + 1) - 1 = k /\ k + 1 \in 0..n
        <4>1. k < n - 1
          BY <2>5
        <4> QED
          BY <1>2, <1>3, <4>1
      <3>2. HasEntry(c, path[k+1], w[k+1]) /\ w[k+1] \in Inodes
        BY <1>2, <1>4, <3>1 DEF FirstWay, Way
      <3>3. PICK r \in Slots : dirEntries[c][r].inumber \in Inodes
        BY <3>2 DEF HasEntry
      <3>4. nodeType[c] = "T_DIRECTORY"
        BY <1>1, <1>5, <3>3 DEF TreeOK, EntriesOK
      <3> QED
        BY <1>1, <1>7, <2>5, <3>3, <3>4 DEF Deletable, IsDir, is_dir_empty
    <2>6. CASE k < n - 1 /\ pc[u] = "resetEntry"
      <3>1. req[u] \in Requests \cup {NoRequest} /\ req[u].op = "move"
        BY <1>1, <2>6 DEF Typed, TypeOK, OpOK
      <3>2. req[u] \in Requests
        BY <3>1 DEF NoRequest
      <3>3. HasEntry(d, NameOf(req[u].path), c)
        BY <1>1, <1>7, <2>6, <3>1 DEF Found, FoundAt, OpOK
      <3>4. PICK r \in Slots : /\ dirEntries[d][r].inumber = c
                               /\ dirEntries[d][r].name = NameOf(req[u].path)
        BY <3>3 DEF HasEntry
      <3>5. r = s
        BY <1>1, <1>5, <1>6, <3>4 DEF TreeOK, ReferencesUnique
      <3>6. k \in 1..Len(path)-2
        <4>1. k < n - 1
          BY <2>6
        <4> QED
          BY <1>2, <1>3, <4>1
      <3>7. path[k] # NameOf(req[u].path)
        BY <1>1, <3>1, <3>2, <3>6 DEF MovesSettled
      <3> QED
        BY <1>4, <1>6, <3>4, <3>5, <3>7
    <2>7. pc[u] = "remove" \/ pc[u] = "resetEntry"
      BY <1>7
    <2> QED
      BY <1>3, <2>3, <2>4, <2>5, <2>6, <2>7
  <1>8. EntryMove(u, d, s)
    BY <1>1, <1>5, TableMoves
  <1>9. dirEntries'[d][s] = dirEntries[d][s]
    BY <1>1, <1>5, <1>6, <1>7, <1>8 DEF EntryMove
  <1>10. HasEntry(d, name, c)'
    BY <1>6, <1>9 DEF HasEntry
  <1> QED
    BY <1>4, <1>10

\* When a move locks what it moves, the way is the one it has followed.
LEMMA WayFound ==
  ASSUME IInv, FInv, NEW t \in Threads, LockChild(t), req[t].op = "move",
         NEW path, path = req[t].path
  PROVE  \E w : FirstWay(w, path, parent1[t], child[t])
  <1>1. /\ Typed /\ TreeOK /\ Found(t) /\ OpOK(t) /\ PathOK(t) /\ LocksOK(t)
        /\ pc[t] = "lockChild" /\ path \in Seq(Names)
    <2>1. /\ Typed /\ TreeOK /\ Found(t) /\ OpOK(t) /\ PathOK(t) /\ LocksOK(t)
      BY DEF IInv, TInv, LInv, PInv, Typed, ControlOK
    <2>2. req[t] \in Requests \cup {NoRequest}
      BY <2>1 DEF Typed, TypeOK
    <2> QED
      BY <2>1, <2>2, RequestType DEF LockChild
  <1>2. /\ parent1[t] = cur[t] /\ cur[t] \in Inodes /\ child[t] \in Inodes
        /\ HasEntry(cur[t], NameOf(path), child[t])
    BY <1>1 DEF OpOK, Found, FoundAt, Typed, TypeOK
  <1>3. path # << >>
    <2>1. PICK s \in Slots : /\ dirEntries[cur[t]][s].inumber = child[t]
                             /\ dirEntries[cur[t]][s].name = NameOf(path)
      BY <1>2 DEF HasEntry
    <2>2. child[t] # FREE_INODE
      BY <1>2 DEF FREE_INODE, Inodes
    <2>3. NameOf(path) # NoName
      BY <1>2, <2>1, <2>2 DEF FInv, NamesGiven
    <2> QED
      BY <2>3 DEF NameOf
  <1>4. PICK n \in Nat : /\ n + 1 = Len(path) /\ Len(path) - 1 = n
                        /\ Len(ParentOf(path)) = n
                        /\ \A k \in 1..n : ParentOf(path)[k] = path[k]
    <2>1. Len(path) \in Nat \ {0}
      BY <1>1, <1>3
    <2>2. /\ Len(path) - 1 \in Nat
          /\ \A k \in 1..Len(path)-1 : path[k] \in Names
      BY <1>1, <2>1
    <2>3. /\ Len(ParentOf(path)) = Len(path) - 1
          /\ \A k \in 1..Len(path)-1 : ParentOf(path)[k] = path[k]
      BY <2>1, <2>2, SubSeqProperties DEF ParentOf
    <2> QED
      BY <2>1, <2>2, <2>3
  <1>5. PICK v : Walk(v, ParentOf(path), n) /\ v[n] = cur[t]
    <2>1. OnPath(t) /\ rest[t] = << >>
      BY <1>1 DEF PathOK, Running, OpOK
    <2>2. Target(t) = ParentOf(path)
      BY <1>1 DEF Target, OpOK
    <2>3. Depth(t) = n
      BY <1>4, <2>1, <2>2 DEF Depth
    <2> QED
      BY <2>1, <2>2, <2>3 DEF OnPath
  <1> DEFINE w == [k \in 0..n+1 |-> IF k = n + 1 THEN child[t] ELSE v[k]]
  <1>6. /\ w \in [0..n+1 -> Inodes] /\ w[0] = FS_ROOT
        /\ w[n] = cur[t] /\ w[n+1] = child[t]
    <2>1. v \in [0..n -> Inodes] /\ v[0] = FS_ROOT
      BY <1>5 DEF Walk
    <2>2. 0 # n + 1 /\ n # n + 1 /\ 0 \in 0..n+1 /\ n \in 0..n+1 /\ n + 1 \in 0..n+1
          /\ \A k \in 0..n+1 : k # n + 1 => k \in 0..n
      BY <1>4
    <2> QED
      BY <1>2, <1>5, <2>1, <2>2
  <1>7. ASSUME NEW k \in 1..n+1 PROVE HasEntry(w[k-1], path[k], w[k])
    <2>1. CASE k = n + 1
      <3>1. path[k] = NameOf(path) /\ k - 1 = n
        BY <1>3, <1>4, <2>1 DEF NameOf
      <3> HIDE DEF w
      <3> QED
        BY <1>2, <1>6, <2>1, <3>1
    <2>2. CASE k # n + 1
      <3>1. k \in 1..n /\ k - 1 \in 0..n /\ k \in 0..n
        BY <1>4, <2>2
      <3>2. w[k] = v[k] /\ w[k-1] = v[k-1]
        BY <1>4, <2>2, <3>1
      <3>3. PICK d, c, name : d = v[k-1] /\ c = v[k] /\ name = path[k]
        OBVIOUS
      <3>4. d \in Inodes /\ c \in Inodes /\ c = lookup_sub_node(name, d)
        BY <1>4, <1>5, <3>1, <3>3 DEF Walk
      <3>5. c # FAIL
        BY <3>4 DEF FAIL, Inodes
      <3>6. HasEntry(d, name, c)
        BY <1>1, <3>4, <3>5, NamedEntry
      <3> QED
        BY <3>2, <3>3, <3>6
    <2> QED
      BY <2>1, <2>2
  <1> HIDE DEF w
  <1>8. FirstWay(w, path, parent1[t], child[t])
    BY <1>2, <1>3, <1>4, <1>6, <1>7 DEF FirstWay, Way
  <1> QED
    BY <1>8

\* A move that is bound after a step was bound before it, or has just locked its
\* child; what it has found does not change, nor is it the one to remove it.
LEMMA BoundFrame ==
  ASSUME IInv, NEW t \in Threads, NEW u \in Threads, Receive(u) \/ Step(u),
         Bound(t)'
  PROVE  /\ UNCHANGED <<req[t], parent1[t], child[t]>>
         /\ \/ Bound(t) /\ (u # t \/ pc[u] # "resetEntry")
            \/ u = t /\ LockChild(t) /\ req[t].op = "move" /\ UNCHANGED tableVars
  <1>1. /\ Typed /\ OpOK(u) /\ OnlyThread(u)
        /\ pc \in [Threads -> Labels] /\ stage \in [Threads -> Stages]
        /\ req \in [Threads -> Requests \cup {NoRequest}]
        /\ child \in [Threads -> Inodes \cup {FREE_INODE}]
    BY StepFrame DEF IInv, Typed, TypeOK, ControlOK, ControlTypes, LeavesOthers
  <1>2. CASE u # t
    BY <1>1, <1>2 DEF OnlyThread, Bound
  <1>3. CASE u = t /\ Receive(t)
    <2>1. stage[t] = "none" /\ stage'[t] \in {"none", "target", "first", "path1"}
      BY <1>1, <1>3 DEF Receive, StartLookup, Goto, OpOK
    <2> QED
      BY <2>1 DEF Bound
  <1>4. CASE u = t /\ LockChild(t)
    <2>1. req[t].op = "move"
      BY <1>1, <1>4 DEF LockChild, OpOK, Bound
    <2> QED
      BY <1>4, <2>1 DEF LockChild, tableVars
  <1>5. CASE u = t /\ (LookupDown(t) \/ LookupMissing(t) \/ LookupFound(t))
    BY <1>1, <1>5 DEF LookupDown, LookupMissing, LookupFound, StartLookup, Return,
       Goto, Acquire, OpOK, Bound
  <1>8. CASE u = t /\ (LookupSelfDeadlock(t) \/ Upgrade(t))
    BY <1>1, <1>8 DEF LookupSelfDeadlock, Upgrade, Goto, threadVars, OpOK, Bound
  <1>9. CASE u = t /\ TryFails(t)
    BY <1>1, <1>9 DEF TryFails, StartLookup, Goto, Bound
  <1>10. CASE u = t /\ TryFails2(t)
    BY <1>1, <1>10 DEF TryFails2, Bound
  <1>6. CASE u = t /\ (CreateTry(t) \/ DeleteTry(t) \/ MoveTry1(t) \/ MoveTry2(t)
                        \/ SkipInode(t) \/ LockInode(t) \/ InodeInUse(t)
                        \/ AllocateInode(t) \/ NoInode(t))
    BY <1>1, <1>6 DEF CreateTry, DeleteTry, MoveTry1, MoveTry2, Try, SkipInode,
       LockInode, InodeInUse, AllocateInode, NoInode, Return, Goto, OpOK, Bound
  <1>7. CASE u = t /\ (CreateAddEntry(t) \/ DeleteRemove(t) \/ MoveAddEntry(t)
                        \/ MoveResetEntry(t) \/ PrintOpen(t) \/ PrintLock(t)
                        \/ PrintUnlock(t) \/ Unlock(t))
    BY <1>1, <1>7 DEF CreateAddEntry, DeleteRemove, MoveAddEntry, MoveResetEntry,
       PrintOpen, PrintLock, PrintUnlock, Unlock, Return, Goto, OpOK, Bound
  <1> QED
    BY <1>2, <1>3, <1>4, <1>5, <1>6, <1>7, <1>8, <1>9, <1>10
       DEF Step

\* Every step keeps the names of the entries and the ways of the moves.
LEMMA NextFInv == IInv /\ FInv /\ MovesSettled /\ [Next]_vars => FInv'
  <1> SUFFICES ASSUME IInv, FInv, MovesSettled, [Next]_vars PROVE FInv'
    OBVIOUS
  <1>1. ASSUME NEW u \in Threads, Receive(u) \/ Step(u) PROVE FInv'
    <2>1. NamesGiven'
      <3> SUFFICES ASSUME NEW d \in Inodes, NEW s \in Slots,
                          dirEntries'[d][s].inumber # FREE_INODE
                   PROVE  dirEntries'[d][s].name # NoName
        BY DEF NamesGiven
      <3>1. EntryMove(u, d, s)
        BY <1>1, TableMoves DEF IInv, TInv
      <3> QED
        BY <3>1 DEF FInv, NamesGiven, EntryMove
    <2>2. ASSUME NEW t \in Threads PROVE FirstKept(t)'
      <3> SUFFICES ASSUME Bound(t)'
                   PROVE  \E w : FirstWay(w, req[t].path, parent1[t], child[t])'
        BY DEF FirstKept
      <3>1. PICK r, p, c : r = req[t] /\ p = parent1[t] /\ c = child[t]
        OBVIOUS
      <3>2. /\ r = req'[t] /\ p = parent1'[t] /\ c = child'[t]
            /\ \/ Bound(t) /\ (u # t \/ pc[u] # "resetEntry")
               \/ u = t /\ LockChild(t) /\ req[t].op = "move" /\ UNCHANGED tableVars
        BY <1>1, <3>1, BoundFrame
      <3>3. PICK path : path = r.path
        OBVIOUS
      <3>4. \E w : FirstWay(w, path, p, c) /\ Way(w, path)'
        <4>1. CASE Bound(t) /\ (u # t \/ pc[u] # "resetEntry")
          <5>1. PICK w : FirstWay(w, path, p, c)
            BY <3>1, <3>3, <4>1 DEF FInv, FirstKept
          <5>2. Way(w, path)'
            BY <1>1, <3>1, <3>3, <4>1, <5>1, WayKept
          <5> QED
            BY <5>1, <5>2
        <4>2. CASE u = t /\ LockChild(t) /\ req[t].op = "move" /\ UNCHANGED tableVars
          <5>1. PICK w : FirstWay(w, path, p, c)
            BY <3>1, <3>3, <4>2, WayFound
          <5>2. Way(w, path)'
            BY <4>2, <5>1 DEF FirstWay, Way, HasEntry, tableVars
          <5> QED
            BY <5>1, <5>2
        <4> QED
          BY <3>2, <4>1, <4>2
      <3>5. PICK w : FirstWay(w, path, p, c) /\ Way(w, path)'
        BY <3>4
      <3>6. FirstWay(w, path, p, c)'
        BY <3>5 DEF FirstWay
      <3> QED
        BY <3>2, <3>3, <3>6
    <2> QED
      BY <2>1, <2>2 DEF FInv
  <1>2. CASE UNCHANGED vars
    BY <1>2 DEF vars, threadVars, tableVars, FInv, NamesGiven, FirstKept, Bound,
       FirstWay, Way, HasEntry
  <1> QED
    BY <1>1, <1>2 DEF Next

\* In the initial states no move has begun, and all entries have names.
LEMMA InitFInv == Init => FInv
  <1> SUFFICES ASSUME Init PROVE FInv
    OBVIOUS
  <1>1. \A t \in Threads : FirstKept(t)
    BY DEF Init, FirstKept, Bound
  <1>2. PICK T \in Tables : nodeType = T[1] /\ dirEntries = T[2]
    BY DEF Init
  <1> DEFINE entry(r) == dirEntries[r[1]][r[2]]
             used == {r \in Inodes \X Slots : entry(r).inumber # FREE_INODE}
  <1>3. \A r \in used : entry(r).name # NoName
    BY <1>2, TreesAssumption
  <1>4. ASSUME NEW d \in Inodes, NEW s \in Slots, dirEntries[d][s].inumber # FREE_INODE
        PROVE  dirEntries[d][s].name # NoName
    <2>1. <<d, s>> \in used /\ entry(<<d, s>>) = dirEntries[d][s]
      BY <1>4
    <2> HIDE DEF entry, used
    <2> QED
      BY <1>3, <2>1
  <1> QED
    BY <1>1, <1>4 DEF FInv, NamesGiven

\* So the first path of a bound move leads to its child.
LEMMA FirstPathLeads == IInv /\ FInv => FirstPathHolds
  <1> SUFFICES ASSUME IInv, FInv, NEW t \in Threads, Bound(t)
               PROVE  Resolve(req[t].path) = child[t]
    BY DEF FirstPathHolds, Bound
  <1>1. Typed /\ TreeOK /\ OpOK(t)
    BY DEF IInv, TInv, Typed, ControlOK
  <1>2. req[t] \in Requests \cup {NoRequest} /\ req[t].op = "move"
    BY <1>1 DEF Typed, TypeOK, OpOK, Bound
  <1>3. PICK path \in Seq(Names) : path = req[t].path
    BY <1>2, RequestType
  <1>4. PICK w : FirstWay(w, path, parent1[t], child[t])
    BY <1>3 DEF FInv, FirstKept
  <1>5. Resolve(path) = w[Len(path)]
    BY <1>1, <1>4, WayResolves DEF FirstWay
  <1> QED
    BY <1>3, <1>4, <1>5 DEF FirstWay

-----------------------------------------------------------------------------
\* The theorems.

LEMMA Invariant == Spec /\ []DistinctParents => []IInv
  BY InitIInv, NextIInv, PTL DEF Spec

\* Each lock is held by the threads whose arrays say so, and a path followed under
\* locks still leads where the thread is, in every behaviour in which no move
\* comes to hold one directory in both its roles.
THEOREM LocksAndPathsHold == Spec /\ []DistinctParents => []LocksAndPaths
  <1>1. IInv => LocksAndPaths
    BY PathsLead DEF LocksAndPaths, IInv, LInv
  <1> QED
    BY <1>1, Invariant, PTL

\* In these behaviours the table is a tree.
THEOREM TreeHolds == Spec /\ []DistinctParents => []TreeShape
  BY Invariant, TreeHasShape, PTL

\* And print, which locks the root only, sees one tree.
THEOREM PrintHolds == Spec /\ []DistinctParents => PrintSeesOneTree
  BY Invariant, PrintExcludes, PTL DEF Spec, PrintSeesOneTree

\* No move comes to hold one directory in both its roles if the names of the two
\* parent directories differ in each move that clients ask for.
THEOREM ParentsDistinct == ASSUME MovesApart PROVE Spec => []DistinctParents
  <1>1. IInv => DistinctParents
    BY ApartDistinct
  <1>2. IInv /\ [Next]_vars => IInv'
    BY <1>1, NextIInv
  <1> QED
    BY <1>1, <1>2, InitIInv, PTL DEF Spec

\* Then all of these hold of every behaviour.
THEOREM ApartSafe ==
  ASSUME MovesApart
  PROVE  Spec => /\ []LocksAndPaths /\ []TreeShape
                 /\ PrintSeesOneTree /\ ChangesAreLocked
  BY ParentsDistinct, LocksAndPathsHold, TreeHolds, PrintHolds, ChangesLocked, PTL

\* And from the lock on its child on, the first path of a move leads there to the
\* end, if no move is of a directory above the parent of what another moves.
THEOREM FirstPathKept ==
  ASSUME MovesApart, MovesSettled
  PROVE  Spec => []FirstPathHolds
  <1>1. IInv => DistinctParents
    BY ApartDistinct
  <1>2. IInv /\ FInv /\ [Next]_vars => (IInv /\ FInv)'
    BY <1>1, NextIInv, NextFInv
  <1>3. Init => IInv /\ FInv
    BY InitIInv, InitFInv
  <1>4. IInv /\ FInv => FirstPathHolds
    BY FirstPathLeads
  <1> QED
    BY <1>2, <1>3, <1>4, PTL DEF Spec

-----------------------------------------------------------------------------
\* Without moves, no deadlock.  A thread has locked nodes on its path only, and
\* waits for one below them: whoever it waits for waits for one deeper still.

NoMoves == \A r \in Requests : r.op # "move"

\* A node on the path that t follows, through nodes that t holds.
OnTarget(t, x) ==
    \E j \in 0..Len(Target(t)) : \E w :
        /\ Walk(w, Target(t), j) /\ w[j] = x
        /\ \A k \in 0..j-1 : w[k] \in held[t]

HeldOK(t) == Running(t) => \A x \in held[t] : OnTarget(t, x)
HInv == \A t \in Threads : HeldOK(t)

\* Without moves, a thread is in none of the stages of a move.
LEMMA NoMoveStages ==
  ASSUME Typed, NoMoves, NEW t \in Threads
  PROVE  /\ stage[t] \in {"none", "target", "first", "path1"}
         /\ req[t].op # "move" /\ pc[t] # "resetEntry"
  <1>1. req[t] \in Requests \cup {NoRequest} /\ OpOK(t) /\ stage[t] \in Stages
    BY DEF Typed, TypeOK, ControlOK, ControlTypes
  <1>2. req[t].op # "move"
    BY <1>1 DEF NoMoves, NoRequest
  <1> QED
    BY <1>1, <1>2 DEF OpOK, Stages

\* Two walks along one path go through the same nodes.
LEMMA SameWalk ==
  ASSUME NEW path, NEW n \in Nat, NEW m \in Nat, n <= m,
         NEW w, Walk(w, path, n), NEW v, Walk(v, path, m)
  PROVE  \A k \in 0..n : w[k] = v[k]
  <1> DEFINE bad == {k \in 0..n : w[k] # v[k]}
  <1> SUFFICES ASSUME bad # {} PROVE FALSE
    OBVIOUS
  <1>1. PICK k \in bad : \A j \in bad : k <= j
    BY LeastMember
  <1>2. w[0] = FS_ROOT /\ v[0] = FS_ROOT
    BY DEF Walk
  <1>3. CASE k = 0
    BY <1>1, <1>2, <1>3
  <1>4. CASE k # 0
    <2>1. k - 1 \in 0..n /\ ~(k <= k - 1) /\ k \in 1..n /\ k \in 1..m
      BY <1>4
    <2>2. w[k-1] = v[k-1]
      BY <1>1, <2>1
    <2>3. w[k] = lookup_sub_node(path[k], w[k-1]) /\ v[k] = lookup_sub_node(path[k], v[k-1])
      BY <2>1 DEF Walk
    <2> QED
      BY <2>2, <2>3
  <1> QED
    BY <1>3, <1>4

\* A node on the path stays there if the nodes that the thread holds do, but for
\* the one at the end of the path.
LEMMA OnTargetFrame ==
  ASSUME Typed, NEW u \in Threads, NEW x, OnTarget(u, x), OnPath(u),
         Target(u)' = Target(u), held[u] \subseteq held'[u],
         \A d \in held[u] : dirEntries'[d] = dirEntries[d]
                              \/ (d = cur[u] /\ rest[u] = << >>)
  PROVE  OnTarget(u, x)'
  <1>1. PICK path, n : path = Target(u) /\ n = Depth(u)
    OBVIOUS
  <1>0. PICK j \in 0..Len(path) : \E w : /\ Walk(w, path, j) /\ w[j] = x
                                         /\ \A k \in 0..j-1 : w[k] \in held[u]
    BY <1>1 DEF OnTarget
  <1>2. PICK w : /\ Walk(w, path, j) /\ w[j] = x
                 /\ \A k \in 0..j-1 : w[k] \in held[u]
    BY <1>0
  <1>3. /\ path \in Seq(Names) /\ n \in Nat
        /\ rest[u] = << >> => n = Len(path)
    <2>1. rest[u] = << >> => Len(rest[u]) = 0
      OBVIOUS
    <2>2. Len(path) \in Nat /\ n = Len(path) - Len(rest[u])
      BY <1>1 DEF OnPath, Depth
    <2> QED
      BY <1>1, <2>1, <2>2 DEF OnPath
  <1>4. PICK v : Walk(v, path, n) /\ v[n] = cur[u]
    BY <1>1 DEF OnPath
  <1>5. ASSUME NEW k \in 1..j
        PROVE  lookup_sub_node(path[k], w[k-1])' = lookup_sub_node(path[k], w[k-1])
    <2>1. k - 1 \in 0..j-1 /\ k - 1 \in 0..j
      OBVIOUS
    <2>2. w[k-1] \in held[u] /\ w[k-1] \in Inodes
      BY <1>2, <2>1 DEF Walk
    <2>3. ~ (w[k-1] = cur[u] /\ rest[u] = << >>)
      <3> SUFFICES ASSUME w[k-1] = cur[u], rest[u] = << >> PROVE FALSE
        OBVIOUS
      <3>1. n = Len(path) /\ j \in Nat /\ j <= n /\ k - 1 \in 0..n /\ n \in 0..n /\ k - 1 # n
        BY <1>3
      <3>2. w[k-1] = v[k-1]
        BY <1>2, <1>3, <1>4, <2>1, <3>1, SameWalk
      <3> QED
        BY <1>4, <3>1, <3>2 DEF Walk
    <2> QED
      BY <2>2, <2>3, SubNodeSame
  <1>6. Walk(w, path, j)'
    BY <1>2, <1>5 DEF Walk
  <1>7. \A k \in 0..j-1 : w[k] \in held'[u]
    BY <1>2
  <1> QED
    BY <1>1, <1>2, <1>6, <1>7 DEF OnTarget

LEMMA HeldStep ==
  ASSUME Typed, Typed', WritesLocked, LInv, PInv, HInv, NoMoves,
         NEW t \in Threads, Receive(t) \/ Step(t)
  PROVE  HeldOK(t)'
  <1>1. /\ pc \in [Threads -> Labels] /\ stage \in [Threads -> Stages]
        /\ req \in [Threads -> Requests \cup {NoRequest}]
        /\ held \in [Threads -> SUBSET Inodes] /\ cur \in [Threads -> Inodes]
        /\ dirEntries \in [Inodes -> [Slots -> Entry]]
    BY DEF Typed, TypeOK, TableTypeOK, ControlOK, ControlTypes
  <1>2. /\ OpOK(t) /\ LocksOK(t) /\ PathOK(t) /\ HeldOK(t)
        /\ stage[t] \in {"none", "target", "first", "path1"} /\ req[t].op # "move"
    BY NoMoveStages DEF Typed, ControlOK, LInv, PInv, HInv
  <1>3. ASSUME held'[t] = {} PROVE HeldOK(t)'
    BY <1>3 DEF HeldOK
  <1>4. ASSUME pc'[t] = "unlock" \/ stage'[t] = "none" PROVE HeldOK(t)'
    BY <1>4 DEF HeldOK, Running
  <1>5. ASSUME Running(t), Target(t)' = Target(t), held[t] \subseteq held'[t],
               \A x \in held'[t] : x \in held[t] \/ x = cur[t],
               \A d \in held[t] : dirEntries'[d] = dirEntries[d]
        PROVE  HeldOK(t)'
    <2>0. OnPath(t)
      BY <1>2, <1>5 DEF PathOK
    <2>1. ASSUME NEW x \in held[t] PROVE OnTarget(t, x)'
      <3>1. OnTarget(t, x)
        BY <1>2, <1>5 DEF HeldOK
      <3> QED
        BY <1>5, <2>0, <3>1, OnTargetFrame
    <2>2. OnTarget(t, cur[t])
      <3>1. OnPath(t)
        BY <2>0
      <3>2. PICK n, path : n = Depth(t) /\ path = Target(t)
        OBVIOUS
      <3>3. PICK w : /\ Walk(w, path, n) /\ w[n] = cur[t]
                     /\ \A k \in 0..n-1 : w[k] \in held[t]
        BY <3>1, <3>2 DEF OnPath
      <3>4. n \in 0..Len(path)
        <4>1. path \in Seq(Names) /\ n \in Nat /\ n = Len(path) - Len(rest[t])
          BY <3>1, <3>2 DEF OnPath, Depth
        <4>2. Len(path) \in Nat /\ Len(rest[t]) \in Nat
          BY <4>1 DEF Typed, TypeOK
        <4> QED
          BY <4>1, <4>2
      <3> QED
        BY <3>2, <3>3, <3>4 DEF OnTarget
    <2>3. PICK c : c = cur[t]
      OBVIOUS
    <2>4. OnTarget(t, c)'
      BY <1>5, <2>0, <2>2, <2>3, OnTargetFrame
    <2>5. \A x \in held'[t] : OnTarget(t, x)'
      BY <1>5, <2>1, <2>3, <2>4
    <2> QED
      BY <2>5 DEF HeldOK
  <1>6. CASE Receive(t)
    <2>1. held'[t] = {}
      BY <1>1, <1>2, <1>6 DEF Receive, OpOK, LocksOK
    <2> QED
      BY <1>3, <2>1
  <1>7. CASE LookupDown(t) \/ LookupMissing(t) \/ LookupFound(t)
    <2>1. /\ UNCHANGED <<tableVars, req>> /\ pc[t] = "lookup" /\ Running(t)
          /\ held[t] \subseteq held'[t]
          /\ \A x \in held'[t] : x \in held[t] \/ x = cur[t]
      BY <1>1, <1>2, <1>7 DEF LookupDown, LookupMissing, LookupFound, Acquire,
         Running, OpOK
    <2>2. \/ pc'[t] = "unlock"
          \/ stage'[t] = stage[t]
          \/ stage[t] = "first" /\ stage'[t] = "path1"
      BY <1>1, <1>2, <1>7 DEF LookupDown, LookupMissing, LookupFound, StartLookup,
         Goto, Return
    <2>3. pc'[t] # "unlock" => Target(t)' = Target(t)
      BY <2>1, <2>2 DEF Target, ParentOf
    <2>4. \A d \in held[t] : dirEntries'[d] = dirEntries[d]
      BY <2>1 DEF tableVars
    <2> QED
      BY <1>4, <1>5, <2>1, <2>3, <2>4
  <1>8. CASE TryFails(t)
    BY <1>1, <1>3, <1>8 DEF TryFails
  <1>9. ASSUME pc[t] \in Parented, UNCHANGED <<stage, req, held>>,
               \A d \in held[t] : dirEntries'[d] = dirEntries[d]
        PROVE  HeldOK(t)'
    <2>1. Running(t)
      BY <1>2, <1>9 DEF Parented, Running, LocksOK
    <2>2. Target(t)' = Target(t)
      BY <1>9 DEF Target, ParentOf
    <2> QED
      BY <1>5, <1>9, <2>1, <2>2
  <1>10. CASE \/ Upgrade(t) \/ CreateTry(t) \/ DeleteTry(t)
              \/ SkipInode(t) \/ LockInode(t) \/ InodeInUse(t)
    BY <1>9, <1>10 DEF Upgrade, CreateTry, DeleteTry, Try, SkipInode, LockInode,
       InodeInUse, tableVars, Parented
  <1>11. CASE LockChild(t)
    <2>1. req[t].op \in {"create", "delete"}
      BY <1>2, <1>11 DEF LockChild, OpOK
    <2> QED
      BY <1>9, <1>11, <2>1 DEF LockChild, tableVars, Parented
  <1>12. CASE AllocateInode(t)
    <2>1. index[t] \notin held[t]
      BY <1>2, <1>12 DEF AllocateInode, LocksOK
    <2>2. \A d \in held[t] : dirEntries'[d] = dirEntries[d]
      BY <1>1, <1>12, <2>1 DEF AllocateInode
    <2> QED
      BY <1>9, <1>12, <2>2 DEF AllocateInode, Parented
  <1>13. CASE \/ NoInode(t) \/ CreateAddEntry(t) \/ DeleteRemove(t)
              \/ PrintOpen(t) \/ PrintLock(t) \/ PrintUnlock(t) \/ Unlock(t)
    BY <1>1, <1>2, <1>4, <1>13 DEF NoInode, CreateAddEntry, DeleteRemove,
       PrintOpen, PrintLock, PrintUnlock, Unlock, Return, Goto, OpOK
  <1>14. CASE LookupSelfDeadlock(t)
    <2>1. UNCHANGED <<stage, req, held, pc, dirEntries>>
      BY <1>14 DEF LookupSelfDeadlock, threadVars, tableVars
    <2>2. Running(t) => Target(t)' = Target(t)
      BY <2>1 DEF Target, ParentOf
    <2>3. Running(t)' => Running(t)
      BY <2>1 DEF Running
    <2> QED
      BY <1>5, <2>1, <2>2, <2>3 DEF HeldOK
  <1>15. ~ (MoveTry1(t) \/ MoveTry2(t) \/ TryFails2(t) \/ MoveAddEntry(t)
              \/ MoveResetEntry(t))
    BY <1>2 DEF MoveTry1, MoveTry2, TryFails2, MoveAddEntry, MoveResetEntry, Try, OpOK
  <1> QED
    BY <1>6, <1>7, <1>8, <1>10, <1>11, <1>12, <1>13, <1>14, <1>15 DEF Step

LEMMA NextHInv ==
  Typed /\ WritesLocked /\ LInv /\ PInv /\ HInv /\ NoMoves /\ [Next]_vars => HInv'
  <1> SUFFICES ASSUME Typed, WritesLocked, LInv, PInv, HInv, NoMoves, [Next]_vars,
                      NEW u \in Threads
               PROVE  HeldOK(u)'
    BY DEF HInv
  <1>1. Typed' /\ HeldOK(u) /\ PathOK(u) /\ held[u] \in SUBSET Inodes
    BY NextTypes DEF HInv, PInv, Typed, TypeOK
  <1>2. ASSUME pc'[u] = pc[u], stage'[u] = stage[u], req'[u] = req[u],
               held'[u] = held[u],
               \A d \in held[u] : dirEntries'[d] = dirEntries[d]
                                    \/ (d = cur[u] /\ pc[u] # "lookup")
        PROVE  HeldOK(u)'
    <2>1. Target(u)' = Target(u) /\ (Running(u)' => Running(u))
      BY <1>2 DEF Target, ParentOf, Running
    <2>2. ASSUME Running(u), NEW x \in held[u] PROVE OnTarget(u, x)'
      <3>1. OnPath(u) /\ (pc[u] # "lookup" => rest[u] = << >>) /\ OnTarget(u, x)
        BY <1>1, <2>2 DEF PathOK, HeldOK
      <3> QED
        BY <1>2, <2>1, <3>1, OnTargetFrame
    <2> QED
      BY <1>2, <2>1, <2>2 DEF HeldOK
  <1>3. ASSUME NEW t \in Threads \ {u}, Receive(t) \/ Step(t) PROVE HeldOK(u)'
    <2>1. LeavesOthers(t)
      BY <1>3, StepFrame
    <2>2. ASSUME NEW d \in held[u], pc[u] = "lookup" \/ d # cur[u]
          PROVE  dirEntries'[d] = dirEntries[d]
      <3>1. d \in Inodes /\ d \in Marked(u)
        BY <1>1, <2>2 DEF Marked
      <3>2. writer[d] # t
        BY <3>1, MarkedExcludes, ThreadsAssumption DEF LInv
      <3> QED
        BY <1>3, <3>1, <3>2, UnwrittenSame
    <2> QED
      BY <1>2, <2>1, <2>2 DEF LeavesOthers, OnlyThread
  <1>4. CASE UNCHANGED vars
    BY <1>2, <1>4 DEF vars, threadVars, tableVars
  <1> QED
    BY <1>1, <1>3, <1>4, HeldStep DEF Next

\* In a finite set of threads, ranks cannot rise from each thread to another.
LEMMA NoEndlessRise ==
  ASSUME NEW S, IsFiniteSet(S), S # {}, NEW r \in [S -> Nat],
         \A t \in S : \E u \in S : r[t] < r[u]
  PROVE  FALSE
  <1> DEFINE above(t) == {u \in S : r[t] < r[u]}
             T == {above(t) : t \in S}
             R == StrictSubsetOrdering(S)
  <1>1. T \subseteq FiniteSubsetsOf(S) /\ T # {}
    <2>1. FiniteSubsetsOf(S) = SUBSET S
      BY FS_FiniteSubsetsOfFinite
    <2>2. T \subseteq SUBSET S
      OBVIOUS
    <2>3. T # {}
      <3>1. PICK t \in S : TRUE
        OBVIOUS
      <3>2. above(t) \in T
        BY <3>1
      <3> QED
        BY <3>2
    <2> QED
      BY <2>1, <2>2, <2>3
  <1>2. PICK M \in T : \A U \in T : <<U, M>> \notin R
    <2>1. IsWellFoundedOn(R, FiniteSubsetsOf(S))
      BY FS_StrictSubsetOrderingWellFounded
    <2> HIDE DEF T, R
    <2> QED
      BY <1>1, <2>1, WFMin
  <1>3. PICK t \in S : M = above(t)
    BY <1>2
  <1>4. PICK u \in S : r[t] < r[u]
    OBVIOUS
  <1>5. above(u) \subseteq M
    <2>1. \A v \in S : r[v] \in Nat
      OBVIOUS
    <2>2. \A v \in S : r[u] < r[v] => r[t] < r[v]
      BY <1>4, <2>1
    <2> QED
      BY <1>3, <2>2
  <1>6. u \in M /\ u \notin above(u) /\ above(u) \in T
    <2>1. ~(r[u] < r[u])
      OBVIOUS
    <2> QED
      BY <1>3, <1>4, <2>1
  <1>7. <<above(u), M>> \in R
    BY <1>3, <1>5, <1>6 DEF StrictSubsetOrdering
  <1> QED
    BY <1>2, <1>6, <1>7

\* While nothing is being moved, an i-node has one entry.
LEMMA OneEntry ==
  ASSUME TreeOK, \A t \in Threads : pc[t] # "resetEntry",
         NEW d \in Inodes, NEW s \in Slots, NEW e \in Inodes, NEW q \in Slots,
         dirEntries[d][s].inumber # FREE_INODE,
         dirEntries[e][q].inumber = dirEntries[d][s].inumber
  PROVE  d = e
  <1>1. ReferencesUnique
    BY DEF TreeOK
  <1> QED
    BY <1>1 DEF ReferencesUnique, Moving

\* What a walk comes to is in an entry of what it came from.
Linked(w, n) == \A k \in 1..n : w[k-1] \in Inodes /\
    \E s \in Slots : /\ dirEntries[w[k-1]][s].inumber = w[k]
                    /\ dirEntries[w[k-1]][s].inumber # FREE_INODE

LEMMA WalkLinked ==
  ASSUME Typed, NEW path, NEW n \in Nat, NEW w, Walk(w, path, n)
  PROVE  Linked(w, n)
  <1> SUFFICES ASSUME NEW k \in 1..n
               PROVE  /\ w[k-1] \in Inodes
                      /\ \E s \in Slots : /\ dirEntries[w[k-1]][s].inumber = w[k]
                                          /\ dirEntries[w[k-1]][s].inumber # FREE_INODE
    BY DEF Linked
  <1>1. k - 1 \in 0..n /\ k \in 0..n
    OBVIOUS
  <1>2. /\ w[k] \in Inodes /\ w[k-1] \in Inodes
        /\ w[k] = lookup_sub_node(path[k], w[k-1])
    BY <1>1 DEF Walk
  <1>3. w[k] # FAIL
    BY <1>2 DEF FAIL, Inodes
  <1>4. dirEntries \in [Inodes -> [Slots -> Entry]]
    BY DEF Typed, TypeOK, TableTypeOK
  <1> QED
    BY <1>2, <1>3, <1>4, SubNodeFound

\* While nothing is being moved, all walks come to an i-node at the same depth.
LEMMA WalkDepth ==
  ASSUME Typed, TreeOK, \A t \in Threads : pc[t] # "resetEntry",
         NEW p, NEW n \in Nat, NEW w, Walk(w, p, n),
         NEW q, NEW m \in Nat, NEW v, Walk(v, q, m),
         NEW i \in 0..n, NEW k \in 0..m, w[i] = v[k], i <= k
  PROVE  i = k
  <1>0. Linked(w, n) /\ Linked(v, m)
    BY WalkLinked
  <1> DEFINE bad == {e \in 0..i : w[i-e] # v[k-e]}
  <1>1. bad = {}
    <2> SUFFICES ASSUME bad # {} PROVE FALSE
      OBVIOUS
    <2>1. PICK e \in bad : \A f \in bad : e <= f
      <3>1. i \in Nat /\ bad \in SUBSET (0..i)
        OBVIOUS
      <3> HIDE DEF bad
      <3> QED
        BY <3>1, LeastMember
    <2>2. e # 0
      BY <2>1
    <2>3. /\ e - 1 \in 0..i /\ ~(e <= e - 1)
          /\ i - e + 1 \in 1..n /\ k - e + 1 \in 1..m
          /\ (i - e + 1) - 1 = i - e /\ (k - e + 1) - 1 = k - e
          /\ i - (e - 1) = i - e + 1 /\ k - (e - 1) = k - e + 1
      BY <2>1, <2>2
    <2>4. w[i - e + 1] = v[k - e + 1]
      BY <2>1, <2>3
    <2>5. PICK a \in 1..n, b \in 1..m : a = i - e + 1 /\ b = k - e + 1
      BY <2>3
    <2>6. PICK s \in Slots : /\ dirEntries[w[a-1]][s].inumber = w[a]
                             /\ dirEntries[w[a-1]][s].inumber # FREE_INODE
                             /\ w[a-1] \in Inodes
      BY <1>0 DEF Linked
    <2>7. PICK r \in Slots : /\ dirEntries[v[b-1]][r].inumber = v[b]
                             /\ v[b-1] \in Inodes
      BY <1>0 DEF Linked
    <2>8. w[a-1] = v[b-1]
      BY <2>4, <2>5, <2>6, <2>7, OneEntry
    <2> QED
      BY <2>1, <2>3, <2>5, <2>8
  <1>2. w[i-i] = v[k-i]
    <2>1. i \in 0..i
      OBVIOUS
    <2> QED
      BY <1>1, <2>1
  <1>3. i - i = 0 /\ k - i \in 0..m /\ 0 \in 0..m
    OBVIOUS
  <1>4. v[k-i] = v[0]
    BY <1>2, <1>3 DEF Walk
  <1>5. k - i = 0
    BY <1>3, <1>4 DEF Walk
  <1> QED
    BY <1>5

\* The i-node that thread t waits to lock.
WaitsFor(t, x) ==
    \/ pc[t] = "lookup" /\ cur[t] \notin held[t] /\ x = cur[t]
    \/ pc[t] = "lockChild" /\ x = child[t]
    \/ pc[t] = "lockRoot" /\ x = FS_ROOT

\* How deep that is.
Rank(t) == CASE pc[t] = "lookup"    -> Depth(t)
             [] pc[t] = "lockChild" -> Depth(t) + 1
             [] OTHER               -> 0

\* Who blocks a thread has marked what it waits for.
LEMMA BlockerMarked ==
  ASSUME Typed, LInv, NEW t \in Threads, NEW u \in Threads, u \in Blockers(t)
  PROVE  \E x \in Inodes : WaitsFor(t, x) /\ x \in Marked(u)
  <1>1. PICK x : WaitsFor(t, x) /\ (writer[x] = u \/ u \in ReadersOf(x))
    <2>1. CASE pc[t] = "lookup" /\ cur[t] \notin held[t]
      BY <2>1 DEF Blockers, WaitsFor
    <2>2. CASE pc[t] = "lockChild"
      BY <2>2 DEF Blockers, WaitsFor
    <2>3. CASE pc[t] = "lockRoot"
      BY <2>3 DEF Blockers, WaitsFor
    <2>4. CASE pc[t] \notin {"lookup", "lockChild", "lockRoot"}
      BY <2>4 DEF Blockers
    <2>5. CASE pc[t] = "lookup" /\ cur[t] \in held[t]
      BY <2>5 DEF Blockers
    <2> QED
      BY <2>1, <2>2, <2>3, <2>4, <2>5
  <1>2. x \in Inodes
    <2>1. cur[t] \in Inodes /\ FS_ROOT \in Inodes
      BY TableAssumption DEF Typed, TypeOK, FS_ROOT, Inodes
    <2>2. pc[t] = "lockChild" => child[t] \in Inodes
      BY DEF Typed, ControlOK, OpOK
    <2> QED
      BY <1>1, <2>1, <2>2 DEF WaitsFor
  <1>3. x \in Marked(u)
    BY <1>1, <1>2, ThreadsAssumption DEF LInv, ArrayMatchesLocks, ReadersOf
  <1> QED
    BY <1>1, <1>2, <1>3

\* Without moves, a waiting thread has marked nodes on its path only, all higher
\* than what it waits for.
LEMMA WaiterHolds ==
  ASSUME IInv, HInv, NoMoves, NEW u \in Threads, NEW y, WaitsFor(u, y),
         NEW x \in Marked(u)
  PROVE  /\ Depth(u) \in Nat /\ Rank(u) \in Nat /\ Target(u) \in Seq(Names)
         /\ \E j \in 0..Len(Target(u)) : \E w :
               Walk(w, Target(u), j) /\ w[j] = x /\ j < Rank(u)
  <1>1. /\ Typed /\ LocksOK(u) /\ OpOK(u) /\ HeldOK(u) /\ PathOK(u)
        /\ stage[u] \in {"none", "target", "first", "path1"}
    BY NoMoveStages DEF IInv, LInv, PInv, HInv, Typed, ControlOK
  <1>2. x \in held[u]
    BY <1>1 DEF WaitsFor, Marked, ChildLocked, LocksOK, OpOK
  <1>3. Running(u) /\ pc[u] \in {"lookup", "lockChild"}
    BY <1>1, <1>2 DEF WaitsFor, LocksOK, OpOK, Running
  <1>4. OnTarget(u, x) /\ OnPath(u) /\ (pc[u] = "lockChild" => rest[u] = << >>)
    BY <1>1, <1>2, <1>3 DEF HeldOK, PathOK
  <1>5. PICK path, n : path = Target(u) /\ n = Depth(u)
    OBVIOUS
  <1>0. PICK j \in 0..Len(path) : \E w : /\ Walk(w, path, j) /\ w[j] = x
                                         /\ \A k \in 0..j-1 : w[k] \in held[u]
    BY <1>4, <1>5 DEF OnTarget
  <1>6. PICK w : /\ Walk(w, path, j) /\ w[j] = x
                 /\ \A k \in 0..j-1 : w[k] \in held[u]
    BY <1>0
  <1>7. PICK v : Walk(v, path, n) /\ v[n] = cur[u]
    BY <1>4, <1>5 DEF OnPath
  <1>8. /\ path \in Seq(Names) /\ n \in Nat /\ j \in Nat /\ j <= Len(path)
        /\ rest[u] = << >> => n = Len(path)
    <2>1. rest[u] = << >> => Len(rest[u]) = 0
      OBVIOUS
    <2>2. path \in Seq(Names) /\ n \in Nat /\ n = Len(path) - Len(rest[u])
      BY <1>4, <1>5 DEF OnPath, Depth
    <2> QED
      BY <2>1, <2>2
  <1>9. Rank(u) \in Nat /\ j < Rank(u)
    <2>1. CASE pc[u] = "lockChild"
      <3>1. Rank(u) = n + 1
        BY <1>5, <2>1 DEF Rank
      <3> QED
        BY <1>4, <1>8, <2>1, <3>1
    <2>2. CASE pc[u] = "lookup"
      <3>1. Rank(u) = n /\ cur[u] \notin held[u]
        BY <1>5, <2>2 DEF Rank, WaitsFor
      <3>2. SUFFICES ASSUME n <= j PROVE FALSE
        BY <1>8, <3>1
      <3>3. n \in 0..n /\ (n = j \/ n \in 0..j-1)
        BY <1>8, <3>2
      <3>4. \A k \in 0..n : v[k] = w[k]
        BY <1>6, <1>7, <1>8, <3>2, SameWalk
      <3> QED
        BY <1>2, <1>6, <1>7, <3>1, <3>3, <3>4
    <2> QED
      BY <1>3, <2>1, <2>2
  <1> QED
    BY <1>5, <1>6, <1>8, <1>9

\* Without moves, what a waiting thread waits for is, on every walk that comes to
\* it, at the depth of its rank.
LEMMA WaitDepth ==
  ASSUME IInv, NoMoves, NEW t \in Threads, NEW x \in Inodes, WaitsFor(t, x),
         NEW path, NEW j \in Nat, NEW w, Walk(w, path, j), w[j] = x
  PROVE  j = Rank(t)
  <1>1. /\ Typed /\ TreeOK /\ OpOK(t) /\ PathOK(t) /\ Found(t)
        /\ \A u \in Threads : pc[u] # "resetEntry"
        /\ req[t].op # "move"
    BY NoMoveStages DEF IInv, PInv, TInv, Typed, ControlOK
  <1>2. pc[t] \in {"lookup", "lockChild"} =>
          Running(t) /\ OnPath(t) /\ OpOK(t)
    BY <1>1 DEF OpOK, PathOK, Running
  <1>3. ASSUME pc[t] \in {"lookup", "lockChild"}
        PROVE  \E n \in Nat : \E v : n = Depth(t) /\ Walk(v, Target(t), n) /\ v[n] = cur[t]
    BY <1>2, <1>3 DEF OnPath
  <1>4. ASSUME NEW i \in 0..j, pc[t] \in {"lookup", "lockChild"}, w[i] = cur[t]
        PROVE  i = Depth(t)
    <2>0. PICK n \in Nat : \E v : n = Depth(t) /\ Walk(v, Target(t), n) /\ v[n] = cur[t]
      BY <1>3, <1>4
    <2>1. PICK v : n = Depth(t) /\ Walk(v, Target(t), n) /\ v[n] = cur[t]
      BY <2>0
    <2>2. n \in 0..n /\ (i <= n \/ n <= i)
      OBVIOUS
    <2>3. PICK q : q = Target(t)
      OBVIOUS
    <2>4. CASE i <= n
      BY <1>1, <1>4, <2>1, <2>2, <2>3, <2>4, WalkDepth
    <2>5. CASE n <= i
      BY <1>1, <1>4, <2>1, <2>2, <2>3, <2>5, WalkDepth
    <2> QED
      BY <2>2, <2>4, <2>5
  <1>5. CASE pc[t] = "lookup"
    <2>1. j \in 0..j /\ w[j] = cur[t]
      BY <1>5 DEF WaitsFor
    <2> QED
      BY <1>4, <1>5, <2>1 DEF Rank
  <1>6. CASE pc[t] = "lockRoot"
    <2>1. j \in 0..j /\ 0 \in 0..j /\ w[j] = w[0]
      BY <1>6 DEF WaitsFor, Walk
    <2>2. j = 0
      BY <2>1 DEF Walk
    <2> QED
      BY <1>6, <2>2 DEF Rank
  <1>7. CASE pc[t] = "lockChild"
    <2>1. x = child[t] /\ req[t].op \in {"create", "delete"} /\ FREE_INODE \notin Inodes
      <3>1. stage[t] = "path1"
        BY <1>1, <1>7 DEF OpOK
      <3> QED
        BY <1>1, <1>7, <3>1 DEF WaitsFor, OpOK, FREE_INODE, Inodes
    <2>2. x # FS_ROOT
      <3>1. CASE req[t].op = "create"
        BY <1>1, <1>7, <2>1, <3>1 DEF Found, FoundAt
      <3>2. CASE req[t].op = "delete"
        <4>1. HasEntry(cur[t], NameOf(req[t].path), child[t])
          BY <1>1, <1>7, <3>2 DEF Found, FoundAt
        <4> QED
          BY <1>1, <2>1, <4>1 DEF HasEntry, TreeOK, EntriesOK, Typed, TypeOK
      <3> QED
        BY <2>1, <3>1, <3>2
    <2>3. j # 0 /\ j \in 1..j /\ j - 1 \in 0..j
      BY <2>2 DEF Walk
    <2>4. PICK s \in Slots : /\ dirEntries[w[j-1]][s].inumber = x
                             /\ dirEntries[w[j-1]][s].inumber # FREE_INODE
                             /\ w[j-1] \in Inodes
      <3>1. Linked(w, j)
        BY <1>1, WalkLinked
      <3> QED
        BY <2>3, <3>1 DEF Linked
    <2>5. req[t].op = "delete"
      BY <1>1, <1>7, <2>1, <2>4 DEF Found, FoundAt, Unreferenced
    <2>6. PICK r \in Slots : dirEntries[cur[t]][r].inumber = x
      BY <1>1, <1>7, <2>1, <2>5 DEF Found, FoundAt, HasEntry
    <2>7. w[j-1] = cur[t]
      <3>1. cur[t] \in Inodes
        BY <1>1 DEF Typed, TypeOK
      <3> QED
        BY <1>1, <2>4, <2>6, <3>1, OneEntry
    <2>8. j - 1 = Depth(t)
      BY <1>4, <1>7, <2>3, <2>7
    <2> QED
      BY <1>7, <2>8 DEF Rank
  <1> QED
    BY <1>5, <1>6, <1>7 DEF WaitsFor

\* Without moves, whoever blocks a thread and waits too waits deeper down.
LEMMA WaitsRise ==
  ASSUME IInv, HInv, NoMoves, NEW t \in Threads, NEW u \in Threads,
         u \in Blockers(t), Blockers(u) # {}
  PROVE  Rank(t) \in Nat /\ Rank(u) \in Nat /\ Rank(t) < Rank(u)
  <1>1. Typed /\ LInv
    BY DEF IInv
  <1>2. PICK x \in Inodes : WaitsFor(t, x) /\ x \in Marked(u)
    BY <1>1, BlockerMarked
  <1>3. PICK y : WaitsFor(u, y)
    BY DEF Blockers, WaitsFor
  <1>4. PICK path : path = Target(u)
    OBVIOUS
  <1>5. /\ Rank(u) \in Nat /\ path \in Seq(Names)
        /\ \E j \in 0..Len(path) : \E w : Walk(w, path, j) /\ w[j] = x /\ j < Rank(u)
    BY <1>2, <1>3, <1>4, WaiterHolds
  <1>0. PICK j \in Nat : \E w : Walk(w, path, j) /\ w[j] = x /\ j < Rank(u)
    BY <1>5
  <1>6. PICK w : Walk(w, path, j) /\ w[j] = x /\ j < Rank(u)
    BY <1>0
  <1>7. j = Rank(t)
    BY <1>2, <1>6, WaitDepth
  <1> QED
    BY <1>5, <1>6, <1>7

LEMMA NoWaitCycle == IInv /\ HInv /\ NoMoves => NoDeadlock
  <1> SUFFICES ASSUME IInv, HInv, NoMoves, NEW S \in SUBSET Threads, S # {},
                      \A t \in S : Blockers(t) \cap S # {}
               PROVE  FALSE
    BY DEF NoDeadlock
  <1>1. \A t \in S : \E u \in S :
           Rank(t) \in Nat /\ Rank(u) \in Nat /\ Rank(t) < Rank(u)
    <2> SUFFICES ASSUME NEW t \in S PROVE \E u \in S :
                    Rank(t) \in Nat /\ Rank(u) \in Nat /\ Rank(t) < Rank(u)
      OBVIOUS
    <2>1. PICK u \in S : u \in Blockers(t)
      OBVIOUS
    <2>2. Blockers(u) # {}
      OBVIOUS
    <2> QED
      BY <2>1, <2>2, WaitsRise
  <1>2. PICK r : r = [t \in S |-> Rank(t)]
    OBVIOUS
  <1>3. r \in [S -> Nat] /\ \A t \in S : \E u \in S : r[t] < r[u]
    BY <1>1, <1>2
  <1>4. IsFiniteSet(S)
    BY ThreadsAssumption, FS_Subset
  <1> QED
    BY <1>3, <1>4, NoEndlessRise

LEMMA InitHInv == Init => HInv
  BY DEF Init, HInv, HeldOK, Running

\* No set of threads wait for each other's locks, if clients move nothing: lookup,
\* delete and print take their locks from the root down.
THEOREM NoMovesNoDeadlock == ASSUME NoMoves PROVE Spec => []NoDeadlock
  <1>1. MovesApart
    BY DEF NoMoves, MovesApart
  <1>2. IInv => DistinctParents
    BY <1>1, ApartDistinct
  <1>3. Init => IInv /\ HInv
    BY InitIInv, InitHInv
  <1>4. IInv /\ HInv /\ [Next]_vars => (IInv /\ HInv)'
    BY <1>2, NextIInv, NextHInv DEF IInv
  <1>5. IInv /\ HInv => NoDeadlock
    BY NoWaitCycle
  <1> QED
    BY <1>3, <1>4, <1>5, PTL DEF Spec

=============================================================================
