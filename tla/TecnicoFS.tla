------------------------------ MODULE TecnicoFS ------------------------------
(***************************************************************************)
(* The worker threads of the TecnicoFS server (SO/Part3/main.c) running    *)
(* create, delete, lookup, move and print (SO/Part3/fs/operations.c) on    *)
(* the i-node table.  An action is the code between two operations on a    *)
(* lock: what it reads and writes is only what the thread has locked, or   *)
(* should have.  unlock_locks releases its locks in one step: a release    *)
(* never blocks and nothing is read or written between two of them.        *)
(*                                                                         *)
(* A path is the sequence of its names; "/" is the empty sequence.  A name *)
(* alone may come without any slash, "a" as well as "/a": a move tells     *)
(* them apart, and its request says which of its paths are bare.           *)
(***************************************************************************)
EXTENDS InodeTable

CONSTANTS
    Requests,    \* the requests clients send
    Tables,      \* the tables the server starts from: <<nodeType, dirEntries>>
    Ample        \* the table is so large that it never runs out (FileTree)

Paths == Seq(Names)

Request ==
         [op : {"create"}, path : Paths, type : {"T_FILE", "T_DIRECTORY"}]
    \cup [op : {"delete", "lookup"}, path : Paths]
    \cup [op : {"move"}, path : Paths, to : Paths, bare : SUBSET {"path", "to"}]
    \cup [op : {"print"}]

ASSUME RequestsAssumption == Requests \subseteq Request
ASSUME TablesAssumption ==
    Tables \subseteq [Inodes -> Types] \X [Inodes -> [Slots -> Entry]]

\* Each is a tree, as the one init_fs leaves: the root is a directory and in no
\* other; entries are in directories, lead to i-nodes in use and have names that
\* differ in one directory; every other i-node in use has exactly one entry.
ASSUME TreesAssumption == \A T \in Tables :
    LET entry(r) == T[2][r[1]][r[2]]
        used == {r \in Inodes \X Slots : entry(r).inumber # FREE_INODE}
    IN  /\ T[1][FS_ROOT] = "T_DIRECTORY"
        /\ \A r \in used : /\ T[1][r[1]] = "T_DIRECTORY"
                           /\ entry(r).inumber # FS_ROOT
                           /\ entry(r).name # NoName
                           /\ T[1][entry(r).inumber] # "T_NONE"
        /\ \A r, q \in used :
              \/ entry(r).inumber = entry(q).inumber
              \/ r[1] = q[1] /\ entry(r).name = entry(q).name
              => r = q
        /\ \A i \in Inodes \ {FS_ROOT} : T[1][i] # "T_NONE" =>
              \E r \in used : entry(r).inumber = i

VARIABLES
    pc,        \* where each thread is
    req,       \* the request it serves
    stage,     \* which of its lookups it is in
    held,      \* the i-nodes marked LOCKED in its array
    cur,       \* current_inumber of lookup, then the parent directory found
    rest,      \* the names lookup has still to follow
    parent1,   \* parent_inumber1 of move
    child,     \* child_inumber, child_inumber1
    index,     \* the i-node inode_create tries
    result,    \* what the operation returns
    exited     \* the server has called exit(EXIT_FAILURE)

threadVars == <<pc, req, stage, held, cur, rest, parent1, child, index, result>>
vars == <<tableVars, lockVars, threadVars, exited>>

\* Between requests.
NoRequest == [op |-> "none"]

Init ==
    /\ \E T \in Tables : nodeType = T[1] /\ dirEntries = T[2]
    /\ writer = [i \in Inodes |-> None]
    /\ readers = [i \in Inodes |-> 0]
    /\ pc = [t \in Threads |-> "idle"]
    /\ req = [t \in Threads |-> NoRequest]
    /\ stage = [t \in Threads |-> "none"]
    /\ held = [t \in Threads |-> {}]
    /\ cur = [t \in Threads |-> FS_ROOT]
    /\ rest = [t \in Threads |-> << >>]
    /\ parent1 = [t \in Threads |-> FREE_INODE]
    /\ child = [t \in Threads |-> FREE_INODE]
    /\ index = [t \in Threads |-> 0]
    /\ result = [t \in Threads |-> SUCCESS]
    /\ exited = FALSE

-----------------------------------------------------------------------------
\* The operators marked "mutant" are faulty variants used to test the
\* properties; nothing in the specification refers to them.

\* split_parent_child_from_path: "/" has an empty parent and an empty child.
ParentOf(path) == SubSeq(path, 1, Len(path) - 1)
NameOf(path) == IF path = << >> THEN NoName ELSE path[Len(path)]

\* parent_name1 when the second path is split.  It is the constant "" if the
\* first path had no slash, and else points to name_copy, where by then the
\* second path is, cut at its last slash if it has one.
RecoverPath(r) ==
    IF r.path = << >> \/ (Len(r.path) = 1 /\ "path" \in r.bare) THEN << >>
    ELSE IF Len(r.to) = 1 /\ "to" \in r.bare THEN r.to ELSE ParentOf(r.to)

Goto(t, label) == pc' = [pc EXCEPT ![t] = label]

\* The operation is about to release its locks and return r.
Return(t, r) == Goto(t, "unlock") /\ result' = [result EXCEPT ![t] = r]

\* lookup(path, array) is called: it starts at the root.
StartLookup(t, s, path) ==
    /\ Goto(t, "lookup")
    /\ stage' = [stage EXCEPT ![t] = s]
    /\ cur' = [cur EXCEPT ![t] = FS_ROOT]
    /\ rest' = [rest EXCEPT ![t] = path]

\* applyCommands receives a request and calls the operation.
Receive(t) ==
    /\ pc[t] = "idle"
    /\ \E r \in Requests :
          /\ req' = [req EXCEPT ![t] = r]
          /\ CASE r.op = "print" ->
                    Goto(t, "open") /\ UNCHANGED <<stage, cur, rest>>
               [] r.op = "lookup" -> StartLookup(t, "target", r.path)
               [] r.op = "delete" -> StartLookup(t, "first", ParentOf(r.path))
               [] OTHER           -> StartLookup(t, "path1", ParentOf(r.path))
    /\ UNCHANGED <<tableVars, lockVars, held, parent1, child, index, result,
                   exited>>

-----------------------------------------------------------------------------
(* lookup: lock the current node to read, unless the array says it is      *)
(* locked, and look for the next name in it.                               *)

Acquire(t) ==
    /\ pc[t] = "lookup"
    /\ \/ /\ cur[t] \in held[t]
          /\ UNCHANGED <<lockVars, held>>
       \/ /\ cur[t] \notin held[t]
          /\ RdLock(cur[t])
          /\ held' = [held EXCEPT ![t] = @ \cup {cur[t]}]

NextNode(t) == lookup_sub_node(Head(rest[t]), cur[t])

LookupDownUnchecked(t) ==                                            \* mutant
    /\ Acquire(t)
    /\ rest[t] # << >>
    /\ cur' = [cur EXCEPT ![t] = NextNode(t)]
    /\ rest' = [rest EXCEPT ![t] = Tail(@)]
    /\ UNCHANGED <<tableVars, pc, req, stage, parent1, child, index, result,
                   exited>>

LookupDown(t) ==
    /\ Acquire(t)
    /\ rest[t] # << >> /\ NextNode(t) # FAIL
    /\ cur' = [cur EXCEPT ![t] = NextNode(t)]
    /\ rest' = [rest EXCEPT ![t] = Tail(@)]
    /\ UNCHANGED <<tableVars, pc, req, stage, parent1, child, index, result,
                   exited>>

\* The lookup fails and with it the operation; move ignores what its lookup
\* "to recover read locks from first path" returns, and tries again.
LookupMissing(t) ==
    /\ Acquire(t)
    /\ rest[t] # << >> /\ NextNode(t) = FAIL
    /\ IF stage[t] = "recover"
         THEN /\ StartLookup(t, "path2", ParentOf(req[t].to))
              /\ UNCHANGED result
         ELSE Return(t, FAIL) /\ UNCHANGED <<stage, cur, rest>>
    /\ UNCHANGED <<tableVars, req, parent1, child, index, exited>>

LookupFound(t) ==
    /\ Acquire(t)
    /\ rest[t] = << >>
    /\ \/ /\ stage[t] = "target"
          /\ Return(t, SUCCESS)
          /\ UNCHANGED <<stage, cur, rest>>
       \/ /\ stage[t] \in {"path1", "path2"}
          /\ Goto(t, "upgrade")
          /\ UNCHANGED <<stage, cur, rest, result>>
       \/ /\ stage[t] = "first"
          /\ StartLookup(t, "path1", ParentOf(req[t].path))
          /\ UNCHANGED result
       \/ /\ stage[t] = "recover"
          /\ StartLookup(t, "path2", ParentOf(req[t].to))
          /\ UNCHANGED result
    /\ UNCHANGED <<tableVars, req, parent1, child, index, exited>>

\* The node is write-locked by this very thread: pthread_rwlock_rdlock returns
\* EDEADLK and lookup ends the program.
LookupSelfDeadlock(t) ==
    /\ pc[t] = "lookup"
    /\ cur[t] \notin held[t] /\ writer[cur[t]] = t
    /\ exited' = TRUE
    /\ UNCHANGED <<tableVars, lockVars, threadVars>>

-----------------------------------------------------------------------------
(* From the read lock on the parent directory to the write lock: unlock,   *)
(* then trywrlock; on failure release everything, sleep and look it up     *)
(* again.  The array marks the parent LOCKED all along.                    *)

UpgradeReleasingAll(t) ==                                            \* mutant
    /\ pc[t] = "upgrade"
    /\ UnlockSet(t, held[t] \ {parent1[t]})
    /\ held' = [held EXCEPT ![t] = {cur[t], parent1[t]} \ {FREE_INODE}]
    /\ Goto(t, "try")
    /\ UNCHANGED <<tableVars, req, stage, cur, rest, parent1, child,
                   index, result, exited>>

Upgrade(t) ==
    /\ pc[t] = "upgrade"
    /\ UnlockSet(t, {cur[t]})
    /\ Goto(t, "try")
    /\ UNCHANGED <<tableVars, req, stage, held, cur, rest, parent1, child,
                   index, result, exited>>

\* array[parent_inumber] = NOTLOCKED left out.
TryFailsMarked(t) ==                                                 \* mutant
    /\ pc[t] = "try" /\ stage[t] = "path1" /\ ~Unlocked(cur[t])
    /\ UnlockSet(t, held[t])
    /\ held' = [held EXCEPT ![t] = {}]
    /\ StartLookup(t, "path1", ParentOf(req[t].path))
    /\ UNCHANGED <<tableVars, req, parent1, child, index, result, exited>>

TryFails(t) ==
    /\ pc[t] = "try" /\ stage[t] = "path1" /\ ~Unlocked(cur[t])
    /\ UnlockSet(t, held[t] \ {cur[t]})
    /\ held' = [held EXCEPT ![t] = {}]
    /\ StartLookup(t, "path1", ParentOf(req[t].path))
    /\ UNCHANGED <<tableVars, req, parent1, child, index, result, exited>>

\* array[parent_inumber1] = NOTLOCKED left out.
TryFails2Lost(t) ==                                                  \* mutant
    /\ pc[t] = "try" /\ stage[t] = "path2" /\ ~Unlocked(cur[t])
    /\ UnlockSet(t, held[t] \ {cur[t]})
    /\ held' = [held EXCEPT ![t] = {parent1[t]}]
    /\ StartLookup(t, "recover", RecoverPath(req[t]))
    /\ UNCHANGED <<tableVars, req, parent1, child, index, result, exited>>

\* move keeps the write locks of the first path, and looks up parent_name1 "to
\* recover read locks from first path".
TryFails2(t) ==
    /\ pc[t] = "try" /\ stage[t] = "path2" /\ ~Unlocked(cur[t])
    /\ UnlockSet(t, held[t] \ {cur[t], parent1[t]})
    /\ held' = [held EXCEPT ![t] = {parent1[t]}]
    /\ StartLookup(t, "recover", RecoverPath(req[t]))
    /\ UNCHANGED <<tableVars, req, parent1, child, index, result, exited>>

Try(t, op, s) ==
    /\ pc[t] = "try" /\ req[t].op = op /\ stage[t] = s
    /\ WrLock(t, cur[t])
    /\ UNCHANGED <<tableVars, req, stage, held, cur, rest, index, exited>>

IsDir(i) == nodeType[i] = "T_DIRECTORY"
EntryNamed(t, path) == lookup_sub_node(NameOf(path), cur[t])

CreateTryUnchecked(t) ==                                             \* mutant
    /\ Try(t, "create", "path1")
    /\ IF IsDir(cur[t]) THEN Goto(t, "scan") /\ UNCHANGED result
                        ELSE Return(t, FAIL)
    /\ UNCHANGED <<parent1, child>>

CreateTry(t) ==
    /\ Try(t, "create", "path1")
    /\ IF IsDir(cur[t]) /\ EntryNamed(t, req[t].path) = FAIL
         THEN Goto(t, "scan") /\ UNCHANGED result
         ELSE Return(t, FAIL)
    /\ UNCHANGED <<parent1, child>>

DeleteTry(t) ==
    /\ Try(t, "delete", "path1")
    /\ IF IsDir(cur[t]) /\ EntryNamed(t, req[t].path) # FAIL
         THEN /\ child' = [child EXCEPT ![t] = EntryNamed(t, req[t].path)]
              /\ Goto(t, "lockChild") /\ UNCHANGED result
         ELSE Return(t, FAIL) /\ UNCHANGED child
    /\ UNCHANGED parent1

MoveTry1(t) ==
    /\ Try(t, "move", "path1")
    /\ IF IsDir(cur[t]) /\ EntryNamed(t, req[t].path) # FAIL
         THEN /\ child' = [child EXCEPT ![t] = EntryNamed(t, req[t].path)]
              /\ parent1' = [parent1 EXCEPT ![t] = cur[t]]
              /\ Goto(t, "lockChild") /\ UNCHANGED result
         ELSE Return(t, FAIL) /\ UNCHANGED <<parent1, child>>

MoveTry2Unchecked(t) ==                                              \* mutant
    /\ Try(t, "move", "path2")
    /\ IF IsDir(cur[t]) THEN Goto(t, "addEntry") /\ UNCHANGED result
                        ELSE Return(t, FAIL)
    /\ UNCHANGED <<parent1, child>>

MoveTry2(t) ==
    /\ Try(t, "move", "path2")
    /\ IF IsDir(cur[t]) /\ EntryNamed(t, req[t].to) = FAIL
         THEN Goto(t, "addEntry") /\ UNCHANGED result
         ELSE Return(t, FAIL)
    /\ UNCHANGED <<parent1, child>>

-----------------------------------------------------------------------------
(* inode_create: try to write-lock each i-node in turn, skip those locked, *)
(* take the first that is free, and unlock it before returning.            *)

SkipInode(t) ==
    /\ pc[t] = "scan" /\ index[t] < INODE_TABLE_SIZE /\ ~Unlocked(index[t])
    /\ index' = [index EXCEPT ![t] = @ + 1]
    /\ UNCHANGED <<tableVars, lockVars, pc, req, stage, held, cur, rest,
                   parent1, child, result, exited>>

LockInode(t) ==
    /\ pc[t] = "scan" /\ index[t] < INODE_TABLE_SIZE
    /\ WrLock(t, index[t])
    /\ Goto(t, "probe")
    /\ UNCHANGED <<tableVars, req, stage, held, cur, rest, parent1, child,
                   index, result, exited>>

InodeInUse(t) ==
    /\ pc[t] = "probe" /\ nodeType[index[t]] # "T_NONE"
    /\ UnlockSet(t, {index[t]})
    /\ index' = [index EXCEPT ![t] = @ + 1]
    /\ Goto(t, "scan")
    /\ UNCHANGED <<tableVars, req, stage, held, cur, rest, parent1, child,
                   result, exited>>

AllocateInode(t) ==
    /\ pc[t] = "probe" /\ nodeType[index[t]] = "T_NONE"
    /\ nodeType' = [nodeType EXCEPT ![index[t]] = req[t].type]
    /\ dirEntries' = [dirEntries EXCEPT ![index[t]] = NoEntries]
    /\ UnlockSet(t, {index[t]})
    /\ child' = [child EXCEPT ![t] = index[t]]
    /\ Goto(t, "lockChild")
    /\ UNCHANGED <<req, stage, held, cur, rest, parent1, index, result, exited>>

NoInode(t) ==
    /\ pc[t] = "scan" /\ index[t] = INODE_TABLE_SIZE
    /\ Return(t, FAIL)
    /\ UNCHANGED <<tableVars, lockVars, req, stage, held, cur, rest, parent1,
                   child, index, exited>>

-----------------------------------------------------------------------------
\* The write lock on the child, which is not recorded in the array.

LockChild(t) ==
    /\ pc[t] = "lockChild"
    /\ WrLock(t, child[t])
    /\ CASE req[t].op = "create" ->
              Goto(t, "addEntry") /\ UNCHANGED <<stage, cur, rest>>
         [] req[t].op = "delete" ->
              Goto(t, "remove") /\ UNCHANGED <<stage, cur, rest>>
         [] OTHER -> StartLookup(t, "path2", ParentOf(req[t].to))
    /\ UNCHANGED <<tableVars, req, held, parent1, child, index, result, exited>>

CreateAddEntry(t) ==
    /\ pc[t] = "addEntry" /\ req[t].op = "create"
    /\ LET name == NameOf(req[t].path)
       IN  \/ /\ CanAddEntry(cur[t], child[t], name)
              /\ AddEntry(cur[t], child[t], name)
              /\ Return(t, SUCCESS)
           \/ /\ ~CanAddEntry(cur[t], child[t], name)
              /\ Return(t, FAIL)
              /\ UNCHANGED dirEntries
    /\ UNCHANGED <<nodeType, lockVars, req, stage, held, cur, rest, parent1,
                   child, index, exited>>

DeletableAlways(t) == TRUE                                           \* mutant
Deletable(t) == IsDir(child[t]) => is_dir_empty(child[t])

DeleteRemove(t) ==
    /\ pc[t] = "remove"
    /\ \/ /\ Deletable(t)
          /\ CanResetEntry(cur[t], child[t])
          /\ nodeType' = [nodeType EXCEPT ![child[t]] = "T_NONE"]
          /\ dirEntries' =
                [WithoutEntry(cur[t], child[t]) EXCEPT ![child[t]] = NoEntries]
          /\ Return(t, SUCCESS)
       \/ /\ ~(Deletable(t) /\ CanResetEntry(cur[t], child[t]))
          /\ Return(t, FAIL)
          /\ UNCHANGED tableVars
    /\ UNCHANGED <<lockVars, req, stage, held, cur, rest, parent1, child,
                   index, exited>>

MoveAddEntry(t) ==
    /\ pc[t] = "addEntry" /\ req[t].op = "move"
    /\ LET name == NameOf(req[t].to)
       IN  \/ /\ CanAddEntry(cur[t], child[t], name)
              /\ AddEntry(cur[t], child[t], name)
              /\ Goto(t, "resetEntry")
              /\ UNCHANGED result
           \/ /\ ~CanAddEntry(cur[t], child[t], name)
              /\ Return(t, FAIL)
              /\ UNCHANGED dirEntries
    /\ UNCHANGED <<nodeType, lockVars, req, stage, held, cur, rest, parent1,
                   child, index, exited>>

MoveResetEntry(t) ==
    /\ pc[t] = "resetEntry"
    /\ \/ /\ CanResetEntry(parent1[t], child[t])
          /\ dirEntries' = WithoutEntry(parent1[t], child[t])
          /\ Return(t, SUCCESS)
       \/ /\ ~CanResetEntry(parent1[t], child[t])
          /\ Return(t, FAIL)
          /\ UNCHANGED dirEntries
    /\ UNCHANGED <<nodeType, lockVars, req, stage, held, cur, rest, parent1,
                   child, index, exited>>

-----------------------------------------------------------------------------
\* print: the output file is opened, then print_tecnicofs_tree locks the root
\* only, to write.

PrintOpen(t) ==
    /\ pc[t] = "open"
    /\ \/ Goto(t, "lockRoot") /\ UNCHANGED result
       \/ Return(t, FAIL)
    /\ UNCHANGED <<tableVars, lockVars, req, stage, held, cur, rest, parent1,
                   child, index, exited>>

PrintReadLock(t) ==                                                  \* mutant
    /\ pc[t] = "lockRoot"
    /\ RdLock(FS_ROOT)
    /\ Goto(t, "print")
    /\ UNCHANGED <<tableVars, req, stage, held, cur, rest, parent1, child,
                   index, result, exited>>

PrintLock(t) ==
    /\ pc[t] = "lockRoot"
    /\ WrLock(t, FS_ROOT)
    /\ Goto(t, "print")
    /\ UNCHANGED <<tableVars, req, stage, held, cur, rest, parent1, child,
                   index, result, exited>>

PrintUnlock(t) ==
    /\ pc[t] = "print"
    /\ UnlockSet(t, {FS_ROOT})
    /\ Goto(t, "idle")
    /\ req' = [req EXCEPT ![t] = NoRequest]
    /\ UNCHANGED <<tableVars, stage, held, cur, rest, parent1, child, index,
                   result, exited>>

\* The locks a thread releases at the end of an operation.
HeldButChild(t) == held[t]                                           \* mutant
AllHeld(t) == held[t] \cup ({child[t]} \ {FREE_INODE})

\* The operation releases the child and the nodes of the array, and its result
\* is sent to the client; the next operation has its own local variables.
Unlock(t) ==
    /\ pc[t] = "unlock"
    /\ UnlockSet(t, AllHeld(t))
    /\ Goto(t, "idle")
    /\ req' = [req EXCEPT ![t] = NoRequest]
    /\ stage' = [stage EXCEPT ![t] = "none"]
    /\ held' = [held EXCEPT ![t] = {}]
    /\ cur' = [cur EXCEPT ![t] = FS_ROOT]
    /\ rest' = [rest EXCEPT ![t] = << >>]
    /\ parent1' = [parent1 EXCEPT ![t] = FREE_INODE]
    /\ child' = [child EXCEPT ![t] = FREE_INODE]
    /\ index' = [index EXCEPT ![t] = 0]
    /\ result' = [result EXCEPT ![t] = SUCCESS]
    /\ UNCHANGED <<tableVars, exited>>

-----------------------------------------------------------------------------
Step(t) ==
    \/ LookupDown(t) \/ LookupMissing(t) \/ LookupFound(t)
    \/ LookupSelfDeadlock(t)
    \/ Upgrade(t) \/ TryFails(t) \/ TryFails2(t)
    \/ CreateTry(t) \/ DeleteTry(t) \/ MoveTry1(t) \/ MoveTry2(t)
    \/ SkipInode(t) \/ LockInode(t) \/ InodeInUse(t) \/ AllocateInode(t)
    \/ NoInode(t)
    \/ LockChild(t)
    \/ CreateAddEntry(t) \/ DeleteRemove(t) \/ MoveAddEntry(t)
    \/ MoveResetEntry(t)
    \/ PrintOpen(t) \/ PrintLock(t) \/ PrintUnlock(t) \/ Unlock(t)

Next ==
    \/ ~exited /\ \E t \in Threads : Receive(t) \/ Step(t)
    \/ exited /\ UNCHANGED vars

Spec == Init /\ [][Next]_vars

-----------------------------------------------------------------------------
\* Vocabulary of the properties.

\* The i-node a path leads to, by the entries as they are now; FAIL if none.
Resolve(path) ==
    LET walk[k \in 0..Len(path)] ==
            IF k = 0 THEN FS_ROOT
            ELSE IF walk[k-1] = FAIL THEN FAIL
            ELSE lookup_sub_node(path[k], walk[k-1])
    IN  walk[Len(path)]

\* The path a lookup follows, and the part it has followed.
Target(t) == CASE stage[t] = "target"              -> req[t].path
               [] stage[t] \in {"first", "path1"}  -> ParentOf(req[t].path)
               [] stage[t] = "recover"             -> RecoverPath(req[t])
               [] OTHER                            -> ParentOf(req[t].to)
Followed(t) == SubSeq(Target(t), 1, Len(Target(t)) - Len(rest[t]))

\* What a thread has locked, by its own variables.
ChildLocked(t) == child[t] # FREE_INODE /\ pc[t] # "lockChild"
Marked(t) == (held[t] \ IF pc[t] = "try" THEN {cur[t]} ELSE {})
             \cup (IF ChildLocked(t) THEN {child[t]} ELSE {})
             \cup (IF pc[t] = "probe" THEN {index[t]} ELSE {})
             \cup (IF pc[t] = "print" THEN {FS_ROOT} ELSE {})
ReadersOf(i) == {t \in Threads : i \in Marked(t) /\ writer[i] # t}

References(i) == {r \in Inodes \X Slots : dirEntries[r[1]][r[2]].inumber = i}
Allocated == {i \in Inodes : nodeType[i] # "T_NONE"}

\* The threads a thread is blocked by, in a call that waits.
Blockers(t) ==
    LET wait == IF pc[t] = "lookup" /\ cur[t] \notin held[t] THEN {cur[t]}
                ELSE IF pc[t] = "lockChild" THEN {child[t]}
                ELSE IF pc[t] = "lockRoot" THEN {FS_ROOT} ELSE {}
    IN  UNION {({writer[i]} \ {None})
                \cup (IF pc[t] = "lookup" THEN {} ELSE ReadersOf(i)) : i \in wait}

-----------------------------------------------------------------------------
\* Fairness.

\* A try fails although no thread that has the directory locked is waiting.
Bumps(t) == /\ TryFails(t) \/ TryFails2(t)
            /\ \A u \in Threads \ {t} : cur[t] \in Marked(u) => Blockers(u) = {}

\* A thread that can go on does; and the random, ever longer sleeps between two
\* tries let the others be done with the directory some time: no thread finds
\* it locked for ever by threads that are not themselves waiting for a lock.
Fairness ==
    \A t \in Threads :
        /\ WF_vars(~exited /\ Step(t))
        /\ <>[][~Bumps(t)]_vars

FairSpec == Spec /\ Fairness

-----------------------------------------------------------------------------
(* The refinement mapping to FileTree.  A move takes effect when it adds   *)
(* its entry: from then on, until it is reset, the old entry does not      *)
(* count.                                                                  *)

Visible(i) ==
    References(i) \ {r \in References(i) : \E t \in Threads :
        /\ pc[t] = "resetEntry" /\ r[1] = parent1[t] /\ i = child[t]
        /\ dirEntries[r[1]][r[2]].name = NameOf(req[t].path)}

TreeOfTable ==
    LET pathOf[i \in Inodes] ==
            IF i = FS_ROOT \/ Visible(i) = {} THEN << >>
            ELSE LET r == CHOOSE r \in Visible(i) : TRUE
                 IN  Append(pathOf[r[1]], dirEntries[r[1]][r[2]].name)
    IN  {[path |-> pathOf[i], type |-> nodeType[i]] :
            i \in {FS_ROOT} \cup {j \in Allocated : Visible(j) # {}}}

BeingCreated == {child[t] : t \in {u \in Threads :
                    req[u].op = "create" /\ pc[u] \in {"lockChild", "addEntry"}}}
Lost == {i \in Allocated \ {FS_ROOT} : References(i) = {}} \ BeingCreated

Answer(t) == CASE pc[t] = "idle" -> "none"
               [] pc[t] \in {"resetEntry", "print"} -> "success"
               [] pc[t] = "unlock" -> IF result[t] = SUCCESS THEN "success" ELSE "fail"
               [] OTHER -> "pending"

Tree == INSTANCE FileTree WITH
    tree <- TreeOfTable, lost <- Cardinality(Lost), request <- req,
    answer <- [t \in Threads |-> Answer(t)]

-----------------------------------------------------------------------------
\* Properties.

\* Every variable keeps its type.
TypeOK ==
    /\ TableTypeOK
    /\ req \in [Threads -> Requests \cup {NoRequest}]
    /\ held \in [Threads -> SUBSET Inodes]
    /\ cur \in [Threads -> Inodes]
    /\ rest \in [Threads -> Seq(Names)]
    /\ parent1 \in [Threads -> Inodes \cup {FREE_INODE}]
    /\ child \in [Threads -> Inodes \cup {FREE_INODE}]
    /\ index \in [Threads -> 0..INODE_TABLE_SIZE]
    /\ result \in [Threads -> {SUCCESS, FAIL}]
    /\ exited \in BOOLEAN

\* Each lock is held by exactly the threads whose array (or child, or probe of
\* inode_create) says so: none is leaked by an error path, released twice, or
\* taken away by another thread; and a writer is alone.
ArrayMatchesLocks ==
    \A i \in Inodes :
        /\ readers[i] = Cardinality(ReadersOf(i))
        /\ writer[i] # None => i \in Marked(writer[i]) /\ readers[i] = 0

\* Nobody changes an i-node without holding its write lock.
ChangesAreLocked ==
    [][\A i \in Inodes :
          <<nodeType[i], dirEntries[i]>>' # <<nodeType[i], dirEntries[i]>>
            => \E t \in Threads : writer[i] = t /\ pc[t] # pc'[t]]_vars

\* The path a thread has followed still leads where it is: while it waits for
\* the next lock, in the gap of an upgrade from read to write lock, and until
\* it changes the directory, nobody deletes or moves a node behind its back.
NoStalePath ==
    \A t \in Threads :
        stage[t] # "none" /\ pc[t] # "unlock" =>
            /\ Resolve(Followed(t)) = cur[t]
            /\ nodeType[cur[t]] # "T_NONE"
            /\ child[t] # FREE_INODE => nodeType[child[t]] # "T_NONE"

\* A thread has locked what it says it has, and it is still where its path leads
\* (lookup, the retries, and every error path of create, delete and move).
LocksAndPaths == ArrayMatchesLocks /\ NoStalePath

\* The table is a tree: names are unique in a directory, every entry leads to
\* an allocated i-node, and an i-node has one entry, or two between the two
\* steps of a move, or none while it is being created or if it was lost by a
\* create that could not add the entry (then nothing is below it).
TreeShape ==
    /\ nodeType[FS_ROOT] = "T_DIRECTORY" /\ References(FS_ROOT) = {}
    /\ \A d \in Inodes, s \in Slots :
          LET e == dirEntries[d][s]
          IN  e.inumber # FREE_INODE =>
                /\ nodeType[d] = "T_DIRECTORY" /\ nodeType[e.inumber] # "T_NONE"
                /\ \A u \in Slots \ {s} : dirEntries[d][u].inumber # FREE_INODE =>
                       dirEntries[d][u].name # e.name
    /\ \A i \in Allocated \ {FS_ROOT} :
          LET moving == {t \in Threads : pc[t] = "resetEntry" /\ child[t] = i}
          IN  CASE References(i) = {}               -> is_dir_empty(i)
                [] Cardinality(References(i)) = 2   -> moving # {}
                [] OTHER -> Cardinality(References(i)) = 1

\* While print_tecnicofs_tree walks the tree, holding the root's lock alone,
\* nothing in the table changes.
PrintSeesOneTree ==
    [][(\E t \in Threads : pc[t] = "print") => UNCHANGED tableVars]_vars

\* Each request takes effect at one instant, on a tree, and is answered
\* accordingly; only a create may fail without cause, for want of an i-node,
\* and not even that if the table has i-nodes to spare (Ample).
Linearizable == Tree!Spec

\* No set of threads wait for each other's locks.
NoDeadlock ==
    ~ \E S \in (SUBSET Threads) \ {{}} : \A t \in S : Blockers(t) \cap S # {}

\* While requests are being served, one of them is answered: the retries do not
\* keep every thread busy for ever.
Progress ==
    (\E t \in Threads : pc[t] # "idle")
        ~> (exited \/ \E t \in Threads : pc[t] \in {"unlock", "print"})

\* From the lock on the node a move takes to the end of the move, its first
\* path leads to that node, although a failed try for the second directory
\* gives up every lock on the first path but the two write locks.
FirstPathHolds ==
    \A t \in Threads :
        stage[t] \in {"path2", "recover"} /\ pc[t] # "unlock" =>
            Resolve(req[t].path) = child[t]

=============================================================================
