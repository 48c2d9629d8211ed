----------------------------- MODULE InodeTable -----------------------------
(***************************************************************************)
(* The i-node table of TecnicoFS (SO/Part3/fs/state.c): for each i-node a  *)
(* type, the entries of a directory, and a pthread read/write lock.        *)
(*                                                                         *)
(* The data of a file is always NULL.  A NULL or freed entry array is      *)
(* represented by an array of free entries, which lookup_sub_node and the  *)
(* other readers treat alike.                                              *)
(***************************************************************************)
EXTENDS Integers, Sequences, FiniteSets

CONSTANTS
    Threads,           \* the worker threads of the server
    None,              \* "no thread"
    Names,             \* names of files and directories
    NoName,            \* the empty string
    INODE_TABLE_SIZE,
    MAX_DIR_ENTRIES

ASSUME ThreadsAssumption == IsFiniteSet(Threads) /\ None \notin Threads
ASSUME NamesAssumption == NoName \notin Names
ASSUME TableAssumption ==
    /\ INODE_TABLE_SIZE \in Nat \ {0}
    /\ MAX_DIR_ENTRIES \in Nat \ {0}

FS_ROOT == 0
FREE_INODE == -1
SUCCESS == 0
FAIL == -1

Inodes == 0..INODE_TABLE_SIZE-1
Slots  == 1..MAX_DIR_ENTRIES
Types  == {"T_FILE", "T_DIRECTORY", "T_NONE"}

Entry     == [name : Names \cup {NoName}, inumber : Inodes \cup {FREE_INODE}]
FreeEntry == [name |-> NoName, inumber |-> FREE_INODE]
NoEntries == [s \in Slots |-> FreeEntry]

VARIABLES
    nodeType,     \* inode_table[i].nodeType
    dirEntries,   \* inode_table[i].data.dirEntries
    writer,       \* the thread that holds inode_table[i].lock to write
    readers       \* how many times it is held to read

tableVars == <<nodeType, dirEntries>>
lockVars  == <<writer, readers>>

TableTypeOK ==
    /\ nodeType \in [Inodes -> Types]
    /\ dirEntries \in [Inodes -> [Slots -> Entry]]
    /\ writer \in [Inodes -> Threads \cup {None}]
    /\ readers \in [Inodes -> Int]

-----------------------------------------------------------------------------
(* pthread_rwlock_t as glibc implements it with the default attributes: a  *)
(* waiting writer does not hold back new readers; taking a lock one        *)
(* already holds to write is EDEADLK; unlocking releases the write lock if *)
(* the caller holds it and takes one from the count of readers otherwise,  *)
(* whoever they are.                                                       *)

Unlocked(i) == writer[i] = None /\ readers[i] = 0

RdLock(i)    == /\ writer[i] = None
                /\ readers' = [readers EXCEPT ![i] = @ + 1]
                /\ UNCHANGED writer
WrLock(t, i) == /\ Unlocked(i)
                /\ writer' = [writer EXCEPT ![i] = t]
                /\ UNCHANGED readers

UnlockSet(t, I) ==
    /\ writer'  = [i \in Inodes |-> IF i \in I /\ writer[i] = t THEN None
                                                               ELSE writer[i]]
    /\ readers' = [i \in Inodes |-> IF i \in I /\ writer[i] # t
                                        THEN readers[i] - 1 ELSE readers[i]]

-----------------------------------------------------------------------------
\* The loops over the MAX_DIR_ENTRIES entries of a directory stop at the lowest
\* of the slots they look for; 0 when there is none.
First(hits) ==
    IF hits = {} THEN 0 ELSE CHOOSE s \in hits : \A u \in hits : s <= u

SlotNamed(d, name) ==
    First({s \in Slots : /\ dirEntries[d][s].inumber # FREE_INODE
                         /\ dirEntries[d][s].name = name})
FreeSlot(d)  == First({s \in Slots : dirEntries[d][s].inumber = FREE_INODE})
SlotOf(d, c) == First({s \in Slots : dirEntries[d][s].inumber = c})

lookup_sub_node(name, d) ==
    IF SlotNamed(d, name) = 0 THEN FAIL
                              ELSE dirEntries[d][SlotNamed(d, name)].inumber

is_dir_empty(d) == \A s \in Slots : dirEntries[d][s].inumber = FREE_INODE

\* dir_add_entry fails, or writes the first free entry.
CanAddEntry(d, c, name) ==
    /\ nodeType[d] = "T_DIRECTORY" /\ nodeType[c] # "T_NONE"
    /\ name # NoName
    /\ FreeSlot(d) # 0

AddEntry(d, c, name) ==
    dirEntries' = [dirEntries EXCEPT
        ![d][FreeSlot(d)] = [name |-> name, inumber |-> c]]

\* dir_reset_entry fails, or frees the first entry that refers to c.
CanResetEntry(d, c) ==
    /\ nodeType[d] = "T_DIRECTORY" /\ nodeType[c] # "T_NONE"
    /\ SlotOf(d, c) # 0

WithoutEntry(d, c) == [dirEntries EXCEPT ![d][SlotOf(d, c)] = FreeEntry]

=============================================================================
