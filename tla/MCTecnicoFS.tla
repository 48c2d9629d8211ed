---------------------------- MODULE MCTecnicoFS ----------------------------
(* Small instances of TecnicoFS for TLC. *)
EXTENDS TecnicoFS, TLC

Create(p, y) == [op |-> "create", path |-> p, type |-> y]
Delete(p)    == [op |-> "delete", path |-> p]
Lookup(p)    == [op |-> "lookup", path |-> p]
Move(p, q)   == [op |-> "move", path |-> p, to |-> q, bare |-> {}]
BareMove(p, q, b) == [Move(p, q) EXCEPT !.bare = b]
PrintTree    == [op |-> "print"]

\* The table init_fs leaves: the root and nothing else.
EmptyTable == <<[i \in Inodes |-> IF i = FS_ROOT THEN "T_DIRECTORY" ELSE "T_NONE"],
                [i \in Inodes |-> NoEntries]>>
EmptyTables == {EmptyTable}

\* Files and directories up to three levels deep, created and deleted under one
\* another, more than a directory or the table has room for; and "/" as a path.
CreateDeleteRequests ==
    {Create(<<"a">>, "T_DIRECTORY"), Create(<<"a", "a">>, "T_DIRECTORY"),
     Create(<<"a", "a", "b">>, "T_FILE"), Create(<<"b">>, "T_FILE"),
     Create(<<"b", "a">>, "T_FILE"), Create(<<"c">>, "T_FILE"),
     Create(<< >>, "T_FILE"),
     Delete(<<"a">>), Delete(<<"a", "a">>), Delete(<<"a", "a", "b">>),
     Delete(<< >>), Lookup(<<"a", "a", "b">>), Lookup(<< >>), PrintTree}

\* /a, /b and the file /a/c, created in this order.
Entries(seq) == [s \in Slots |-> IF s <= Len(seq) THEN seq[s] ELSE FreeEntry]
E(n, i) == [name |-> n, inumber |-> i]
TwoDirs ==
    <<[i \in Inodes |-> IF i <= 2 THEN "T_DIRECTORY"
                        ELSE IF i = 3 THEN "T_FILE" ELSE "T_NONE"],
      [i \in Inodes |-> IF i = 0 THEN Entries(<<E("a", 1), E("b", 2)>>)
                        ELSE IF i = 1 THEN Entries(<<E("c", 3)>>)
                        ELSE NoEntries]>>
TwoDirsTables == {TwoDirs}

\* Moves between directories, up and down the tree, of files and directories,
\* below the directory moved and onto "/", of and to a name without a slash,
\* with operations that create and delete what is moved.  No move stays in one
\* directory, and none takes a directory from above the parent of the node
\* another moves.  At most five i-nodes are in use at a time.
MoveRequests ==
    {Move(<<"a", "c">>, <<"b", "c">>), Move(<<"b", "c">>, <<"a", "c">>),
     BareMove(<<"a", "c">>, <<"c">>, {"path", "to"}),
     BareMove(<<"c">>, <<"a", "c">>, {"path"}),
     Move(<<"b", "a", "c">>, <<"c">>),
     Move(<<"a">>, <<"b", "a">>), Move(<<"b", "a">>, <<"a">>),
     Move(<<"a">>, <<"a", "b">>), Move(<<"a", "c">>, << >>),
     Create(<<"a", "c">>, "T_FILE"), Delete(<<"b", "c">>), Delete(<<"a">>),
     PrintTree}

\* Requests that keep each other waiting and are all answered: moves in one
\* direction, operations on the directories they lock, and print.
LiveRequests ==
    {Move(<<"a", "c">>, <<"b", "c">>), Create(<<"a", "c">>, "T_FILE"),
     Delete(<<"b", "c">>), Lookup(<<"a", "c">>), PrintTree}

\* "Deadlock entre duas tarefas" (SO/inputs/test5.txt), on /a, /b, /a/c.
DeadlockTest ==
    {Move(<<"a", "c">>, <<"b", "c">>), Create(<<"b", "d">>, "T_DIRECTORY"),
     Move(<<"b", "d">>, <<"a", "d">>)}

\* The workers are interchangeable.
WorkerSymmetry == Permutations(Threads)
=============================================================================
