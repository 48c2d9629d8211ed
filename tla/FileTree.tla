------------------------------ MODULE FileTree ------------------------------
(***************************************************************************)
(* What TecnicoFS promises its clients: every request they send takes      *)
(* effect at one instant between its arrival and its answer, on one tree   *)
(* of files and directories, without i-nodes, entries, threads or locks.   *)
(***************************************************************************)
EXTENDS Integers, Sequences, FiniteSets

CONSTANTS
    Threads,           \* one request at a time for each worker
    Requests,
    MAX_DIR_ENTRIES,   \* nodes in a directory at most
    Ample              \* the table is so large that it never runs out

NoRequest == [op |-> "none"]

VARIABLES
    tree,      \* the nodes, each with its path and its type
    lost,      \* i-nodes used up by creates that failed
    request,   \* the request each worker serves
    answer     \* "none", "pending", "success" or "fail"

vars == <<tree, lost, request, answer>>

\* Any tree whose nodes are in directories.
Init ==
    /\ [path |-> << >>, type |-> "T_DIRECTORY"] \in tree
    /\ \A n \in tree : n.path # << >> =>
          \E d \in tree : d.type = "T_DIRECTORY"
              /\ d.path = SubSeq(n.path, 1, Len(n.path) - 1)
    /\ lost = 0
    /\ request = [t \in Threads |-> NoRequest]
    /\ answer = [t \in Threads |-> "none"]

Call(t) ==
    /\ answer[t] = "none"
    /\ \E r \in Requests : request' = [request EXCEPT ![t] = r]
    /\ answer' = [answer EXCEPT ![t] = "pending"]
    /\ UNCHANGED <<tree, lost>>

Reply(t) ==
    /\ answer[t] \in {"success", "fail"}
    /\ request' = [request EXCEPT ![t] = NoRequest]
    /\ answer' = [answer EXCEPT ![t] = "none"]
    /\ UNCHANGED <<tree, lost>>

-----------------------------------------------------------------------------
\* The tree.

Exists(p) == \E n \in tree : n.path = p
IsDirectory(p) == [path |-> p, type |-> "T_DIRECTORY"] \in tree
Parent(p) == SubSeq(p, 1, Len(p) - 1)
Within(q, p) == Len(q) >= Len(p) /\ SubSeq(q, 1, Len(p)) = p
Children(p) == {n \in tree : Len(n.path) = Len(p) + 1 /\ Within(n.path, p)}
Full(p) == Cardinality(Children(p)) >= MAX_DIR_ENTRIES

\* p and everything below it, under the path q.
Renamed(r, p, q) ==
    IF Within(r, p) THEN q \o SubSeq(r, Len(p) + 1, Len(r)) ELSE r
Moved(p, q) == {[n EXCEPT !.path = Renamed(@, p, q)] : n \in tree}

\* A place where a node can be put.
CanPut(p) == p # << >> /\ IsDirectory(Parent(p)) /\ ~Exists(p)

-----------------------------------------------------------------------------
\* The instant a request takes effect.

Serve(t, op, res) ==
    /\ answer[t] = "pending" /\ request[t].op = op
    /\ answer' = [answer EXCEPT ![t] = res]
    /\ UNCHANGED request

Create(t) ==
    LET p == request[t].path
    IN  \/ /\ Serve(t, "create", "success")
           /\ CanPut(p) /\ ~Full(Parent(p))
           /\ tree' = tree \cup {[path |-> p, type |-> request[t].type]}
           /\ UNCHANGED lost
        \/ /\ Serve(t, "create", "fail")
           /\ p # << >> /\ ~CanPut(p)
           /\ UNCHANGED <<tree, lost>>
        \* no i-node was found
        \/ /\ Serve(t, "create", "fail")
           /\ ~Ample
           /\ UNCHANGED <<tree, lost>>
        \* the directory has no room, or "/" was to be created
        \/ /\ Serve(t, "create", "fail")
           /\ p = << >> \/ (CanPut(p) /\ Full(Parent(p)))
           /\ lost' = lost + 1
           /\ UNCHANGED tree

Delete(t) ==
    LET p == request[t].path
        deletable == p # << >> /\ Exists(p) /\ Children(p) = {}
    IN  /\ UNCHANGED lost
        /\ \/ /\ Serve(t, "delete", "success")
              /\ deletable
              /\ tree' = {n \in tree : n.path # p}
           \/ /\ Serve(t, "delete", "fail")
              /\ ~deletable
              /\ UNCHANGED tree

Move(t) ==
    LET p == request[t].path
        q == request[t].to
        movable == /\ p # << >> /\ Exists(p)
                   /\ CanPut(q) /\ ~Within(q, p) /\ ~Full(Parent(q))
    IN  /\ UNCHANGED lost
        /\ \/ /\ Serve(t, "move", "success")
              /\ movable
              /\ tree' = Moved(p, q)
           \/ /\ Serve(t, "move", "fail")
              /\ ~movable
              /\ UNCHANGED tree

Lookup(t) ==
    /\ Serve(t, "lookup", IF Exists(request[t].path) THEN "success" ELSE "fail")
    /\ UNCHANGED <<tree, lost>>

\* It fails when the output file cannot be opened.
PrintTree(t) ==
    /\ \E res \in {"success", "fail"} : Serve(t, "print", res)
    /\ UNCHANGED <<tree, lost>>

Next == \E t \in Threads :
    Call(t) \/ Create(t) \/ Delete(t) \/ Move(t) \/ Lookup(t) \/ PrintTree(t)
        \/ Reply(t)

Spec == Init /\ [][Next]_vars
=============================================================================
