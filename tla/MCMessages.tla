----------------------------- MODULE MCMessages -----------------------------
(* A group with two users for TLC. *)
EXTENDS Messages, TLC

CONSTANTS u1, u2, hello, bye, essay

PostIt(u, t, f, s) ==
    [op |-> "post", uid |-> u, text |-> t, file |-> f, sent |-> s]
Fetch(u, n) == [op |-> "retrieve", uid |-> u, first |-> n]

\* Posts by both users: one with a file, one too long, one cut short; retrieves
\* from the first message and from a message 0 on.
MCRequests == {PostIt(u1, hello, FALSE, "all"), PostIt(u2, bye, TRUE, "all"),
               PostIt(u1, bye, FALSE, "cut"), PostIt(u1, essay, FALSE, "all"),
               Fetch(u1, 1), Fetch(u1, 0)}

ConnectionSymmetry == Permutations(Connections)
=============================================================================
