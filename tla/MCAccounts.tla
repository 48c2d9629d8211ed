----------------------------- MODULE MCAccounts -----------------------------
(* One user and two clients for TLC. *)
EXTENDS Accounts, TLC

CONSTANTS u, p, q, news, other

About(o, w) == [op |-> o, uid |-> u, pass |-> w]
Join(n, name) == [op |-> "GSR", gid |-> n, name |-> name]

MCCommands ==
    {About(o, p) : o \in {"REG", "UNR", "LOG"}}
    \cup {About("REG", q)}
    \cup {[op |-> "OUT", quit |-> b] : b \in BOOLEAN}
    \cup {Join(0, news), Join(1, news), Join(1, other), [op |-> "GUR", gid |-> 1]}

ClientSymmetry == Permutations(Clients)
=============================================================================
