------------------------------ MODULE Accounts ------------------------------
(***************************************************************************)
(* Users, logins, groups and subscriptions of the RC server                *)
(* (RC/Proj/server.c) and the clients that ask for them (RC/Proj/user.c).  *)
(* One process serves the datagrams one after another.  All it knows is in *)
(* files and directories, which it makes and removes one at a time: the    *)
(* server may stop between any two, and is started again with what is left.*)
(* Each of those calls may fail.  A datagram may be lost or come late; a   *)
(* client that gets no answer in time exits, and what it asked for may     *)
(* still be done.                                                          *)
(*                                                                         *)
(* Users, passwords and group names are well formed: the client checks.    *)
(***************************************************************************)
EXTENDS Integers, FiniteSets

CONSTANTS
    Clients, Users, Passwords, Names,
    Commands,        \* what is typed at a client
    Nobody,          \* no user, and a client that has ended
    Absent,          \* no such file
    Blank,           \* an empty file
    MAX_GROUPS,      \* 99 in the code
    MAX_IN_FLIGHT    \* bound on the requests under way

Gids == 1 .. MAX_GROUPS

\* NEW_GROUP is the group number that asks for a new one.
NEW_GROUP == 0

Command ==
         [op : {"REG", "UNR", "LOG"}, uid : Users, pass : Passwords]
    \cup [op : {"OUT"}, quit : BOOLEAN]
    \cup [op : {"GSR"}, gid : Gids \cup {NEW_GROUP}, name : Names]
    \cup [op : {"GUR"}, gid : Gids]

ASSUME CommandsAssumption == Commands \subseteq Command
ASSUME LimitsAssumption == MAX_GROUPS \in Nat /\ MAX_IN_FLIGHT \in Nat
ASSUME ValuesAssumption ==
    /\ {Absent, Blank} \cap (Passwords \cup Names) = {} /\ Absent # Blank
    /\ Nobody \notin Users \cup Passwords \cup Clients

\* A request as the server gets it: who sent it, and about which user.
Request ==
         [op : {"REG", "UNR", "LOG"}, from : Clients \cup {Nobody},
          uid : Users, pass : Passwords]
    \cup [op : {"OUT"}, from : Clients \cup {Nobody}, uid : Users,
          pass : Passwords, quit : BOOLEAN]
    \cup [op : {"GSR"}, from : Clients \cup {Nobody}, uid : Users,
          gid : Gids \cup {NEW_GROUP}, name : Names]
    \cup [op : {"GUR"}, from : Clients \cup {Nobody}, uid : Users, gid : Gids]

NoRequest == [op |-> "none"]

VARIABLES
    dirs,        \* the users that have a directory USERS/uid
    passwords,   \* uid_pass.txt
    logins,      \* the users that have uid_login.txt
    groups,      \* the directories GROUPS/gid: name, users, directory MSG
    pc, req,     \* what the server is doing, and for which request
    status,      \* the answer it is about to send
    net,         \* requests on their way
    uid, pass,   \* who a client takes itself to be logged in as
    waiting,     \* the request a client waits for an answer to
    reply,       \* the answer that has come
    hurt,        \* users that a request has left half way (history)
    unmade,      \* groups that were not made in full (history)
    evicted      \* <<c, u>>: u was logged out or unregistered by another than
                 \* c, or only half unregistered, since c logged in (history)

files == <<dirs, passwords, logins, groups>>
client == <<uid, pass, waiting, reply>>
history == <<hurt, unmade, evicted>>
vars == <<files, pc, req, status, net, client, history>>

Init ==
    /\ dirs = {} /\ logins = {}
    /\ passwords = [u \in Users |-> Absent]
    /\ groups = [g \in {} |-> Absent]
    /\ pc = "idle" /\ req = NoRequest /\ status = "none"
    /\ net = {}
    /\ uid = [c \in Clients |-> Nobody]
    /\ pass = [c \in Clients |-> Nobody]
    /\ waiting = [c \in Clients |-> NoRequest]
    /\ reply = [c \in Clients |-> "none"]
    /\ hurt = {} /\ unmade = {} /\ evicted = {}

-----------------------------------------------------------------------------
\* The operators marked "mutant" are faulty variants used to test the
\* properties; nothing in the specification refers to them.

Existing == DOMAIN groups

\* An empty file leaves the buffer of correct_pass, or of the name, as it was:
\* it may hold anything.
MayBeRight == passwords[req.uid] \in {req.pass, Blank}
MayBeWrong == passwords[req.uid] # req.pass

Reply(s) ==
    /\ pc' = "answer" /\ status' = s
    /\ UNCHANGED <<req, net, client>>

Finish(s) == Reply(s) /\ UNCHANGED history

Goto(label) ==
    /\ pc' = label
    /\ UNCHANGED <<req, status, net, client>>

Goes(label) == Goto(label) /\ UNCHANGED history

Receive ==
    /\ pc = "idle"
    /\ \E m \in net : req' = m /\ net' = net \ {m}
    /\ pc' = "handle"
    /\ UNCHANGED <<files, status, client, history>>

Serves(op) == pc = "handle" /\ req.op = op

\* The group being made: they are numbered as they are counted.
Newest == Cardinality(Existing)

\* The request is given up: what it has begun stays half done.
GivesUp ==
    /\ hurt' = IF pc \in {"openPass", "closePass", "delLogin", "delDir",
                          "delUserFiles"} THEN hurt \cup {req.uid} ELSE hurt
    /\ unmade' = IF pc \in {"mkdirMSG", "openName", "closeName", "newUserFile"}
                 THEN unmade \cup {Newest} ELSE unmade

\* The clients that do not see that their user is logged out.
LoggedInElsewhere == (Clients \ {req.from}) \X {req.uid}

-----------------------------------------------------------------------------
\* reg

RegDuplicated ==
    /\ Serves("REG") /\ req.uid \in dirs
    /\ Finish("DUP") /\ UNCHANGED files

CreateUserDir ==
    /\ Serves("REG") /\ req.uid \notin dirs
    /\ dirs' = dirs \cup {req.uid}
    /\ Goes("openPass") /\ UNCHANGED <<passwords, logins, groups>>

OpenPass ==
    /\ pc = "openPass"
    /\ passwords' = [passwords EXCEPT ![req.uid] = Blank]
    /\ Goes("closePass") /\ UNCHANGED <<dirs, logins, groups>>

ClosePass ==
    /\ pc = "closePass"
    /\ passwords' = [passwords EXCEPT ![req.uid] = req.pass]
    /\ Finish("OK") /\ UNCHANGED <<dirs, logins, groups>>

-----------------------------------------------------------------------------
\* unregister

UnregisterRefused ==
    /\ Serves("UNR") /\ (req.uid \notin dirs \/ MayBeWrong)
    /\ Finish("NOK") /\ UNCHANGED files

DelPassFile ==
    /\ Serves("UNR") /\ req.uid \in dirs /\ MayBeRight
    /\ passwords' = [passwords EXCEPT ![req.uid] = Absent]
    /\ evicted' = evicted \cup LoggedInElsewhere
    /\ Goto("delLogin") /\ UNCHANGED <<dirs, logins, groups, hurt, unmade>>

\* The result is not looked at: the user need not be logged in.
DelLoginFile ==
    /\ pc = "delLogin"
    /\ logins' = logins \ {req.uid}
    /\ Goes("delDir") /\ UNCHANGED <<dirs, passwords, groups>>

\* rmdir succeeds on an empty directory only, and this one is empty by now.
DelUserDir ==
    /\ pc = "delDir"
    /\ passwords[req.uid] = Absent /\ req.uid \notin logins
    /\ dirs' = dirs \ {req.uid}
    /\ Goes("delUserFiles") /\ UNCHANGED <<passwords, logins, groups>>

SubscribedTo(u) == {g \in Existing : u \in groups[g].users}

DelUserFiles ==
    /\ pc = "delUserFiles"
    /\ \E g \in SubscribedTo(req.uid) :
          /\ \A h \in SubscribedTo(req.uid) : g <= h
          /\ groups' = [groups EXCEPT ![g].users = @ \ {req.uid}]
    /\ Goes("delUserFiles") /\ UNCHANGED <<dirs, passwords, logins>>

UnregisteredEarly ==                                                 \* mutant
    /\ pc = "delUserFiles"
    /\ Cardinality(SubscribedTo(req.uid)) <= 1
    /\ Finish("OK") /\ UNCHANGED files

Unregistered ==
    /\ pc = "delUserFiles"
    /\ SubscribedTo(req.uid) = {}
    /\ Finish("OK") /\ UNCHANGED files

-----------------------------------------------------------------------------
\* login and logout

LoginRefused ==
    /\ Serves("LOG") /\ (req.uid \notin dirs \/ MayBeWrong)
    /\ Finish("NOK") /\ UNCHANGED files

Login ==
    /\ Serves("LOG") /\ req.uid \in dirs /\ MayBeRight
    /\ logins' = logins \cup {req.uid}
    /\ evicted' = evicted \ {<<req.from, req.uid>>}
    /\ Reply("OK") /\ UNCHANGED <<dirs, passwords, groups, hurt, unmade>>

LogoutRefused ==
    /\ Serves("OUT")
    /\ req.uid \notin dirs \/ req.uid \notin logins \/ MayBeWrong
    /\ Finish("NOK") /\ UNCHANGED files

Logout ==
    /\ Serves("OUT") /\ req.uid \in dirs /\ req.uid \in logins /\ MayBeRight
    /\ logins' = logins \ {req.uid}
    /\ evicted' = evicted \cup LoggedInElsewhere
    /\ Reply("OK") /\ UNCHANGED <<dirs, passwords, groups, hurt, unmade>>

-----------------------------------------------------------------------------
\* subscribe

LoggedInUnchecked == req.uid \in Users                              \* mutant
LoggedIn == req.uid \in dirs /\ req.uid \in logins

SubscribeRefused ==
    /\ Serves("GSR") /\ ~LoggedIn
    /\ Finish(IF req.uid \in dirs THEN "NOK" ELSE "E_USR") /\ UNCHANGED files

GroupsFull ==
    /\ Serves("GSR") /\ LoggedIn /\ req.gid = NEW_GROUP
    /\ Cardinality(Existing) >= MAX_GROUPS
    /\ Finish("E_FULL") /\ UNCHANGED files

CreateGroupDirAlways ==                                              \* mutant
    /\ Serves("GSR") /\ LoggedIn /\ req.gid = NEW_GROUP
    /\ groups' = [g \in Existing \cup {Newest + 1} |->
                    IF g \in Existing THEN groups[g]
                    ELSE [name |-> Absent, users |-> {}, MSG |-> FALSE]]
    /\ Goes("mkdirMSG") /\ UNCHANGED <<dirs, passwords, logins>>

CreateGroupDir ==
    /\ Serves("GSR") /\ LoggedIn /\ req.gid = NEW_GROUP
    /\ Cardinality(Existing) < MAX_GROUPS
    /\ groups' = [g \in Existing \cup {Newest + 1} |->
                    IF g \in Existing THEN groups[g]
                    ELSE [name |-> Absent, users |-> {}, MSG |-> FALSE]]
    /\ Goes("mkdirMSG") /\ UNCHANGED <<dirs, passwords, logins>>

CreateMSG ==
    /\ pc = "mkdirMSG"
    /\ groups' = [groups EXCEPT ![Newest].MSG = TRUE]
    /\ Goes("openName") /\ UNCHANGED <<dirs, passwords, logins>>

OpenName ==
    /\ pc = "openName"
    /\ groups' = [groups EXCEPT ![Newest].name = Blank]
    /\ Goes("closeName") /\ UNCHANGED <<dirs, passwords, logins>>

CloseName ==
    /\ pc = "closeName"
    /\ groups' = [groups EXCEPT ![Newest].name = req.name]
    /\ Goes("newUserFile") /\ UNCHANGED <<dirs, passwords, logins>>

NewUserFile ==
    /\ pc = "newUserFile"
    /\ groups' = [groups EXCEPT ![Newest].users = @ \cup {req.uid}]
    /\ Finish("NEW") /\ UNCHANGED <<dirs, passwords, logins>>

ToExisting == Serves("GSR") /\ LoggedIn /\ req.gid # NEW_GROUP

NoSuchGroup ==
    /\ ToExisting /\ req.gid \notin Existing
    /\ Finish("E_GRP") /\ UNCHANGED files

NoNameFile ==
    /\ ToExisting /\ req.gid \in Existing /\ groups[req.gid].name = Absent
    /\ Finish("NOK") /\ UNCHANGED files

WrongName ==
    /\ ToExisting /\ req.gid \in Existing
    /\ groups[req.gid].name \notin {Absent, req.name}
    /\ Finish("E_GNAME") /\ UNCHANGED files

Subscribe ==
    /\ ToExisting /\ req.gid \in Existing
    /\ groups[req.gid].name \in {req.name, Blank}
    /\ groups' = [groups EXCEPT ![req.gid].users = @ \cup {req.uid}]
    /\ Finish("OK") /\ UNCHANGED <<dirs, passwords, logins>>

-----------------------------------------------------------------------------
\* unsubscribe

UnsubscribeRefused ==
    /\ Serves("GUR")
    /\ \/ ~LoggedIn /\ Finish("E_USR")
       \/ LoggedIn /\ req.gid \notin Existing /\ Finish("E_GRP")
       \/ LoggedIn /\ req.gid \in Existing
             /\ req.uid \notin groups[req.gid].users /\ Finish("NOK")
    /\ UNCHANGED files

Unsubscribe ==
    /\ Serves("GUR") /\ LoggedIn /\ req.gid \in SubscribedTo(req.uid)
    /\ groups' = [groups EXCEPT ![req.gid].users = @ \ {req.uid}]
    /\ Finish("OK") /\ UNCHANGED <<dirs, passwords, logins>>

-----------------------------------------------------------------------------
\* Calls that fail: mkdir, fopen, unlink or rmdir.  The result of one is not
\* looked at, the unlink of a subscription in unregister: it does not fail here.

\* The first change of a request: nothing has been done.
FirstCallFails ==
    /\ \/ Serves("REG") /\ req.uid \notin dirs
       \/ /\ req.op \in {"UNR", "LOG", "OUT"} /\ Serves(req.op)
          /\ req.uid \in dirs /\ MayBeRight
          /\ req.op = "OUT" => req.uid \in logins
       \/ ToExisting /\ req.gid \in Existing
       \/ Serves("GUR") /\ LoggedIn /\ req.gid \in SubscribedTo(req.uid)
    /\ Finish("NOK") /\ UNCHANGED files

\* A later one: a user without a password file, a group without a name or
\* without the user that made it.
LaterCallFails ==
    /\ pc \in {"openPass", "openName", "newUserFile"}
    /\ GivesUp /\ Reply("NOK") /\ UNCHANGED <<files, evicted>>

\* unregister goes on and cannot remove the directory.
DelLoginFileFails ==
    /\ pc = "delLogin"
    /\ Goes("delDir") /\ UNCHANGED files

\* The user stays, without a password, and whoever is logged in does not know.
DelUserDirFails ==
    /\ pc = "delDir"
    /\ GivesUp /\ evicted' = evicted \cup (Clients \X {req.uid})
    /\ Reply("NOK") /\ UNCHANGED files

\* There is no answer when a group or its MSG cannot be made.
CreateGroupDirFails ==
    /\ \/ Serves("GSR") /\ LoggedIn /\ req.gid = NEW_GROUP
             /\ Cardinality(Existing) < MAX_GROUPS
       \/ pc = "mkdirMSG"
    /\ GivesUp
    /\ pc' = "idle" /\ status' = "none" /\ req' = NoRequest
    /\ UNCHANGED <<files, net, client, evicted>>

-----------------------------------------------------------------------------
\* The server's answer, and its end.

Answer ==
    /\ pc = "answer"
    /\ \/ req.from \in Clients /\ reply' = [reply EXCEPT ![req.from] = status]
       \/ UNCHANGED reply                            \* lost, or nobody waits
    /\ pc' = "idle" /\ status' = "none" /\ req' = NoRequest
    /\ UNCHANGED <<files, net, uid, pass, waiting, history>>

\* The server stops half way and is started again.
Crash ==
    /\ pc # "idle"
    /\ GivesUp
    /\ pc' = "idle" /\ status' = "none" /\ req' = NoRequest
    /\ UNCHANGED <<files, net, client, evicted>>

Lost ==
    /\ \E m \in net : net' = net \ {m}
    /\ UNCHANGED <<files, pc, req, status, client, history>>

-----------------------------------------------------------------------------
\* Clients.

Send(c, m) ==
    /\ waiting[c] = NoRequest
    /\ Cardinality(net) < MAX_IN_FLIGHT
    /\ net' = net \cup {m}
    /\ waiting' = [waiting EXCEPT ![c] = m]
    /\ UNCHANGED <<files, pc, req, status, uid, pass, reply, history>>

\* reg, unregister and login name a user; login only if logged out.
SendAbout(c, k) ==
    /\ k.op \in {"REG", "UNR", "LOG"}
    /\ k.op = "LOG" => uid[c] = Nobody
    /\ Send(c, [op |-> k.op, from |-> c, uid |-> k.uid, pass |-> k.pass])

\* logout, also as part of exit.
SendLogout(c, k) ==
    /\ k.op = "OUT" /\ uid[c] # Nobody
    /\ Send(c, [op |-> "OUT", from |-> c, uid |-> uid[c], pass |-> pass[c],
                quit |-> k.quit])

SendSubscribe(c, k) ==
    /\ k.op = "GSR" /\ uid[c] # Nobody
    /\ Send(c, [op |-> "GSR", from |-> c, uid |-> uid[c], gid |-> k.gid,
                name |-> k.name])

SendUnsubscribe(c, k) ==
    /\ k.op = "GUR" /\ uid[c] # Nobody
    /\ Send(c, [op |-> "GUR", from |-> c, uid |-> uid[c], gid |-> k.gid])

\* What the answer makes of the login of a client.
LogsIn(c) == waiting[c].op = "LOG" /\ reply[c] = "OK"
LogsOutForgetful(c) ==                                               \* mutant
    waiting[c].op = "OUT" /\ (reply[c] = "OK" \/ waiting[c].quit)
LogsOut(c) ==
    \/ waiting[c].op = "OUT" /\ (reply[c] = "OK" \/ waiting[c].quit)
    \/ waiting[c].op = "UNR" /\ reply[c] = "OK" /\ waiting[c].uid = uid[c]

GetReply(c) ==
    /\ reply[c] # "none"
    /\ uid' = [uid EXCEPT ![c] = IF LogsIn(c) THEN waiting[c].uid
                                 ELSE IF LogsOut(c) THEN Nobody ELSE @]
    /\ pass' = [pass EXCEPT ![c] = IF LogsIn(c) THEN waiting[c].pass
                                   ELSE IF LogsOut(c) THEN Nobody ELSE @]
    /\ waiting' = [waiting EXCEPT ![c] = NoRequest]
    /\ reply' = [reply EXCEPT ![c] = "none"]
    /\ UNCHANGED <<files, pc, req, status, net, history>>

\* What the client had sent now comes from nobody.
Orphan(c, m) == IF m # NoRequest /\ m.from = c THEN [m EXCEPT !.from = Nobody]
                ELSE m

\* recvfrom times out and the client exits; another is started.
Timeout(c) ==
    /\ waiting[c] # NoRequest
    /\ uid' = [uid EXCEPT ![c] = Nobody]
    /\ pass' = [pass EXCEPT ![c] = Nobody]
    /\ waiting' = [waiting EXCEPT ![c] = NoRequest]
    /\ reply' = [reply EXCEPT ![c] = "none"]
    /\ net' = {Orphan(c, m) : m \in net}
    /\ req' = Orphan(c, req)
    /\ UNCHANGED <<files, pc, status, history>>

Server ==
    \/ Receive \/ Answer
    \/ RegDuplicated \/ CreateUserDir \/ OpenPass \/ ClosePass
    \/ UnregisterRefused \/ DelPassFile \/ DelLoginFile \/ DelUserDir
    \/ DelUserFiles \/ Unregistered
    \/ LoginRefused \/ Login \/ LogoutRefused \/ Logout
    \/ SubscribeRefused \/ GroupsFull \/ CreateGroupDir \/ CreateMSG \/ OpenName
    \/ CloseName \/ NewUserFile \/ NoSuchGroup \/ NoNameFile \/ WrongName
    \/ Subscribe \/ UnsubscribeRefused \/ Unsubscribe
    \/ FirstCallFails \/ LaterCallFails \/ DelLoginFileFails \/ DelUserDirFails
    \/ CreateGroupDirFails

Client(c) ==
    \/ \E k \in Commands : \/ SendAbout(c, k) \/ SendLogout(c, k)
                           \/ SendSubscribe(c, k) \/ SendUnsubscribe(c, k)
    \/ GetReply(c) \/ Timeout(c)

Next == Server \/ Crash \/ Lost \/ \E c \in Clients : Client(c)

Spec == Init /\ [][Next]_vars

-----------------------------------------------------------------------------
\* Properties.

Group == [name : Names \cup {Absent, Blank}, users : SUBSET Users, MSG : BOOLEAN]

Labels == {"idle", "handle", "openPass", "closePass", "delLogin", "delDir",
           "delUserFiles", "mkdirMSG", "openName", "closeName", "newUserFile",
           "answer"}

Statuses == {"none", "OK", "DUP", "NOK", "NEW", "E_USR", "E_GRP", "E_GNAME",
             "E_FULL"}

\* Every variable keeps its type, groups are numbered without gaps and a client
\* that knows a user knows a password.
TypeOK ==
    /\ dirs \subseteq Users /\ logins \subseteq Users
    /\ passwords \in [Users -> Passwords \cup {Absent, Blank}]
    /\ Existing \subseteq Gids /\ Existing = 1 .. Newest
    /\ groups \in [Existing -> Group]
    /\ pc \in Labels /\ req \in Request \cup {NoRequest}
    /\ pc = "idle" <=> req = NoRequest
    /\ status \in Statuses
    /\ net \subseteq Request
    /\ uid \in [Clients -> Users \cup {Nobody}]
    /\ pass \in [Clients -> Passwords \cup {Nobody}]
    /\ \A c \in Clients : uid[c] # Nobody => pass[c] # Nobody
    /\ waiting \in [Clients -> Request \cup {NoRequest}]
    /\ reply \in [Clients -> Statuses]
    /\ hurt \subseteq Users /\ unmade \subseteq Gids
    /\ evicted \subseteq Clients \X Users

\* Between two requests a user has a directory and a password or neither, only
\* users with a directory are subscribed, and a group has its name and its MSG:
\* a crash or a failed call undoes this for the one user or group the request
\* was about, for ever, as it is not repaired.  Even then nobody without a
\* directory is logged in or has a password, and no group without a name has
\* users.
DirectoryWhole ==
    pc = "idle" =>
        /\ \A u \in Users \ hurt :
              IF u \in dirs THEN passwords[u] \in Passwords
              ELSE passwords[u] = Absent /\ SubscribedTo(u) = {}
        /\ \A g \in Existing \ unmade : groups[g].name \in Names /\ groups[g].MSG
        /\ logins \subseteq dirs
        /\ \A u \in Users : passwords[u] # Absent => u \in dirs
        /\ \A g \in Existing : /\ groups[g].users # {} => groups[g].name # Absent
                               /\ groups[g].name # Absent => groups[g].MSG

\* When the server answers that it has done something it has been done in
\* full, whatever earlier crashes have left: nothing of an unregistered user
\* is left, in no group.
DoneWhenTold ==
    pc = "answer" =>
        /\ req.op = "REG" /\ status = "OK" =>
              req.uid \in dirs /\ passwords[req.uid] = req.pass
        /\ req.op = "UNR" /\ status = "OK" =>
              /\ req.uid \notin dirs \cup logins
              /\ passwords[req.uid] = Absent
              /\ SubscribedTo(req.uid) = {}
        /\ status = "NEW" => /\ groups[Newest].name = req.name
                             /\ groups[Newest].MSG
                             /\ groups[Newest].users = {req.uid}

\* A client that takes itself to be logged in is, with the password it knows
\* (unless a crash has left the password file empty), until a request of another
\* client, or an unregister that fails half way, has put its user out.  No lost
\* or late datagram, timeout or crash makes it wrong.
BelievesLogin ==
    \A c \in Clients :
        uid[c] # Nobody /\ waiting[c].op \notin {"OUT", "UNR"}
            /\ <<c, uid[c]>> \notin evicted =>
                  uid[c] \in logins /\ passwords[uid[c]] \in {pass[c], Blank}

=============================================================================
