--------------------------- MODULE AccountsProofs ---------------------------
(***************************************************************************)
(* Theorems about Accounts, for any clients, users, passwords, names and   *)
(* commands, and any limits.                                               *)
(***************************************************************************)
EXTENDS Accounts, TLAPS, FiniteSetTheorems

-----------------------------------------------------------------------------
\* The inductive invariant.

Registering == {"openPass", "closePass"}
Unregistering == {"delLogin", "delDir", "delUserFiles"}
MakingGroup == {"mkdirMSG", "openName", "closeName", "newUserFile"}

\* What has been done of the request that is served, and what is in a directory.
DoneSoFar ==
    /\ \A u \in Users : u \notin dirs => passwords[u] = Absent /\ u \notin logins
    /\ pc = "openPass" => passwords[req.uid] = Absent
    /\ pc = "closePass" => passwords[req.uid] = Blank
    /\ pc \in Registering => /\ req.op = "REG" /\ req.uid \in dirs
                             /\ req.uid \notin logins
    /\ pc \in Unregistering => req.op = "UNR" /\ passwords[req.uid] = Absent
    /\ pc = "delUserFiles" => req.uid \notin dirs
    /\ pc \in MakingGroup => /\ req.op = "GSR" /\ req.uid \in dirs
                             /\ Newest \in Existing
                             /\ groups[Newest].users = {}
    /\ pc \in MakingGroup \ {"mkdirMSG"} => groups[Newest].MSG
    /\ pc = "newUserFile" => groups[Newest].name = req.name
    /\ pc = "answer" /\ status = "NEW" => req.op = "GSR"

\* A user that no request has left half way.
Whole(u) == IF u \in dirs THEN passwords[u] \in Passwords
            ELSE passwords[u] = Absent /\ SubscribedTo(u) = {}

\* The user the request is about, half way.
InWork(u) == req.uid = u /\ pc \in Registering \cup Unregistering

\* A group, and what there is of it while it is made and when it is not made in
\* full.
Made(g) ==
    /\ groups[g].users # {} => groups[g].name # Absent
    /\ groups[g].name # Absent => groups[g].MSG
    /\ \/ groups[g].name \in Names /\ groups[g].MSG
       \/ g \in unmade
       \/ pc \in MakingGroup /\ g = Newest

WholeBut ==
    /\ \A u \in Users : Whole(u) \/ InWork(u) \/ u \in hurt
    /\ \A g \in Existing : Made(g)

IInv == TypeOK /\ DoneSoFar /\ DoneWhenTold /\ WholeBut

-----------------------------------------------------------------------------
LEMMA ReqTypes ==
    ASSUME TypeOK, pc # "idle"
    PROVE  /\ req \in Request /\ req.uid \in Users
           /\ req.op \in {"REG", "UNR", "LOG", "OUT"} => req.pass \in Passwords
           /\ req.op = "GSR" => req.name \in Names
<1>1. req \in Request
  BY DEF TypeOK
<1>2. req.uid \in Users
  BY <1>1 DEF Request
<1>3. req.op \in {"REG", "UNR", "LOG", "OUT"} => req.pass \in Passwords
  BY <1>1 DEF Request
<1>4. req.op = "GSR" => req.name \in Names
  BY <1>1 DEF Request
<1>5. QED
  BY <1>1, <1>2, <1>3, <1>4

LEMMA InitIInv == Init => IInv
<1> SUFFICES ASSUME Init PROVE IInv
  OBVIOUS
<1>1. Existing = {} /\ Newest = 0
  BY FS_EmptySet DEF Init, Existing, Newest
<1>2. groups \in [Existing -> Group]
  BY <1>1 DEF Init
<1>3. NoRequest \notin Request
  BY DEF Request, NoRequest
<1>4. TypeOK
  <2>1. Existing \subseteq Gids /\ Existing = 1 .. Newest
    BY <1>1
  <2>2. "idle" \in Labels /\ "none" \in Statuses
    BY DEF Labels, Statuses
  <2>3. QED
    BY <1>2, <2>1, <2>2, Zenon DEF Init, TypeOK
<1>5. DoneSoFar /\ DoneWhenTold
  BY DEF Init, DoneSoFar, DoneWhenTold, Registering, Unregistering, MakingGroup
<1>6. WholeBut
  BY <1>1 DEF Init, WholeBut, Whole, SubscribedTo
<1>7. QED
  BY <1>4, <1>5, <1>6 DEF IInv

-----------------------------------------------------------------------------
\* Steps that leave the files alone.

LEMMA SameState ==
    ASSUME IInv, TypeOK', UNCHANGED <<files, pc, status, hurt, unmade>>,
           req'.op = req.op, req'.uid = req.uid,
           req.op = "REG" => req'.pass = req.pass,
           req.op = "GSR" => req'.name = req.name
    PROVE  IInv'
<1> USE DEF files
<1>1. Existing' = Existing /\ Newest' = Newest
  BY DEF Existing, Newest
<1>2. DoneSoFar'
  BY <1>1 DEF IInv, DoneSoFar, Registering, Unregistering, MakingGroup
<1>3. DoneWhenTold'
  <2>1. SubscribedTo(req.uid)' = SubscribedTo(req.uid)
    BY <1>1 DEF SubscribedTo
  <2>2. QED
    BY <1>1, <2>1 DEF IInv, DoneSoFar, DoneWhenTold, SubscribedTo
<1>4. \A u \in Users : Whole(u)' = Whole(u) /\ InWork(u)' = InWork(u)
  BY <1>1 DEF Whole, InWork, SubscribedTo
<1>5. WholeBut'
  BY <1>1, <1>4 DEF IInv, WholeBut, Made
<1>6. QED
  BY <1>2, <1>3, <1>5 DEF IInv

LEMMA GivesUpTypes ==
    ASSUME IInv, pc # "idle", GivesUp
    PROVE  hurt' \subseteq Users /\ unmade' \subseteq Gids
<1>1. req.uid \in Users
  BY ReqTypes DEF IInv
<1>2. pc \in MakingGroup => Newest \in Gids
  BY DEF IInv, TypeOK, DoneSoFar
<1>3. QED
  BY <1>1, <1>2 DEF GivesUp, IInv, TypeOK, MakingGroup

\* What a request leaves undone when it ends is known to be undone.
LEMMA NothingInWork ==
    ASSUME IInv, UNCHANGED files, pc' \in {"idle", "answer"},
           Existing' = Existing,
           \/ /\ UNCHANGED <<hurt, unmade>>
              /\ \/ pc \in {"handle", "answer"}
                 \/ pc = "delUserFiles" /\ SubscribedTo(req.uid) = {}
           \/ pc # "idle" /\ GivesUp
    PROVE  WholeBut'
<1> USE DEF files
<1>1. ASSUME NEW u \in Users PROVE Whole(u)' \/ u \in hurt'
  <2>1. Whole(u)' = Whole(u)
    BY DEF Whole, SubscribedTo
  <2>2. u \in hurt => u \in hurt'
    BY DEF GivesUp
  <2>3. InWork(u) => Whole(u) \/ u \in hurt'
    BY DEF InWork, GivesUp, Registering, Unregistering, IInv, DoneSoFar, Whole
  <2>4. QED
    BY <2>1, <2>2, <2>3 DEF IInv, WholeBut
<1>2. ASSUME NEW g \in Existing PROVE Made(g)'
  <2>1. Made(g)
    BY DEF IInv, WholeBut
  <2>2. g \in unmade => g \in unmade'
    BY DEF GivesUp
  <2>3. pc \in MakingGroup /\ g = Newest => g \in unmade'
    BY DEF GivesUp, MakingGroup
  <2>4. QED
    BY <2>1, <2>2, <2>3 DEF Made
<1>3. QED
  BY <1>1, <1>2 DEF WholeBut

\* A request is refused, or has nothing more to be done, or is given up.
LEMMA FinishOnly ==
    ASSUME IInv, UNCHANGED files, NEW s \in Statuses, Reply(s),
           evicted' \subseteq Clients \X Users,
           \/ /\ UNCHANGED <<hurt, unmade>>
              /\ \/ pc = "handle" /\ s \notin {"OK", "NEW"}
                 \/ pc = "delUserFiles" /\ s # "NEW" /\ SubscribedTo(req.uid) = {}
           \/ pc # "idle" /\ s \notin {"OK", "NEW"} /\ GivesUp
    PROVE  IInv'
<1> USE DEF files, Reply, client
<1>1. Existing' = Existing /\ Newest' = Newest
  BY DEF Existing, Newest
<1>2. \/ pc = "handle" /\ UNCHANGED <<hurt, unmade>>
      \/ /\ pc = "delUserFiles" /\ SubscribedTo(req.uid) = {}
         /\ UNCHANGED <<hurt, unmade>>
      \/ pc # "idle" /\ GivesUp
  OBVIOUS
<1>3. hurt' \subseteq Users /\ unmade' \subseteq Gids /\ evicted' \subseteq Clients \X Users
  BY <1>2, GivesUpTypes DEF IInv, TypeOK
<1>4. TypeOK'
  <2>1. s \in Statuses /\ pc' = "answer" /\ status' = s /\ pc # "idle"
    BY <1>2
  <2>2. QED
    BY <1>1, <1>3, <2>1 DEF IInv, TypeOK, Labels
<1>5. DoneSoFar'
  BY <1>1 DEF IInv, DoneSoFar, Registering, Unregistering, MakingGroup
<1>6. DoneWhenTold'
  <2>1. SubscribedTo(req.uid)' = SubscribedTo(req.uid)
    BY <1>1 DEF SubscribedTo
  <2>2. req.uid \in Users
    BY <1>2, ReqTypes DEF IInv
  <2>3. s = "OK" => /\ SubscribedTo(req.uid) = {} /\ req.op = "UNR"
                    /\ req.uid \notin dirs \cup logins
                    /\ passwords[req.uid] = Absent
    BY <2>2 DEF IInv, DoneSoFar, Unregistering
  <2>4. QED
    BY <2>1, <2>3 DEF DoneWhenTold
<1>7. WholeBut'
  BY <1>1, <1>2, NothingInWork
<1>8. QED
  BY <1>4, <1>5, <1>6, <1>7 DEF IInv

\* The answer is sent, or the server stops.
LEMMA BackToIdle ==
    ASSUME IInv, UNCHANGED <<files, net, uid, pass, waiting, evicted>>,
           reply' \in [Clients -> Statuses],
           pc' = "idle", req' = NoRequest, status' = "none",
           \/ pc = "answer" /\ UNCHANGED <<hurt, unmade>>
           \/ pc # "idle" /\ GivesUp
    PROVE  IInv'
<1> USE DEF files
<1>1. Existing' = Existing /\ Newest' = Newest
  BY DEF Existing, Newest
<1>2. hurt' \subseteq Users /\ unmade' \subseteq Gids
  BY GivesUpTypes DEF IInv, TypeOK
<1>3. TypeOK'
  BY <1>1, <1>2 DEF IInv, TypeOK, Labels, Statuses
<1>4. DoneSoFar' /\ DoneWhenTold'
  BY DEF IInv, DoneSoFar, DoneWhenTold, Registering, Unregistering, MakingGroup
<1>5. WholeBut'
  BY <1>1, NothingInWork
<1>6. QED
  BY <1>3, <1>4, <1>5 DEF IInv

-----------------------------------------------------------------------------
\* Steps in USERS: the groups stay as they are, and so do other users.

LEMMA UserStep ==
    ASSUME IInv, TypeOK', pc # "idle", UNCHANGED <<groups, req, hurt, unmade>>,
           \A u \in Users \ {req.uid} : /\ u \in dirs' <=> u \in dirs
                                        /\ u \in logins' <=> u \in logins
                                        /\ passwords'[u] = passwords[u],
           pc \notin MakingGroup, pc' \notin MakingGroup,
           Whole(req.uid)' \/ InWork(req.uid)' \/ req.uid \in hurt
    PROVE  WholeBut'
<1>1. Existing' = Existing /\ Newest' = Newest
  BY DEF Existing, Newest
<1>2. ASSUME NEW u \in Users, u # req.uid, u \notin hurt PROVE Whole(u)'
  <2>1. Whole(u)
    BY <1>2 DEF IInv, WholeBut, InWork
  <2>2. QED
    BY <1>1, <1>2, <2>1 DEF Whole, SubscribedTo
<1>3. \A g \in Existing' : Made(g)'
  BY <1>1 DEF IInv, WholeBut, Made
<1>4. QED
  BY <1>2, <1>3 DEF WholeBut

LEMMA CreateUserDirInv == IInv /\ CreateUserDir => IInv'
<1> SUFFICES ASSUME IInv, CreateUserDir PROVE IInv'
  OBVIOUS
<1> USE DEF CreateUserDir, Goes, Goto, Serves, client, history
<1>1. pc # "idle" /\ req.uid \in Users /\ UNCHANGED <<groups, req, hurt, unmade>>
      /\ (req.op \in {"REG", "UNR", "LOG", "OUT"} => req.pass \in Passwords)
      /\ Existing' = Existing /\ Newest' = Newest
  BY ReqTypes DEF IInv, Existing, Newest
<1>2. TypeOK'
  BY <1>1 DEF IInv, TypeOK, Labels, Statuses, DoneSoFar, Registering
<1>3. DoneSoFar'
  BY <1>1
  DEF IInv, TypeOK, DoneSoFar, DoneWhenTold, Registering, Unregistering,
      MakingGroup
<1>4. DoneWhenTold'
  BY <1>1
  DEF IInv, TypeOK, DoneSoFar, DoneWhenTold, Registering, Unregistering,
      MakingGroup
<1>5. Whole(req.uid)' \/ InWork(req.uid)' \/ req.uid \in hurt
  <2>1. req.uid \in hurt \/ Whole(req.uid)
    BY <1>1 DEF IInv, WholeBut, InWork, Registering, Unregistering
  <2>2. QED
    BY <1>1, <2>1, ValuesAssumption DEF IInv, TypeOK, DoneSoFar, Whole, InWork,
       Registering, Unregistering, MayBeRight
<1>6. \A u \in Users \ {req.uid} : /\ u \in dirs' <=> u \in dirs
                                   /\ u \in logins' <=> u \in logins
                                   /\ passwords'[u] = passwords[u]
  BY DEF IInv, TypeOK
<1>7. WholeBut'
  BY <1>1, <1>2, <1>5, <1>6, UserStep DEF MakingGroup
<1>8. QED
  BY <1>2, <1>3, <1>4, <1>7 DEF IInv

LEMMA OpenPassInv == IInv /\ OpenPass => IInv'
<1> SUFFICES ASSUME IInv, OpenPass PROVE IInv'
  OBVIOUS
<1> USE DEF OpenPass, Goes, Goto, Serves, client, history
<1>1. pc # "idle" /\ req.uid \in Users /\ UNCHANGED <<groups, req, hurt, unmade>>
      /\ (req.op \in {"REG", "UNR", "LOG", "OUT"} => req.pass \in Passwords)
      /\ Existing' = Existing /\ Newest' = Newest
  BY ReqTypes DEF IInv, Existing, Newest
<1>2. TypeOK'
  BY <1>1 DEF IInv, TypeOK, Labels, Statuses, DoneSoFar, Registering
<1>3. DoneSoFar'
  BY <1>1
  DEF IInv, TypeOK, DoneSoFar, DoneWhenTold, Registering, Unregistering,
      MakingGroup
<1>4. DoneWhenTold'
  BY <1>1
  DEF IInv, TypeOK, DoneSoFar, DoneWhenTold, Registering, Unregistering,
      MakingGroup
<1>5. Whole(req.uid)' \/ InWork(req.uid)' \/ req.uid \in hurt
  <2>1. req.uid \in hurt \/ Whole(req.uid) \/ InWork(req.uid)
    BY <1>1 DEF IInv, WholeBut
  <2>2. QED
    BY <1>1, <2>1, ValuesAssumption DEF IInv, TypeOK, DoneSoFar, Whole, InWork,
       Registering, Unregistering
<1>6. \A u \in Users \ {req.uid} : /\ u \in dirs' <=> u \in dirs
                                   /\ u \in logins' <=> u \in logins
                                   /\ passwords'[u] = passwords[u]
  BY DEF IInv, TypeOK
<1>7. WholeBut'
  BY <1>1, <1>2, <1>5, <1>6, UserStep DEF MakingGroup
<1>8. QED
  BY <1>2, <1>3, <1>4, <1>7 DEF IInv

LEMMA ClosePassInv == IInv /\ ClosePass => IInv'
<1> SUFFICES ASSUME IInv, ClosePass PROVE IInv'
  OBVIOUS
<1> USE DEF ClosePass, Finish, Reply, Serves, client, history
<1>1. pc # "idle" /\ req.uid \in Users /\ UNCHANGED <<groups, req, hurt, unmade>>
      /\ (req.op \in {"REG", "UNR", "LOG", "OUT"} => req.pass \in Passwords)
      /\ Existing' = Existing /\ Newest' = Newest
  BY ReqTypes DEF IInv, Existing, Newest
<1>2. TypeOK'
  BY <1>1 DEF IInv, TypeOK, Labels, Statuses, DoneSoFar, Registering
<1>3. DoneSoFar'
  BY <1>1
  DEF IInv, TypeOK, DoneSoFar, DoneWhenTold, Registering, Unregistering,
      MakingGroup
<1>4. DoneWhenTold'
  BY <1>1
  DEF IInv, TypeOK, DoneSoFar, DoneWhenTold, Registering, Unregistering,
      MakingGroup
<1>5. Whole(req.uid)' \/ InWork(req.uid)' \/ req.uid \in hurt
  <2>1. req.uid \in hurt \/ Whole(req.uid) \/ InWork(req.uid)
    BY <1>1 DEF IInv, WholeBut
  <2>2. QED
    BY <1>1, <2>1, ValuesAssumption DEF IInv, TypeOK, DoneSoFar, Whole, InWork,
       Registering, Unregistering
<1>6. \A u \in Users \ {req.uid} : /\ u \in dirs' <=> u \in dirs
                                   /\ u \in logins' <=> u \in logins
                                   /\ passwords'[u] = passwords[u]
  BY DEF IInv, TypeOK
<1>7. WholeBut'
  BY <1>1, <1>2, <1>5, <1>6, UserStep DEF MakingGroup
<1>8. QED
  BY <1>2, <1>3, <1>4, <1>7 DEF IInv

LEMMA DelPassFileInv == IInv /\ DelPassFile => IInv'
<1> SUFFICES ASSUME IInv, DelPassFile PROVE IInv'
  OBVIOUS
<1> USE DEF DelPassFile, Goto, Serves, client, history
<1>1. pc # "idle" /\ req.uid \in Users /\ UNCHANGED <<groups, req, hurt, unmade>>
      /\ (req.op \in {"REG", "UNR", "LOG", "OUT"} => req.pass \in Passwords)
      /\ Existing' = Existing /\ Newest' = Newest
  BY ReqTypes DEF IInv, Existing, Newest
<1>2. TypeOK'
  <2>1. evicted' \subseteq Clients \X Users
    BY <1>1 DEF IInv, TypeOK, LoggedInElsewhere
  <2>2. QED
    BY <1>1, <2>1 DEF IInv, TypeOK, Labels, Statuses, DoneSoFar, Registering
<1>3. DoneSoFar'
  BY <1>1
  DEF IInv, TypeOK, DoneSoFar, DoneWhenTold, Registering, Unregistering,
      MakingGroup
<1>4. DoneWhenTold'
  BY <1>1
  DEF IInv, TypeOK, DoneSoFar, DoneWhenTold, Registering, Unregistering,
      MakingGroup
<1>5. Whole(req.uid)' \/ InWork(req.uid)' \/ req.uid \in hurt
  <2>1. req.uid \in hurt \/ Whole(req.uid)
    BY <1>1 DEF IInv, WholeBut, InWork, Registering, Unregistering
  <2>2. QED
    BY <1>1, <2>1, ValuesAssumption DEF IInv, TypeOK, DoneSoFar, Whole, InWork,
       Registering, Unregistering, MayBeRight
<1>6. \A u \in Users \ {req.uid} : /\ u \in dirs' <=> u \in dirs
                                   /\ u \in logins' <=> u \in logins
                                   /\ passwords'[u] = passwords[u]
  BY DEF IInv, TypeOK
<1>7. WholeBut'
  BY <1>1, <1>2, <1>5, <1>6, UserStep DEF MakingGroup
<1>8. QED
  BY <1>2, <1>3, <1>4, <1>7 DEF IInv

LEMMA DelLoginFileInv == IInv /\ DelLoginFile => IInv'
<1> SUFFICES ASSUME IInv, DelLoginFile PROVE IInv'
  OBVIOUS
<1> USE DEF DelLoginFile, Goes, Goto, Serves, client, history
<1>1. pc # "idle" /\ req.uid \in Users /\ UNCHANGED <<groups, req, hurt, unmade>>
      /\ (req.op \in {"REG", "UNR", "LOG", "OUT"} => req.pass \in Passwords)
      /\ Existing' = Existing /\ Newest' = Newest
  BY ReqTypes DEF IInv, Existing, Newest
<1>2. TypeOK'
  BY <1>1 DEF IInv, TypeOK, Labels, Statuses, DoneSoFar, Registering
<1>3. DoneSoFar'
  BY <1>1
  DEF IInv, TypeOK, DoneSoFar, DoneWhenTold, Registering, Unregistering,
      MakingGroup
<1>4. DoneWhenTold'
  BY <1>1
  DEF IInv, TypeOK, DoneSoFar, DoneWhenTold, Registering, Unregistering,
      MakingGroup
<1>5. Whole(req.uid)' \/ InWork(req.uid)' \/ req.uid \in hurt
  <2>1. req.uid \in hurt \/ Whole(req.uid) \/ InWork(req.uid)
    BY <1>1 DEF IInv, WholeBut
  <2>2. QED
    BY <1>1, <2>1, ValuesAssumption DEF IInv, TypeOK, DoneSoFar, Whole, InWork,
       Registering, Unregistering
<1>6. \A u \in Users \ {req.uid} : /\ u \in dirs' <=> u \in dirs
                                   /\ u \in logins' <=> u \in logins
                                   /\ passwords'[u] = passwords[u]
  BY DEF IInv, TypeOK
<1>7. WholeBut'
  BY <1>1, <1>2, <1>5, <1>6, UserStep DEF MakingGroup
<1>8. QED
  BY <1>2, <1>3, <1>4, <1>7 DEF IInv

LEMMA DelUserDirInv == IInv /\ DelUserDir => IInv'
<1> SUFFICES ASSUME IInv, DelUserDir PROVE IInv'
  OBVIOUS
<1> USE DEF DelUserDir, Goes, Goto, Serves, client, history
<1>1. pc # "idle" /\ req.uid \in Users /\ UNCHANGED <<groups, req, hurt, unmade>>
      /\ (req.op \in {"REG", "UNR", "LOG", "OUT"} => req.pass \in Passwords)
      /\ Existing' = Existing /\ Newest' = Newest
  BY ReqTypes DEF IInv, Existing, Newest
<1>2. TypeOK'
  BY <1>1 DEF IInv, TypeOK, Labels, Statuses, DoneSoFar, Registering
<1>3. DoneSoFar'
  BY <1>1
  DEF IInv, TypeOK, DoneSoFar, DoneWhenTold, Registering, Unregistering,
      MakingGroup
<1>4. DoneWhenTold'
  BY <1>1
  DEF IInv, TypeOK, DoneSoFar, DoneWhenTold, Registering, Unregistering,
      MakingGroup
<1>5. Whole(req.uid)' \/ InWork(req.uid)' \/ req.uid \in hurt
  <2>1. req.uid \in hurt \/ Whole(req.uid) \/ InWork(req.uid)
    BY <1>1 DEF IInv, WholeBut
  <2>2. QED
    BY <1>1, <2>1, ValuesAssumption DEF IInv, TypeOK, DoneSoFar, Whole, InWork,
       Registering, Unregistering
<1>6. \A u \in Users \ {req.uid} : /\ u \in dirs' <=> u \in dirs
                                   /\ u \in logins' <=> u \in logins
                                   /\ passwords'[u] = passwords[u]
  BY DEF IInv, TypeOK
<1>7. WholeBut'
  BY <1>1, <1>2, <1>5, <1>6, UserStep DEF MakingGroup
<1>8. QED
  BY <1>2, <1>3, <1>4, <1>7 DEF IInv

LEMMA LoginInv == IInv /\ Login => IInv'
<1> SUFFICES ASSUME IInv, Login PROVE IInv'
  OBVIOUS
<1> USE DEF Login, Finish, Reply, Serves, client, history
<1>1. pc # "idle" /\ req.uid \in Users /\ UNCHANGED <<groups, req, hurt, unmade>>
      /\ (req.op \in {"REG", "UNR", "LOG", "OUT"} => req.pass \in Passwords)
      /\ Existing' = Existing /\ Newest' = Newest
  BY ReqTypes DEF IInv, Existing, Newest
<1>2. TypeOK'
  <2>1. evicted' \subseteq Clients \X Users
    BY <1>1 DEF IInv, TypeOK, LoggedInElsewhere
  <2>2. QED
    BY <1>1, <2>1 DEF IInv, TypeOK, Labels, Statuses, DoneSoFar, Registering
<1>3. DoneSoFar'
  BY <1>1
  DEF IInv, TypeOK, DoneSoFar, DoneWhenTold, Registering, Unregistering,
      MakingGroup
<1>4. DoneWhenTold'
  BY <1>1
  DEF IInv, TypeOK, DoneSoFar, DoneWhenTold, Registering, Unregistering,
      MakingGroup
<1>5. Whole(req.uid)' \/ InWork(req.uid)' \/ req.uid \in hurt
  <2>1. req.uid \in hurt \/ Whole(req.uid)
    BY <1>1 DEF IInv, WholeBut, InWork, Registering, Unregistering
  <2>2. QED
    BY <1>1, <2>1, ValuesAssumption DEF IInv, TypeOK, DoneSoFar, Whole, InWork,
       Registering, Unregistering, MayBeRight
<1>6. \A u \in Users \ {req.uid} : /\ u \in dirs' <=> u \in dirs
                                   /\ u \in logins' <=> u \in logins
                                   /\ passwords'[u] = passwords[u]
  BY DEF IInv, TypeOK
<1>7. WholeBut'
  BY <1>1, <1>2, <1>5, <1>6, UserStep DEF MakingGroup
<1>8. QED
  BY <1>2, <1>3, <1>4, <1>7 DEF IInv

LEMMA LogoutInv == IInv /\ Logout => IInv'
<1> SUFFICES ASSUME IInv, Logout PROVE IInv'
  OBVIOUS
<1> USE DEF Logout, Finish, Reply, Serves, client, history
<1>1. pc # "idle" /\ req.uid \in Users /\ UNCHANGED <<groups, req, hurt, unmade>>
      /\ (req.op \in {"REG", "UNR", "LOG", "OUT"} => req.pass \in Passwords)
      /\ Existing' = Existing /\ Newest' = Newest
  BY ReqTypes DEF IInv, Existing, Newest
<1>2. TypeOK'
  <2>1. evicted' \subseteq Clients \X Users
    BY <1>1 DEF IInv, TypeOK, LoggedInElsewhere
  <2>2. QED
    BY <1>1, <2>1 DEF IInv, TypeOK, Labels, Statuses, DoneSoFar, Registering
<1>3. DoneSoFar'
  BY <1>1
  DEF IInv, TypeOK, DoneSoFar, DoneWhenTold, Registering, Unregistering,
      MakingGroup
<1>4. DoneWhenTold'
  BY <1>1
  DEF IInv, TypeOK, DoneSoFar, DoneWhenTold, Registering, Unregistering,
      MakingGroup
<1>5. Whole(req.uid)' \/ InWork(req.uid)' \/ req.uid \in hurt
  <2>1. req.uid \in hurt \/ Whole(req.uid)
    BY <1>1 DEF IInv, WholeBut, InWork, Registering, Unregistering
  <2>2. QED
    BY <1>1, <2>1, ValuesAssumption DEF IInv, TypeOK, DoneSoFar, Whole, InWork,
       Registering, Unregistering, MayBeRight
<1>6. \A u \in Users \ {req.uid} : /\ u \in dirs' <=> u \in dirs
                                   /\ u \in logins' <=> u \in logins
                                   /\ passwords'[u] = passwords[u]
  BY DEF IInv, TypeOK
<1>7. WholeBut'
  BY <1>1, <1>2, <1>5, <1>6, UserStep DEF MakingGroup
<1>8. QED
  BY <1>2, <1>3, <1>4, <1>7 DEF IInv

-----------------------------------------------------------------------------
\* Steps in GROUPS.

LEMMA GroupStep ==
    ASSUME IInv, pc # "idle",
           UNCHANGED <<dirs, passwords, logins, req, hurt>>,
           \A h \in Existing' : \A u \in Users \ {req.uid} :
              u \in groups'[h].users => h \in Existing /\ u \in groups[h].users,
           Whole(req.uid)' \/ InWork(req.uid)' \/ req.uid \in hurt,
           \A h \in Existing' : Made(h)'
    PROVE  WholeBut'
<1>1. ASSUME NEW u \in Users, u # req.uid, u \notin hurt PROVE Whole(u)'
  <2>1. Whole(u)
    BY <1>1 DEF IInv, WholeBut, InWork
  <2>2. QED
    BY <1>1, <2>1 DEF Whole, SubscribedTo
<1>2. QED
  BY <1>1 DEF WholeBut

\* A step in one group that exists.
LEMMA OneGroup ==
    ASSUME IInv, NEW g \in Existing, NEW r \in Group,
           groups' = [groups EXCEPT ![g] = r]
    PROVE  /\ Existing' = Existing /\ Newest' = Newest
           /\ groups' \in [Existing' -> Group] /\ groups'[g] = r
           /\ \A h \in Existing \ {g} : groups'[h] = groups[h]
<1>1. groups \in [Existing -> Group]
  BY DEF IInv, TypeOK
<1>2. Existing' = Existing
  BY <1>1 DEF Existing
<1>3. QED
  BY <1>1, <1>2 DEF Newest

LEMMA DelUserFilesInv == IInv /\ DelUserFiles => IInv'
<1> SUFFICES ASSUME IInv, DelUserFiles PROVE IInv'
  OBVIOUS
<1> USE DEF Goes, Goto, client, history
<1>1. PICK g \in SubscribedTo(req.uid) :
         groups' = [groups EXCEPT ![g].users = @ \ {req.uid}]
  BY DEF DelUserFiles
<1> DEFINE r == [groups[g] EXCEPT !.users = @ \ {req.uid}]
<1>2. pc = "delUserFiles" /\ pc' = "delUserFiles" /\ g \in Existing
      /\ UNCHANGED <<dirs, passwords, logins, req, status, net, client, history>>
  BY DEF DelUserFiles, SubscribedTo
<1>3. r \in Group /\ r.users = groups[g].users \ {req.uid}
      /\ r.name = groups[g].name /\ r.MSG = groups[g].MSG
  BY <1>2 DEF IInv, TypeOK, Group
<1>4. groups' = [groups EXCEPT ![g] = r]
  BY <1>1
<1> HIDE DEF r
<1>5. /\ Existing' = Existing /\ Newest' = Newest
      /\ groups' \in [Existing' -> Group] /\ groups'[g] = r
      /\ \A h \in Existing \ {g} : groups'[h] = groups[h]
  BY <1>2, <1>3, <1>4, OneGroup
<1>6. TypeOK'
  BY <1>2, <1>5 DEF IInv, TypeOK
<1>7. DoneSoFar' /\ DoneWhenTold'
  BY <1>2 DEF IInv, DoneSoFar, DoneWhenTold, Registering, Unregistering,
              MakingGroup
<1>8. InWork(req.uid)'
  BY <1>2 DEF InWork, Unregistering
<1>9. WholeBut'
  <2>1. \A h \in Existing' : \A u \in Users \ {req.uid} :
           u \in groups'[h].users => h \in Existing /\ u \in groups[h].users
    BY <1>3, <1>5
  <2>2. \A h \in Existing' : Made(h)'
    BY <1>2, <1>3, <1>5 DEF IInv, WholeBut, MakingGroup, Made
  <2>3. QED
    BY <1>2, <1>8, <2>1, <2>2, GroupStep
<1>10. QED
  BY <1>6, <1>7, <1>9 DEF IInv

LEMMA CreateMSGInv == IInv /\ CreateMSG => IInv'
<1> SUFFICES ASSUME IInv, CreateMSG PROVE IInv'
  OBVIOUS
<1> USE DEF Goes, Goto, client, history
<1> DEFINE g == Newest
           r == [groups[g] EXCEPT !.MSG = TRUE]
<1>1. /\ pc # "idle" /\ req \in Request /\ req.uid \in Users
      /\ (req.op = "GSR" => req.name \in Names)
  BY ReqTypes DEF CreateMSG, ToExisting, Serves, IInv
<1>2. /\ g \in Existing /\ req.uid \in dirs /\ pc \notin Registering
      /\ pc \notin Unregistering
      /\ UNCHANGED <<dirs, passwords, logins, req, net, client, history>>
  BY DEF CreateMSG, ToExisting, Serves, LoggedIn, SubscribedTo, IInv, DoneSoFar,
         MakingGroup, Registering, Unregistering
<1>3. r \in Group /\ r.users = groups[g].users /\ r.MSG = TRUE
  BY <1>1, <1>2 DEF IInv, TypeOK, Group, CreateMSG, DoneSoFar, MakingGroup
<1>4. groups' = [groups EXCEPT ![g] = r]
  BY DEF CreateMSG
<1>5. pc' = "openName" /\ status' \in Statuses
  BY DEF CreateMSG, Statuses, IInv, TypeOK
<1> HIDE DEF r
<1>6. /\ Existing' = Existing /\ Newest' = Newest
      /\ groups' \in [Existing' -> Group] /\ groups'[g] = r
      /\ \A h \in Existing \ {g} : groups'[h] = groups[h]
  BY <1>2, <1>3, <1>4, OneGroup
<1>7. TypeOK'
  BY <1>1, <1>2, <1>5, <1>6 DEF IInv, TypeOK, Labels
<1>8. DoneSoFar' /\ DoneWhenTold'
  BY <1>1, <1>2, <1>3, <1>5, <1>6
  DEF IInv, CreateMSG, ToExisting, Serves, DoneSoFar, DoneWhenTold,
      Registering, Unregistering, MakingGroup
<1>9. Whole(req.uid)' \/ req.uid \in hurt
  <2>1. Whole(req.uid) \/ req.uid \in hurt
    BY <1>1, <1>2 DEF IInv, WholeBut, InWork, Unregistering
  <2>2. QED
    BY <1>2, <2>1 DEF Whole
<1>10. WholeBut'
  <2>1. \A h \in Existing' : \A u \in Users \ {req.uid} :
           u \in groups'[h].users => h \in Existing /\ u \in groups[h].users
    BY <1>3, <1>6
  <2>2. \A h \in Existing \ {g} : Made(h)'
    BY <1>1, <1>2, <1>5, <1>6
    DEF IInv, WholeBut, DoneSoFar, MakingGroup, CreateMSG, ToExisting, Serves, Made
  <2>3. Made(g)'
    BY <1>1, <1>2, <1>3, <1>5, <1>6, ValuesAssumption
    DEF IInv, WholeBut, DoneSoFar, MakingGroup, CreateMSG, ToExisting, Serves, Made,
        SubscribedTo
  <2>4. \A h \in Existing' : Made(h)'
    BY <1>2, <1>6, <2>2, <2>3
  <2>5. QED
    BY <1>1, <1>2, <1>9, <2>1, <2>4, GroupStep
<1>11. QED
  BY <1>7, <1>8, <1>10 DEF IInv

LEMMA OpenNameInv == IInv /\ OpenName => IInv'
<1> SUFFICES ASSUME IInv, OpenName PROVE IInv'
  OBVIOUS
<1> USE DEF Goes, Goto, client, history
<1> DEFINE g == Newest
           r == [groups[g] EXCEPT !.name = Blank]
<1>1. /\ pc # "idle" /\ req \in Request /\ req.uid \in Users
      /\ (req.op = "GSR" => req.name \in Names)
  BY ReqTypes DEF OpenName, ToExisting, Serves, IInv
<1>2. /\ g \in Existing /\ req.uid \in dirs /\ pc \notin Registering
      /\ pc \notin Unregistering
      /\ UNCHANGED <<dirs, passwords, logins, req, net, client, history>>
  BY DEF OpenName, ToExisting, Serves, LoggedIn, SubscribedTo, IInv, DoneSoFar,
         MakingGroup, Registering, Unregistering
<1>3. r \in Group /\ r.users = groups[g].users /\ r.MSG = groups[g].MSG
  BY <1>1, <1>2 DEF IInv, TypeOK, Group, OpenName, DoneSoFar, MakingGroup
<1>4. groups' = [groups EXCEPT ![g] = r]
  BY DEF OpenName
<1>5. pc' = "closeName" /\ status' \in Statuses
  BY DEF OpenName, Statuses, IInv, TypeOK
<1> HIDE DEF r
<1>6. /\ Existing' = Existing /\ Newest' = Newest
      /\ groups' \in [Existing' -> Group] /\ groups'[g] = r
      /\ \A h \in Existing \ {g} : groups'[h] = groups[h]
  BY <1>2, <1>3, <1>4, OneGroup
<1>7. TypeOK'
  BY <1>1, <1>2, <1>5, <1>6 DEF IInv, TypeOK, Labels
<1>8. DoneSoFar' /\ DoneWhenTold'
  BY <1>1, <1>2, <1>3, <1>5, <1>6
  DEF IInv, OpenName, ToExisting, Serves, DoneSoFar, DoneWhenTold,
      Registering, Unregistering, MakingGroup
<1>9. Whole(req.uid)' \/ req.uid \in hurt
  <2>1. Whole(req.uid) \/ req.uid \in hurt
    BY <1>1, <1>2 DEF IInv, WholeBut, InWork, Unregistering
  <2>2. QED
    BY <1>2, <2>1 DEF Whole
<1>10. WholeBut'
  <2>1. \A h \in Existing' : \A u \in Users \ {req.uid} :
           u \in groups'[h].users => h \in Existing /\ u \in groups[h].users
    BY <1>3, <1>6
  <2>2. \A h \in Existing \ {g} : Made(h)'
    BY <1>1, <1>2, <1>5, <1>6
    DEF IInv, WholeBut, DoneSoFar, MakingGroup, OpenName, ToExisting, Serves, Made
  <2>3. Made(g)'
    BY <1>1, <1>2, <1>3, <1>5, <1>6, ValuesAssumption
    DEF IInv, WholeBut, DoneSoFar, MakingGroup, OpenName, ToExisting, Serves, Made,
        SubscribedTo
  <2>4. \A h \in Existing' : Made(h)'
    BY <1>2, <1>6, <2>2, <2>3
  <2>5. QED
    BY <1>1, <1>2, <1>9, <2>1, <2>4, GroupStep
<1>11. QED
  BY <1>7, <1>8, <1>10 DEF IInv

LEMMA CloseNameInv == IInv /\ CloseName => IInv'
<1> SUFFICES ASSUME IInv, CloseName PROVE IInv'
  OBVIOUS
<1> USE DEF Goes, Goto, client, history
<1> DEFINE g == Newest
           r == [groups[g] EXCEPT !.name = req.name]
<1>1. /\ pc # "idle" /\ req \in Request /\ req.uid \in Users
      /\ (req.op = "GSR" => req.name \in Names)
  BY ReqTypes DEF CloseName, ToExisting, Serves, IInv
<1>2. /\ g \in Existing /\ req.uid \in dirs /\ pc \notin Registering
      /\ pc \notin Unregistering
      /\ UNCHANGED <<dirs, passwords, logins, req, net, client, history>>
  BY DEF CloseName, ToExisting, Serves, LoggedIn, SubscribedTo, IInv, DoneSoFar,
         MakingGroup, Registering, Unregistering
<1>3. r \in Group /\ r.users = groups[g].users /\ r.MSG = groups[g].MSG
      /\ r.name = req.name
  BY <1>1, <1>2 DEF IInv, TypeOK, Group, CloseName, DoneSoFar, MakingGroup
<1>4. groups' = [groups EXCEPT ![g] = r]
  BY DEF CloseName
<1>5. pc' = "newUserFile" /\ status' \in Statuses
  BY DEF CloseName, Statuses, IInv, TypeOK
<1> HIDE DEF r
<1>6. /\ Existing' = Existing /\ Newest' = Newest
      /\ groups' \in [Existing' -> Group] /\ groups'[g] = r
      /\ \A h \in Existing \ {g} : groups'[h] = groups[h]
  BY <1>2, <1>3, <1>4, OneGroup
<1>7. TypeOK'
  BY <1>1, <1>2, <1>5, <1>6 DEF IInv, TypeOK, Labels
<1>8. DoneSoFar' /\ DoneWhenTold'
  BY <1>1, <1>2, <1>3, <1>5, <1>6
  DEF IInv, CloseName, ToExisting, Serves, DoneSoFar, DoneWhenTold,
      Registering, Unregistering, MakingGroup
<1>9. Whole(req.uid)' \/ req.uid \in hurt
  <2>1. Whole(req.uid) \/ req.uid \in hurt
    BY <1>1, <1>2 DEF IInv, WholeBut, InWork, Unregistering
  <2>2. QED
    BY <1>2, <2>1 DEF Whole
<1>10. WholeBut'
  <2>1. \A h \in Existing' : \A u \in Users \ {req.uid} :
           u \in groups'[h].users => h \in Existing /\ u \in groups[h].users
    BY <1>3, <1>6
  <2>2. \A h \in Existing \ {g} : Made(h)'
    BY <1>1, <1>2, <1>5, <1>6
    DEF IInv, WholeBut, DoneSoFar, MakingGroup, CloseName, ToExisting, Serves, Made
  <2>3. Made(g)'
    BY <1>1, <1>2, <1>3, <1>5, <1>6, ValuesAssumption
    DEF IInv, WholeBut, DoneSoFar, MakingGroup, CloseName, ToExisting, Serves, Made,
        SubscribedTo
  <2>4. \A h \in Existing' : Made(h)'
    BY <1>2, <1>6, <2>2, <2>3
  <2>5. QED
    BY <1>1, <1>2, <1>9, <2>1, <2>4, GroupStep
<1>11. QED
  BY <1>7, <1>8, <1>10 DEF IInv

LEMMA NewUserFileInv == IInv /\ NewUserFile => IInv'
<1> SUFFICES ASSUME IInv, NewUserFile PROVE IInv'
  OBVIOUS
<1> USE DEF Finish, Reply, client, history
<1> DEFINE g == Newest
           r == [groups[g] EXCEPT !.users = @ \cup {req.uid}]
<1>1. /\ pc # "idle" /\ req \in Request /\ req.uid \in Users
      /\ (req.op = "GSR" => req.name \in Names)
  BY ReqTypes DEF NewUserFile, ToExisting, Serves, IInv
<1>2. /\ g \in Existing /\ req.uid \in dirs /\ pc \notin Registering
      /\ pc \notin Unregistering
      /\ UNCHANGED <<dirs, passwords, logins, req, net, client, history>>
  BY
  DEF NewUserFile, ToExisting, Serves, LoggedIn, SubscribedTo, IInv, DoneSoFar,
         MakingGroup, Registering, Unregistering
<1>3. r \in Group /\ r.MSG = groups[g].MSG
      /\ r.name = groups[g].name /\ r.users = groups[g].users \cup {req.uid}
  BY <1>1, <1>2 DEF IInv, TypeOK, Group, NewUserFile, DoneSoFar, MakingGroup
<1>4. groups' = [groups EXCEPT ![g] = r]
  BY DEF NewUserFile
<1>5. pc' = "answer" /\ status' \in Statuses
  BY DEF NewUserFile, Statuses, IInv, TypeOK
<1> HIDE DEF r
<1>6. /\ Existing' = Existing /\ Newest' = Newest
      /\ groups' \in [Existing' -> Group] /\ groups'[g] = r
      /\ \A h \in Existing \ {g} : groups'[h] = groups[h]
  BY <1>2, <1>3, <1>4, OneGroup
<1>7. TypeOK'
  BY <1>1, <1>2, <1>5, <1>6 DEF IInv, TypeOK, Labels
<1>8. DoneSoFar' /\ DoneWhenTold'
  BY <1>1, <1>2, <1>3, <1>5, <1>6
  DEF IInv, NewUserFile, ToExisting, Serves, DoneSoFar, DoneWhenTold,
      Registering, Unregistering, MakingGroup
<1>9. Whole(req.uid)' \/ req.uid \in hurt
  <2>1. Whole(req.uid) \/ req.uid \in hurt
    BY <1>1, <1>2 DEF IInv, WholeBut, InWork, Unregistering
  <2>2. QED
    BY <1>2, <2>1 DEF Whole
<1>10. WholeBut'
  <2>1. \A h \in Existing' : \A u \in Users \ {req.uid} :
           u \in groups'[h].users => h \in Existing /\ u \in groups[h].users
    BY <1>3, <1>6
  <2>2. \A h \in Existing \ {g} : Made(h)'
    BY <1>1, <1>2, <1>5, <1>6
    DEF IInv, WholeBut, DoneSoFar, MakingGroup, NewUserFile, ToExisting, Serves, Made
  <2>3. Made(g)'
    BY <1>1, <1>2, <1>3, <1>5, <1>6, ValuesAssumption
    DEF IInv, WholeBut, DoneSoFar, MakingGroup, NewUserFile, ToExisting, Serves, Made,
        SubscribedTo
  <2>4. \A h \in Existing' : Made(h)'
    BY <1>2, <1>6, <2>2, <2>3
  <2>5. QED
    BY <1>1, <1>2, <1>9, <2>1, <2>4, GroupStep
<1>11. QED
  BY <1>7, <1>8, <1>10 DEF IInv

LEMMA SubscribeInv == IInv /\ Subscribe => IInv'
<1> SUFFICES ASSUME IInv, Subscribe PROVE IInv'
  OBVIOUS
<1> USE DEF Finish, Reply, client, history
<1> DEFINE g == req.gid
           r == [groups[g] EXCEPT !.users = @ \cup {req.uid}]
<1>1. /\ pc # "idle" /\ req \in Request /\ req.uid \in Users
      /\ (req.op = "GSR" => req.name \in Names)
  BY ReqTypes DEF Subscribe, ToExisting, Serves, IInv
<1>2. /\ g \in Existing /\ req.uid \in dirs /\ pc \notin Registering
      /\ pc \notin Unregistering
      /\ UNCHANGED <<dirs, passwords, logins, req, net, client, history>>
  BY DEF Subscribe, ToExisting, Serves, LoggedIn, SubscribedTo, IInv, DoneSoFar,
         MakingGroup, Registering, Unregistering
<1>3. r \in Group /\ r.MSG = groups[g].MSG
      /\ r.name = groups[g].name /\ r.users = groups[g].users \cup {req.uid}
  BY <1>1, <1>2 DEF IInv, TypeOK, Group, Subscribe, DoneSoFar, MakingGroup
<1>4. groups' = [groups EXCEPT ![g] = r]
  BY DEF Subscribe
<1>5. pc' = "answer" /\ status' \in Statuses
  BY DEF Subscribe, Statuses, IInv, TypeOK
<1> HIDE DEF r
<1>6. /\ Existing' = Existing /\ Newest' = Newest
      /\ groups' \in [Existing' -> Group] /\ groups'[g] = r
      /\ \A h \in Existing \ {g} : groups'[h] = groups[h]
  BY <1>2, <1>3, <1>4, OneGroup
<1>7. TypeOK'
  BY <1>1, <1>2, <1>5, <1>6 DEF IInv, TypeOK, Labels
<1>8. DoneSoFar' /\ DoneWhenTold'
  BY <1>1, <1>2, <1>3, <1>5, <1>6
  DEF IInv, Subscribe, ToExisting, Serves, DoneSoFar, DoneWhenTold,
      Registering, Unregistering, MakingGroup
<1>9. Whole(req.uid)' \/ req.uid \in hurt
  <2>1. Whole(req.uid) \/ req.uid \in hurt
    BY <1>1, <1>2 DEF IInv, WholeBut, InWork, Unregistering
  <2>2. QED
    BY <1>2, <2>1 DEF Whole
<1>10. WholeBut'
  <2>1. \A h \in Existing' : \A u \in Users \ {req.uid} :
           u \in groups'[h].users => h \in Existing /\ u \in groups[h].users
    BY <1>3, <1>6
  <2>2. \A h \in Existing \ {g} : Made(h)'
    BY <1>1, <1>2, <1>5, <1>6
    DEF IInv, WholeBut, DoneSoFar, MakingGroup, Subscribe, ToExisting, Serves, Made
  <2>3. Made(g)'
    BY <1>1, <1>2, <1>3, <1>5, <1>6, ValuesAssumption
    DEF IInv, WholeBut, DoneSoFar, MakingGroup, Subscribe, ToExisting, Serves, Made,
        SubscribedTo
  <2>4. \A h \in Existing' : Made(h)'
    BY <1>2, <1>6, <2>2, <2>3
  <2>5. QED
    BY <1>1, <1>2, <1>9, <2>1, <2>4, GroupStep
<1>11. QED
  BY <1>7, <1>8, <1>10 DEF IInv

LEMMA UnsubscribeInv == IInv /\ Unsubscribe => IInv'
<1> SUFFICES ASSUME IInv, Unsubscribe PROVE IInv'
  OBVIOUS
<1> USE DEF Finish, Reply, client, history
<1> DEFINE g == req.gid
           r == [groups[g] EXCEPT !.users = @ \ {req.uid}]
<1>1. /\ pc # "idle" /\ req \in Request /\ req.uid \in Users
      /\ (req.op = "GSR" => req.name \in Names)
  BY ReqTypes DEF Unsubscribe, ToExisting, Serves, IInv
<1>2. /\ g \in Existing /\ req.uid \in dirs /\ pc \notin Registering
      /\ pc \notin Unregistering
      /\ UNCHANGED <<dirs, passwords, logins, req, net, client, history>>
  BY
  DEF Unsubscribe, ToExisting, Serves, LoggedIn, SubscribedTo, IInv, DoneSoFar,
         MakingGroup, Registering, Unregistering
<1>3. r \in Group /\ r.MSG = groups[g].MSG
      /\ r.name = groups[g].name /\ r.users = groups[g].users \ {req.uid}
  BY <1>1, <1>2 DEF IInv, TypeOK, Group, Unsubscribe, DoneSoFar, MakingGroup
<1>4. groups' = [groups EXCEPT ![g] = r]
  BY DEF Unsubscribe
<1>5. pc' = "answer" /\ status' \in Statuses
  BY DEF Unsubscribe, Statuses, IInv, TypeOK
<1> HIDE DEF r
<1>6. /\ Existing' = Existing /\ Newest' = Newest
      /\ groups' \in [Existing' -> Group] /\ groups'[g] = r
      /\ \A h \in Existing \ {g} : groups'[h] = groups[h]
  BY <1>2, <1>3, <1>4, OneGroup
<1>7. TypeOK'
  BY <1>1, <1>2, <1>5, <1>6 DEF IInv, TypeOK, Labels
<1>8. DoneSoFar' /\ DoneWhenTold'
  BY <1>1, <1>2, <1>3, <1>5, <1>6
  DEF IInv, Unsubscribe, ToExisting, Serves, DoneSoFar, DoneWhenTold,
      Registering, Unregistering, MakingGroup
<1>9. Whole(req.uid)' \/ req.uid \in hurt
  <2>1. Whole(req.uid) \/ req.uid \in hurt
    BY <1>1, <1>2 DEF IInv, WholeBut, InWork, Unregistering
  <2>2. QED
    BY <1>2, <2>1 DEF Whole
<1>10. WholeBut'
  <2>1. \A h \in Existing' : \A u \in Users \ {req.uid} :
           u \in groups'[h].users => h \in Existing /\ u \in groups[h].users
    BY <1>3, <1>6
  <2>2. \A h \in Existing \ {g} : Made(h)'
    BY <1>1, <1>2, <1>5, <1>6
    DEF IInv, WholeBut, DoneSoFar, MakingGroup, Unsubscribe, ToExisting, Serves, Made
  <2>3. Made(g)'
    BY <1>1, <1>2, <1>3, <1>5, <1>6, ValuesAssumption
    DEF IInv, WholeBut, DoneSoFar, MakingGroup, Unsubscribe, ToExisting, Serves, Made,
        SubscribedTo
  <2>4. \A h \in Existing' : Made(h)'
    BY <1>2, <1>6, <2>2, <2>3
  <2>5. QED
    BY <1>1, <1>2, <1>9, <2>1, <2>4, GroupStep
<1>11. QED
  BY <1>7, <1>8, <1>10 DEF IInv

LEMMA CreateGroupDirInv == IInv /\ CreateGroupDir => IInv'
<1> SUFFICES ASSUME IInv, CreateGroupDir PROVE IInv'
  OBVIOUS
<1> USE DEF Goes, Goto, client, history
<1> DEFINE n == Newest + 1
           r == [name |-> Absent, users |-> {}, MSG |-> FALSE]
<1>1. /\ pc = "handle" /\ req.op = "GSR" /\ req.uid \in dirs /\ pc' = "mkdirMSG"
      /\ UNCHANGED <<dirs, passwords, logins, req, status, net, client, history>>
      /\ Newest < MAX_GROUPS
  BY DEF CreateGroupDir, Serves, LoggedIn, Newest
<1>2. pc # "idle" /\ req \in Request /\ req.uid \in Users
  BY <1>1, ReqTypes DEF IInv
<1>3. IsFiniteSet(Existing) /\ Newest \in Nat
  <2>1. IsFiniteSet(Gids)
    BY LimitsAssumption, FS_Interval DEF Gids
  <2>2. Existing \subseteq Gids
    BY DEF IInv, TypeOK
  <2>3. QED
    BY <2>1, <2>2, FS_Subset, FS_CardinalityType DEF Newest
<1>4. Existing = 1 .. Newest /\ groups \in [Existing -> Group]
  BY DEF IInv, TypeOK
<1>5. /\ Existing' = Existing \cup {n}
      /\ groups'[n] = r
      /\ \A h \in Existing : groups'[h] = groups[h]
      /\ n \notin Existing
      /\ groups' = [g \in Existing' |-> groups'[g]]
  <2>1. n \notin Existing
    BY <1>3, <1>4
  <2>2. groups' = [g \in Existing \cup {n} |-> IF g \in Existing THEN groups[g] ELSE r]
    BY DEF CreateGroupDir
  <2> HIDE DEF n, r
  <2>3. Existing' = Existing \cup {n}
    BY <2>2 DEF Existing
  <2>4. QED
    BY <2>1, <2>2, <2>3
<1>6. Newest' = n
  <2>1. Cardinality(Existing \cup {n}) = Cardinality(Existing) + 1
    BY <1>3, <1>5, FS_AddElement
  <2>2. QED
    BY <1>5, <2>1 DEF Newest
<1>7. Existing' \subseteq Gids /\ Existing' = 1 .. Newest'
  BY <1>1, <1>3, <1>4, <1>5, <1>6, LimitsAssumption DEF Gids
<1>8. groups' \in [Existing' -> Group]
  <2>1. r \in Group
    BY DEF Group
  <2> HIDE DEF n, r
  <2>2. \A g \in Existing' : groups'[g] \in Group
    BY <1>4, <1>5, <2>1
  <2>3. QED
    BY <1>5, <2>2
<1>9. TypeOK'
  BY <1>1, <1>2, <1>7, <1>8 DEF IInv, TypeOK, Labels
<1>10. DoneSoFar' /\ DoneWhenTold'
  BY <1>1, <1>5, <1>6 DEF IInv, DoneSoFar, DoneWhenTold, Registering,
     Unregistering, MakingGroup
<1>11. Whole(req.uid)' \/ req.uid \in hurt
  <2>1. Whole(req.uid) \/ req.uid \in hurt
    BY <1>1, <1>2 DEF IInv, WholeBut, InWork, Unregistering, Registering
  <2>2. QED
    BY <1>1, <2>1 DEF Whole
<1>12. WholeBut'
  <2>1. \A h \in Existing' : \A u \in Users \ {req.uid} :
           u \in groups'[h].users => h \in Existing /\ u \in groups[h].users
    BY <1>5
  <2> HIDE DEF n
  <2>2. \A h \in Existing : Made(h)'
    BY <1>1, <1>5 DEF IInv, WholeBut, MakingGroup, Made
  <2>3. \A h \in Existing' \ Existing : Made(h)'
    BY <1>1, <1>5, <1>6 DEF MakingGroup, Made
  <2>4. QED
    BY <1>1, <1>2, <1>11, <2>1, <2>2, <2>3, GroupStep
<1>13. QED
  BY <1>9, <1>10, <1>12 DEF IInv

-----------------------------------------------------------------------------
\* Requests refused, calls that fail, and what has nothing more to be done.

LEMMA RefusalsInv ==
    IInv /\ (\/ RegDuplicated \/ UnregisterRefused \/ Unregistered
             \/ LoginRefused \/ LogoutRefused \/ SubscribeRefused \/ GroupsFull
             \/ NoSuchGroup \/ NoNameFile \/ WrongName \/ UnsubscribeRefused
             \/ FirstCallFails)
      => IInv'
<1> SUFFICES ASSUME IInv, \/ RegDuplicated \/ UnregisterRefused \/ Unregistered
                          \/ LoginRefused \/ LogoutRefused \/ SubscribeRefused
                          \/ GroupsFull \/ NoSuchGroup \/ NoNameFile \/ WrongName
                          \/ UnsubscribeRefused \/ FirstCallFails
             PROVE  IInv'
  OBVIOUS
<1>1. PICK s \in Statuses :
         /\ Finish(s) /\ UNCHANGED files
         /\ \/ pc = "handle" /\ s \notin {"OK", "NEW"}
            \/ pc = "delUserFiles" /\ s # "NEW" /\ SubscribedTo(req.uid) = {}
  <2>1. CASE RegDuplicated
    BY <2>1 DEF RegDuplicated, Serves, Statuses
  <2>2. CASE UnregisterRefused
    BY <2>2 DEF UnregisterRefused, Serves, Statuses
  <2>3. CASE Unregistered
    BY <2>3 DEF Unregistered, Statuses
  <2>4. CASE LoginRefused
    BY <2>4 DEF LoginRefused, Serves, Statuses
  <2>5. CASE LogoutRefused
    BY <2>5 DEF LogoutRefused, Serves, Statuses
  <2>6. CASE SubscribeRefused
    BY <2>6 DEF SubscribeRefused, Serves, Statuses
  <2>7. CASE GroupsFull
    BY <2>7 DEF GroupsFull, Serves, Statuses
  <2>8. CASE NoSuchGroup
    BY <2>8 DEF NoSuchGroup, ToExisting, Serves, Statuses
  <2>9. CASE NoNameFile
    BY <2>9 DEF NoNameFile, ToExisting, Serves, Statuses
  <2>10. CASE WrongName
    BY <2>10 DEF WrongName, ToExisting, Serves, Statuses
  <2>11. CASE UnsubscribeRefused
    BY <2>11 DEF UnsubscribeRefused, Serves, Statuses
  <2>12. CASE FirstCallFails
    BY <2>12 DEF FirstCallFails, ToExisting, Serves, Statuses
  <2>13. QED
    BY <2>1, <2>2, <2>3, <2>4, <2>5, <2>6, <2>7, <2>8, <2>9, <2>10, <2>11, <2>12
<1>2. Reply(s) /\ UNCHANGED history /\ evicted' \subseteq Clients \X Users
  BY <1>1 DEF Finish, history, IInv, TypeOK
<1>3. QED
  BY <1>1, <1>2, FinishOnly DEF history

LEMMA LaterCallFailsInv == IInv /\ (LaterCallFails \/ DelUserDirFails) => IInv'
<1> SUFFICES ASSUME IInv, LaterCallFails \/ DelUserDirFails PROVE IInv'
  OBVIOUS
<1>1. "NOK" \in Statuses /\ Reply("NOK") /\ GivesUp /\ UNCHANGED files /\ pc # "idle"
  BY DEF LaterCallFails, DelUserDirFails, Statuses, files
<1>2. evicted' \subseteq Clients \X Users
  <2>1. req.uid \in Users /\ evicted \subseteq Clients \X Users
    BY <1>1, ReqTypes DEF IInv, TypeOK
  <2>2. QED
    BY <2>1 DEF LaterCallFails, DelUserDirFails
<1>3. QED
  BY <1>1, <1>2, FinishOnly

LEMMA DelLoginFileFailsInv == IInv /\ DelLoginFileFails => IInv'
<1> SUFFICES ASSUME IInv, DelLoginFileFails PROVE IInv'
  OBVIOUS
<1> USE DEF DelLoginFileFails, Goes, Goto, files, client, history
<1>1. Existing' = Existing /\ Newest' = Newest
  BY DEF Existing, Newest
<1>2. TypeOK'
  BY <1>1 DEF IInv, TypeOK, Labels
<1>3. DoneSoFar' /\ DoneWhenTold'
  BY DEF IInv, DoneSoFar, DoneWhenTold, Registering, Unregistering, MakingGroup
<1>4. \A u \in Users : Whole(u)' = Whole(u) /\ InWork(u)' = InWork(u)
  BY <1>1 DEF Whole, InWork, SubscribedTo, Registering, Unregistering
<1>5. WholeBut'
  BY <1>1, <1>4 DEF IInv, WholeBut, Made, MakingGroup
<1>6. QED
  BY <1>2, <1>3, <1>5 DEF IInv

LEMMA CreateGroupDirFailsInv == IInv /\ CreateGroupDirFails => IInv'
<1> SUFFICES ASSUME IInv, CreateGroupDirFails PROVE IInv'
  OBVIOUS
<1>1. reply' \in [Clients -> Statuses] /\ pc # "idle"
  BY DEF CreateGroupDirFails, Serves, client, IInv, TypeOK
<1>2. QED
  BY <1>1, BackToIdle DEF CreateGroupDirFails, client


-----------------------------------------------------------------------------
\* The server takes a request, answers it, or stops; datagrams.

LEMMA ReceiveInv == IInv /\ Receive => IInv'
<1> SUFFICES ASSUME IInv, Receive PROVE IInv'
  OBVIOUS
<1> USE DEF Receive, files, client, history
<1>1. Existing' = Existing /\ Newest' = Newest
  BY DEF Existing, Newest
<1>2. req' \in Request /\ net' \subseteq Request
  BY DEF IInv, TypeOK
<1>3. NoRequest \notin Request
  BY DEF Request, NoRequest
<1>4. TypeOK'
  BY <1>1, <1>2, <1>3 DEF IInv, TypeOK, Labels
<1>5. DoneSoFar' /\ DoneWhenTold'
  BY DEF IInv, DoneSoFar, DoneWhenTold, Registering, Unregistering, MakingGroup
<1>6. \A u \in Users : Whole(u)' = Whole(u) /\ ~InWork(u)
  BY <1>1 DEF Whole, InWork, Registering, Unregistering, SubscribedTo
<1>7. WholeBut'
  BY <1>1, <1>6 DEF IInv, WholeBut, MakingGroup, Made
<1>8. QED
  BY <1>4, <1>5, <1>7 DEF IInv

LEMMA AnswerInv == IInv /\ Answer => IInv'
<1> SUFFICES ASSUME IInv, Answer PROVE IInv'
  OBVIOUS
<1>1. reply' \in [Clients -> Statuses]
  BY DEF Answer, IInv, TypeOK
<1>2. QED
  BY <1>1, BackToIdle DEF Answer, history

LEMMA CrashInv == IInv /\ Crash => IInv'
<1> SUFFICES ASSUME IInv, Crash PROVE IInv'
  OBVIOUS
<1>1. reply' \in [Clients -> Statuses]
  BY DEF Crash, client, IInv, TypeOK
<1>2. QED
  BY <1>1, BackToIdle DEF Crash, client

LEMMA LostInv == IInv /\ Lost => IInv'
<1> SUFFICES ASSUME IInv, Lost PROVE IInv'
  OBVIOUS
<1> USE DEF Lost, files, client, history
<1>1. Existing' = Existing /\ Newest' = Newest
  BY DEF Existing, Newest
<1>2. TypeOK'
  BY <1>1 DEF IInv, TypeOK
<1>3. QED
  BY <1>2, SameState

-----------------------------------------------------------------------------
\* The clients.

LEMMA SendInv ==
    ASSUME IInv, NEW c \in Clients, NEW m \in Request, Send(c, m)
    PROVE  IInv'
<1> USE DEF Send, files, history
<1>1. Existing' = Existing /\ Newest' = Newest
  BY DEF Existing, Newest
<1>2. waiting' \in [Clients -> Request \cup {NoRequest}]
  BY DEF IInv, TypeOK
<1>3. TypeOK'
  BY <1>1, <1>2 DEF IInv, TypeOK
<1>4. QED
  BY <1>3, SameState

LEMMA SendsInv ==
    ASSUME IInv, NEW c \in Clients, NEW k \in Commands,
           \/ SendAbout(c, k) \/ SendLogout(c, k)
           \/ SendSubscribe(c, k) \/ SendUnsubscribe(c, k)
    PROVE  IInv'
<1>1. k \in Command
  BY CommandsAssumption
<1>2. uid[c] \in Users \cup {Nobody} /\ pass[c] \in Passwords \cup {Nobody}
  BY DEF IInv, TypeOK
<1>3. CASE SendAbout(c, k)
  <2> DEFINE m == [op |-> k.op, from |-> c, uid |-> k.uid, pass |-> k.pass]
  <2>1. k.op \in {"REG", "UNR", "LOG"} /\ Send(c, m)
    BY <1>3 DEF SendAbout
  <2>2. k \in [op : {"REG", "UNR", "LOG"}, uid : Users, pass : Passwords]
    BY <1>1, <2>1 DEF Command
  <2>3. m \in Request
    BY <2>2 DEF Request
  <2>4. QED
    BY <2>1, <2>3, SendInv
<1>4. CASE SendLogout(c, k)
  <2> DEFINE m == [op |-> "OUT", from |-> c, uid |-> uid[c], pass |-> pass[c],
                   quit |-> k.quit]
  <2>1. k.op = "OUT" /\ uid[c] \in Users /\ Send(c, m)
    BY <1>2, <1>4 DEF SendLogout
  <2>2. k.quit \in BOOLEAN
    BY <1>1, <2>1 DEF Command
  <2>3. pass[c] \in Passwords
    BY <1>2, <1>4 DEF SendLogout, IInv, TypeOK
  <2>4. m \in Request
    BY <2>1, <2>2, <2>3 DEF Request
  <2>5. QED
    BY <2>1, <2>4, SendInv
<1>5. CASE SendSubscribe(c, k)
  <2> DEFINE m == [op |-> "GSR", from |-> c, uid |-> uid[c], gid |-> k.gid,
                   name |-> k.name]
  <2>1. k.op = "GSR" /\ uid[c] \in Users /\ Send(c, m)
    BY <1>2, <1>5 DEF SendSubscribe
  <2>2. k.gid \in Gids \cup {NEW_GROUP} /\ k.name \in Names
    BY <1>1, <2>1 DEF Command
  <2>3. m \in Request
    BY <2>1, <2>2 DEF Request
  <2>4. QED
    BY <2>1, <2>3, SendInv
<1>6. CASE SendUnsubscribe(c, k)
  <2> DEFINE m == [op |-> "GUR", from |-> c, uid |-> uid[c], gid |-> k.gid]
  <2>1. k.op = "GUR" /\ uid[c] \in Users /\ Send(c, m)
    BY <1>2, <1>6 DEF SendUnsubscribe
  <2>2. k.gid \in Gids
    BY <1>1, <2>1 DEF Command
  <2>3. m \in Request
    BY <2>1, <2>2 DEF Request
  <2>4. QED
    BY <2>1, <2>3, SendInv
<1>7. QED
  BY <1>3, <1>4, <1>5, <1>6

LEMMA GetReplyInv ==
    ASSUME IInv, NEW c \in Clients, GetReply(c)
    PROVE  IInv'
<1> USE DEF GetReply, files, history
<1>1. Existing' = Existing /\ Newest' = Newest
  BY DEF Existing, Newest
<1>2. waiting[c].op = "LOG" =>
         waiting[c].uid \in Users /\ waiting[c].pass \in Passwords
  <2>1. waiting[c] \in Request \cup {NoRequest}
    BY DEF IInv, TypeOK
  <2>2. QED
    BY <2>1 DEF Request, NoRequest
<1>3. /\ uid' \in [Clients -> Users \cup {Nobody}]
      /\ pass' \in [Clients -> Passwords \cup {Nobody}]
  BY <1>2 DEF IInv, TypeOK, LogsIn
<1>4. \A d \in Clients : uid'[d] # Nobody => pass'[d] # Nobody
  BY <1>2, <1>3, ValuesAssumption DEF IInv, TypeOK, LogsIn
<1>5. /\ waiting' \in [Clients -> Request \cup {NoRequest}]
      /\ reply' \in [Clients -> Statuses]
  BY DEF IInv, TypeOK, Statuses
<1>6. TypeOK'
  BY <1>1, <1>3, <1>4, <1>5 DEF IInv, TypeOK
<1>7. QED
  BY <1>6, SameState

LEMMA OrphanType ==
    ASSUME NEW c \in Clients, NEW m \in Request
    PROVE  /\ Orphan(c, m) \in Request
           /\ Orphan(c, m).op = m.op /\ Orphan(c, m).uid = m.uid
           /\ m.op = "REG" => Orphan(c, m).pass = m.pass
           /\ m.op = "GSR" => Orphan(c, m).name = m.name
<1>1. NoRequest \notin Request
  BY DEF Request, NoRequest
<1>2. CASE m \in [op : {"REG", "UNR", "LOG"}, from : Clients \cup {Nobody},
                  uid : Users, pass : Passwords]
  BY <1>2 DEF Orphan, Request
<1>3. CASE m \in [op : {"OUT"}, from : Clients \cup {Nobody}, uid : Users,
                  pass : Passwords, quit : BOOLEAN]
  BY <1>3 DEF Orphan, Request
<1>4. CASE m \in [op : {"GSR"}, from : Clients \cup {Nobody}, uid : Users,
                  gid : Gids \cup {NEW_GROUP}, name : Names]
  BY <1>4 DEF Orphan, Request
<1>5. CASE m \in [op : {"GUR"}, from : Clients \cup {Nobody}, uid : Users,
                  gid : Gids]
  BY <1>5 DEF Orphan, Request
<1>6. QED
  BY <1>2, <1>3, <1>4, <1>5 DEF Request

LEMMA TimeoutInv ==
    ASSUME IInv, NEW c \in Clients, Timeout(c)
    PROVE  IInv'
<1> USE DEF Timeout, files, history
<1>1. Existing' = Existing /\ Newest' = Newest
  BY DEF Existing, Newest
<1>2. NoRequest \notin Request
  BY DEF Request, NoRequest
<1>3. \/ req = NoRequest /\ req' = NoRequest
      \/ /\ req \in Request /\ req' \in Request
         /\ req'.op = req.op /\ req'.uid = req.uid
         /\ req.op = "REG" => req'.pass = req.pass
         /\ req.op = "GSR" => req'.name = req.name
  <2>1. CASE req = NoRequest
    BY <2>1 DEF Orphan
  <2>2. CASE req \in Request
    BY <2>2, OrphanType
  <2>3. QED
    BY <2>1, <2>2 DEF IInv, TypeOK
<1>4. net' \subseteq Request
  BY OrphanType DEF IInv, TypeOK
<1>5. /\ uid' \in [Clients -> Users \cup {Nobody}]
      /\ pass' \in [Clients -> Passwords \cup {Nobody}]
      /\ \A d \in Clients : uid'[d] # Nobody => pass'[d] # Nobody
      /\ waiting' \in [Clients -> Request \cup {NoRequest}]
      /\ reply' \in [Clients -> Statuses]
  BY DEF IInv, TypeOK, Statuses
<1>6. TypeOK'
  BY <1>1, <1>2, <1>3, <1>4, <1>5 DEF IInv, TypeOK
<1>7. req'.op = req.op /\ req'.uid = req.uid
      /\ (req.op = "REG" => req'.pass = req.pass)
      /\ (req.op = "GSR" => req'.name = req.name)
  BY <1>3
<1>8. QED
  BY <1>6, <1>7, SameState

-----------------------------------------------------------------------------
LEMMA NextIInv == IInv /\ [Next]_vars => IInv'
<1> SUFFICES ASSUME IInv, [Next]_vars PROVE IInv'
  OBVIOUS
<1>1. CASE Server
  <2>1. CASE \/ CreateUserDir \/ OpenPass \/ ClosePass \/ DelPassFile
             \/ DelLoginFile \/ DelUserDir \/ Login \/ Logout
    BY <2>1, CreateUserDirInv, OpenPassInv, ClosePassInv, DelPassFileInv,
       DelLoginFileInv, DelUserDirInv, LoginInv, LogoutInv
  <2>2. CASE \/ DelUserFiles \/ CreateGroupDir \/ CreateMSG \/ OpenName
             \/ CloseName \/ NewUserFile \/ Subscribe \/ Unsubscribe
    BY <2>2, DelUserFilesInv, CreateGroupDirInv, CreateMSGInv, OpenNameInv,
       CloseNameInv, NewUserFileInv, SubscribeInv, UnsubscribeInv
  <2>3. CASE \/ RegDuplicated \/ UnregisterRefused \/ Unregistered
             \/ LoginRefused \/ LogoutRefused \/ SubscribeRefused \/ GroupsFull
             \/ NoSuchGroup \/ NoNameFile \/ WrongName \/ UnsubscribeRefused
             \/ FirstCallFails
    BY <2>3, RefusalsInv
  <2>4. CASE Receive \/ Answer
    BY <2>4, ReceiveInv, AnswerInv
  <2>5. CASE \/ LaterCallFails \/ DelUserDirFails \/ DelLoginFileFails
             \/ CreateGroupDirFails
    BY <2>5, LaterCallFailsInv, DelLoginFileFailsInv, CreateGroupDirFailsInv
  <2>6. QED
    BY <1>1, <2>1, <2>2, <2>3, <2>4, <2>5 DEF Server
<1>2. CASE Crash \/ Lost
  BY <1>2, CrashInv, LostInv
<1>3. ASSUME NEW c \in Clients, Client(c) PROVE IInv'
  BY <1>3, SendsInv, GetReplyInv, TimeoutInv DEF Client
<1>4. CASE UNCHANGED vars
  <2>1. Existing' = Existing /\ Newest' = Newest
    BY <1>4 DEF vars, files, Existing, Newest
  <2>2. TypeOK'
    BY <1>4, <2>1 DEF vars, files, client, history, IInv, TypeOK
  <2>3. QED
    BY <1>4, <2>2, SameState DEF vars, files, client, history
<1>5. QED
  BY <1>1, <1>2, <1>3, <1>4 DEF Next

-----------------------------------------------------------------------------
\* What is known of the server at every step of any request, and of the files.
THEOREM Inductive == Spec => []IInv
<1>1. QED
  BY InitIInv, NextIInv, PTL DEF Spec

\* Every variable keeps its type and groups are numbered without gaps.
THEOREM TypeCorrect == Spec => []TypeOK
<1>1. IInv => TypeOK
  BY DEF IInv
<1>2. QED
  BY <1>1, Inductive, PTL

\* Between two requests users and groups are whole, but for the one that each
\* crash or failed call was about (reg, unregister and subscribe of server.c);
\* and even then only users with a directory have a password or are logged in,
\* and only groups with a name have users.
THEOREM WholeDirectory == Spec => []DirectoryWhole
<1>1. IInv => DirectoryWhole
  <2> SUFFICES ASSUME IInv, pc = "idle"
               PROVE  /\ \A u \in Users \ hurt : Whole(u)
                      /\ \A g \in Existing \ unmade :
                            groups[g].name \in Names /\ groups[g].MSG
                      /\ logins \subseteq dirs
                      /\ \A u \in Users : passwords[u] # Absent => u \in dirs
                      /\ \A g \in Existing :
                            /\ groups[g].users # {} => groups[g].name # Absent
                            /\ groups[g].name # Absent => groups[g].MSG
    BY DEF DirectoryWhole, Whole
  <2>1. \A u \in Users \ hurt : Whole(u)
    BY DEF IInv, WholeBut, InWork, Registering, Unregistering
  <2>2. \A g \in Existing : Made(g)
    BY DEF IInv, WholeBut
  <2>3. logins \subseteq Users
    BY DEF IInv, TypeOK
  <2>4. QED
    BY <2>1, <2>2, <2>3 DEF IInv, DoneSoFar, Made, MakingGroup
<1>2. QED
  BY <1>1, Inductive, PTL

\* What the server says it has done it has done in full, whatever it found.
THEOREM AnswersAreTrue == Spec => []DoneWhenTold
<1>1. IInv => DoneWhenTold
  BY DEF IInv
<1>2. QED
  BY <1>1, Inductive, PTL

-----------------------------------------------------------------------------
\* What clients believe, and what it rests on.

\* A request that comes from a client is the one that it waits for, once.
Pending ==
    /\ \A m \in net : m.from \in Clients =>
          waiting[m.from] = m /\ reply[m.from] = "none"
    /\ pc # "idle" /\ req.from \in Clients =>
          /\ waiting[req.from] = req /\ reply[req.from] = "none"
          /\ req \notin net
    /\ \A c \in Clients : waiting[c] # NoRequest => waiting[c].from = c
    /\ \A c \in Clients : waiting[c] = NoRequest => reply[c] = "none"
    /\ \A c \in Clients : waiting[c].op = "LOG" => uid[c] = Nobody

\* A client that does not know it was put out knows the password, unless a
\* crash has left the file empty.
Known(u, w) == u \in logins /\ passwords[u] \in {w, Blank}

\* A logout, or an unregister, of the user that the server has gone about.
Leaving(c) ==
    /\ waiting[c].op \in {"OUT", "UNR"} /\ waiting[c].uid = uid[c]
    /\ waiting[c] \notin net /\ reply[c] \in {"none", "OK"}
    /\ pc # "idle" /\ req = waiting[c] =>
          pc \in Unregistering \/ (pc = "answer" /\ status = "OK")

Believed ==
    \A c \in Clients : uid[c] # Nobody /\ <<c, uid[c]>> \notin evicted =>
        Known(uid[c], pass[c]) \/ Leaving(c)

\* Being told that a login is done is good until it is believed.
LoginTold ==
    /\ pc = "answer" /\ req.op = "LOG" /\ status = "OK"
          /\ req.from \in Clients => Known(req.uid, req.pass)
    /\ \A c \in Clients :
          waiting[c].op = "LOG" /\ reply[c] = "OK"
              /\ <<c, waiting[c].uid>> \notin evicted =>
                  Known(waiting[c].uid, waiting[c].pass)

LInv == Pending /\ Believed /\ LoginTold

-----------------------------------------------------------------------------
LEMMA InitLInv == Init => LInv
<1> SUFFICES ASSUME Init PROVE LInv
  OBVIOUS
<1>1. \A c \in Clients : waiting[c] = NoRequest /\ uid[c] = Nobody
  BY DEF Init
<1>2. NoRequest.op = "none"
  BY DEF NoRequest
<1>3. Pending
  BY <1>1, <1>2 DEF Init, Pending
<1>4. Believed /\ LoginTold
  BY <1>1, <1>2 DEF Init, Believed, LoginTold
<1>5. QED
  BY <1>3, <1>4 DEF LInv

-----------------------------------------------------------------------------
\* Steps of the server between taking a request and answering it.  What concerns
\* other users stays true.  A client that takes itself to be the user of the
\* request is put out, or loses nothing, or is leaving by this very request.

LEMMA ServeStep ==
    ASSUME IInv, LInv, pc \notin {"idle", "answer"}, pc' # "idle",
           UNCHANGED <<req, net, client>>,
           \A u \in Users \ {req.uid} :
              /\ u \in logins' <=> u \in logins
              /\ passwords'[u] = passwords[u]
              /\ \A c \in Clients : <<c, u>> \in evicted => <<c, u>> \in evicted',
           \A c \in Clients : <<c, req.uid>> \notin evicted' =>
              \/ /\ <<c, req.uid>> \notin evicted
                 /\ \A w \in Passwords : Known(req.uid, w) => Known(req.uid, w)'
                 /\ pc \in Unregistering =>
                       pc' \in Unregistering \/ (pc' = "answer" /\ status' = "OK")
              \/ c = req.from /\ (uid[c] = req.uid => Leaving(c)'),
           pc' = "answer" /\ req.op = "LOG" /\ status' = "OK" =>
              Known(req.uid, req.pass)'
    PROVE  LInv'
<1> USE DEF client
<1>1. req \in Request /\ req.uid \in Users
  BY ReqTypes DEF IInv
<1>2. req.from \in Clients => waiting[req.from] = req /\ reply[req.from] = "none"
  BY DEF LInv, Pending
<1>3. Pending'
  BY DEF LInv, Pending
<1>4. Believed'
  <2> SUFFICES ASSUME NEW c \in Clients, uid[c] # Nobody, <<c, uid[c]>> \notin evicted'
               PROVE  Known(uid[c], pass[c])' \/ Leaving(c)'
    BY DEF Believed
  <2>1. uid[c] \in Users /\ pass[c] \in Passwords
    BY DEF IInv, TypeOK
  <2>2. CASE uid[c] = req.uid /\ <<c, req.uid>> \notin evicted
             /\ (\A w \in Passwords : Known(req.uid, w) => Known(req.uid, w)')
             /\ (pc \in Unregistering =>
                   pc' \in Unregistering \/ (pc' = "answer" /\ status' = "OK"))
    <3>1. Known(uid[c], pass[c]) \/ Leaving(c)
      BY <2>2 DEF LInv, Believed
    <3>2. Known(uid[c], pass[c]) => Known(uid[c], pass[c])'
      BY <2>1, <2>2
    <3>3. Leaving(c) => Leaving(c)'
      BY <2>2 DEF Leaving
    <3>4. QED
      BY <3>1, <3>2, <3>3
  <2>3. CASE uid[c] = req.uid /\ Leaving(c)'
    BY <2>3
  <2>4. CASE uid[c] # req.uid
    <3>1. Known(uid[c], pass[c]) \/ Leaving(c)
      BY <2>1, <2>4 DEF LInv, Believed
    <3>2. QED
      BY <2>1, <2>4, <3>1 DEF Known, Leaving
  <2>5. QED
    BY <2>2, <2>3, <2>4
<1>5. LoginTold'
  <2>1. pc' = "answer" /\ req.op = "LOG" /\ status' = "OK" /\ req.from \in Clients =>
           Known(req.uid, req.pass)'
    OBVIOUS
  <2>2. ASSUME NEW c \in Clients, waiting[c].op = "LOG", reply[c] = "OK",
               <<c, waiting[c].uid>> \notin evicted'
        PROVE  Known(waiting[c].uid, waiting[c].pass)'
    <3>1. waiting[c] \in Request
      BY <2>2 DEF IInv, TypeOK, NoRequest
    <3>2. waiting[c].uid \in Users /\ waiting[c].pass \in Passwords
      BY <2>2, <3>1 DEF Request
    <3>3. c # req.from
      BY <1>2, <2>2
    <3>4. <<c, waiting[c].uid>> \notin evicted
      BY <2>2, <3>2, <3>3
    <3>5. Known(waiting[c].uid, waiting[c].pass)
      BY <2>2, <3>4 DEF LInv, LoginTold
    <3>6. CASE waiting[c].uid = req.uid
      BY <2>2, <3>2, <3>3, <3>5, <3>6
    <3>7. CASE waiting[c].uid # req.uid
      BY <3>2, <3>5, <3>7 DEF Known
    <3>8. QED
      BY <3>6, <3>7
  <2>3. QED
    BY <2>1, <2>2 DEF LoginTold
<1>6. QED
  BY <1>3, <1>4, <1>5 DEF LInv

\* Steps that take nothing from anybody that is logged in.
LEMMA QuietLInv ==
    ASSUME IInv, LInv, pc \notin {"idle", "answer"}, pc' # "idle",
           UNCHANGED <<req, net, client, evicted>>,
           \A u \in Users \ {req.uid} : /\ u \in logins' <=> u \in logins
                                        /\ passwords'[u] = passwords[u],
           \A w \in Passwords : Known(req.uid, w) => Known(req.uid, w)',
           req.op = "LOG" => status' # "OK" \/ pc' # "answer",
           pc \in Unregistering =>
               pc' \in Unregistering \/ (pc' = "answer" /\ status' = "OK")
    PROVE  LInv'
  BY ServeStep

LEMMA QuietStepsLInv ==
    IInv /\ LInv /\ (\/ CreateUserDir \/ DelUserDir \/ DelUserFiles \/ CreateMSG
                     \/ OpenName \/ CloseName \/ CreateGroupDir \/ NewUserFile
                     \/ Subscribe \/ Unsubscribe \/ DelLoginFileFails) => LInv'
<1> SUFFICES ASSUME IInv, LInv, \/ CreateUserDir \/ DelUserDir \/ DelUserFiles
                                \/ CreateMSG \/ OpenName \/ CloseName
                                \/ CreateGroupDir \/ NewUserFile \/ Subscribe
                                \/ Unsubscribe \/ DelLoginFileFails
             PROVE  LInv'
  OBVIOUS
<1> USE DEF Goes, Goto, Finish, Reply, Serves, history
<1>1. /\ pc \notin {"idle", "answer"} /\ pc' # "idle"
      /\ UNCHANGED <<req, net, client, passwords, logins, evicted>>
  BY DEF CreateUserDir, DelUserDir, DelUserFiles, CreateMSG, OpenName, CloseName,
     CreateGroupDir, NewUserFile, Subscribe, Unsubscribe, DelLoginFileFails,
     ToExisting, client, files
<1>2. req.op = "LOG" => status' # "OK" \/ pc' # "answer"
  BY DEF CreateUserDir, DelUserDir, DelUserFiles, CreateMSG, OpenName, CloseName,
     CreateGroupDir, NewUserFile, Subscribe, Unsubscribe, DelLoginFileFails,
     ToExisting
<1>3. pc \in Unregistering => pc' \in Unregistering
  BY DEF CreateUserDir, DelUserDir, DelUserFiles, CreateMSG, OpenName, CloseName,
     CreateGroupDir, NewUserFile, Subscribe, Unsubscribe, DelLoginFileFails,
     ToExisting, Unregistering
<1>4. \A w \in Passwords : Known(req.uid, w) => Known(req.uid, w)'
  BY <1>1 DEF Known
<1>5. QED
  BY <1>1, <1>2, <1>3, <1>4, QuietLInv

LEMMA RefusalsLInv ==
    IInv /\ LInv
      /\ (\/ RegDuplicated \/ UnregisterRefused \/ Unregistered
          \/ LoginRefused \/ LogoutRefused \/ SubscribeRefused \/ GroupsFull
          \/ NoSuchGroup \/ NoNameFile \/ WrongName \/ UnsubscribeRefused
          \/ FirstCallFails \/ LaterCallFails)
      => LInv'
<1> SUFFICES ASSUME IInv, LInv,
                    \/ RegDuplicated \/ UnregisterRefused \/ Unregistered
                    \/ LoginRefused \/ LogoutRefused \/ SubscribeRefused
                    \/ GroupsFull \/ NoSuchGroup \/ NoNameFile \/ WrongName
                    \/ UnsubscribeRefused \/ FirstCallFails \/ LaterCallFails
             PROVE  LInv'
  OBVIOUS
<1> USE DEF Finish, Reply, Serves, files, history
<1>1. UNCHANGED <<files, req, net, client, evicted>> /\ pc' = "answer"
  BY DEF RegDuplicated, UnregisterRefused, Unregistered, LoginRefused,
     LogoutRefused, SubscribeRefused, GroupsFull, NoSuchGroup, NoNameFile,
     WrongName, UnsubscribeRefused, FirstCallFails, LaterCallFails
<1>2. /\ pc \notin {"idle", "answer"}
      /\ \/ Unregistered
         \/ pc \notin Unregistering /\ status' # "OK"
  BY DEF RegDuplicated, UnregisterRefused, Unregistered, LoginRefused,
     LogoutRefused, SubscribeRefused, GroupsFull, NoSuchGroup, NoNameFile,
     WrongName, UnsubscribeRefused, FirstCallFails, LaterCallFails, ToExisting,
     Unregistering
<1>3. Unregistered => req.op = "UNR" /\ status' = "OK"
  BY DEF Unregistered, IInv, DoneSoFar, Unregistering
<1>4. \A w \in Passwords : Known(req.uid, w) => Known(req.uid, w)'
  BY <1>1 DEF Known
<1>5. QED
  BY <1>1, <1>2, <1>3, <1>4, QuietLInv

-----------------------------------------------------------------------------
\* Steps that change a password or a login.

LEMMA OpenPassLInv == IInv /\ LInv /\ (OpenPass \/ ClosePass) => LInv'
<1> SUFFICES ASSUME IInv, LInv, OpenPass \/ ClosePass PROVE LInv'
  OBVIOUS
<1> USE DEF OpenPass, ClosePass, Goes, Goto, Finish, Reply, history
<1>1. req.op = "REG" /\ req.uid \notin logins /\ pc \notin Unregistering
  BY DEF IInv, DoneSoFar, Registering, Unregistering
<1>2. /\ pc \notin {"idle", "answer"} /\ pc' # "idle"
      /\ UNCHANGED <<req, net, client, logins, evicted>>
      /\ \A u \in Users \ {req.uid} : passwords'[u] = passwords[u]
  BY DEF IInv, TypeOK, client
<1>3. \A w \in Passwords : ~Known(req.uid, w)
  BY <1>1 DEF Known
<1>4. QED
  BY <1>1, <1>2, <1>3, QuietLInv

LEMMA DelLoginFileLInv == IInv /\ LInv /\ DelLoginFile => LInv'
<1> SUFFICES ASSUME IInv, LInv, DelLoginFile PROVE LInv'
  OBVIOUS
<1> USE DEF DelLoginFile, Goes, Goto, history
<1>1. req.op = "UNR" /\ passwords[req.uid] = Absent
  BY DEF IInv, DoneSoFar, Unregistering
<1>2. /\ pc = "delLogin" /\ pc' = "delDir"
      /\ UNCHANGED <<req, net, client, passwords, evicted>>
      /\ \A u \in Users \ {req.uid} : u \in logins' <=> u \in logins
  OBVIOUS
<1>3. \A w \in Passwords : ~Known(req.uid, w)
  BY <1>1, ValuesAssumption DEF Known
<1>4. QED
  BY <1>1, <1>2, <1>3, QuietLInv DEF Unregistering

\* The client that asks is leaving, any other is put out.
LEMMA PutOut ==
    ASSUME IInv, LInv, pc = "handle", UNCHANGED <<req, net, client>>,
           \/ pc' = "delLogin"
           \/ pc' = "answer" /\ status' = "OK",
           req.op \in {"OUT", "UNR"},
           evicted' = evicted \cup LoggedInElsewhere,
           \A u \in Users \ {req.uid} : /\ u \in logins' <=> u \in logins
                                        /\ passwords'[u] = passwords[u]
    PROVE  LInv'
<1>1. req.uid \in Users
  BY ReqTypes DEF IInv
<1>2. \A c \in Clients \ {req.from} : <<c, req.uid>> \in evicted'
  BY DEF LoggedInElsewhere
<1>3. ASSUME req.from \in Clients, uid[req.from] = req.uid
      PROVE  Leaving(req.from)'
  BY <1>3 DEF LInv, Pending, Leaving, Unregistering, client
<1>4. \A c \in Clients, u \in Users : <<c, u>> \in evicted => <<c, u>> \in evicted'
  OBVIOUS
<1>5. QED
  BY <1>2, <1>3, <1>4, ServeStep

LEMMA DelPassFileLInv == IInv /\ LInv /\ DelPassFile => LInv'
<1> SUFFICES ASSUME IInv, LInv, DelPassFile PROVE LInv'
  OBVIOUS
<1>1. \A u \in Users \ {req.uid} : /\ u \in logins' <=> u \in logins
                                   /\ passwords'[u] = passwords[u]
  BY DEF IInv, TypeOK, DelPassFile
<1>2. QED
  BY <1>1, PutOut DEF DelPassFile, Goto, Serves

LEMMA LogoutLInv == IInv /\ LInv /\ Logout => LInv'
<1> SUFFICES ASSUME IInv, LInv, Logout PROVE LInv'
  OBVIOUS
<1>1. \A u \in Users \ {req.uid} : /\ u \in logins' <=> u \in logins
                                   /\ passwords'[u] = passwords[u]
  BY DEF Logout
<1>2. QED
  BY <1>1, PutOut DEF Logout, Reply, Serves

\* Nobody is left to believe in the login.
LEMMA DelUserDirFailsLInv == IInv /\ LInv /\ DelUserDirFails => LInv'
<1> SUFFICES ASSUME IInv, LInv, DelUserDirFails PROVE LInv'
  OBVIOUS
<1> USE DEF DelUserDirFails, Reply, files
<1>1. req.op = "UNR"
  BY DEF IInv, DoneSoFar, Unregistering
<1>2. \A c \in Clients : <<c, req.uid>> \in evicted'
  OBVIOUS
<1>3. \A c \in Clients, u \in Users : <<c, u>> \in evicted => <<c, u>> \in evicted'
  OBVIOUS
<1>4. QED
  BY <1>1, <1>2, <1>3, ServeStep

LEMMA LoginLInv == IInv /\ LInv /\ Login => LInv'
<1> SUFFICES ASSUME IInv, LInv, Login PROVE LInv'
  OBVIOUS
<1> USE DEF Login, Reply, Serves
<1>1. /\ pc = "handle" /\ pc' = "answer" /\ req.op = "LOG"
      /\ UNCHANGED <<req, net, client, passwords>>
      /\ \A u \in Users \ {req.uid} : u \in logins' <=> u \in logins
      /\ evicted' = evicted \ {<<req.from, req.uid>>}
  OBVIOUS
<1>2. req.uid \in Users
  BY <1>1, ReqTypes DEF IInv
<1>3. Known(req.uid, req.pass)'
  BY <1>1 DEF Known, MayBeRight
<1>4. \A w \in Passwords : Known(req.uid, w) => Known(req.uid, w)'
  BY <1>1 DEF Known
<1>5. req.from \in Clients => uid[req.from] # req.uid
  BY <1>1, <1>2, ValuesAssumption DEF LInv, Pending
<1>6. \A c \in Clients, u \in Users :
         u # req.uid \/ c # req.from =>
            (<<c, u>> \in evicted <=> <<c, u>> \in evicted')
  BY <1>1
<1>7. pc \notin Unregistering
  BY <1>1 DEF Unregistering
<1>8. QED
  BY <1>1, <1>2, <1>3, <1>4, <1>5, <1>6, <1>7, ServeStep

-----------------------------------------------------------------------------
\* The server takes a request, answers it, or stops; datagrams.

LEMMA ReceiveLInv == IInv /\ LInv /\ Receive => LInv'
<1> SUFFICES ASSUME IInv, LInv, Receive PROVE LInv'
  OBVIOUS
<1> USE DEF Receive, files, client, history
<1>1. req' \in net /\ net' = net \ {req'}
  OBVIOUS
<1>2. Pending'
  BY <1>1 DEF LInv, Pending
<1>3. Believed'
  <2>1. \A c \in Clients : Leaving(c) => Leaving(c)'
    BY <1>1 DEF Leaving
  <2>2. QED
    BY <2>1 DEF LInv, Believed, Known
<1>4. LoginTold'
  BY DEF LInv, LoginTold, Known
<1>5. QED
  BY <1>2, <1>3, <1>4 DEF LInv

\* The request is over, its answer sent or not.
LEMMA AnswerLInv == IInv /\ LInv /\ Answer => LInv'
<1> SUFFICES ASSUME IInv, LInv, Answer PROVE LInv'
  OBVIOUS
<1> USE DEF Answer, files, history
<1>1. \/ /\ req.from \in Clients /\ reply' = [reply EXCEPT ![req.from] = status]
         /\ waiting[req.from] = req /\ req \notin net
      \/ reply' = reply
  BY DEF LInv, Pending
<1>2. req \in Request /\ NoRequest \notin Request
  BY DEF IInv, TypeOK, Request, NoRequest
<1>3. \A c \in Clients : waiting[c] # req => reply'[c] = reply[c]
  BY <1>1 DEF IInv, TypeOK
<1>4. Pending'
  <2>1. \A m \in net : m.from \in Clients => reply'[m.from] = "none"
    BY <1>1, <1>3 DEF LInv, Pending
  <2>2. \A c \in Clients : waiting[c] = NoRequest => reply'[c] = "none"
    BY <1>2, <1>3 DEF LInv, Pending
  <2>3. QED
    BY <2>1, <2>2 DEF LInv, Pending
<1>5. Believed'
  <2>1. ASSUME NEW c \in Clients, Leaving(c) PROVE Leaving(c)'
    <3>1. CASE waiting[c] = req
      <4>1. status = "OK"
        BY <2>1, <3>1 DEF Leaving, Unregistering
      <4>2. reply'[c] \in {"none", "OK"}
        BY <1>1, <2>1, <4>1 DEF Leaving, IInv, TypeOK
      <4>3. QED
        BY <2>1, <4>2 DEF Leaving
    <3>2. CASE waiting[c] # req
      BY <1>3, <2>1, <3>2 DEF Leaving
    <3>3. QED
      BY <3>1, <3>2
  <2>2. QED
    BY <2>1 DEF LInv, Believed, Known
<1>6. LoginTold'
  <2> SUFFICES ASSUME NEW c \in Clients, waiting[c].op = "LOG", reply'[c] = "OK",
                      <<c, waiting[c].uid>> \notin evicted
               PROVE  Known(waiting[c].uid, waiting[c].pass)
    BY DEF LoginTold, Known
  <2>1. CASE reply[c] = "OK"
    BY <2>1 DEF LInv, LoginTold
  <2>2. CASE reply[c] # "OK"
    <3>1. waiting[c] = req /\ req.from \in Clients
      BY <1>1, <1>3, <2>2
    <3>2. status = "OK"
      BY <1>1, <2>2 DEF IInv, TypeOK
    <3>3. QED
      BY <3>1, <3>2 DEF LInv, LoginTold
  <2>3. QED
    BY <2>1, <2>2
<1>7. QED
  BY <1>4, <1>5, <1>6 DEF LInv

\* The server stops, or gives up without an answer.
LEMMA CrashLInv == IInv /\ LInv /\ (Crash \/ CreateGroupDirFails) => LInv'
<1> SUFFICES ASSUME IInv, LInv, Crash \/ CreateGroupDirFails PROVE LInv'
  OBVIOUS
<1>1. pc' = "idle" /\ UNCHANGED <<files, net, client, evicted>>
  BY DEF Crash, CreateGroupDirFails
<1>2. Pending'
  BY <1>1 DEF LInv, Pending, client
<1>3. Believed' /\ LoginTold'
  BY <1>1 DEF LInv, Believed, LoginTold, Known, Leaving, client, files
<1>4. QED
  BY <1>2, <1>3 DEF LInv

LEMMA LostLInv == IInv /\ LInv /\ Lost => LInv'
<1> SUFFICES ASSUME IInv, LInv, Lost PROVE LInv'
  OBVIOUS
<1> USE DEF Lost, files, client, history
<1>1. net' \subseteq net
  OBVIOUS
<1>2. Pending'
  BY <1>1 DEF LInv, Pending
<1>3. Believed' /\ LoginTold'
  BY <1>1 DEF LInv, Believed, LoginTold, Known, Leaving
<1>4. QED
  BY <1>2, <1>3 DEF LInv

-----------------------------------------------------------------------------
\* The clients.

LEMMA SendLInv ==
    ASSUME IInv, LInv, NEW c \in Clients, NEW m \in Request, m.from = c,
           m.op = "LOG" => uid[c] = Nobody, Send(c, m)
    PROVE  LInv'
<1> USE DEF Send, files, history
<1>1. NoRequest \notin Request /\ NoRequest.op = "none"
  BY DEF Request, NoRequest
<1>2. /\ waiting[c] = NoRequest /\ waiting'[c] = m /\ reply' = reply
      /\ \A d \in Clients : d # c => waiting'[d] = waiting[d]
      /\ reply[c] = "none" /\ net' = net \cup {m}
  BY DEF LInv, Pending, IInv, TypeOK
<1>3. /\ \A n \in net : n.from # c
      /\ pc # "idle" => req.from # c
  BY <1>1, <1>2 DEF LInv, Pending, IInv, TypeOK
<1>4. Pending'
  <2>1. \A n \in net' : n.from \in Clients =>
            waiting'[n.from] = n /\ reply'[n.from] = "none"
    BY <1>2, <1>3 DEF LInv, Pending
  <2>2. pc # "idle" /\ req.from \in Clients =>
            /\ waiting'[req.from] = req /\ reply'[req.from] = "none"
            /\ req \notin net'
    BY <1>2, <1>3 DEF LInv, Pending
  <2>3. \A d \in Clients : waiting'[d] # NoRequest => waiting'[d].from = d
    BY <1>2 DEF LInv, Pending
  <2>4. \A d \in Clients : waiting'[d] = NoRequest => reply'[d] = "none"
    BY <1>2 DEF LInv, Pending
  <2>5. \A d \in Clients : waiting'[d].op = "LOG" => uid[d] = Nobody
    BY <1>2 DEF LInv, Pending
  <2>6. QED
    BY <2>1, <2>2, <2>3, <2>4, <2>5 DEF Pending
<1>5. \A d \in Clients : waiting[d] # NoRequest /\ waiting[d] \notin net =>
          d # c /\ waiting'[d] = waiting[d] /\ waiting'[d] \notin net'
  BY <1>2 DEF LInv, Pending
<1>6. Believed'
  <2>1. \A d \in Clients : Leaving(d) => Leaving(d)'
    BY <1>1, <1>5 DEF Leaving
  <2>2. QED
    BY <2>1 DEF LInv, Believed, Known
<1>7. LoginTold'
  BY <1>2 DEF LInv, LoginTold, Known
<1>8. QED
  BY <1>4, <1>6, <1>7 DEF LInv

LEMMA GetReplyLInv ==
    ASSUME IInv, LInv, NEW c \in Clients, GetReply(c)
    PROVE  LInv'
<1> USE DEF GetReply, files, history
<1>1. NoRequest \notin Request /\ NoRequest.op = "none"
  BY DEF Request, NoRequest
<1>2. waiting[c] \in Request /\ waiting[c].from = c
  BY DEF LInv, Pending, IInv, TypeOK
<1>3. /\ \A n \in net : n.from # c
      /\ pc # "idle" => req.from # c
  BY DEF LInv, Pending
<1>4. /\ waiting'[c] = NoRequest /\ reply'[c] = "none"
      /\ \A d \in Clients : d # c => /\ waiting'[d] = waiting[d]
                                     /\ reply'[d] = reply[d]
                                     /\ uid'[d] = uid[d] /\ pass'[d] = pass[d]
      /\ uid'[c] = IF LogsIn(c) THEN waiting[c].uid
                   ELSE IF LogsOut(c) THEN Nobody ELSE uid[c]
      /\ pass'[c] = IF LogsIn(c) THEN waiting[c].pass
                    ELSE IF LogsOut(c) THEN Nobody ELSE pass[c]
  BY DEF IInv, TypeOK
<1>5. Pending'
  BY <1>1, <1>3, <1>4 DEF LInv, Pending
<1>6. Believed'
  <2> SUFFICES ASSUME NEW d \in Clients, uid'[d] # Nobody,
                      <<d, uid'[d]>> \notin evicted
               PROVE  Known(uid'[d], pass'[d]) \/ Leaving(d)'
    BY DEF Believed, Known
  <2>1. CASE d # c
    <3>1. Leaving(d) => Leaving(d)'
      BY <1>4, <2>1 DEF Leaving
    <3>2. QED
      BY <1>4, <2>1, <3>1 DEF LInv, Believed
  <2>2. CASE d = c /\ LogsIn(c)
    BY <1>4, <2>2 DEF LInv, LoginTold, LogsIn
  <2>3. CASE d = c /\ ~LogsIn(c)
    <3>1. ~LogsOut(c) /\ uid'[c] = uid[c] /\ pass'[c] = pass[c]
      BY <1>4, <2>3
    <3>2. ~Leaving(c)
      BY <3>1 DEF Leaving, LogsOut
    <3>3. QED
      BY <2>3, <3>1, <3>2 DEF LInv, Believed
  <2>4. QED
    BY <2>1, <2>2, <2>3
<1>7. LoginTold'
  BY <1>1, <1>4 DEF LInv, LoginTold, Known
<1>8. QED
  BY <1>5, <1>6, <1>7 DEF LInv

LEMMA OrphanFrom ==
    ASSUME NEW c \in Clients, NEW m \in Request
    PROVE  /\ m.from = c => Orphan(c, m).from = Nobody
           /\ m.from # c => Orphan(c, m) = m
<1>1. m # NoRequest
  BY DEF Request, NoRequest
<1>2. m.from = c => [m EXCEPT !.from = Nobody].from = Nobody
  BY DEF Request
<1>3. QED
  BY <1>1, <1>2 DEF Orphan

LEMMA TimeoutLInv ==
    ASSUME IInv, LInv, NEW c \in Clients, Timeout(c)
    PROVE  LInv'
<1> USE DEF Timeout, files, history
<1>1. /\ NoRequest \notin Request /\ NoRequest.op = "none"
      /\ Nobody \notin Clients
  BY ValuesAssumption DEF Request, NoRequest
<1>2. /\ net \subseteq Request
      /\ pc # "idle" => req \in Request
  BY DEF IInv, TypeOK
<1>3. /\ waiting'[c] = NoRequest /\ reply'[c] = "none" /\ uid'[c] = Nobody
      /\ \A d \in Clients : d # c => /\ waiting'[d] = waiting[d]
                                     /\ reply'[d] = reply[d]
                                     /\ uid'[d] = uid[d] /\ pass'[d] = pass[d]
  BY DEF IInv, TypeOK
<1>4. \A n \in net' : n.from = Nobody \/ (n \in net /\ n.from # c)
  <2> SUFFICES ASSUME NEW m \in net
               PROVE  \/ Orphan(c, m).from = Nobody
                      \/ Orphan(c, m) \in net /\ Orphan(c, m).from # c
    OBVIOUS
  <2>1. QED
    BY <1>2, OrphanFrom
<1>5. pc # "idle" => req'.from = Nobody \/ (req' = req /\ req.from # c)
  BY <1>2, OrphanFrom
<1>6. Pending'
  <2>1. \A n \in net' : n.from \in Clients =>
            waiting'[n.from] = n /\ reply'[n.from] = "none"
    BY <1>1, <1>3, <1>4 DEF LInv, Pending
  <2>2. pc # "idle" /\ req'.from \in Clients =>
            /\ waiting'[req'.from] = req' /\ reply'[req'.from] = "none"
            /\ req' \notin net'
    BY <1>1, <1>3, <1>4, <1>5 DEF LInv, Pending
  <2>3. \A d \in Clients : waiting'[d].op = "LOG" => uid'[d] = Nobody
    BY <1>1, <1>3 DEF LInv, Pending
  <2>4. QED
    BY <1>3, <2>1, <2>2, <2>3 DEF LInv, Pending
<1>7. ASSUME NEW d \in Clients, d # c, waiting[d] # NoRequest
      PROVE  /\ waiting[d] \notin net => waiting[d] \notin net'
             /\ pc # "idle" /\ req' = waiting[d] => req' = req
  BY <1>1, <1>4, <1>5, <1>7 DEF LInv, Pending
<1>8. Believed'
  <2> SUFFICES ASSUME NEW d \in Clients, uid'[d] # Nobody,
                      <<d, uid'[d]>> \notin evicted
               PROVE  Known(uid'[d], pass'[d]) \/ Leaving(d)'
    BY DEF Believed, Known
  <2>1. d # c /\ uid'[d] = uid[d] /\ pass'[d] = pass[d]
    BY <1>3
  <2>2. Leaving(d) => Leaving(d)'
    <3>1. Leaving(d) => waiting[d] # NoRequest
      BY <1>1 DEF Leaving
    <3>2. QED
      BY <1>3, <1>7, <2>1, <3>1 DEF Leaving
  <2>3. QED
    BY <2>1, <2>2 DEF LInv, Believed
<1>9. LoginTold'
  <2>1. ASSUME pc = "answer", req'.op = "LOG", status = "OK", req'.from \in Clients
        PROVE  Known(req'.uid, req'.pass)
    BY <1>1, <1>5, <2>1 DEF LInv, LoginTold
  <2>2. ASSUME NEW d \in Clients, waiting'[d].op = "LOG", reply'[d] = "OK",
               <<d, waiting'[d].uid>> \notin evicted
        PROVE  Known(waiting'[d].uid, waiting'[d].pass)
    BY <1>1, <1>3, <2>2 DEF LInv, LoginTold
  <2>3. QED
    BY <2>1, <2>2 DEF LoginTold, Known
<1>10. QED
  BY <1>6, <1>8, <1>9 DEF LInv

-----------------------------------------------------------------------------
LEMMA SendsLInv ==
    ASSUME IInv, LInv, NEW c \in Clients, NEW k \in Commands,
           \/ SendAbout(c, k) \/ SendLogout(c, k)
           \/ SendSubscribe(c, k) \/ SendUnsubscribe(c, k)
    PROVE  LInv'
<1>1. PICK m \in Request :
         m.from = c /\ (m.op = "LOG" => uid[c] = Nobody) /\ Send(c, m)
  <2>1. k \in Command
    BY CommandsAssumption
  <2>2. uid[c] \in Users \cup {Nobody} /\ (uid[c] # Nobody => pass[c] \in Passwords)
    BY DEF IInv, TypeOK
  <2>3. CASE SendAbout(c, k)
    <3> DEFINE m == [op |-> k.op, from |-> c, uid |-> k.uid, pass |-> k.pass]
    <3>1. k.op \in {"REG", "UNR", "LOG"} /\ Send(c, m)
      BY <2>3 DEF SendAbout
    <3>2. k.uid \in Users /\ k.pass \in Passwords
      BY <2>1, <3>1 DEF Command
    <3>3. m \in Request /\ m.from = c /\ (m.op = "LOG" => uid[c] = Nobody)
      BY <2>3, <3>1, <3>2 DEF Request, SendAbout
    <3>4. QED
      BY <3>1, <3>3
  <2>4. CASE SendLogout(c, k)
    <3> DEFINE m == [op |-> "OUT", from |-> c, uid |-> uid[c], pass |-> pass[c],
                     quit |-> k.quit]
    <3>1. k.op = "OUT" /\ uid[c] \in Users /\ Send(c, m)
      BY <2>2, <2>4 DEF SendLogout
    <3>2. k.quit \in BOOLEAN /\ pass[c] \in Passwords
      BY <2>1, <2>2, <2>4, <3>1 DEF Command, SendLogout
    <3>3. m \in Request /\ m.from = c
      BY <3>1, <3>2 DEF Request
    <3>4. QED
      BY <3>1, <3>3
  <2>5. CASE SendSubscribe(c, k)
    <3> DEFINE m == [op |-> "GSR", from |-> c, uid |-> uid[c], gid |-> k.gid,
                     name |-> k.name]
    <3>1. k.op = "GSR" /\ uid[c] \in Users /\ Send(c, m)
      BY <2>2, <2>5 DEF SendSubscribe
    <3>2. k.gid \in Gids \cup {NEW_GROUP} /\ k.name \in Names
      BY <2>1, <3>1 DEF Command
    <3>3. m \in Request /\ m.from = c
      BY <3>1, <3>2 DEF Request
    <3>4. QED
      BY <3>1, <3>3
  <2>6. CASE SendUnsubscribe(c, k)
    <3> DEFINE m == [op |-> "GUR", from |-> c, uid |-> uid[c], gid |-> k.gid]
    <3>1. k.op = "GUR" /\ uid[c] \in Users /\ Send(c, m)
      BY <2>2, <2>6 DEF SendUnsubscribe
    <3>2. k.gid \in Gids
      BY <2>1, <3>1 DEF Command
    <3>3. m \in Request /\ m.from = c
      BY <3>1, <3>2 DEF Request
    <3>4. QED
      BY <3>1, <3>3
  <2>7. QED
    BY <2>3, <2>4, <2>5, <2>6
<1>2. QED
  BY <1>1, SendLInv

LEMMA NextLInv == IInv /\ LInv /\ [Next]_vars => LInv'
<1> SUFFICES ASSUME IInv, LInv, [Next]_vars PROVE LInv'
  OBVIOUS
<1>1. CASE Server
  <2>1. CASE \/ CreateUserDir \/ DelUserDir \/ DelUserFiles \/ CreateMSG
             \/ OpenName \/ CloseName \/ CreateGroupDir \/ NewUserFile
             \/ Subscribe \/ Unsubscribe \/ DelLoginFileFails
    BY <2>1, QuietStepsLInv
  <2>2. CASE \/ RegDuplicated \/ UnregisterRefused \/ Unregistered
             \/ LoginRefused \/ LogoutRefused \/ SubscribeRefused \/ GroupsFull
             \/ NoSuchGroup \/ NoNameFile \/ WrongName \/ UnsubscribeRefused
             \/ FirstCallFails \/ LaterCallFails
    BY <2>2, RefusalsLInv
  <2>3. CASE \/ OpenPass \/ ClosePass \/ DelPassFile \/ DelLoginFile
             \/ Login \/ Logout \/ DelUserDirFails
    BY <2>3, OpenPassLInv, DelPassFileLInv, DelLoginFileLInv, LoginLInv,
       LogoutLInv, DelUserDirFailsLInv
  <2>4. CASE Receive \/ Answer \/ CreateGroupDirFails
    BY <2>4, ReceiveLInv, AnswerLInv, CrashLInv
  <2>5. QED
    BY <1>1, <2>1, <2>2, <2>3, <2>4 DEF Server
<1>2. CASE Crash \/ Lost
  BY <1>2, CrashLInv, LostLInv
<1>3. ASSUME NEW c \in Clients, Client(c) PROVE LInv'
  BY <1>3, SendsLInv, GetReplyLInv, TimeoutLInv DEF Client
<1>4. CASE UNCHANGED vars
  <2> USE <1>4 DEF vars, files, client, history
  <2>1. Pending' /\ Believed' /\ LoginTold'
    BY DEF LInv, Pending, Believed, LoginTold, Known, Leaving
  <2>2. QED
    BY <2>1 DEF LInv
<1>5. QED
  BY <1>1, <1>2, <1>3, <1>4 DEF Next

\* A client is right to believe that it is logged in until another, or an
\* unregister that fails, has put its user out (login, logout and unregister of
\* server.c and user.c), whatever is lost or late and wherever the server stops.
THEOREM LoginsBelieved == Spec => []BelievesLogin
<1>1. LInv => BelievesLogin
  BY DEF LInv, Believed, Leaving, Known, BelievesLogin
<1>2. IInv /\ LInv /\ [Next]_vars => (IInv /\ LInv)'
  BY NextIInv, NextLInv
<1>3. QED
  BY <1>1, <1>2, InitIInv, InitLInv, PTL DEF Spec

=============================================================================
