------------------------------ MODULE Messages ------------------------------
(***************************************************************************)
(* Messages of a group in the RC server (RC/Proj/server.c): each TCP       *)
(* connection is served by a process of its own, which posts a message or  *)
(* retrieves some.  A message is a directory, GROUPS/gid/MSG/mid, with a   *)
(* file for its author, one for its text and perhaps one more.  There is   *)
(* no lock: processes meet in the file system alone, where each call is    *)
(* atomic, and a file that was opened for writing is empty until it is     *)
(* closed.  A process may end at any point; its files stay.                *)
(*                                                                         *)
(* Groups do not share messages: this is one group.  Who is subscribed     *)
(* changes at any time (the process that serves UDP, module Accounts).     *)
(***************************************************************************)
EXTENDS Integers, Sequences, FiniteSets

CONSTANTS
    Connections,     \* the processes that serve TCP connections
    Users, Texts,
    LongTexts,       \* the texts of more than 240 characters
    Requests,        \* what the clients ask for
    Absent,          \* no such file
    Blank,           \* an empty file
    Torn,            \* what is stored of a text or file cut short, if anything
    Unset,           \* what a buffer holds before anything is read into it
    MAX_MESSAGES,    \* 9999 in the code
    MAX_RETRIEVED    \* 20 in the code

Mids == 1 .. MAX_MESSAGES

\* The client may close the connection before it has sent everything: what has
\* been sent of a post is "all" of it, its "text" and not the rest, or a text
\* that is "cut".
Request ==
         [op : {"post"}, uid : Users, text : Texts, file : BOOLEAN,
          sent : {"all", "text", "cut"}]
    \cup [op : {"retrieve"}, uid : Users, first : Nat]

ASSUME RequestsAssumption == Requests \subseteq Request
ASSUME ValuesAssumption ==
    /\ {Absent, Blank, Torn, Unset} \cap (Users \cup Texts) = {}
    /\ Absent # Blank /\ Unset # Blank /\ Unset # Absent
    /\ Torn \notin {Absent, Blank, Unset}
    /\ LongTexts \subseteq Texts
ASSUME LimitsAssumption ==
    MAX_MESSAGES \in Nat /\ MAX_RETRIEVED \in Nat \ {0}

VARIABLES
    members,     \* the users whose file is in the directory of the group
    messages,    \* the message directories there are, and what is in them
    pc, req,
    mid,         \* mid of post, what the client is told
    count,       \* msg_count of CreateMsgDir
    dir,         \* the directory a post has made, 0 before
    left,        \* entries readdir is sure to return still
    author, text,\* what retrieve has read of a message
    got,         \* the messages it has put together
    answer,      \* what is sent to the client
    settled      \* the messages that were finished when a retrieve began

local == <<req, mid, count, dir, left, author, text, got, answer, settled>>
vars == <<members, messages, pc, local>>

NoRequest == [op |-> "none"]

\* A message directory as mkdir makes it.
NewMessage == [author |-> Absent, text |-> Absent, file |-> Absent]

Complete(m) == m.author \notin {Absent, Blank} /\ m.text \notin {Absent, Blank}
               /\ m.file # Blank

\* The files as the last run of the server left them: none yet.
Init ==
    /\ members \in SUBSET Users
    /\ messages = [m \in {} |-> NewMessage]
    /\ pc = [c \in Connections |-> "idle"]
    /\ req = [c \in Connections |-> NoRequest]
    /\ mid = [c \in Connections |-> 0]
    /\ count = [c \in Connections |-> 0]
    /\ dir = [c \in Connections |-> 0]
    /\ left = [c \in Connections |-> 0]
    /\ author = [c \in Connections |-> Unset]
    /\ text = [c \in Connections |-> Unset]
    /\ got = [c \in Connections |-> << >>]
    /\ answer = [c \in Connections |-> "none"]
    /\ settled = [c \in Connections |-> {}]

-----------------------------------------------------------------------------
\* The operators marked "mutant" are faulty variants used to test the
\* properties; nothing in the specification refers to them.

Existing == DOMAIN messages

CountMsg == Cardinality(Existing)

Goto(c, label) == pc' = [pc EXCEPT ![c] = label]

Send(c, a) == Goto(c, "answer") /\ answer' = [answer EXCEPT ![c] = a]

\* A connection is accepted, a process forked, and the request read.
Accept(c) ==
    /\ pc[c] = "idle"
    /\ \E r \in Requests : req' = [req EXCEPT ![c] = r]
    /\ Goto(c, "check")
    /\ UNCHANGED <<members, messages, mid, count, dir, left, author, text, got,
                   answer, settled>>

\* What has come of a post that is cut may not be enough to read a user from.
Unreadable(c) == req[c].op = "post" /\ req[c].sent = "cut"

TooLong(c) == req[c].op = "post" /\ req[c].text \in LongTexts

Refused(c) ==
    /\ pc[c] = "check"
    /\ req[c].uid \notin members \/ TooLong(c) \/ Unreadable(c)
    /\ Send(c, "NOK")
    /\ UNCHANGED <<members, messages, req, mid, count, dir, left, author, text,
                   got, settled>>

-----------------------------------------------------------------------------
\* post

\* mid, for the answer, is made from a count of its own.
CountForAnswer(c) ==
    /\ pc[c] = "check"
    /\ req[c].uid \in members /\ req[c].op = "post" /\ ~ TooLong(c)
    /\ mid' = [mid EXCEPT ![c] = CountMsg + 1]
    /\ Goto(c, "count")
    /\ UNCHANGED <<members, messages, req, count, dir, left, author, text, got,
                   answer, settled>>

CountForDirLate(c) ==                                                \* mutant
    /\ pc[c] = "count"
    /\ CountMsg <= MAX_MESSAGES
    /\ count' = [count EXCEPT ![c] = CountMsg]
    /\ Goto(c, "mkdir")
    /\ UNCHANGED <<members, messages, req, mid, dir, left, author, text, got,
                   answer, settled>>

CountForDir(c) ==
    /\ pc[c] = "count"
    /\ CountMsg < MAX_MESSAGES
    /\ count' = [count EXCEPT ![c] = CountMsg]
    /\ Goto(c, "mkdir")
    /\ UNCHANGED <<members, messages, req, mid, dir, left, author, text, got,
                   answer, settled>>

GroupFull(c) ==
    /\ pc[c] = "count"
    /\ CountMsg >= MAX_MESSAGES
    /\ Send(c, "NOK")
    /\ UNCHANGED <<members, messages, req, mid, count, dir, left, author, text,
                   got, settled>>

\* mkdir fails if another process was faster.
DirExists(c) ==
    /\ pc[c] = "mkdir"
    /\ count[c] + 1 \in Existing
    /\ Send(c, "NOK")
    /\ UNCHANGED <<members, messages, req, mid, count, dir, left, author, text,
                   got, settled>>

MakeDirShared(c) ==                                                  \* mutant
    /\ pc[c] = "mkdir"
    /\ messages' = IF count[c] + 1 \in Existing THEN messages
                   ELSE [m \in Existing \cup {count[c] + 1} |->
                           IF m \in Existing THEN messages[m] ELSE NewMessage]
    /\ dir' = [dir EXCEPT ![c] = count[c] + 1]
    /\ Goto(c, "openAuthor")
    /\ UNCHANGED <<members, req, mid, count, left, author, text, got, answer,
                   settled>>

MakeDirAsTold(c) ==                                                  \* mutant
    /\ pc[c] = "mkdir"
    /\ count[c] + 1 \notin Existing
    /\ messages' = [m \in Existing \cup {mid[c] + 1} |->
                      IF m \in Existing THEN messages[m] ELSE NewMessage]
    /\ dir' = [dir EXCEPT ![c] = mid[c] + 1]
    /\ Goto(c, "openAuthor")
    /\ UNCHANGED <<members, req, mid, count, left, author, text, got, answer,
                   settled>>

MakeDir(c) ==
    /\ pc[c] = "mkdir"
    /\ count[c] + 1 \notin Existing
    /\ messages' = [m \in Existing \cup {count[c] + 1} |->
                      IF m \in Existing THEN messages[m] ELSE NewMessage]
    /\ dir' = [dir EXCEPT ![c] = count[c] + 1]
    /\ Goto(c, "openAuthor")
    /\ UNCHANGED <<members, req, mid, count, left, author, text, got, answer,
                   settled>>

Put(c, field, value) ==
    messages' = [messages EXCEPT ![dir[c]] = [@ EXCEPT ![field] = value]]

\* A step of post after which the answer is still to come.
Writes(c, field, value, label) ==
    /\ Put(c, field, value)
    /\ Goto(c, label)
    /\ UNCHANGED <<members, local>>

\* receive_tcp stops where the connection ends, and post goes on with whatever
\* its buffer holds: a text, and a file, that are not what the client meant.
SentText(c) == IF req[c].sent = "cut" THEN Torn ELSE req[c].text
SentFile(c) == IF req[c].sent = "all" THEN req[c].text ELSE Torn

\* The character after the text says whether there is a file; the one found
\* there if none came may say anything.
AfterText(c) == IF req[c].sent # "all" THEN {"openFile", "posted"}
                ELSE IF req[c].file THEN {"openFile"} ELSE {"posted"}

OpenAuthor(c)  == pc[c] = "openAuthor"
                  /\ Writes(c, "author", Blank, "closeAuthor")
CloseAuthor(c) == pc[c] = "closeAuthor"
                  /\ Writes(c, "author", req[c].uid, "openText")
OpenText(c)    == pc[c] = "openText" /\ Writes(c, "text", Blank, "closeText")
CloseTextLast(c) == pc[c] = "closeText"                              \* mutant
                    /\ Writes(c, "text", SentText(c), "posted")
CloseText(c)   == pc[c] = "closeText"
                  /\ \E label \in AfterText(c) :
                        Writes(c, "text", SentText(c), label)
OpenFile(c)    == pc[c] = "openFile" /\ Writes(c, "file", Blank, "closeFile")
CloseFile(c)   == pc[c] = "closeFile"
                  /\ Writes(c, "file", SentFile(c), "posted")

\* mkdir or fopen fails for a reason of the system's own; what was made before
\* stays.
CallFails(c) ==
    /\ pc[c] \in {"mkdir", "openAuthor", "openText", "openFile"}
    /\ Send(c, "NOK")
    /\ UNCHANGED <<members, messages, req, mid, count, dir, left, author, text,
                   got, settled>>

\* fwrite fails, and leaves what it could write.
WriteFails(c) ==
    /\ pc[c] = "closeFile"
    /\ Put(c, "file", Torn)
    /\ Send(c, "NOK")
    /\ UNCHANGED <<members, req, mid, count, dir, left, author, text, got,
                   settled>>

Posted(c) ==
    /\ pc[c] = "posted"
    /\ Send(c, "posted")
    /\ UNCHANGED <<members, messages, req, mid, count, dir, left, author, text,
                   got, settled>>

-----------------------------------------------------------------------------
\* retrieve

\* Where a post is writing in the directory it made.
Writing == {"openAuthor", "closeAuthor", "openText", "closeText", "openFile",
            "closeFile", "posted"}

Writer(c, m) == pc[c] \in Writing /\ dir[c] = m

Finished(m) == Complete(messages[m]) /\ ~ \E c \in Connections : Writer(c, m)

From(c) == {m \in Existing : m >= req[c].first}

\* opendir: what is there now will be returned by readdir.
OpenDir(c) ==
    /\ pc[c] = "check"
    /\ req[c].uid \in members /\ req[c].op = "retrieve"
    /\ left' = [left EXCEPT ![c] = Cardinality(From(c))]
    /\ settled' = [settled EXCEPT ![c] = {m \in Existing : Finished(m)}]
    /\ Goto(c, "next")
    /\ UNCHANGED <<members, messages, req, mid, count, dir, author, text, got,
                   answer>>

\* readdir returns an entry; one made since opendir perhaps.
NextEntry(c) ==
    /\ pc[c] = "next"
    /\ Len(got[c]) < MAX_RETRIEVED
    /\ left[c] > 0 \/ Len(got[c]) < Cardinality(From(c))
    /\ left' = [left EXCEPT ![c] = IF @ > 0 THEN @ - 1 ELSE 0]
    /\ Goto(c, "readAuthor")
    /\ UNCHANGED <<members, messages, req, mid, count, dir, author, text, got,
                   answer, settled>>

\* Only the number of entries counts: the messages are read in order.
CurrentStuck(c) == req[c].first                                      \* mutant
Current(c) == req[c].first + Len(got[c])

\* fscanf of an empty file leaves the buffer as it was.
ReadAuthor(c) ==
    /\ pc[c] = "readAuthor"
    /\ Current(c) \in Existing /\ messages[Current(c)].author # Absent
    /\ author' = [author EXCEPT ![c] =
                    IF messages[Current(c)].author = Blank THEN @
                    ELSE messages[Current(c)].author]
    /\ Goto(c, "readText")
    /\ UNCHANGED <<members, messages, req, mid, count, dir, left, text, got,
                   answer, settled>>

NoAuthor(c) ==
    /\ pc[c] = "readAuthor"
    /\ Current(c) \in Existing => messages[Current(c)].author = Absent
    /\ Send(c, "NOK")
    /\ UNCHANGED <<members, messages, req, mid, count, dir, left, author, text,
                   got, settled>>

ReadText(c) ==
    /\ pc[c] = "readText"
    /\ messages[Current(c)].text # Absent
    /\ text' = [text EXCEPT ![c] = messages[Current(c)].text]
    /\ Goto(c, "readFile")
    /\ UNCHANGED <<members, messages, req, mid, count, dir, left, author, got,
                   answer, settled>>

NoText(c) ==
    /\ pc[c] = "readText"
    /\ messages[Current(c)].text = Absent
    /\ Send(c, "NOK")
    /\ UNCHANGED <<members, messages, req, mid, count, dir, left, author, text,
                   got, settled>>

ReadFile(c) ==
    /\ pc[c] = "readFile"
    /\ got' = [got EXCEPT ![c] =
                 Append(@, [author |-> author[c], text |-> text[c],
                            file |-> messages[Current(c)].file])]
    /\ Goto(c, "next")
    /\ UNCHANGED <<members, messages, req, mid, count, dir, left, author, text,
                   answer, settled>>

EndOfDir(c) ==
    /\ pc[c] = "next"
    /\ left[c] = 0 \/ Len(got[c]) >= MAX_RETRIEVED
    /\ Send(c, IF got[c] = << >> THEN "EOF" ELSE "retrieved")
    /\ UNCHANGED <<members, messages, req, mid, count, dir, left, author, text,
                   got, settled>>

-----------------------------------------------------------------------------
Ends(c) ==
    /\ Goto(c, "idle")
    /\ req' = [req EXCEPT ![c] = NoRequest]
    /\ mid' = [mid EXCEPT ![c] = 0]
    /\ count' = [count EXCEPT ![c] = 0]
    /\ dir' = [dir EXCEPT ![c] = 0]
    /\ left' = [left EXCEPT ![c] = 0]
    /\ author' = [author EXCEPT ![c] = Unset]
    /\ text' = [text EXCEPT ![c] = Unset]
    /\ got' = [got EXCEPT ![c] = << >>]
    /\ answer' = [answer EXCEPT ![c] = "none"]
    /\ settled' = [settled EXCEPT ![c] = {}]
    /\ UNCHANGED <<members, messages>>

\* The answer is sent, or lost with the connection; the process ends.
Exit(c) == pc[c] = "answer" /\ Ends(c)

\* The process ends before: the connection is reset while it waits for the rest
\* of the request, or the machine stops.
Killed(c) == pc[c] \notin {"idle", "answer"} /\ Ends(c)

\* subscribe, unsubscribe and unregister, in the process that serves UDP.
Subscription ==
    /\ members' \in SUBSET Users
    /\ UNCHANGED <<messages, pc, local>>

Post(c) ==
    \/ CountForAnswer(c) \/ CountForDir(c) \/ GroupFull(c) \/ DirExists(c)
    \/ MakeDir(c) \/ OpenAuthor(c) \/ CloseAuthor(c) \/ OpenText(c)
    \/ CloseText(c) \/ OpenFile(c) \/ CloseFile(c) \/ Posted(c)
    \/ CallFails(c) \/ WriteFails(c)

Retrieve(c) ==
    \/ OpenDir(c) \/ NextEntry(c) \/ ReadAuthor(c) \/ NoAuthor(c)
    \/ ReadText(c) \/ NoText(c) \/ ReadFile(c) \/ EndOfDir(c)

Next ==
    \/ \E c \in Connections :
          Accept(c) \/ Refused(c) \/ Post(c) \/ Retrieve(c)
          \/ Exit(c) \/ Killed(c)
    \/ Subscription

Spec == Init /\ [][Next]_vars

-----------------------------------------------------------------------------
\* Properties.

Message == [author : Users \cup {Absent, Blank},
            text : Texts \cup {Absent, Blank, Torn},
            file : Texts \cup {Absent, Blank, Torn}]

\* A message as retrieve reads it.
Part == [author : Users \cup {Unset}, text : Texts \cup {Blank, Torn, Unset},
         file : Texts \cup {Absent, Blank, Torn}]

Labels == {"idle", "check", "count", "mkdir", "openAuthor", "closeAuthor",
           "openText", "closeText", "openFile", "closeFile", "posted", "next",
           "readAuthor", "readText", "readFile", "answer"}

\* Every variable keeps its type, and the directory written to is there.
TypeOK ==
    /\ members \in SUBSET Users
    /\ Existing \in SUBSET Mids /\ messages \in [Existing -> Message]
    /\ pc \in [Connections -> Labels]
    /\ req \in [Connections -> Requests \cup {NoRequest}]
    /\ mid \in [Connections -> Nat]
    /\ count \in [Connections -> 0 .. MAX_MESSAGES]
    /\ dir \in [Connections -> {0} \cup Mids]
    /\ left \in [Connections -> Nat]
    /\ author \in [Connections -> Users \cup {Unset}]
    /\ text \in [Connections -> Texts \cup {Blank, Torn, Unset}]
    /\ got \in [Connections -> Seq(Part)]
    /\ answer \in [Connections -> {"none", "NOK", "EOF", "posted", "retrieved"}]
    /\ settled \in [Connections -> SUBSET Mids]
    /\ \A c \in Connections : pc[c] \in Writing => dir[c] \in Existing

\* Messages are numbered one after another without gaps, however many
\* processes count and create them at once.
MessagesDense == Existing = 1 .. CountMsg

\* A client that has sent everything and is told that its message was posted
\* finds it whole, its own author beside its own text and file, under the number
\* that was made for it.
PostedIsStored ==
    \A c \in Connections :
        answer[c] = "posted" /\ req[c].sent = "all" =>
            /\ dir[c] \in Existing
            /\ messages[dir[c]] = [author |-> req[c].uid, text |-> req[c].text,
                                   file |-> IF req[c].file THEN req[c].text
                                            ELSE Absent]

\* Messages and what was written in them never change, wherever processes
\* end and the server is started again.
NothingOverwritten ==
    [][\A m \in Existing :
          /\ m \in Existing'
          /\ \A field \in {"author", "text", "file"} :
                messages[m][field] \notin {Absent, Blank} =>
                   messages'[m][field] = messages[m][field]]_vars

\* What c has retrieved, when it ends, against what was there when it began.
Retrieved(c) ==
    LET wanted == {m \in settled[c] : m >= req[c].first}
    IN  pc[c] = "answer" /\ req[c].op = "retrieve" =>
          /\ answer[c] = "retrieved" =>
                /\ \A m \in wanted : m < Current(c) =>
                      got[c][m - req[c].first + 1] = messages[m]
                /\ Len(got[c]) < MAX_RETRIEVED =>
                      \A m \in wanted : m < Current(c)
          /\ answer[c] = "EOF" => wanted = {}
          /\ answer[c] = "NOK" /\ settled[c] # {} =>
                \/ req[c].first = 0
                \/ \E m \in Existing : m >= req[c].first /\ m \notin settled[c]

\* A message that was finished when the retrieve began is sent in its place as
\* it was posted, none of those is left out, and the retrieve is refused only
\* if some message was not finished, or it asks for a message 0.
RetrievedAsPosted == \A c \in Connections : Retrieved(c)

-----------------------------------------------------------------------------
\* What the project's statement says, and the code does not do.

\* "If the PST request was successful the status is the number of the message
\* MID" (RC/Enunciado.pdf, 3.2): the client is told the number of its message.
ToldItsNumber ==
    \A c \in Connections :
        answer[c] = "posted" /\ req[c].sent = "all" => mid[c] = dir[c]

=============================================================================
