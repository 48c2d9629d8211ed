--------------------------- MODULE MessagesProofs ---------------------------
(***************************************************************************)
(* Theorems about Messages, for any number of connections, users, texts    *)
(* and requests, and any limits.                                           *)
(***************************************************************************)
EXTENDS Messages, TLAPS, FiniteSetTheorems

-----------------------------------------------------------------------------
\* The inductive invariant.

\* c has made a directory, and may be told so.
Owns(c) == pc[c] \in Writing \/ answer[c] = "posted"

OneOwner == \A c, d \in Connections :
               Owns(c) /\ Owns(d) /\ dir[c] = dir[d] => c = d

\* The file of a post that is done: any, if not everything was sent.
FileSoFar(c) == IF req[c].sent # "all" THEN messages[dir[c]].file
                ELSE IF req[c].file THEN req[c].text ELSE Absent

\* What c has written when it gets to pc[c].
SoFar(c) ==
    [author |-> IF pc[c] = "openAuthor" THEN Absent
                ELSE IF pc[c] = "closeAuthor" THEN Blank ELSE req[c].uid,
     text |-> IF pc[c] \in {"openAuthor", "closeAuthor", "openText"} THEN Absent
              ELSE IF pc[c] = "closeText" THEN Blank ELSE SentText(c),
     file |-> IF pc[c] \in {"posted", "answer"} THEN FileSoFar(c)
              ELSE IF pc[c] = "closeFile" THEN Blank ELSE Absent]

OwnDirectory(c) == Owns(c) => /\ dir[c] \in Existing
                              /\ messages[dir[c]] = SoFar(c)

\* A count is too low when others were faster, never too high.
Counted(c) == pc[c] = "mkdir" => count[c] < MAX_MESSAGES /\ count[c] <= CountMsg

Posting == Writing \cup {"count", "mkdir"}
Reading == {"next", "readAuthor", "readText", "readFile"}

FileComes(c) == req[c].sent = "all" => req[c].file

Labelled(c) ==
    /\ answer[c] = "posted" => pc[c] = "answer"
    /\ pc[c] \in Posting \/ answer[c] = "posted" =>
          req[c] \in Requests /\ req[c].op = "post"
    /\ pc[c] \in {"openFile", "closeFile"} => FileComes(c)
    /\ pc[c] \in Reading \/ answer[c] \in {"retrieved", "EOF"} =>
          req[c] \in Requests /\ req[c].op = "retrieve"
    /\ pc[c] \in {"check", "answer"} => req[c] \in Requests
    /\ pc[c] \notin Reading \cup {"answer"} =>
          settled[c] = {} /\ got[c] = << >>
    /\ pc[c] # "answer" => answer[c] = "none"

Start(c) == IF req[c].first = 0 THEN 1 ELSE req[c].first

\* Which message is due, message 0 apart, and the first not yet counted as
\* returned by readdir.
Place(c) == Start(c) + Len(got[c])
Reached(c) == Place(c) + left[c] + IF pc[c] = "next" THEN 0 ELSE 1

\* A retrieve has read what was posted, and gets to all that was there.
ReadSoFar(c) ==
    /\ \A m \in settled[c] : m \in Existing /\ Finished(m)
    /\ pc[c] \in Reading \/ answer[c] = "retrieved" =>
          \A k \in 1 .. Len(got[c]) :
             req[c].first + k - 1 \in settled[c] =>
                got[c][k] = messages[req[c].first + k - 1]
    /\ pc[c] \in Reading => /\ \A m \in settled[c] : m < Reached(c)
                            /\ Reached(c) - 1 <= CountMsg \/ left[c] = 0
                            /\ pc[c] # "next" => Place(c) <= CountMsg
                            /\ req[c].first = 0 => got[c] = << >>
    /\ pc[c] \in {"readText", "readFile"} => req[c].first # 0
    /\ pc[c] \in {"readText", "readFile"} /\ Current(c) \in settled[c] =>
          author[c] = messages[Current(c)].author
    /\ pc[c] = "readFile" /\ Current(c) \in settled[c] =>
          text[c] = messages[Current(c)].text
    /\ pc[c] = "readFile" => text[c] # Unset

Local(c) == /\ OwnDirectory(c) /\ Counted(c) /\ Labelled(c)
            /\ ReadSoFar(c) /\ Retrieved(c)

IInv == TypeOK /\ MessagesDense /\ OneOwner /\ \A c \in Connections : Local(c)

-----------------------------------------------------------------------------
LEMMA Counting ==
    ASSUME TypeOK
    PROVE  IsFiniteSet(Existing) /\ CountMsg \in Nat
<1>1. IsFiniteSet(Mids)
  BY FS_Interval, LimitsAssumption DEF Mids
<1>2. Existing \in SUBSET Mids
  BY DEF TypeOK
<1>3. IsFiniteSet(Existing)
  BY <1>1, <1>2, FS_Subset
<1>4. QED
  BY <1>3, FS_CardinalityType DEF CountMsg

LEMMA InitIInv == Init => IInv
<1> SUFFICES ASSUME Init PROVE IInv
  OBVIOUS
<1>1. Existing = {} /\ CountMsg = 0
  BY FS_EmptySet DEF Init, Existing, CountMsg
<1>2. << >> \in Seq(Part)
  OBVIOUS
<1>3. messages \in [Existing -> Message]
  BY <1>1 DEF Init
<1>4. TypeOK
  <2>1. "idle" \in Labels /\ 0 \in Nat /\ 0 \in 0 .. MAX_MESSAGES
    BY LimitsAssumption DEF Labels
  <2>2. \A c \in Connections : pc[c] \in Writing => dir[c] \in Existing
    BY DEF Init, Writing
  <2>3. Existing \in SUBSET Mids
    BY <1>1
  <2>4. QED
    BY <1>2, <1>3, <2>1, <2>2, <2>3, Zenon DEF Init, TypeOK
<1>5. MessagesDense
  BY <1>1 DEF MessagesDense
<1>6. OneOwner
  BY DEF Init, OneOwner, Owns, Writing
<1>7. ASSUME NEW c \in Connections PROVE Local(c)
  BY DEF Init, Local, OwnDirectory, Owns, Counted, Labelled, ReadSoFar,
         Retrieved, Writing, Reading, Posting
<1>8. QED
  BY <1>4, <1>5, <1>6, <1>7 DEF IInv

-----------------------------------------------------------------------------
\* Steps and the connections that do not take them.

Same(d) ==
    /\ pc'[d] = pc[d] /\ req'[d] = req[d] /\ mid'[d] = mid[d]
    /\ count'[d] = count[d] /\ dir'[d] = dir[d] /\ left'[d] = left[d]
    /\ author'[d] = author[d] /\ text'[d] = text[d] /\ got'[d] = got[d]
    /\ answer'[d] = answer[d] /\ settled'[d] = settled[d]

Others(c) == \A d \in Connections \ {c} : Same(d)

\* A connection keeps its part of the invariant while others only add
\* directories and write in theirs.
LEMMA Frame ==
    ASSUME IInv, TypeOK', MessagesDense', NEW d \in Connections, Same(d),
           Existing \subseteq Existing', CountMsg <= CountMsg',
           \A m \in settled[d] : messages'[m] = messages[m] /\ Finished(m)',
           Owns(d) => messages'[dir[d]] = messages[dir[d]]
    PROVE  Local(d)'
<1> USE DEF Same
<1>1. Local(d) /\ CountMsg \in Nat /\ CountMsg' \in Nat
  <2>1. TypeOK' => CountMsg' \in Nat
    <3>1. IsFiniteSet(Mids)
      BY FS_Interval, LimitsAssumption DEF Mids
    <3>2. TypeOK' => Existing' \in SUBSET Mids
      BY DEF TypeOK
    <3>3. QED
      BY <3>1, <3>2, FS_Subset, FS_CardinalityType DEF CountMsg
  <2>2. QED
    BY <2>1, Counting DEF IInv
<1>2. OwnDirectory(d)'
  <2>1. (Owns(d) => SoFar(d)' = SoFar(d)) /\ (Owns(d)' <=> Owns(d))
    BY DEF SoFar, FileSoFar, SentText, Owns
  <2>2. QED
    BY <1>1, <2>1 DEF Local, OwnDirectory
<1>3. Counted(d)'
  <2>1. pc[d] = "mkdir" => count[d] \in Nat
    BY LimitsAssumption DEF IInv, TypeOK
  <2>2. QED
    BY <1>1, <2>1 DEF Local, Counted
<1>4. Labelled(d)'
  BY <1>1 DEF Local, Labelled, FileComes
<1>5. ReadSoFar(d)'
  <2>1. Current(d)' = Current(d) /\ Reached(d)' = Reached(d)
        /\ Place(d)' = Place(d)
    BY DEF Current, Reached, Place, Start
  <2>2. \A m \in settled'[d] : m \in Existing' /\ Finished(m)'
    BY <1>1 DEF Local, ReadSoFar
  <2>3. pc'[d] \in Reading \/ answer'[d] = "retrieved" =>
          \A k \in 1 .. Len(got'[d]) :
             req'[d].first + k - 1 \in settled'[d] =>
                got'[d][k] = messages'[req'[d].first + k - 1]
    BY <1>1 DEF Local, ReadSoFar
  <2>4. pc[d] \in Reading => Place(d) \in Nat /\ Reached(d) \in Nat
    <3>1. pc[d] \in Reading => req[d].first \in Nat
      BY <1>1, RequestsAssumption DEF Local, Labelled, Request
    <3>2. got[d] \in Seq(Part)
      BY DEF IInv, TypeOK
    <3>3. Len(got[d]) \in Nat /\ left[d] \in Nat
      BY <3>2 DEF IInv, TypeOK
    <3>4. pc[d] \in Reading => Start(d) \in Nat
      BY <3>1 DEF Start
    <3>5. QED
      BY <3>3, <3>4 DEF Place, Reached
  <2>5. pc'[d] \in Reading => /\ \A m \in settled'[d] : m < Reached(d)'
                              /\ Reached(d)' - 1 <= CountMsg' \/ left'[d] = 0
                              /\ pc'[d] # "next" => Place(d)' <= CountMsg'
                              /\ req'[d].first = 0 => got'[d] = << >>
    BY <1>1, <2>1, <2>4 DEF Local, ReadSoFar
  <2>6. QED
    BY <1>1, <2>1, <2>2, <2>3, <2>5 DEF Local, ReadSoFar
<1>6. Retrieved(d)'
  <2>1. Current(d)' = Current(d)
    BY DEF Current
  <2>2. QED
    BY <1>1, <2>1 DEF Local, Retrieved
<1>7. QED
  BY <1>2, <1>3, <1>4, <1>5, <1>6 DEF Local

\* A step that leaves the directories alone and makes c no owner.
LEMMA Quiet ==
    ASSUME IInv, TypeOK', NEW c \in Connections, Others(c), messages' = messages,
           pc'[c] \notin Writing, answer'[c] # "posted",
           Counted(c)', Labelled(c)', ReadSoFar(c)', Retrieved(c)'
    PROVE  IInv'
<1>1. Existing' = Existing /\ CountMsg' = CountMsg /\ MessagesDense'
  BY DEF Existing, CountMsg, MessagesDense, IInv
<1>2. \A d \in Connections : Owns(d)' => d # c /\ Owns(d) /\ dir'[d] = dir[d]
  BY DEF Owns, Others, Same
<1>3. OneOwner'
  BY <1>2 DEF OneOwner, IInv
<1>4. \A m : Finished(m) => Finished(m)'
  BY <1>1 DEF Finished, Writer, Others, Same
<1>5. ASSUME NEW d \in Connections, d # c PROVE Local(d)'
  <2>1. \A m \in settled[d] : Finished(m)'
    BY <1>4 DEF IInv, Local, ReadSoFar
  <2>2. Same(d)
    BY <1>5 DEF Others
  <2>3. Existing \subseteq Existing' /\ CountMsg <= CountMsg'
    BY <1>1, Counting DEF IInv
  <2>4. QED
    BY <1>1, <2>1, <2>2, <2>3, Frame
<1>6. Local(c)'
  BY <1>2 DEF Local, OwnDirectory
<1>7. QED
  BY <1>1, <1>3, <1>5, <1>6 DEF IInv

LEMMA AcceptInv == ASSUME IInv, NEW c \in Connections, Accept(c) PROVE IInv'
<1>1. TypeOK'
  BY DEF IInv, TypeOK, Accept, Goto, Labels, Writing, Existing
<1>2. Local(c) /\ Others(c) /\ pc'[c] = "check" /\ answer'[c] = "none"
      /\ req'[c] \in Requests /\ messages' = messages
      /\ settled'[c] = {} /\ got'[c] = << >>
  BY DEF IInv, TypeOK, Accept, Goto, Others, Same, Local, Labelled, Reading
<1>3. Labelled(c)' /\ Counted(c)' /\ ReadSoFar(c)' /\ Retrieved(c)'
  BY <1>2 DEF Labelled, Counted, ReadSoFar, Retrieved, Posting, Writing, Reading
<1>4. QED
  BY <1>1, <1>2, <1>3, Quiet DEF Writing

LEMMA EndsInv ==
    ASSUME IInv, NEW c \in Connections, Ends(c)
    PROVE  IInv'
<1>1. TypeOK'
  <2>1. << >> \in Seq(Part)
    OBVIOUS
  <2>2. 0 \in 0 .. MAX_MESSAGES
    BY LimitsAssumption
  <2>3. QED
    BY <2>1, <2>2 DEF IInv, TypeOK, Ends, Goto, Labels, Writing, Existing
<1>2. Local(c) /\ Others(c) /\ pc'[c] = "idle" /\ answer'[c] = "none"
      /\ messages' = messages /\ settled'[c] = {} /\ got'[c] = << >>
  BY DEF IInv, TypeOK, Ends, Goto, Others, Same
<1>3. Labelled(c)' /\ Counted(c)' /\ ReadSoFar(c)' /\ Retrieved(c)'
  BY <1>2 DEF Labelled, Counted, ReadSoFar, Retrieved, Posting, Writing, Reading
<1>4. QED
  BY <1>1, <1>2, <1>3, Quiet DEF Writing

LEMMA RefusedInv == ASSUME IInv, NEW c \in Connections, Refused(c) PROVE IInv'
<1>1. TypeOK'
  BY DEF IInv, TypeOK, Refused, Goto, Send, Labels, Writing, Existing
<1>2. Local(c) /\ Others(c) /\ pc'[c] = "answer" /\ answer'[c] = "NOK"
      /\ messages' = messages /\ req'[c] = req[c] /\ settled'[c] = settled[c]
      /\ got'[c] = got[c]
  BY DEF IInv, TypeOK, Refused, Goto, Send, Others, Same
<1>3. Labelled(c)' /\ Counted(c)' /\ ReadSoFar(c)' /\ Retrieved(c)'
  BY <1>2 DEF Refused, Local, Labelled, Counted, ReadSoFar, Retrieved, Posting, Writing, Reading
<1>4. QED
  BY <1>1, <1>2, <1>3, Quiet, ValuesAssumption DEF Writing

LEMMA GroupFullInv == ASSUME IInv, NEW c \in Connections, GroupFull(c) PROVE IInv'
<1>1. TypeOK'
  BY DEF IInv, TypeOK, GroupFull, Goto, Send, Labels, Writing, Existing
<1>2. Local(c) /\ Others(c) /\ pc'[c] = "answer" /\ answer'[c] = "NOK"
      /\ messages' = messages /\ req'[c] = req[c] /\ settled'[c] = settled[c]
      /\ got'[c] = got[c]
  BY DEF IInv, TypeOK, GroupFull, Goto, Send, Others, Same
<1>3. Labelled(c)' /\ Counted(c)' /\ ReadSoFar(c)' /\ Retrieved(c)'
  BY <1>2 DEF GroupFull, Local, Labelled, Counted, ReadSoFar, Retrieved, Posting, Writing, Reading
<1>4. QED
  BY <1>1, <1>2, <1>3, Quiet, ValuesAssumption DEF Writing

LEMMA DirExistsInv == ASSUME IInv, NEW c \in Connections, DirExists(c) PROVE IInv'
<1>1. TypeOK'
  BY DEF IInv, TypeOK, DirExists, Goto, Send, Labels, Writing, Existing
<1>2. Local(c) /\ Others(c) /\ pc'[c] = "answer" /\ answer'[c] = "NOK"
      /\ messages' = messages /\ req'[c] = req[c] /\ settled'[c] = settled[c]
      /\ got'[c] = got[c]
  BY DEF IInv, TypeOK, DirExists, Goto, Send, Others, Same
<1>3. Labelled(c)' /\ Counted(c)' /\ ReadSoFar(c)' /\ Retrieved(c)'
  BY <1>2 DEF DirExists, Local, Labelled, Counted, ReadSoFar, Retrieved, Posting, Writing, Reading
<1>4. QED
  BY <1>1, <1>2, <1>3, Quiet, ValuesAssumption DEF Writing

LEMMA CountForAnswerInv == ASSUME IInv, NEW c \in Connections, CountForAnswer(c) PROVE IInv'
<1>1. TypeOK'
  <2>1. CountMsg \in Nat
    BY Counting DEF IInv
  <2>2. mid' \in [Connections -> Nat]
    BY <2>1, LimitsAssumption DEF IInv, TypeOK, CountForAnswer
  <2>3. /\ pc' \in [Connections -> Labels]
        /\ \A d \in Connections : pc'[d] \in Writing => dir'[d] \in Existing'
    BY DEF IInv, TypeOK, CountForAnswer, Goto, Labels, Writing, Existing
  <2>4. QED
    BY <2>2, <2>3 DEF IInv, TypeOK, CountForAnswer, Existing
<1>2. Local(c) /\ Others(c) /\ pc'[c] = "count" /\ answer'[c] = "none"
      /\ messages' = messages /\ req'[c] = req[c] /\ settled'[c] = settled[c]
      /\ got'[c] = got[c]
  BY DEF IInv, TypeOK, CountForAnswer, Goto, Others, Same, Local, Labelled
<1>3. Labelled(c)' /\ Counted(c)' /\ ReadSoFar(c)' /\ Retrieved(c)'
  BY <1>2 DEF CountForAnswer, Local, Labelled, Counted, ReadSoFar, Retrieved, Posting, Writing, Reading
<1>4. QED
  BY <1>1, <1>2, <1>3, Quiet, ValuesAssumption DEF Writing

LEMMA CountForDirInv == ASSUME IInv, NEW c \in Connections, CountForDir(c) PROVE IInv'
<1>1. TypeOK'
  <2>1. CountMsg \in Nat
    BY Counting DEF IInv
  <2>2. count' \in [Connections -> 0 .. MAX_MESSAGES]
    BY <2>1, LimitsAssumption DEF IInv, TypeOK, CountForDir
  <2>3. /\ pc' \in [Connections -> Labels]
        /\ \A d \in Connections : pc'[d] \in Writing => dir'[d] \in Existing'
    BY DEF IInv, TypeOK, CountForDir, Goto, Labels, Writing, Existing
  <2>4. QED
    BY <2>2, <2>3 DEF IInv, TypeOK, CountForDir, Existing
<1>2. Local(c) /\ Others(c) /\ pc'[c] = "mkdir" /\ answer'[c] = "none"
      /\ messages' = messages /\ req'[c] = req[c] /\ settled'[c] = settled[c]
      /\ got'[c] = got[c]
  BY DEF IInv, TypeOK, CountForDir, Goto, Others, Same, Local, Labelled
<1>3. Labelled(c)' /\ Counted(c)' /\ ReadSoFar(c)' /\ Retrieved(c)'
  <2>1. count'[c] = CountMsg /\ CountMsg' = CountMsg /\ CountMsg \in Nat
    BY <1>2, Counting DEF IInv, TypeOK, CountForDir, CountMsg, Existing
  <2>2. Counted(c)'
    BY <2>1, LimitsAssumption DEF CountForDir, Counted
  <2>3. QED
    BY <1>2, <2>2 DEF CountForDir, Local, Labelled, Counted, ReadSoFar, Retrieved, Posting, Writing, Reading
<1>4. QED
  BY <1>1, <1>2, <1>3, Quiet, ValuesAssumption DEF Writing

-----------------------------------------------------------------------------
\* retrieve

LEMMA RetrieveFacts ==
    ASSUME IInv, NEW c \in Connections, pc[c] \in Reading \cup {"check"},
           req[c].op = "retrieve"
    PROVE  /\ req[c] \in Requests /\ req[c].first \in Nat
           /\ got[c] \in Seq(Part) /\ Len(got[c]) \in Nat /\ left[c] \in Nat
           /\ Current(c) \in Nat /\ Start(c) \in Nat \ {0}
           /\ Place(c) \in Nat \ {0} /\ Place(c) = Start(c) + Len(got[c])
           /\ req[c].first # 0 => Current(c) = Place(c) /\ Start(c) = req[c].first
           /\ CountMsg \in Nat /\ Existing = 1 .. CountMsg
           /\ IsFiniteSet(Existing)
           /\ answer[c] = "none" /\ Local(c)
           /\ pc[c] = "check" => got[c] = << >>
<1>1. Local(c) /\ CountMsg \in Nat /\ Existing = 1 .. CountMsg
      /\ IsFiniteSet(Existing)
  BY Counting DEF IInv, MessagesDense
<1>2. req[c] \in Requests /\ answer[c] = "none"
      /\ (pc[c] = "check" => got[c] = << >>)
  BY <1>1 DEF Local, Labelled, Reading
<1>3. req[c].first \in Nat
  BY <1>2, RequestsAssumption DEF Request
<1>4. got[c] \in Seq(Part) /\ left[c] \in Nat
  BY DEF IInv, TypeOK, Part
<1>5. Len(got[c]) \in Nat
  BY <1>4
<1>6. /\ Current(c) \in Nat /\ Start(c) \in Nat \ {0}
      /\ Place(c) \in Nat \ {0} /\ Place(c) = Start(c) + Len(got[c])
      /\ req[c].first # 0 => Current(c) = Place(c) /\ Start(c) = req[c].first
  <2>1. Current(c) \in Nat
    BY <1>3, <1>5 DEF Current
  <2>2. Start(c) \in Nat \ {0} /\ (req[c].first # 0 => Start(c) = req[c].first)
    BY <1>3 DEF Start
  <2>3. Place(c) \in Nat \ {0} /\ Place(c) = Start(c) + Len(got[c])
    BY <1>5, <2>2 DEF Place
  <2>4. QED
    BY <2>1, <2>2, <2>3 DEF Current
<1>7. QED
  BY <1>1, <1>2, <1>3, <1>4, <1>5, <1>6

LEMMA FromThere ==
    ASSUME NEW c \in Connections, req[c].first \in Nat, CountMsg \in Nat,
           Existing = 1 .. CountMsg
    PROVE  Cardinality(From(c)) =
             IF Start(c) > CountMsg THEN 0 ELSE CountMsg - Start(c) + 1
<1>1. Start(c) \in Int /\ CountMsg \in Int
  BY DEF Start
<1>2. From(c) = Start(c) .. CountMsg
  BY DEF From, Start
<1>3. Cardinality(Start(c) .. CountMsg) =
        IF Start(c) > CountMsg THEN 0 ELSE CountMsg - Start(c) + 1
  BY <1>1, FS_Interval
<1>4. QED
  BY <1>2, <1>3

LEMMA OpenDirInv == ASSUME IInv, NEW c \in Connections, OpenDir(c) PROVE IInv'
<1>1. /\ req[c] \in Requests /\ req[c].first \in Nat
      /\ CountMsg \in Nat /\ Existing = 1 .. CountMsg
      /\ IsFiniteSet(Existing)
      /\ answer[c] = "none" /\ Local(c) /\ got[c] = << >>
      /\ Start(c) \in Nat \ {0}
  BY RetrieveFacts DEF OpenDir
<1>3. Cardinality(From(c)) =
        IF Start(c) > CountMsg THEN 0 ELSE CountMsg - Start(c) + 1
  BY <1>1, FromThere
<1>4. /\ Others(c) /\ pc'[c] = "next" /\ answer'[c] = "none"
      /\ messages' = messages /\ req'[c] = req[c] /\ got'[c] = << >>
      /\ left'[c] = Cardinality(From(c))
      /\ settled'[c] = {m \in Existing : Finished(m)}
  BY <1>1 DEF IInv, TypeOK, OpenDir, Goto, Others, Same
<1>5. TypeOK'
  <2>1. left' \in [Connections -> Nat]
    BY <1>1, <1>3 DEF IInv, TypeOK, OpenDir
  <2>2. settled' \in [Connections -> SUBSET Mids]
    BY DEF IInv, TypeOK, OpenDir
  <2>3. /\ pc' \in [Connections -> Labels]
        /\ \A d \in Connections : pc'[d] \in Writing => dir'[d] \in Existing'
    BY DEF IInv, TypeOK, OpenDir, Goto, Labels, Writing, Existing
  <2>4. QED
    BY <2>1, <2>2, <2>3 DEF IInv, TypeOK, OpenDir, Existing
<1>6. Counted(c)' /\ Labelled(c)'
  BY <1>1, <1>4 DEF OpenDir, Counted, Labelled, Posting, Writing, Reading
<1>7. Existing' = Existing /\ CountMsg' = CountMsg
  BY <1>4 DEF Existing, CountMsg
<1>8. \A m : Finished(m) => Finished(m)'
  BY <1>4, <1>7 DEF Finished, Writer, Others, Same, Writing
<1>9. ReadSoFar(c)'
  <2>1. Len(got'[c]) = 0
    BY <1>4
  <2>2. Place(c)' = Start(c)
    BY <1>1, <1>4, <2>1 DEF Place, Start
  <2>3. Reached(c)' = IF Start(c) > CountMsg THEN Start(c) ELSE CountMsg + 1
    BY <1>1, <1>3, <1>4, <2>2 DEF Reached
  <2>4. \A m \in settled'[c] : m \in Existing' /\ Finished(m)'
                               /\ m < Reached(c)'
    BY <1>1, <1>4, <1>7, <1>8, <2>3
  <2>5. Reached(c)' - 1 <= CountMsg' \/ left'[c] = 0
    BY <1>1, <1>3, <1>4, <1>7, <2>3
  <2>6. QED
    BY <1>4, <2>1, <2>4, <2>5 DEF ReadSoFar
<1>10. Retrieved(c)'
  BY <1>4 DEF Retrieved
<1>11. QED
  BY <1>4, <1>5, <1>6, <1>9, <1>10, Quiet DEF Writing

LEMMA NextEntryInv ==
    ASSUME IInv, NEW c \in Connections, NextEntry(c) PROVE IInv'
<1>1. pc[c] = "next" /\ pc[c] \in Reading
  BY DEF NextEntry, Reading
<1>2. Local(c) /\ req[c].op = "retrieve"
  BY <1>1 DEF IInv, Local, Labelled
<1>3. /\ req[c] \in Requests /\ req[c].first \in Nat
      /\ got[c] \in Seq(Part) /\ Len(got[c]) \in Nat /\ left[c] \in Nat
      /\ Current(c) \in Nat /\ Start(c) \in Nat \ {0}
      /\ Place(c) \in Nat \ {0} /\ Place(c) = Start(c) + Len(got[c])
      /\ req[c].first # 0 => Current(c) = Place(c) /\ Start(c) = req[c].first
      /\ CountMsg \in Nat /\ Existing = 1 .. CountMsg
      /\ answer[c] = "none"
  BY <1>1, <1>2, RetrieveFacts
<1>4. /\ Others(c) /\ pc'[c] = "readAuthor" /\ answer'[c] = "none"
      /\ messages' = messages /\ req'[c] = req[c] /\ got'[c] = got[c]
      /\ left'[c] = (IF left[c] > 0 THEN left[c] - 1 ELSE 0)
      /\ settled'[c] = settled[c]
  BY <1>3 DEF IInv, TypeOK, NextEntry, Goto, Others, Same
<1>5. TypeOK'
  <2>1. left' \in [Connections -> Nat]
    BY DEF IInv, TypeOK, NextEntry
  <2>2. QED
    BY <2>1 DEF IInv, TypeOK, NextEntry, Goto, Labels, Writing, Existing
<1>6. Counted(c)' /\ Labelled(c)'
  BY <1>2, <1>3, <1>4 DEF Local, Counted, Labelled, Posting, Writing, Reading
<1>7. Existing' = Existing /\ CountMsg' = CountMsg
  BY <1>4 DEF Existing, CountMsg
<1>8. \A m : Finished(m) => Finished(m)'
  BY <1>4, <1>7 DEF Finished, Writer, Others, Same, Writing
<1>9. ReadSoFar(c)'
  <2>1. Place(c)' = Place(c)
    BY <1>4 DEF Place, Start
  <2>2. /\ Reached(c) = Place(c) + left[c]
        /\ Reached(c)' = Place(c) + left'[c] + 1
    BY <1>1, <1>3, <1>4, <2>1 DEF Reached
  <2>3. /\ \A m \in settled[c] : m \in Existing /\ Finished(m)
        /\ \A m \in settled[c] : m < Reached(c)
        /\ Reached(c) - 1 <= CountMsg \/ left[c] = 0
        /\ req[c].first = 0 => got[c] = << >>
        /\ \A k \in 1 .. Len(got[c]) :
              req[c].first + k - 1 \in settled[c] =>
                got[c][k] = messages[req[c].first + k - 1]
    BY <1>1, <1>2 DEF Local, ReadSoFar
  <2>4. \A m \in settled'[c] : m \in Existing' /\ Finished(m)'
    BY <1>4, <1>7, <1>8, <2>3
  <2>5. \A m \in settled'[c] : m < Reached(c)'
    <3> TAKE m \in settled'[c]
    <3>1. m \in Nat /\ m < Reached(c)
      BY <1>3, <1>4, <2>3
    <3>2. QED
      BY <1>3, <1>4, <2>2, <3>1
  <2>6. Reached(c)' - 1 <= CountMsg' \/ left'[c] = 0
    BY <1>3, <1>4, <1>7, <2>2, <2>3
  <2>7. Place(c)' <= CountMsg'
    <3>1. CASE left[c] > 0
      BY <1>3, <1>7, <2>1, <2>2, <2>3, <3>1
    <3>2. CASE Len(got[c]) < Cardinality(From(c))
      <4>1. Cardinality(From(c)) =
              IF Start(c) > CountMsg THEN 0 ELSE CountMsg - Start(c) + 1
        BY <1>3, FromThere
      <4>2. QED
        BY <1>3, <1>7, <2>1, <3>2, <4>1
    <3>3. QED
      BY <3>1, <3>2 DEF NextEntry
  <2>8. QED
    BY <1>4, <2>3, <2>4, <2>5, <2>6, <2>7 DEF ReadSoFar
<1>10. Retrieved(c)'
  BY <1>4 DEF Retrieved
<1>11. QED
  BY <1>4, <1>5, <1>6, <1>9, <1>10, Quiet DEF Writing

LEMMA ReadAuthorInv ==
    ASSUME IInv, NEW c \in Connections, ReadAuthor(c) PROVE IInv'
<1>1. pc[c] = "readAuthor" /\ pc[c] \in Reading
  BY DEF ReadAuthor, Reading
<1>2. Local(c) /\ req[c].op = "retrieve"
  BY <1>1 DEF IInv, Local, Labelled
<1>3. /\ req[c] \in Requests /\ req[c].first \in Nat
      /\ got[c] \in Seq(Part) /\ Len(got[c]) \in Nat /\ left[c] \in Nat
      /\ Current(c) \in Nat /\ Start(c) \in Nat \ {0}
      /\ Place(c) \in Nat \ {0} /\ Place(c) = Start(c) + Len(got[c])
      /\ req[c].first # 0 => Current(c) = Place(c) /\ Start(c) = req[c].first
      /\ CountMsg \in Nat /\ Existing = 1 .. CountMsg
      /\ answer[c] = "none"
  BY <1>1, <1>2, RetrieveFacts
<1>4. /\ Others(c) /\ pc'[c] = "readText" /\ answer'[c] = "none"
      /\ messages' = messages /\ req'[c] = req[c] /\ got'[c] = got[c]
      /\ left'[c] = left[c] /\ settled'[c] = settled[c]
      /\ author'[c] = IF messages[Current(c)].author = Blank THEN author[c]
                      ELSE messages[Current(c)].author
  BY <1>3 DEF IInv, TypeOK, ReadAuthor, Goto, Others, Same
<1>5. TypeOK'
  <2>1. messages[Current(c)].author \in Users \cup {Blank}
    BY DEF IInv, TypeOK, Message, ReadAuthor
  <2>2. author' \in [Connections -> Users \cup {Unset}]
    BY <2>1 DEF IInv, TypeOK, ReadAuthor
  <2>3. QED
    BY <2>2 DEF IInv, TypeOK, ReadAuthor, Goto, Labels, Writing, Existing
<1>6. Counted(c)' /\ Labelled(c)'
  BY <1>2, <1>3, <1>4 DEF Local, Counted, Labelled, Posting, Writing, Reading
<1>7. Existing' = Existing /\ CountMsg' = CountMsg
  BY <1>4 DEF Existing, CountMsg
<1>8. \A m : Finished(m) => Finished(m)'
  BY <1>4, <1>7 DEF Finished, Writer, Others, Same, Writing
<1>9. ReadSoFar(c)'
  <2>1. Current(c)' = Current(c) /\ Reached(c)' = Reached(c)
        /\ Place(c)' = Place(c)
    BY <1>1, <1>4 DEF Current, Reached, Place, Start
  <2>2. Current(c) \in settled[c] => messages[Current(c)].author # Blank
    BY <1>2 DEF Local, ReadSoFar, Finished, Complete
  <2>3. Current(c) \in settled[c] =>
           author'[c] = messages'[Current(c)].author
    BY <1>4, <2>2
  <2>4. req[c].first # 0
    <3>1. Current(c) # 0
      BY <1>3 DEF ReadAuthor
    <3>2. req[c].first = 0 => Len(got[c]) = 0
      BY <1>1, <1>2 DEF Local, ReadSoFar
    <3>3. QED
      BY <1>3, <3>1, <3>2 DEF Current
  <2>5. QED
    BY <1>1, <1>2, <1>4, <1>7, <1>8, <2>1, <2>3, <2>4 DEF Local, ReadSoFar
<1>10. Retrieved(c)'
  BY <1>4 DEF Retrieved
<1>11. QED
  BY <1>4, <1>5, <1>6, <1>9, <1>10, Quiet DEF Writing

LEMMA ReadTextInv ==
    ASSUME IInv, NEW c \in Connections, ReadText(c) PROVE IInv'
<1>1. pc[c] = "readText" /\ pc[c] \in Reading
  BY DEF ReadText, Reading
<1>2. Local(c) /\ req[c].op = "retrieve"
  BY <1>1 DEF IInv, Local, Labelled
<1>3. /\ req[c] \in Requests /\ req[c].first \in Nat
      /\ got[c] \in Seq(Part) /\ Len(got[c]) \in Nat /\ left[c] \in Nat
      /\ Current(c) \in Nat /\ Start(c) \in Nat \ {0}
      /\ Place(c) \in Nat \ {0} /\ Place(c) = Start(c) + Len(got[c])
      /\ req[c].first # 0 => Current(c) = Place(c) /\ Start(c) = req[c].first
      /\ CountMsg \in Nat /\ Existing = 1 .. CountMsg
      /\ answer[c] = "none"
  BY <1>1, <1>2, RetrieveFacts
<1>4. /\ Others(c) /\ pc'[c] = "readFile" /\ answer'[c] = "none"
      /\ messages' = messages /\ req'[c] = req[c] /\ got'[c] = got[c]
      /\ left'[c] = left[c] /\ settled'[c] = settled[c]
      /\ author'[c] = author[c] /\ text'[c] = messages[Current(c)].text
  BY <1>3 DEF IInv, TypeOK, ReadText, Goto, Others, Same
<1>41. messages[Current(c)].text \in Texts \cup {Blank, Torn}
  <2>1. Current(c) \in Existing
    BY <1>1, <1>2, <1>3 DEF Local, ReadSoFar
  <2>2. QED
    BY <2>1 DEF IInv, TypeOK, Message, ReadText
<1>5. TypeOK'
  <2>2. text' \in [Connections -> Texts \cup {Blank, Torn, Unset}]
    BY <1>41 DEF IInv, TypeOK, ReadText
  <2>3. QED
    BY <2>2 DEF IInv, TypeOK, ReadText, Goto, Labels, Writing, Existing
<1>6. Counted(c)' /\ Labelled(c)'
  BY <1>2, <1>3, <1>4 DEF Local, Counted, Labelled, Posting, Writing, Reading
<1>7. Existing' = Existing /\ CountMsg' = CountMsg
  BY <1>4 DEF Existing, CountMsg
<1>8. \A m : Finished(m) => Finished(m)'
  BY <1>4, <1>7 DEF Finished, Writer, Others, Same, Writing
<1>9. ReadSoFar(c)'
  <2>1. Current(c)' = Current(c) /\ Reached(c)' = Reached(c)
        /\ Place(c)' = Place(c)
    BY <1>1, <1>4 DEF Current, Reached, Place, Start
  <2>2. text'[c] # Unset
    BY <1>4, <1>41, ValuesAssumption
  <2>3. QED
    BY <1>1, <1>2, <1>4, <1>7, <1>8, <2>1, <2>2 DEF Local, ReadSoFar
<1>10. Retrieved(c)'
  BY <1>4 DEF Retrieved
<1>11. QED
  BY <1>4, <1>5, <1>6, <1>9, <1>10, Quiet DEF Writing

LEMMA ReadFileInv ==
    ASSUME IInv, NEW c \in Connections, ReadFile(c) PROVE IInv'
<1>1. pc[c] = "readFile" /\ pc[c] \in Reading
  BY DEF ReadFile, Reading
<1>2. Local(c) /\ req[c].op = "retrieve"
  BY <1>1 DEF IInv, Local, Labelled
<1>3. /\ req[c] \in Requests /\ req[c].first \in Nat
      /\ got[c] \in Seq(Part) /\ Len(got[c]) \in Nat /\ left[c] \in Nat
      /\ Current(c) \in Nat /\ Start(c) \in Nat \ {0}
      /\ Place(c) \in Nat \ {0} /\ Place(c) = Start(c) + Len(got[c])
      /\ req[c].first # 0 => Current(c) = Place(c) /\ Start(c) = req[c].first
      /\ CountMsg \in Nat /\ Existing = 1 .. CountMsg
      /\ answer[c] = "none"
  BY <1>1, <1>2, RetrieveFacts
<1> DEFINE part == [author |-> author[c], text |-> text[c],
                     file |-> messages[Current(c)].file]
<1>4. /\ Others(c) /\ pc'[c] = "next" /\ answer'[c] = "none"
      /\ messages' = messages /\ req'[c] = req[c]
      /\ got'[c] = Append(got[c], part)
      /\ left'[c] = left[c] /\ settled'[c] = settled[c]
  BY <1>3 DEF IInv, TypeOK, ReadFile, Goto, Others, Same
<1>41. Current(c) \in Existing
  BY <1>1, <1>2, <1>3 DEF Local, ReadSoFar
<1>42. part \in Part
  <2>1. messages[Current(c)].file \in Texts \cup {Absent, Blank, Torn}
    BY <1>41 DEF IInv, TypeOK, Message
  <2>2. QED
    BY <2>1 DEF IInv, TypeOK, Part
<1>43. /\ got'[c] \in Seq(Part) /\ Len(got'[c]) = Len(got[c]) + 1
       /\ \A k \in 1 .. Len(got[c]) : got'[c][k] = got[c][k]
       /\ got'[c][Len(got[c]) + 1] = part
  <2> HIDE DEF part
  <2>1. QED
    BY <1>3, <1>4, <1>42
<1>5. TypeOK'
  <2>1. got' \in [Connections -> Seq(Part)]
    BY <1>43 DEF IInv, TypeOK, ReadFile, Part
  <2>2. QED
    BY <2>1 DEF IInv, TypeOK, ReadFile, Goto, Labels, Writing, Existing, Part
<1>6. Counted(c)' /\ Labelled(c)'
  BY <1>2, <1>3, <1>4 DEF Local, Counted, Labelled, Posting, Writing, Reading
<1>7. Existing' = Existing /\ CountMsg' = CountMsg
  BY <1>4 DEF Existing, CountMsg
<1>8. \A m : Finished(m) => Finished(m)'
  BY <1>4, <1>7 DEF Finished, Writer, Others, Same, Writing
<1>9. ReadSoFar(c)'
  <2>1. Reached(c)' = Reached(c)
    <3> HIDE DEF part
    <3>0. Start(c)' = Start(c)
      BY <1>4 DEF Start
    <3>1. Place(c)' = Place(c) + 1
      BY <1>3, <1>43, <3>0 DEF Place
    <3>2. Reached(c) = Place(c) + left[c] + 1
          /\ Reached(c)' = Place(c)' + left'[c] + 0
      BY <1>1, <1>4 DEF Reached
    <3>3. QED
      BY <1>3, <1>4, <3>1, <3>2
  <2>2. Current(c) \in settled[c] => part = messages[Current(c)]
    <3>1. Current(c) \in settled[c] =>
            author[c] = messages[Current(c)].author
            /\ text[c] = messages[Current(c)].text
      BY <1>1, <1>2 DEF Local, ReadSoFar
    <3>2. messages[Current(c)] \in Message
      BY <1>41 DEF IInv, TypeOK
    <3>3. QED
      BY <3>1, <3>2 DEF Message
  <2>3. ASSUME NEW k \in 1 .. Len(got'[c]),
               req[c].first + k - 1 \in settled[c]
        PROVE  got'[c][k] = messages[req[c].first + k - 1]
    <3>1. CASE k = Len(got[c]) + 1
      <4>1. req[c].first + k - 1 = Current(c)
        BY <1>3, <3>1 DEF Current
      <4>2. QED
        BY <1>43, <2>2, <2>3, <3>1, <4>1
    <3>2. CASE k \in 1 .. Len(got[c])
      BY <1>1, <1>2, <1>43, <2>3, <3>2 DEF Local, ReadSoFar
    <3>3. QED
      BY <1>3, <1>43, <3>1, <3>2
  <2>4. /\ \A m \in settled[c] : m \in Existing /\ Finished(m)
        /\ \A m \in settled[c] : m < Reached(c)
        /\ Reached(c) - 1 <= CountMsg \/ left[c] = 0
        /\ req[c].first # 0
    BY <1>1, <1>2 DEF Local, ReadSoFar
  <2>5. QED
    BY <1>4, <1>7, <1>8, <2>1, <2>3, <2>4 DEF ReadSoFar
<1>10. Retrieved(c)'
  BY <1>4 DEF Retrieved
<1>11. QED
  BY <1>4, <1>5, <1>6, <1>9, <1>10, Quiet DEF Writing

LEMMA NoAuthorInv == ASSUME IInv, NEW c \in Connections, NoAuthor(c) PROVE IInv'
<1>1. pc[c] = "readAuthor" /\ pc[c] \in Reading
  BY DEF NoAuthor, Reading
<1>2. Local(c) /\ req[c].op = "retrieve"
  BY <1>1 DEF IInv, Local, Labelled
<1>3. /\ req[c] \in Requests /\ req[c].first \in Nat
      /\ got[c] \in Seq(Part) /\ Len(got[c]) \in Nat /\ left[c] \in Nat
      /\ Current(c) \in Nat /\ Start(c) \in Nat \ {0}
      /\ Place(c) \in Nat \ {0} /\ Place(c) = Start(c) + Len(got[c])
      /\ req[c].first # 0 => Current(c) = Place(c) /\ Start(c) = req[c].first
      /\ CountMsg \in Nat /\ Existing = 1 .. CountMsg
      /\ answer[c] = "none"
  BY <1>1, <1>2, RetrieveFacts
<1>4. /\ Others(c) /\ pc'[c] = "answer"
      /\ answer'[c] = "NOK"
      /\ messages' = messages /\ req'[c] = req[c] /\ got'[c] = got[c]
      /\ left'[c] = left[c] /\ settled'[c] = settled[c]
  BY <1>3 DEF IInv, TypeOK, NoAuthor, Goto, Send, Others, Same
<1>5. TypeOK'
  BY <1>3 DEF IInv, TypeOK, NoAuthor, Goto, Send, Labels, Writing, Existing
<1>6. Counted(c)' /\ Labelled(c)'
  BY <1>2, <1>3, <1>4 DEF Local, Counted, Labelled, Posting, Writing, Reading
<1>7. Existing' = Existing /\ CountMsg' = CountMsg
  BY <1>4 DEF Existing, CountMsg
<1>8. \A m : Finished(m) => Finished(m)'
  BY <1>4, <1>7 DEF Finished, Writer, Others, Same, Writing
<1>9. ReadSoFar(c)'
  BY <1>1, <1>2, <1>4, <1>7, <1>8 DEF Local, ReadSoFar, Reading
<1>10. Retrieved(c)'
  <2>1. req[c].first # 0 => Current(c) \in Existing /\ Current(c) >= req[c].first
    BY <1>1, <1>2, <1>3 DEF Local, ReadSoFar
  <2>2. req[c].first # 0 => Current(c) \notin settled[c]
    BY <1>2, <2>1 DEF NoAuthor, Local, ReadSoFar, Finished, Complete
  <2>3. QED
    BY <1>4, <1>7, <2>1, <2>2 DEF Retrieved
<1>11. QED
  BY <1>4, <1>5, <1>6, <1>9, <1>10, Quiet DEF Writing

LEMMA NoTextInv == ASSUME IInv, NEW c \in Connections, NoText(c) PROVE IInv'
<1>1. pc[c] = "readText" /\ pc[c] \in Reading
  BY DEF NoText, Reading
<1>2. Local(c) /\ req[c].op = "retrieve"
  BY <1>1 DEF IInv, Local, Labelled
<1>3. /\ req[c] \in Requests /\ req[c].first \in Nat
      /\ got[c] \in Seq(Part) /\ Len(got[c]) \in Nat /\ left[c] \in Nat
      /\ Current(c) \in Nat /\ Start(c) \in Nat \ {0}
      /\ Place(c) \in Nat \ {0} /\ Place(c) = Start(c) + Len(got[c])
      /\ req[c].first # 0 => Current(c) = Place(c) /\ Start(c) = req[c].first
      /\ CountMsg \in Nat /\ Existing = 1 .. CountMsg
      /\ answer[c] = "none"
  BY <1>1, <1>2, RetrieveFacts
<1>4. /\ Others(c) /\ pc'[c] = "answer"
      /\ answer'[c] = "NOK"
      /\ messages' = messages /\ req'[c] = req[c] /\ got'[c] = got[c]
      /\ left'[c] = left[c] /\ settled'[c] = settled[c]
  BY <1>3 DEF IInv, TypeOK, NoText, Goto, Send, Others, Same
<1>5. TypeOK'
  BY <1>3 DEF IInv, TypeOK, NoText, Goto, Send, Labels, Writing, Existing
<1>6. Counted(c)' /\ Labelled(c)'
  BY <1>2, <1>3, <1>4 DEF Local, Counted, Labelled, Posting, Writing, Reading
<1>7. Existing' = Existing /\ CountMsg' = CountMsg
  BY <1>4 DEF Existing, CountMsg
<1>8. \A m : Finished(m) => Finished(m)'
  BY <1>4, <1>7 DEF Finished, Writer, Others, Same, Writing
<1>9. ReadSoFar(c)'
  BY <1>1, <1>2, <1>4, <1>7, <1>8 DEF Local, ReadSoFar, Reading
<1>10. Retrieved(c)'
  <2>1. Current(c) \in Existing /\ Current(c) >= req[c].first
    BY <1>1, <1>2, <1>3 DEF Local, ReadSoFar, Current
  <2>2. Current(c) \notin settled[c]
    BY <1>2, <2>1 DEF NoText, Local, ReadSoFar, Finished, Complete
  <2>3. QED
    BY <1>4, <1>7, <2>1, <2>2 DEF Retrieved
<1>11. QED
  BY <1>4, <1>5, <1>6, <1>9, <1>10, Quiet DEF Writing

LEMMA EndOfDirInv ==
    ASSUME IInv, NEW c \in Connections, EndOfDir(c) PROVE IInv'
<1>1. pc[c] = "next" /\ pc[c] \in Reading
  BY DEF EndOfDir, Reading
<1>2. Local(c) /\ req[c].op = "retrieve"
  BY <1>1 DEF IInv, Local, Labelled
<1>3. /\ req[c] \in Requests /\ req[c].first \in Nat
      /\ got[c] \in Seq(Part) /\ Len(got[c]) \in Nat /\ left[c] \in Nat
      /\ Current(c) \in Nat /\ Start(c) \in Nat \ {0}
      /\ Place(c) \in Nat \ {0} /\ Place(c) = Start(c) + Len(got[c])
      /\ req[c].first # 0 => Current(c) = Place(c) /\ Start(c) = req[c].first
      /\ CountMsg \in Nat /\ Existing = 1 .. CountMsg
      /\ answer[c] = "none"
  BY <1>1, <1>2, RetrieveFacts
<1>4. /\ Others(c) /\ pc'[c] = "answer"
      /\ answer'[c] = IF got[c] = << >> THEN "EOF" ELSE "retrieved"
      /\ messages' = messages /\ req'[c] = req[c] /\ got'[c] = got[c]
      /\ left'[c] = left[c] /\ settled'[c] = settled[c]
  BY <1>3 DEF IInv, TypeOK, EndOfDir, Goto, Send, Others, Same
<1>5. TypeOK'
  BY <1>3 DEF IInv, TypeOK, EndOfDir, Goto, Send, Labels, Writing, Existing
<1>6. Counted(c)' /\ Labelled(c)'
  BY <1>2, <1>3, <1>4 DEF Local, Counted, Labelled, Posting, Writing, Reading
<1>7. Existing' = Existing /\ CountMsg' = CountMsg
  BY <1>4 DEF Existing, CountMsg
<1>8. \A m : Finished(m) => Finished(m)'
  BY <1>4, <1>7 DEF Finished, Writer, Others, Same, Writing
<1>9. ReadSoFar(c)'
  BY <1>1, <1>2, <1>4, <1>7, <1>8 DEF Local, ReadSoFar, Reading
<1>10. Retrieved(c)'
  <2>1. Current(c)' = Current(c)
    BY <1>4 DEF Current
  <2>2. left[c] = 0 => \A m \in settled[c] : m < Place(c)
    <3>1. Reached(c) = Place(c) + left[c]
      BY <1>1, <1>3 DEF Reached
    <3>2. \A m \in settled[c] : m < Reached(c)
      BY <1>1, <1>2 DEF Local, ReadSoFar
    <3>3. QED
      BY <1>3, <3>1, <3>2
  <2>3. Len(got[c]) < MAX_RETRIEVED => \A m \in settled[c] : m < Place(c)
    BY <1>3, <2>2, LimitsAssumption DEF EndOfDir
  <2>31. req[c].first = 0 => got[c] = << >>
    BY <1>1, <1>2 DEF Local, ReadSoFar
  <2>4. \A m \in settled[c] : m \in Nat \ {0}
    BY <1>2, <1>3 DEF Local, ReadSoFar
  <2>5. got[c] = << >> => \A m \in settled[c] : ~ (m >= req[c].first)
    <3>1. got[c] = << >> => Len(got[c]) = 0 /\ Place(c) = Start(c)
      BY <1>3
    <3>2. Start(c) = 1 \/ Start(c) = req[c].first
      BY DEF Start
    <3>3. QED
      BY <1>3, <2>3, <2>4, <3>1, <3>2, LimitsAssumption
  <2>6. ASSUME NEW m \in settled[c], m >= req[c].first, m < Current(c),
               req[c].first # 0
        PROVE  got[c][m - req[c].first + 1] = messages[m]
    <3>1. /\ m - req[c].first + 1 \in 1 .. Len(got[c])
          /\ req[c].first + (m - req[c].first + 1) - 1 = m
      BY <1>3, <2>4, <2>6 DEF Current
    <3>2. QED
      BY <1>1, <1>2, <3>1 DEF Local, ReadSoFar
  <2>7. QED
    BY <1>3, <1>4, <1>7, <2>1, <2>3, <2>31, <2>5, <2>6 DEF Retrieved
<1>11. QED
  BY <1>4, <1>5, <1>6, <1>9, <1>10, Quiet DEF Writing

-----------------------------------------------------------------------------
\* post

\* A step that writes in the directory of c and in no other.
LEMMA OwnStep ==
    ASSUME IInv, TypeOK', NEW c \in Connections, Others(c), pc[c] \in Writing,
           Existing' = Existing, dir'[c] = dir[c],
           \A m \in Existing : m # dir[c] => messages'[m] = messages[m],
           Local(c)'
    PROVE  IInv'
<1>1. CountMsg' = CountMsg /\ MessagesDense'
  BY DEF CountMsg, MessagesDense, IInv
<1>2. Owns(c) /\ \A d \in Connections : dir'[d] = dir[d] /\ (Owns(d)' => Owns(d))
  BY DEF Owns, Others, Same
<1>3. OneOwner'
  BY <1>2 DEF OneOwner, IInv
<1>4. \A d \in Connections : \A m \in settled[d] :
         m \in Existing /\ Finished(m) /\ m # dir[c]
  BY DEF IInv, Local, ReadSoFar, Finished, Writer
<1>5. \A m \in Existing : Finished(m) /\ m # dir[c] => Finished(m)'
  BY DEF Finished, Writer, Others, Same
<1>6. ASSUME NEW d \in Connections, d # c PROVE Local(d)'
  <2>1. Same(d)
    BY <1>6 DEF Others
  <2>2. Owns(d) => dir[d] \in Existing /\ dir[d] # dir[c]
    BY <1>2, <1>6 DEF IInv, OneOwner, Local, OwnDirectory
  <2>3. Existing \subseteq Existing' /\ CountMsg <= CountMsg'
    BY <1>1, Counting DEF IInv
  <2>4. QED
    BY <1>1, <1>4, <1>5, <2>1, <2>2, <2>3, Frame
<1>7. QED
  BY <1>1, <1>3, <1>6 DEF IInv

LEMMA PutFacts ==
    ASSUME IInv, NEW c \in Connections, pc[c] \in Writing,
           NEW m2 \in Message,
           messages' = [messages EXCEPT ![dir[c]] = m2]
    PROVE  /\ Existing' = Existing /\ dir[c] \in Existing
           /\ messages' \in [Existing' -> Message]
           /\ messages'[dir[c]] = m2
           /\ \A m \in Existing : m # dir[c] => messages'[m] = messages[m]
<1>1. messages \in [Existing -> Message] /\ dir[c] \in Existing
  BY DEF IInv, TypeOK
<1>2. QED
  BY <1>1 DEF Existing

\* A step of post that writes m2 and goes to label.
LEMMA PutStep ==
    ASSUME IInv, NEW c \in Connections, pc[c] \in Writing,
           NEW m2 \in Message, NEW label \in Writing,
           messages' = [messages EXCEPT ![dir[c]] = m2],
           pc' = [pc EXCEPT ![c] = label],
           UNCHANGED <<members, local>>,
           m2 = SoFar(c)',
           label \in {"openFile", "closeFile"} => FileComes(c)
    PROVE  IInv'
<1> USE DEF local
<1>1. /\ Existing' = Existing /\ dir[c] \in Existing
      /\ messages' \in [Existing' -> Message]
      /\ messages'[dir[c]] = m2
      /\ \A m \in Existing : m # dir[c] => messages'[m] = messages[m]
  BY PutFacts
<1>2. pc' \in [Connections -> Labels] /\ pc'[c] = label /\ label \in Writing
      /\ \A d \in Connections \ {c} : pc'[d] = pc[d]
  BY DEF IInv, TypeOK, Labels, Writing
<1>3. \A d \in Connections : pc'[d] \in Writing => dir'[d] \in Existing'
  BY <1>1, <1>2 DEF IInv, TypeOK
<1>4. TypeOK'
  BY <1>1, <1>2, <1>3 DEF IInv, TypeOK
<1>5. Others(c)
  BY <1>2 DEF Others, Same
<1>6. Local(c)'
  <2>1. Local(c)
    BY DEF IInv
  <2>2. OwnDirectory(c)'
    BY <1>1 DEF OwnDirectory
  <2>3. Counted(c)' /\ Retrieved(c)'
    BY <1>2 DEF Counted, Retrieved, Writing
  <2>4. Labelled(c)'
    BY <1>2, <2>1 DEF Local, Labelled, FileComes, Writing, Posting, Reading
  <2>5. settled[c] = {} /\ answer[c] = "none"
    BY <2>1 DEF Local, Labelled, Writing, Reading
  <2>6. ReadSoFar(c)'
    BY <1>2, <2>5 DEF ReadSoFar, Writing, Reading
  <2>7. QED
    BY <2>2, <2>3, <2>4, <2>6 DEF Local
<1>7. QED
  BY <1>1, <1>4, <1>5, <1>6, OwnStep

LEMMA OpenAuthorInv == ASSUME IInv, NEW c \in Connections, OpenAuthor(c) PROVE IInv'
<1> DEFINE m2 == [messages[dir[c]] EXCEPT !["author"] = Blank]
           label == "closeAuthor"
<1>1. pc[c] = "openAuthor" /\ pc[c] \in Writing
  BY DEF OpenAuthor, Writing
<1>2. messages[dir[c]] = SoFar(c) /\ req[c] \in Request /\ req[c].op = "post"
      /\ (pc[c] \in {"openFile", "closeFile"} => FileComes(c))
  BY <1>1, RequestsAssumption
  DEF IInv, Local, OwnDirectory, Owns, Labelled, Posting
<1>3. req[c].uid \in Users /\ req[c].text \in Texts /\ req[c].file \in BOOLEAN
      /\ req[c].sent \in {"all", "text", "cut"}
  BY <1>2 DEF Request
<1>4. /\ messages' = [messages EXCEPT ![dir[c]] = m2]
      /\ pc' = [pc EXCEPT ![c] = label]
      /\ UNCHANGED <<members, local>>
  BY DEF OpenAuthor, Writes, Put, Goto
<1>5. pc'[c] = label /\ req' = req
  BY <1>4 DEF IInv, TypeOK, local
<1>6. m2 = SoFar(c)'
  BY <1>1, <1>2, <1>3, <1>5 DEF SoFar, SentText, FileSoFar
<1>7. m2 \in Message
  BY <1>1, <1>2, <1>3 DEF SoFar, SentText, Message
<1>8. label \in Writing /\ (label \in {"openFile", "closeFile"} => FileComes(c))
  BY <1>1, <1>2, <1>3 DEF Writing
<1> HIDE DEF m2, label
<1>9. QED
  BY <1>1, <1>4, <1>6, <1>7, <1>8, PutStep

LEMMA CloseAuthorInv == ASSUME IInv, NEW c \in Connections, CloseAuthor(c) PROVE IInv'
<1> DEFINE m2 == [messages[dir[c]] EXCEPT !["author"] = req[c].uid]
           label == "openText"
<1>1. pc[c] = "closeAuthor" /\ pc[c] \in Writing
  BY DEF CloseAuthor, Writing
<1>2. messages[dir[c]] = SoFar(c) /\ req[c] \in Request /\ req[c].op = "post"
      /\ (pc[c] \in {"openFile", "closeFile"} => FileComes(c))
  BY <1>1, RequestsAssumption
  DEF IInv, Local, OwnDirectory, Owns, Labelled, Posting
<1>3. req[c].uid \in Users /\ req[c].text \in Texts /\ req[c].file \in BOOLEAN
      /\ req[c].sent \in {"all", "text", "cut"}
  BY <1>2 DEF Request
<1>4. /\ messages' = [messages EXCEPT ![dir[c]] = m2]
      /\ pc' = [pc EXCEPT ![c] = label]
      /\ UNCHANGED <<members, local>>
  BY DEF CloseAuthor, Writes, Put, Goto
<1>5. pc'[c] = label /\ req' = req
  BY <1>4 DEF IInv, TypeOK, local
<1>6. m2 = SoFar(c)'
  BY <1>1, <1>2, <1>3, <1>5 DEF SoFar, SentText, FileSoFar
<1>7. m2 \in Message
  BY <1>1, <1>2, <1>3 DEF SoFar, SentText, Message
<1>8. label \in Writing /\ (label \in {"openFile", "closeFile"} => FileComes(c))
  BY <1>1, <1>2, <1>3 DEF Writing
<1> HIDE DEF m2, label
<1>9. QED
  BY <1>1, <1>4, <1>6, <1>7, <1>8, PutStep

LEMMA OpenTextInv == ASSUME IInv, NEW c \in Connections, OpenText(c) PROVE IInv'
<1> DEFINE m2 == [messages[dir[c]] EXCEPT !["text"] = Blank]
           label == "closeText"
<1>1. pc[c] = "openText" /\ pc[c] \in Writing
  BY DEF OpenText, Writing
<1>2. messages[dir[c]] = SoFar(c) /\ req[c] \in Request /\ req[c].op = "post"
      /\ (pc[c] \in {"openFile", "closeFile"} => FileComes(c))
  BY <1>1, RequestsAssumption
  DEF IInv, Local, OwnDirectory, Owns, Labelled, Posting
<1>3. req[c].uid \in Users /\ req[c].text \in Texts /\ req[c].file \in BOOLEAN
      /\ req[c].sent \in {"all", "text", "cut"}
  BY <1>2 DEF Request
<1>4. /\ messages' = [messages EXCEPT ![dir[c]] = m2]
      /\ pc' = [pc EXCEPT ![c] = label]
      /\ UNCHANGED <<members, local>>
  BY DEF OpenText, Writes, Put, Goto
<1>5. pc'[c] = label /\ req' = req
  BY <1>4 DEF IInv, TypeOK, local
<1>6. m2 = SoFar(c)'
  BY <1>1, <1>2, <1>3, <1>5 DEF SoFar, SentText, FileSoFar
<1>7. m2 \in Message
  BY <1>1, <1>2, <1>3 DEF SoFar, SentText, Message
<1>8. label \in Writing /\ (label \in {"openFile", "closeFile"} => FileComes(c))
  BY <1>1, <1>2, <1>3 DEF Writing
<1> HIDE DEF m2, label
<1>9. QED
  BY <1>1, <1>4, <1>6, <1>7, <1>8, PutStep

LEMMA CloseTextInv == ASSUME IInv, NEW c \in Connections, CloseText(c) PROVE IInv'
<1> DEFINE m2 == [messages[dir[c]] EXCEPT !["text"] = SentText(c)]
<1>1. pc[c] = "closeText" /\ pc[c] \in Writing
  BY DEF CloseText, Writing
<1>2. messages[dir[c]] = SoFar(c) /\ req[c] \in Request /\ req[c].op = "post"
  BY <1>1, RequestsAssumption
  DEF IInv, Local, OwnDirectory, Owns, Labelled, Posting
<1>3. req[c].uid \in Users /\ req[c].text \in Texts /\ req[c].file \in BOOLEAN
      /\ req[c].sent \in {"all", "text", "cut"}
  BY <1>2 DEF Request
<1>4. PICK label \in AfterText(c) :
        /\ messages' = [messages EXCEPT ![dir[c]] = m2]
        /\ pc' = [pc EXCEPT ![c] = label]
        /\ UNCHANGED <<members, local>>
  BY DEF CloseText, Writes, Put, Goto
<1>5. pc'[c] = label /\ req' = req /\ dir' = dir
  BY <1>4 DEF IInv, TypeOK, local
<1>6. m2 \in Message
  BY <1>1, <1>2, <1>3 DEF SoFar, SentText, Message
<1>7. label \in {"openFile", "posted"} /\ label \in Writing
      /\ (label \in {"openFile", "closeFile"} => FileComes(c))
      /\ (label = "posted" /\ req[c].sent = "all" => ~ req[c].file)
  BY <1>3 DEF AfterText, Writing, FileComes
<1>8. messages'[dir[c]] = m2
  <2> HIDE DEF m2
  <2>1. QED
    BY <1>1, <1>4, <1>6, PutFacts
<1>9. m2 = SoFar(c)'
  <2>1. m2 = [author |-> req[c].uid, text |-> SentText(c), file |-> Absent]
    BY <1>1, <1>2 DEF SoFar
  <2>2. FileSoFar(c)' = m2.file \/ label = "openFile"
    BY <1>5, <1>7, <1>8, <2>1 DEF FileSoFar
  <2>3. SentText(c)' = SentText(c)
    BY <1>5 DEF SentText
  <2>4. QED
    BY <1>5, <1>7, <2>1, <2>2, <2>3 DEF SoFar
<1> HIDE DEF m2
<1>10. QED
  BY <1>1, <1>4, <1>6, <1>7, <1>9, PutStep

LEMMA OpenFileInv == ASSUME IInv, NEW c \in Connections, OpenFile(c) PROVE IInv'
<1> DEFINE m2 == [messages[dir[c]] EXCEPT !["file"] = Blank]
           label == "closeFile"
<1>1. pc[c] = "openFile" /\ pc[c] \in Writing
  BY DEF OpenFile, Writing
<1>2. messages[dir[c]] = SoFar(c) /\ req[c] \in Request /\ req[c].op = "post"
      /\ (pc[c] \in {"openFile", "closeFile"} => FileComes(c))
  BY <1>1, RequestsAssumption
  DEF IInv, Local, OwnDirectory, Owns, Labelled, Posting
<1>3. req[c].uid \in Users /\ req[c].text \in Texts /\ req[c].file \in BOOLEAN
      /\ req[c].sent \in {"all", "text", "cut"}
  BY <1>2 DEF Request
<1>4. /\ messages' = [messages EXCEPT ![dir[c]] = m2]
      /\ pc' = [pc EXCEPT ![c] = label]
      /\ UNCHANGED <<members, local>>
  BY DEF OpenFile, Writes, Put, Goto
<1>5. pc'[c] = label /\ req' = req
  BY <1>4 DEF IInv, TypeOK, local
<1>6. m2 = SoFar(c)'
  BY <1>1, <1>2, <1>3, <1>5 DEF SoFar, SentText, FileSoFar
<1>7. m2 \in Message
  BY <1>1, <1>2, <1>3 DEF SoFar, SentText, Message
<1>8. label \in Writing /\ (label \in {"openFile", "closeFile"} => FileComes(c))
  BY <1>1, <1>2, <1>3 DEF Writing
<1> HIDE DEF m2, label
<1>9. QED
  BY <1>1, <1>4, <1>6, <1>7, <1>8, PutStep

LEMMA CloseFileInv == ASSUME IInv, NEW c \in Connections, CloseFile(c) PROVE IInv'
<1> DEFINE m2 == [messages[dir[c]] EXCEPT !["file"] = SentFile(c)]
           label == "posted"
<1>1. pc[c] = "closeFile" /\ pc[c] \in Writing
  BY DEF CloseFile, Writing
<1>2. messages[dir[c]] = SoFar(c) /\ req[c] \in Request /\ req[c].op = "post"
      /\ FileComes(c)
  BY <1>1, RequestsAssumption
  DEF IInv, Local, OwnDirectory, Owns, Labelled, Posting
<1>3. req[c].uid \in Users /\ req[c].text \in Texts /\ req[c].file \in BOOLEAN
      /\ req[c].sent \in {"all", "text", "cut"}
  BY <1>2 DEF Request
<1>4. /\ messages' = [messages EXCEPT ![dir[c]] = m2]
      /\ pc' = [pc EXCEPT ![c] = label]
      /\ UNCHANGED <<members, local>>
  BY DEF CloseFile, Writes, Put, Goto
<1>5. pc'[c] = label /\ req' = req /\ dir' = dir
  BY <1>4 DEF IInv, TypeOK, local
<1>6. m2 \in Message
  BY <1>1, <1>2, <1>3 DEF SoFar, SentText, SentFile, Message
<1>7. label \in Writing /\ (label \in {"openFile", "closeFile"} => FileComes(c))
  BY DEF Writing
<1>8. messages'[dir[c]] = m2
  <2> HIDE DEF m2
  <2>1. QED
    BY <1>1, <1>4, <1>6, PutFacts
<1>9. m2 = SoFar(c)'
  <2>1. m2 = [author |-> req[c].uid, text |-> SentText(c), file |-> SentFile(c)]
    BY <1>1, <1>2 DEF SoFar
  <2>2. FileSoFar(c)' = m2.file
    BY <1>2, <1>3, <1>5, <1>8, <2>1 DEF FileSoFar, SentFile, FileComes
  <2>3. SentText(c)' = SentText(c)
    BY <1>5 DEF SentText
  <2>4. QED
    BY <1>5, <2>1, <2>2, <2>3 DEF SoFar
<1> HIDE DEF m2, label
<1>10. QED
  BY <1>1, <1>4, <1>6, <1>7, <1>9, PutStep

LEMMA CallFailsInv == ASSUME IInv, NEW c \in Connections, CallFails(c) PROVE IInv'
<1>1. TypeOK'
  BY DEF IInv, TypeOK, CallFails, Goto, Send, Labels, Writing, Existing
<1>2. Local(c) /\ Others(c) /\ pc'[c] = "answer" /\ answer'[c] = "NOK"
      /\ messages' = messages /\ req'[c] = req[c] /\ settled'[c] = settled[c]
      /\ got'[c] = got[c]
  BY DEF IInv, TypeOK, CallFails, Goto, Send, Others, Same
<1>3. Labelled(c)' /\ Counted(c)' /\ ReadSoFar(c)' /\ Retrieved(c)'
  BY <1>2 DEF CallFails, Local, Labelled, Counted, ReadSoFar, Retrieved, Posting, Writing, Reading
<1>4. QED
  BY <1>1, <1>2, <1>3, Quiet, ValuesAssumption DEF Writing

LEMMA WriteFailsInv == ASSUME IInv, NEW c \in Connections, WriteFails(c) PROVE IInv'
<1> DEFINE m2 == [messages[dir[c]] EXCEPT !["file"] = Torn]
<1>1. pc[c] = "closeFile" /\ pc[c] \in Writing
  BY DEF WriteFails, Writing
<1>2. Others(c) /\ pc'[c] = "answer" /\ answer'[c] = "NOK"
      /\ req'[c] = req[c] /\ settled'[c] = settled[c]
      /\ got'[c] = got[c] /\ dir'[c] = dir[c]
      /\ messages' = [messages EXCEPT ![dir[c]] = m2]
  BY DEF IInv, TypeOK, WriteFails, Goto, Send, Put, Others, Same
<1>3. messages[dir[c]] \in Message
  BY <1>1 DEF IInv, TypeOK
<1>4. m2 \in Message
  BY <1>3 DEF Message
<1> HIDE DEF m2
<1>5. /\ Existing' = Existing
      /\ messages' \in [Existing' -> Message]
      /\ \A m \in Existing : m # dir[c] => messages'[m] = messages[m]
  BY <1>1, <1>2, <1>4, PutFacts
<1>6. TypeOK'
  <2>1. \A d \in Connections : pc'[d] \in Writing => dir'[d] \in Existing'
    BY <1>2, <1>5 DEF IInv, TypeOK, Others, Same, Writing
  <2>2. pc' \in [Connections -> Labels]
    BY DEF IInv, TypeOK, WriteFails, Send, Goto, Labels
  <2>3. answer' \in [Connections -> {"none", "NOK", "EOF", "posted", "retrieved"}]
    BY DEF IInv, TypeOK, WriteFails, Send
  <2>4. QED
    BY <1>5, <2>1, <2>2, <2>3 DEF IInv, TypeOK, WriteFails
<1>7. Local(c)'
  <2>1. Local(c) /\ settled[c] = {} /\ got[c] = << >> /\ req[c] \in Requests
        /\ req[c].op = "post"
    BY <1>1 DEF IInv, Local, Labelled, Reading, Posting
  <2>2. OwnDirectory(c)' /\ Counted(c)'
    BY <1>2 DEF OwnDirectory, Owns, Counted, Writing
  <2>3. Labelled(c)' /\ ReadSoFar(c)' /\ Retrieved(c)'
    BY <1>2, <2>1 DEF Labelled, ReadSoFar, Retrieved, Posting, Writing, Reading
  <2>4. QED
    BY <2>2, <2>3 DEF Local
<1>8. QED
  BY <1>1, <1>2, <1>5, <1>6, <1>7, OwnStep

LEMMA PostedInv == ASSUME IInv, NEW c \in Connections, Posted(c) PROVE IInv'
<1>1. pc[c] = "posted" /\ pc[c] \in Writing
  BY DEF Posted, Writing
<1>2. /\ Others(c) /\ pc'[c] = "answer" /\ answer'[c] = "posted"
      /\ messages' = messages /\ req'[c] = req[c] /\ got'[c] = got[c]
      /\ dir'[c] = dir[c] /\ settled'[c] = settled[c]
  BY DEF IInv, TypeOK, Posted, Goto, Send, Others, Same
<1>3. TypeOK'
  BY DEF IInv, TypeOK, Posted, Goto, Send, Labels, Writing, Existing
<1>4. Existing' = Existing
  BY <1>2 DEF Existing
<1>5. Local(c) /\ req[c].op = "post" /\ settled[c] = {}
      /\ req[c] \in Requests /\ got[c] = << >>
  BY <1>1 DEF IInv, Local, Labelled, Posting, Reading
<1>6. Local(c)'
  <2>1. SoFar(c)' = SoFar(c)
    BY <1>1, <1>2 DEF SoFar, SentText, FileSoFar
  <2>2. OwnDirectory(c)'
    BY <1>1, <1>2, <1>4, <1>5, <2>1 DEF Local, OwnDirectory, Owns
  <2>3. Counted(c)' /\ Labelled(c)' /\ Retrieved(c)'
    BY <1>2, <1>5 DEF Counted, Labelled, Retrieved, Posting, Writing, Reading
  <2>4. ReadSoFar(c)'
    BY <1>2, <1>5 DEF ReadSoFar, Reading
  <2>5. QED
    BY <2>2, <2>3, <2>4 DEF Local
<1>7. QED
  BY <1>1, <1>2, <1>3, <1>4, <1>6, OwnStep

\* The count was right, or the directory is there: numbers stay dense.
LEMMA MakeDirInv == ASSUME IInv, NEW c \in Connections, MakeDir(c) PROVE IInv'
<1> DEFINE n == count[c] + 1
<1>1. /\ Local(c) /\ CountMsg \in Nat /\ Existing = 1 .. CountMsg
      /\ IsFiniteSet(Existing) /\ pc[c] = "mkdir" /\ n \notin Existing
  BY Counting DEF IInv, MessagesDense, MakeDir
<1>2. count[c] \in Nat /\ count[c] = CountMsg /\ n \in Mids
  <2>1. count[c] \in Nat /\ count[c] <= CountMsg /\ count[c] < MAX_MESSAGES
    BY <1>1, LimitsAssumption DEF IInv, TypeOK, Local, Counted
  <2>2. QED
    BY <1>1, <2>1, LimitsAssumption DEF Mids
<1>3. /\ Others(c) /\ pc'[c] = "openAuthor" /\ answer'[c] = answer[c]
      /\ req'[c] = req[c] /\ dir'[c] = n /\ settled' = settled
      /\ got'[c] = got[c]
      /\ messages' = [m \in Existing \cup {n} |->
                         IF m \in Existing THEN messages[m] ELSE NewMessage]
      /\ Existing' = Existing \cup {n}
  BY DEF IInv, TypeOK, MakeDir, Goto, Others, Same, Existing
<1> HIDE DEF n
<1>4. CountMsg' = CountMsg + 1 /\ Existing' = 1 .. CountMsg'
  <2>1. CountMsg' = CountMsg + 1
    BY <1>1, <1>3, FS_AddElement DEF CountMsg
  <2>2. 1 .. (CountMsg + 1) = (1 .. CountMsg) \cup {CountMsg + 1}
    BY <1>1
  <2>3. n = CountMsg + 1
    BY <1>2 DEF n
  <2>4. QED
    BY <1>1, <1>3, <2>1, <2>2, <2>3
<1>5. MessagesDense'
  BY <1>4 DEF MessagesDense
<1>6. /\ messages'[n] = NewMessage
      /\ \A m \in Existing : messages'[m] = messages[m]
  BY <1>1, <1>3
<1>7. TypeOK'
  <2>1. NewMessage \in Message
    BY DEF NewMessage, Message
  <2>2. messages' \in [Existing' -> Message]
    BY <1>3, <2>1 DEF IInv, TypeOK
  <2>3. Existing' \in SUBSET Mids
    BY <1>2, <1>3 DEF IInv, TypeOK
  <2>4. dir' \in [Connections -> {0} \cup Mids]
    BY <1>2 DEF IInv, TypeOK, MakeDir, n
  <2>5. pc' \in [Connections -> Labels]
    BY DEF IInv, TypeOK, MakeDir, Goto, Labels
  <2>6. \A d \in Connections : pc'[d] \in Writing => dir'[d] \in Existing'
    BY <1>3 DEF IInv, TypeOK, Others, Same
  <2>7. QED
    BY <2>2, <2>3, <2>4, <2>5, <2>6 DEF IInv, TypeOK, MakeDir
<1>8. /\ answer[c] = "none" /\ settled[c] = {} /\ got[c] = << >>
      /\ req[c] \in Requests /\ req[c].op = "post"
  BY <1>1 DEF Local, Labelled, Reading, Posting
<1>9. OneOwner'
  <2>1. \A d \in Connections \ {c} : Owns(d)' => Owns(d) /\ dir'[d] = dir[d]
                                                /\ dir[d] \in Existing
    BY <1>3 DEF IInv, Local, OwnDirectory, Owns, Others, Same
  <2>2. \A d \in Connections \ {c} : Owns(d)' => dir'[d] # dir'[c]
    BY <1>1, <1>3, <2>1
  <2>3. QED
    BY <2>1, <2>2 DEF OneOwner, IInv
<1>10. Local(c)'
  <2>1. SoFar(c)' = NewMessage
    BY <1>3 DEF SoFar, NewMessage
  <2>2. OwnDirectory(c)'
    BY <1>3, <1>6, <2>1 DEF OwnDirectory
  <2>3. Counted(c)' /\ Labelled(c)' /\ Retrieved(c)'
    BY <1>3, <1>8 DEF Counted, Labelled, Retrieved, Posting, Writing, Reading
  <2>4. ReadSoFar(c)'
    BY <1>3, <1>8 DEF ReadSoFar, Reading
  <2>5. QED
    BY <2>2, <2>3, <2>4 DEF Local
<1>11. \A m \in Existing : Finished(m) => Finished(m)'
  BY <1>1, <1>3, <1>6 DEF Finished, Writer, Others, Same
<1>12. ASSUME NEW d \in Connections, d # c PROVE Local(d)'
  <2>1. Same(d)
    BY <1>3, <1>12 DEF Others
  <2>2. Owns(d) => dir[d] \in Existing
    BY DEF IInv, Local, OwnDirectory
  <2>3. \A m \in settled[d] : m \in Existing /\ Finished(m)
    BY DEF IInv, Local, ReadSoFar
  <2>4. Existing \subseteq Existing' /\ CountMsg <= CountMsg'
    BY <1>1, <1>3, <1>4
  <2>5. \A m \in settled[d] : messages'[m] = messages[m] /\ Finished(m)'
    BY <1>6, <1>11, <2>3
  <2>6. Owns(d) => messages'[dir[d]] = messages[dir[d]]
    BY <1>6, <2>2
  <2>7. QED
    BY <1>5, <1>7, <2>1, <2>4, <2>5, <2>6, Frame
<1>13. QED
  BY <1>5, <1>7, <1>9, <1>10, <1>12 DEF IInv

-----------------------------------------------------------------------------
LEMMA SubscriptionInv == IInv /\ Subscription => IInv'
<1> SUFFICES ASSUME IInv, Subscription PROVE IInv'
  OBVIOUS
<1> USE DEF local
<1>1. TypeOK'
  BY DEF IInv, TypeOK, Subscription, Existing
<1>2. MessagesDense' /\ Existing' = Existing /\ CountMsg' = CountMsg
  BY DEF IInv, MessagesDense, Subscription, Existing, CountMsg
<1>3. OneOwner'
  BY DEF IInv, OneOwner, Owns, Subscription
<1>4. ASSUME NEW d \in Connections PROVE Local(d)'
  <2>1. Same(d) /\ messages' = messages
    BY DEF Subscription, Same
  <2>2. \A m \in settled[d] : Finished(m)'
    BY <2>1 DEF Subscription, IInv, Local, ReadSoFar, Finished, Writer
  <2>3. Existing \subseteq Existing' /\ CountMsg <= CountMsg'
    BY <1>2, Counting DEF IInv
  <2>4. QED
    BY <1>1, <1>2, <2>1, <2>2, <2>3, Frame
<1>5. QED
  BY <1>1, <1>2, <1>3, <1>4 DEF IInv

LEMMA StutterInv == IInv /\ UNCHANGED vars => IInv'
<1> SUFFICES ASSUME IInv, UNCHANGED vars PROVE IInv'
  OBVIOUS
<1> USE DEF vars, local
<1>1. TypeOK'
  BY DEF IInv, TypeOK, Existing
<1>2. MessagesDense' /\ Existing' = Existing /\ CountMsg' = CountMsg
  BY DEF IInv, MessagesDense, Existing, CountMsg
<1>3. OneOwner'
  BY DEF IInv, OneOwner, Owns
<1>4. ASSUME NEW d \in Connections PROVE Local(d)'
  <2>1. Same(d) /\ messages' = messages
    BY DEF Same
  <2>2. \A m \in settled[d] : Finished(m)'
    BY <2>1 DEF IInv, Local, ReadSoFar, Finished, Writer
  <2>3. Existing \subseteq Existing' /\ CountMsg <= CountMsg'
    BY <1>2, Counting DEF IInv
  <2>4. QED
    BY <1>1, <1>2, <2>1, <2>2, <2>3, Frame
<1>5. QED
  BY <1>1, <1>2, <1>3, <1>4 DEF IInv

LEMMA NextIInv == IInv /\ [Next]_vars => IInv'
<1> SUFFICES ASSUME IInv, [Next]_vars PROVE IInv'
  OBVIOUS
<1>1. ASSUME NEW c \in Connections, Accept(c) PROVE IInv'
  BY <1>1, AcceptInv
<1>2. ASSUME NEW c \in Connections, Refused(c) PROVE IInv'
  BY <1>2, RefusedInv
<1>3. ASSUME NEW c \in Connections, Post(c) PROVE IInv'
  BY <1>3, CountForAnswerInv, CountForDirInv, GroupFullInv, DirExistsInv,
     MakeDirInv, OpenAuthorInv, CloseAuthorInv, OpenTextInv, CloseTextInv,
     OpenFileInv, CloseFileInv, PostedInv, CallFailsInv, WriteFailsInv DEF Post
<1>4. ASSUME NEW c \in Connections, Retrieve(c) PROVE IInv'
  BY <1>4, OpenDirInv, NextEntryInv, ReadAuthorInv, NoAuthorInv, ReadTextInv,
     NoTextInv, ReadFileInv, EndOfDirInv DEF Retrieve
<1>5. ASSUME NEW c \in Connections, Exit(c) \/ Killed(c) PROVE IInv'
  BY <1>5, EndsInv DEF Exit, Killed
<1>6. CASE Subscription
  BY <1>6, SubscriptionInv
<1>7. CASE UNCHANGED vars
  BY <1>7, StutterInv
<1>8. QED
  BY <1>1, <1>2, <1>3, <1>4, <1>5, <1>6, <1>7 DEF Next

\* The inductive invariant holds: a directory has one owner, which knows what
\* it has written, and what was finished stays as it is.
THEOREM Inductive == Spec => []IInv
<1>1. QED
  BY InitIInv, NextIInv, PTL DEF Spec

\* Every variable of the message server keeps its type.
THEOREM TypeCorrect == Spec => []TypeOK
<1>1. IInv => TypeOK
  BY DEF IInv
<1>2. QED
  BY <1>1, Inductive, PTL

\* Messages are numbered without gaps, for any number of processes that count
\* and create them at once (CreateMsgDir).
THEOREM Dense == Spec => []MessagesDense
<1>1. IInv => MessagesDense
  BY DEF IInv
<1>2. QED
  BY <1>1, Inductive, PTL

\* What a client is told was posted is stored whole, and nobody else writes in
\* its directory (post).
THEOREM PostsAreStored == Spec => []PostedIsStored
<1>1. ASSUME IInv PROVE PostedIsStored
  <2> SUFFICES ASSUME NEW c \in Connections, answer[c] = "posted",
                      req[c].sent = "all"
               PROVE  /\ dir[c] \in Existing
                      /\ messages[dir[c]] =
                            [author |-> req[c].uid, text |-> req[c].text,
                             file |-> IF req[c].file THEN req[c].text
                                      ELSE Absent]
    BY DEF PostedIsStored
  <2>1. Local(c) /\ pc[c] = "answer"
    BY <1>1 DEF IInv, Local, Labelled
  <2>2. QED
    BY <2>1 DEF Local, OwnDirectory, Owns, SoFar, SentText, FileSoFar
<1>2. QED
  BY <1>1, Inductive, PTL

\* A retrieve sends what was finished when it began, all of it, as it was
\* posted (retrieve).
THEOREM RetrievesAreFaithful == Spec => []RetrievedAsPosted
<1>1. IInv => RetrievedAsPosted
  BY DEF IInv, Local, RetrievedAsPosted
<1>2. QED
  BY <1>1, Inductive, PTL

-----------------------------------------------------------------------------
Kept == \A m \in Existing :
          /\ m \in Existing'
          /\ \A field \in {"author", "text", "file"} :
                messages[m][field] \notin {Absent, Blank} =>
                   messages'[m][field] = messages[m][field]

LEMMA KeptByWriting ==
    ASSUME IInv, NEW c \in Connections, pc[c] \in Writing,
           NEW v,
           \/ pc[c] \in {"openAuthor", "closeAuthor"} /\ Put(c, "author", v)
           \/ pc[c] \in {"openText", "closeText"} /\ Put(c, "text", v)
           \/ pc[c] \in {"openFile", "closeFile"} /\ Put(c, "file", v)
    PROVE  Kept
<1>1. /\ messages \in [Existing -> Message] /\ dir[c] \in Existing
      /\ messages[dir[c]] = SoFar(c)
  BY DEF IInv, TypeOK, Local, OwnDirectory, Owns
<1>2. Existing' = Existing
  BY <1>1 DEF Put, Existing
<1>3. \A m \in Existing : m # dir[c] => messages'[m] = messages[m]
  BY <1>1 DEF Put
<1>4. ASSUME NEW field \in {"author", "text", "file"},
             messages[dir[c]][field] \notin {Absent, Blank}
      PROVE  messages'[dir[c]][field] = messages[dir[c]][field]
  <2>1. CASE pc[c] \in {"openAuthor", "closeAuthor"} /\ Put(c, "author", v)
    BY <1>1, <1>4, <2>1 DEF Put, SoFar, Message
  <2>2. CASE pc[c] \in {"openText", "closeText"} /\ Put(c, "text", v)
    BY <1>1, <1>4, <2>2 DEF Put, SoFar, Message
  <2>3. CASE pc[c] \in {"openFile", "closeFile"} /\ Put(c, "file", v)
    BY <1>1, <1>4, <2>3 DEF Put, SoFar, Message
  <2>4. QED
    BY <2>1, <2>2, <2>3
<1>5. QED
  BY <1>2, <1>3, <1>4 DEF Kept

\* Nothing that was posted changes or disappears, whatever the processes do and
\* wherever they end (post).
THEOREM NothingChanges == Spec => NothingOverwritten
<1>1. ASSUME IInv, [Next]_vars PROVE Kept
  <2>1. CASE messages' = messages
    BY <2>1 DEF Kept, Existing
  <2>2. ASSUME NEW c \in Connections, MakeDir(c) PROVE Kept
    BY <2>2 DEF MakeDir, Kept, Existing
  <2>3. ASSUME NEW c \in Connections,
               \/ OpenAuthor(c) \/ CloseAuthor(c) \/ OpenText(c)
               \/ CloseText(c) \/ OpenFile(c) \/ CloseFile(c)
               \/ WriteFails(c)
        PROVE  Kept
    BY <1>1, <2>3, KeptByWriting
    DEF OpenAuthor, CloseAuthor, OpenText, CloseText, OpenFile, CloseFile,
        WriteFails, Writes, Writing
  <2>4. ASSUME NEW c \in Connections,
               \/ Accept(c) \/ Refused(c) \/ CountForAnswer(c)
               \/ CountForDir(c) \/ GroupFull(c) \/ DirExists(c) \/ Posted(c)
               \/ CallFails(c) \/ Retrieve(c) \/ Exit(c) \/ Killed(c)
        PROVE  messages' = messages
    BY <2>4 DEF Accept, Refused, CountForAnswer, CountForDir, GroupFull,
         DirExists, Posted, CallFails, Retrieve, OpenDir, NextEntry, ReadAuthor, NoAuthor,
         ReadText, NoText, ReadFile, EndOfDir, Exit, Killed, Ends
  <2>5. QED
    BY <1>1, <2>1, <2>2, <2>3, <2>4 DEF Next, Post, Subscription, vars
<1>2. QED
  BY <1>1, Inductive, PTL DEF Spec, NothingOverwritten, Kept

=============================================================================
