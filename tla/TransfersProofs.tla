--------------------------- MODULE TransfersProofs ---------------------------
(****************************************************************************)
(* What holds of the transfers for every number of chats, messages, media,  *)
(* permits and requests: the types, the order in which the files of a chat  *)
(* reach the server, and that a file is never taken for other media.        *)
(****************************************************************************)
EXTENDS Transfers, TLAPS

-----------------------------------------------------------------------------
(* Sequences.                                                                *)

LEMMA AppendFacts ==
  ASSUME NEW S, NEW s \in Seq(S), NEW x \in S
  PROVE  /\ Append(s, x) \in Seq(S)
         /\ DOMAIN Append(s, x) = 1 .. Len(s) + 1
         /\ Len(Append(s, x)) = Len(s) + 1
         /\ DOMAIN s = 1 .. Len(s) /\ Len(s) \in Nat
         /\ \A i \in 1 .. Len(s) : Append(s, x)[i] = s[i]
         /\ Append(s, x)[Len(s) + 1] = x
    OBVIOUS

LEMMA TailFacts ==
  ASSUME NEW S, NEW s \in Seq(S), s # <<>>
  PROVE  /\ Tail(s) \in Seq(S) /\ Head(s) \in S
         /\ Len(s) \in Nat \ {0} /\ Len(Tail(s)) = Len(s) - 1
         /\ DOMAIN s = 1 .. Len(s) /\ DOMAIN Tail(s) = 1 .. Len(s) - 1
         /\ Head(s) = s[1]
         /\ \A i \in 1 .. Len(s) - 1 : Tail(s)[i] = s[i + 1]
    OBVIOUS

-----------------------------------------------------------------------------
(* The invariant.                                                            *)

IsUpload(t, c) == t \in 1 .. Len(asked) /\ asked[t].kind = "upload" /\ asked[t].of = c
IsDownload(t, m) == t \in 1 .. Len(asked) /\ asked[t].kind = "download" /\ asked[t].of = m

(* A request is in one place, and its number says when it was asked. *)
Numbered ==
    /\ \A t \in Transfer : phase[t] = "new" <=> t > Len(asked)
    /\ \A i \in DOMAIN commands : phase[commands[i]] = "asked"
    /\ \A i, j \in DOMAIN commands : i < j => commands[i] < commands[j]
    /\ \A i \in DOMAIN line : phase[line[i]] = "line"
    /\ \A i, j \in DOMAIN line : i # j => line[i] # line[j]
    /\ \A i \in DOMAIN sent : /\ phase[sent[i]] \in {"finished", "answered"}
                               /\ asked[sent[i]].kind = "upload"

(* Completions are of requests, and notes are of downloads of their message. *)
Known ==
    /\ \A i \in DOMAIN events : events[i].kind = "answer" => phase[events[i].of] = "answered"
    /\ \A m \in Messages : downloads[m] # 0 => IsDownload(downloads[m], m)

(* A download that got a file got the media it was asked for, and is told so
   only when it knows. *)
FilesRight ==
    /\ \A t \in Transfer : t > Len(asked) => got[t] = "none" /\ answers[t] = "none"
    /\ \A t \in 1 .. Len(asked) : asked[t].kind = "download" =>
          /\ got[t] \in {"none", "failed", asked[t].media}
          /\ phase[t] \in {"working", "finished"} => got[t] # "none"
    /\ \A i \in DOMAIN events :
          events[i].kind = "answer" /\ asked[events[i].of].kind = "download"
              => got[events[i].of] # "none"

FilesInv ==
    TypeOK /\ Numbered /\ Known /\ FilesRight /\ AttachmentIsItsMedia /\ AnswersAreAsked

-----------------------------------------------------------------------------
(* Types.                                                                    *)

LEMMA InitType == Init => TypeOK
    BY TransfersAssumption, SMTT(60) DEF TransfersAssumption, Init, TypeOK, Tables, Unrecorded, Phases,
        Contents, Transfer

(* The head of the commands is a request that waits. *)
LEMMA HeadAsked ==
  ASSUME TypeOK, Numbered, commands # <<>>
  PROVE  /\ Head(commands) \in Transfer /\ Head(commands) \in 1 .. Len(asked)
         /\ phase[Head(commands)] = "asked"
         /\ asked[Head(commands)] \in Requests
<1>1. commands \in Seq(Transfer) /\ asked \in Seq(Requests)
 BY DEF TypeOK
<1>2. Head(commands) = commands[1] /\ 1 \in DOMAIN commands /\ Head(commands) \in Transfer
 BY <1>1
<1>3. phase[Head(commands)] = "asked"
 BY <1>2 DEF Numbered
<1>4. Head(commands) \in 1 .. Len(asked)
 <2>1. ~(Head(commands) > Len(asked))
  BY <1>2, <1>3 DEF Numbered
 <2> QED BY <1>1, <1>2, <2>1, TransfersAssumption DEF Transfer, TransfersAssumption
<1> QED BY <1>1, <1>2, <1>3, <1>4

(* A request is appended with the next number, which is free. *)
LEMMA AskedType ==
  ASSUME TypeOK, NEW request \in Requests, Len(asked) < MaxTransfers
  PROVE  /\ Len(asked) + 1 \in Transfer
         /\ Append(asked, request) \in Seq(Requests)
         /\ Len(Append(asked, request)) <= MaxTransfers
    BY AppendFacts, TransfersAssumption DEF TypeOK, Transfer, TransfersAssumption

LEMMA AskType ==
  ASSUME TypeOK
  PROVE  /\ \A c \in Chats : AskUpload(c) => TypeOK'
         /\ \A m \in Messages : AskPreview(m) => TypeOK'
         /\ \A m \in Messages, media \in Media : AskDownload(m, media) => TypeOK'
<1> USE DEF remote, file, Phases
<1>1. ASSUME NEW c \in Chats, AskUpload(c) PROVE TypeOK'
 <2> DEFINE request == [kind |-> "upload", of |-> c, media |-> "none"]
 <2>1. request \in Requests
  BY DEF Requests
 <2> QED BY <1>1, <2>1, AskedType, AppendFacts DEF AskUpload, HandOn, TypeOK
<1>2. ASSUME NEW m \in Messages, AskPreview(m) PROVE TypeOK'
 <2> DEFINE request == [kind |-> "preview", of |-> m, media |-> "none"]
 <2>1. request \in Requests
  BY DEF Requests
 <2>2. CASE HandOn(request) /\ UNCHANGED downloads
  BY <1>2, <2>1, <2>2, AskedType, AppendFacts DEF AskPreview, HandOn, TypeOK
 <2>3. CASE CachedPreview(m) /\ ServeFrom(request, previews[m])
  BY SMTT(20), <1>2, <2>1, <2>3, AskedType, AppendFacts DEF AskPreview, ServeFrom, TypeOK, Tables
 <2> QED BY <1>2, <2>2, <2>3 DEF AskPreview
<1>3. ASSUME NEW m \in Messages, NEW media \in Media, AskDownload(m, media) PROVE TypeOK'
 <2> DEFINE request == [kind |-> "download", of |-> m, media |-> media]
 <2>1. request \in Requests
  BY DEF Requests
 <2>2. CASE HandOn(request) /\ downloads' = [downloads EXCEPT ![m] = Len(asked) + 1]
  BY SMTT(20), <1>3, <2>1, <2>2, AskedType, AppendFacts DEF AskDownload, HandOn, TypeOK, Transfer
 <2>3. CASE CachedAttachment(m, media) /\ ServeFrom(request, attachments[m])
  BY SMTT(20), <1>3, <2>1, <2>3, AskedType, AppendFacts DEF AskDownload, ServeFrom, TypeOK, Tables
 <2> QED BY <1>3, <2>2, <2>3 DEF AskDownload
<1> QED BY <1>1, <1>2, <1>3

LEMMA WorkerType ==
  ASSUME TypeOK, Numbered
  PROVE  /\ AdmitUpload \/ AdmitDownload \/ Refuse \/ TakePermit => TypeOK'
         /\ \A t \in Transfer : GateOpens(t) \/ Upload(t) \/ RefreshMessage(t)
                                  \/ Download(t) \/ Complete(t) => TypeOK'
<1> USE DEF terminal, remote, file, Phases
<1>0. \A t \in Transfer : [kind |-> "answer", of |-> t, media |-> "none"] \in Events
 BY DEF Events
<1>1. CASE AdmitUpload
 <2>1. ClosedGates \in [Chats -> 0 .. MaxTransfers]
  BY TransfersAssumption DEF ClosedGates, TypeOK, TransfersAssumption
 <2>2. asked[Head(commands)].of \in Chats
  <3>1. asked[Head(commands)] \in Requests
   BY <1>1, HeadAsked DEF AdmitUpload
  <3> QED BY <1>1, <3>1 DEF AdmitUpload, Requests
 <2>3. Head(commands) \in Transfer /\ Tail(commands) \in Seq(Transfer)
  BY <1>1, TailFacts DEF AdmitUpload, TypeOK
 <2>4. after' \in [Transfer -> 0 .. MaxTransfers]
  BY <1>1, <2>1, <2>2, <2>3 DEF AdmitUpload, TypeOK
 <2>5. upload_order' \in [Chats -> 0 .. MaxTransfers]
  BY <1>1, <2>1, <2>2, <2>3, TransfersAssumption
     DEF AdmitUpload, Transfer, TransfersAssumption
 <2> QED BY <1>1, <2>3, <2>4, <2>5 DEF AdmitUpload, TypeOK
<1>2. CASE AdmitDownload
 BY <1>2, TailFacts, AppendFacts DEF AdmitDownload, TypeOK
<1>3. CASE Refuse
 BY <1>0, <1>3, TailFacts, AppendFacts DEF Refuse, Told, TypeOK
<1>4. CASE TakePermit
 BY <1>4, TailFacts DEF TakePermit, TypeOK
<1>5. ASSUME NEW t \in Transfer, GateOpens(t) PROVE TypeOK'
 BY <1>5, AppendFacts, TransfersAssumption DEF GateOpens, TypeOK, TransfersAssumption
<1>6. ASSUME NEW t \in Transfer, Upload(t) PROVE TypeOK'
 <2>1. sent' \in Seq(Transfer)
  <3>1. Append(sent, t) \in Seq(Transfer) /\ sent \in Seq(Transfer)
   BY AppendFacts DEF TypeOK
  <3> QED BY <1>6, <3>1 DEF Upload
 <2>3. got' \in [Transfer -> Media \cup {"none", "failed"}]
  BY <1>6 DEF Upload, Finish, TypeOK
 <2>2. phase' = [phase EXCEPT ![t] = "finished"]
  BY <1>6 DEF Upload, Finish
 <2> QED BY <1>6, <2>1, <2>2, <2>3 DEF Upload, TypeOK
<1>7. ASSUME NEW t \in Transfer, RefreshMessage(t) PROVE TypeOK'
 BY <1>7 DEF RefreshMessage, Wanted, Finish, TypeOK
<1>8. ASSUME NEW t \in Transfer, Download(t) PROVE TypeOK'
 BY <1>8 DEF Download, Finish, TypeOK
<1>9. ASSUME NEW t \in Transfer, Complete(t) PROVE TypeOK'
 BY <1>0, <1>9, AppendFacts DEF Complete, Told, TypeOK
<1> QED BY <1>1, <1>2, <1>3, <1>4, <1>5, <1>6, <1>7, <1>8, <1>9

LEMMA ServerType ==
  ASSUME TypeOK
  PROVE  /\ \A m \in Messages, contents \in Contents \cup {"gone"} : Edit(m, contents) => TypeOK'
         /\ TellUpdate => TypeOK'
         /\ \A m \in Messages : TellAnswer(m) \/ TellInvalidated(m) => TypeOK'
<1> USE DEF terminal, worker, remote, file
<1>1. ASSUME NEW m \in Messages, NEW contents \in Contents \cup {"gone"}, Edit(m, contents)
      PROVE TypeOK'
 <2>1. [kind |-> "update", of |-> m, media |-> contents] \in Updates
  BY DEF Updates
 <2> QED BY <1>1, <2>1, AppendFacts DEF Edit, TypeOK
<1>2. CASE TellUpdate
 <2>1. Head(updates) \in Events /\ Tail(updates) \in Seq(Updates)
  BY <1>2, TailFacts DEF TellUpdate, TypeOK, Events
 <2> QED BY <1>2, <2>1, AppendFacts DEF TellUpdate, Told, TypeOK
<1>3. ASSUME NEW m \in Messages, TellAnswer(m) PROVE TypeOK'
 <2>1. [kind |-> "loaded", of |-> m, media |-> server[m]] \in Events
  BY <1>3 DEF Events, TellAnswer
 <2> QED BY <1>3, <2>1, AppendFacts DEF TellAnswer, Told, TypeOK
<1>4. ASSUME NEW m \in Messages, TellInvalidated(m) PROVE TypeOK'
 <2>1. [kind |-> "invalidated", of |-> m, media |-> "none"] \in Events
  BY DEF Events
 <2> QED BY <1>4, <2>1, AppendFacts DEF TellInvalidated, Told, TypeOK
<1> QED BY <1>1, <1>2, <1>3, <1>4

LEMMA SentAsked ==
  ASSUME TypeOK, Numbered
  PROVE  /\ \A i \in DOMAIN sent : sent[i] \in Transfer /\ sent[i] \in 1 .. Len(asked)
         /\ \A t \in Transfer : phase[t] # "new" => t \in 1 .. Len(asked)
<1>1. asked \in Seq(Requests) /\ sent \in Seq(Transfer) /\ Len(asked) \in Nat
 BY DEF TypeOK
<1>2. \A t \in Transfer : phase[t] # "new" => t \in 1 .. Len(asked)
 BY <1>1, TransfersAssumption DEF Numbered, Transfer, TransfersAssumption
<1>3. \A i \in DOMAIN sent : sent[i] \in Transfer /\ phase[sent[i]] # "new"
 BY <1>1 DEF Numbered
<1> QED BY <1>2, <1>3

(* The tables after one event. *)
LEMMA WriteRowType ==
  ASSUME TypeOK, NEW m \in Messages, NEW contents \in Contents \cup {"gone", "absent"},
         WriteRow(m, contents)
  PROVE  /\ row' \in [Messages -> Contents \cup {"gone", "absent"}]
         /\ seen' \in [Messages -> SUBSET Media]
         /\ attachments' \in Tables /\ previews' \in Tables
    BY DEF WriteRow, KeepMatching, Unrecorded, TypeOK, Tables

LEMMA ApplyAnswerType ==
  ASSUME TypeOK, Numbered, Known, NEW t \in 1 .. Len(asked), ApplyAnswer(t)
  PROVE  /\ answers' \in [Transfer -> Media \cup {"none", "done", "failed"}]
         /\ downloads' \in [Messages -> 0 .. MaxTransfers]
         /\ attachments' \in Tables /\ previews' \in Tables
         /\ UNCHANGED <<row, seen>>
<1>0. t \in Transfer /\ asked[t] \in Requests
 BY TransfersAssumption DEF TypeOK, Transfer, TransfersAssumption
<1>1. answers' \in [Transfer -> Media \cup {"none", "done", "failed"}]
 BY <1>0 DEF ApplyAnswer, TypeOK
<1>2. CASE asked[t].kind = "download"
 <2>1. asked[t].of \in Messages /\ asked[t].media \in Media
  BY <1>0, <1>2 DEF Requests
 <2>2. ApplyDownload(t) /\ UNCHANGED seen
  BY <1>2 DEF ApplyAnswer
 <2>3. CASE ~Current(t)
  BY <1>1, <2>2, <2>3 DEF ApplyDownload, file, TypeOK
 <2>4. CASE Current(t)
  <3>1. attachments' = (IF got[t] = "failed" \/ row[asked[t].of] \notin Contents THEN attachments
                        ELSE [attachments EXCEPT ![asked[t].of] =
                                [file |-> got[t], source |-> asked[t].media]])
   BY <2>2, <2>4 DEF ApplyDownload, Current
  <3>2. attachments' \in Tables
   BY <1>0, <2>1, <3>1 DEF TypeOK, Tables
  <3>3. downloads' = [downloads EXCEPT ![asked[t].of] = 0] /\ UNCHANGED <<row, previews>>
   BY <2>2, <2>4 DEF ApplyDownload
  <3>4. downloads' \in [Messages -> 0 .. MaxTransfers]
   <4>1. 0 \in 0 .. MaxTransfers /\ downloads \in [Messages -> 0 .. MaxTransfers]
    BY TransfersAssumption DEF TypeOK, TransfersAssumption
   <4> QED BY <3>3, <4>1
  <3> QED BY <1>1, <2>2, <3>2, <3>3, <3>4 DEF TypeOK
 <2> QED BY <2>3, <2>4
<1>3. CASE asked[t].kind = "preview"
 <2>1. asked[t].of \in Messages
  BY <1>0, <1>3 DEF Requests
 <2>2. ApplyPreview(t) /\ UNCHANGED seen
  BY <1>3 DEF ApplyAnswer
 <2> QED BY <1>0, <1>1, <2>1, <2>2 DEF ApplyPreview, TypeOK, Tables
<1>4. CASE asked[t].kind = "upload"
 BY <1>1, <1>4 DEF ApplyAnswer, file, TypeOK
<1> QED BY <1>0, <1>2, <1>3, <1>4 DEF Requests

LEMMA ApplyType ==
  ASSUME TypeOK, Numbered, Known, Apply
  PROVE  TypeOK'
<1> USE DEF worker, remote
<1> DEFINE event == Head(events)
<1>1. event \in Events /\ Tail(events) \in Seq(Events)
      /\ (event.kind = "answer" => event.of \in 1 .. Len(asked))
 <2>1. events \in Seq(Events) /\ events # <<>>
  BY DEF Apply, TypeOK
 <2>2. event \in Events /\ Tail(events) \in Seq(Events) /\ event = events[1] /\ 1 \in DOMAIN events
  BY <2>1, TailFacts
 <2>3. ASSUME event.kind = "answer" PROVE event.of \in 1 .. Len(asked)
  <3>1. event.of \in Transfer /\ phase[event.of] = "answered"
   BY <2>2, <2>3 DEF Known, Events, Updates
  <3> QED BY <3>1, SentAsked
 <2> QED BY <2>2, <2>3
<1>2. CASE event.kind = "answer" /\ ApplyAnswer(event.of)
 BY <1>1, <1>2, ApplyAnswerType DEF Apply, TypeOK
<1>3. ASSUME event.kind = "update", event.media \in Contents,
             ApplyEdit(event.of, event.media), UNCHANGED answers
      PROVE  TypeOK'
 <2>1. event.of \in Messages
  BY <1>1, <1>3 DEF Events, Updates
 <2> QED BY SMTT(20), <1>1, <1>3, <2>1, WriteRowType, TransfersAssumption
         DEF Apply, ApplyEdit, TypeOK, TransfersAssumption
<1>4. ASSUME event.kind = "update", ApplyDeletion(event.of), UNCHANGED answers
      PROVE  TypeOK'
 <2>1. event.of \in Messages
  BY <1>1, <1>4 DEF Events, Updates
 <2> QED BY SMTT(20), <1>1, <1>4, <2>1, WriteRowType, TransfersAssumption
         DEF Apply, ApplyDeletion, TypeOK, TransfersAssumption
<1>5. ASSUME event.kind = "loaded", ApplyLoaded(event.of, event.media), UNCHANGED answers
      PROVE  TypeOK'
 <2>1. event.of \in Messages /\ event.media \in Contents
  BY <1>1, <1>5 DEF Events, Updates
 <2> QED BY <1>1, <1>5, <2>1, WriteRowType DEF Apply, ApplyLoaded, TypeOK
<1>6. ASSUME event.kind = "invalidated", ApplyInvalidated(event.of), UNCHANGED answers
      PROVE  TypeOK'
 <2>1. event.of \in Messages
  BY <1>1, <1>6 DEF Events, Updates
 <2> QED BY SMTT(20), <1>1, <1>6, <2>1, WriteRowType, TransfersAssumption
         DEF Apply, ApplyInvalidated, TypeOK, TransfersAssumption
<1> QED BY <1>2, <1>3, <1>4, <1>5, <1>6 DEF Apply

-----------------------------------------------------------------------------
(* Every action keeps the requests numbered.                                 *)

\* What HandOn and ServeFrom do to the numbers.
LEMMA AskNumbered ==
  ASSUME TypeOK, Numbered, NEW request \in Requests, Len(asked) < MaxTransfers,
         asked' = Append(asked, request), UNCHANGED <<line, sent>>,
         \/ /\ commands' = Append(commands, Len(asked) + 1)
            /\ phase' = [phase EXCEPT ![Len(asked) + 1] = "asked"]
         \/ /\ commands' = commands
            /\ phase' = [phase EXCEPT ![Len(asked) + 1] = "answered"]
  PROVE  Numbered'
<1> DEFINE t == Len(asked) + 1
<1>1. t \in Transfer /\ Len(asked) \in Nat /\ Len(asked') = t
      /\ \A u \in 1 .. Len(asked) : asked'[u] = asked[u]
 BY AskedType, AppendFacts DEF TypeOK
<1>2. phase[t] = "new" /\ \A u \in Transfer : u # t => phase'[u] = phase[u]
 BY <1>1 DEF Numbered, TypeOK
<1>3. phase'[t] \in {"asked", "answered"}
 BY <1>1 DEF TypeOK
<1>4. \A u \in Transfer : phase'[u] = "new" <=> u > Len(asked')
 BY <1>1, <1>2, <1>3 DEF Numbered, Transfer
<1>5. \A i \in DOMAIN commands : commands[i] \in Transfer /\ commands[i] < t
 <2>1. \A i \in DOMAIN commands : commands[i] \in Transfer
  BY DEF TypeOK
 <2> QED BY <1>1, <2>1, SentAsked DEF Numbered
<1>6. /\ \A i \in DOMAIN commands' : phase'[commands'[i]] = "asked"
      /\ \A i, j \in DOMAIN commands' : i < j => commands'[i] < commands'[j]
 <2>1. CASE commands' = Append(commands, t) /\ phase' = [phase EXCEPT ![t] = "asked"]
  <3>1. /\ commands \in Seq(Transfer)
        /\ DOMAIN commands' = 1 .. Len(commands) + 1 /\ Len(commands) \in Nat
        /\ DOMAIN commands = 1 .. Len(commands)
        /\ \A i \in 1 .. Len(commands) : commands'[i] = commands[i]
        /\ commands'[Len(commands) + 1] = t
   BY <1>1, <2>1, AppendFacts DEF TypeOK
  <3>2. phase'[t] = "asked"
   BY <1>1, <2>1 DEF TypeOK
  <3>3. \A i \in DOMAIN commands' : \/ i \in DOMAIN commands /\ commands'[i] = commands[i]
                                    \/ i = Len(commands) + 1 /\ commands'[i] = t
   BY <3>1
  <3>4. \A i \in DOMAIN commands' : phase'[commands'[i]] = "asked"
   <4>1. \A i \in DOMAIN commands : phase'[commands[i]] = "asked"
    BY <1>1, <1>2, <1>5, <3>1 DEF Numbered
   <4> QED BY <3>2, <3>3, <4>1
  <3>5. \A i, j \in DOMAIN commands' : i < j => commands'[i] < commands'[j]
   BY <1>5, <3>1, <3>3 DEF Numbered
  <3> QED BY <3>4, <3>5
 <2>2. CASE commands' = commands
  BY <1>1, <1>2, <1>5, <2>2 DEF Numbered, Transfer
 <2> QED BY <2>1, <2>2
<1>7. \A i \in DOMAIN line : phase'[line[i]] = "line"
 <2>1. \A i \in DOMAIN line : line[i] \in Transfer /\ phase[line[i]] = "line"
  BY DEF TypeOK, Numbered
 <2> QED BY <1>2, <2>1
<1>8. \A i \in DOMAIN sent : phase'[sent[i]] \in {"finished", "answered"}
                             /\ asked'[sent[i]].kind = "upload"
 BY <1>1, <1>2, SentAsked DEF Numbered
<1>9. line' = line /\ sent' = sent
 OBVIOUS
<1>10. \A i, j \in DOMAIN line' : i # j => line'[i] # line'[j]
 BY <1>9 DEF Numbered
<1>11. \A i \in DOMAIN line' : phase'[line'[i]] = "line"
 BY <1>7, <1>9
<1>12. \A i \in DOMAIN sent' : /\ phase'[sent'[i]] \in {"finished", "answered"}
                               /\ asked'[sent'[i]].kind = "upload"
 BY <1>8, <1>9
<1> QED BY ONLY <1>4, <1>6, <1>10, <1>11, <1>12 DEF Numbered

\* What the admission of the next command does.
LEMMA AdmitNumbered ==
  ASSUME TypeOK, Numbered, commands # <<>>, commands' = Tail(commands),
         UNCHANGED <<asked, sent>>, NEW new \in {"gated", "line", "answered"},
         phase' = [phase EXCEPT ![Head(commands)] = new],
         line' = IF new = "line" THEN Append(line, Head(commands)) ELSE line
  PROVE  Numbered'
<1> DEFINE t == Head(commands)
<1>1. t \in Transfer /\ t \in 1 .. Len(asked) /\ phase[t] = "asked"
 BY HeadAsked
<1>2. phase'[t] = new /\ \A u \in Transfer : u # t => phase'[u] = phase[u]
 BY <1>1 DEF TypeOK
<1>3. \A u \in Transfer : phase'[u] = "new" <=> u > Len(asked')
 BY <1>1, <1>2 DEF Numbered
<1>4. /\ commands \in Seq(Transfer) /\ Len(commands) \in Nat /\ t = commands[1]
      /\ DOMAIN commands = 1 .. Len(commands) /\ DOMAIN commands' = 1 .. Len(commands) - 1
      /\ \A i \in 1 .. Len(commands) - 1 : commands'[i] = commands[i + 1]
 BY TailFacts DEF TypeOK
<1>5. \A i \in DOMAIN commands' : /\ i + 1 \in DOMAIN commands
                                  /\ commands'[i] = commands[i + 1]
                                  /\ commands'[i] \in Transfer /\ t < commands'[i]
 BY <1>4 DEF Numbered
<1>6. \A i \in DOMAIN commands' : phase'[commands'[i]] = "asked"
 BY <1>1, <1>2, <1>5 DEF Numbered, Transfer
<1>7. \A i, j \in DOMAIN commands' : i < j => commands'[i] < commands'[j]
 BY <1>4, <1>5 DEF Numbered
<1>8. \A i \in DOMAIN line : line[i] \in Transfer /\ phase[line[i]] = "line" /\ line[i] # t
 BY <1>1 DEF TypeOK, Numbered
<1>9. /\ \A i \in DOMAIN line' : phase'[line'[i]] = "line"
      /\ \A i, j \in DOMAIN line' : i # j => line'[i] # line'[j]
 <2>1. CASE new = "line"
  <3>1. /\ line \in Seq(Transfer)
        /\ DOMAIN line' = 1 .. Len(line) + 1 /\ Len(line) \in Nat
        /\ DOMAIN line = 1 .. Len(line)
        /\ \A i \in 1 .. Len(line) : line'[i] = line[i]
        /\ line'[Len(line) + 1] = t
   BY <1>1, <2>1, AppendFacts DEF TypeOK
  <3> QED BY <1>2, <1>8, <2>1, <3>1 DEF Numbered
 <2>2. CASE new # "line"
  BY <1>2, <1>8, <2>2 DEF Numbered
 <2> QED BY <2>1, <2>2
<1>10. \A i \in DOMAIN sent : phase'[sent[i]] \in {"finished", "answered"}
 BY <1>1, <1>2, SentAsked DEF Numbered
<1> QED BY <1>3, <1>6, <1>7, <1>9, <1>10 DEF Numbered

\* What a task does that holds a permit or has ended.
LEMMA MoveNumbered ==
  ASSUME TypeOK, Numbered, NEW t \in Transfer, UNCHANGED <<asked, commands, line>>,
         NEW new, phase' = [phase EXCEPT ![t] = new],
         \/ phase[t] \in {"running", "working"} /\ new \in {"working", "finished"}
         \/ phase[t] = "finished" /\ new = "answered",
         \/ UNCHANGED sent
         \/ sent' = Append(sent, t) /\ new = "finished" /\ asked[t].kind = "upload"
  PROVE  Numbered'
<1>1. phase'[t] = new /\ \A u \in Transfer : u # t => phase'[u] = phase[u]
 BY DEF TypeOK
<1>2. asked' = asked /\ commands' = commands /\ line' = line
 OBVIOUS
<1>3. \A u \in Transfer : phase'[u] = "new" <=> u > Len(asked')
 BY <1>1, <1>2 DEF Numbered
<1>4. \A i \in DOMAIN commands' : phase'[commands'[i]] = "asked"
 <2>1. \A i \in DOMAIN commands : commands[i] \in Transfer /\ phase[commands[i]] = "asked"
  BY DEF TypeOK, Numbered
 <2> QED BY <1>1, <1>2, <2>1
<1>5. \A i \in DOMAIN line' : phase'[line'[i]] = "line"
 <2>1. \A i \in DOMAIN line : line[i] \in Transfer /\ phase[line[i]] = "line"
  BY DEF TypeOK, Numbered
 <2> QED BY <1>1, <1>2, <2>1
<1>6. \A i, j \in DOMAIN commands' : i < j => commands'[i] < commands'[j]
 BY <1>2 DEF Numbered
<1>7. \A i, j \in DOMAIN line' : i # j => line'[i] # line'[j]
 BY <1>2 DEF Numbered
<1>8. \A i \in DOMAIN sent : /\ phase'[sent[i]] \in {"finished", "answered"}
                             /\ asked'[sent[i]].kind = "upload"
 BY <1>1, <1>2, SentAsked DEF Numbered
<1>9. \A i \in DOMAIN sent' : /\ phase'[sent'[i]] \in {"finished", "answered"}
                              /\ asked'[sent'[i]].kind = "upload"
 <2>1. CASE sent' = sent
  BY <1>8, <2>1
 <2>2. CASE sent' = Append(sent, t) /\ new = "finished" /\ asked[t].kind = "upload"
  <3>1. /\ DOMAIN sent' = 1 .. Len(sent) + 1 /\ DOMAIN sent = 1 .. Len(sent)
        /\ \A i \in 1 .. Len(sent) : sent'[i] = sent[i]
        /\ sent'[Len(sent) + 1] = t /\ Len(sent) \in Nat
   BY <2>2, AppendFacts DEF TypeOK
  <3>2. \A i \in DOMAIN sent' : (i \in DOMAIN sent /\ sent'[i] = sent[i]) \/ sent'[i] = t
   BY <3>1
  <3> QED BY <1>1, <1>2, <1>8, <2>2, <3>2
 <2> QED BY <2>1, <2>2
<1> QED BY ONLY <1>3, <1>4, <1>5, <1>6, <1>7, <1>9 DEF Numbered

LEMMA GateNumbered ==
  ASSUME TypeOK, Numbered, NEW t \in Transfer, GateOpens(t)
  PROVE  Numbered'
<1>1. phase'[t] = "line" /\ phase[t] = "gated"
      /\ \A u \in Transfer : u # t => phase'[u] = phase[u]
 BY DEF GateOpens, TypeOK
<1>2. asked' = asked /\ commands' = commands /\ sent' = sent
 BY DEF GateOpens, terminal, remote
<1>3. \A u \in Transfer : phase'[u] = "new" <=> u > Len(asked')
 BY <1>1, <1>2 DEF Numbered
<1>4. \A i \in DOMAIN commands' : phase'[commands'[i]] = "asked"
 <2>1. \A i \in DOMAIN commands : commands[i] \in Transfer /\ phase[commands[i]] = "asked"
  BY DEF TypeOK, Numbered
 <2> QED BY <1>1, <1>2, <2>1
<1>5. \A i, j \in DOMAIN commands' : i < j => commands'[i] < commands'[j]
 BY <1>2 DEF Numbered
<1>6. \A i \in DOMAIN line : line[i] \in Transfer /\ phase[line[i]] = "line" /\ line[i] # t
 BY <1>1 DEF TypeOK, Numbered
<1>7. /\ DOMAIN line' = 1 .. Len(line) + 1 /\ DOMAIN line = 1 .. Len(line)
      /\ \A i \in 1 .. Len(line) : line'[i] = line[i]
      /\ line'[Len(line) + 1] = t /\ Len(line) \in Nat
 BY AppendFacts DEF TypeOK, GateOpens
<1>8. /\ \A i \in DOMAIN line' : phase'[line'[i]] = "line"
      /\ \A i, j \in DOMAIN line' : i # j => line'[i] # line'[j]
 BY <1>1, <1>6, <1>7 DEF Numbered
<1>9. \A i \in DOMAIN sent' : /\ phase'[sent'[i]] \in {"finished", "answered"}
                              /\ asked'[sent'[i]].kind = "upload"
 BY <1>1, <1>2, SentAsked DEF Numbered
<1> QED BY ONLY <1>3, <1>4, <1>5, <1>8, <1>9 DEF Numbered

LEMMA PermitNumbered ==
  ASSUME TypeOK, Numbered, TakePermit
  PROVE  Numbered'
<1> DEFINE t == Head(line)
<1>1. /\ line \in Seq(Transfer) /\ Len(line) \in Nat /\ t = line[1] /\ t \in Transfer
      /\ DOMAIN line = 1 .. Len(line) /\ DOMAIN line' = 1 .. Len(line) - 1 /\ 1 \in DOMAIN line
      /\ \A i \in 1 .. Len(line) - 1 : line'[i] = line[i + 1]
 BY TailFacts DEF TakePermit, TypeOK
<1>2. phase[t] = "line" /\ phase'[t] = "running"
      /\ \A u \in Transfer : u # t => phase'[u] = phase[u]
 <2>1. phase' = [phase EXCEPT ![t] = "running"] /\ DOMAIN phase = Transfer
  BY DEF TakePermit, TypeOK
 <2>2. phase[t] = "line"
  BY <1>1 DEF Numbered
 <2> QED BY ONLY <1>1, <2>1, <2>2
<1>3. asked' = asked /\ commands' = commands /\ sent' = sent
 BY DEF TakePermit, terminal, remote
<1>4. \A u \in Transfer : phase'[u] = "new" <=> u > Len(asked')
 BY <1>1, <1>2, <1>3 DEF Numbered
<1>5. \A i \in DOMAIN commands' : phase'[commands'[i]] = "asked"
 <2>1. \A i \in DOMAIN commands : commands[i] \in Transfer /\ phase[commands[i]] = "asked"
  BY DEF TypeOK, Numbered
 <2> QED BY <1>2, <1>3, <2>1
<1>6. \A i, j \in DOMAIN commands' : i < j => commands'[i] < commands'[j]
 BY <1>3 DEF Numbered
<1>7. \A i \in DOMAIN line' : /\ i + 1 \in DOMAIN line /\ line'[i] = line[i + 1]
                              /\ line[i + 1] \in Transfer /\ i + 1 # 1
 BY <1>1
<1>8. /\ \A i \in DOMAIN line' : phase'[line'[i]] = "line"
      /\ \A i, j \in DOMAIN line' : i # j => line'[i] # line'[j]
 BY <1>1, <1>2, <1>7 DEF Numbered
<1>9. \A i \in DOMAIN sent' : /\ phase'[sent'[i]] \in {"finished", "answered"}
                              /\ asked'[sent'[i]].kind = "upload"
 BY <1>1, <1>2, <1>3, SentAsked DEF Numbered
<1> QED BY ONLY <1>4, <1>5, <1>6, <1>8, <1>9 DEF Numbered

LEMMA NumberedStep ==
  ASSUME TypeOK, Numbered, [Next]_vars
  PROVE  Numbered'
<1>1. ASSUME NEW c \in Chats, AskUpload(c) PROVE Numbered'
 <2> DEFINE request == [kind |-> "upload", of |-> c, media |-> "none"]
 <2>1. request \in Requests
  BY DEF Requests
 <2> QED BY <1>1, <2>1, AskNumbered DEF AskUpload, HandOn, remote
<1>2. ASSUME NEW m \in Messages, AskPreview(m) PROVE Numbered'
 <2> DEFINE request == [kind |-> "preview", of |-> m, media |-> "none"]
 <2>1. request \in Requests
  BY DEF Requests
 <2> QED BY <1>2, <2>1, AskNumbered DEF AskPreview, HandOn, ServeFrom, remote
<1>3. ASSUME NEW m \in Messages, NEW media \in Media, AskDownload(m, media) PROVE Numbered'
 <2> DEFINE request == [kind |-> "download", of |-> m, media |-> media]
 <2>1. request \in Requests
  BY DEF Requests
 <2> QED BY <1>3, <2>1, AskNumbered DEF AskDownload, HandOn, ServeFrom, remote
<1>4. CASE AdmitUpload
 BY <1>4, AdmitNumbered DEF AdmitUpload, terminal, remote
<1>5. CASE AdmitDownload
 BY <1>5, AdmitNumbered DEF AdmitDownload, terminal, remote
<1>6. CASE Refuse
 BY <1>6, AdmitNumbered DEF Refuse, terminal, remote
<1>7. CASE TakePermit
 BY <1>7, PermitNumbered
<1>8. ASSUME NEW t \in Transfer, GateOpens(t) PROVE Numbered'
 BY <1>8, GateNumbered
<1>9. ASSUME NEW t \in Transfer, Upload(t) PROVE Numbered'
 BY <1>9, MoveNumbered DEF Upload, Finish, terminal
<1>10. ASSUME NEW t \in Transfer, RefreshMessage(t) PROVE Numbered'
 BY <1>10, MoveNumbered DEF RefreshMessage, Finish, terminal, remote
<1>11. ASSUME NEW t \in Transfer, Download(t) PROVE Numbered'
 BY <1>11, MoveNumbered DEF Download, Finish, terminal, remote
<1>12. ASSUME NEW t \in Transfer, Complete(t) PROVE Numbered'
 BY <1>12, MoveNumbered DEF Complete, terminal, remote
<1>13. ASSUME UNCHANGED <<asked, phase, commands, line, sent>> PROVE Numbered'
 BY <1>13 DEF Numbered
<1>14. \/ Apply \/ TellUpdate
       \/ \E m \in Messages, contents \in Contents \cup {"gone"} : Edit(m, contents)
       \/ \E m \in Messages : TellAnswer(m) \/ TellInvalidated(m)
       \/ UNCHANGED vars
       => UNCHANGED <<asked, phase, commands, line, sent>>
 BY DEF Apply, TellUpdate, Edit, TellAnswer, TellInvalidated, vars, terminal, worker, remote
<1> QED BY <1>1, <1>2, <1>3, <1>4, <1>5, <1>6, <1>7, <1>8, <1>9, <1>10, <1>11, <1>12, <1>13,
<1>14 DEF Next

-----------------------------------------------------------------------------
(* Every action keeps files with the media they are of.                      *)

FilesKept == Known /\ FilesRight /\ AttachmentIsItsMedia /\ AnswersAreAsked

\* What asking does: the request is numbered and may be noted for its message,
\* and it is answered from the cache with media it asks for, or not at all.
Asks(request, new, noted) ==
    LET t == Len(asked) + 1 IN
    /\ asked' = Append(asked, request) /\ UNCHANGED <<got, events, attachments>>
    /\ phase' = [phase EXCEPT ![t] = new]
    /\ \A u \in Transfer : u # t => answers'[u] = answers[u]
    /\ request.kind = "download" => answers'[t] \in {request.media, "none"}
    /\ \/ downloads' = downloads
       \/ /\ downloads' = [downloads EXCEPT ![noted] = t]
          /\ request.kind = "download" /\ request.of = noted

\* What the worker does with a transfer: its phase and its result may change,
\* and when it is answered that may be told.
Works(t, new, result) ==
    /\ UNCHANGED <<asked, answers, downloads, attachments>>
    /\ phase[t] # "answered"
    /\ phase' = [phase EXCEPT ![t] = new] /\ got' = [got EXCEPT ![t] = result]
    /\ asked[t].kind = "download" =>
           /\ result \in {"none", "failed", asked[t].media}
           /\ new \in {"working", "finished", "answered"} => result # "none"
    /\ \/ UNCHANGED events
       \/ /\ events' = Append(events, [kind |-> "answer", of |-> t, media |-> "none"])
          /\ new = "answered"

\* What is told beside the transfers.
Tells ==
    /\ UNCHANGED <<asked, answers, phase, got, downloads, attachments>>
    /\ \/ UNCHANGED events
       \/ \E event \in Events : event.kind # "answer" /\ events' = Append(events, event)

LEMMA KnownEvents ==
  ASSUME TypeOK, Numbered, Known
  PROVE  /\ \A i \in DOMAIN events : events[i] \in Events
         /\ \A i \in DOMAIN events : events[i].kind = "answer" =>
               events[i].of \in Transfer /\ events[i].of \in 1 .. Len(asked)
               /\ phase[events[i].of] = "answered"
<1>1. events \in Seq(Events)
 BY DEF TypeOK
<1>2. \A i \in DOMAIN events : events[i] \in Events
 BY <1>1
<1>3. \A i \in DOMAIN events : events[i].kind = "answer" => events[i].of \in Transfer
 BY <1>2 DEF Events, Updates
<1> QED BY <1>2, <1>3, SentAsked DEF Known

\* A new request changes nothing of the others.
LEMMA AskFiles ==
  ASSUME FilesInv, Len(asked) < MaxTransfers,
         NEW request \in Requests, NEW new \in {"asked", "answered"}, NEW noted,
         Asks(request, new, noted)
  PROVE  FilesKept'
<1> USE DEF Asks
<1> DEFINE t == Len(asked) + 1
<1>1. t \in Transfer /\ Len(asked) \in Nat /\ Len(asked') = t /\ asked'[t] = request
      /\ \A u \in 1 .. Len(asked) : asked'[u] = asked[u]
 BY AskedType, AppendFacts DEF FilesInv, TypeOK
<1>2. phase'[t] = new /\ \A u \in Transfer : u # t => phase'[u] = phase[u]
 BY <1>1 DEF FilesInv, TypeOK
<1>3. \A u \in Transfer : u # t => answers'[u] = answers[u]
 OBVIOUS
<1>4. got[t] = "none" /\ got' = got /\ events' = events /\ attachments' = attachments
 BY <1>1 DEF FilesInv, FilesRight
<1>5. /\ 1 .. Len(asked) \in SUBSET Transfer /\ t \notin 1 .. Len(asked)
      /\ \A u \in 1 .. Len(asked') : u \in 1 .. Len(asked) \/ u = t
      /\ t \in 1 .. Len(asked') /\ 1 .. Len(asked) \in SUBSET (1 .. Len(asked'))
 <2>1. MaxTransfers \in Nat /\ Len(asked) < MaxTransfers
  BY TransfersAssumption DEF TransfersAssumption
 <2> QED BY <1>1, <2>1 DEF Transfer
<1>6. Known'
 <2>1. \A i \in DOMAIN events' : events'[i].kind = "answer" => phase'[events'[i].of] = "answered"
  BY <1>1, <1>2, <1>4, KnownEvents DEF FilesInv
 <2>2. \A m \in Messages : (downloads[m] # 0 => IsDownload(downloads[m], m))'
  <3> SUFFICES ASSUME NEW m \in Messages, downloads'[m] # 0
               PROVE  IsDownload(downloads[m], m)'
   OBVIOUS
  <3>1. CASE downloads'[m] = downloads[m]
   BY <1>1, <1>5, <3>1 DEF FilesInv, Known, IsDownload
  <3>2. CASE downloads'[m] # downloads[m]
   <4>1. m = noted /\ downloads'[m] = t /\ request.kind = "download" /\ request.of = m
    BY <3>2 DEF FilesInv, TypeOK
   <4> QED BY <1>1, <1>5, <4>1 DEF IsDownload
  <3> QED BY <3>1, <3>2
 <2> QED BY <2>1, <2>2 DEF Known
<1>7. FilesRight'
 <2>1. \A u \in Transfer : u > Len(asked') => got'[u] = "none" /\ answers'[u] = "none"
  BY <1>1, <1>3, <1>4 DEF FilesInv, FilesRight, Transfer
 <2>2. \A u \in 1 .. Len(asked') : asked'[u].kind = "download" =>
         /\ got'[u] \in {"none", "failed", asked'[u].media}
         /\ phase'[u] \in {"working", "finished"} => got'[u] # "none"
  BY <1>1, <1>2, <1>4, <1>5 DEF FilesInv, FilesRight
 <2>3. \A i \in DOMAIN events' :
         events'[i].kind = "answer" /\ asked'[events'[i].of].kind = "download"
             => got'[events'[i].of] # "none"
  BY <1>1, <1>4, KnownEvents DEF FilesInv, FilesRight
 <2> QED BY ONLY <2>1, <2>2, <2>3 DEF FilesRight
<1>8. AttachmentIsItsMedia'
 BY <1>4 DEF FilesInv, AttachmentIsItsMedia
<1>9. AnswersAreAsked'
 BY <1>1, <1>3, <1>5, TransfersAssumption DEF FilesInv, AnswersAreAsked, TransfersAssumption
<1> QED BY <1>6, <1>7, <1>8, <1>9 DEF FilesKept

LEMMA WorkerFiles ==
  ASSUME FilesInv, NEW t \in 1 .. Len(asked), NEW new, NEW result, Works(t, new, result)
  PROVE  FilesKept'
<1> USE DEF Works
<1> DEFINE event == [kind |-> "answer", of |-> t, media |-> "none"]
<1>1. t \in Transfer /\ 1 .. Len(asked) \in SUBSET Transfer /\ Len(asked) \in Nat
 BY TransfersAssumption DEF FilesInv, TypeOK, Transfer, TransfersAssumption
<1>2. phase'[t] = new /\ \A u \in Transfer : u # t => phase'[u] = phase[u]
 BY <1>1 DEF FilesInv, TypeOK
<1>3. got'[t] = result /\ \A u \in Transfer : u # t => got'[u] = got[u]
 BY <1>1 DEF FilesInv, TypeOK
<1>4. asked' = asked /\ answers' = answers /\ downloads' = downloads /\ attachments' = attachments
 OBVIOUS
<1>5. \A i \in DOMAIN events' : \/ i \in DOMAIN events /\ events'[i] = events[i]
                                \/ events'[i] = event /\ new = "answered"
 <2>1. CASE events' = events
  BY <2>1
 <2>2. CASE events' = Append(events, event) /\ new = "answered"
  <3>1. event \in Events
   BY <1>1 DEF Events
  <3> QED BY <2>2, <3>1, AppendFacts DEF FilesInv, TypeOK
 <2> QED BY <2>1, <2>2
<1>6. \A i \in DOMAIN events : events[i].kind = "answer" =>
          events[i].of \in Transfer /\ events[i].of # t /\ phase[events[i].of] = "answered"
 BY KnownEvents DEF FilesInv
<1>7. Known'
 <2>1. \A i \in DOMAIN events' : events'[i].kind = "answer" => phase'[events'[i].of] = "answered"
  BY <1>2, <1>5, <1>6
 <2>2. \A m \in Messages : (downloads[m] # 0 => IsDownload(downloads[m], m))'
  BY <1>4 DEF FilesInv, Known, IsDownload
 <2> QED BY <2>1, <2>2 DEF Known
<1>8. FilesRight'
 <2>1. \A u \in Transfer : u > Len(asked') => got'[u] = "none" /\ answers'[u] = "none"
  BY <1>1, <1>3, <1>4 DEF FilesInv, FilesRight
 <2>2. \A u \in 1 .. Len(asked') : asked'[u].kind = "download" =>
         /\ got'[u] \in {"none", "failed", asked'[u].media}
         /\ phase'[u] \in {"working", "finished"} => got'[u] # "none"
  BY <1>1, <1>2, <1>3, <1>4 DEF FilesInv, FilesRight
 <2>3. \A i \in DOMAIN events' :
         events'[i].kind = "answer" /\ asked'[events'[i].of].kind = "download"
             => got'[events'[i].of] # "none"
  BY <1>3, <1>4, <1>5, <1>6 DEF FilesInv, FilesRight
 <2> QED BY ONLY <2>1, <2>2, <2>3 DEF FilesRight
<1>9. AttachmentIsItsMedia' /\ AnswersAreAsked'
 BY <1>4 DEF FilesInv, AttachmentIsItsMedia, AnswersAreAsked
<1> QED BY <1>7, <1>8, <1>9 DEF FilesKept

LEMMA TellFiles ==
  ASSUME FilesInv, Tells
  PROVE  FilesKept'
<1> USE DEF Tells
<1>1. \A i \in DOMAIN events' : \/ i \in DOMAIN events /\ events'[i] = events[i]
                                \/ events'[i].kind # "answer"
 <2>1. CASE UNCHANGED events
  BY <2>1
 <2>2. ASSUME NEW event \in Events, event.kind # "answer", events' = Append(events, event)
       PROVE  \A i \in DOMAIN events' : \/ i \in DOMAIN events /\ events'[i] = events[i]
                                        \/ events'[i].kind # "answer"
  BY <2>2, AppendFacts DEF FilesInv, TypeOK
 <2> QED BY <2>1, <2>2
<1>2. Known'
 BY <1>1 DEF FilesInv, Known, IsDownload
<1>3. FilesRight'
 BY <1>1 DEF FilesInv, FilesRight
<1> QED BY <1>2, <1>3 DEF FilesInv, AttachmentIsItsMedia, AnswersAreAsked, FilesKept

\* A row is written: files of other media go.
LEMMA WriteRowFiles ==
  ASSUME FilesInv, NEW m \in Messages, NEW contents, WriteRow(m, contents)
  PROVE  AttachmentIsItsMedia'
    BY DEF FilesInv, TypeOK, Tables, AttachmentIsItsMedia, WriteRow, KeepMatching, Unrecorded

\* A download ends: what is recorded is what it was asked for.
LEMMA ApplyAnswerFiles ==
  ASSUME FilesInv, NEW t \in 1 .. Len(asked), ApplyAnswer(t),
         asked[t].kind = "download" => got[t] # "none"
  PROVE  /\ AttachmentIsItsMedia'
         /\ \A m \in Messages : downloads'[m] \in {downloads[m], 0}
         /\ answers' = [answers EXCEPT ![t] = answers'[t]]
         /\ asked[t].kind = "download" /\ answers'[t] \in Media => answers'[t] = asked[t].media
<1>0. t \in Transfer /\ asked[t] \in Requests
 BY TransfersAssumption DEF FilesInv, TypeOK, Transfer, TransfersAssumption
<1>1. /\ answers' = [answers EXCEPT ![t] = answers'[t]]
      /\ asked[t].kind = "download" => answers'[t] = got[t]
 BY <1>0 DEF ApplyAnswer, FilesInv, TypeOK
<1>2. asked[t].kind = "download" /\ answers'[t] \in Media => answers'[t] = asked[t].media
 BY <1>1, TransfersAssumption DEF FilesInv, FilesRight, TransfersAssumption
<1>3. CASE asked[t].kind = "download"
 <2>1. asked[t].of \in Messages /\ asked[t].media \in Media
  BY <1>0, <1>3 DEF Requests
 <2>2. ApplyDownload(t)
  BY <1>3 DEF ApplyAnswer
 <2>3. CASE ~Current(t)
  BY <1>1, <1>2, <2>2, <2>3 DEF ApplyDownload, file, FilesInv, AttachmentIsItsMedia
 <2>4. CASE Current(t)
  <3>1. /\ attachments' = (IF got[t] = "failed" \/ row[asked[t].of] \notin Contents
                           THEN attachments
                           ELSE [attachments EXCEPT ![asked[t].of] =
                                   [file |-> got[t], source |-> asked[t].media]])
        /\ downloads' = [downloads EXCEPT ![asked[t].of] = 0]
   BY <2>2, <2>4 DEF ApplyDownload, Current
  <3>2. got[t] \in {"failed", asked[t].media}
   BY <1>3 DEF FilesInv, FilesRight
  <3>3. AttachmentIsItsMedia'
   BY <2>1, <3>1, <3>2 DEF FilesInv, TypeOK, Tables, AttachmentIsItsMedia
  <3>4. \A m \in Messages : downloads'[m] \in {downloads[m], 0}
   BY <2>1, <3>1 DEF FilesInv, TypeOK
  <3> QED BY <1>1, <1>2, <3>3, <3>4
 <2> QED BY <2>3, <2>4
<1>4. CASE asked[t].kind # "download"
 <2>1. UNCHANGED <<downloads, attachments>>
  BY <1>0, <1>4 DEF ApplyAnswer, ApplyPreview, file, Requests
 <2> QED BY <1>1, <1>2, <2>1 DEF FilesInv, AttachmentIsItsMedia
<1> QED BY <1>3, <1>4

LEMMA ApplyFiles ==
  ASSUME FilesInv, Apply
  PROVE  FilesKept'
<1> DEFINE event == Head(events)
<1>1. /\ asked' = asked /\ phase' = phase /\ got' = got /\ events' = Tail(events)
      /\ events \in Seq(Events) /\ events # <<>>
 BY DEF Apply, worker, FilesInv, TypeOK
<1>2. /\ event = events[1] /\ 1 \in DOMAIN events /\ event \in Events
      /\ \A i \in DOMAIN events' : i + 1 \in DOMAIN events /\ events'[i] = events[i + 1]
 BY <1>1, TailFacts
<1>3. event.kind = "answer" => event.of \in 1 .. Len(asked) /\ event.of \in Transfer
                               /\ (asked[event.of].kind = "download" => got[event.of] # "none")
 BY <1>2, KnownEvents DEF FilesInv, FilesRight
<1>4. /\ AttachmentIsItsMedia'
      /\ \A m \in Messages : downloads'[m] \in {downloads[m], 0}
      /\ \/ answers' = answers
         \/ \E t \in 1 .. Len(asked) :
              /\ answers' = [answers EXCEPT ![t] = answers'[t]]
              /\ asked[t].kind = "download" /\ answers'[t] \in Media => answers'[t] = asked[t].media
 <2>1. CASE event.kind = "answer" /\ ApplyAnswer(event.of)
  BY <1>3, <2>1, ApplyAnswerFiles
 <2>2. CASE event.kind = "update" /\ ApplyEdit(event.of, event.media) /\ UNCHANGED answers
  <3>1. event.of \in Messages
   BY <1>2, <2>2 DEF Events, Updates
  <3> QED BY <2>2, <3>1, WriteRowFiles DEF ApplyEdit, FilesInv, TypeOK
 <2>3. CASE event.kind = "update" /\ ApplyDeletion(event.of) /\ UNCHANGED answers
  <3>1. event.of \in Messages
   BY <1>2, <2>3 DEF Events, Updates
  <3> QED BY <2>3, <3>1, WriteRowFiles DEF ApplyDeletion, FilesInv, TypeOK
 <2>4. CASE event.kind = "loaded" /\ ApplyLoaded(event.of, event.media) /\ UNCHANGED answers
  <3>1. event.of \in Messages
   BY <1>2, <2>4 DEF Events, Updates
  <3> QED BY <2>4, <3>1, WriteRowFiles DEF ApplyLoaded, FilesInv, TypeOK
 <2>5. CASE event.kind = "invalidated" /\ ApplyInvalidated(event.of) /\ UNCHANGED answers
  <3>1. event.of \in Messages
   BY <1>2, <2>5 DEF Events, Updates
  <3> QED BY <2>5, <3>1, WriteRowFiles DEF ApplyInvalidated, FilesInv, TypeOK
 <2> QED BY <2>1, <2>2, <2>3, <2>4, <2>5 DEF Apply
<1>5. 1 .. Len(asked) \in SUBSET Transfer /\ Len(asked) \in Nat
 BY TransfersAssumption DEF FilesInv, TypeOK, Transfer, TransfersAssumption
<1>6. \A u \in Transfer : \/ answers'[u] = answers[u]
                          \/ /\ u \in 1 .. Len(asked)
                             /\ asked[u].kind = "download" /\ answers'[u] \in Media
                                  => answers'[u] = asked[u].media
 BY <1>4, <1>5 DEF FilesInv, TypeOK
<1>7. Known'
 <2>1. \A i \in DOMAIN events' : events'[i].kind = "answer" => phase'[events'[i].of] = "answered"
  BY <1>1, <1>2 DEF FilesInv, Known
 <2>2. \A m \in Messages : (downloads[m] # 0 => IsDownload(downloads[m], m))'
  <3> SUFFICES ASSUME NEW m \in Messages, downloads'[m] # 0
               PROVE  IsDownload(downloads[m], m)'
   OBVIOUS
  <3>1. downloads'[m] = downloads[m]
   BY <1>4
  <3> QED BY <1>1, <3>1 DEF FilesInv, Known, IsDownload
 <2> QED BY <2>1, <2>2 DEF Known
<1>8. FilesRight'
 <2>1. \A u \in Transfer : u > Len(asked') => got'[u] = "none" /\ answers'[u] = "none"
  BY <1>1, <1>5, <1>6 DEF FilesInv, FilesRight
 <2>2. \A u \in 1 .. Len(asked') : asked'[u].kind = "download" =>
         /\ got'[u] \in {"none", "failed", asked'[u].media}
         /\ phase'[u] \in {"working", "finished"} => got'[u] # "none"
  BY <1>1 DEF FilesInv, FilesRight
 <2>3. \A i \in DOMAIN events' :
         events'[i].kind = "answer" /\ asked'[events'[i].of].kind = "download"
             => got'[events'[i].of] # "none"
  BY <1>1, <1>2 DEF FilesInv, FilesRight
 <2> QED BY ONLY <2>1, <2>2, <2>3 DEF FilesRight
<1>9. AnswersAreAsked'
 BY <1>1, <1>5, <1>6 DEF FilesInv, AnswersAreAsked
<1> QED BY <1>4, <1>7, <1>8, <1>9 DEF FilesKept

LEMMA AskingFiles ==
  ASSUME FilesInv,
         \/ \E c \in Chats : AskUpload(c)
         \/ \E m \in Messages : AskPreview(m) \/ \E media \in Media : AskDownload(m, media)
  PROVE  FilesKept'
<1>1. Len(asked) < MaxTransfers => answers[Len(asked) + 1] = "none"
 <2>1. Len(asked) < MaxTransfers => Len(asked) + 1 \in Transfer /\ Len(asked) + 1 > Len(asked)
  BY TransfersAssumption DEF FilesInv, TypeOK, Transfer, TransfersAssumption
 <2> QED BY <2>1 DEF FilesInv, FilesRight
<1>2. ASSUME NEW c \in Chats, AskUpload(c) PROVE FilesKept'
 <2> DEFINE request == [kind |-> "upload", of |-> c, media |-> "none"]
 <2>1. request \in Requests
  BY DEF Requests
 <2>2. Len(asked) < MaxTransfers /\ Asks(request, "asked", c)
  BY <1>2 DEF AskUpload, HandOn, Asks, file
 <2> QED BY <2>1, <2>2, AskFiles
<1>3. ASSUME NEW m \in Messages, AskPreview(m) PROVE FilesKept'
 <2> DEFINE request == [kind |-> "preview", of |-> m, media |-> "none"]
 <2>1. request \in Requests
  BY DEF Requests
 <2>2. Len(asked) < MaxTransfers /\ \E new \in {"asked", "answered"} : Asks(request, new, m)
  BY <1>3 DEF AskPreview, HandOn, ServeFrom, Asks, FilesInv, TypeOK
 <2> QED BY <2>1, <2>2, AskFiles
<1>4. ASSUME NEW m \in Messages, NEW media \in Media, AskDownload(m, media) PROVE FilesKept'
 <2> DEFINE request == [kind |-> "download", of |-> m, media |-> media]
            t == Len(asked) + 1
 <2>1. request \in Requests
  BY DEF Requests
 <2>2. /\ asked' = Append(asked, request) /\ Len(asked) < MaxTransfers
       /\ UNCHANGED <<got, events, attachments>>
       /\ \/ /\ phase' = [phase EXCEPT ![t] = "asked"] /\ answers' = answers
             /\ downloads' = [downloads EXCEPT ![m] = t]
          \/ /\ phase' = [phase EXCEPT ![t] = "answered"]
             /\ answers' = [answers EXCEPT ![t] = attachments[m].file]
             /\ attachments[m].source = media /\ downloads' = downloads
  BY <1>4 DEF AskDownload, HandOn, ServeFrom, CachedAttachment
 <2>3. /\ \A u \in Transfer : u # t => answers'[u] = answers[u]
       /\ answers'[t] \in {media, "none"}
  <3>1. t \in Transfer
   BY <2>1, <2>2, AskedType DEF FilesInv
  <3> QED BY <1>1, <2>2, <3>1 DEF FilesInv, TypeOK, AttachmentIsItsMedia
 <2>4. \E new \in {"asked", "answered"} : Asks(request, new, m)
  BY <2>2, <2>3 DEF Asks
 <2> QED BY <2>1, <2>2, <2>4, AskFiles
<1> QED BY <1>2, <1>3, <1>4

LEMMA WorkingFiles ==
  ASSUME FilesInv,
         \/ AdmitUpload \/ AdmitDownload \/ Refuse \/ TakePermit
         \/ \E t \in Transfer :
              GateOpens(t) \/ Upload(t) \/ RefreshMessage(t) \/ Download(t) \/ Complete(t)
  PROVE  FilesKept'
<1>1. TypeOK /\ Numbered
 BY DEF FilesInv
<1>2. \A t \in Transfer : phase[t] # "new" => t \in 1 .. Len(asked)
 BY <1>1, SentAsked
<1>3. \A t \in 1 .. Len(asked) :
          /\ got = [got EXCEPT ![t] = got[t]]
          /\ asked[t].kind = "download" =>
                /\ got[t] \in {"none", "failed", asked[t].media}
                /\ phase[t] \in {"working", "finished"} => got[t] # "none"
 BY DEF FilesInv, FilesRight, TypeOK
<1>4. ASSUME AdmitUpload \/ AdmitDownload \/ Refuse PROVE FilesKept'
 <2> DEFINE t == Head(commands)
 <2>1. t \in 1 .. Len(asked) /\ phase[t] = "asked"
  BY <1>1, <1>4, HeadAsked DEF AdmitUpload, AdmitDownload, Refuse
 <2>2. \/ Works(t, "gated", got[t]) \/ Works(t, "line", got[t]) \/ Works(t, "answered", "failed")
  BY <1>3, <1>4, <2>1
     DEF AdmitUpload, AdmitDownload, Refuse, Told, Works, terminal, file
 <2> QED BY <2>1, <2>2, WorkerFiles
<1>5. ASSUME TakePermit PROVE FilesKept'
 <2> DEFINE t == Head(line)
 <2>1. t \in Transfer /\ phase[t] = "line"
  BY <1>1, <1>5, TailFacts DEF TakePermit, TypeOK, Numbered
 <2>2. t \in 1 .. Len(asked)
  BY <1>2, <2>1
 <2>3. Works(t, "running", got[t])
  BY <1>3, <1>5, <2>1, <2>2 DEF TakePermit, Works, terminal, file
 <2> QED BY <2>2, <2>3, WorkerFiles
<1>6. ASSUME NEW t \in Transfer,
             GateOpens(t) \/ Upload(t) \/ RefreshMessage(t) \/ Download(t) \/ Complete(t)
      PROVE  FilesKept'
 <2>1. phase[t] \in {"gated", "running", "working", "finished"}
  BY <1>6 DEF GateOpens, Upload, RefreshMessage, Download, Complete
 <2>2. t \in 1 .. Len(asked)
  BY <1>2, <2>1
 <2>3. UNCHANGED <<asked, answers, downloads, attachments>>
  BY <1>6 DEF GateOpens, Upload, RefreshMessage, Download, Complete, terminal, file
 <2>4. ASSUME GateOpens(t) PROVE \E new, result : Works(t, new, result)
  <3> Works(t, "line", got[t])
   BY <1>3, <2>1, <2>2, <2>3, <2>4 DEF GateOpens, Works
  <3> QED OBVIOUS
 <2>5. ASSUME Upload(t) PROVE \E new, result : Works(t, new, result)
  <3>1. PICK result : got' = [got EXCEPT ![t] = result]
   BY <2>5 DEF Upload, Finish
  <3>2. Works(t, "finished", result)
   BY <2>1, <2>3, <2>5, <3>1 DEF Upload, Finish, Works
  <3> QED BY <3>2
 <2>6. ASSUME RefreshMessage(t) PROVE \E new, result : Works(t, new, result)
  <3> DEFINE media == server[asked[t].of]
  <3>1. CASE Wanted(t, media)
   <4>1. asked[t].kind = "download" => media = asked[t].media /\ media # "none"
    BY <3>1, TransfersAssumption DEF Wanted, TransfersAssumption
   <4>2. Works(t, "working", media)
    BY <2>1, <2>3, <2>6, <3>1, <4>1 DEF RefreshMessage, Works
   <4> QED BY <4>2
  <3>2. CASE ~Wanted(t, media)
   <4>1. Works(t, "finished", "failed")
    BY <2>1, <2>3, <2>6, <3>2 DEF RefreshMessage, Finish, Works
   <4> QED BY <4>1
  <3> QED BY <3>1, <3>2
 <2>7. ASSUME Download(t) PROVE \E new, result : Works(t, new, result)
  <3>1. PICK result \in {got[t], "failed"} :
            phase' = [phase EXCEPT ![t] = "finished"] /\ got' = [got EXCEPT ![t] = result]
   BY <2>7 DEF Download, Finish
  <3>2. UNCHANGED events /\ phase[t] = "working"
   BY <2>7 DEF Download
  <3>3. Works(t, "finished", result)
   BY <1>3, <2>2, <2>3, <3>1, <3>2 DEF Works
  <3> QED BY <3>3
 <2>8. ASSUME Complete(t) PROVE \E new, result : Works(t, new, result)
  <3> Works(t, "answered", got[t])
   BY <1>3, <2>2, <2>3, <2>8 DEF Complete, Told, Works
  <3> QED OBVIOUS
 <2>9. \E new, result : Works(t, new, result)
  BY <1>6, <2>4, <2>5, <2>6, <2>7, <2>8
 <2> QED BY <2>2, <2>9, WorkerFiles
<1> QED BY <1>4, <1>5, <1>6

LEMMA TellingFiles ==
  ASSUME FilesInv,
         \/ TellUpdate
         \/ \E m \in Messages, contents \in Contents \cup {"gone"} : Edit(m, contents)
         \/ \E m \in Messages : TellAnswer(m) \/ TellInvalidated(m)
         \/ UNCHANGED vars
  PROVE  FilesKept'
<1>1. UNCHANGED <<asked, answers, phase, got, downloads, attachments>>
 BY DEF TellUpdate, Edit, TellAnswer, TellInvalidated, vars, terminal, worker, file
<1>2. ASSUME TellUpdate PROVE Tells
 <2>1. Head(updates) \in Updates /\ events' = Append(events, Head(updates))
  BY <1>2, TailFacts DEF TellUpdate, Told, FilesInv, TypeOK
 <2> QED BY <1>1, <2>1 DEF Tells, Events, Updates
<1>3. ASSUME NEW m \in Messages, TellAnswer(m) PROVE Tells
 <2> DEFINE event == [kind |-> "loaded", of |-> m, media |-> server[m]]
 <2>1. event \in Events /\ event.kind # "answer" /\ events' = Append(events, event)
  BY <1>3 DEF TellAnswer, Told, Events
 <2> QED BY <1>1, <2>1 DEF Tells
<1>4. ASSUME NEW m \in Messages, TellInvalidated(m) PROVE Tells
 <2> DEFINE event == [kind |-> "invalidated", of |-> m, media |-> "none"]
 <2>1. event \in Events /\ event.kind # "answer" /\ events' = Append(events, event)
  BY <1>4 DEF TellInvalidated, Told, Events
 <2> QED BY <1>1, <2>1 DEF Tells
<1>5. ASSUME \/ UNCHANGED vars
             \/ \E m \in Messages, contents \in Contents \cup {"gone"} : Edit(m, contents)
      PROVE  Tells
 BY <1>1, <1>5 DEF Edit, vars, Tells
<1>6. Tells
 BY <1>2, <1>3, <1>4, <1>5
<1> QED BY <1>6, TellFiles

LEMMA TypeStep ==
  ASSUME FilesInv, [Next]_vars
  PROVE  TypeOK'
<1>1. TypeOK /\ Numbered /\ Known
 BY DEF FilesInv
<1>2. ASSUME UNCHANGED vars PROVE TypeOK'
 BY <1>1, <1>2 DEF vars, terminal, worker, remote, file, TypeOK
<1> QED BY <1>1, <1>2, AskType, WorkerType, ServerType, ApplyType DEF Next

LEMMA FilesStep ==
  ASSUME FilesInv, [Next]_vars
  PROVE  FilesInv'
<1>1. TypeOK' /\ Numbered'
 BY TypeStep, NumberedStep DEF FilesInv
<1>2. FilesKept'
 BY AskingFiles, WorkingFiles, TellingFiles, ApplyFiles DEF Next
<1> QED BY <1>1, <1>2 DEF FilesInv, FilesKept

LEMMA InitFiles == Init => FilesInv
<1> SUFFICES ASSUME Init PROVE FilesInv
 OBVIOUS
<1>1. TypeOK
 BY InitType
<1>2. asked = <<>> /\ Len(asked) = 0 /\ commands = <<>> /\ line = <<>> /\ sent = <<>> /\ events = <<>>
 BY DEF Init
<1>3. Numbered
 BY <1>2, TransfersAssumption DEF Init, Numbered, Transfer, TransfersAssumption
<1>4. Known /\ FilesRight /\ AnswersAreAsked
 BY <1>2 DEF Init, Known, FilesRight, AnswersAreAsked
<1>5. AttachmentIsItsMedia
 BY DEF Init, Unrecorded, AttachmentIsItsMedia
<1> QED BY <1>1, <1>3, <1>4, <1>5 DEF FilesInv

LEMMA FilesAlways == Spec => []FilesInv
<1>1. FilesInv /\ [Next]_vars => FilesInv'
 BY FilesStep
<1> QED BY InitFiles, <1>1, PTL DEF Spec

(* The variables of the transfers keep their types. *)
THEOREM TransfersTypeOK == Spec => []TypeOK
<1>1. FilesInv => TypeOK
 BY DEF FilesInv
<1> QED BY <1>1, FilesAlways, PTL

(* The table attachments never names a file of other media than it says
   (cache.rs, AttachmentDownloaded), whatever overtakes a download. *)
THEOREM TransfersAttachmentIsItsMedia == Spec => []AttachmentIsItsMedia
<1>1. FilesInv => AttachmentIsItsMedia
 BY DEF FilesInv
<1> QED BY <1>1, FilesAlways, PTL

(* The terminal never gets a file of other media than it asked for, from the
   server or from the cache (download_attachment, Store::attachment). *)
THEOREM TransfersAnswersAreAsked == Spec => []AnswersAreAsked
<1>1. FilesInv => AnswersAreAsked
 BY DEF FilesInv
<1> QED BY <1>1, FilesAlways, PTL

-----------------------------------------------------------------------------
(* Uploads of one chat are sent in order.                                    *)

(* An upload that is under way holds the gate of the next one of its chat. *)
Under(t, c) == IsUpload(t, c) /\ phase[t] \in {"gated", "line", "running"}

(* Uploads are admitted in order. *)
Admitted ==
    \A t \in 1 .. Len(asked), i \in DOMAIN commands :
        asked[t].kind = "upload" /\ phase[t] # "asked" => t < commands[i]

(* An upload that has one of its chat before it waits for one that is not
   before that. *)
Behind ==
    \A t, u \in Transfer, c \in Chats :
        Under(t, c) /\ Under(u, c) /\ t < u =>
            /\ phase[u] = "gated"
            /\ \E l \in Transfer : l = after[u] /\ t <= l /\ Under(l, c)

(* upload_order knows the last one. *)
Last ==
    \A t \in Transfer, c \in Chats :
        Under(t, c) => \E l \in Transfer : l = upload_order[c] /\ t <= l /\ Under(l, c)

(* What is under way is sent after what was sent. *)
Later ==
    \A i \in DOMAIN sent, t \in Transfer, c \in Chats :
        asked[sent[i]].of = c /\ Under(t, c) => sent[i] < t

OrderInv == FilesInv /\ Admitted /\ Behind /\ Last /\ Later /\ SentInOrder

\* A step that leaves the uploads that are under way where they are, or takes
\* one of them further than its gate that was there already.
LEMMA SameOrder ==
  ASSUME OrderInv, UNCHANGED <<upload_order, after, sent>>,
         \A t \in Transfer, c \in Chats : Under(t, c)' <=> Under(t, c),
         \A t \in Transfer : phase[t] = "gated" => phase'[t] = "gated",
         \A i \in DOMAIN sent : asked'[sent[i]] = asked[sent[i]]
  PROVE  Behind' /\ Last' /\ Later' /\ SentInOrder'
<1>1. Behind'
 BY DEF OrderInv, Behind
<1>2. Last'
 BY DEF OrderInv, Last
<1>3. Later'
 BY DEF OrderInv, Later
<1>4. SentInOrder'
 BY DEF OrderInv, SentInOrder
<1> QED BY <1>1, <1>2, <1>3, <1>4

\* A step of the worker with one transfer.
LEMMA StepOrder ==
  ASSUME OrderInv, UNCHANGED <<asked, upload_order, after, sent>>,
         NEW t \in Transfer, NEW new, phase' = [phase EXCEPT ![t] = new],
         phase[t] # "gated",
         \/ asked[t].kind # "upload"
         \/ phase[t] = "line" /\ new = "running"
         \/ phase[t] \notin {"line", "running"} /\ new \notin {"gated", "line", "running"}
  PROVE  Behind' /\ Last' /\ Later' /\ SentInOrder'
<1>1. phase'[t] = new /\ \A u \in Transfer : u # t => phase'[u] = phase[u]
 BY DEF OrderInv, FilesInv, TypeOK
<1>2. \A u \in Transfer, c \in Chats : Under(u, c)' <=> Under(u, c)
 BY <1>1 DEF Under, IsUpload
<1>3. \A u \in Transfer : phase[u] = "gated" => phase'[u] = "gated"
 BY <1>1
<1> QED BY <1>2, <1>3, SameOrder

\* Of a chat only the first that is under way is past its gate.
LEMMA FirstGoes ==
  ASSUME OrderInv, NEW t \in Transfer, NEW c \in Chats, Under(t, c),
         phase[t] # "gated" \/ after[t] = 0 \/ Ended(after[t])
  PROVE  \A u \in Transfer : Under(u, c) /\ u # t => t < u
<1> SUFFICES ASSUME NEW u \in Transfer, Under(u, c), u < t
             PROVE  FALSE
 BY TransfersAssumption DEF Transfer, TransfersAssumption
<1>1. PICK l \in Transfer : phase[t] = "gated" /\ l = after[t] /\ u <= l /\ Under(l, c)
 BY DEF OrderInv, Behind
<1>2. l # 0
 BY TransfersAssumption DEF Transfer, TransfersAssumption
<1>3. ~Ended(l)
 BY <1>1 DEF Under, Ended
<1> QED BY <1>1, <1>2, <1>3

Ordered == Admitted /\ Behind /\ Last /\ Later /\ SentInOrder

\* What HandOn and ServeFrom do to the order.
Numbers(request) ==
    LET t == Len(asked) + 1 IN
    /\ asked' = Append(asked, request) /\ UNCHANGED <<upload_order, after, sent>>
    /\ \/ commands' = Append(commands, t) /\ phase' = [phase EXCEPT ![t] = "asked"]
       \/ /\ request.kind # "upload"
          /\ commands' = commands /\ phase' = [phase EXCEPT ![t] = "answered"]

LEMMA AskOrder ==
  ASSUME OrderInv, Len(asked) < MaxTransfers, NEW request \in Requests, Numbers(request)
  PROVE  Ordered'
<1> DEFINE t == Len(asked) + 1
<1>1. /\ t \in Transfer /\ Len(asked) \in Nat /\ Len(asked') = t /\ asked'[t] = request
      /\ \A u \in 1 .. Len(asked) : asked'[u] = asked[u]
      /\ asked' = Append(asked, request) /\ UNCHANGED <<upload_order, after, sent>>
 BY AskedType, AppendFacts DEF Numbers, OrderInv, FilesInv, TypeOK
<1>2. /\ phase[t] = "new" /\ phase'[t] \in {"asked", "answered"}
      /\ \A u \in Transfer : u # t => phase'[u] = phase[u]
      /\ request.kind = "upload" => phase'[t] = "asked"
 BY <1>1 DEF Numbers, OrderInv, FilesInv, TypeOK, Numbered
<1>3. 1 .. Len(asked) \in SUBSET Transfer /\ \A u \in 1 .. Len(asked') : u \in 1 .. Len(asked) \/ u = t
 BY <1>1, TransfersAssumption DEF Transfer, TransfersAssumption
<1>4. \A i \in DOMAIN commands' : \/ i \in DOMAIN commands /\ commands'[i] = commands[i]
                                  \/ commands'[i] = t
 <2>1. commands \in Seq(Transfer) /\ t \in Transfer
  BY <1>1 DEF OrderInv, FilesInv, TypeOK
 <2>2. CASE commands' = Append(commands, t)
  BY <2>1, <2>2, AppendFacts
 <2>3. CASE commands' = commands
  BY <2>3
 <2> QED BY <2>2, <2>3 DEF Numbers
<1>5. Admitted'
 <2> SUFFICES ASSUME NEW u \in 1 .. Len(asked'), NEW i \in DOMAIN commands',
                     asked'[u].kind = "upload", phase'[u] # "asked"
              PROVE  u < commands'[i]
  BY DEF Admitted
 <2>1. u \in 1 .. Len(asked) /\ asked[u].kind = "upload" /\ phase[u] # "asked"
  BY <1>1, <1>2, <1>3
 <2> QED BY <1>1, <1>4, <2>1 DEF OrderInv, Admitted
<1>6. \A u \in Transfer, c \in Chats : Under(u, c)' <=> Under(u, c)
 BY <1>1, <1>2, <1>3 DEF Under, IsUpload
<1>7. \A u \in Transfer : phase[u] = "gated" => phase'[u] = "gated"
 BY <1>2
<1>8. \A i \in DOMAIN sent : asked'[sent[i]] = asked[sent[i]]
 <2>1. \A i \in DOMAIN sent : sent[i] \in 1 .. Len(asked)
  BY SentAsked DEF OrderInv, FilesInv, Numbered, TypeOK
 <2> QED BY <1>1, <2>1
<1> QED BY <1>1, <1>5, <1>6, <1>7, <1>8, SameOrder DEF Ordered

\* Where the commands stay, uploads stay admitted.
LEMMA SameAdmitted ==
  ASSUME OrderInv, UNCHANGED <<asked, commands>>,
         \A t \in Transfer : phase[t] = "asked" => phase'[t] = "asked"
  PROVE  Admitted'
<1>1. \A t \in 1 .. Len(asked) : t \in Transfer
 BY TransfersAssumption DEF OrderInv, FilesInv, TypeOK, Transfer, TransfersAssumption
<1> QED BY <1>1 DEF OrderInv, Admitted

\* The first command is that of the upload asked for first.
LEMMA HeadAdmitted ==
  ASSUME OrderInv, commands # <<>>, UNCHANGED asked, commands' = Tail(commands),
         NEW new, phase' = [phase EXCEPT ![Head(commands)] = new]
  PROVE  Admitted'
<1> DEFINE t == Head(commands)
<1>1. t \in 1 .. Len(asked) /\ t \in Transfer
 BY HeadAsked DEF OrderInv, FilesInv
<1>2. /\ 1 \in DOMAIN commands /\ t = commands[1]
      /\ \A i \in DOMAIN commands' : i + 1 \in DOMAIN commands /\ commands'[i] = commands[i + 1]
                                     /\ 1 < i + 1
 BY TailFacts DEF OrderInv, FilesInv, TypeOK
<1>3. \A i \in DOMAIN commands' : t < commands'[i]
 BY <1>2 DEF OrderInv, FilesInv, Numbered
<1>4. \A u \in 1 .. Len(asked) : u # t => phase'[u] = phase[u]
 BY <1>1, TransfersAssumption
    DEF OrderInv, FilesInv, TypeOK, Transfer, TransfersAssumption
<1> QED BY <1>2, <1>3, <1>4 DEF OrderInv, Admitted

LEMMA AdmitUploadOrder ==
  ASSUME OrderInv, AdmitUpload
  PROVE  Ordered'
<1>0. PICK t \in Transfer : t = Head(commands)
 BY HeadAsked DEF AdmitUpload, OrderInv, FilesInv
<1>1. t \in 1 .. Len(asked) /\ phase[t] = "asked" /\ asked[t] \in Requests
 BY <1>0, HeadAsked DEF AdmitUpload, OrderInv, FilesInv
<1>a. PICK c \in Chats : c = asked[t].of
 BY <1>0, <1>1 DEF AdmitUpload, Requests
<1>2. /\ asked[t].kind = "upload"
      /\ after' = [after EXCEPT ![t] = ClosedGates[c]]
      /\ upload_order' = [ClosedGates EXCEPT ![c] = t]
      /\ phase' = [phase EXCEPT ![t] = "gated"]
      /\ commands # <<>> /\ commands' = Tail(commands) /\ UNCHANGED <<asked, sent>>
 BY <1>0, <1>a DEF AdmitUpload, terminal, remote
<1>3. /\ phase'[t] = "gated" /\ after'[t] = ClosedGates[c] /\ upload_order'[c] = t
      /\ \A u \in Transfer : u # t => phase'[u] = phase[u] /\ after'[u] = after[u]
      /\ \A d \in Chats : d # c => upload_order'[d] = ClosedGates[d]
 BY <1>1, <1>2 DEF OrderInv, FilesInv, TypeOK, ClosedGates
<1>4. /\ \A u \in Transfer, d \in Chats : u # t => (Under(u, d)' <=> Under(u, d))
      /\ Under(t, c)' /\ \A d \in Chats : Under(t, d)' => d = c
 BY <1>1, <1>a, <1>2, <1>3 DEF Under, IsUpload
<1>5. \A u \in Transfer, d \in Chats : ~Under(t, d) /\ (Under(u, d) => u < t)
 <2>1. 1 \in DOMAIN commands /\ commands[1] = t
  BY <1>0, <1>2, TailFacts DEF OrderInv, FilesInv, TypeOK
 <2> QED BY <1>1, <2>1 DEF Under, IsUpload, OrderInv, Admitted
<1>6. \A u \in Transfer, d \in Chats : Under(u, d) =>
          \E l \in Transfer : l = ClosedGates[d] /\ u <= l /\ Under(l, d)
 <2> SUFFICES ASSUME NEW u \in Transfer, NEW d \in Chats, Under(u, d)
              PROVE  \E l \in Transfer : l = ClosedGates[d] /\ u <= l /\ Under(l, d)
  OBVIOUS
 <2>1. PICK l \in Transfer : l = upload_order[d] /\ u <= l /\ Under(l, d)
  BY DEF OrderInv, Last
 <2>2. l # 0 /\ ~Ended(l)
  BY <2>1, TransfersAssumption DEF Under, Ended, Transfer, TransfersAssumption
 <2> QED BY <2>1, <2>2 DEF ClosedGates
<1>7. Admitted'
 BY <1>0, <1>2, HeadAdmitted
<1>8. Behind'
 <2> SUFFICES ASSUME NEW u \in Transfer, NEW v \in Transfer, NEW d \in Chats,
                     Under(u, d)', Under(v, d)', u < v
              PROVE  phase'[v] = "gated" /\ \E l \in Transfer : l = after'[v] /\ u <= l /\ Under(l, d)'
  BY DEF Behind
 <2>0. u \in Int /\ v \in Int /\ t \in Int
  BY <1>1, TransfersAssumption DEF Transfer, TransfersAssumption
 <2>1. u # t
  BY <1>4, <1>5, <2>0
 <2>2. CASE v = t
  <3>1. d = c /\ Under(u, c)
   BY <1>4, <2>1, <2>2
  <3>2. PICK l \in Transfer : l = ClosedGates[c] /\ u <= l /\ Under(l, c)
   BY <1>2, <1>6, <3>1
  <3>3. Under(l, c)'
   BY <1>2, <1>4, <1>5, <3>2
  <3> QED BY <1>3, <2>2, <3>1, <3>2, <3>3
 <2>3. CASE v # t
  <3>1. Under(u, d) /\ Under(v, d)
   BY <1>4, <2>1, <2>3
  <3>2. PICK l \in Transfer : phase[v] = "gated" /\ l = after[v] /\ u <= l /\ Under(l, d)
   BY <3>1 DEF OrderInv, Behind
  <3>3. Under(l, d)'
   BY <1>4, <1>5, <3>2
  <3> QED BY <1>3, <2>3, <3>2, <3>3
 <2> QED BY <2>2, <2>3
<1>9. Last'
 <2> SUFFICES ASSUME NEW u \in Transfer, NEW d \in Chats, Under(u, d)'
              PROVE  \E l \in Transfer : l = upload_order'[d] /\ u <= l /\ Under(l, d)'
  BY DEF Last
 <2>0. u \in Int /\ t \in Int
  BY <1>1, TransfersAssumption DEF Transfer, TransfersAssumption
 <2>1. CASE d = c
  BY <1>1, <1>3, <1>4, <1>5, <2>0, <2>1
 <2>2. CASE d # c
  <3>1. Under(u, d)
   BY <1>4, <2>2
  <3>2. PICK l \in Transfer : l = ClosedGates[d] /\ u <= l /\ Under(l, d)
   BY <1>6, <3>1
  <3>3. Under(l, d)'
   BY <1>4, <1>5, <3>2
  <3> QED BY <1>3, <2>2, <3>2, <3>3
 <2> QED BY <2>1, <2>2
<1>10. Later'
 <2>1. \A i \in DOMAIN sent : sent[i] < t
  <3>1. \A i \in DOMAIN sent : sent[i] \in 1 .. Len(asked) /\ asked[sent[i]].kind = "upload"
                               /\ phase[sent[i]] # "asked"
   BY SentAsked DEF OrderInv, FilesInv, Numbered
  <3>2. 1 \in DOMAIN commands /\ commands[1] = t
   BY <1>0, <1>2, TailFacts DEF OrderInv, FilesInv, TypeOK
  <3> QED BY <3>1, <3>2 DEF OrderInv, Admitted
 <2> QED BY <1>2, <1>4, <2>1 DEF OrderInv, Later
<1>11. SentInOrder'
 BY <1>2 DEF OrderInv, SentInOrder
<1> QED BY <1>7, <1>8, <1>9, <1>10, <1>11 DEF Ordered

LEMMA GateOrder ==
  ASSUME OrderInv, NEW t \in Transfer, GateOpens(t)
  PROVE  Ordered'
<1>1. /\ phase[t] = "gated" /\ (after[t] = 0 \/ Ended(after[t]))
      /\ after' = [after EXCEPT ![t] = 0] /\ phase' = [phase EXCEPT ![t] = "line"]
      /\ UNCHANGED <<asked, commands, upload_order, sent>>
 BY DEF GateOpens, terminal, remote
<1>2. /\ phase'[t] = "line"
      /\ \A u \in Transfer : u # t => phase'[u] = phase[u] /\ after'[u] = after[u]
 BY <1>1 DEF OrderInv, FilesInv, TypeOK
<1>3. \A u \in Transfer, c \in Chats : Under(u, c)' <=> Under(u, c)
 BY <1>1, <1>2 DEF Under, IsUpload
<1>4. Admitted'
 BY <1>1, <1>2, SameAdmitted
<1>5. Behind'
 <2> SUFFICES ASSUME NEW u \in Transfer, NEW v \in Transfer, NEW c \in Chats,
                     Under(u, c), Under(v, c), u < v
              PROVE  phase'[v] = "gated" /\ \E l \in Transfer : l = after'[v] /\ u <= l /\ Under(l, c)
  BY <1>3 DEF Behind
 <2>1. v # t
  <3>1. u \in Int /\ v \in Int
   BY TransfersAssumption DEF Transfer, TransfersAssumption
  <3> QED BY <1>1, <3>1, FirstGoes
 <2> QED BY <1>2, <2>1 DEF OrderInv, Behind
<1>6. Last' /\ Later' /\ SentInOrder'
 BY <1>1, <1>3 DEF OrderInv, Last, Later, SentInOrder
<1> QED BY <1>4, <1>5, <1>6 DEF Ordered

LEMMA UploadOrder ==
  ASSUME OrderInv, NEW t \in Transfer, Upload(t)
  PROVE  Ordered'
<1> DEFINE c == asked[t].of
<1>1. /\ phase[t] = "running" /\ asked[t].kind = "upload"
      /\ phase' = [phase EXCEPT ![t] = "finished"]
      /\ sent' = sent \/ sent' = Append(sent, t)
      /\ UNCHANGED <<asked, commands, upload_order, after>>
 BY DEF Upload, Finish, terminal
<1>2. t \in 1 .. Len(asked) /\ c \in Chats /\ Under(t, c)
 <2>1. t \in 1 .. Len(asked)
  BY <1>1, SentAsked DEF OrderInv, FilesInv
 <2>2. asked[t] \in Requests
  BY <2>1 DEF OrderInv, FilesInv, TypeOK
 <2> QED BY <1>1, <2>1, <2>2 DEF Requests, Under, IsUpload
<1>3. phase'[t] = "finished" /\ \A u \in Transfer : u # t => phase'[u] = phase[u]
 BY <1>1 DEF OrderInv, FilesInv, TypeOK
<1>4. \A u \in Transfer, d \in Chats : Under(u, d)' <=> Under(u, d) /\ u # t
 BY <1>1, <1>3 DEF Under, IsUpload
<1>5. \A u \in Transfer : Under(u, c) /\ u # t => t < u
 BY <1>1, <1>2, FirstGoes
<1>6. \A d \in Chats : Under(t, d) => d = c
 BY DEF Under, IsUpload
<1>7. Transfer \in SUBSET Int
 BY TransfersAssumption DEF Transfer, TransfersAssumption
<1>8. Admitted'
 BY <1>1, <1>3, SameAdmitted
<1>9. \A u, l \in Transfer, d \in Chats : Under(u, d) /\ u # t /\ u <= l /\ Under(l, d) => l # t
 BY <1>5, <1>6, <1>7
<1>10. Behind'
 BY <1>1, <1>3, <1>4, <1>9 DEF OrderInv, Behind
<1>11. Last'
 BY <1>1, <1>4, <1>9 DEF OrderInv, Last
<1>12. \A i \in DOMAIN sent' : (i \in DOMAIN sent /\ sent'[i] = sent[i]) \/ sent'[i] = t
 <2>1. sent \in Seq(Transfer)
  BY DEF OrderInv, FilesInv, TypeOK
 <2> QED BY <1>1, <2>1, AppendFacts
<1>13. Later'
 <2> SUFFICES ASSUME NEW i \in DOMAIN sent', NEW u \in Transfer, NEW d \in Chats,
                     asked[sent'[i]].of = d, Under(u, d), u # t
              PROVE  sent'[i] < u
  BY <1>1, <1>4 DEF Later
 <2> QED BY <1>5, <1>12 DEF OrderInv, Later
<1>14. SentInOrder'
 <2>1. CASE sent' = sent
  BY <1>1, <2>1 DEF OrderInv, SentInOrder
 <2>2. CASE sent' = Append(sent, t)
  <3>1. /\ sent \in Seq(Transfer) /\ Len(sent) \in Nat
        /\ DOMAIN sent' = 1 .. Len(sent) + 1 /\ DOMAIN sent = 1 .. Len(sent)
        /\ \A i \in DOMAIN sent : sent'[i] = sent[i]
        /\ sent'[Len(sent) + 1] = t
   BY <2>2, AppendFacts DEF OrderInv, FilesInv, TypeOK
  <3> SUFFICES ASSUME NEW i \in DOMAIN sent', NEW j \in DOMAIN sent', i < j,
                      asked[sent'[i]].of = asked[sent'[j]].of
               PROVE  sent'[i] < sent'[j]
   BY <1>1 DEF SentInOrder
  <3>2. i \in DOMAIN sent
   BY <3>1
  <3>3. CASE j \in DOMAIN sent
   BY <3>1, <3>2, <3>3 DEF OrderInv, SentInOrder
  <3>4. CASE j = Len(sent) + 1
   <4>1. asked[sent[i]].of = c
    BY <3>1, <3>2, <3>4
   <4> QED BY <1>2, <3>1, <3>2, <3>4, <4>1 DEF OrderInv, Later
  <3> QED BY <3>1, <3>3, <3>4
 <2> QED BY <1>1, <2>1, <2>2
<1> QED BY <1>8, <1>10, <1>11, <1>13, <1>14 DEF Ordered

LEMMA OrderStep ==
  ASSUME OrderInv, [Next]_vars
  PROVE  OrderInv'
<1>1. ASSUME NEW c \in Chats, AskUpload(c) PROVE Ordered'
 <2> DEFINE request == [kind |-> "upload", of |-> c, media |-> "none"]
 <2>1. request \in Requests
  BY DEF Requests
 <2>2. Len(asked) < MaxTransfers /\ Numbers(request)
  BY <1>1 DEF AskUpload, HandOn, Numbers, remote
 <2> QED BY <2>1, <2>2, AskOrder
<1>2. ASSUME NEW m \in Messages, AskPreview(m) PROVE Ordered'
 <2> DEFINE request == [kind |-> "preview", of |-> m, media |-> "none"]
 <2>1. request \in Requests
  BY DEF Requests
 <2>2. Len(asked) < MaxTransfers /\ Numbers(request)
  BY <1>2 DEF AskPreview, HandOn, ServeFrom, Numbers, remote
 <2> QED BY <2>1, <2>2, AskOrder
<1>3. ASSUME NEW m \in Messages, NEW media \in Media, AskDownload(m, media) PROVE Ordered'
 <2> DEFINE request == [kind |-> "download", of |-> m, media |-> media]
 <2>1. request \in Requests
  BY DEF Requests
 <2>2. Len(asked) < MaxTransfers /\ Numbers(request)
  BY <1>3 DEF AskDownload, HandOn, ServeFrom, Numbers, remote
 <2> QED BY <2>1, <2>2, AskOrder
<1>4. ASSUME AdmitDownload \/ Refuse PROVE Ordered'
 <2>1. PICK t \in Transfer : t = Head(commands)
  BY <1>4, HeadAsked DEF AdmitDownload, Refuse, OrderInv, FilesInv
 <2>2. phase[t] = "asked"
  BY <1>4, <2>1, HeadAsked DEF AdmitDownload, Refuse, OrderInv, FilesInv
 <2>3. /\ commands # <<>> /\ commands' = Tail(commands)
       /\ UNCHANGED <<asked, upload_order, after, sent>>
       /\ \/ asked[t].kind # "upload" /\ phase' = [phase EXCEPT ![t] = "line"]
          \/ phase' = [phase EXCEPT ![t] = "answered"]
  BY <1>4, <2>1 DEF AdmitDownload, Refuse, terminal, remote
 <2>4. Admitted'
  BY <2>1, <2>3, HeadAdmitted
 <2>5. Behind' /\ Last' /\ Later' /\ SentInOrder'
  BY <2>2, <2>3, StepOrder
 <2> QED BY <2>4, <2>5 DEF Ordered
<1>5. ASSUME TakePermit PROVE Ordered'
 <2>1. PICK t \in Transfer : t = Head(line) /\ phase[t] = "line"
  BY <1>5, TailFacts DEF TakePermit, OrderInv, FilesInv, TypeOK, Numbered
 <2>2. /\ UNCHANGED <<asked, commands, upload_order, after, sent>>
       /\ phase' = [phase EXCEPT ![t] = "running"]
  BY <1>5, <2>1 DEF TakePermit, terminal, remote
 <2>3. Admitted'
  BY <2>1, <2>2, SameAdmitted DEF OrderInv, FilesInv, TypeOK
 <2>4. Behind' /\ Last' /\ Later' /\ SentInOrder'
  BY <2>1, <2>2, StepOrder
 <2> QED BY <2>3, <2>4 DEF Ordered
<1>6. ASSUME NEW t \in Transfer, RefreshMessage(t) \/ Download(t) \/ Complete(t) PROVE Ordered'
 <2>1. /\ UNCHANGED <<asked, commands, upload_order, after, sent>>
       /\ phase[t] \in {"running", "working", "finished"}
       /\ \/ asked[t].kind # "upload"
             /\ \E new \in {"working", "finished"} : phase' = [phase EXCEPT ![t] = new]
          \/ phase[t] = "finished" /\ phase' = [phase EXCEPT ![t] = "answered"]
  BY <1>6 DEF RefreshMessage, Download, Complete, Finish, terminal, remote
 <2>2. Admitted'
  BY <2>1, SameAdmitted DEF OrderInv, FilesInv, TypeOK
 <2>3. Behind' /\ Last' /\ Later' /\ SentInOrder'
  BY <2>1, StepOrder
 <2> QED BY <2>2, <2>3 DEF Ordered
<1>7. ASSUME \/ Apply \/ TellUpdate
             \/ \E m \in Messages, contents \in Contents \cup {"gone"} : Edit(m, contents)
             \/ \E m \in Messages : TellAnswer(m) \/ TellInvalidated(m)
             \/ UNCHANGED vars
      PROVE  Ordered'
 <2>1. UNCHANGED <<asked, phase, commands, upload_order, after, sent>>
  BY <1>7 DEF Apply, TellUpdate, Edit, TellAnswer, TellInvalidated, vars, terminal, worker, remote
 <2>2. \A t \in Transfer, c \in Chats : Under(t, c)' <=> Under(t, c)
  BY <2>1 DEF Under, IsUpload
 <2>3. Behind' /\ Last' /\ Later' /\ SentInOrder'
  BY <2>1, <2>2, SameOrder
 <2> QED BY <2>1, <2>3, SameAdmitted DEF Ordered
<1>8. Ordered'
 BY <1>1, <1>2, <1>3, <1>4, <1>5, <1>6, <1>7, AdmitUploadOrder, GateOrder, UploadOrder DEF Next
<1>9. FilesInv'
 BY FilesStep DEF OrderInv
<1> QED BY <1>8, <1>9 DEF OrderInv, Ordered

LEMMA InitOrder == Init => OrderInv
<1> SUFFICES ASSUME Init PROVE OrderInv
 OBVIOUS
<1>1. asked = <<>> /\ commands = <<>> /\ sent = <<>> /\ \A t \in Transfer : phase[t] = "new"
 BY DEF Init
<1>2. \A t \in Transfer, c \in Chats : ~Under(t, c)
 BY <1>1 DEF Under
<1>3. Admitted /\ Behind /\ Last /\ Later /\ SentInOrder
 BY <1>1, <1>2 DEF Admitted, Behind, Last, Later, SentInOrder
<1> QED BY <1>3, InitFiles DEF OrderInv

(* Files of one chat reach the server in the order in which they were sent
   (upload_order, telegram/mod.rs): however many are refused, fail before or
   after the server has them, or wait for a permit. *)
THEOREM TransfersSentInOrder == Spec => []SentInOrder
<1>1. OrderInv /\ [Next]_vars => OrderInv'
 BY OrderStep
<1>2. OrderInv => SentInOrder
 BY DEF OrderInv
<1> QED BY InitOrder, <1>1, <1>2, PTL DEF Spec
-----------------------------------------------------------------------------
(* A noted download is under way: it waits in the channel, the worker has it, *)
(* or its answer is to be applied.                                            *)

In(s) == {s[i] : i \in DOMAIN s}
AnswerOf(t) == [kind |-> "answer", of |-> t, media |-> "none"]
UnderWay(t) == t \in In(commands) \/ t \in Pending \/ AnswerOf(t) \in In(events)
NotesAreUnderWay == \A m \in Messages : downloads[m] # 0 => UnderWay(downloads[m])
NotesInv == FilesInv /\ NotesAreUnderWay

LEMMA QueueFacts ==
  ASSUME NEW S, NEW s \in Seq(S)
  PROVE  /\ \A e \in S : In(s) \subseteq In(Append(s, e)) /\ e \in In(Append(s, e))
         /\ s # <<>> => \A x \in In(s) : x # Head(s) => x \in In(Tail(s))
<1>1. ASSUME NEW e \in S PROVE In(s) \subseteq In(Append(s, e)) /\ e \in In(Append(s, e))
 BY AppendFacts DEF In
<1>2. ASSUME s # <<>>, NEW x \in In(s), x # Head(s) PROVE x \in In(Tail(s))
 <2>1. PICK i \in 1 .. Len(s) : x = s[i]
  BY TailFacts DEF In
 <2>2. i # 1 /\ Len(s) \in Nat
  BY <1>2, <2>1, TailFacts
 <2>3. i - 1 \in 1 .. Len(s) - 1 /\ (i - 1) + 1 = i
  BY <2>2
 <2>4. Tail(s)[i - 1] = x /\ i - 1 \in DOMAIN Tail(s)
  BY <1>2, <2>1, <2>3, TailFacts
 <2> QED BY <2>4 DEF In
<1> QED BY <1>1, <1>2

\* What is noted is a request that was asked.
LEMMA NotedFacts ==
  ASSUME FilesInv, NEW m \in Messages, downloads[m] # 0
  PROVE  /\ downloads[m] \in Transfer /\ phase[downloads[m]] # "new"
         /\ IsDownload(downloads[m], m)
<1>1. IsDownload(downloads[m], m) /\ Len(asked) \in Nat
 BY DEF FilesInv, Known, TypeOK
<1>2. downloads[m] \in Transfer
 BY <1>1, TransfersAssumption DEF FilesInv, TypeOK, IsDownload, Transfer, TransfersAssumption
<1> QED BY <1>1, <1>2 DEF FilesInv, Numbered, IsDownload

\* A new request takes nothing from the others.
LEMMA AskingNotes ==
  ASSUME NotesInv,
         \/ \E c \in Chats : AskUpload(c)
         \/ \E m \in Messages : AskPreview(m) \/ \E media \in Media : AskDownload(m, media)
  PROVE  NotesAreUnderWay'
<1> DEFINE t == Len(asked) + 1
<1>1. /\ Len(asked) < MaxTransfers /\ events' = events
      /\ \/ commands' = Append(commands, t) /\ phase' = [phase EXCEPT ![t] = "asked"]
         \/ commands' = commands /\ phase' = [phase EXCEPT ![t] = "answered"]
      /\ \/ downloads' = downloads
         \/ \E m \in Messages : /\ downloads' = [downloads EXCEPT ![m] = t]
                                /\ commands' = Append(commands, t)
 BY DEF AskUpload, AskPreview, AskDownload, HandOn, ServeFrom, file
<1>2. commands \in Seq(Transfer) /\ phase \in [Transfer -> Phases] /\ Len(asked) \in Nat
 BY DEF NotesInv, FilesInv, TypeOK
<1>3. t \in Transfer /\ phase[t] = "new"
 BY <1>1, <1>2, TransfersAssumption DEF NotesInv, FilesInv, Numbered, Transfer, TransfersAssumption
<1>4. In(commands) \subseteq In(commands')
      /\ (commands' = Append(commands, t) => t \in In(commands'))
 BY <1>1, <1>2, <1>3, QueueFacts
<1>5. \A u \in Pending : u \in Pending'
 BY <1>1, <1>2, <1>3 DEF Pending
<1>6. \A u : UnderWay(u) => UnderWay(u)'
 BY <1>1, <1>4, <1>5 DEF UnderWay, AnswerOf
<1>7. \A m \in Messages : downloads'[m] = downloads[m]
                          \/ (downloads'[m] = t /\ commands' = Append(commands, t))
 BY <1>1 DEF NotesInv, FilesInv, TypeOK
<1> QED BY <1>4, <1>6, <1>7 DEF NotesInv, NotesAreUnderWay, UnderWay

\* The worker hands a request from one place to the next, its answer last.
LEMMA WorkingNotes ==
  ASSUME NotesInv,
         \/ AdmitUpload \/ AdmitDownload \/ Refuse \/ TakePermit
         \/ \E t \in Transfer :
              GateOpens(t) \/ Upload(t) \/ RefreshMessage(t) \/ Download(t) \/ Complete(t)
  PROVE  NotesAreUnderWay'
<1>1. /\ TypeOK /\ Numbered
      /\ commands \in Seq(Transfer) /\ events \in Seq(Events)
      /\ phase \in [Transfer -> Phases] /\ downloads' = downloads
 BY DEF NotesInv, FilesInv, TypeOK, file, AdmitUpload, AdmitDownload, Refuse, TakePermit,
        GateOpens, Upload, RefreshMessage, Download, Complete
<1>2. \A t \in Transfer : AnswerOf(t) \in Events
 BY DEF AnswerOf, Events
<1>3. PICK t \in Transfer :
        /\ \E new \in Phases :
             /\ phase' = [phase EXCEPT ![t] = new]
             /\ \/ new \in {"gated", "line", "running", "working", "finished"} /\ events' = events
                \/ events' = Append(events, AnswerOf(t))
        /\ \/ commands' = commands
           \/ commands # <<>> /\ t = Head(commands) /\ commands' = Tail(commands)
 <2>1. CASE AdmitUpload \/ AdmitDownload \/ Refuse
  <3>1. Head(commands) \in Transfer
   BY <1>1, <2>1, HeadAsked DEF AdmitUpload, AdmitDownload, Refuse
  <3> QED BY <2>1, <3>1 DEF AdmitUpload, AdmitDownload, Refuse, Told, AnswerOf, Phases
 <2>2. CASE TakePermit
  <3>1. Head(line) \in Transfer
   BY <1>1, <2>2, TailFacts DEF TakePermit, TypeOK
  <3> QED BY <2>2, <3>1 DEF TakePermit, Phases
 <2>3. ASSUME NEW u \in Transfer,
              GateOpens(u) \/ Upload(u) \/ RefreshMessage(u) \/ Download(u) \/ Complete(u)
       PROVE  /\ \E new \in Phases :
                   /\ phase' = [phase EXCEPT ![u] = new]
                   /\ \/ /\ new \in {"gated", "line", "running", "working", "finished"}
                         /\ events' = events
                      \/ events' = Append(events, AnswerOf(u))
              /\ commands' = commands
  BY <2>3 DEF GateOpens, Upload, RefreshMessage, Download, Complete, Finish, Told, AnswerOf, Phases
 <2> QED BY <2>1, <2>2, <2>3
<1>4. In(events) \subseteq In(events')
 BY <1>1, <1>2, <1>3, QueueFacts
<1>5. \A u \in In(commands) : u = t \/ u \in In(commands')
 BY <1>1, <1>3, QueueFacts
<1>6. \A u \in Pending : u = t \/ u \in Pending'
 BY <1>1, <1>3 DEF Pending
<1>7. UnderWay(t)'
 <2>1. CASE events' = Append(events, AnswerOf(t))
  <3>1. AnswerOf(t) \in In(events')
   BY <1>1, <1>2, <2>1, QueueFacts
  <3> QED BY <3>1 DEF UnderWay, AnswerOf
 <2>2. CASE phase'[t] \in {"gated", "line", "running", "working", "finished"}
  BY <2>2 DEF UnderWay, Pending
 <2> QED BY <1>1, <1>3, <2>1, <2>2
<1>8. \A u : UnderWay(u) => UnderWay(u)'
 BY <1>4, <1>5, <1>6, <1>7 DEF UnderWay, AnswerOf
<1> QED BY <1>1, <1>8 DEF NotesInv, NotesAreUnderWay

\* The answer that is applied ends the note that waits for it.
LEMMA ApplyNotes ==
  ASSUME NotesInv, Apply
  PROVE  NotesAreUnderWay'
<1> DEFINE event == Head(events)
<1>1. /\ events \in Seq(Events) /\ events # <<>> /\ event \in Events
      /\ events' = Tail(events) /\ UNCHANGED <<asked, commands, phase>>
 BY TailFacts DEF Apply, worker, NotesInv, FilesInv, TypeOK
<1>2. SUFFICES ASSUME NEW m \in Messages, downloads'[m] # 0
               PROVE  UnderWay(downloads[m])'
 BY DEF NotesAreUnderWay
<1>3. downloads \in [Messages -> 0 .. MaxTransfers]
 BY DEF NotesInv, FilesInv, TypeOK
<1>4. /\ event.kind = "answer" => event.of \in 1 .. Len(asked)
      /\ event.kind # "answer" => event.of \in Messages
 BY <1>1, KnownEvents, TailFacts DEF NotesInv, FilesInv, Events, Updates
<1>5. downloads'[m] = downloads[m] /\ event # AnswerOf(downloads[m])
 <2>1. CASE event.kind = "answer" /\ ApplyAnswer(event.of)
  <3>1. asked[event.of] \in Requests
   BY <1>4, <2>1 DEF NotesInv, FilesInv, TypeOK
  <3>2. asked[event.of].kind = "download" =>
          /\ asked[event.of].of \in Messages
          /\ IF downloads[asked[event.of].of] = event.of
             THEN downloads' = [downloads EXCEPT ![asked[event.of].of] = 0]
             ELSE downloads' = downloads
   BY <2>1, <3>1 DEF ApplyAnswer, ApplyDownload, Current, file, Requests
  <3>3. asked[event.of].kind # "download" => downloads' = downloads
   BY <2>1, <3>1 DEF ApplyAnswer, ApplyPreview, file, Requests
  <3>4. downloads'[m] = downloads[m]
   BY <1>2, <1>3, <3>2, <3>3
  <3>5. IsDownload(downloads[m], m)
   BY <1>2, <3>4, NotedFacts DEF NotesInv
  <3>6. event.of # downloads[m]
   BY <1>2, <1>3, <3>2, <3>4, <3>5 DEF IsDownload
  <3> QED BY <3>4, <3>6 DEF AnswerOf
 <2>2. CASE event.kind = "update" /\ ApplyEdit(event.of, event.media)
  BY <1>2, <1>3, <1>4, <2>2 DEF ApplyEdit, AnswerOf
 <2>3. CASE event.kind = "update" /\ ApplyDeletion(event.of)
  BY <1>2, <1>3, <1>4, <2>3 DEF ApplyDeletion, AnswerOf
 <2>4. CASE event.kind = "loaded" /\ ApplyLoaded(event.of, event.media)
  BY <1>2, <1>3, <1>4, <2>4 DEF ApplyLoaded, AnswerOf
 <2>5. CASE event.kind = "invalidated" /\ ApplyInvalidated(event.of)
  BY <1>2, <1>3, <1>4, <2>5 DEF ApplyInvalidated, AnswerOf
 <2> QED BY <2>1, <2>2, <2>3, <2>4, <2>5 DEF Apply
<1>6. UnderWay(downloads[m])
 BY <1>2, <1>5 DEF NotesInv, NotesAreUnderWay
<1>7. AnswerOf(downloads[m]) \in In(events) => AnswerOf(downloads[m]) \in In(events')
 BY <1>1, <1>5, QueueFacts
<1> QED BY <1>1, <1>5, <1>6, <1>7 DEF UnderWay, Pending, AnswerOf

LEMMA NotesStep ==
  ASSUME NotesInv, [Next]_vars
  PROVE  NotesInv'
<1>1. ASSUME \/ TellUpdate
             \/ \E m \in Messages, contents \in Contents \cup {"gone"} : Edit(m, contents)
             \/ \E m \in Messages : TellAnswer(m) \/ TellInvalidated(m)
             \/ UNCHANGED vars
      PROVE  NotesAreUnderWay'
 <2>1. UNCHANGED <<downloads, commands, phase>>
  BY <1>1 DEF TellUpdate, Edit, TellAnswer, TellInvalidated, vars, worker, file
 <2>2. events \in Seq(Events) /\ updates \in Seq(Updates) /\ Updates \subseteq Events
       /\ server \in [Messages -> Contents \cup {"gone"}]
  BY DEF NotesInv, FilesInv, TypeOK, Events
 <2>3. events' = events \/ \E event \in Events : events' = Append(events, event)
  <3>1. CASE TellUpdate
   BY <2>2, <3>1, TailFacts DEF TellUpdate, Told
  <3>2. ASSUME NEW m \in Messages, TellAnswer(m) \/ TellInvalidated(m)
        PROVE  \E event \in Events : events' = Append(events, event)
   BY <2>2, <3>2 DEF TellAnswer, TellInvalidated, Told, Events
  <3>3. CASE \/ \E m \in Messages, contents \in Contents \cup {"gone"} : Edit(m, contents)
             \/ UNCHANGED vars
   BY <3>3 DEF Edit, vars
  <3> QED BY <1>1, <3>1, <3>2, <3>3
 <2>4. In(events) \subseteq In(events')
  BY <2>2, <2>3, QueueFacts
 <2> QED BY <2>1, <2>4 DEF NotesInv, NotesAreUnderWay, UnderWay, Pending, AnswerOf
<1>2. NotesAreUnderWay'
 BY <1>1, AskingNotes, WorkingNotes, ApplyNotes DEF Next
<1> QED BY <1>2, FilesStep DEF NotesInv

(* When the worker has nothing left to do, no download is noted as under way
   (Store::downloads, cache.rs): a refusal, a failure and a success each reach the
   note they are of, and what was asked again is answered again. *)
THEOREM TransfersNothingLeftUnderWay == Spec => []NothingLeftUnderWay
<1>1. Init => NotesInv
 BY InitFiles DEF NotesInv, NotesAreUnderWay, Init
<1>2. NotesInv /\ [Next]_vars => NotesInv'
 BY NotesStep
<1>3. NotesInv => NothingLeftUnderWay
 BY DEF NotesInv, NotesAreUnderWay, NothingLeftUnderWay, UnderWay, In
<1> QED BY <1>1, <1>2, <1>3, PTL DEF Spec
==============================================================================
