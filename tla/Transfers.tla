------------------------------ MODULE Transfers ------------------------------
(****************************************************************************)
(* Uploads and downloads of the network worker (telegram/mod.rs), and what  *)
(* the cache file (cache.rs, telegram/local.rs) records of the downloads.   *)
(*                                                                          *)
(* A transfer is its number, in the order in which the terminal asks.  The  *)
(* local worker answers a download from the cache or notes it and hands it  *)
(* on; the network worker admits it as a task; a task waits for its turn    *)
(* (an upload, behind the previous upload of its chat), then for one of the *)
(* permits, works, and its completion is told as an event.  Meanwhile the   *)
(* server changes the media of the messages and tells so in the same stream *)
(* of events.  A downloaded file is represented by the media in it.         *)
(****************************************************************************)
EXTENDS Integers, Sequences, FiniteSets

CONSTANTS Chats,         \* the conversations files are sent to
          Messages,      \* the messages whose media are downloaded
          Media,         \* the media a message can have (their source ids)
          Slots,         \* MAX_CONCURRENT_TRANSFERS
          MaxPending,    \* MAX_PENDING_TRANSFERS
          MaxTransfers,  \* bound: transfers the terminal asks for
          MaxEdits,      \* bound: changes of messages at the server
          MaxReloads     \* bound: answers and invalidations beside the stream

ASSUME TransfersAssumption ==
    /\ Slots \in Nat \ {0} /\ MaxPending \in Nat \ {0}
    /\ MaxTransfers \in Nat /\ MaxEdits \in Nat /\ MaxReloads \in Nat
    /\ Media \cap {"plain", "gone", "absent", "none", "failed"} = {}

Transfer == 1 .. MaxTransfers

\* What a message is at the server, and what its row in the table messages is.
Contents == Media \cup {"plain"}

Requests ==
    [kind : {"upload"}, of : Chats, media : {"none"}]
        \cup [kind : {"download"}, of : Messages, media : Media]
        \cup [kind : {"preview"}, of : Messages, media : {"none"}]

VARIABLES
    \* The terminal.
    asked,         \* the requests, by number
    seen,          \* the media it has been shown of each message
    answers,       \* what it was told of each transfer
    \* The network worker.
    commands,      \* the channel from the local worker
    upload_order,  \* the last upload admitted for each chat (0: none)
    after,         \* the upload each upload waits for (0: none)
    phase,         \* where each transfer is
    line,          \* the tasks waiting for a permit, first come first served
    got,           \* the result of each task: media of its file, or "failed"
    \* The server.
    server,        \* its messages
    updates,       \* the changes it has not told yet
    sent,          \* the uploads it has accepted, in order
    \* The local worker and its file.
    events,        \* the channel from the network worker
    row,           \* the messages of the cache
    downloads,     \* Store::downloads: transfer under way for a message (0: none)
    attachments,   \* the table attachments
    previews,      \* the table previews
    edits, reloads \* counters for the bounds

terminal == <<asked, seen, answers>>
worker == <<commands, upload_order, after, phase, line, got>>
remote == <<server, updates, sent, edits>>
file == <<row, downloads, attachments, previews>>
vars == <<terminal, worker, remote, events, file, reloads>>

Unrecorded == [file |-> "none", source |-> "none"]

Init ==
    /\ asked = <<>> /\ answers = [t \in Transfer |-> "none"]
    /\ server \in [Messages -> Media] /\ row = server
    /\ seen = [m \in Messages |-> {server[m]}]
    /\ commands = <<>> /\ upload_order = [c \in Chats |-> 0]
    /\ after = [t \in Transfer |-> 0]
    /\ phase = [t \in Transfer |-> "new"]
    /\ line = <<>> /\ got = [t \in Transfer |-> "none"]
    /\ updates = <<>> /\ sent = <<>> /\ events = <<>>
    /\ downloads = [m \in Messages |-> 0]
    /\ attachments = [m \in Messages |-> Unrecorded]
    /\ previews = [m \in Messages |-> Unrecorded]
    /\ edits = 0 /\ reloads = 0

-----------------------------------------------------------------------------
(* The terminal asks; the local worker serves (serve_cached) or hands on.    *)

\* Store::attachment.  The file itself may have been pruned since.
CachedAttachment(m, media) == attachments[m].source = media

\* Store::preview: only if its source is that of the cached message.
CachedPreview(m) ==
    /\ row[m] \in Media
    /\ previews[m].source = row[m]

HandOn(request) ==
    LET t == Len(asked) + 1 IN
    /\ commands' = Append(commands, t)
    /\ phase' = [phase EXCEPT ![t] = "asked"]
    /\ asked' = Append(asked, request)
    /\ UNCHANGED <<seen, answers, upload_order, after, line, got>>

ServeFrom(request, cached) ==
    LET t == Len(asked) + 1 IN
    /\ phase' = [phase EXCEPT ![t] = "answered"]
    /\ answers' = [answers EXCEPT ![t] = cached.file]
    /\ asked' = Append(asked, request)
    /\ UNCHANGED <<seen, commands, upload_order, after, line, got, downloads>>

AskUpload(c) ==
    /\ Len(asked) < MaxTransfers
    /\ HandOn([kind |-> "upload", of |-> c, media |-> "none"])
    /\ UNCHANGED <<remote, events, file, reloads>>

\* A download asks for the media the terminal shows, which may be behind the
\* row by events and commands under way.  What is not served from the file
\* replaces the transfer that was noted for the message.
AskDownload(m, media) ==
    /\ Len(asked) < MaxTransfers
    /\ media \in seen[m]
    /\ LET request == [kind |-> "download", of |-> m, media |-> media] IN
       \/ /\ CachedAttachment(m, media)
          /\ ServeFrom(request, attachments[m])
       \/ /\ HandOn(request)
          /\ downloads' = [downloads EXCEPT ![m] = Len(asked) + 1]
    /\ UNCHANGED <<remote, events, row, attachments, previews, reloads>>

AskPreview(m) ==
    /\ Len(asked) < MaxTransfers
    /\ seen[m] # {}
    /\ LET request == [kind |-> "preview", of |-> m, media |-> "none"] IN
       \/ CachedPreview(m) /\ ServeFrom(request, previews[m])
       \/ HandOn(request) /\ UNCHANGED downloads
    /\ UNCHANGED <<remote, events, row, attachments, previews, reloads>>

-----------------------------------------------------------------------------
(* The network worker admits a transfer, or refuses it.                      *)

Pending == {t \in Transfer : phase[t] \in {"gated", "line", "running", "working", "finished"}}

(* Mutant: only an upload that succeeded lets the next one go. *)
EndedWell(t) == phase[t] \in {"finished", "answered"} /\ got[t] # "failed"

\* The oneshot sender of an upload is dropped when its task ends, however it
\* ends: this is what opens the gate of the next.
Ended(t) == phase[t] \in {"finished", "answered"}

(* Mutant: retain keeps the gates that have opened. *)
OpenGates == [c \in Chats |->
    IF upload_order[c] # 0 /\ Ended(upload_order[c]) THEN upload_order[c] ELSE 0]

\* upload_order.retain: the gates that are still closed.
ClosedGates == [c \in Chats |->
    IF upload_order[c] # 0 /\ ~Ended(upload_order[c]) THEN upload_order[c] ELSE 0]

Told(event) == events' = Append(events, event)

AdmitUpload ==
    /\ commands # <<>>
    /\ LET t == Head(commands)
           c == asked[t].of IN
       /\ asked[t].kind = "upload"
       /\ Cardinality(Pending) < MaxPending
       /\ after' = [after EXCEPT ![t] = ClosedGates[c]]
       /\ upload_order' = [ClosedGates EXCEPT ![c] = t]
       /\ phase' = [phase EXCEPT ![t] = "gated"]
    /\ commands' = Tail(commands)
    /\ UNCHANGED <<terminal, line, got, remote, events, file, reloads>>

AdmitDownload ==
    /\ commands # <<>>
    /\ LET t == Head(commands) IN
       /\ asked[t].kind # "upload"
       /\ Cardinality(Pending) < MaxPending
       /\ phase' = [phase EXCEPT ![t] = "line"]
       /\ line' = Append(line, t)
    /\ commands' = Tail(commands)
    /\ UNCHANGED <<terminal, upload_order, after, got, remote, events, file, reloads>>

\* The queue is full, or the conversation has no peer reference (which may be
\* so for any command).
Refuse ==
    /\ commands # <<>>
    /\ LET t == Head(commands) IN
       /\ phase' = [phase EXCEPT ![t] = "answered"]
       /\ got' = [got EXCEPT ![t] = "failed"]
       /\ Told([kind |-> "answer", of |-> t, media |-> "none"])
    /\ commands' = Tail(commands)
    /\ UNCHANGED <<terminal, upload_order, after, line, remote, file, reloads>>

-----------------------------------------------------------------------------
(* The tasks.                                                                *)

GateOpens(t) ==
    /\ phase[t] = "gated"
    /\ after[t] # 0 => Ended(after[t])
    /\ after' = [after EXCEPT ![t] = 0]
    /\ phase' = [phase EXCEPT ![t] = "line"]
    /\ line' = Append(line, t)
    /\ UNCHANGED <<terminal, commands, upload_order, got, remote, events, file, reloads>>

TakePermit ==
    /\ line # <<>>
    /\ Cardinality({t \in Transfer : phase[t] \in {"running", "working"}}) < Slots
    /\ phase' = [phase EXCEPT ![Head(line)] = "running"]
    /\ line' = Tail(line)
    /\ UNCHANGED <<terminal, commands, upload_order, after, got, remote, events, file, reloads>>

Finish(t, result) ==
    /\ phase' = [phase EXCEPT ![t] = "finished"]
    /\ got' = [got EXCEPT ![t] = result]

\* The original is missing or has changed (staging::upload_copy), or the upload
\* fails before the server has the message, or after, or it succeeds.
Upload(t) ==
    /\ phase[t] = "running" /\ asked[t].kind = "upload"
    /\ \/ Finish(t, "failed") /\ UNCHANGED sent
       \/ \E result \in {"failed", "none"} : Finish(t, result) /\ sent' = Append(sent, t)
    /\ UNCHANGED <<terminal, commands, upload_order, after, line, server, updates, edits,
                   events, file, reloads>>

(* Mutant: the media is not compared with what was asked for. *)
WantedAny(t, media) == media \in Media

\* The message is asked for again.  A download wants the media it was asked
\* for; a preview takes what there is.
Wanted(t, media) ==
    /\ media \in Media
    /\ asked[t].kind = "download" => media = asked[t].media

RefreshMessage(t) ==
    /\ phase[t] = "running" /\ asked[t].kind # "upload"
    /\ LET media == server[asked[t].of] IN
       IF Wanted(t, media)
       THEN phase' = [phase EXCEPT ![t] = "working"] /\ got' = [got EXCEPT ![t] = media]
       ELSE Finish(t, "failed")
    /\ UNCHANGED <<terminal, commands, upload_order, after, line, remote, events, file, reloads>>

\* download_media and media_cache::finish, or an error of either (also of
\* RefreshMessage's request).
Download(t) ==
    /\ phase[t] = "working" /\ asked[t].kind # "upload"
    /\ \E result \in {got[t], "failed"} : Finish(t, result)
    /\ UNCHANGED <<terminal, commands, upload_order, after, line, remote, events, file, reloads>>

\* process_transfer_completion.
Complete(t) ==
    /\ phase[t] = "finished"
    /\ phase' = [phase EXCEPT ![t] = "answered"]
    /\ Told([kind |-> "answer", of |-> t, media |-> "none"])
    /\ UNCHANGED <<terminal, commands, upload_order, after, line, got, remote, file, reloads>>

-----------------------------------------------------------------------------
(* The server, and what else the worker tells.                               *)

\* A message is edited, or deleted for ever.
Edit(m, contents) ==
    /\ edits < MaxEdits
    /\ server[m] \in Contents \ {contents}
    /\ server' = [server EXCEPT ![m] = contents]
    /\ updates' = Append(updates, [kind |-> "update", of |-> m, media |-> contents])
    /\ edits' = edits + 1
    /\ UNCHANGED <<terminal, worker, sent, events, file, reloads>>

\* The next update of the stream.
TellUpdate ==
    /\ updates # <<>>
    /\ Told(Head(updates)) /\ updates' = Tail(updates)
    /\ UNCHANGED <<terminal, worker, server, sent, edits, file, reloads>>

\* An answer that contains the message (history, search, pins).
TellAnswer(m) ==
    /\ reloads < MaxReloads
    /\ server[m] \in Contents
    /\ Told([kind |-> "loaded", of |-> m, media |-> server[m]])
    /\ reloads' = reloads + 1
    /\ UNCHANGED <<terminal, worker, remote, file>>

\* The messages of the conversation are to be forgotten.
TellInvalidated(m) ==
    /\ reloads < MaxReloads
    /\ Told([kind |-> "invalidated", of |-> m, media |-> "none"])
    /\ reloads' = reloads + 1
    /\ UNCHANGED <<terminal, worker, remote, file>>

-----------------------------------------------------------------------------
(* Store::apply of one event.                                                *)

(* Mutant: recorded files stay, with the source of the new row. *)
Relabel(table, m, contents) == [table EXCEPT ![m] = [@ EXCEPT !.source = contents]]

\* write_message, and the deletion of what belongs to no message: the recorded
\* files that are left are those of the row's media.
KeepMatching(table, m, contents) ==
    [table EXCEPT ![m] = IF @.source = contents THEN @ ELSE Unrecorded]

WriteRow(m, contents) ==
    /\ row' = [row EXCEPT ![m] = contents]
    /\ seen' = [seen EXCEPT ![m] = @ \cup ({contents} \cap Media)]
    /\ attachments' = KeepMatching(attachments, m, contents)
    /\ previews' = KeepMatching(previews, m, contents)

\* MessageUpdated: a download of other media is no longer under way.
ApplyEdit(m, contents) ==
    /\ downloads' = [downloads EXCEPT ![m] =
          IF @ # 0 /\ asked[@].media = contents THEN @ ELSE 0]
    /\ WriteRow(m, IF row[m] = "gone" THEN "gone" ELSE contents)

\* MessagesDeleted.
ApplyDeletion(m) ==
    /\ downloads' = [downloads EXCEPT ![m] = 0]
    /\ WriteRow(m, "gone")

\* A message of an answer is written unless it is known to be deleted.
ApplyLoaded(m, contents) ==
    /\ WriteRow(m, IF row[m] = "gone" THEN "gone" ELSE contents)
    /\ UNCHANGED downloads

\* CacheInvalidated: rows go, tombstones too.
ApplyInvalidated(m) ==
    /\ downloads' = [downloads EXCEPT ![m] = 0]
    /\ WriteRow(m, "absent")

(* Mutant: any answer ends what is noted for its message. *)
Noted(t) == downloads[asked[t].of] # 0

\* AttachmentDownloaded, AttachmentDownloadFailed: only of the transfer that is
\* under way for the message.  The record is dropped with no message to bear it.
Current(t) == downloads[asked[t].of] = t

(* Mutant: a failure leaves its note behind. *)
ApplyDownloaded(t) ==
    LET m == asked[t].of IN
    IF Current(t) /\ got[t] # "failed"
    THEN /\ attachments' = [attachments EXCEPT ![m] =
                               [file |-> got[t], source |-> asked[downloads[m]].media]]
         /\ downloads' = [downloads EXCEPT ![m] = 0]
         /\ UNCHANGED <<row, previews>>
    ELSE UNCHANGED file

ApplyDownload(t) ==
    LET m == asked[t].of IN
    IF Current(t)
    THEN /\ attachments' = IF got[t] = "failed" \/ row[m] \notin Contents THEN attachments
                           ELSE [attachments EXCEPT ![m] =
                                   [file |-> got[t], source |-> asked[downloads[m]].media]]
         /\ downloads' = [downloads EXCEPT ![m] = 0]
         /\ UNCHANGED <<row, previews>>
    ELSE UNCHANGED file

\* PreviewDownloaded: recorded with the media the row has now.
ApplyPreview(t) ==
    LET m == asked[t].of IN
    /\ previews' = IF got[t] = "failed" \/ row[m] \notin Media THEN previews
                   ELSE [previews EXCEPT ![m] = [file |-> got[t], source |-> row[m]]]
    /\ UNCHANGED <<row, downloads, attachments>>

ApplyAnswer(t) ==
    /\ CASE asked[t].kind = "download" -> ApplyDownload(t)
         [] asked[t].kind = "preview"  -> ApplyPreview(t)
         [] OTHER                      -> UNCHANGED file
    /\ UNCHANGED seen
    /\ answers' = [answers EXCEPT ![t] = IF asked[t].kind = "upload" /\ got[t] = "none"
                                         THEN "done" ELSE got[t]]

Apply ==
    /\ events # <<>>
    /\ LET event == Head(events) IN
       \/ event.kind = "answer" /\ ApplyAnswer(event.of)
       \/ /\ event.kind = "update" /\ event.media \in Contents
          /\ ApplyEdit(event.of, event.media) /\ UNCHANGED answers
       \/ /\ event.kind = "update" /\ event.media = "gone"
          /\ ApplyDeletion(event.of) /\ UNCHANGED answers
       \/ /\ event.kind = "loaded"
          /\ ApplyLoaded(event.of, event.media) /\ UNCHANGED answers
       \/ /\ event.kind = "invalidated"
          /\ ApplyInvalidated(event.of) /\ UNCHANGED answers
    /\ events' = Tail(events)
    /\ UNCHANGED <<asked, worker, remote, reloads>>

-----------------------------------------------------------------------------
Next ==
    \/ \E c \in Chats : AskUpload(c)
    \/ \E m \in Messages : AskPreview(m) \/ \E media \in Media : AskDownload(m, media)
    \/ AdmitUpload \/ AdmitDownload \/ Refuse
    \/ TakePermit
    \/ \E t \in Transfer :
         \/ GateOpens(t) \/ Upload(t)
         \/ RefreshMessage(t) \/ Download(t) \/ Complete(t)
    \/ \E m \in Messages, contents \in Contents \cup {"gone"} : Edit(m, contents)
    \/ TellUpdate
    \/ \E m \in Messages : TellAnswer(m) \/ TellInvalidated(m)
    \/ Apply

\* tokio runs every task that can go on, the select loop of the worker takes a
\* branch that stays ready, and a request ends by an answer or an error.
Fairness ==
    /\ WF_vars(AdmitUpload \/ AdmitDownload \/ Refuse)
    /\ WF_vars(TakePermit) /\ WF_vars(Apply)
    /\ \A t \in Transfer :
         WF_vars(GateOpens(t) \/ Upload(t)
                   \/ RefreshMessage(t) \/ Download(t) \/ Complete(t))

Spec == Init /\ [][Next]_vars /\ Fairness

-----------------------------------------------------------------------------
Tables == [Messages -> [file : Media \cup {"none"}, source : Media \cup {"none"}]]

Phases == {"new", "asked", "gated", "line", "running", "working", "finished", "answered"}
Updates == [kind : {"update"}, of : Messages, media : Contents \cup {"gone"}]
Events ==
    Updates
        \cup [kind : {"answer"}, of : Transfer, media : {"none"}]
        \cup [kind : {"loaded"}, of : Messages, media : Contents]
        \cup [kind : {"invalidated"}, of : Messages, media : {"none"}]

\* Every variable stays in its set.
TypeOK ==
    /\ asked \in Seq(Requests) /\ Len(asked) <= MaxTransfers
    /\ seen \in [Messages -> SUBSET Media]
    /\ answers \in [Transfer -> Media \cup {"none", "done", "failed"}]
    /\ commands \in Seq(Transfer)
    /\ upload_order \in [Chats -> 0 .. MaxTransfers]
    /\ after \in [Transfer -> 0 .. MaxTransfers]
    /\ phase \in [Transfer -> Phases]
    /\ line \in Seq(Transfer)
    /\ got \in [Transfer -> Media \cup {"none", "failed"}]
    /\ server \in [Messages -> Contents \cup {"gone"}]
    /\ updates \in Seq(Updates) /\ sent \in Seq(Transfer) /\ events \in Seq(Events)
    /\ row \in [Messages -> Contents \cup {"gone", "absent"}]
    /\ downloads \in [Messages -> 0 .. MaxTransfers]
    /\ attachments \in Tables /\ previews \in Tables
    /\ edits \in Nat /\ reloads \in Nat

\* Files of one chat reach the server in the order in which they were sent
\* (upload_order, telegram/mod.rs), whatever becomes of each of them.
SentInOrder ==
    \A i, j \in DOMAIN sent :
        i < j /\ asked[sent[i]].of = asked[sent[j]].of => sent[i] < sent[j]

\* The table attachments never names a file of other media than it says: a late
\* download is not recorded for the media of a later edit (cache.rs,
\* AttachmentDownloaded).
AttachmentIsItsMedia ==
    \A m \in Messages : attachments[m].file = attachments[m].source

\* The file the terminal opens is the one it asked for, from the server or from
\* the cache, however the message was edited meanwhile.
AnswersAreAsked ==
    \A t \in 1 .. Len(asked) :
        asked[t].kind = "download" /\ answers[t] \in Media => answers[t] = asked[t].media

\* "A downloaded inline preview, only while it still matches the cached
\* message's media.  [...] edited media are cache misses." (Store::preview)  At
\* least so once the cache has learned the last edit.
PreviewIsItsMedia ==
    \A m \in Messages :
        CachedPreview(m) /\ row[m] = server[m] => previews[m].file = row[m]

\* Every transfer is answered: no upload waits for ever behind one that failed,
\* and none of those that wait for their turn keeps a permit from the others.
EveryTransferAnswered ==
    \A t \in Transfer : t <= Len(asked) ~> answers[t] # "none"

\* When all is quiet no download is noted as under way: the failures reach the
\* map too.
NothingLeftUnderWay ==
    commands = <<>> /\ events = <<>> /\ Pending = {} => \A m \in Messages : downloads[m] = 0
=============================================================================
