-------------------------------- MODULE Outbox --------------------------------
(***************************************************************************)
(* What the user sends to one chat (app.rs): the composer, the messages of *)
(* the transcript that have only a local id, and how they give way to the  *)
(* messages of the server, which are recognised by their contents.         *)
(*                                                                         *)
(* The n-th message sent has local id -n.  Its contents stand for text,    *)
(* reply and attachment, as remove_matching_optimistic compares them; all  *)
(* messages are sent within the five minutes it allows.                    *)
(***************************************************************************)
EXTENDS Integers, Sequences, FiniteSets

CONSTANTS Texts,      \* contents without an attachment
          Files,      \* contents with one
          NoText,     \* an empty composer
          MaxSends,   \* bound: messages the user sends
          MaxRetries, \* bound: attachments sent again
          MaxGaps     \* bound: gaps in the updates

VARIABLES
    composer,   \* the draft of the chat
    retry,      \* retry_message_ids: the failed message the draft is of (0: none)
    entries,    \* the local messages in the transcript, by number
    retries,    \* retry_attachments
    shown,      \* the server's messages in the transcript
    \* The worker, the server, the updates.
    sends,      \* the commands: their contents and where they are
    delivered,  \* the server's messages of this user, in order
    heard,      \* how many of them the updates have told
    gaps, again,
    \* Ghosts.
    replaced,   \* the failed messages that a send from the composer replaced
    dropped     \* the local messages that a gap removed

outboxTerminal == <<composer, retry, entries, retries, shown>>
outboxGhosts == <<replaced, dropped>>
outboxVars == <<outboxTerminal, sends, delivered, heard, gaps, again, outboxGhosts>>

OutboxInit ==
    /\ composer = NoText /\ retry = 0
    /\ entries = [n \in {} |-> "pending"]
    /\ retries = {} /\ shown = {}
    /\ sends = <<>> /\ delivered = <<>> /\ heard = 0
    /\ gaps = 0 /\ again = 0
    /\ replaced = {} /\ dropped = {}

Contents(n) == sends[n].contents
Without(n) == [k \in DOMAIN entries \ {n} |-> entries[k]]
With(f, n, delivery) == [k \in DOMAIN f \cup {n} |-> IF k = n THEN delivery ELSE f[k]]
Answered(n) == sends' = [sends EXCEPT ![n].at = "answered"]

-------------------------------------------------------------------------------
(* The user. *)

Types(text) ==
    /\ text # composer
    /\ composer' = text
    /\ UNCHANGED <<retry, entries, retries, shown, sends, delivered, heard, gaps, again,
                   outboxGhosts>>

\* send_draft.  What retry_message_ids names goes, whatever the draft has become.
SendDraft ==
    LET n == Len(sends) + 1 IN
    /\ composer # NoText /\ n <= MaxSends
    /\ composer' = NoText /\ retry' = 0
    /\ entries' = With(Without(retry), n, "pending")
    /\ replaced' = replaced \cup ({retry} \cap DOMAIN entries)
    /\ sends' = Append(sends, [contents |-> composer, at |-> "asked"])
    /\ UNCHANGED <<retries, shown, delivered, heard, gaps, again, dropped>>

\* send_staged_attachments: the text of the composer becomes the caption.
SendStaged(file) ==
    LET n == Len(sends) + 1 IN
    /\ n <= MaxSends
    /\ composer' = NoText
    /\ entries' = With(entries, n, "pending")
    /\ sends' = Append(sends, [contents |-> file, at |-> "asked"])
    /\ UNCHANGED <<retry, retries, shown, delivered, heard, gaps, again, outboxGhosts>>

\* activate_attachment, of a failed one: the same local message is sent again.
RetryAttachment(n) ==
    /\ n \in retries \cap DOMAIN entries /\ again < MaxRetries
    /\ entries' = With(entries, n, "pending")
    /\ retries' = retries \ {n}
    /\ sends' = [sends EXCEPT ![n].at = "asked"]
    /\ again' = again + 1
    /\ UNCHANGED <<composer, retry, shown, delivered, heard, gaps, outboxGhosts>>

-------------------------------------------------------------------------------
(* The worker and the server.  Requests run side by side, in any order. *)

CarryOut(n) ==
    /\ sends[n].at = "asked"
    /\ sends' = [sends EXCEPT ![n].at = "carried"]
    /\ delivered' = Append(delivered, n)
    /\ UNCHANGED <<outboxTerminal, heard, gaps, again, outboxGhosts>>

\* The message the last attempt of n became.
MessageOf(n) == CHOOSE m \in DOMAIN delivered :
    /\ delivered[m] = n
    /\ \A k \in DOMAIN delivered : delivered[k] = n => k <= m

\* MessageSent: confirm_message.
MessageSent(n) ==
    /\ sends[n].at = "carried"
    /\ Answered(n)
    /\ entries' = Without(n)
    /\ retries' = retries \ {n}
    /\ shown' = shown \cup {MessageOf(n)}
    /\ UNCHANGED <<composer, retry, delivered, heard, gaps, again, outboxGhosts>>

\* MessageAccepted: accept_message, when the answer has no id of the message.
MessageAccepted(n) ==
    /\ sends[n].at = "carried"
    /\ Answered(n)
    /\ entries' = IF n \in DOMAIN entries THEN With(entries, n, "sent") ELSE entries
    /\ retries' = retries \ {n}
    /\ UNCHANGED <<composer, retry, shown, delivered, heard, gaps, again, outboxGhosts>>

\* Mutant: the message is shown as failed although it has been seen meanwhile.
SendFailsLate(n) ==
    /\ sends[n].at \in {"asked", "carried"} /\ Contents(n) \in Texts
    /\ Answered(n)
    /\ entries' = With(entries, n, "failed")
    /\ IF composer = NoText
       THEN composer' = Contents(n) /\ retry' = n
       ELSE UNCHANGED <<composer, retry>>
    /\ UNCHANGED <<retries, shown, delivered, heard, gaps, again, outboxGhosts>>

\* SendFailed: fail_message.  The server may have carried the command out.
SendFails(n) ==
    /\ sends[n].at \in {"asked", "carried"} /\ Contents(n) \in Texts
    /\ Answered(n)
    /\ IF n \in DOMAIN entries
       THEN /\ entries' = With(entries, n, "failed")
            /\ IF composer = NoText
               THEN composer' = Contents(n) /\ retry' = n
               ELSE UNCHANGED <<composer, retry>>
       ELSE UNCHANGED <<composer, retry, entries>>
    /\ UNCHANGED <<retries, shown, delivered, heard, gaps, again, outboxGhosts>>

\* AttachmentSendFailed.
AttachmentSendFails(n) ==
    /\ sends[n].at \in {"asked", "carried"} /\ Contents(n) \in Files
    /\ Answered(n)
    /\ IF n \in DOMAIN entries
       THEN entries' = With(entries, n, "failed") /\ retries' = retries \cup {n}
       ELSE UNCHANGED <<entries, retries>>
    /\ UNCHANGED <<composer, retry, shown, delivered, heard, gaps, again, outboxGhosts>>

-------------------------------------------------------------------------------
(* The server's messages arrive. *)

Local == [entries |-> entries, composer |-> composer, retry |-> retry, retries |-> retries]

\* Mutant: the oldest of the local messages, whatever its contents.
OldestLocal(l, contents) ==
    LET local == DOMAIN l.entries IN
    IF local = {} THEN 0 ELSE CHOOSE n \in local : \A k \in local : n <= k

\* remove_matching_optimistic: the oldest local message with these contents.
Matching(l, contents) ==
    LET same == {n \in DOMAIN l.entries : Contents(n) = contents} IN
    IF same = {} THEN 0 ELSE CHOOSE n \in same : \A k \in same : n <= k

\* clear_reconciled_retry.
Reconciled(l, n, contents) ==
    [entries  |-> [k \in DOMAIN l.entries \ {n} |-> l.entries[k]],
     retries  |-> l.retries \ {n},
     retry    |-> IF l.retry = n THEN 0 ELSE l.retry,
     composer |-> IF l.retry = n /\ l.composer = contents THEN NoText ELSE l.composer]

Reconcile(l, contents) ==
    LET n == Matching(l, contents) IN
    IF n = 0 THEN l ELSE Reconciled(l, n, contents)

LocalBecomes(l) ==
    /\ entries' = l.entries /\ composer' = l.composer
    /\ retry' = l.retry /\ retries' = l.retries

\* NewMessage or MessageUpdated of the next message: receive_message,
\* update_message.  Only a message that is new to the transcript is compared.
Told ==
    /\ heard < Len(delivered)
    /\ heard' = heard + 1
    /\ LocalBecomes(IF heard' \in shown THEN Local
               ELSE Reconcile(Local, Contents(delivered[heard'])))
    /\ shown' = shown \cup {heard'}
    /\ UNCHANGED <<sends, delivered, gaps, again, outboxGhosts>>

\* Telegram does not repeat every message to the session that sent it.
NotTold ==
    /\ heard < Len(delivered)
    /\ heard' = heard + 1
    /\ UNCHANGED <<outboxTerminal, sends, delivered, gaps, again, outboxGhosts>>

\* History, CachedHistory: merge_history compares every message of the page, also
\* those the transcript had.  The page holds what was told since it was asked for.
HistoryArrives(last) ==
    LET merged[m \in 0 .. last] ==
            IF m = 0 THEN Local ELSE Reconcile(merged[m - 1], Contents(delivered[m]))
    IN
    /\ last >= heard /\ \A m \in shown : m <= last
    /\ LocalBecomes(merged[last])
    /\ shown' = 1 .. last
    /\ UNCHANGED <<sends, delivered, heard, gaps, again, outboxGhosts>>

\* CacheInvalidated: the transcript goes, with its local messages.
OutboxGap ==
    /\ gaps < MaxGaps /\ gaps' = gaps + 1
    /\ entries' = [n \in {} |-> "pending"]
    /\ shown' = {}
    /\ dropped' = dropped \cup DOMAIN entries
    /\ UNCHANGED <<composer, retry, retries, sends, delivered, heard, again, replaced>>

OutboxNext ==
    \/ \E text \in Texts \cup {NoText} : Types(text)
    \/ SendDraft
    \/ \E file \in Files : SendStaged(file)
    \/ \E n \in DOMAIN sends :
        \/ RetryAttachment(n)
        \/ CarryOut(n)
        \/ MessageSent(n)
        \/ MessageAccepted(n)
        \/ SendFails(n)
        \/ AttachmentSendFails(n)
    \/ Told
    \/ NotTold
    \/ \E last \in 0 .. Len(delivered) : HistoryArrives(last)
    \/ OutboxGap

OutboxSpec == OutboxInit /\ [][OutboxNext]_outboxVars

-------------------------------------------------------------------------------
OutboxType ==
    /\ composer \in Texts \cup {NoText}
    /\ retry \in 0 .. Len(sends)
    /\ DOMAIN entries \subseteq DOMAIN sends
    /\ \A n \in DOMAIN entries : entries[n] \in {"pending", "sent", "failed"}
    /\ retries \subseteq DOMAIN sends
    /\ shown \subseteq DOMAIN delivered
    /\ heard \in 0 .. Len(delivered)

Failed(n) == sends[n].at = "answered" /\ \A m \in DOMAIN delivered : delivered[m] # n

(* What the user sent and Telegram refused is on the screen, unless the user has
   sent something else in its place, a gap cleared the chat, or a message with the
   same contents was delivered, which the terminal cannot tell from it. *)
RefusedStays ==
    \A n \in DOMAIN sends : Failed(n) =>
        \/ n \in DOMAIN entries /\ entries[n] = "failed"
        \/ n \in replaced \cup dropped
        \/ \E m \in DOMAIN delivered : Contents(delivered[m]) = Contents(n)

Once(n) == \A k \in DOMAIN sends : Contents(k) = Contents(n) => k = n

(* A message that was answered does not stand beside the message it became: what
   failed for the sender and arrived is not offered for a retry, and what was
   accepted is not shown twice. *)
AnsweredIsShownOnce ==
    \A n \in DOMAIN entries : entries[n] # "pending" /\ Once(n) =>
        \A m \in shown : delivered[m] # n

(* What is sent is shown: as refused while it was, and once. *)
SentIsShown == RefusedStays /\ AnsweredIsShownOnce
===============================================================================
