----------------------------- MODULE UnreadCount -----------------------------
(***************************************************************************)
(* The unread count of one chat in the cache: who may change it, and in    *)
(* which order.  Four sources race: the update stream (which a restart     *)
(* replays from the durable cursor), the dialog refresh of the worker, the *)
(* answer to a read receipt, and the reads of other devices.               *)
(*                                                                         *)
(* The worker (telegram/mod.rs) keeps the highest message it has accounted *)
(* for, top_messages, and turns an update at or below it from NewMessage   *)
(* into MessageUpdated.  The cache (cache.rs) keeps the row of the chat    *)
(* and decides with dialog_revision whether a refresh may replace it.      *)
(*                                                                         *)
(* Every event is applied at once and a restart takes the worker back to   *)
(* the cursor: what a crash loses of the cache is what would be applied    *)
(* later.                                                                  *)
(***************************************************************************)
EXTENDS Integers, Sequences, FiniteSets

CONSTANTS
    MaxId,          \* bound on the messages of the chat, numbered from 1
    PerSecond,      \* messages that share a date, which counts seconds
    Outgoing,       \* the messages of them the account sent itself
    IsChannel,      \* TRUE: a supergroup, FALSE: a chat with shared ids
    MaxSkips,       \* bound: differences too long to be delivered
    MaxDeletes,     \* bound on the deletions
    MaxReads,       \* bound on the read receipts, of here and elsewhere
    MaxRestarts     \* bound on the restarts

ASSUME UnreadAssumption ==
    /\ {MaxId, MaxDeletes, MaxReads, MaxRestarts} \subseteq Nat
    /\ PerSecond \in Nat \ {0}
    /\ Outgoing \subseteq 1 .. MaxId
    /\ IsChannel \in BOOLEAN /\ MaxSkips \in Nat

VARIABLES
    log,        \* the server: the update stream
    top,        \* the server: messages so far
    gone,       \* the server: messages deleted
    seen,       \* the server: the read boundary
    pos,        \* worker: updates of the stream processed
    cursor,     \* the durable cursor
    mark,       \* worker: top_messages, 0 when absent
    refresh,    \* worker: dialogs.in_flight, dialogs.dirty and the answer
    receipt,    \* worker: the read receipt in flight
    chat,       \* cache: the row of the chat
    changed,    \* cache: the row is newer than dialog_revision
    cached,     \* cache: messages with a row
    removed,    \* cache: global_deletions
    counted,    \* history: messages that raised the count, while their rows are kept
    covered,    \* history: messages the count stands for
    reads,      \* read receipts so far
    restarts    \* restarts so far

account == <<log, top, gone, seen>>
worker == <<pos, cursor, mark, refresh, receipt>>
cache == <<chat, changed, cached, removed, counted, covered>>
countVars == <<account, worker, cache, reads, restarts>>

-----------------------------------------------------------------------------
MessageId == 1 .. MaxId
Date(m) == IF m = 0 THEN 0 ELSE (m - 1) \div PerSecond + 1
Larger(a, b) == IF a > b THEN a ELSE b
Highest(S) == IF S = {} THEN 0 ELSE CHOOSE m \in S : \A n \in S : n <= m

(* What the server says of the chat: getDialogs, getPeerDialogs. *)
Unseen(readTo) == {m \in 1 .. top : m > readTo /\ m \notin gone \cup Outgoing}
Snapshot == [top |-> Highest((1 .. top) \ gone), unread |-> Cardinality(Unseen(seen)),
             max |-> seen, at |-> top]
NoSnapshot == [top |-> 0, unread |-> 0, max |-> 0, at |-> -1]
SnapshotType == [top : 0 .. MaxId, unread : 0 .. MaxId, max : 0 .. MaxId, at : -1 .. MaxId]

New(m) == [type |-> "new", id |-> m, unread |-> 0, at |-> 0]
Deleted(m) == [type |-> "deleted", id |-> m, unread |-> 0, at |-> 0]
Read(m) == [type |-> "read", id |-> m, unread |-> Cardinality(Unseen(m)), at |-> top]
Gap == [type |-> "gap", id |-> 0, unread |-> 0, at |-> 0]
LeftOut == [type |-> "none", id |-> 0, unread |-> 0, at |-> 0]
Update == [type : {"new", "deleted", "read", "gap", "none"}, id : 0 .. MaxId,
           unread : 0 .. MaxId, at : 0 .. MaxId]

CountType ==
    /\ log \in Seq(Update)
    /\ {top, seen, mark} \subseteq 0 .. MaxId
    /\ gone \subseteq 1 .. top
    /\ pos \in 0 .. Len(log) /\ cursor \in 0 .. pos
    /\ refresh \in [inFlight : BOOLEAN, dirty : BOOLEAN, answer : SnapshotType]
    /\ receipt \in [state : {"none", "sent", "read", "answered"}, max : 0 .. MaxId,
                    answer : SnapshotType]
    /\ chat \in [last : 0 .. MaxId, date : 0 .. MaxId, unread : Nat, seen : 0 .. MaxId]
    /\ changed \in BOOLEAN
    /\ cached \subseteq MessageId /\ removed \subseteq MessageId
    /\ counted \subseteq MessageId /\ covered \subseteq MessageId
    /\ reads \in 0 .. MaxReads /\ restarts \in 0 .. MaxRestarts

CountInit ==
    /\ log = <<>> /\ top = 0 /\ gone = {} /\ seen = 0
    /\ pos = 0 /\ cursor = 0 /\ mark = 0
    /\ refresh = [inFlight |-> FALSE, dirty |-> TRUE, answer |-> NoSnapshot]
    /\ receipt = [state |-> "none", max |-> 0, answer |-> NoSnapshot]
    /\ chat = [last |-> 0, date |-> 0, unread |-> 0, seen |-> 0]
    /\ changed = FALSE
    /\ cached = {} /\ removed = {} /\ counted = {} /\ covered = {}
    /\ reads = 0 /\ restarts = 0

-----------------------------------------------------------------------------
(* The server. *)
ServerSends ==
    /\ top < MaxId
    /\ top' = top + 1
    /\ log' = Append(log, New(top + 1))
    /\ UNCHANGED <<gone, seen, worker, cache, reads, restarts>>

ServerRemoves(m) ==
    /\ Cardinality(gone) < MaxDeletes /\ m \in (1 .. top) \ gone
    /\ gone' = gone \cup {m}
    /\ log' = Append(log, Deleted(m))
    /\ UNCHANGED <<top, seen, worker, cache, reads, restarts>>

(* ReadHistoryInbox, ReadChannelInbox: another device read the chat. *)
ReadElsewhere(m) ==
    /\ reads < MaxReads /\ m \in seen + 1 .. top
    /\ seen' = m
    /\ log' = Append(log, Read(m))
    /\ reads' = reads + 1
    /\ UNCHANGED <<top, gone, worker, cache, restarts>>

(* PtsChanged, ChannelTooLong: what was not delivered never will be. *)
ServerSkips ==
    /\ pos < Len(log) /\ log[Len(log)].type # "gap"
    /\ Cardinality({i \in 1 .. Len(log) : log[i].type = "gap"}) < MaxSkips
    /\ log' = Append(SubSeq(log, 1, pos), Gap)
    /\ UNCHANGED <<top, gone, seen, worker, cache, reads, restarts>>

-----------------------------------------------------------------------------
(* read_state.rs: inbox_update and acknowledge. *)
InboxUpdate(c, max, unread) ==
    IF max < c.seen THEN c ELSE [c EXCEPT !.seen = max, !.unread = unread]

(* Mutant: any count the server sends is taken. *)
FreshAlways(c, max, s) ==
    /\ s # NoSnapshot
    /\ s.max >= Larger(c.seen, max)

Fresh(c, max, s) ==
    /\ s # NoSnapshot
    /\ s.max >= Larger(c.seen, max)
    /\ c.last = 0 \/ c.last <= s.top

Acknowledge(c, max, s) ==
    LET c2 == [c EXCEPT !.seen = Larger(@, max)] IN
    IF Fresh(c, max, s) THEN InboxUpdate(c2, s.max, s.unread)
    ELSE IF c.last # 0 /\ c.last <= max THEN [c2 EXCEPT !.unread = 0]
    ELSE c2

Latest(m) == IF chat.last = 0 THEN Date(m) >= chat.date ELSE m >= chat.last

(* Mutant: a message the cache has a row of counts again. *)
CountsAgain(m) ==
    /\ m > mark /\ m \notin Outgoing
    /\ Latest(m) /\ m > chat.seen

(* NewMessage of an incoming message the cache has not got raises the count;
   at or below the mark the worker sends a MessageUpdated, which does not. *)
Raises(m) ==
    /\ m > mark
    /\ m \notin Outgoing /\ m \notin cached
    /\ Latest(m) /\ m > chat.seen

Received(m) ==
    /\ mark' = Larger(mark, m)
    /\ LET counts == Raises(m)
           c == IF counts THEN [chat EXCEPT !.unread = @ + 1] ELSE chat IN
       /\ chat' = IF Latest(m) THEN [c EXCEPT !.last = m, !.date = Date(m)] ELSE c
       /\ counted' = IF counts THEN counted \cup {m} ELSE counted
       /\ covered' = IF counts THEN covered \cup {m} ELSE covered
    /\ changed' = TRUE
    /\ cached' = IF m \in removed THEN cached ELSE cached \cup {m}
    /\ UNCHANGED <<refresh, removed>>

(* A deletion of the message the row shows empties its preview; the count is
   left to the refresh. *)
Removed(m) ==
    /\ chat' = IF chat.last = m THEN [chat EXCEPT !.last = 0] ELSE chat
    /\ changed' = (changed \/ chat.last = m)
    /\ cached' = IF IsChannel THEN cached \cup {m} ELSE cached
    /\ removed' = IF IsChannel THEN removed ELSE removed \cup {m}
    /\ refresh' = [refresh EXCEPT !.dirty = TRUE]
    /\ UNCHANGED <<mark, counted, covered>>

(* UnreadChanged; a message that is read needs no count. *)
ReadTo(e) ==
    /\ chat' = InboxUpdate(chat, e.id, e.unread)
    /\ covered' = IF e.id < chat.seen THEN covered ELSE 1 .. e.at
    /\ changed' = TRUE
    /\ UNCHANGED <<mark, refresh, cached, removed, counted>>

(* CacheInvalidated *)
CountInvalidated ==
    /\ cached' = {} /\ counted' = {}
    /\ refresh' = [refresh EXCEPT !.dirty = TRUE]
    /\ UNCHANGED <<mark, chat, changed, removed, covered>>

(* process_update and the event it sends to the cache. *)
Deliver ==
    /\ pos < Len(log)
    /\ pos' = pos + 1
    /\ LET e == log[pos + 1] IN
       \/ e.type = "new" /\ Received(e.id)
       \/ e.type = "deleted" /\ Removed(e.id)
       \/ e.type = "read" /\ ReadTo(e)
       \/ e.type = "gap" /\ CountInvalidated
       \/ e.type = "none" /\ UNCHANGED <<mark, refresh, cache>>
    /\ UNCHANGED <<account, cursor, receipt, reads, restarts>>

(* SyncCheckpoint *)
Checkpoint ==
    /\ cursor < pos
    /\ cursor' = pos
    /\ UNCHANGED <<account, pos, mark, refresh, receipt, cache, reads, restarts>>

-----------------------------------------------------------------------------
(* The dialog refresh, requests.rs: DialogsLoading takes the revision of the
   cache, and what made the refresh dirty while it ran discards its answer. *)
AskRefresh ==
    /\ ~refresh.dirty
    /\ refresh' = [refresh EXCEPT !.dirty = TRUE]
    /\ UNCHANGED <<account, pos, cursor, mark, receipt, cache, reads, restarts>>

StartRefresh ==
    /\ refresh.dirty /\ ~refresh.inFlight
    /\ refresh' = [inFlight |-> TRUE, dirty |-> FALSE, answer |-> NoSnapshot]
    /\ changed' = FALSE
    /\ UNCHANGED <<account, pos, cursor, mark, receipt, chat, cached, removed, counted,
                   covered, reads, restarts>>

AnswerRefresh ==
    /\ refresh.inFlight /\ refresh.answer = NoSnapshot
    /\ refresh' = [refresh EXCEPT !.answer = Snapshot]
    /\ UNCHANGED <<account, pos, cursor, mark, receipt, cache, reads, restarts>>

(* Mutant: the snapshot replaces the row whatever happened meanwhile. *)
ReplacedAlways(s) ==
    [last |-> s.top, date |-> Date(s.top), unread |-> s.unread, seen |-> s.max]

(* Dialogs: a row that changed since DialogsLoading keeps what it shows. *)
Replaced(s) ==
    IF changed THEN [chat EXCEPT !.seen = Larger(s.max, @)]
    ELSE [last |-> s.top, date |-> Date(s.top), unread |-> s.unread, seen |-> s.max]

DialogsArrive ==
    /\ refresh.inFlight /\ refresh.answer # NoSnapshot
    /\ refresh' = [refresh EXCEPT !.inFlight = FALSE, !.answer = NoSnapshot]
    /\ IF refresh.dirty
       THEN UNCHANGED <<mark, cache>>
       ELSE /\ mark' = Larger(mark, refresh.answer.top)
            /\ chat' = Replaced(refresh.answer)
            /\ covered' = IF changed THEN covered ELSE 1 .. refresh.answer.at
            /\ changed' = TRUE
            /\ UNCHANGED <<cached, removed, counted>>
    /\ UNCHANGED <<account, pos, cursor, receipt, reads, restarts>>

(* The refresh fails and is not repeated. *)
RefreshFails ==
    /\ refresh.inFlight
    /\ refresh' = [refresh EXCEPT !.inFlight = FALSE, !.answer = NoSnapshot]
    /\ UNCHANGED <<account, pos, cursor, mark, receipt, cache, reads, restarts>>

-----------------------------------------------------------------------------
(* The read receipt, reads.rs: readHistory, then getPeerDialogs for what is
   left.  The terminal marks what it shows, beyond the boundary it knows. *)
MarkRead(m) ==
    /\ receipt.state = "none" /\ reads < MaxReads
    /\ m \in (cached \ (Outgoing \cup removed)) /\ m > chat.seen
    /\ receipt' = [state |-> "sent", max |-> m, answer |-> NoSnapshot]
    /\ reads' = reads + 1
    /\ UNCHANGED <<account, pos, cursor, mark, refresh, cache, restarts>>

ServerReads ==
    /\ receipt.state = "sent"
    /\ receipt' = [receipt EXCEPT !.state = "read"]
    /\ seen' = Larger(seen, receipt.max)
    /\ UNCHANGED <<log, top, gone, pos, cursor, mark, refresh, cache, reads, restarts>>

CountAnswers ==
    /\ receipt.state = "read"
    /\ receipt' \in {[receipt EXCEPT !.state = "answered", !.answer = s]
                       : s \in {Snapshot, NoSnapshot}}
    /\ UNCHANGED <<account, pos, cursor, mark, refresh, cache, reads, restarts>>

NoReceipt == [state |-> "none", max |-> 0, answer |-> NoSnapshot]

ReadMarked ==
    /\ receipt.state = "answered"
    /\ LET s == receipt.answer IN
       /\ chat' = Acknowledge(chat, receipt.max, s)
       /\ covered' = IF Fresh(chat, receipt.max, s) THEN 1 .. s.at ELSE covered
    /\ changed' = TRUE
    /\ receipt' = NoReceipt
    /\ UNCHANGED <<account, pos, cursor, mark, refresh, cached, removed, counted,
                   reads, restarts>>

ReadFails ==
    /\ receipt.state \in {"sent", "read"}
    /\ receipt' = NoReceipt
    /\ UNCHANGED <<account, pos, cursor, mark, refresh, cache, reads, restarts>>

-----------------------------------------------------------------------------
(* The program ends and starts again; run seeds the mark from the cache and
   refreshes the dialogs.  The server answers for the updates behind the
   cursor with a difference, which leaves out what has been deleted and what
   came before a gap: a difference that was too long is too long again. *)
Lost(i) ==
    \/ log[i].type = "new" /\ log[i].id \in gone
    \/ \E j \in i + 1 .. Len(log) : log[j].type = "gap"

Difference ==
    [i \in DOMAIN log |-> IF i > cursor /\ Lost(i) THEN LeftOut ELSE log[i]]

CountRestart ==
    /\ restarts < MaxRestarts
    /\ restarts' = restarts + 1
    /\ pos' = cursor /\ mark' = chat.last
    /\ refresh' = [inFlight |-> FALSE, dirty |-> TRUE, answer |-> NoSnapshot]
    /\ receipt' = NoReceipt
    /\ changed' = FALSE
    /\ log' = Difference
    /\ UNCHANGED <<top, gone, seen, cursor, chat, cached, removed, counted, covered, reads>>

CountNext ==
    \/ ServerSends \/ ServerSkips
    \/ \E m \in MessageId : ServerRemoves(m) \/ ReadElsewhere(m) \/ MarkRead(m)
    \/ Deliver \/ Checkpoint
    \/ AskRefresh \/ StartRefresh \/ AnswerRefresh \/ DialogsArrive \/ RefreshFails
    \/ ServerReads \/ CountAnswers \/ ReadMarked \/ ReadFails
    \/ CountRestart

CountSpec == CountInit /\ [][CountNext]_countVars

-----------------------------------------------------------------------------
(* read_state.rs: "Incoming read boundaries are monotonic", whatever the
   order of updates, receipts, refreshes and restarts. *)
BoundaryMonotonic == [][chat'.seen >= chat.seen]_countVars

(* Development.md: "Replayed incoming messages must not double-count unread
   state": no message raises the count twice, unless a gap that made the cache
   forget its row is replayed with it. *)
Delivered(m) == pos < Len(log) /\ pos' = pos + 1 /\ log[pos + 1] = New(m)

CountedOnce == [][\A m \in MessageId : Delivered(m) /\ Raises(m) => m \notin counted]_countVars

(* read_state.rs: "Counts from a slower dialog snapshot must not erase
   arrivals beyond the snapshot's top message."  While the row has lost its
   last message to a deletion, a snapshot is taken whatever it knows of. *)
Beyond(t) == {m \in cached \ (gone \cup Outgoing) : m > t /\ m > chat.seen}
Fills(r) == r.state = "answered" /\ r.answer # NoSnapshot

ArrivalsKept ==
    [][\A t \in {receipt.answer.top} :
         Fills(receipt) /\ receipt'.state = "none" /\ chat.last # 0
           /\ chat'.unread < chat.unread
         => chat'.unread >= Cardinality(Beyond(t)')]_countVars

(* Every message that was delivered and is unread is part of the count. *)
ArrivalsCovered ==
    \A m \in cached \ (gone \cup Outgoing) : m > chat.seen => m \in covered

(* What the count of a chat owes the user: whatever is replayed, refreshed or answered
   late, the boundary of what was read does not move back, no message is counted twice
   and none that arrived is forgotten. *)
CountIsSound == BoundaryMonotonic /\ CountedOnce /\ ArrivalsKept
=============================================================================
