---------------------------- MODULE MessageCache ----------------------------
(***************************************************************************)
(* The message rows of one account's cache, src/src/cache.rs, and the      *)
(* revision protocol that decides which of two writers wins.               *)
(*                                                                         *)
(* Store::apply numbers every event it receives.  An RPC that will return  *)
(* messages is announced by a ...Loading event, whose number becomes the   *)
(* generation of the request; while the RPC runs, updates of the live      *)
(* stream keep changing the same rows, and the answer may only fill what   *)
(* nothing newer has touched.  Tombstones (a row without data in a         *)
(* channel, an entry of global_deletions in the other chats) keep deleted  *)
(* messages out.  Pruning and invalidation throw that evidence away.       *)
(*                                                                         *)
(* Message contents are abstracted to the version the server gave them:    *)
(* 0 is a message that does not exist yet, 1 .. MaxVersion its successive  *)
(* contents, and Gone the deletion that ends it.  A step is the            *)
(* transaction of one event: the durability of whole batches is            *)
(* SyncPipeline's subject.                                                 *)
(***************************************************************************)
EXTENDS Integers, FiniteSets

CONSTANTS
    Key,            \* messages, one per (chat_id, id)
    Common,         \* private chats and small groups: they share deletions
    Channel,        \* channels and supergroups: ids of their own
    ChatOf,         \* Key -> chat
    IdOf,           \* Key -> message id
    Req,            \* request slots of the network worker
    KindOf,         \* Req -> what the slot asks for
    TargetOf,       \* Req -> the chat it asks about
    MaxVersion,     \* bound on the contents a message takes
    MaxChat,        \* MAX_CHAT_MESSAGES
    MaxDeletions,   \* MAX_MESSAGES, as the bound of global_deletions
    MaxRevision     \* bound on the events applied

Chat == Common \cup Channel
Id == {IdOf[k] : k \in Key}
Gone == MaxVersion + 1

(***************************************************************************)
(* "page": LoadHistory, LoadOlder, LoadReplyPreviews (history_revisions);  *)
(* "pins": LoadPinnedMessages, LoadPinnedContext (pin_revisions);          *)
(* "search": SearchCloud, SearchMentions, LoadCloudContext                 *)
(* (search_revision, one for the whole store); "load": LoadMessage         *)
(* (history_revisions); "direct": SendMessage, SendAttachment and          *)
(* EditMessage, whose answer is applied as a live message.                 *)
(***************************************************************************)
Kind == {"page", "pins", "search", "load", "direct"}

ASSUME CacheAssumption ==
    /\ MaxVersion \in Nat \ {0}
    /\ MaxChat \in Nat \ {0}
    /\ MaxDeletions \in Nat
    /\ MaxRevision \in Nat
    /\ IsFiniteSet(Key)
    /\ Common \cap Channel = {}
    /\ ChatOf \in [Key -> Chat]
    /\ IdOf \in [Key -> Nat \ {0}]
    /\ KindOf \in [Req -> Kind]
    /\ TargetOf \in [Req -> Chat]
    /\ \A j, k \in Key : ChatOf[j] = ChatOf[k] /\ IdOf[j] = IdOf[k] => j = k
    \* The chats outside channels number their messages from one sequence.
    /\ \A j, k \in Key : ChatOf[j] \in Common /\ ChatOf[k] \in Common
                         /\ IdOf[j] = IdOf[k] => j = k

VARIABLES
    rev,        \* Store::revision
    rows,       \* table messages
    gd,         \* table global_deletions: id -> revision, 0 when absent
    gens,       \* history_revisions, pin_revisions, search_revision: 0 absent
    status,     \* the RPC of each slot
    page,       \* the contents the server answered each slot with
    srv,        \* the server's messages
    told,       \* the latest state the update stream delivered
    forgot      \* history: when pruning last dropped the row of a message

vars == <<rev, rows, gd, gens, status, page, srv, told, forgot>>
tables == <<rows, gd, forgot>>
server == <<srv, told>>

-----------------------------------------------------------------------------
(***************************************************************************)
(* A row: the version it holds (Gone: data IS NULL), its revision, and,    *)
(* for the properties, the last writer: a live update, an answer checked   *)
(* against its generation, or an answer nothing could be checked against.  *)
(***************************************************************************)
NoRow == [ver |-> 0, rev |-> 0, via |-> "none"]
RowType == [ver : 0 .. Gone, rev : Nat,
            via : {"none", "live", "page", "load", "stray"}]
EmptyPage == [k \in Key |-> 0]

IsCommon(k) == ChatOf[k] \in Common
Present(rw, k) == rw[k].ver # 0
Visible(rw, k) == rw[k].ver \in 1 .. MaxVersion
KeysIn(c) == {k \in Key : ChatOf[k] = c}

TypeOK ==
    /\ rev \in 0 .. MaxRevision
    /\ rows \in [Key -> RowType]
    /\ gd \in [Id -> Nat]
    /\ gens \in [Req -> Nat]
    /\ status \in [Req -> {"idle", "sent", "answered"}]
    /\ page \in [Req -> [Key -> 0 .. MaxVersion]]
    /\ srv \in [Key -> 0 .. Gone]
    /\ told \in [Key -> 0 .. Gone]
    /\ forgot \in [Key -> Nat]

Init ==
    /\ rev = 0
    /\ rows = [k \in Key |-> NoRow]
    /\ gd = [i \in Id |-> 0]
    /\ gens = [r \in Req |-> 0]
    /\ status = [r \in Req |-> "idle"]
    /\ page = [r \in Req |-> EmptyPage]
    /\ srv = [k \in Key |-> 0]
    /\ told = [k \in Key |-> 0]
    /\ forgot = [k \in Key |-> 0]

-----------------------------------------------------------------------------
(* Mutant: the revision of the row is not compared with the request's. *)
RefusedIfDeleted(k, started) ==
    \/ IsCommon(k) /\ gd[IdOf[k]] # 0
    \/ rows[k].ver = Gone

(* write_message refuses deleted messages and rows newer than the request. *)
Refused(k, started) ==
    \/ IsCommon(k) /\ gd[IdOf[k]] # 0
    \/ rows[k].ver = Gone
    \/ rows[k].rev > started

Written(k, v, started, via) ==
    IF Refused(k, started) THEN rows[k]
                           ELSE [ver |-> v, rev |-> rev + 1, via |-> via]

(* prune_chat_messages keeps the rows with the highest ids of a chat. *)
Above(rw, k) ==
    {j \in Key : ChatOf[j] = ChatOf[k] /\ IdOf[j] > IdOf[k] /\ Present(rw, j)}

Dropped(rw, c) ==
    {k \in KeysIn(c) : Present(rw, k) /\ Cardinality(Above(rw, k)) >= MaxChat}

(***************************************************************************)
(* The end of apply.  Every deletion an unfinished request could still     *)
(* contradict is kept; of the older ones, the MaxDeletions latest are.     *)
(***************************************************************************)
Later(g, i) == {j \in Id : g[j] > g[i] \/ (g[j] = g[i] /\ j > i)}

(* Mutant: deletions are trimmed whatever is in flight. *)
ObsoleteAtOnce(g, gs, i) ==
    /\ g[i] <= rev
    /\ Cardinality(Later(g, i)) >= MaxDeletions

Obsolete(g, gs, i) ==
    /\ g[i] <= rev
    /\ \A r \in Req : gs[r] # 0 => g[i] < gs[r]
    /\ Cardinality(Later(g, i)) >= MaxDeletions

Commit(rw, g, gs) ==
    /\ rev' = rev + 1
    /\ rows' = rw
    /\ gd' = [i \in Id |-> IF Obsolete(g, gs, i) THEN 0 ELSE g[i]]
    /\ gens' = gs

(* Commit of a handler that ends in prune_chat_messages(c). *)
CommitPruned(rw, c, g, gs) ==
    LET out == Dropped(rw, c) IN
    /\ Commit([k \in Key |-> IF k \in out THEN NoRow ELSE rw[k]], g, gs)
    /\ forgot' = [k \in Key |-> IF k \in out THEN rev + 1 ELSE forgot[k]]

Room == rev < MaxRevision
(* Mutant: a finished request leaves its generation behind. *)
RetiredNever(r) == gens

Retired(r) == [gens EXCEPT ![r] = 0]
Freed(r) ==
    /\ status' = [status EXCEPT ![r] = "idle"]
    /\ page' = [page EXCEPT ![r] = EmptyPage]

-----------------------------------------------------------------------------
(* The server: contents change and messages disappear at any time. *)
ServerWrites(k) ==
    /\ srv[k] < MaxVersion
    /\ srv' = [srv EXCEPT ![k] = @ + 1]
    /\ UNCHANGED <<rev, rows, gd, gens, status, page, told, forgot>>

ServerDeletes(k) ==
    /\ srv[k] \in 1 .. MaxVersion
    /\ srv' = [srv EXCEPT ![k] = Gone]
    /\ UNCHANGED <<rev, rows, gd, gens, status, page, told, forgot>>

-----------------------------------------------------------------------------
(***************************************************************************)
(* Events of the update stream.  The stream never goes back for a message  *)
(* but may skip states (a difference) or repeat the last one (a replay).   *)
(***************************************************************************)

(* NewMessage, CacheMessage, MessageUpdated. *)
LiveMessage(k, v) ==
    /\ Room
    /\ v \in told[k] .. srv[k] /\ v \in 1 .. MaxVersion
    /\ told' = [told EXCEPT ![k] = v]
    /\ Commit([rows EXCEPT ![k] = Written(k, v, rev + 1, "live")], gd, gens)
    /\ UNCHANGED <<status, page, srv, forgot>>

Tombstone == [ver |-> Gone, rev |-> rev + 1, via |-> "live"]

(* MessagesDeleted of a channel: a tombstone row each, known or not. *)
DeletedInChannel(D) ==
    [k \in Key |-> IF k \in D THEN Tombstone ELSE rows[k]]

(* MessagesDeleted elsewhere: rows are emptied, ids are remembered. *)
DeletedInCommon(D) ==
    [k \in Key |-> IF k \in D /\ Present(rows, k) THEN Tombstone ELSE rows[k]]

Deletions(D) ==
    [i \in Id |-> IF \E k \in D : IdOf[k] = i THEN rev + 1 ELSE gd[i]]

MessagesDeleted(D) ==
    /\ Room
    /\ D # {} /\ \A k \in D : srv[k] = Gone
    /\ told' = [k \in Key |-> IF k \in D THEN Gone ELSE told[k]]
    /\ \/ /\ \E c \in Channel : D \subseteq KeysIn(c)
          /\ Commit(DeletedInChannel(D), gd, gens)
       \/ /\ \A k \in D : IsCommon(k)
          /\ Commit(DeletedInCommon(D), Deletions(D), gens)
    /\ UNCHANGED <<status, page, srv, forgot>>

(* MessagesRead, MessageContentsRead, MessagePinsChanged, MessagePinsCleared
   change marks of cached messages, which are not part of the version. *)
Marked(rw, S) ==
    [k \in Key |-> IF k \in S THEN [rw[k] EXCEPT !.rev = rev + 1] ELSE rw[k]]

MarksChanged(S) ==
    /\ Room
    /\ S # {} /\ \A k \in S : Visible(rows, k)
    /\ Commit(Marked(rows, S), gd, gens)
    /\ UNCHANGED <<status, page, server, forgot>>

(* Mutant: the generations of requests in flight survive the invalidation. *)
InvalidatedRowsOnly(C) ==
    /\ Room
    /\ Commit([k \in Key |-> IF ChatOf[k] \in C THEN NoRow ELSE rows[k]], gd, gens)
    /\ UNCHANGED <<status, page, server, forgot>>

(* CacheInvalidated: PtsChanged names no chat, ChannelTooLong one channel.
   global_deletions survives, tombstones of channels do not. *)
Invalidated(C) ==
    /\ Room
    /\ Commit([k \in Key |-> IF ChatOf[k] \in C THEN NoRow ELSE rows[k]], gd,
              [r \in Req |-> IF TargetOf[r] \in C THEN 0 ELSE gens[r]])
    /\ UNCHANGED <<status, page, server, forgot>>

CacheInvalidated ==
    \/ Invalidated(Chat)
    \/ \E c \in Channel : Invalidated({c})

-----------------------------------------------------------------------------
(* Requests.  The Loading event precedes the RPC, so that its number is
   older than every update that arrives while the RPC runs. *)
StartRequest(r) ==
    /\ Room
    /\ KindOf[r] \in {"page", "pins", "load"} /\ status[r] = "idle"
    /\ status' = [status EXCEPT ![r] = "sent"]
    /\ Commit(rows, gd, [gens EXCEPT ![r] = rev + 1])
    /\ UNCHANGED <<page, server, forgot>>

(* A send or an edit announces nothing. *)
StartDirect(r) ==
    /\ KindOf[r] = "direct" /\ status[r] = "idle"
    /\ status' = [status EXCEPT ![r] = "sent"]
    /\ UNCHANGED <<rev, tables, gens, page, server>>

(* A new cloud search aborts the one before it: search_revision has room
   for one, and the aborted task never answers. *)
Searches == {r \in Req : KindOf[r] = "search"}

StartSearch(r) ==
    /\ Room
    /\ KindOf[r] = "search" /\ status[r] = "idle"
    /\ status' = [q \in Req |-> IF q = r THEN "sent"
                                ELSE IF q \in Searches THEN "idle" ELSE status[q]]
    /\ page' = [q \in Req |-> IF q \in Searches THEN EmptyPage ELSE page[q]]
    /\ Commit(rows, gd, [q \in Req |-> IF q = r THEN rev + 1
                                       ELSE IF q \in Searches THEN 0 ELSE gens[q]])
    /\ UNCHANGED <<server, forgot>>

(* CancelSearch *)
CancelSearch(r) ==
    /\ Room
    /\ KindOf[r] = "search" /\ status[r] # "idle"
    /\ Freed(r)
    /\ Commit(rows, gd, Retired(r))
    /\ UNCHANGED <<server, forgot>>

(* Mutant: deleted messages of the answer are not left out. *)
ServerAnswersDeleted(r, S) ==
    /\ status[r] = "sent"
    /\ S \subseteq KeysIn(TargetOf[r]) /\ \A k \in S : srv[k] # 0
    /\ KindOf[r] = "load" => Cardinality(S) = 1
    /\ KindOf[r] # "direct"
    /\ status' = [status EXCEPT ![r] = "answered"]
    /\ page' = [page EXCEPT ![r] = [k \in Key |-> IF k \in S THEN srv[k] ELSE 0]]
    /\ UNCHANGED <<rev, tables, gens, server>>

(* The server answers with messages of the chat as they are now. *)
ServerAnswers(r, S) ==
    /\ status[r] = "sent"
    /\ S \subseteq KeysIn(TargetOf[r]) /\ \A k \in S : srv[k] \in 1 .. MaxVersion
    /\ KindOf[r] = "load" => Cardinality(S) = 1
    /\ KindOf[r] # "direct"
    /\ status' = [status EXCEPT ![r] = "answered"]
    /\ page' = [page EXCEPT ![r] = [k \in Key |-> IF k \in S THEN srv[k] ELSE 0]]
    /\ UNCHANGED <<rev, tables, gens, server>>

(* A send creates a message, an edit its next contents. *)
ServerAccepts(r, k) ==
    /\ KindOf[r] = "direct" /\ status[r] = "sent"
    /\ ChatOf[k] = TargetOf[r] /\ srv[k] < MaxVersion
    /\ srv' = [srv EXCEPT ![k] = @ + 1]
    /\ status' = [status EXCEPT ![r] = "answered"]
    /\ page' = [page EXCEPT ![r] = [EmptyPage EXCEPT ![k] = srv[k] + 1]]
    /\ UNCHANGED <<rev, tables, gens, told>>

(* History, OlderHistory, ReplyPreviews, PinnedContext, CloudSearchResults,
   CloudSearchContext: nothing without the generation of the request. *)
Filled(r, started, via) ==
    [k \in Key |-> IF page[r][k] = 0 THEN rows[k]
                                     ELSE Written(k, page[r][k], started, via)]

(* The UPDATE of PinnedMessages also touches rows the answer left out. *)
Unpinnable(rw, r, S) ==
    \A k \in S : /\ KindOf[r] = "pins" /\ ChatOf[k] = TargetOf[r]
                 /\ Visible(rw, k) /\ rw[k].rev <= gens[r]

PageArrives(r, S) ==
    /\ Room
    /\ KindOf[r] \in {"page", "pins", "search"} /\ status[r] = "answered"
    /\ gens[r] # 0
    /\ LET filled == Filled(r, gens[r], "page") IN
       /\ Unpinnable(filled, r, S)
       /\ CommitPruned(Marked(filled, S), TargetOf[r], gd, Retired(r))
    /\ Freed(r)
    /\ UNCHANGED server

StalePageArrives(r) ==
    /\ Room
    /\ KindOf[r] \in {"page", "pins", "search"} /\ status[r] = "answered"
    /\ gens[r] = 0
    /\ Commit(rows, gd, gens)
    /\ Freed(r)
    /\ UNCHANGED <<server, forgot>>

(* MessageLoaded: without a generation it is written as a live message is.
   The ghost marks what neither a generation nor a row could judge. *)
LoadStarted(r) == IF gens[r] # 0 THEN gens[r] ELSE rev + 1

LoadVia(r, k) == IF gens[r] # 0 /\ forgot[k] < gens[r] THEN "load" ELSE "stray"

MessageLoaded(r, k) ==
    /\ Room
    /\ KindOf[r] = "load" /\ status[r] = "answered" /\ page[r][k] # 0
    /\ Commit([rows EXCEPT ![k] = Written(k, page[r][k], LoadStarted(r), LoadVia(r, k))],
              gd, Retired(r))
    /\ Freed(r)
    /\ UNCHANGED <<server, forgot>>

(* MessageSent, and MessageUpdated after EditMessage. *)
DirectArrives(r, k) ==
    /\ Room
    /\ KindOf[r] = "direct" /\ status[r] = "answered" /\ page[r][k] # 0
    /\ Commit([rows EXCEPT ![k] = Written(k, page[r][k], rev + 1, "stray")], gd, gens)
    /\ Freed(r)
    /\ UNCHANGED <<server, forgot>>

(* HistoryFailed, OlderHistoryFailed, MessageLoadFailed, ReplyPreviewsFailed,
   PinnedMessagesFailed, SearchFailed; MessageFailed carries no generation. *)
RequestFails(r) ==
    /\ Room
    /\ status[r] # "idle"
    /\ Freed(r)
    /\ Commit(rows, gd, Retired(r))
    /\ UNCHANGED <<server, forgot>>

-----------------------------------------------------------------------------
(* The program ends, in any way, and is started again on the same file. *)
Restart ==
    /\ gens' = [r \in Req |-> 0]
    /\ status' = [r \in Req |-> "idle"]
    /\ page' = [r \in Req |-> EmptyPage]
    /\ UNCHANGED <<rev, tables, server>>

(* CacheAccountReset: the session belongs to another account, found before
   the worker has sent any request; srv and told become that account's. *)
AccountReset ==
    /\ Room
    /\ \A r \in Req : status[r] = "idle"
    /\ rev' = rev + 1
    /\ rows' = [k \in Key |-> NoRow]
    /\ gd' = [i \in Id |-> 0]
    /\ gens' = [r \in Req |-> 0]
    /\ srv' = [k \in Key |-> 0]
    /\ told' = [k \in Key |-> 0]
    /\ forgot' = [k \in Key |-> 0]
    /\ UNCHANGED <<status, page>>

StreamStep ==
    \/ \E k \in Key : \E v \in 1 .. MaxVersion : LiveMessage(k, v)
    \/ \E D \in SUBSET Key : MessagesDeleted(D)
    \/ \E S \in SUBSET Key : MarksChanged(S)
    \/ CacheInvalidated

RequestStep(r) ==
    \/ StartRequest(r) \/ StartDirect(r) \/ StartSearch(r) \/ CancelSearch(r)
    \/ \E S \in SUBSET Key : ServerAnswers(r, S) \/ PageArrives(r, S)
    \/ StalePageArrives(r)
    \/ \E k \in Key : ServerAccepts(r, k) \/ MessageLoaded(r, k) \/ DirectArrives(r, k)
    \/ RequestFails(r)

Next ==
    \/ \E k \in Key : ServerWrites(k) \/ ServerDeletes(k)
    \/ StreamStep
    \/ \E r \in Req : RequestStep(r)
    \/ Restart
    \/ AccountReset

Spec == Init /\ [][Next]_vars

-----------------------------------------------------------------------------
(***************************************************************************)
(* No answer undoes what the update stream already said: a message shown   *)
(* from the cache is not deleted, nor older than its latest edit, unless   *)
(* it was written without a generation or after pruning had dropped the    *)
(* row that would have refused it.                                         *)
(***************************************************************************)
SnapshotsNeverUndo ==
    \A k \in Key : Visible(rows, k) /\ rows[k].via # "stray" => rows[k].ver >= told[k]

(* The claim without the exemption, as docs/wiki/en/Development.md words it:
   "In-flight snapshots cannot restore deleted messages or overwrite newer
   edits". *)
LoadsNeverUndo ==
    \A k \in Key : Visible(rows, k) => rows[k].ver >= told[k]

(* A finished or failed request leaves no generation behind: an event applied
   with nothing in flight leaves at most MaxDeletions deletions of earlier
   events remembered. *)
Remembered == {i \in Id : gd[i] # 0 /\ gd[i] < rev}

DeletionsBounded ==
    [][rev' > rev /\ (\A r \in Req : status'[r] = "idle")
         => Cardinality(Remembered') <= MaxDeletions]_vars
=============================================================================
