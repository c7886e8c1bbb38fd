------------------------------ MODULE Transcript ------------------------------
(***************************************************************************)
(* The messages the terminal shows of one chat (app.rs, app/reads.rs): the *)
(* updates that arrive one by one, the pages of the history that answer    *)
(* requests, cached or from Telegram, and the window between them that is  *)
(* kept when the user reads forward from the first unread message.         *)
(*                                                                         *)
(* Messages are numbered from 1 in the order of their posting. A version   *)
(* is 1 when posted, 2 once edited, Gone once deleted. Local messages are  *)
(* in Outbox; the selection and what it keeps on the screen are left out.  *)
(***************************************************************************)
EXTENDS Integers, Sequences, FiniteSets, FiniteSetsExt, Functions

CONSTANTS PageSize,    \* HISTORY_LIMIT
          Capacity,    \* MAX_MESSAGES_PER_CHAT
          MaxPosts,    \* bound: messages of the chat
          MaxChanges,  \* bound: edits and deletions
          MaxLosses    \* bound: gaps in the updates

ASSUME TranscriptAssumption ==
    /\ Capacity \in Nat \ {0} /\ PageSize \in 1 .. Capacity /\ MaxPosts \in Nat

VARIABLES
    log,       \* what happened in the chat at Telegram: <<message, version>>
    seen,      \* how much of it the updates have told the terminal
    messages,  \* App.messages of the chat: message to version
    lastId,    \* Chat.last_message_id (0: none)
    readUpTo,  \* Chat.read_inbox_max_id
    open,      \* active_chat_id is the chat
    history,   \* active_history_request: its kind, its boundary, what it answers at least
    older,     \* older_motion
    changes,   \* history_changes: message to version
    entry,     \* reads.entry
    forward,   \* reads.forward: the last message of the window (0: the latest)
    paging,    \* reads.paging
    browsing,  \* browsing_older
    loading,   \* loading_history
    losses,
    \* Ghosts.
    blind,     \* a gap cleared the chat, or a window was closed without knowing the last
               \* message
    crossed,   \* a gap came while an older page was being loaded or a window was open
    gaveWay    \* the unread messages that gave way to newer ones

readsVars == <<entry, forward, paging>>
ghosts == <<blind, crossed, gaveWay>>
requestVars == <<history, older, changes, loading>>
transcriptVars == <<log, seen, messages, lastId, readUpTo, open, requestVars, readsVars,
                    browsing, losses, ghosts>>

Gone == 3
Message == 1 .. MaxPosts

\* The versions after the first p entries of the log; 0: not posted yet.
At(p) == [m \in Message |->
            LET of == {i \in 1 .. p : log[i][1] = m} IN
            IF of = {} THEN 0 ELSE log[Max(of)][2]]
Alive(versions) == {m \in DOMAIN versions : versions[m] \in {1, 2}}
Posted == Cardinality({i \in DOMAIN log : log[i][2] = 1})

NoMessages == [m \in {} |-> 0]
NoRequest == [kind |-> "none", of |-> 0, from |-> 0, cached |-> FALSE]
NoUnreadEntry == [boundary |-> -1, confirmed |-> FALSE]

\* Mutant: the oldest stay.
CappedNever(f) == f

\* upsert_message, sort_and_cap_messages: the oldest give way.
Capped(f) == Restrict(f, {m \in DOMAIN f : Cardinality({k \in DOMAIN f : k > m}) < Capacity})
Upsert(f, m, version) ==
    Capped([k \in DOMAIN f \cup {m} |-> IF k = m THEN version ELSE f[k]])
Overlaid(f, g) == [m \in DOMAIN f \cup DOMAIN g |-> IF m \in DOMAIN g THEN g[m] ELSE f[m]]

TranscriptInit ==
    /\ \E k \in 0 .. MaxPosts : log = [i \in 1 .. k |-> <<i, 1>>]
    /\ seen = Len(log)
    /\ messages = NoMessages
    /\ lastId = Len(log) /\ readUpTo \in 0 .. Len(log)
    /\ open = FALSE
    /\ history = NoRequest /\ older = NoRequest /\ changes = NoMessages
    /\ loading = FALSE /\ browsing = FALSE
    /\ entry = NoUnreadEntry /\ forward = 0 /\ paging = FALSE
    /\ losses = 0 /\ blind = FALSE /\ crossed = FALSE /\ gaveWay = {}

-------------------------------------------------------------------------------
(* The chat at Telegram. *)

Posts ==
    /\ Posted < MaxPosts
    /\ log' = Append(log, <<Posted + 1, 1>>)
    /\ UNCHANGED <<seen, messages, lastId, readUpTo, open, requestVars, readsVars, browsing,
                   losses, ghosts>>

ChatChanges(m, version) ==
    /\ Len(log) - Posted < MaxChanges
    /\ At(Len(log))[m] \in 1 .. version - 1
    /\ log' = Append(log, <<m, version>>)
    /\ UNCHANGED <<seen, messages, lastId, readUpTo, open, requestVars, readsVars, browsing,
                   losses, ghosts>>

-------------------------------------------------------------------------------
(* Updates. *)

\* Mutant: only a history request is tracked, not the loading of an older page.
TracksHistoryOnly(m, version) ==
    changes' = IF history # NoRequest
               THEN [k \in DOMAIN changes \cup {m} |-> IF k = m THEN version ELSE changes[k]]
               ELSE changes

\* track_snapshot_changes.
TracksChange(m, version) ==
    changes' = IF history # NoRequest \/ older # NoRequest
               THEN [k \in DOMAIN changes \cup {m} |-> IF k = m THEN version ELSE changes[k]]
               ELSE changes

Outside(m) == forward # 0 /\ m > forward

\* NewMessage: receive_message.
Receives(m) ==
    /\ messages' = IF open /\ Outside(m) THEN messages ELSE Upsert(messages, m, 1)
    /\ lastId' = IF m >= lastId THEN m ELSE lastId

\* MessageUpdated: update_message, which shows a message that was not there.
Updates(m) ==
    /\ messages' = IF Outside(m) THEN messages ELSE Upsert(messages, m, 2)
    /\ UNCHANGED lastId

\* MessagesDeleted: remove_deleted_messages.
Removes(m) ==
    /\ messages' = Restrict(messages, DOMAIN messages \ {m})
    /\ lastId' = IF lastId = m THEN 0 ELSE lastId

\* Ghost: of what was there, the unread messages that the bound leaves out.
GiveWay(there) ==
    gaveWay' = IF entry'.confirmed
               THEN gaveWay \cup {m \in there : m > entry.boundary /\ m \notin DOMAIN messages'}
               ELSE {}

TellsNext ==
    /\ seen < Len(log)
    /\ seen' = seen + 1
    /\ UNCHANGED <<log, readUpTo, open, history, older, loading, readsVars, browsing,
                   losses, blind, crossed>>
    /\ LET m == log[seen'][1]
           version == log[seen'][2]
       IN /\ TracksChange(m, version)
          /\ version = 1 => Receives(m)
          /\ version = 2 => Updates(m)
          /\ version = Gone => Removes(m)
          /\ GiveWay(DOMAIN messages \cup (IF Outside(m) THEN {} ELSE {m}))

\* CacheInvalidated, after a gap: what happened in it is never told.
GapClears ==
    /\ losses < MaxLosses /\ losses' = losses + 1
    /\ seen' = Len(log)
    /\ messages' = NoMessages
    /\ IF open
       THEN /\ history' = [kind |-> "latest", of |-> 0, from |-> Len(log), cached |-> FALSE]
            /\ changes' = NoMessages /\ loading' = TRUE
       ELSE UNCHANGED <<history, changes, loading>>
    /\ blind' = TRUE /\ crossed' = (crossed \/ older # NoRequest \/ forward # 0)
    /\ gaveWay' = {}
    /\ UNCHANGED <<log, lastId, readUpTo, open, older, readsVars, browsing>>

-------------------------------------------------------------------------------
(* Requests of the user. *)

\* open_selected_chat, open_resolved_link: also what "latest" does while browsing.
OpenChat ==
    /\ open' = TRUE
    /\ history' = [kind |-> "latest", of |-> 0, from |-> seen, cached |-> FALSE]
    /\ older' = NoRequest /\ changes' = NoMessages
    /\ loading' = TRUE /\ browsing' = FALSE
    /\ entry' = NoUnreadEntry /\ forward' = 0 /\ paging' = FALSE
    /\ blind' = FALSE /\ gaveWay' = {}
    /\ UNCHANGED <<log, seen, messages, lastId, readUpTo, losses, crossed>>

\* Another chat is opened; this one goes on receiving updates.
OpenAnother ==
    /\ open /\ open' = FALSE
    /\ history' = NoRequest /\ older' = NoRequest /\ changes' = NoMessages
    /\ browsing' = FALSE
    /\ entry' = NoUnreadEntry /\ forward' = 0 /\ paging' = FALSE
    /\ blind' = FALSE /\ gaveWay' = {}
    /\ UNCHANGED <<log, seen, messages, lastId, readUpTo, loading, losses, crossed>>

\* first_unread, prepare_unread_entry.
FirstUnread ==
    /\ open
    /\ \E m \in Alive(At(seen)) : m > readUpTo
    /\ lastId = 0 \/ lastId > readUpTo
    /\ history' = [kind |-> "after", of |-> readUpTo, from |-> seen, cached |-> FALSE]
    /\ older' = NoRequest /\ changes' = NoMessages
    /\ loading' = TRUE /\ browsing' = FALSE
    /\ entry' = [boundary |-> readUpTo, confirmed |-> FALSE]
    /\ forward' = 0 /\ paging' = FALSE
    /\ blind' = FALSE /\ gaveWay' = {}
    /\ UNCHANGED <<log, seen, messages, lastId, readUpTo, open, losses, crossed>>

\* reach_bottom, next_unread_page.
NextUnreadPage ==
    /\ open /\ forward # 0 /\ ~loading
    /\ history' = [kind |-> "after", of |-> forward, from |-> seen, cached |-> FALSE]
    /\ older' = NoRequest
    /\ paging' = TRUE /\ loading' = TRUE /\ changes' = NoMessages
    /\ UNCHANGED <<log, seen, messages, lastId, readUpTo, open, entry, forward, browsing,
                   losses, ghosts>>

\* move_messages_up beyond the first message.
MoveAbove ==
    /\ open /\ messages # NoMessages
    /\ history' = NoRequest /\ changes' = NoMessages
    /\ older' = [kind |-> "older", of |-> Min(DOMAIN messages), from |-> seen,
                 cached |-> FALSE]
    /\ UNCHANGED <<log, seen, messages, lastId, readUpTo, open, loading, readsVars,
                   browsing, losses, ghosts>>

\* Any other key or click.
KeyCancelsOlder ==
    /\ older # NoRequest
    /\ older' = NoRequest
    /\ UNCHANGED <<log, seen, messages, lastId, readUpTo, open, history, changes, loading,
                   readsVars, browsing, losses, ghosts>>

-------------------------------------------------------------------------------
(* Answers.  Telegram answers with its state at some moment after the request; the
   cache, with one that is not behind what it has handed on.  It answers for an older
   page only if it knows that page to be complete (older_page). *)

Newest(set) == {m \in set : Cardinality({k \in set : k > m}) < PageSize}
Oldest(set) == {m \in set : Cardinality({k \in set : k < m}) < PageSize}
Chosen(request, set) ==
    CASE request.kind = "latest" -> Newest(set)
      [] request.kind = "after"  -> Oldest({m \in set : m > request.of})
      [] request.kind = "older"  -> Newest({m \in set : m < request.of})
PageAt(request, p) == Restrict(At(p), Chosen(request, Alive(At(p))))

Positioned(confirmed) ==
    entry' = IF entry # NoUnreadEntry /\ ~entry.confirmed
             THEN [entry EXCEPT !.confirmed = confirmed] ELSE entry

\* CachedHistory: the cache may hold any of the messages.
CachedHistoryArrives(p, rows) ==
    /\ history # NoRequest /\ ~history.cached /\ ~paging
    /\ p >= seen /\ rows \subseteq Alive(At(p))
    /\ LET page == Restrict(At(p), Chosen(history, rows)) IN
        page # NoMessages /\ messages' = page
    /\ history' = [history EXCEPT !.cached = TRUE]
    /\ UNCHANGED <<log, seen, lastId, readUpTo, open, older, changes, loading, readsVars,
                   browsing, losses, ghosts>>

\* Mutant: a full page is taken for the end if it holds the last message shown.
EndsTooEarly(page, last) ==
    IF lastId > last + 1 /\ Cardinality(DOMAIN page) >= PageSize THEN last ELSE 0

\* Where the window ends: at a full page with more after it.
WindowEnd(page, last) ==
    IF lastId > last /\ Cardinality(DOMAIN page) >= PageSize THEN last ELSE 0

\* finish_history, of a page.
HistoryPage(p) ==
    /\ history # NoRequest /\ p >= history.from
    /\ LET page == PageAt(history, p)
           last == IF page = NoMessages THEN 0 ELSE Max(DOMAIN page)
           isForward == paging \/ (entry # NoUnreadEntry /\ ~entry.confirmed)
           end == IF ~isForward THEN forward
                  ELSE IF last = 0 THEN 0 ELSE WindowEnd(page, last)
           live == {m \in Alive(changes) : end = 0 \/ m <= end}
           lifted == Overlaid(Restrict(page, DOMAIN page \ DOMAIN changes),
                              Restrict(changes, live))
           kept == Restrict(messages, {m \in DOMAIN messages :
                                        ~(m \in DOMAIN changes /\ changes[m] = Gone)})
       IN /\ forward' = end
          /\ blind' = (blind \/ (isForward /\ lastId # Max(Alive(At(seen)) \cup {0})))
          /\ browsing' = IF isForward THEN end # 0 ELSE browsing
          /\ messages' = Capped(IF paging THEN Overlaid(kept, lifted) ELSE lifted)
          /\ IF paging THEN UNCHANGED entry ELSE Positioned(TRUE)
          /\ GiveWay(DOMAIN lifted \cup (IF paging THEN DOMAIN kept ELSE {}))
    /\ history' = NoRequest /\ changes' = NoMessages /\ paging' = FALSE /\ loading' = FALSE
    /\ UNCHANGED <<log, seen, lastId, readUpTo, open, older, losses,
                   crossed>>

\* finish_history, of an error.
HistoryFailed ==
    /\ history # NoRequest
    /\ history' = NoRequest /\ changes' = NoMessages /\ paging' = FALSE /\ loading' = FALSE
    /\ UNCHANGED <<log, seen, messages, lastId, readUpTo, open, older, entry, forward,
                   browsing, losses, ghosts>>

\* finish_older: the newest give way, and the window ends where they do.
OlderPage(p) ==
    /\ older # NoRequest /\ p >= older.from
    /\ LET page == PageAt(older, p)
           here == {m \in DOMAIN page : ~(m \in DOMAIN changes /\ changes[m] = Gone)}
           lifted == Overlaid(Restrict(page, here),
                              Restrict(changes, here \cap DOMAIN changes))
           both == Overlaid(messages, lifted)
           combined == Restrict(both, {m \in DOMAIN both :
                            Cardinality({k \in DOMAIN both : k < m}) < Capacity})
       IN IF here = {}
          THEN UNCHANGED <<messages, forward, browsing, loading>>
          ELSE /\ messages' = combined
               /\ forward' = IF entry # NoUnreadEntry \/ forward # 0 THEN Max(DOMAIN combined)
                             ELSE forward
               /\ browsing' = TRUE /\ loading' = FALSE
    /\ older' = NoRequest
    /\ UNCHANGED <<log, seen, lastId, readUpTo, open, history, changes, entry, paging, losses,
                   ghosts>>

OlderFailed ==
    /\ older # NoRequest
    /\ older' = NoRequest
    /\ UNCHANGED <<log, seen, messages, lastId, readUpTo, open, history, changes, loading,
                   readsVars, browsing, losses, ghosts>>

TranscriptNext ==
    \/ Posts
    \/ \E m \in Message, version \in {2, Gone} : ChatChanges(m, version)
    \/ TellsNext
    \/ GapClears
    \/ OpenChat \/ OpenAnother \/ FirstUnread \/ NextUnreadPage \/ MoveAbove
    \/ KeyCancelsOlder
    \/ \E p \in 0 .. Len(log) :
        \/ \E rows \in SUBSET Message : CachedHistoryArrives(p, rows)
        \/ HistoryPage(p)
        \/ OlderPage(p)
    \/ HistoryFailed \/ OlderFailed

TranscriptSpec == TranscriptInit /\ [][TranscriptNext]_transcriptVars

-------------------------------------------------------------------------------
TranscriptType ==
    /\ seen \in 0 .. Len(log)
    /\ DOMAIN messages \subseteq Message /\ Cardinality(DOMAIN messages) <= Capacity
    /\ lastId \in 0 .. MaxPosts /\ forward \in 0 .. MaxPosts

(* No page shows again what was deleted nor undoes an edit: whatever answers meanwhile,
   a message on the screen is the one the updates told of last, or a later one. The
   exception is a gap: it keeps the request of an older page, whose answer may lack what
   the gap held, and the end of the window, behind which no edit is shown. *)
PagesNeverUndo ==
    ~crossed =>
        \A m \in DOMAIN messages : At(seen)[m] <= messages[m] /\ messages[m] # Gone

(* Reading forward from the first unread message skips nothing: what the terminal was
   told of and what still stands is on the screen, comes after the window, or gave way
   to newer messages for want of room. *)
NothingUnreadSkipped ==
    (open /\ entry.confirmed /\ history = NoRequest /\ ~blind) =>
        \A m \in Alive(At(seen)) \cap Alive(At(Len(log))) :
            m > entry.boundary => m \in DOMAIN messages \/ Outside(m) \/ m \in gaveWay

(* Pages of the history neither undo what the updates said nor skip what is unread. *)
PagesFit == PagesNeverUndo /\ NothingUnreadSkipped
===============================================================================
