----------------------------- MODULE Navigation -----------------------------
(* The chat list and what leads through it: folders, pins, the filter and the      *)
(* cursor, the chat that is open, overlays, the command line, Telegram links and    *)
(* the refresh that replaces the list (app.rs, app/composition.rs, app/pins.rs,     *)
(* app/commands.rs, folders.rs). A dialog is the number of a chat; what becomes of  *)
(* messages, drafts and reviews is in other modules.                                *)
EXTENDS Naturals, FiniteSets

CONSTANTS
    Dialogs,      \* how many chats there are
    Overlay,      \* Help, Settings and Accounts of App.mode
    Pinnable,     \* the pin positions; the number after the last is that of no pin
    MaxHappened,  \* bound: what happens at Telegram
    MaxActs       \* bound: what the user does

ASSUME NavigationAssumption ==
    /\ Dialogs \in Nat /\ Pinnable \in Nat
    /\ Overlay \subseteq {"help", "settings", "accounts"}

VARIABLES
    chats,       \* App.chats; their order only breaks ties
    activity,    \* last_activity of a listed chat, the newest known message of another
    archived,    \* the listed chats with membership.archived
    custom,      \* what the rules of the user's own folder let in
    pins,        \* App.pins.dialogs and Folder.pinned
    folders,     \* App.folders
    folder,      \* App.folder_id
    matched,     \* what App.filter matches; one that matches everything counts as empty
    selected,    \* App.selected_chat
    active,      \* App.active_chat_id
    focus, mode, \* App.focus and App.mode
    before,      \* App.mode_before_help, mode_before_settings, mode_before_accounts
    remembered,  \* the account's chat in App.navigation
    origin,      \* App.commands.origin
    link,        \* App.pending_telegram_link, by the chat it leads to
    resolves,    \* links the worker resolves
    changing,    \* App.pins.pending_dialog: a change of pins or the archive is asked for
    refreshing,  \* App.refresh_dialogs_pending
    changed,     \* App.changed_dialogs
    linked,      \* App.linked_chat_ids
    due,         \* a refresh is asked for, or dialogs.dirty
    load,        \* the refresh in flight: where it is and what it read
    held, posted, inArchive,  \* at Telegram: the dialogs, their last message, the archive
    happened, acts         \* bounded

listVars == <<chats, activity, archived, custom, pins, folders>>
viewVars == <<folder, matched, selected>>
paneVars == <<active, focus, mode, before, remembered>>
refreshVars == <<refreshing, changed, linked, due, load>>
heldVars == <<held, posted, inArchive>>
navigationVars == <<listVars, viewVars, paneVars, origin, link, resolves, changing,
                    refreshVars, heldVars, happened, acts>>

Dialog == 1..Dialogs
NoDialog == 0
Folder == {"main", "archive", "custom"}
Mode == Overlay \cup {"navigate", "compose", "filter", "command", "status"}
NoOrigin == [focus |-> "chats", folder |-> "main", chat |-> NoDialog, conversation |-> NoDialog]
Pinning == [Dialog -> 0..Pinnable]

-------------------------------------------------------------------------------
(* The list as it is shown, and the cursor, which is a position in it. *)

\* Folder::contains
FolderHas(f, c) ==
    \/ f = "main" /\ c \notin archived
    \/ f = "archive" /\ c \in archived
    \/ f = "custom" /\ (c \in custom \/ pins[f][c] # Pinnable)

\* filtered_chat_indices: a folder that is not there holds everything.
Shown == {c \in chats \cap matched : folder \in folders => FolderHas(folder, c)}

Precedes(c, d) ==
    \/ pins[folder][c] < pins[folder][d]
    \/ /\ pins[folder][c] = pins[folder][d]
       /\ activity[c] > activity[d] \/ (activity[c] = activity[d] /\ c < d)

Position(c) == Cardinality({d \in Shown : Precedes(d, c)})
LastPosition == IF Shown = {} THEN 0 ELSE Cardinality(Shown) - 1
Lower(i, j) == IF i < j THEN i ELSE j

\* selected_chat_entry
UnderCursor(c) == c \in Shown /\ Position(c) = selected
Entry == IF \E c \in Shown : UnderCursor(c) THEN CHOOSE c \in Shown : UnderCursor(c) ELSE NoDialog

\* preserve_chat_selection
Clamps == selected' = Lower(selected, LastPosition')
Follows(c) == IF c \in Shown' THEN selected' = Position(c)' ELSE Clamps

CursorStays == \E c \in {Entry} : Follows(c)

\* The cursor of receive_message and replace_dialogs.
StaysOrTop == \E c \in {Entry} : selected' = IF c \in Shown' THEN Position(c)' ELSE 0

NavigationInit ==
    /\ chats = {} /\ archived = {} /\ custom = {}
    /\ activity = [c \in Dialog |-> 0]
    /\ pins = [f \in Folder |-> [c \in Dialog |-> Pinnable]]
    /\ folders = {"main"} /\ folder = "main" /\ matched = Dialog /\ selected = 0
    /\ active = NoDialog /\ focus = "chats" /\ mode = "navigate"
    /\ before = [o \in Overlay |-> "navigate"]
    /\ remembered = NoDialog /\ origin = NoOrigin
    /\ link = NoDialog /\ resolves = {} /\ changing = FALSE
    /\ refreshing = FALSE /\ changed = {} /\ linked = {} /\ due = TRUE
    /\ load = [at |-> "start", chats |-> {}, activity |-> activity, archived |-> {}]
    /\ held \in {h \in SUBSET Dialog : Cardinality(Dialog \ h) <= 1}
    /\ posted = [c \in Dialog |-> IF c \in held THEN c ELSE 0]
    /\ inArchive = {}
    /\ happened = 0 /\ acts = 0

-------------------------------------------------------------------------------
(* What the keys do in mode m with the focus f: run_action runs any action that the *)
(* keymap binds, in whatever mode it is typed.                                      *)

restVars == <<folders, viewVars, before, resolves, changing>>

\* open_selected_chat
Opens(c) ==
    /\ active' = c /\ remembered' = c
    /\ focus' = "conversation" /\ link' = NoDialog
OpenSelected(m, f) ==
    /\ IF Entry = NoDialog THEN focus' = f /\ UNCHANGED <<active, remembered, link>>
                           ELSE Opens(Entry)
    /\ mode' = m /\ UNCHANGED restVars

\* Mutant: the place in App.chats is taken for the one in the list.
RevealAsIndexed(c) ==
    /\ matched' = Dialog
    /\ folder' = IF c \in archived THEN "archive" ELSE "main"
    /\ folders' = folders \cup {folder'}
    /\ selected' = Cardinality({d \in chats : d < c})

\* The folder of the chat, unfiltered, with the cursor on it.
Reveal(c) ==
    /\ matched' = Dialog
    /\ folder' = IF c \in archived THEN "archive" ELSE "main"
    /\ folders' = folders \cup {folder'}
    /\ Follows(c)

\* open_chat_by_id opens what the cursor is on then.
JumpTo(c) ==
    /\ c \in chats /\ Reveal(c) /\ Opens(Entry')
    /\ mode' = "navigate" /\ UNCHANGED <<before, resolves, changing>>

Composes == mode' = "compose" /\ focus' = "conversation"
StartComposing(m, f) ==
    /\ link' = NoDialog /\ UNCHANGED <<before, resolves, changing>>
    /\ \/ /\ active # NoDialog
          /\ Composes /\ UNCHANGED <<folders, viewVars, active, remembered>>
       \/ /\ active = NoDialog
          /\ \E c \in chats \cap {remembered} : Reveal(c)
          /\ Opens(Entry') /\ Composes
       \/ /\ active = NoDialog /\ remembered \notin chats /\ Entry # NoDialog
          /\ Opens(Entry) /\ Composes /\ UNCHANGED <<folders, viewVars>>
       \/ /\ active = NoDialog /\ remembered \notin chats /\ Entry = NoDialog
          /\ mode' = m /\ focus' = f /\ UNCHANGED <<folders, viewVars, active, remembered>>

\* start_replying_to_selected, for a message that is there. It forgets no link.
StartReplying ==
    /\ active # NoDialog
    /\ Composes /\ UNCHANGED <<restVars, active, remembered, link>>

\* Action::FolderNext and FolderPrevious: with up to three folders, any other one.
NextFolder ==
    /\ \E g \in folders :
        /\ g # (IF folder \in folders THEN folder ELSE "main") \/ Cardinality(folders) = 1
        /\ folder' = g
    /\ selected' = 0 /\ focus' = "chats" /\ mode' = "navigate"
    /\ UNCHANGED <<folders, matched, before, resolves, changing, active, remembered, link>>

\* Action::Help, Settings and Accounts lead back from their own overlay.
ShowOverlay(o, m, f) ==
    /\ IF o = m THEN mode' = before[o] /\ UNCHANGED before
                ELSE mode' = o /\ before' = [before EXCEPT ![o] = m]
    /\ focus' = f
    /\ UNCHANGED <<folders, viewVars, resolves, changing, active, remembered, link>>

ToggleSidebar(m, f) ==
    /\ m \in {"navigate", "compose"} /\ active # NoDialog
    /\ \/ focus' = "conversation" /\ mode' = m
       \/ /\ mode' \in {m, "navigate"}
          /\ focus' = IF mode' = "navigate" THEN "chats" ELSE f
    /\ UNCHANGED <<restVars, active, remembered, link>>

\* move_chat_up, move_chat_down, move_to_start, move_to_end
MovesCursor ==
    \E n \in 1..Dialogs :
        \/ selected' = IF selected > n THEN selected - n ELSE 0
        \/ selected' = Lower(selected + n, LastPosition)
MoveCursor(m, f) ==
    /\ f = "chats" /\ MovesCursor
    /\ mode' = m /\ focus' = f
    /\ UNCHANGED <<folder, matched, folders, before, resolves, changing, active, remembered, link>>

\* activate_url, for a link in a message, a button's answer or :open
FollowLink(c, m, f) ==
    /\ link' = c /\ resolves' = resolves \cup {c}
    /\ mode' = m /\ focus' = f
    /\ UNCHANGED <<folders, viewVars, before, changing, active, remembered>>

\* set_chat_archived and request_chat_pin: one change at a time.
AskChange(c, m, f) ==
    /\ c # NoDialog /\ ~changing
    /\ changing' = TRUE /\ mode' = m /\ focus' = f
    /\ UNCHANGED <<folders, viewVars, before, resolves, active, remembered, link>>

ShowFilter ==
    /\ focus' = "chats" /\ mode' = "filter"
    /\ UNCHANGED <<restVars, active, remembered, link>>

\* run_action
Runs(m, f) ==
    \/ \E c \in Dialog : JumpTo(c)
    \/ StartComposing(m, f)
    \/ f = "conversation" /\ StartReplying
    \/ NextFolder
    \/ \E o \in Overlay : ShowOverlay(o, m, f)
    \/ ToggleSidebar(m, f)
    \/ MoveCursor(m, f)
    \/ \E c \in Dialog : active # NoDialog /\ FollowLink(c, m, f)
    \/ m = "navigate" /\ f = "chats" /\ AskChange(Entry, m, f)
    \/ ShowFilter

\* handle_navigation: Tab, Escape, Enter and Right.
Navigate(f) ==
    \/ f = "chats" /\ OpenSelected("navigate", f)
    \/ f = "conversation" /\ StartComposing("navigate", f)
    \/ active = NoDialog /\ OpenSelected("navigate", f)
    \/ /\ focus' \in {"chats"} \cup (IF active # NoDialog THEN {"conversation"} ELSE {})
       /\ mode' = "navigate" /\ UNCHANGED <<restVars, active, remembered, link>>

EscapeFrom(m) ==
    /\ m \in Overlay \cup {"compose", "status"}
    /\ mode' = IF m \in Overlay THEN before[m] ELSE "navigate"
    /\ UNCHANGED <<restVars, focus, active, remembered, link>>

\* handle_filter. Enter takes the place of the chat in App.chats for its place in the
\* list, so that the cursor may come to be on any chat.
FilterEnter ==
    /\ Entry # NoDialog /\ Opens(Entry)
    /\ matched' = Dialog /\ selected' \in 0..(Cardinality(chats) - 1) /\ mode' = "navigate"
    /\ UNCHANGED <<folder, folders, before, resolves, changing>>
FilterEdit ==
    /\ UNCHANGED <<folder, folders, before, resolves, changing, active, focus, remembered, link>>
    /\ matched' \in SUBSET Dialog /\ (selected' = 0 \/ Clamps)
    /\ mode' \in {"filter"} \cup (IF matched' = Dialog /\ selected' = 0 THEN {"navigate"} ELSE {})

KeyActs ==
    /\ mode # "command" /\ UNCHANGED origin
    /\ \/ Runs(mode, focus)
       \/ mode = "navigate" /\ Navigate(focus)
       \/ EscapeFrom(mode)
       \/ mode = "filter" /\ (FilterEnter \/ FilterEdit)

-------------------------------------------------------------------------------
(* The command line keeps what it was begun on. *)

BeginCommand ==
    /\ mode = "navigate" /\ mode' = "command"
    /\ origin' = [focus |-> focus, folder |-> folder, conversation |-> active,
                  chat |-> IF focus = "chats" THEN Entry ELSE active]
    /\ UNCHANGED <<restVars, focus, active, remembered, link>>

CancelCommand ==
    /\ mode' = "navigate" /\ focus' = origin.focus
    /\ UNCHANGED <<restVars, active, remembered, link>>

\* Kind::Folder
SubmitFolder ==
    /\ folder' \in folders /\ matched' = Dialog /\ selected' = 0
    /\ focus' = "chats" /\ mode' = "navigate"
    /\ UNCHANGED <<folders, before, resolves, changing, active, remembered, link>>

\* Kind::Archive and Kind::Pin of a chat, of the folder and the chat at the beginning.
SubmitChange ==
    /\ origin.chat \in chats /\ origin.folder \in folders
    /\ AskChange(origin.chat, "navigate", origin.focus)

\* submit_command: an action runs as if it were typed, with the focus put back or, for
\* the commands of a conversation, in the one of the beginning.
SubmitAction ==
    \/ Runs("navigate", origin.focus)
    \/ /\ origin.conversation # NoDialog /\ origin.conversation = active
       /\ Runs("navigate", "conversation")

SubmitStatus ==
    /\ mode' = "status" /\ focus' = origin.focus
    /\ UNCHANGED <<restVars, active, remembered, link>>

Commands ==
    \/ BeginCommand
    \/ /\ mode = "command" /\ origin' = NoOrigin
       /\ \/ CancelCommand
          \/ SubmitFolder
          \/ SubmitChange
          \/ SubmitAction
          \/ SubmitStatus
          \/ \E c \in Dialog : FollowLink(c, "navigate", origin.focus)

-------------------------------------------------------------------------------
(* The mouse, in the modes that let it through: handle_mouse. *)

ClickChat(c) ==
    /\ c \in Shown /\ selected' = Position(c) /\ Opens(c) /\ mode' = "navigate"
    /\ UNCHANGED <<folder, matched, folders, before, resolves, changing>>

Mouse ==
    /\ mode \in {"navigate", "compose", "filter"} /\ UNCHANGED origin
    /\ \/ \E c \in Dialog : ClickChat(c)
       \/ StartComposing(mode, focus)
       \/ StartReplying
       \/ /\ focus' = "conversation" /\ mode' \in {mode, "navigate"}
          /\ UNCHANGED <<restVars, active, remembered, link>>
       \/ /\ focus' = (IF mode = "compose" THEN focus ELSE "chats") /\ MovesCursor
          /\ UNCHANGED <<folder, matched, folders, before, resolves, changing,
                         active, mode, remembered, link>>

UserActs ==
    /\ acts < MaxActs /\ acts' = acts + 1
    /\ UNCHANGED <<chats, activity, archived, custom, pins, refreshVars, heldVars, happened>>
    /\ KeyActs \/ Commands \/ Mouse

\* Action::Refresh: request_dialog_refresh
AskRefresh ==
    /\ acts < MaxActs /\ acts' = acts + 1
    /\ ~refreshing /\ refreshing' = TRUE /\ due' = TRUE
    /\ \/ mode # "command" /\ UNCHANGED <<focus, mode, origin>>
       \/ mode = "command" /\ mode' = "navigate" /\ focus' = origin.focus /\ origin' = NoOrigin
    /\ UNCHANGED <<listVars, viewVars, active, before, remembered, link, resolves, changing,
                   changed, linked, load, heldVars, happened>>

\* reset_for_account_switch, and a worker of the other account.
LeaveAccount ==
    /\ acts < MaxActs /\ acts' = acts + 1
    /\ chats' = {} /\ archived' = {} /\ custom' = {}
    /\ activity' = [c \in Dialog |-> 0]
    /\ pins' = [f \in Folder |-> [c \in Dialog |-> Pinnable]]
    /\ folders' = {"main"} /\ folder' = "main" /\ matched' = Dialog /\ selected' = 0
    /\ active' = NoDialog /\ focus' = "chats" /\ mode' = "navigate"
    /\ before' = [o \in Overlay |-> "navigate"]
    /\ remembered' = NoDialog /\ origin' = NoOrigin
    /\ link' = NoDialog /\ resolves' = {} /\ changing' = FALSE
    /\ refreshing' = FALSE /\ changed' = {} /\ linked' = {} /\ due' = TRUE
    /\ load' = [at |-> "start", chats |-> {}, activity |-> activity', archived |-> {}]
    /\ UNCHANGED <<heldVars, happened>>

-------------------------------------------------------------------------------
(* What the worker tells. Its channel is in order: the terminal has handled what was *)
(* sent before DialogsLoading when the worker reads the dialogs, so that sending and *)
(* handling are one step.                                                            *)

Arrives(c, at) ==
    activity' = [activity EXCEPT ![c] = at]

\* The text that the filter looks at is that of the last message.
HitsChange(c) ==
    IF matched = Dialog THEN UNCHANGED matched ELSE matched' \in {matched \cup {c}, matched \ {c}}

\* What the rules of a folder look at comes with the event: whether the chats in it are
\* unread, muted or archived.
Rules(cs) ==
    IF "custom" \in folders THEN \E in \in SUBSET cs : custom' = (custom \ cs) \cup in
                            ELSE UNCHANGED custom

\* Mutant: the cursor stays where it is in the list.
MessageArrivesBelow(c) ==
    /\ posted[c] > activity[c]
    /\ Arrives(c, posted[c])
    /\ HitsChange(c) /\ Rules({c})
    /\ changed' = IF refreshing THEN changed \cup {c} ELSE changed
    /\ UNCHANGED <<chats, archived, pins, folders, folder, paneVars, origin, link, resolves,
                   changing, linked, load, heldVars, happened, acts>>
    /\ IF c \in chats THEN Clamps /\ UNCHANGED <<refreshing, due>>
                      ELSE refreshing' = TRUE /\ due' = (due \/ ~refreshing) /\ UNCHANGED selected

\* receive_message, with track_snapshot_changes before it.
MessageArrives(c) ==
    /\ posted[c] > activity[c]
    /\ Arrives(c, posted[c])
    /\ HitsChange(c) /\ Rules({c})
    /\ changed' = IF refreshing THEN changed \cup {c} ELSE changed
    /\ UNCHANGED <<chats, archived, pins, folders, folder, paneVars, origin, link, resolves,
                   changing, linked, load, heldVars, happened, acts>>
    /\ IF c \in chats THEN StaysOrTop /\ UNCHANGED <<refreshing, due>>
                      ELSE refreshing' = TRUE /\ due' = (due \/ ~refreshing) /\ UNCHANGED selected

\* refresh_dialogs of the worker. A result that is no longer wanted is dropped.
DialogsLoading ==
    /\ load.at = "idle" /\ due
    /\ due' = FALSE /\ refreshing' = TRUE /\ changed' = {}
    /\ load' = [load EXCEPT !.at = "loading"]
    /\ UNCHANGED <<listVars, viewVars, paneVars, origin, link, resolves, changing, linked,
                   heldVars, happened, acts>>

ReadDialogs ==
    /\ load.at = "loading"
    /\ load' = [at |-> "read", chats |-> held, activity |-> posted, archived |-> inArchive]
    /\ UNCHANGED <<listVars, viewVars, paneVars, origin, link, resolves, changing,
                   refreshing, changed, linked, due, heldVars, happened, acts>>

DialogsFailed ==
    /\ load.at \in {"loading", "read"}
    /\ load' = [load EXCEPT !.at = "idle"]
    /\ refreshing' = (refreshing /\ due)
    /\ UNCHANGED <<listVars, viewVars, paneVars, origin, link, resolves, changing,
                   changed, linked, due, heldVars, happened, acts>>

\* Mutant: what arrived since the refresh began is not kept.
AsRead(c, at) == at[c]

\* The newest message of a chat after a snapshot that says `at`.
NewestKnown(c, at) ==
    IF c \in changed /\ (c \in chats \/ activity[c] > at[c]) THEN activity[c] ELSE at[c]

\* Mutant: the mode stays.
ClosesInMode ==
    IF active \in chats' \cup {NoDialog} THEN UNCHANGED <<active, focus, mode>>
    ELSE active' = NoDialog /\ focus' = "chats" /\ UNCHANGED mode

\* A chat that is no longer listed does not stay open.
ClosesMissing ==
    IF active \in chats' \cup {NoDialog} THEN UNCHANGED <<active, focus, mode>>
    ELSE active' = NoDialog /\ focus' = "chats" /\ mode' = "navigate"

\* replace_dialogs
ReplaceDialogs(list, at, archive) ==
    /\ chats' = list \cup (chats \cap (linked \cup changed))
    /\ activity' = [c \in Dialog |-> IF c \in list THEN NewestKnown(c, at) ELSE activity[c]]
    /\ archived' = (archive \cap list) \cup (archived \cap (chats' \ list))
    /\ changed' = {} /\ linked' = linked \cap chats'
    /\ ClosesMissing /\ Rules(Dialog)
    /\ UNCHANGED <<pins, folders, folder, matched, before, remembered, origin, link,
                   resolves, changing, due, heldVars, happened, acts>>
    /\ StaysOrTop

DialogsArrive ==
    /\ load.at = "read" /\ ~due
    /\ load' = [load EXCEPT !.at = "idle"] /\ refreshing' = FALSE
    /\ ReplaceDialogs(load.chats, load.activity, load.archived)

\* What the cache has, before anything else: it may be old, and nothing.
CachedSnapshot ==
    /\ load.at = "start" /\ load' = [load EXCEPT !.at = "idle"]
    /\ \E list \in SUBSET held, archive \in {{}, inArchive} :
        ReplaceDialogs(list, [c \in Dialog |-> Lower(c, posted[c])], archive)
    /\ UNCHANGED refreshing

stillVars == <<active, focus, mode, before, remembered, origin, link, resolves,
               refreshing, linked, load, acts>>

ArchiveChanged(c) ==
    /\ c \in chats /\ (c \in inArchive) # (c \in archived)
    /\ archived' = IF c \in inArchive THEN archived \cup {c} ELSE archived \ {c}
    /\ due' = TRUE /\ Rules({c})
    /\ UNCHANGED <<chats, activity, pins, folders, folder, matched, changing, changed, stillVars,
                   heldVars, happened>>
    /\ CursorStays

Orders == {p \in Pinning : \A c, d \in Dialog : c # d /\ p[c] = p[d] => p[c] = Pinnable}

DialogPins ==
    /\ happened < MaxHappened /\ happened' = happened + 1
    /\ \E p \in Orders, f \in {"main", "archive"} : pins' = [pins EXCEPT ![f] = p]
    /\ UNCHANGED <<chats, activity, archived, custom, folders, folder, matched, due, changing,
                   changed, stillVars, heldVars>>
    /\ CursorStays

Folders ==
    /\ happened < MaxHappened /\ happened' = happened + 1
    /\ folders' \in {{"main", "archive"}, Folder} /\ custom' \in SUBSET Dialog
    /\ \E p \in Orders : pins' = [pins EXCEPT !["custom"] = p]
    /\ folder' = IF folder \in folders' THEN folder ELSE "main"
    /\ UNCHANGED <<chats, activity, archived, matched, due, changing, changed, stillVars,
                   heldVars>>
    /\ CursorStays

\* What is read or marked unread comes into the folder or leaves it, and a mute runs out:
\* the cursor is at most kept within the list.
Membership(c) ==
    /\ happened < MaxHappened /\ happened' = happened + 1
    /\ custom' = IF c \in custom THEN custom \ {c} ELSE custom \cup {c}
    /\ changed' = changed \cup (IF refreshing THEN {c} ELSE {}) \/ UNCHANGED changed
    /\ UNCHANGED <<chats, activity, archived, pins, folders, folder, matched, due, changing,
                   stillVars, heldVars>>
    /\ Clamps \/ UNCHANGED selected

\* finish_dialog_pin. What the change did comes with the events above.
DialogPinFinished ==
    /\ changing /\ changing' = FALSE
    /\ UNCHANGED <<listVars, viewVars, changed, due, stillVars, heldVars, happened>>

\* open_resolved_link, for a link that is still the pending one.
LinkResolved(c) ==
    /\ c \in resolves /\ link = c /\ resolves' = resolves \ {c}
    /\ chats' = chats \cup {c}
    /\ linked' = linked \cup ({c} \ chats)
    /\ activity' = [activity EXCEPT ![c] = IF c \in chats THEN @ ELSE 0]
    /\ folder' = IF c \in archived THEN "archive" ELSE "main"
    /\ matched' = Dialog
    /\ Opens(c) /\ mode' = "navigate"
    /\ UNCHANGED <<archived, custom, pins, folders, before, origin, changing, refreshing,
                   changed, due, load, heldVars, happened, acts>>
    /\ Follows(c)

\* LinkFailed, and an answer to a link that is not the pending one.
LinkFailed(c) ==
    /\ c \in resolves /\ resolves' = resolves \ {c}
    /\ link' = IF link = c THEN NoDialog ELSE link
    /\ UNCHANGED <<listVars, viewVars, paneVars, origin, changing, refreshVars, heldVars,
                   happened, acts>>

\* The answer to a button is a link.
ButtonActivated(c) ==
    /\ happened < MaxHappened /\ happened' = happened + 1
    /\ link' = c /\ resolves' = resolves \cup {c}
    /\ UNCHANGED <<listVars, viewVars, paneVars, origin, changing, refreshVars, heldVars, acts>>

-------------------------------------------------------------------------------
(* Telegram. *)

AtTelegram ==
    /\ happened < MaxHappened /\ happened' = happened + 1
    /\ \E c \in Dialog :
        \/ held' = held \cup {c} /\ UNCHANGED inArchive
           /\ posted' = [posted EXCEPT ![c] = Dialogs + happened']
        \/ c \in held /\ held' = held \ {c} /\ UNCHANGED <<posted, inArchive>>
        \/ /\ c \in held /\ UNCHANGED <<held, posted>>
           /\ inArchive' = IF c \in inArchive THEN inArchive \ {c} ELSE inArchive \cup {c}
    /\ UNCHANGED <<listVars, viewVars, paneVars, origin, link, resolves, changing, refreshVars, acts>>

\* What moves the list, and the rest of what the worker does and tells.
ListMoves ==
    \/ \E c \in Dialog : MessageArrives(c)
    \/ DialogsArrive
    \/ \E c \in Dialog : ArchiveChanged(c)
    \/ DialogPins
    \/ Folders

WorkerTells ==
    \/ DialogsLoading
    \/ ReadDialogs
    \/ DialogsFailed
    \/ \E c \in Dialog : Membership(c)
    \/ DialogPinFinished
    \/ \E c \in Dialog : LinkResolved(c)
    \/ \E c \in Dialog : LinkFailed(c)
    \/ \E c \in Dialog : ButtonActivated(c)

NavigationNext ==
    \/ UserActs
    \/ AskRefresh
    \/ LeaveAccount
    \/ load.at # "start" /\ (ListMoves \/ WorkerTells)
    \/ CachedSnapshot
    \/ AtTelegram

NavigationSpec == NavigationInit /\ [][NavigationNext]_navigationVars

-------------------------------------------------------------------------------
(* Properties. *)

NavigationType ==
    /\ chats \subseteq Dialog /\ archived \subseteq chats /\ linked \subseteq chats
    /\ custom \subseteq Dialog /\ matched \subseteq Dialog /\ resolves \subseteq Dialog
    /\ activity \in [Dialog -> Nat] /\ pins \in [Folder -> Pinning]
    /\ folders \subseteq Folder /\ folder \in Folder /\ selected \in Nat
    /\ {active, remembered, link} \subseteq Dialog \cup {NoDialog}
    /\ focus \in {"chats", "conversation"} /\ mode \in Mode /\ before \in [Overlay -> Mode]

\* Where Escape leads from a mode: out of an overlay to what is below it.
EscapesTo(m) == IF m \in Overlay THEN before[m] ELSE m
Beneath(m) == {m, EscapesTo(m), EscapesTo(EscapesTo(m)), EscapesTo(EscapesTo(EscapesTo(m)))}

\* The composer and what may lead back to it have an open chat, however a refresh, an
\* overlay and a link fall together: handle_compose and the header rely on it, and the
\* open chat is always one of the list (app.rs:4227).
ComposesInAChat ==
    /\ active # NoDialog => active \in chats
    /\ "compose" \in Beneath(mode) => active # NoDialog

\* While a command is typed the open chat and the focus stay those it was begun on, so
\* that it acts on what its target line names (app/commands.rs:162).
CommandStaysOnItsChat ==
    mode = "command" => origin.conversation = active /\ origin.focus = focus

StaysInItsChat == ComposesInAChat /\ CommandStaysOnItsChat

\* When the worker's events reorder the list, the cursor stays on its chat as long as that
\* chat is shown (app/pins.rs:138, app.rs:4223): Enter opens what the user looked at.
CursorFollows ==
    ListMoves \/ CachedSnapshot => Entry' = Entry \/ Entry \notin Shown'

\* A jump opens the chat that is named, and whatever is opened is under the cursor: only
\* the filter's Enter, which uses the place in App.chats, leaves the cursor elsewhere.
OpensWhatIsNamed ==
    /\ \A c \in Dialog : acts' # acts /\ JumpTo(c) => active' = c
    /\ active' \notin {active, NoDialog} /\ ~FilterEnter => Entry' = active'

\* A refresh never takes a listed chat back to an older message than one that arrived
\* while it was loading (track_snapshot_changes).
ListNeverGoesBack ==
    \A c \in chats \cap chats' : activity'[c] >= activity[c]

StepsAsSteered == CursorFollows /\ OpensWhatIsNamed /\ ListNeverGoesBack
=============================================================================
