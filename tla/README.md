# A verification project for Termgram

Termgram is a Telegram client for the terminal. This directory holds TLA+
models of its state machines, the TLC runs that check them on small instances
and the TLAPS proofs that hold for every instance. `src/` below is the
repository; paths like `src/src/cache.rs` start there.

Run a check with `tlc -config X.cfg M` for the pairs listed under *Runs*, and
the proofs with `tlapm P.tla` for the modules listed under *Proofs*; the longest takes
some minutes. `ClientProofs` extends `TranscriptProofs`.

## The system

    terminal loop (main.rs, app.rs, app/*)        one task, owns the screen
        |  commands (32)              ^  events (64)
        v                             |
    local worker (telegram/local.rs: serve)       owns the cache file
        |  commands (32)              ^  events (64)
        v                             |
    network worker (telegram/mod.rs: run)         owns the Telegram session
        |  at most 8 request tasks, 32 queued and 3 running transfers
        v                             ^  ordered update batches with a cursor
    Telegram

Threads stand beside these loops: the writer of the drafts (`drafts.rs`, behind
a watch channel), the local search, the preparation of attachments, the posting
of alerts and the check for updates. `tg update` is a process of its own.

| Component | State | Operations | What makes it correct | Status |
|---|---|---|---|---|
| Message cache (`cache.rs`) | rows with revisions, tombstones, generations of requests in flight, bounded | `Store::apply` per event, queries | an answer never undoes what an update said; evidence lives as long as a request it can contradict | partly |
| Content journals (`cache/journal.rs`, `contents.rs`, `polls.rs`, `reactions.rs`) | bounded patches since the oldest request | record, reconcile, prune | an answer is lifted to what updates said since it was asked for, or known to be stale | partly |
| Update pipeline (`telegram/local.rs`, `run`) | four bounded queues, changes not yet written, cursor | batches, checkpoints, flushes, serving cached pages | a restart may replay but never skips; pages are never behind the screen; nobody waits on everybody | partly |
| Unread counts (`read_state.rs`, `cache.rs`, `telegram/reads.rs`, `app/reads.rs`) | count, read boundary, last message, watermark of the worker | new messages, deletions, reads here and elsewhere, refreshes | each message counts once; the boundary is monotonic; no arrival is lost from the count | partly |
| Metadata refresh (`telegram/requests.rs`) | dirty and in-flight flags, request slots | updates, refreshes, commands, opening a chat | what is neither dirty nor in flight is current; every list settles | partly |
| Transfers (`telegram/mod.rs`, `media_cache.rs`, `local.rs`) | upload order per chat, three permits, downloads by request | queue, run, complete, cancel | uploads of a chat keep their order; a late download is not recorded for other media | partly |
| Login and session worker (`telegram/mod.rs`, `local.rs`, `app.rs`) | the step of the login, the call under way, the data centre, the token on the screen | phone, code, password, QR, restart, shutdown | a prompt never hides an authorised session; an account nobody wants any more never shows | partly |
| Presence (`presence.rs`, `telegram/presence.rs`) | focus, last key, wanted and reported status, the retry of a report | focus changes, keys, timers, report, renewal, end of the worker | the last wanted status is reported, in time | modelled |
| Drafts (`drafts.rs`, `app/drafts.rs`, `main.rs`) | memory, accounts loaded, snapshot under way, the file | edit, load, restore, queue, write, end, account switch | no edit is lost but by a crash; a restore does not undo an edit | modelled |
| Attachment staging (`staging.rs`, `app/staging.rs`, `clipboard.rs`) | the draft a preparation is for, one preparation per process, the leases of pasted pictures | attach, paste, cancel, answer, expire; sweep, upload, retry | what arrives goes where it was meant; no picture that is in use is swept | partly |
| Clipboard broker (`terminal/clipboard.rs`) | the read that is awaited, its number and deadline | announce, route, answer, time out | an answer counts only for its read | partly |
| Deletion, forwarding, editing, invites (`app/*.rs`, `telegram/*.rs` of these names) | the dialog, the plan it shows, the number it waits for | review, confirm, cancel, answers, updates; look, check again, act | what was confirmed is what is done, once | modelled |
| Polls and reactions of the terminal | as above, with the answers picked | as above, and the look-up after a change | answers picked from one definition are not sent for another | modelled |
| Pins and reply previews of the terminal (`app/message_pins.rs`, `app/replies.rs`) | the list and the prompt, excerpts and their batches | pages, changes, reloads; batches | no answer shows less than was told | partly |
| Chat information (`app/chat_info.rs`, `telegram/chat_info.rs`) | the entry, its age, the pending request | look up, expire, invalidate | a fresh entry is what was last told | modelled |
| Stickers (`app/stickers.rs`, `telegram/stickers.rs`) | overview, sets, queue of pictures | cached and validated answers, downloads | what shows as loading is loading, within the budget | partly |
| Request execution (`telegram/requests.rs`, `event.rs`) | tasks under way | spawn, complete, fail | every command is answered once | partly |
| Read receipts of the terminal (`app/reads.rs`) | the receipt asked for | request, settle | in `UnreadCount` | partly |
| Terminal loop, account switch (`main.rs`, `app.rs`) | the worker it talks to | events, commands, switch, end | in the modules of what is switched | partly |
| Search (`app/search.rs`, `search.rs`, `cache/search.rs`, `telegram/requests.rs`) | the panel, the running scan, the cloud search with what changed since it was asked | ask, page, cancel, answer, invalidate, open | a page shown answers what is asked; a cloud page undoes nothing; every request is served | partly |
| Alerts (`app/alerts.rs`, `telegram/notifications.rs`, `notifications/delivery.rs`) | groups of messages, settings, the flag of each alert | arrive, resolve, submit, withdraw, post | no alert for what is deleted, read, muted or of another account; once per message | partly |
| Self-update (`update.rs`) | the executable, what each updater has staged; the marker of the last check | check, download, verify, replace, move back; the automatic check | the executable survives every failure; the footer offers what the user chose | partly |
| Folders and chat list (`app.rs`, `app/pins.rs`, `app/composition.rs`, `folders.rs`) | the list, its order and filter, the cursor, the open chat, the mode and the focus | keys, mouse, messages, refreshes, pins, links | the cursor stays on its chat; a composer has an open chat; a refresh takes nothing back | partly |
| Keymap and command line (`keymap.rs`, `app/configuration.rs`, `app/commands.rs`) | bindings, the chord and count begun, the reload under way; what a command was begun on | keys, timeout, reload; begin, submit, cancel | a key does what was typed in its context; a command acts on what it names | partly |
| Conversation (`app.rs`, `app/reads.rs`) | messages shown, local messages, the pages asked for, the window of the unread ones | send, retry, updates, pages, reading back and forward, gaps | no page undoes an update; nothing unread is skipped; a refused message stays, an answered one is shown once | partly |
| Update box (`vendor/grammers-session`) | pts per box, gaps | | updates in order and once: assumed | not modelled |
| Typing activity, rendering, vendored libraries | | | | not modelled |

What is hard about it: updates, answers and commands race through three loops
and two bounded queues each way; the program may end between any two steps and
replays updates; the server answers from any moment between the request and
the answer, and other clients of the account change what it holds meanwhile;
the user switches accounts, types on and restarts the sign-in, while anything is
under way; all memory of the past is bounded and pruned. The hazards, each at its
line, are listed in `PROJECT.json`.

## Modules

| Module | Models | Checked by | Proved in |
|---|---|---|---|
| `MessageCache` | the rows of `cache.rs` and the revision protocol | `MCStore`, `MCMessageCache` | `MessageCacheProofs` |
| `ContentJournal` | the poll or the reactions of one message in the store | `MCStore` | `StoreProofs` |
| `UnreadCount` | the unread count of one chat across worker, cache and server | `MCStore`, `MCUnreadRefresh.cfg` | `StoreProofs` |
| `SyncPipeline` | both workers, the queues, the cache file as a whole, the terminal as a consumer | `MCWorker` | `WorkerProofs` |
| `DurableStream` | what the pipeline promises of the cache file; `SyncPipeline` implements it | `MCWorker` | `WorkerProofs` |
| `MetadataRefresh` | the refresh loop of the network worker | `MCWorker`, `MCRefreshPins.cfg` | `WorkerProofs` |
| `Transfers` | uploads and downloads, and what the cache records of them | two configurations | `TransfersProofs` |
| `TerminalDialog` | what the dialogs share: request numbers, calls of the worker, other clients, account switches | `MCDialogs` | `DialogProofs` |
| `ReviewedAction` | what a dialog that reviews before it acts promises; six modules implement it | `MCDialogs` | `DialogProofs` |
| `Deletion`, `Forwarding`, `Editing`, `Invites`, `Polls`, `Reactions` | the dialogs that review before they act, with the worker's side | `MCDialogs` | `DialogProofs` |
| `PinnedMessages`, `ChatInfo`, `ReplyPreviews`, `Stickers` | the panels that show what a look-up brought | `MCDialogs` | `DialogProofs` |
| `Session` | the sign-in across terminal, bridge and network worker | `MCTerminal`, `MCEscape.cfg` | `TerminalProofs` |
| `Pasting` | pasting and attaching: the draft that is waiting, the broker, the worker and its threads | `MCDialogs` | `DialogProofs` |
| `Drafts` | drafts in memory, in the writer thread and on disk, and staging | `MCTerminal` | `TerminalProofs` |
| `Presence` | the wanted status, its timers and the task that reports it | `MCTerminal` | `TerminalProofs` |
| `Outbox` | what the user sends to one chat, and its local messages | `MCClient` | `TranscriptProofs` |
| `Transcript` | the messages the terminal shows of one chat | `MCClient` | `TranscriptProofs` |
| `Alerts` | desktop alerts from the arrival of a message to the thread that posts | `MCClient` | `ClientProofs` |
| `Search` | the panel, the scans of the cache and the cloud searches | `MCClient` | `ClientProofs` |
| `Assets` | the files of pasted pictures and who holds them | `MCClient` | `TranscriptProofs` |
| `Navigation` | the list of chats with its cursor, the open chat, modes and overlays, the command line, links and refreshes | `MCClient` | `TranscriptProofs` |
| `Keys` | the keymap: chords, counts, configurations and their reload | `MCClient` | `TranscriptProofs` |
| `Installer` | `tg update`, several at a time | `MCClient` | `ClientProofs` |
| `UpdateCheck` | the automatic check and what the footer offers | `MCClient` | `ClientProofs` |

`MCStore`, `MCWorker`, `MCDialogs`, `MCClient` and `MCTerminal` extend several of these and
have one variable more, `part` or `dialog`, that names the one a behaviour is
about; the others stay at one initial state. The parts do not share variables
(the dialogs share those of `TerminalDialog`, one dialog at a time, as the
terminal has one mode), so this is the union of their behaviours, checked in
one run, and each property says which part it is about where that matters.

### MessageCache

State: `rev` is `Store::revision`; `rows` the table `messages` (a row holds the
version of the contents, its revision and, as a ghost, who wrote it); `gd` the
table `global_deletions`; `gens` the maps `history_revisions`, `pin_revisions`
and `search_revision`, one entry per request slot; `status` and `page` the RPC
of each slot and what the server answered; `srv` and `told` the server's
messages and the last state the update stream delivered; `forgot` a ghost that
remembers when pruning dropped a row.

Actions: one per kind of event `Store::apply` handles, each with its trailing
pruning and trimming (`Commit`, `CommitPruned`); the requests of the network
worker; the server; restart and account reset. Contents are versions 1, 2, ...:
the properties only ask which of two contents is newer.

### ContentJournal

A copy of the contents is two numbers: up to which change it knows what all see,
and up to which it knows the account's own choice, because Telegram's short
updates leave the own choice out. `Record` appends to the journal and drops the
oldest entry beyond the limit; an answer is lifted by the entries since its
request started (`After`, `Replayed`); an answer whose entries were dropped is marked
stale. Revisions rise along the journal, so the entries since a request are its end, and
to lift an answer is to apply these one after the other, as a recursive function does.

### UnreadCount

One chat: its messages, deletions and read boundary on the server; the
worker's position in the stream, watermark (`top_messages`), refresh and receipt;
the cache's row of the chat. `counted` and `covered` are ghosts: the messages
that raised the count, while the cache keeps their rows, and those the count
stands for. A difference has an entry (`LeftOut`) for every update it does not
bring, so that a place in the log stands for the same update before and after a
restart.

### SyncPipeline and DurableStream

An update is its number. The worker takes a batch, sends its updates one by
one, then the checkpoint; the local worker collects, writes in transactions and
hands on; every send waits for room. `Crash`, `Quit`, `WorkerFails` and
`LocalEnds` end a session at any step and `NewSession` starts one from the file.
`DurableStream` says only that the file grows by prefixes of the update stream
and that the cursor stays behind it and never goes back.

### MetadataRefresh

The server's version of each list, the flags `dirty` and `in_flight`, the
requests under way (`asks`), the commands in flight, and what the terminal has
(`listed`). `MayTake` and `Pending` are the select loop with its call of
`refresh_pending` after every event.

### Transfers

A transfer is its number, in the order in which the terminal asks. `phase` is
where its task is: in the channel (`asked`), behind the previous upload of its
chat (`gated`, waiting for `after[t]`, as the task waits for the receiver it
took from `upload_order`), in the queue of the semaphore (`line`), with a permit
(`running`, and `working` once a download has seen the message), ended with its
completion not yet taken (`finished`), or `answered`. `downloads` is
`Store::downloads`, `attachments` and `previews` are the tables; a file is
represented by the media in it, so a table that names a file with another
source is wrong. The server edits messages; the worker tells edits, answers and
completions in one channel, and `Apply` is `Store::apply` of its head.

### TerminalDialog, ReviewedAction and the dialogs

Every dialog of the terminal has the same skeleton, which `TerminalDialog`
holds once: a mode, a prompt, the number and kind of the request it waits for
(`pending`, `next_request`), and `calls`, the commands given to the worker that
are not answered yet. A call is `sent`, `checked` (the worker looked again
before it acts), `done` or `failed`; answers are handled in any order, one whose
number is not awaited is dropped (`AnswerIgnored`), any call may fail at any
step, and a reply may be lost after the server acted. `server` changes under the
dialog (`OthersChange`), and `told` says how much of it the terminal knows.
`AccountSwitch` starts the dialogs over and drops the worker's tasks.

The object of a dialog is a version; `Looks` makes two versions look alike to
the terminal where it compares less than the worker does. What differs from
dialog to dialog is its module: the scopes of a deletion, the random id of a
forward, the typed text of an edit that is kept across dialogs and accounts, the
link of an invite, the answers picked in a poll, the toggle of a reaction, the
reload of a list of pins while changes arrive, the age of an entry, the batch of
excerpts that answers twice, the budget of sticker pictures.

`ReviewedAction` is the promise of the six that act: the user sees a version,
confirms that version, the version is found current again, and the action is
carried out at most once for the confirmation. The mapping: `current` is what
the server holds, `shown` the plan of the prompt, `asked` the version of the
acting call under way, `verified` that the worker has checked it.

### Session

Three queues connect the terminal, the bridge (`serve`, which puts sign-in
commands in front and forwards one at a time) and the worker's loop. `at` is the
await or the prompt at which the worker is, `answer` what Telegram answered to
the call under way: every call can be interrupted by a restart of the sign-in
or a shutdown while the server has, or has not, authorised the session. QR
tokens move between data centres up to `QR_MIGRATION_LIMIT`. An RPC error is a
server that did not carry the call out.

### Drafts

The memory of all accounts, what an account has loaded, the snapshot in the
watch channel, the writer that coalesces and retries, the file, and the worker
whose `DraftsLoaded` races the user's edits. A draft is the number of the edit
that made it; a ghost knows what was edited.

### Pasting

A paste is the number of the user's request and stands for what it brings;
`meant` is where the user was then, `landed` what was inserted and where.
`reserved` is the draft that waits, by its place and number; `broker` the read
of the emulator's clipboard that is awaited and `reads` all that were sent, each
of which is answered late, in any order, or never. `threads` are the preparations
of former workers too: an account switch drops the channels and the task of a
worker, not the thread it started, which keeps the next worker from starting one.

### Presence

Time is ticks; a step of time happens only when the main loop has handled its
events and its alarm. `task` is the report loop with its wanted value, its
retry, and `call` the RPC under way, which the server may have served before its
answer arrives or it is aborted.

### Outbox

A message the user sends has a number and contents, which stand for its text,
the message it answers and its attachment. `entries` holds the local messages
of the transcript with their delivery, `composer` the draft, `retry` the failed
message the draft was restored from (`retry_message_ids`), `retries` the
attachments Enter sends again. `sends` says how far each command is, `delivered`
which messages it became, `heard` how many of these the updates have told.
The answer, the update and a page of the history arrive in any order, each may
be the first to show the message, and a command that failed may have been
carried out. `Reconcile` is how a local message gives way to one with the same
contents.

### Transcript

`log` is what happened in the chat, `seen` how much of it the terminal was told.
`history`, `older` and `changes` are `active_history_request`, `older_motion`
and `history_changes`: at most one of each, and what updates said meanwhile,
which `HistoryPage` and `OlderPage` lay over an answer that Telegram gave at any
moment since the request. `entry`, `forward` and `paging` are the position of
the first unread message and the window that ends at `forward`, beyond which
arrivals are not shown; `WindowEnd` decides where it ends.

Three ghosts name what is excepted from the properties: `crossed`, a gap that came
while an older page was on its way or a window was open; `blind`, a window that was
closed without knowing the last message; and `gaveWay`, the unread messages that left
a full transcript for newer ones (see *The violations*).

### Alerts

`groups` are the messages that wait for the settings of their chat, `resolving`
the requests for these, `submitted` the alerts that were handed to the thread and
can still be withdrawn, by clearing their flag (`valid`). The thread looks at the
flag and posts in two steps (`posting`). `gone` are the messages the terminal
knows deleted, read or shown; `Good` says when an alert may still be shown.

### Search

`scans` is the local worker's thread, with one job running and one next, and the
flag by which a job is cancelled (`Flagged`); a job that is not cancelled ends with its
page or, when the cache cannot be read, with a failure (`ScanEnds`). `cloud` is what the cache worker was told since
a cloud search was asked, which it lays over the answer. Requests have numbers;
`stream` carries the answers behind the updates that were received before them.

### Assets

A picture is held by its leases (`holders`); the last one that ends removes the
file unless it is retained. `RestoreDrafts`, the sweep, reads the references from
the database and the registry in separate steps while a thread of an earlier
worker may be writing a picture.

### Navigation

A dialog is the number of a chat, and the numbers order what is otherwise equal. `chats`
is `App.chats` without an order: `Shown` is what the folder and the filter leave of it,
`Precedes` its order on the screen, and `selected` is a position there, as in the code, so
that whatever changes the list has to move it (`Follows`, `StaysOrTop`, or `Clamps` where
the code does no more). `Runs` is `run_action`, which runs any action in any mode; `KeyActs`,
`Commands` and `Mouse` are the three ways to it. `origin` is what the command line was begun
on, `before` the mode below each overlay, `link` the Telegram link whose answer would be
taken. What Telegram has (`held`, `posted`, `inArchive`) moves by itself; a refresh reads it
at one moment (`load`) and replaces the list at a later one, with what `changed_dialogs`
and `linked_chat_ids` keep of it. The channel of the worker is in order, and what it sent
before `DialogsLoading` has been handled when the dialogs are read, so the sending and the
handling of an event are one step. What is under the pointer, and the rules by which a chat
is in a folder of the user, are open (any chat, any set).

### Keys

`bound` are the bindings, `chord`, `times` and `keyContext` what `feed` keeps between two
keys. A few keys, actions and contexts stand for those like them: counted contexts and one
that takes text, keys that are digits, Escape, and bindings of one and of two keys. `typed`
and `ran` are histories: what was typed since the last chord ended, and what the last key
ran. A configuration is what its `keymap` lists, `Parses` says whether it is taken; a reload
goes from the request to the main loop, to the thread that reads the file, and back.

### Installer and UpdateCheck

An updater is a process with a step, the version it was started from, the
version it seeks and three files of its own: archive, stage and backup. A file is
the height of the release it holds, `Partial` or `NoFile`. On Windows a detached
helper makes the moves and retries them. `UpdateCheck` has the marker of the last
check, which other processes share, the throttle, and the preferences, which
change while a check runs.

## Runs

| Run | Instance | Shows |
|---|---|---|
| `store` | a channel of 2 messages and 2 versions, a pin refresh and a load that can outlive its evidence, 5 events; a poll or reactions with journals of one entry, 2 changes of any kind, a gap; a chat of 2 messages of one second with a deletion, a read, a gap, a restart. 2.9 million states | answers never undo updates (`SnapshotsNeverUndo`), contents not marked stale are current (`ContentsAreCurrent`), the count (`CountIsSound`: the boundary is monotonic, each message counts once, no arrival is erased) |
| `cache_private` | 2 messages of a private chat, 1 deletion remembered, two searches, a load and a send. 1.8 million states | the same where deletions are remembered by id, and that they are not kept for ever (`DeletionsBounded`) |
| `worker` | 3 updates, queues of 1, transactions of 2 events, 2 loads, 2 ends of the program; the lists of dialogs and the pins of 2 chats, 2 slots, 2 changes, a failure, a command, 2 chat switches. 350 thousand states | order, durability, progress (`NothingIsSkipped`: the cursor covers only what is on disk, and no page is behind the screen; `AllArrives`, `ImplementsDurableStream`), lists that become current (`SettledIsCurrent`, `AnswersNeverUndo`) |
| `transfers` | 2 transfers to 2 chats or of 1 message with 2 media, 1 permit, an edit, a reload or invalidation | `SentInOrder`, `AttachmentIsItsMedia`, `AnswersAreAsked`, `NothingLeftUnderWay`, `EveryTransferAnswered` |
| `dialogs` | ten dialogs with 2 versions, 3 requests, 2 actions, 2 typed texts, links and stickers; 2 pastes into a draft and a text field, 2 moves, an account switch | `ActsAsReviewed`, what was carried out (`EffectsAsConfirmed`), what a confirmation and an answer rest on (`ToldIsRespected`, `ShownIsTrue`), `PastesGoWhereMeant`, `RequestsEnd` (every dialog's request and every preparation ends) |
| `terminal` | a sign-in over 3 data centres with 3 commands, 2 workers, 2 migrations; drafts of 2 accounts with 2 edits, an account switch, a failed save or a crash; presence with delays of 1, 2 and 3 ticks, a failed call, 2 workers | `ReadyIsWanted`, `InStep` (screen and worker agree on the step of the login, no prompt hides an authorised session, what is reported is reported in time), `NoDraftIsLost`, `WorkSettles` (drafts become durable, the last status is reported) |
| `client` | 2 messages, 2 texts and a file, a retry, a gap; a chat of 2 or 3 messages of which the terminal has a page of one, room for two, an edit or deletion, a gap, any number of requests; 2 messages and an edit for alerts, 2 accounts, a queue of one; a message that is edited or deleted for 2 questions of 2 pages; 2 pictures and 2 ends of the program; 2 updaters and 3 releases, a kill; 2 launches of the check, 3 ticks, 2 changes of preference; a list of 2 chats of which one may be missing, 2 overlays, a pin, 2 things the user does and one that happens at Telegram or is told; 3 keys under 5 configurations and 2 edits or reloads. 1.2 million states | `SentIsShown` (`RefusedStays`, `AnsweredIsShownOnce`), `PagesFit` (no page undoes an update, nothing unread is skipped), `AlertsHold` and `SearchHolds`, `ActsOnWhatIs` (alerts are posted and hits opened only while they are good), `PicturesExist`, `ControlsHold` (a composer and a command line are of the open chat; keys do what was typed), `ActsAsSteered` (the cursor follows its chat, a jump opens what was named, the list never goes back), `UpdatesHold` (`ReplacesSafely`, `OffersAreTrue`) |
| `cache_loads` | as the rows of `store`, 6 events | *violated*: a load whose generation is gone undoes an update |
| `unread_refresh` | 2 messages, refreshes | *violated*: an arrival is never counted |
| `refresh_pins` | the dialog pins | *violated*: half of a command fails and nothing is refreshed (`PartialFailuresSettle`) |
| `stale_preview` | 1 preview and 1 edit | *violated*: a preview of the old media is recorded for the new |
| `escape_answered` | 1 data centre, 2 commands | *violated*: Escape on a sign-in screen is never answered |

The bounds. Each hazard of the cache needs two versions of one message and a
second message that can push the first out, one request in flight of each kind
and a handful of events (start, update, prune or invalidate, answer); the
revision bound lets a request start, be overtaken, arrive and be followed by
another event. A journal of one entry overflows at the second change. Queues of
length one are the tightest the pipeline can have, so every wait happens; three
updates make a batch of several and one that follows it; a transaction of two
events ends by size, by checkpoint and by time. Two messages that share a second
are the case in which the date cannot order them. Two transfers and one permit
make every pair of uploads and downloads.

A dialog needs a look-up, an action and a retry of it: three requests, two
actions carried out (the second by a mistaken retry), and one change of the
object between any two of these, so two versions and the removal. Two versions
that look alike and two that do not both occur, since `Looks` halves. Sign-ins
need three commands for a phone, a restart and a second phone, two data centres
for a migration and a third for one that is wrong. Two edits and one switch are
the least in which a restore races an edit. The delays of the presence are the
shortest that keep their order. Two pastes are one that is late and one that could
be taken for it. Two updaters are the least that can interleave, three releases let
each find another one; a chat of more messages than a page is one that has to be
read forward. Three ticks are one more than the interval between two checks. Two chats are
the least list in which a cursor can be on the wrong one; two things the user does open a
composer and put an overlay or a link over it, and one event, beside the refreshes and
messages that are not bounded, comes between. Three keys are a digit and a chord of two.

### The violations

Five runs check what the repository says of the program and find that the code
does otherwise; `PROJECT.json`, "findings", quotes the lines.

- `cache_loads`: `MessageLoaded` falls back to the current revision when its
  generation is gone, so it is written over newer rows.
- `unread_refresh`: a refresh raises the worker's watermark, while the cache
  keeps its own row; the messages between are never counted.
- `refresh_pins`: of the commands that make two RPCs, `ChangeDialogPin` and
  `SetArchived` do not refresh when the second fails. A list they leave so is `torn`,
  which `SettledIsCurrent` excepts, until its next refresh begins.
- `stale_preview`: `PreviewDownloaded` is recorded with the media the row has
  when it is applied, not with the media that was downloaded.
- `escape_answered`: the first prompt of the worker ignores `RestartAuth`
  without an answer, while the terminal waits for one and takes no key for the sign-in.

Modelling met more disagreements, that no run is spent on:

- "Leave no stale online behind when the worker stops" (`telegram/presence.rs:39`):
  a worker that closes sends the offline status only if the online call has been
  answered (`presence.rs:64-71`: the flag is set after the call returned), and
  `serve` drops the worker before it sends it (`telegram/local.rs:91-92, 158-161`).
  In `Presence` the state `stage = "stopped"` with `visible` online is reachable.
- "A failed send stays visible for retry" (`docs/wiki/en/UX.md:41`): of two messages
  with the same text, the update of the second takes the local message of the first
  (`app.rs:5193-5220`); when the first then fails it is gone without a word
  (`app.rs:4597-4601`). A page does the same with messages it had shown before
  (`app.rs:4731-4760` has no test for new ones), and a gap drops all local
  messages (`app.rs:1773-1777`). `RefusedStays` excepts these three.
- "A slower history RPC must not resurrect deleted messages or undo a live
  edit/read receipt" (`app.rs:4122-4123`): a gap clears `history_changes` and keeps
  `older_motion`, so an older page asked for before it shows what was deleted in it;
  a gap also keeps the end of the window, so an edit of a message that the new latest
  page shows beyond it is ignored (`app.rs:4706-4710`). `PagesNeverUndo` excepts both
  (`crossed`).
- "Load newer history without skipping the intervening messages" (`UX.md:31-32`): when
  the chat's last message was deleted, `last_message_id` is empty and the window is
  taken to be the end at the first full page (`app.rs:4402-4409`), which
  `NothingUnreadSkipped` excepts (`blind`); and what a full transcript lets go for
  arrivals (`app.rs:5185-5191`) leaves a hole above what comes back later: an older page
  that was to join it (`app.rs:1080-1095`), or an edit, which shows its message alone
  (`app.rs:4656-4729`). `NothingUnreadSkipped` says which messages may be in the hole
  (`gaveWay`): only those that had given way.
- `loading_history` stays set, and `next_unread_page` refuses, after a page of unread
  messages gave way to the loading of an older one that a key cancelled or that failed.
- "Replayed incoming messages must not double-count unread state"
  (`docs/wiki/en/Development.md:100`): a gap that is replayed after a restart makes the
  cache forget its rows; if the row of the chat had lost its last message, the worker's
  mark starts empty and a message is counted again until the refresh settles. The code
  closes each batch with a checkpoint, so this takes a gap, messages and a deletion in
  one batch that was not written whole. `CountedOnce` excepts messages whose rows the
  cache has forgotten.
- A result "not due" of the automatic check clears an update that is known
  (`Ok(None)`), so switching the checks off and on hides it until the interval has
  passed; and an answer recorded by a process that ended before it showed it is not
  offered for an interval.
- Two updaters that run at once can put the older of two releases over the newer;
  `ReplacesSafely` says only that each is newer than the version its updater ran.
- A page of the local search can show a message that was deleted or edited while the
  scan ran; the documents promise a check only when it is opened
  (`docs/wiki/en/Search.md:28-29`), which is `OpensWhatExists`.
- `docs/wiki/en/Pins.md:35-36` promises a list of pins that follows changes;
  while the pin prompt is open they are ignored (`message_pins.rs:474-516`;
  `PinListIsCurrent` states what the page promises and is not checked).
- Applying an update that carries a definition clears the mark `stale` of a poll
  (`polls.rs:111`), also where `cache/polls.rs:14-21` has just set it because the
  journal had overflowed; `Loaded` allows both outcomes.
- `read_state.rs:1-2, 25`: an older count is taken when the last message of
  the chat was deleted, which loses arrivals; `ArrivalsKept` excepts a chat
  without a last message.
- An answered message's excerpt can be overwritten by an older one of a
  `MessageLoaded`; `ReplyPreviews` allows it and `BatchNeverUndoes` is about
  batches.
- Enter in the filter takes the place of the chat in `App.chats` for its place in the list
  (`app.rs:2938-2948`), so that the cursor is then on another chat wherever pins, a folder
  or the order of activity make the two differ. `OpensWhatIsNamed` excepts that step.
- `start_replying_to_selected` and `begin_command` leave `pending_telegram_link` as it is
  (`app.rs:3420-3461`, `app/commands.rs:74-99`), while opening a chat forgets it: a link
  that is resolved late takes a composer or a command line away.
- Help and Settings keep the mode they were opened from, each its own (`mode_before_help`,
  `mode_before_settings`), so with one opened over the other and back, Escape leads from
  each to the other and never out.
- `UnreadChanged` and `ChatUnreadChanged` only clamp the cursor (`app.rs:1677-1693`): in a
  folder that leaves out what is read, the cursor passes to another chat. `CursorFollows` is
  about the events that call `preserve_chat_selection` or its like.
- A link to an archived chat selects the archive although the folder may not be there yet
  (`app.rs:3953-4014`), where `open_chat_by_id` adds it.
- A chord whose first key is a digit other than 0, or that has Escape after its first key, is
  accepted and shown in hints in the panes that count, but cannot be typed
  (`keymap.rs:725-754`); `CanBeTyped` excepts it from `HintsRun`.
- A `SetOnline` refused by a full queue (`event.rs:746`) is not repeated, and
  the report loop does not sleep when a failed report's time has passed and the
  status wanted is the one reported.

### Fairness

Safety properties need none.

- `AllArrives`, pipeline: the loops of the three tasks go on: tokio polls a ready
  branch of `select!` in random order, so a branch that stays ready is taken; the
  update branch of the worker is one of them, and so are the branches of the local
  worker. A worker that has ended is started again (the user's next start at the
  latest), and the server produces what it has. Nothing is assumed of `Crash`,
  `Quit`, of commands or of the user.
- `AllArrives`, lists: the same of the worker's loop, and that the server answers or
  refuses every request (`MAX_REQUESTS` tasks each end, by an answer or an
  error); changes, failures, commands and switches are finite.
- `EveryTransferAnswered`: tokio runs every task that can go on, the semaphore
  serves in order of arrival, both workers go on, and a request to the server
  ends by an answer or an error; nothing is assumed of the terminal or of edits.
- `RequestsEnd`, dialogs: the awaited call comes to its end (every RPC has a time
  limit) and the terminal reads the answer; nothing of the user or the server.
- `RequestsEnd`, pasting: the deadline of a read passes, the loops of the worker and of
  the terminal go on, and a thread that reads files ends. A read of the native
  clipboard may hang for ever, so nothing is assumed of it; its time limit is.
- `WorkSettles`, drafts: the terminal's turn queues a dirty snapshot and the writer
  thread runs; a save that fails is tried again and failures are finite.
- `WorkSettles`, presence: the main loop, the report task and time go on.

In a composed run the fairness is that of the part a behaviour is about: the
other parts do not move and owe nothing.

## Proofs

Each theorem holds for every value of the constants its modules' assumptions
allow: any number of messages, chats, requests, transfers, versions or
commands, where a run has two or three.

`MessageCacheProofs` proves

    THEOREM CacheTypeOK           == Spec => []TypeOK
    THEOREM CacheSnapshotsNeverUndo == Spec => []SnapshotsNeverUndo
    THEOREM CacheDeletionsBounded   == Spec => DeletionsBounded

from the assumption `CacheAssumption` (ids are unique, chats outside channels
number their messages from one sequence, bounds are naturals). `SnapshotsNeverUndo`
is not inductive: an answer in flight may hold an old version, and what keeps it
out is the row, the tombstone or the generation. The invariant `Inv` adds

- `ToldBehind`: the stream never runs ahead of the server;
- `FlightOK`: an idle slot holds no page and no generation, no generation and
  no revision is ahead of the store's;
- `Dated`: every row and remembered deletion carries a revision that has
  been used, and every ghost date has passed;
- `TombstonesTold`: a message is remembered as deleted only if the stream said so;
- `AnswersSafe`: every message of an answer in flight whose generation is alive
  is at least as new as what the stream has told, or there is evidence that
  refuses it (a newer row, a tombstone, a remembered deletion of a later
  revision), or the request is one nothing can be checked for.

The proof has one lemma per action (or group of actions with one effect) and
per conjunct it disturbs; the interesting one is that trimming
`global_deletions` (`Obsolete`) never removes an entry a live generation needs.
The third theorem is the other side of it: generations end with their requests
(`FlightOK`), so that with none under way everything but the newest entries is
obsolete. `FewAreKept` counts these: the oldest entry that is kept has all the others
after it, and if they were more than the bound it would not have been kept.

`TransfersProofs` proves from `TransfersAssumption`

    THEOREM TransfersTypeOK               == Spec => []TypeOK
    THEOREM TransfersSentInOrder          == Spec => []SentInOrder
    THEOREM TransfersAttachmentIsItsMedia == Spec => []AttachmentIsItsMedia
    THEOREM TransfersAnswersAreAsked      == Spec => []AnswersAreAsked
    THEOREM TransfersNothingLeftUnderWay  == Spec => []NothingLeftUnderWay

The two about media rest on `FilesInv`: a request is in one place and its number
says when it was asked (`Numbered`), completions are of requests that ended and
notes of downloads of their message (`Known`), and a download holds no other
media than it was asked for (`FilesRight`). `SentInOrder` alone says nothing of
the uploads that are still to be sent; `OrderInv` adds that commands are
admitted in order (`Admitted`), that an upload with another of its chat before
it waits at its gate for one that is still under way (`Behind`), that
`upload_order` knows the last one under way (`Last`), and that what is under way
comes after what was sent (`Later`). `FirstGoes` draws the conclusion: past its
gate is only the first. `NotesInv` adds to `FilesInv` that a noted download waits in
the channel, is pending or has its answer in the queue (`NotesAreUnderWay`): it is
handed from one of the three to the next in one step, and the answer takes the note away.

`TerminalProofs` proves of `Session`, for any data centres, any number of commands,
workers and migrations,

    THEOREM SessionTypeCorrect      == SessionSpec => []SessionType
    THEOREM SessionPromptsSignedOut == SessionSpec => []PromptsSignedOut
    THEOREM SessionReadyIsWanted    == SessionSpec => ReadyIsWanted
    THEOREM SessionPhasesAgree      == SessionSpec => []PhasesAgree

from `NoDcAssumption` (no data centre is the value for none) and `HopsAssumption` (a
token may move at least once). Whether a prompt is shown to a signed-out session
is decided by the answer of a call that may be interrupted; the invariant `SessionInv` says of every await of the worker what
the home data centre may have authorised by then (`SignedOut`, `SignedIn`), that
a token on the screen has not been accepted when the worker asks anew
(`TokenUnused`), that an answer belongs to a call (`AnswerOfACall`), and that a
command is in one queue at a time (`QueuesType`, `NothingLeftYet`). `FirstFound`
is the one use of well-foundedness: the first restart in the queue is the one
the worker finds.

The fourth says that once everything has been delivered the screen shows the phase the
worker waits in. At other moments it does not, and `Agreement` says what the difference
is: the phase of the screen is the one the worker is in, or there is news on its way that
will make it so (`ScreenFits`, `ToldIsShown`); a terminal that waits for an answer gets
one, because the command is in a queue, before the worker, or answered by what is on its
way (`AnswerComes`, `AnswerFits`); and there is one command at a time that the terminal
was permitted to send (`OnePermission`). The restart that the first prompt leaves without
an answer (run `escape_answered`) is excepted, and only that one.

It proves of `Presence`, from `PresenceAssumption` (the delays are in the order of the
constants in the code),

    THEOREM StatusReportedInTime == PresenceSpec => []ReportedInTime

and of the three parts together, under the specification of `MCTerminal`,

    THEOREM TerminalTypesHold == Spec => []TypeOK
    THEOREM TerminalInStep    == Spec => []InStep

by `TerminalInv`, the conjunction of their invariants: a step of the composition is a step
of one part and leaves the variables of the others alone (`PartsStep`).

`DialogProofs` proves that six dialogs implement `ReviewedAction`:

    THEOREM DeletionActsAsReviewed == DeletionSpec => ActsAsReviewed

and `ForwardActsAsReviewed`, `EditActsAsReviewed`, `InviteActsAsReviewed`,
`PollActsAsReviewed`, `ReactionActsAsReviewed` of their modules. `ActsAsReviewed`
is the formula `Reviewed!Spec` under the mapping of `TerminalDialog`. The proofs
share `DialogInv`: numbers of calls are unique and below the next (so an old
answer cannot be taken for a new one), an acting call under way is the one the
dialog awaits, it carries a version, the server holds a version and the prompt a
plan. `StepStutters`, `ChooseStep`, `CheckStep` and their like each show one kind
of step of the skeleton to be the step of `ReviewedAction` of the same name, and
the theorem of a dialog maps every action to one of these. `EditInv` adds that a
kept edit has a revision, `PollInv` that a review shows a definition. They rest
on `DialogBounds` and, for edits, `TypedIsText` (what the user types is not the
value that stands for no edit or for the original).

Of all the dialogs, under the specification of `MCDialogs`, it proves

    THEOREM EffectsAreAsConfirmed == Spec => []EffectsAsConfirmed
    THEOREM WhatIsShownIsTrue     == Spec => []ShownIsTrue
    THEOREM WhatIsToldIsRespected == Spec => ToldIsRespected

from `DialogsInv`, which gives each dialog an invariant of its own.

- The reviews of deletion and forwarding (`WaryInv`) and of polls and reactions
  (`HeedInv`). A plan that is ready looks like what the terminal was told last, and so
  does the answer the dialog waits for, unless the prompt was marked as invalid
  meanwhile: a look-up reads the server after it was asked for, and what is told in
  between either agrees with it or marks the prompt (`AwaitedFit`, `LooksSince`).
  A confirmation can then only carry what fits.
- What is carried out: every acting call of a forward has the id of its review
  (`OneIdPerReview`), that of a vote the answers picked for its version (`PollPicks`),
  and a join the number that follows its preview's, so that a second join of a preview
  would be the same request (`InviteFollows`).
- Edits (`KeepsInv`): while an original is loaded nothing is typed, the save that is
  awaited carries the text in the input, and a save that is done left it at the server.
- Pins (`PinsInv`): a page that has come for a list that loads and is not marked dirty
  has every pin that was told (`PageFits`). A cached page turns the loading back on, and
  the invariant survives that only because numbers are not used twice.
- Excerpts (`PreviewInv`): an update takes the entry from its batch, so that the answer
  for an entry still in it is no older than what was told (`BatchFits`).
- Chat information (`InfoInv`): an answer to a look-up that is still valid read the
  server after the last change told.
- Stickers (`StickersInv`): the pictures that count against the budget are those with a
  call, one each; `FS_Injection` turns this into the bound on calls.

They rest on `DialogBounds`, `TypedIsText` and `StickerConstants` (a sticker is none of
the panel's other requests).

It also proves

    THEOREM PastesAreRight == PastingSpec => []PastesGoWhereMeant

by `PastingInv`: whatever carries a paste (a read of the broker, an order, a
thread, a result) carries with it the place the paste is meant for, and a read
that is answered under the number the broker waits for is the read it waits for,
because numbers are not used twice, account switches or not.

And of everything in `MCDialogs`

    THEOREM DialogTypesHold == Spec => []TypeOK

`DialogTyped` holds in all of them: a call has a number that was given out and that no
other call has (`CallsTyped`), what the terminal was told is in the server's past and
nothing is carried out more often than it may be (`ServerTyped`). Two dialogs need more: a
prompt about a pin returns to the mode it was opened in (`PinReturns`), which may be any,
and a sticker panel shows sets that do not change. The bounds of pasting are found by
counting (`PastesInBounds`): each paste is in one place at a time, so that the read under
way, the orders, the preparation and the results that wait are no more than the pastes;
and it makes at most two reads, so that while the first one asks for types there is room
for the second (`AskingTypes`). They rest on `PastingBounds` (the bounds are naturals).

`WorkerProofs` proves of `SyncPipeline`, from `PipelineAssumption`,

    THEOREM PipelineTypeOK       == Spec => []TypeOK
    THEOREM PipelineSkipsNothing == Spec => []NothingIsSkipped
    THEOREM PipelineIsDurable    == Spec => Durable!Init /\ [][Durable!Extend]_<<stored, cursor>>

for every capacity of the queues, size of a transaction and number of updates and
crashes. An update is in one of many places between the server and the disk, and
nothing local says that none has been left out of all of them. `PipelineInv` says
that what the worker has covered, sent, taken and could take are one behind another
(`InOrder`); that the disk, alone and with what waits to be written, holds a segment
of the updates (`DiskIsSegment`); that every update up to the one an event in the
queue stands for is known to the cache or before it in the queue (`NoneLeftOut`); that
the cursors on their way are ahead of the one on disk, in order
(`CheckpointsInOrder`); and that what the terminal was handed is known and no page of
it behind the screen (`HandedInOrder`). The third theorem is the safety part of
`ImplementsDurableStream`; the liveness of `DurableStream` is model-checked.

and of `MetadataRefresh`, from `RefreshAssumption`,

    THEOREM ListsSettleCurrent    == ListsSpec => []SettledIsCurrent
    THEOREM PinsSettleCurrent     == ListsSpec => [](Settled(Pins)
                                         => listed[active] = version[active])
    THEOREM ListsAnswersNeverUndo == ListsSpec => AnswersNeverUndo

A command of two calls that fails in the second has changed a list, which the code
rechecks after some commands and not after others (`rechecked`). The history variable
`torn` names the lists left so; the first theorem needs no hypothesis, and the second,
of the pins of messages, not even that exception. `ListsInv`: no list is ahead of the server
(`ListsBehind`), a refresh asks for a list that is wanted (`AsksAreWanted`), and the
answer to a refresh that is not dirty is what the server has, unless a change is on
its way (`AnswersAreCurrent`). Of both loops together, as `MCWorker` composes them, it
proves `WorkerTypesHold == WorkerSpec => []WorkerTypeOK`.

`StoreProofs` proves of `UnreadCount`, from `UnreadAssumption`,

    THEOREM UnreadCountIsSound == CountSpec => CountIsSound

three action properties, which need to know what the entries of the log say
(`LogIsTrue`, `LogInOrder`), that a row of the cache is of a message that came
(`RowsHaveArrived`), that every boundary and every answer on its way is one the
server has had, and that a refresh which may replace the row knows all that the row
knows (`BoundariesAreServed`). What keeps an older count from erasing an arrival is
`NewestIsShown`: while the answer to a receipt is on its way, the row shows a message
at least as new as every arrival since, or has lost its last one.

It proves of `ContentJournal`, from `JournalAssumption` (the journal has room for one
entry),

    THEOREM StoredContentsAreCurrent == JournalSpec => []ContentsAreCurrent

What a recursive function computes cannot be shown here for every input, but the property
does not ask for all of it: it asks what an answer knows once it is lifted, and that is
decided by the last entry that says something. `JournalInv` says that the journal ends
with what was told last (`EndsCurrent`), also of the account's own choice, which only some
entries know (`ChoiceEnds`), and that an answer with no entry after its request is as
current as what was told (`AnswerFits`). The facts about `Replayed` follow from the places
where it would first go wrong, found by well-foundedness.

`TerminalProofs` proves of `Drafts`, from `DraftsAssumption` (the values for no
account and for no draft are not accounts or drafts, and the edits are finitely many),

    THEOREM DraftsAreNotLost == DraftsSpec => []NoDraftIsLost

The invariant follows a draft from the screen to the file. In memory (`InMemory`):
drafts on their way to the terminal are those of the file and come before the
identity of their account (`EventsAreTrue`), so that an account that can be edited
is loaded (`KnownAreLoaded`), and one that is not loaded has not been touched
(`UnloadedAreUntouched`). On disk (`OnDisk`): an account that was not modified is
stored as it is wanted (`UnmodifiedAreStored`), the snapshot in the channel has
every modified one as it is wanted when the turn is over (`QueuedIsWanted`), what
is written last is that snapshot (`LastIsQueued`), and a row that the writer skips
is in the file (`SkippedIsStored`).

`TranscriptProofs` proves of `Outbox`, for any texts, files, sends and retries,

    THEOREM SentMessagesAreShown == OutboxSpec => []SentIsShown
    THEOREM OutboxTypeCorrect    == OutboxSpec => []OutboxType

by `OutboxInv`. What the property says of a refused message and of one that was
carried holds only because an entry under way still awaits its answer and an answer is
of what the server did (`EntriesAreSettled`), because an entry that left the transcript
was replaced, was dropped by the user or looks like a message that arrived
(`NoneVanishes`), and because an entry goes when its message is shown, in whatever
order the answer, the update and the page come (`ShownOnce`). `merge_history` goes
through a page, a recursive function here: `MergeExists` and `MergeClears` are about
the first place where it would go wrong, found by well-foundedness (`LeastFound`).

And of `Transcript`, from `TranscriptAssumption` (a page holds at least one message and
fits a transcript, as `HISTORY_LIMIT` and `MAX_MESSAGES_PER_CHAT` do),

    THEOREM PagesFitTheUpdates    == TranscriptSpec => []PagesFit
    THEOREM TranscriptTypeCorrect == TranscriptSpec => []TranscriptType

A page was made at some moment after its request, and updates come meanwhile. The
invariant `TranscriptInv` says that whatever the terminal was told since the request
is in `history_changes` (`Tracked`, `ChangesAreTracked`), that the two kinds of request
exclude each other (`OneRequest`) and a page goes on where the window ends
(`PagesGoForward`, `WindowHolds`), and that what is unread is on the screen, after the
window or gave way at every moment, not only between requests (`UnreadIsKept`). After a
gap they hold as far as `Sound` says: a request for an older page that the gap left
alone may lack what the gap held. `LowerIsLower` and `LowerIsFull` are what the proof
needs to know of a page: nothing before its last message is left out, and a page that
leaves something out is full, so that the window ends with it. The second theorem is the bound
of the transcript: a page that is merged into a full one, from either end, and an arrival
make as many messages give way as they bring.

Of `Navigation`, from `NavigationAssumption` (the overlays are among the three there are),

    THEOREM NavigationStaysInItsChat == NavigationSpec => []StaysInItsChat
    THEOREM NavigationIsSteered      == NavigationSpec => [][StepsAsSteered]_navigationVars
    THEOREM NavigationTypeCorrect    == NavigationSpec => []NavigationType

`NavInv` has the property itself, since an overlay is opened over whatever mode there is
and closed to what is kept: with three overlays a mode leads back through at most three
others (`Beneath`), and none of them may be the composer when no chat is open. It adds the
shape of the list, of what leads through it and of what Telegram has (`ListShape`,
`ViewShape`, `HeldShape`), and that a refresh which has read the dialogs knows the newest
message of every chat that is not marked as changed since (`KnownInTime`), which is why the
list never goes back. That the cursor follows is a fact about finite sets: the place of a
chat is the number of those before it, and a place is of one chat only.

And of `Keys`, from `KeysAssumption` (what a configuration lists are specs of bindings),

    THEOREM KeysDoAsTyped   == KeysSpec => []KeysHold
    THEOREM KeysTypeCorrect == KeysSpec => []KeysType

by `KeysInv`: what is bound was let through by `insert` and no keys of a context begin others
of it (`SoundKeys`), which the built-in bindings satisfy and every configuration that parses;
and the chord and the count are what was typed since the last one ended (`PendsAsTyped`),
the count up to its bound, so that a key that completes a binding completes the one typed.

And of `Assets`, from `AssetsAssumption` (the bounds are naturals),

    THEOREM PastedPicturesExist == AssetsSpec => []PicturesExist
    THEOREM AssetsTypeCorrect   == AssetsSpec => []AssetsType

`AssetsInv` says of each picture that, while the user can still
reach it (`IsKept`), it exists and every lease of it is one whose end removes nothing
(`KeptExists`), that a picture that is being prepared is held by its thread or its
result alone (`FreshIsApart`), and that a sweep spares what is kept, which is the order
of the steps of `restore` (`KeptIsSpared`).

`ClientProofs` proves

    THEOREM UpdateReplacesSafely == InstallerSpec => []ReplacesSafely
    THEOREM CheckOffersAreTrue   == UpdateCheckSpec => []OffersAreTrue
    THEOREM AlertsAreGood        == AlertsSpec => []AlertsHold
    THEOREM PostedAlertsAreGood  == AlertsSpec => OnlyGoodIsPosted
    THEOREM SearchHeld           == SearchSpec => []SearchHolds
    THEOREM OpenedHitExists      == SearchSpec => OpensWhatExists

from `InstallerAssumption`, `UpdateCheckAssumption`,
`AlertsAssumption` and `SearchAssumption` (the bounds are naturals, and some release, room
for a message in a group, an attempt, a page and a question exist). `InstallInv` says what the files of an
updater are at every step (`IsSound`), that a missing executable is in the backup of an
updater that will move it back unless something is killed (`ExecutableIsKept`), and
that the release that runs is a release (`ReleasesAreTrue`). `CheckInv` adds to the
property that nothing was asked or answered in the future (`CheckedInThePast`).
`AlertsInv` says why one flag per alert is enough: what the thread may still post is
among the alerts the terminal can withdraw (`QueuedAreGood`), since the thread takes them
in their order and an alert is forgotten only when it came back (`JobsInOrder`) or is
replaced by one with the same last message, which never happens because no message that
was alerted waits in a group (`GroupsAreNew`). What waits is as the terminal knows it
(`GroupsAreCurrent`), and settings, kept or under way, are behind the server by no more
than the changes the terminal is still to be told of (`SettingsAreFresh`). What the
thread took from its channel it may still post, so all of it is said of whatever is under
way (`Underway`), and the flag is read in the step that decides to post.

`SearchInv` has two halves. Requests: every command, job, answer and page is of what the
panel asked under its number (`AllAreRight`), and a search under way is the last command
to the local worker or where that command led (`ServedInOrder`): whatever is replaced or
cancelled on the three queues belongs to an earlier request. Versions: what is told of a
message arrives in order on its way from the server to the panel (`VersionsInOrder`,
`ToldIsLast`); an answer in the stream was read after all that was told before its search
began, and what was told since is in `cloud` (`AnswersInTime`); so that the hits which the
terminal is sent are no older than what it was told before them (`ShownInTime`). A page
on the screen is kept current by the updates behind it, which is why the second half is
about the queues and not about the page.

Of the nine parts together, under the specification of `MCClient`,

    THEOREM ClientTypesHold     == Spec => []TypeOK
    THEOREM ClientControlsHold  == Spec => []ControlsHold
    THEOREM ClientUpdatesHold   == Spec => []UpdatesHold
    THEOREM ClientActsOnWhatIs  == Spec => ActsOnWhatIs
    THEOREM ClientActsAsSteered == Spec => ActsAsSteered

`PartsBehave` shows that in the composition each part behaves as by itself, so that every
theorem about a part is one about the composition. The types have theorems of their own
(`OutboxTypeCorrect`, `TranscriptTypeCorrect`, `NavigationTypeCorrect`, `KeysTypeCorrect`, `AlertsTypeCorrect`, `SearchTypeCorrect`,
`AssetsTypeCorrect`, `InstallerTypeCorrect`, `UpdateCheckTypeCorrect`); where a type bounds
something, an invariant says why it stays within (`RetriesAreSent`, `WithinBounds`, `AlertsSmall`, `InstallBounds`,
`AssetsBounds`, `CheckBounds`).

Every inductive invariant above was first checked by TLC on the instance of the run
that checks the property it is for.

Every invariant that a passing run checks is proved, and every action property. Model-checked
only: the liveness (`AllArrives`, `EveryTransferAnswered`, `RequestsEnd`, `WorkSettles` and
the fairness part of `ImplementsDurableStream`), since the prover can treat neither fairness
nor `ENABLED`. The five violations are counterexamples and need no proof.

What a recursive function computes (`Replayed`, the merge of a page into the transcript)
is not proved for every input, which takes induction over data; the proofs use the equation
that defines it and the least place at which a claim could fail.

## What is left out

- `MessageCache`: the pruning of the whole table to `MAX_MESSAGES` rows by date
  and the table `history_pages`. Marks (read, pinned) share a row's revision and
  are modelled as a change of it.
- `SyncPipeline`: answers other than a page of messages; the searches and the
  staging branch of the terminal's loop.
- `UnreadCount`: mentions, the unread mark of a chat, several chats.
- `Transfers`: answers that are older than the stream (`MessageCache` has them),
  sticker thumbnails, cancellation at the shutdown of the worker, the pruning of
  downloaded files, media without a source id, the digest itself (an upload
  whose file has changed is one that fails).
- `MetadataRefresh`: the list a command itself returns and shows; dialogs come
  in pages but are one answer here; the wait of pins for a known peer and its
  cooldown.
- `Session`: what is kept of a QR error, the proxy editor, flood waits (an error
  like any other), the sign-up that is refused.
- The dialogs: layout, scrolling, texts; `Stickers` does not send, and
  `PinnedMessages` leaves out the saved-messages list.
- `Drafts`: the format of the file; text is the number of its edit.
- `Pasting`: the chooser of files, the formats of what is pasted, copying to the
  clipboard, the helper of WSL.
- `Alerts`: texts and sounds, the prompt that mutes a chat, the bounds of 32 groups
  and 128 settings.
- `Search`: the parsing of filters and the ranking, mentions marked as read.
- `Assets`: several drafts and accounts, the bytes of a picture.
- `Installer`: reading of releases, archives and checksums beyond whole and damaged,
  permissions. `UpdateCheck`: the text of the footer.
- `Navigation`: which message is selected, the sidebar's width and whether it is hidden, the
  dialogs that other modules have, the texts by which a filter or a command finds a chat.
- `Keys`: descriptions, the help page, repeated keys that some actions refuse, the other
  settings of a configuration.
- `Outbox`: sends that are more than five minutes apart, the reply beside the text,
  several chats, the cancellation of an upload.
- `Transcript`: local messages in the window, the selection and the message a page
  keeps on the screen, delivery marks, jumps to an answered message or a pin, the
  bound on cached chats; an unread page that a terminal asks for when it gets the focus leaves
  the older request alone, which the keys clear.

## Not modelled, and why

- The update box (`vendor/grammers-session`): a patched copy of a third-party
  library. The modules rest on its contract, updates in order and once per box and
  gaps reported, which the cursor of `SyncPipeline` and the gaps of the other modules
  state.
- The rest of the conversation: the selected message, anchors and scrolling, jumps. Their events are those of the modelled workers.
- Typing activity: a map with an expiry per entry.
- The settings and the appearance of a configuration, the completion and the editing of a
  line: parsing and validation of text without shared state.
- Rendering: a pure function of the state.
- The other vendored libraries: their contracts (transactions, bounded queues, ordered
  updates) are assumed.

## Plan

What remains, in the order of what it would say about the system:

1. Modules: the update box of the client library, whose gaps `SyncPipeline` takes as
   given; the selected message and the anchors of the transcript.
2. Proofs: refinements. `Transfers` and `Search` each promise a queue that serves in order
   or replaces, which abstract specifications could state as `DurableStream` does.
