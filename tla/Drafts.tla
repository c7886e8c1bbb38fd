------------------------------- MODULE Drafts -------------------------------
(* The drafts of the user: the terminal's memory (app/drafts.rs, app/staging.rs), *)
(* the events by which a worker restores them (telegram/local.rs), the writer     *)
(* thread behind a watch channel (drafts.rs) and the file, which all accounts     *)
(* share. A draft is the number of the edit that made it.                         *)
EXTENDS Naturals, Sequences

CONSTANTS
    Account, Chat,
    NoAccount,     \* the identity of the account is not known yet
    Missing,       \* no entry in App.drafts, unlike an empty draft
    MaxEdits,      \* bound: edits the user ever makes
    MaxSwitches,   \* bound: workers started after the first one
    MaxFaults      \* bound: saves that fail and times the process is killed

ASSUME DraftsAssumption == NoAccount \notin Account /\ Missing \notin Nat /\ MaxEdits \in Nat

VARIABLES
    memory,        \* App.drafts
    loaded,        \* App.draft_accounts
    modified,      \* App.draft_modified_accounts
    dirty,         \* App.drafts_dirty
    identity,      \* App.account_user_id
    staging,       \* App.attachment_draft.pending: for whose draft, and its number
    nextRequest,   \* App.attachment_draft.next_request
    preparing,     \* attachments the worker prepares
    running,       \* the loop of the terminal: "running", "closing" or "exited"
    worker,        \* the worker: its account, where it is in serve, what it has loaded
    events,        \* from the worker to the terminal, in order
    queued,        \* the watch channel: the last snapshot and whether it is unseen
    writer,        \* write_loop: where it is, its snapshot, the one it saved before
    disk,          \* the file
    edits, switches, faults,
    wanted         \* ghost: the drafts as the user left them

appVars == <<memory, loaded, modified, dirty, identity, staging, nextRequest>>
draftBounds == <<edits, switches, faults>>
draftVars == <<appVars, preparing, running, worker, events, queued, writer, disk,
               draftBounds, wanted>>

Empty == 0   \* Draft::is_empty; the file has no row for it

NoStaging == [account |-> NoAccount, id |-> 0]
Nowhere == [a \in {} |-> Empty]
Started(account) == [account |-> account, at |-> "loading", known |-> {}]

DraftsInit ==
    /\ memory = [a \in Account |-> [c \in Chat |-> Missing]]
    /\ loaded = {} /\ modified = {} /\ dirty = FALSE
    /\ identity = NoAccount
    /\ staging = NoStaging /\ preparing = {} /\ nextRequest = 0
    /\ running = "running"
    /\ \E a \in Account : worker = Started(a)
    /\ events = <<>>
    /\ queued = [snapshot |-> Nowhere, unseen |-> FALSE]
    /\ writer = [at |-> "waiting", snapshot |-> Nowhere, previous |-> Nowhere]
    /\ disk = [a \in Account |-> [c \in Chat |-> Empty]]
    /\ edits = 0 /\ switches = 0 /\ faults = 0
    /\ wanted = disk

-------------------------------------------------------------------------------
(* The worker: drafts are read and sent before the identity is announced. *)

\* Mutant: the account is announced before its drafts.
LoadsDraftsLate(account) ==
    /\ events' = events \o <<[kind |-> "identity", account |-> account, rows |-> disk[account]],
                             [kind |-> "drafts", account |-> account, rows |-> disk[account]]>>
    /\ worker' = [worker EXCEPT !.at = "serving", !.account = account,
                                !.known = @ \cup {account}]

LoadsDrafts(account) ==
    /\ events' = events \o <<[kind |-> "drafts", account |-> account, rows |-> disk[account]],
                             [kind |-> "identity", account |-> account, rows |-> disk[account]]>>
    /\ worker' = [worker EXCEPT !.at = "serving", !.account = account,
                                !.known = @ \cup {account}]

\* serve: the account of the session's cache, if it holds one, or that of the
\* sign-in, announced again by every client that connects.
Identifies(account) ==
    /\ worker.at = "loading" => account = worker.account
    /\ worker.at = "serving" => Len(events) = 0
    /\ IF account \in worker.known
       THEN /\ events' = Append(events, [kind |-> "identity", account |-> account,
                                          rows |-> disk[account]])
            /\ UNCHANGED worker
       ELSE LoadsDrafts(account)
    /\ UNCHANGED <<appVars, preparing, running, queued, writer, disk, draftBounds,
                   wanted>>

-------------------------------------------------------------------------------
(* The terminal. Every turn of its loop begins with QueueSnapshot, so that an   *)
(* input or an event is handled only when nothing is dirty.                     *)

Turn == running = "running" /\ ~dirty

Text(draft) == IF draft = Missing THEN Empty ELSE draft

\* Mutant: a later load of an account fills the drafts that were emptied.
RestoreEmptied(account, rows) ==
    /\ loaded' = loaded \cup {account}
    /\ memory' = [memory EXCEPT ![account] = [c \in Chat |->
                    IF Text(@[c]) = Empty /\ rows[c] # Empty THEN rows[c] ELSE @[c]]]

\* restore_drafts: the first load of an account counts, and only for the chats that
\* have no entry.
RestoreDrafts(account, rows) ==
    /\ loaded' = loaded \cup {account}
    /\ memory' = IF account \in loaded THEN memory
                 ELSE [memory EXCEPT ![account] = [c \in Chat |->
                        IF @[c] = Missing /\ rows[c] # Empty THEN rows[c] ELSE @[c]]]

HandleEvent ==
    /\ Turn /\ events # <<>>
    /\ events' = Tail(events)
    /\ LET event == Head(events) IN
        \/ /\ event.kind = "drafts"
           /\ RestoreDrafts(event.account, event.rows)
           /\ UNCHANGED identity
        \/ /\ event.kind = "identity"
           /\ identity' = event.account
           /\ UNCHANGED <<memory, loaded>>
    /\ UNCHANGED <<modified, dirty, staging, nextRequest, preparing, running, worker,
                   queued, writer, disk, draftBounds, wanted>>

\* draft_at_mut and the change made through it: typing, clearing, sending.
Edits(account, chat, draft) ==
    /\ edits < MaxEdits
    /\ edits' = edits + 1
    /\ memory' = [memory EXCEPT ![account][chat] = draft]
    /\ wanted' = [wanted EXCEPT ![account][chat] = draft]
    /\ modified' = modified \cup {account}
    /\ dirty' = TRUE

Edit ==
    /\ Turn /\ identity # NoAccount
    /\ \E chat \in Chat, draft \in {Empty, edits + 1} : Edits(identity, chat, draft)
    /\ UNCHANGED <<loaded, identity, staging, nextRequest, preparing, running, worker,
                   events, queued, writer, disk, switches, faults>>

\* prepare_attachment_input: the draft it is for is fixed now.
PrepareAttachments ==
    /\ Turn /\ identity # NoAccount
    /\ staging = NoStaging /\ Len(events) = 0
    /\ nextRequest < MaxEdits
    /\ nextRequest' = nextRequest + 1
    /\ staging' = [account |-> identity, id |-> nextRequest + 1]
    /\ preparing' = preparing \cup {staging'}
    /\ UNCHANGED <<memory, loaded, modified, dirty, identity, running, worker, events,
                   queued, writer, disk, draftBounds, wanted>>

\* RemoveAttachment while they are prepared.
CancelPreparation ==
    /\ Turn /\ staging # NoStaging /\ staging.account = identity
    /\ staging' = NoStaging
    /\ UNCHANGED <<memory, loaded, modified, dirty, identity, nextRequest, preparing,
                   running, worker, events, queued, writer, disk, draftBounds, wanted>>

\* attachments_prepared: into the draft they were asked for, whichever is open now.
AttachmentsPrepared(request) ==
    /\ Turn
    /\ preparing' = preparing \ {request}
    /\ IF staging = request
       THEN /\ \E chat \in Chat : Edits(request.account, chat, edits + 1)
            /\ staging' = NoStaging
       ELSE UNCHANGED <<memory, modified, dirty, staging, edits, wanted>>
    /\ UNCHANGED <<loaded, identity, nextRequest, running, worker, events, queued, writer,
                   disk, switches, faults>>

\* take_draft_snapshot: only the accounts that are loaded and were modified.
Snapshot ==
    [a \in loaded \cap modified |-> [c \in Chat |-> Text(memory[a][c])]]

QueueSnapshot ==
    /\ running = "running" /\ dirty
    /\ dirty' = FALSE
    /\ queued' = [snapshot |-> Snapshot, unseen |-> TRUE]
    /\ UNCHANGED <<memory, loaded, modified, identity, staging, nextRequest, preparing,
                   running, worker, events, writer, disk, draftBounds, wanted>>

\* reset_for_account_switch keeps the drafts of every account; the events of the old
\* worker are dropped with their channel.
SwitchAccount ==
    /\ Turn /\ switches < MaxSwitches
    /\ switches' = switches + 1
    /\ identity' = NoAccount
    /\ staging' = NoStaging /\ preparing' = {} /\ nextRequest' = 0
    /\ events' = <<>>
    /\ \E a \in Account : worker' = Started(a)
    /\ UNCHANGED <<memory, loaded, modified, dirty, running, queued, writer, disk, edits,
                   faults, wanted>>

\* Mutant: the snapshot of the last turn is not queued.
QuitUnsaved ==
    /\ running = "running"
    /\ running' = "closing"
    /\ UNCHANGED <<appVars, preparing, worker, events, queued, writer, disk, draftBounds,
                   wanted>>

\* The loop ends, in the middle of a turn too: the last snapshot is queued and the
\* channel closed.
Quit ==
    /\ running = "running"
    /\ running' = "closing"
    /\ dirty' = FALSE
    /\ queued' = IF dirty THEN [snapshot |-> Snapshot, unseen |-> TRUE] ELSE queued
    /\ UNCHANGED <<memory, loaded, modified, identity, staging, nextRequest, preparing,
                   worker, events, writer, disk, draftBounds, wanted>>

\* The process is killed and started again; what was not saved is lost.
Crash ==
    /\ running # "exited" /\ faults < MaxFaults
    /\ faults' = faults + 1
    /\ memory' = [a \in Account |-> [c \in Chat |-> Missing]]
    /\ loaded' = {} /\ modified' = {} /\ dirty' = FALSE
    /\ identity' = NoAccount
    /\ staging' = NoStaging /\ preparing' = {} /\ nextRequest' = 0
    /\ running' = "running"
    /\ \E a \in Account : worker' = Started(a)
    /\ events' = <<>>
    /\ queued' = [snapshot |-> Nowhere, unseen |-> FALSE]
    /\ writer' = [at |-> "waiting", snapshot |-> Nowhere, previous |-> Nowhere]
    /\ wanted' = disk
    /\ UNCHANGED <<disk, edits, switches>>

-------------------------------------------------------------------------------
(* The writer thread. *)

WriterOnly == UNCHANGED <<appVars, preparing, worker, events, edits, switches, wanted>>

\* changed() returns for a snapshot that is unseen, closed or not; the snapshot is
\* borrowed when the window is over.
Borrow ==
    /\ \/ writer.at = "waiting" /\ queued.unseen
       \/ writer.at = "retrying"
    /\ writer' = [writer EXCEPT !.at = "saving", !.snapshot = queued.snapshot]
    /\ queued' = [queued EXCEPT !.unseen = FALSE]
    /\ UNCHANGED <<running, disk, faults>>
    /\ WriterOnly

\* The channel is closed and nothing is unseen: once more, to be sure.
LastSave ==
    /\ writer.at = "waiting" /\ ~queued.unseen /\ running = "closing"
    /\ writer' = [writer EXCEPT !.at = "last", !.snapshot = queued.snapshot]
    /\ UNCHANGED <<running, queued, disk, faults>>
    /\ WriterOnly

\* Store::save, one transaction; an account saved as it is before is skipped.
Same(account, snapshot, previous) ==
    account \in DOMAIN previous /\ previous[account] = snapshot[account]

Saved(snapshot, previous) ==
    [a \in Account |->
        IF a \in DOMAIN snapshot /\ ~Same(a, snapshot, previous)
        THEN snapshot[a] ELSE disk[a]]

SaveSucceeds ==
    /\ writer.at \in {"saving", "last"}
    /\ disk' = Saved(writer.snapshot, writer.previous)
    /\ writer' = [writer EXCEPT !.at = IF @ = "last" THEN "finished" ELSE "waiting",
                                !.previous = writer.snapshot]
    /\ running' = IF writer.at = "last" THEN "exited" ELSE running
    /\ UNCHANGED <<queued, faults>>
    /\ WriterOnly

\* Mutant: a snapshot counts as saved once it was tried.
SaveFailsForGood ==
    /\ writer.at \in {"saving", "last"} /\ faults < MaxFaults
    /\ faults' = faults + 1
    /\ IF writer.at = "last" \/ running = "closing"
       THEN writer' = [writer EXCEPT !.at = "failed"] /\ running' = "exited"
       ELSE /\ writer' = [writer EXCEPT !.at = "waiting", !.previous = writer.snapshot]
            /\ UNCHANGED running
    /\ UNCHANGED <<queued, disk>>
    /\ WriterOnly

\* Mutant: a save that fails is given up.
SaveFailsOnce ==
    /\ writer.at \in {"saving", "last"} /\ faults < MaxFaults
    /\ faults' = faults + 1
    /\ writer' = [writer EXCEPT !.at = IF @ = "last" THEN "failed" ELSE "waiting"]
    /\ running' = IF writer.at = "last" THEN "exited" ELSE running
    /\ UNCHANGED <<queued, disk>>
    /\ WriterOnly

\* While the terminal runs it is tried again, with the snapshot of that time; when
\* the terminal has gone the error ends the writer and is what the program reports.
SaveFails ==
    /\ writer.at \in {"saving", "last"} /\ faults < MaxFaults
    /\ faults' = faults + 1
    /\ IF writer.at = "last" \/ running = "closing"
       THEN writer' = [writer EXCEPT !.at = "failed"] /\ running' = "exited"
       ELSE writer' = [writer EXCEPT !.at = "retrying"] /\ UNCHANGED running
    /\ UNCHANGED <<queued, disk>>
    /\ WriterOnly

Writer == Borrow \/ LastSave \/ SaveSucceeds \/ SaveFails

DraftsNext ==
    \/ (running = "running" /\ \E account \in Account : Identifies(account))
    \/ HandleEvent
    \/ Edit
    \/ PrepareAttachments
    \/ CancelPreparation
    \/ (\E request \in preparing : AttachmentsPrepared(request))
    \/ QueueSnapshot
    \/ SwitchAccount
    \/ Quit
    \/ Crash
    \/ Writer

-------------------------------------------------------------------------------
(* Properties. *)

DraftsType ==
    /\ memory \in [Account -> [Chat -> {Missing} \cup 0..MaxEdits]]
    /\ disk \in [Account -> [Chat -> 0..MaxEdits]]
    /\ loaded \subseteq Account /\ modified \subseteq Account
    /\ identity \in Account \cup {NoAccount}
    /\ DOMAIN queued.snapshot \subseteq Account
    /\ DOMAIN writer.previous \subseteq Account

\* What the user sees is what he wrote or what was stored: no restored draft ever
\* replaces an edit, in whichever order loads, edits and account switches come
\* (restore_drafts, app/drafts.rs:30).
EditsAreKept ==
    \A a \in loaded, c \in Chat : Text(memory[a][c]) = wanted[a][c]

\* Nothing is edited before the drafts of its account are loaded, otherwise the
\* edit would be left out of every snapshot (take_draft_snapshot).
EditedIsLoaded == modified \subseteq loaded

\* The writer skips an account only when the file already holds its snapshot.
SkippedIsStored ==
    \A a \in DOMAIN writer.previous : disk[a] = writer.previous[a]

\* A normal exit that reports no error has saved the drafts of every account as
\* they were left, and has erased none (Writer::finish).
SavedAtExit ==
    (running = "exited" /\ writer.at = "finished") => disk = wanted

\* What the user wrote is what he sees, and is never left out of a snapshot.
DraftsAreKept == EditsAreKept /\ EditedIsLoaded

\* What the writer takes for saved is saved, and at the end everything is.
DraftsReachDisk == SkippedIsStored /\ SavedAtExit

\* No draft is lost: what is in memory is the user's last edit, and what was edited
\* is on its way to the disk or there.
NoDraftIsLost == DraftsAreKept /\ DraftsReachDisk

\* While the program runs on, what is edited becomes durable, whatever the saves that
\* fail, unless the failure is what the program reports when it ends.
BecomesDurable == (disk # wanted) ~> (disk = wanted \/ writer.at = "failed")

DraftsSpec ==
    /\ DraftsInit
    /\ [][DraftsNext]_draftVars
    /\ WF_draftVars(QueueSnapshot) /\ WF_draftVars(Writer)

===============================================================================
