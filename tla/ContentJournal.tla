---------------------------- MODULE ContentJournal ----------------------------
(* The poll, or the reactions, of one message in the store (cache/journal.rs,   *)
(* cache/polls.rs, cache/reactions.rs, the parts of cache.rs and contents.rs    *)
(* that use them). Changes that are told while an answer is on its way are kept *)
(* in a bounded journal and replayed over the answer; when one was dropped, the *)
(* answer is marked stale. The server's contents are numbered by its changes: a *)
(* copy is the number up to which it knows what all see (counts) and the number *)
(* up to which it knows the account's own choice.                               *)
EXTENDS Naturals, Sequences

CONSTANTS
    Review,        \* look-ups of the poll or the reactions alone
    History,       \* loads of messages: history, pins, search, replies, one message
    JournalLimit,  \* length of the journal, 512 in the code
    Change,        \* what a change may be: [own, whole, edit : BOOLEAN]
    MaxChanges,    \* bound: changes at the server
    MaxEvents,     \* bound: events that the store applies
    MaxInvalid     \* bound: gaps after which the store starts over

ASSUME JournalAssumption ==
    /\ JournalLimit \in Nat \ {0}
    /\ Change \subseteq [own : BOOLEAN, whole : BOOLEAN, edit : BOOLEAN]

Request == Review \cup History

VARIABLES
    kind,       \* "poll" or "reactions": what the contents are
    changes,    \* the server's changes, in order
    passed,     \* how many of them the network task has passed on
    request,    \* what became of each request; the server's answer when there is one
    revision,   \* Store.revision
    started,    \* poll_revisions, reaction_revisions, history_revisions, ...
    journal,    \* Journal.updates: [revision, update]
    overflow,   \* Journal.overflow
    row,        \* the message's row: its content, or NoContent, and its revision
    passedOn,   \* ghost: the content of the last answer given to the terminal
    heard,      \* ghost: what the changes told by updates amount to
    invalid

journalVars ==
    <<kind, changes, passed, request, revision, started, journal, overflow, row, passedOn,
      heard, invalid>>

NoContent == [shared |-> 0, own |-> 0, known |-> FALSE, stale |-> TRUE, there |-> FALSE]
Content(shared, own, known) ==
    [shared |-> shared, own |-> own, known |-> known, stale |-> FALSE, there |-> TRUE]

\* The last of the first n changes that was one of the own choice.
OwnAt(n) ==
    LET own == {i \in 1..n : changes[i].own} IN
    IF own = {} THEN 0 ELSE CHOOSE i \in own : \A j \in own : j <= i

\* A change tells the counts and, if it is not minimal, the own choice; a change of
\* a poll may repeat its definition.
UpdateOf(n) ==
    [shared |-> n, own |-> OwnAt(n), known |-> changes[n].own, stale |-> FALSE,
     whole |-> changes[n].whole]

\* Poll::apply, Summary::apply.
Applied(content, update) ==
    [content EXCEPT
        !.shared = update.shared,
        !.own = IF update.known THEN update.own ELSE @,
        !.known = @ \/ update.known,
        !.stale = IF kind = "poll"
                  THEN update.stale \/ (~update.whole /\ @)
                  ELSE update.stale \/ (~update.known /\ @)]

\* polls::snapshot; for reactions the summary itself.
AsUpdate(content) ==
    [shared |-> content.shared, own |-> content.own, known |-> content.known,
     stale |-> content.stale, whole |-> TRUE]

\* merge_cached, merge_summary: what the answer leaves out comes from the row.
MergeCached(content) ==
    IF row.content.there /\ (kind = "poll" \/ ~content.known)
    THEN Applied(row.content, AsUpdate(content))
    ELSE content

\* The entries after a revision. They are in the order of their revisions, so that
\* the others are the first ones.
UpTo(entries, rev) ==
    CHOOSE n \in 0..Len(entries) :
        \A i \in 1..Len(entries) : entries[i].revision > rev <=> i > n
After(entries, rev) == SubSeq(entries, UpTo(entries, rev) + 1, Len(entries))

\* Poll::apply, Summary::apply, change by change.
Replayed(content, entries) ==
    LET replay[n \in 0..Len(entries)] ==
            IF n = 0 THEN content ELSE Applied(replay[n - 1], entries[n].update)
    IN replay[Len(entries)]

\* Journal::since, Journal::stale and reconcile.
Reconciled(content, start) ==
    [Replayed(content, After(journal, start)) EXCEPT !.stale = @ \/ start < overflow]

-------------------------------------------------------------------------------
JournalInit ==
    /\ kind \in {"poll", "reactions"}
    /\ changes = <<>> /\ passed = 0
    /\ request = [r \in Request |-> [at |-> "idle", answer |-> NoContent]]
    /\ revision = 0
    /\ started = [r \in {} |-> 0]
    /\ journal = <<>> /\ overflow = 0
    /\ row \in {[content |-> NoContent, revision |-> 0],
                [content |-> Content(0, 0, TRUE), revision |-> 0]}
    /\ passedOn = NoContent
    /\ heard = [shared |-> 0, own |-> 0]
    /\ invalid = 0

\* The contents change at the server; it is told by an update of its own or by an
\* edit of the message.
ContentChanges ==
    /\ Len(changes) < MaxChanges
    /\ \E change \in Change : changes' = Append(changes, change)
    /\ UNCHANGED <<passed, request, revision, started, journal, overflow, row, passedOn,
                   heard, invalid>>

\* The server answers with what it holds at that time, in full or without the
\* account's own choice.
ContentAnswers(r) ==
    /\ request[r].at = "asked"
    /\ \E known \in BOOLEAN :
        request' = [request EXCEPT ![r] =
            [at |-> "answered", answer |-> Content(Len(changes), OwnAt(Len(changes)), known)]]
    /\ UNCHANGED <<changes, passed, revision, started, journal, overflow, row, passedOn,
                   heard, invalid>>

\* Mutant: what is dropped for want of room is not remembered.
RecordForgetting(entries, entry) ==
    IF Len(entries) < JournalLimit
    THEN [kept |-> Append(entries, entry), dropped |-> 0]
    ELSE [kept |-> Append(Tail(entries), entry), dropped |-> 0]

\* Journal::record: the oldest entry makes room.
Record(entries, entry) ==
    IF Len(entries) < JournalLimit
    THEN [kept |-> Append(entries, entry), dropped |-> 0]
    ELSE [kept |-> Append(Tail(entries), entry), dropped |-> Head(entries).revision]

\* Journal::prune at the end of a transaction: entries no request in flight needs.
OldestInFlight(starts, rev) ==
    LET all == {starts[r] : r \in DOMAIN starts} \cup {rev}
    IN CHOOSE n \in all : \A m \in all : n <= m

Prune(entries, over, starts, rev) ==
    LET oldest == OldestInFlight(starts, rev) IN
    /\ journal' = After(entries, oldest)
    /\ overflow' = IF oldest >= over THEN 0 ELSE over

\* The end of an event in apply: it is the last of its transaction, or not.
Applies(entries, dropped, starts) ==
    LET over == IF dropped = 0 THEN overflow ELSE dropped IN
    /\ revision < MaxEvents
    /\ revision' = revision + 1
    /\ started' = starts
    /\ \/ Prune(entries, over, starts, revision + 1)
       \/ journal' = entries /\ overflow' = over

\* PollLoading, ReactionsLoading, HistoryLoading: sent before the request is.
Loading(r) ==
    /\ request[r].at = "idle"
    /\ request' = [request EXCEPT ![r].at = "asked"]
    /\ Applies(journal, 0, [q \in DOMAIN started \cup {r} |->
                                IF q = r THEN revision + 1 ELSE started[q]])
    /\ UNCHANGED <<changes, passed, row, passedOn, heard, invalid>>

\* PollChanged, ReactionsChanged.
Changed ==
    /\ passed < Len(changes) /\ ~changes[passed + 1].edit
    /\ passed' = passed + 1
    /\ LET update == UpdateOf(passed + 1)
           kept == Record(journal, [revision |-> revision + 1, update |-> update]) IN
        /\ Applies(kept.kept, kept.dropped, started)
        /\ row' = IF row.content.there
                  THEN [content |-> Applied(row.content, update), revision |-> revision + 1]
                  ELSE row
        /\ heard' = [shared |-> update.shared, own |-> IF update.known THEN update.own ELSE heard.own]
    /\ passedOn' = NoContent
    /\ UNCHANGED <<changes, request, invalid>>

\* MessageUpdated, NewMessage, CacheMessage, MessageSent: written over the row with
\* what they leave out, and not recorded.
Edited ==
    /\ passed < Len(changes) /\ changes[passed + 1].edit
    /\ passed' = passed + 1
    /\ Applies(journal, 0, started)
    /\ LET message == Content(passed + 1, OwnAt(passed + 1), changes[passed + 1].own) IN
        row' = [content |-> MergeCached(message), revision |-> revision + 1]
    /\ passedOn' = NoContent
    /\ UNCHANGED <<changes, request, heard, invalid>>

Without(r) == [q \in DOMAIN started \ {r} |-> started[q]]
Answered(r) == Reconciled(MergeCached(request[r].answer), started[r])

\* PollLoaded, ReactionsLoaded.
Loaded(r) ==
    /\ request[r].at = "answered" /\ r \in DOMAIN started
    /\ request' = [request EXCEPT ![r] = [at |-> "idle", answer |-> NoContent]]
    /\ LET update == AsUpdate(Answered(r))
           kept == Record(journal, [revision |-> revision + 1, update |-> update]) IN
        /\ Applies(kept.kept, kept.dropped, Without(r))
        /\ row' = IF row.content.there
                  THEN [content |-> Applied(row.content, update), revision |-> revision + 1]
                  ELSE row
    /\ passedOn' = Answered(r)
    /\ UNCHANGED <<changes, passed, heard, invalid>>

\* History and the other answers that hold messages: write_message keeps a row that
\* is newer than the request.
MessagesLoaded(r) ==
    /\ request[r].at = "answered" /\ r \in DOMAIN started
    /\ request' = [request EXCEPT ![r] = [at |-> "idle", answer |-> NoContent]]
    /\ Applies(journal, 0, Without(r))
    /\ row' = IF row.content.there /\ row.revision > started[r] THEN row
              ELSE [content |-> Answered(r), revision |-> revision + 1]
    /\ passedOn' = Answered(r)
    /\ UNCHANGED <<changes, passed, heard, invalid>>

\* The request fails.
Fails(r) ==
    /\ request[r].at \in {"asked", "answered"} /\ r \in DOMAIN started
    /\ request' = [request EXCEPT ![r] = [at |-> "idle", answer |-> NoContent]]
    /\ Applies(journal, 0, Without(r))
    /\ UNCHANGED <<changes, passed, row, passedOn, heard, invalid>>

\* CacheInvalidated: changes were missed; rows and requests are forgotten, what the
\* journal holds stays.
ContentInvalidated ==
    /\ invalid < MaxInvalid /\ invalid' = invalid + 1
    /\ passed' \in passed..Len(changes)
    /\ request' = [r \in Request |-> [at |-> "idle", answer |-> NoContent]]
    /\ Applies(journal, 0, [r \in {} |-> 0])
    /\ row' = [content |-> NoContent, revision |-> 0]
    /\ passedOn' = NoContent
    /\ UNCHANGED <<changes, heard>>

JournalNext ==
    /\ UNCHANGED kind
    /\ \/ ContentChanges
       \/ Changed
       \/ Edited
       \/ ContentInvalidated
       \/ \E r \in Request : ContentAnswers(r) \/ Loading(r) \/ Fails(r)
       \/ \E r \in Review : Loaded(r)
       \/ \E r \in History : MessagesLoaded(r)

JournalSpec == JournalInit /\ [][JournalNext]_journalVars

-------------------------------------------------------------------------------
(* Properties. *)

JournalType ==
    /\ passed \in 0..Len(changes)
    /\ DOMAIN started \subseteq Request
    /\ Len(journal) <= JournalLimit
    /\ \A i, j \in 1..Len(journal) : i < j => journal[i].revision < journal[j].revision
    /\ \A i \in 1..Len(journal) : overflow < journal[i].revision /\ journal[i].revision <= revision
    /\ row.revision <= revision

Counts(content) == content.there /\ ~content.stale => content.shared >= heard.shared
OwnChoice(content) ==
    content.there /\ ~content.stale /\ content.known => content.own >= heard.own

\* Whatever changes are told while an answer is on its way, and however many the
\* journal had to drop: the counts that the store keeps and those it passes on are
\* no older than the changes told, or they are marked stale.
CountsAreCurrent == Counts(row.content) /\ Counts(passedOn)

\* And so is the account's own choice, which decides what a vote or a reaction
\* replaces ("Dropped patches require a fresh lookup before choices can be trusted",
\* cache/polls.rs:14). It holds of reactions; of a poll, a change that repeats its
\* definition clears the mark although it says nothing of the choice (polls.rs:111).
ChoiceIsCurrent == OwnChoice(row.content) /\ OwnChoice(passedOn)

\* The journal itself stays in order and within its bound, and the rows in the past.
ContentsAreCurrent ==
    JournalType /\ CountsAreCurrent /\ (kind = "reactions" => ChoiceIsCurrent)
===============================================================================
