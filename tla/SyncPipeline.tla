---------------------------- MODULE SyncPipeline ----------------------------
(***************************************************************************)
(* The path of an update from the server to the disk and to the screen.    *)
(*                                                                         *)
(*   network worker --net--> local worker --ui--> terminal loop            *)
(*        ^                   |   |                    |                   *)
(*        +--- commands ------+   +--> cache file      +--> inbox          *)
(*                                                                         *)
(* The worker (telegram/mod.rs, run) takes the updates in batches, sends   *)
(* them one event at a time and closes each batch with a SyncCheckpoint.   *)
(* The local worker (telegram/local.rs, serve) collects events and writes  *)
(* them to the cache in transactions, answers the terminal from the cache  *)
(* and hands every event on.  All queues are bounded and the sends of both *)
(* workers wait for room; the program may end at any step.                 *)
(*                                                                         *)
(* An update is its number in the server's order.  A page of messages is   *)
(* the number of the last update its contents know of.                     *)
(***************************************************************************)
EXTENDS Integers, Sequences, FiniteSets

CONSTANTS
    Updates,            \* bound on the updates the server produces
    NetCapacity,        \* EVENT_QUEUE_CAPACITY, from the worker to local.rs
    UiCapacity,         \* EVENT_QUEUE_CAPACITY, from local.rs to the terminal
    CommandCapacity,    \* COMMAND_QUEUE_CAPACITY
    MaxRequests,        \* MAX_REQUESTS
    FlushSize,          \* the 256 of serve
    MaxLoads,           \* bound on the commands of the user
    MaxRestarts         \* bound on the ends of the program

ASSUME PipelineAssumption ==
    /\ {Updates, MaxLoads, MaxRestarts} \subseteq Nat
    /\ {NetCapacity, UiCapacity, CommandCapacity, MaxRequests, FlushSize}
         \subseteq Nat \ {0}

VARIABLES
    produced,   \* the server: updates so far
    batch,      \* worker: last update of the batch it took
    sent,       \* worker: last update it sent
    covered,    \* worker: update of its last checkpoint
    alive,      \* worker: run has not returned
    flight,     \* worker: its requests, with the answer of each
    net,        \* events from the worker
    netcmds,    \* commands to the worker, in the channel
    pending,    \* commands to the worker, waiting for the channel
    inbox,      \* commands from the terminal
    changes,    \* local.rs: events not yet written
    forward,    \* local.rs: events it is about to hand on
    ui,         \* events to the terminal
    shown,      \* the terminal: the updates whose effects it shows
    stored,     \* cache file: updates applied
    cursor,     \* cache file: the cursor
    asked,      \* commands of the user so far
    restarts    \* ends of the program so far

worker == <<batch, sent, covered, alive, flight>>
disk == <<stored, cursor>>
queues == <<netcmds, pending, inbox>>
limits == <<asked, restarts>>
vars == <<produced, worker, net, queues, changes, forward, ui, shown, disk, limits>>

-----------------------------------------------------------------------------
Slot == 1 .. MaxRequests
Free == Updates + 1
Waiting == Updates + 2

Event == [type : {"update", "checkpoint", "page", "loading", "failed"},
          at : 0 .. Updates]
Update(u) == [type |-> "update", at |-> u]
Checkpoint(u) == [type |-> "checkpoint", at |-> u]
Page(u) == [type |-> "page", at |-> u]
Loading == [type |-> "loading", at |-> 0]
Failed == [type |-> "failed", at |-> 0]

Top(S) == IF S = {} THEN 0 ELSE CHOOSE u \in S : \A v \in S : v <= u
Larger(a, b) == IF a > b THEN a ELSE b

TypeOK ==
    /\ {produced, batch, sent, covered, cursor} \subseteq 0 .. Updates
    /\ alive \in BOOLEAN
    /\ flight \in [Slot -> 0 .. Waiting]
    /\ {net, changes, forward, ui} \subseteq Seq(Event)
    /\ Len(net) <= NetCapacity /\ Len(ui) <= UiCapacity
    /\ Len(changes) < FlushSize /\ Len(forward) <= 2
    /\ {netcmds, pending, inbox} \subseteq 0 .. CommandCapacity
    /\ {stored, shown} \subseteq SUBSET (1 .. Updates)
    /\ asked \in 0 .. MaxLoads /\ restarts \in 0 .. MaxRestarts

Init ==
    /\ produced = 0
    /\ batch = 0 /\ sent = 0 /\ covered = 0 /\ alive = TRUE
    /\ flight = [s \in Slot |-> Free]
    /\ net = <<>> /\ changes = <<>> /\ forward = <<>> /\ ui = <<>>
    /\ netcmds = 0 /\ pending = 0 /\ inbox = 0
    /\ shown = {}
    /\ stored = {} /\ cursor = 0
    /\ asked = 0 /\ restarts = 0

-----------------------------------------------------------------------------
(* Store::apply writes the events of one call in one transaction, in order. *)
StoredWith(evs) == stored \cup {evs[i].at : i \in {j \in DOMAIN evs : evs[j].type = "update"}}

CursorWith(evs) ==
    LET marks == {i \in DOMAIN evs : evs[i].type = "checkpoint"}
    IN IF marks = {} THEN cursor ELSE evs[Top(marks)].at

Apply(evs) ==
    /\ stored' = StoredWith(evs)
    /\ cursor' = CursorWith(evs)

-----------------------------------------------------------------------------
(* The network worker.  Inside a batch it does nothing but send: commands,
   answers and the next batch wait in its select loop. *)
Idle == alive /\ covered = batch
Room == Len(net) < NetCapacity

ServerProduces ==
    /\ produced < Updates
    /\ produced' = produced + 1
    /\ UNCHANGED <<worker, net, queues, changes, forward, ui, shown, disk, limits>>

TakeBatch ==
    /\ Idle
    /\ batch' \in batch + 1 .. produced
    /\ UNCHANGED <<produced, sent, covered, alive, flight, net, queues, changes,
                   forward, ui, shown, disk, limits>>

SendUpdate ==
    /\ alive /\ sent < batch /\ Room
    /\ sent' = sent + 1
    /\ net' = Append(net, Update(sent + 1))
    /\ UNCHANGED <<produced, batch, covered, alive, flight, queues, changes,
                   forward, ui, shown, disk, limits>>

(* Mutant: the checkpoint is sent ahead of the updates it covers. *)
CheckpointFirst ==
    /\ alive /\ covered < batch /\ Room
    /\ covered' = batch
    /\ net' = Append(net, Checkpoint(batch))
    /\ UNCHANGED <<produced, batch, sent, alive, flight, queues, changes,
                   forward, ui, shown, disk, limits>>

SendCheckpoint ==
    /\ alive /\ sent = batch /\ covered < batch /\ Room
    /\ covered' = batch
    /\ net' = Append(net, Checkpoint(batch))
    /\ UNCHANGED <<produced, batch, sent, alive, flight, queues, changes,
                   forward, ui, shown, disk, limits>>

(* handle_command: HistoryLoading precedes the spawned request. *)
TakeCommand(s) ==
    /\ Idle /\ Room
    /\ netcmds > 0 /\ flight[s] = Free
    /\ netcmds' = netcmds - 1
    /\ flight' = [flight EXCEPT ![s] = Waiting]
    /\ net' = Append(net, Loading)
    /\ UNCHANGED <<produced, batch, sent, covered, alive, pending, inbox, changes,
                   forward, ui, shown, disk, limits>>

ServerAnswers(s) ==
    /\ alive /\ flight[s] = Waiting
    /\ flight' = [flight EXCEPT ![s] = produced]
    /\ UNCHANGED <<produced, batch, sent, covered, alive, net, queues, changes,
                   forward, ui, shown, disk, limits>>

CompleteRequest(s) ==
    /\ Idle /\ Room
    /\ flight[s] \in 0 .. Updates
    /\ flight' = [flight EXCEPT ![s] = Free]
    /\ net' = Append(net, Page(flight[s]))
    /\ UNCHANGED <<produced, batch, sent, covered, alive, queues, changes,
                   forward, ui, shown, disk, limits>>

(* run returns with an error: the requests are aborted, the events stay. *)
WorkerFails ==
    /\ alive /\ restarts < MaxRestarts
    /\ alive' = FALSE
    /\ flight' = [s \in Slot |-> Free]
    /\ netcmds' = 0
    /\ restarts' = restarts + 1
    /\ UNCHANGED <<produced, batch, sent, covered, net, pending, inbox, changes,
                   forward, ui, shown, disk, asked>>

-----------------------------------------------------------------------------
(* The local worker.  It does nothing else while it waits to hand on. *)

(* An answer is lifted to what the store has applied meanwhile: the changes
   are flushed first, then reconcile_snapshots corrects the receipts, polls and
   reactions of the answer from the cache file.  (Edits and deletions are
   judged by revisions instead: see MessageCache.) *)
Received(e) ==
    IF e.type = "page" THEN Page(Larger(e.at, Top(StoredWith(changes)))) ELSE e

Kept(e) == Append(IF e.type = "page" THEN <<>> ELSE changes, Received(e))

(* Mutant: only a checkpoint ends a transaction. *)
FlushesAtCheckpoint(e) == e.type = "checkpoint"

Flushes(e) == e.type = "checkpoint" \/ Len(Kept(e)) >= FlushSize

ReceiveEvent ==
    /\ forward = <<>> /\ net # <<>>
    /\ LET e == Head(net) IN
       /\ forward' = <<Received(e)>>
       /\ IF Flushes(e)
          THEN Apply(Append(changes, e)) /\ changes' = <<>>
          ELSE /\ IF e.type = "page" THEN Apply(changes) ELSE UNCHANGED disk
               /\ changes' = Kept(e)
    /\ net' = Tail(net)
    /\ UNCHANGED <<produced, worker, queues, ui, shown, limits>>

(* Mutant: an event that finds the queue full is dropped (try_send). *)
HandOnOrDrop ==
    /\ forward # <<>>
    /\ ui' = IF Len(ui) < UiCapacity THEN Append(ui, Head(forward)) ELSE ui
    /\ forward' = Tail(forward)
    /\ UNCHANGED <<produced, worker, net, queues, changes, shown, disk, limits>>

HandOn ==
    /\ forward # <<>> /\ Len(ui) < UiCapacity
    /\ ui' = Append(ui, Head(forward))
    /\ forward' = Tail(forward)
    /\ UNCHANGED <<produced, worker, net, queues, changes, shown, disk, limits>>

FlushTick ==
    /\ forward = <<>> /\ changes # <<>>
    /\ Apply(changes)
    /\ changes' = <<>>
    /\ UNCHANGED <<produced, worker, net, queues, forward, ui, shown, limits>>

(* LoadHistory: the changes are written before the cached page is read; the
   command then goes on to the network, or fails when too many wait. *)
CachedPage == IF stored' = {} THEN <<>> ELSE <<Page(Top(stored'))>>

(* Mutant: the cached page is read without writing the changes first. *)
ServeFromDisk ==
    /\ forward = <<>> /\ inbox > 0
    /\ inbox' = inbox - 1
    /\ UNCHANGED <<disk, changes>>
    /\ IF pending < CommandCapacity
       THEN pending' = pending + 1 /\ forward' = CachedPage
       ELSE UNCHANGED pending /\ forward' = Append(CachedPage, Failed)
    /\ UNCHANGED <<produced, worker, net, netcmds, ui, shown, limits>>

ServeCommand ==
    /\ forward = <<>> /\ inbox > 0
    /\ inbox' = inbox - 1
    /\ Apply(changes)
    /\ changes' = <<>>
    /\ IF pending < CommandCapacity
       THEN pending' = pending + 1 /\ forward' = CachedPage
       ELSE UNCHANGED pending /\ forward' = Append(CachedPage, Failed)
    /\ UNCHANGED <<produced, worker, net, netcmds, ui, shown, limits>>

PassCommand ==
    /\ forward = <<>> /\ alive
    /\ pending > 0 /\ netcmds < CommandCapacity
    /\ pending' = pending - 1
    /\ netcmds' = netcmds + 1
    /\ UNCHANGED <<produced, worker, net, inbox, changes, forward, ui, shown, disk, limits>>

-----------------------------------------------------------------------------
(* The terminal loop takes events as they come and never waits to send. *)
Ask ==
    /\ asked < MaxLoads /\ inbox < CommandCapacity
    /\ asked' = asked + 1
    /\ inbox' = inbox + 1
    /\ UNCHANGED <<produced, worker, net, netcmds, pending, changes, forward, ui,
                   shown, disk, restarts>>

Show ==
    /\ ui # <<>>
    /\ ui' = Tail(ui)
    /\ shown' = shown \cup {u \in {Head(ui).at} : Head(ui).type = "update"}
    /\ UNCHANGED <<produced, worker, net, queues, changes, forward, disk, limits>>

-----------------------------------------------------------------------------
(* Mutant: updates resume behind the last checkpoint the worker sent. *)
ResumeAtSent ==
    /\ batch' = covered /\ sent' = covered /\ covered' = covered /\ alive' = TRUE
    /\ flight' = [s \in Slot |-> Free]
    /\ net' = <<>> /\ changes' = <<>> /\ forward' = <<>> /\ ui' = <<>>
    /\ netcmds' = 0 /\ pending' = 0 /\ inbox' = 0
    /\ shown' = stored'
    /\ UNCHANGED <<produced, asked>>

(* A new session reads the cache file and resumes the updates from its
   cursor; everything else is gone. *)
NewSession ==
    /\ batch' = cursor' /\ sent' = cursor' /\ covered' = cursor' /\ alive' = TRUE
    /\ flight' = [s \in Slot |-> Free]
    /\ net' = <<>> /\ changes' = <<>> /\ forward' = <<>> /\ ui' = <<>>
    /\ netcmds' = 0 /\ pending' = 0 /\ inbox' = 0
    /\ shown' = stored'
    /\ UNCHANGED <<produced, asked>>

Crash ==
    /\ restarts < MaxRestarts
    /\ restarts' = restarts + 1
    /\ UNCHANGED disk
    /\ NewSession

(* The terminal drops the command channel: the changes are written, what is
   still in the event channel is not. *)
Quit ==
    /\ forward = <<>> /\ restarts < MaxRestarts
    /\ restarts' = restarts + 1
    /\ Apply(changes)
    /\ NewSession

(* The worker is gone: its events are read to the end, unless the select
   finds the command channel closed first.  The terminal then starts a new
   worker, or the user a new program. *)
LocalEnds ==
    /\ ~alive /\ forward = <<>>
    /\ net = <<>> \/ pending > 0
    /\ Apply(changes)
    /\ NewSession
    /\ UNCHANGED restarts

WorkerStep ==
    \/ TakeBatch \/ SendUpdate \/ SendCheckpoint
    \/ \E s \in Slot : TakeCommand(s) \/ CompleteRequest(s)

LocalStep == ReceiveEvent \/ FlushTick \/ ServeCommand \/ PassCommand \/ LocalEnds

Next ==
    \/ ServerProduces \/ (\E s \in Slot : ServerAnswers(s))
    \/ WorkerStep \/ WorkerFails
    \/ LocalStep \/ HandOn
    \/ Ask \/ Show
    \/ Crash \/ Quit

(* The loops of the three tasks go on while they can; the branches of the
   local select are polled in random order, so a ready one is not starved.
   A worker that has ended is started again. *)
Fairness ==
    /\ WF_vars(ServerProduces)
    /\ WF_vars(TakeBatch \/ SendUpdate \/ SendCheckpoint)
    /\ WF_vars(ReceiveEvent) /\ WF_vars(LocalEnds)
    /\ WF_vars(HandOn)
    /\ WF_vars(Show)

Spec == Init /\ [][Next]_vars /\ Fairness

-----------------------------------------------------------------------------
(***************************************************************************)
(* Synchronization.md: restarting "may replay updates, but must never skip *)
(* uncommitted messages".  The cursor on disk covers only updates that are *)
(* on disk with it, and those are all the updates up to some point.        *)
(***************************************************************************)
CursorCovered ==
    /\ 1 .. cursor \subseteq stored
    /\ stored = 1 .. Top(stored)

(* Nothing the terminal receives from the cache, and no answer the cache has
   corrected, is older than an update it received before in the session. *)
Handed == ui \o forward

PagesNotBehind ==
    \A j \in DOMAIN Handed : Handed[j].type = "page" =>
        /\ Handed[j].at >= Top(shown)
        /\ \A i \in 1 .. j - 1 : Handed[i].type = "update" => Handed[i].at <= Handed[j].at

(* Whatever ends the program, the updates all reach the screen in the end. *)
AllShown == <>[](shown = 1 .. Updates)

(* The cache file is a durable stream. *)
Durable == INSTANCE DurableStream WITH Updates <- Updates, stored <- stored, cursor <- cursor
DurableStreamSpec == Durable!Spec

(* Nothing is skipped: neither on disk by a cursor ahead of its updates, nor on the
   screen by a page that is behind the updates shown before it. *)
NothingIsSkipped == CursorCovered /\ PagesNotBehind
=============================================================================
