------------------------------- MODULE Pasting -------------------------------
(* Pasting and attaching: the terminal's memory of the draft a preparation is for    *)
(* (app/staging.rs), the broker that asks the terminal emulator for its clipboard    *)
(* (terminal/clipboard.rs), and the worker that prepares files and clipboard         *)
(* contents on a thread (staging.rs). The emulator answers late, in any order, with  *)
(* an error or never; a read of the native clipboard can hang. A paste is the number *)
(* of the user's request, which stands for what it brings.                           *)
EXTENDS Naturals, Sequences

CONSTANTS
    Spot,         \* drafts of the first account and other inputs
    Inputs,       \* the places that take only text: the search field, the edit box
    Owner,        \* accounts
    MaxPastes,    \* bound: what the user pastes or attaches
    MaxMoves,     \* bound: times the user goes to another place
    MaxPasteSwitches   \* bound: account switches

ASSUME InputsAreSpots == Inputs \subseteq Spot
ASSUME PastingBounds == {MaxPastes, MaxMoves, MaxPasteSwitches} \subseteq Nat

VARIABLES
    account, place,  \* where the user is
    reserved,        \* App.attachment_draft.pending
    nextDraft,       \* App.attachment_draft.next_request
    broker,          \* Broker.pending
    nextRead,        \* Broker.next_id
    reads,           \* the emulator: reads that it has not answered
    orders,          \* PrepareAttachments on their way to the worker
    job,             \* Worker.task
    threads,         \* preparation threads, those of former workers too
    results,         \* AttachmentsPrepared on their way to the terminal
    pastes, moves, pasteSwitches,
    meant,           \* ghost: the account and place of each paste
    landed           \* ghost: what was inserted, and where

hereVars == <<account, place>>
appPasteVars == <<reserved, nextDraft>>
workerPasteVars == <<orders, job, threads, results>>
pasteBounds == <<pastes, moves, pasteSwitches>>
pasteVars == <<hereVars, appPasteVars, broker, nextRead, reads, workerPasteVars, pasteBounds,
               meant, landed>>

Here == [account |-> account, place |-> place]
NoSpot == [account |-> 0, place |-> "none"]
NoReservation == [at |-> NoSpot, id |-> 0]
NoRead == [id |-> 0, wants |-> "none", for |-> NoReservation, paste |-> 0]
NoJob == [at |-> NoSpot, id |-> 0, paste |-> 0, input |-> "none"]
NoTask == [order |-> NoJob, expired |-> FALSE, timed |-> FALSE]

PastingInit ==
    /\ account \in Owner /\ place \in Spot
    /\ reserved = NoReservation /\ nextDraft = 0
    /\ broker = NoRead /\ nextRead = 0 /\ reads = {}
    /\ orders = <<>> /\ job = NoTask /\ threads = {} /\ results = <<>>
    /\ pastes = 0 /\ moves = 0 /\ pasteSwitches = 0
    /\ meant = <<>> /\ landed = {}

PastingType ==
    /\ account \in Owner /\ place \in Spot
    /\ reserved.id \in 0 .. MaxPastes /\ nextDraft \in 0 .. MaxPastes
    /\ broker.wants \in {"none", "types", "data"} /\ nextRead \in 0 .. 2 * MaxPastes
    /\ \A r \in reads : r.id \in 1 .. nextRead
    /\ Len(orders) <= MaxPastes /\ Len(results) <= 2 * MaxPastes
    /\ landed \subseteq (1 .. pastes) \X [account : Owner, place : Spot]

-------------------------------------------------------------------------------
(* The terminal's side of a preparation.                                        *)

\* Mutant: a result is taken for the draft that is open.
PreparedHere(at, id, ok, paste) ==
    IF reserved # NoReservation
    THEN /\ reserved' = NoReservation
         /\ landed' = IF ok THEN landed \cup {<<paste, Here>>} ELSE landed
    ELSE UNCHANGED <<reserved, landed>>

\* attachments_prepared: a result goes into the draft it was asked for, if that draft
\* still waits for this request.
AttachmentsArePrepared(at, id, ok, paste) ==
    IF reserved = [at |-> at, id |-> id] /\ reserved # NoReservation
    THEN /\ reserved' = NoReservation
         /\ landed' = IF ok THEN landed \cup {<<paste, at>>} ELSE landed
    ELSE UNCHANGED <<reserved, landed>>

\* fail_destination: a failure is a result of the draft, or a message.
FailDestination(read) == AttachmentsArePrepared(read.for.at, read.for.id, FALSE, read.paste)

Pasted ==
    /\ pastes < MaxPastes
    /\ pastes' = pastes + 1
    /\ meant' = Append(meant, Here)

\* prepare_attachment_input: one preparation at a time, for the open draft.
Reserves ==
    /\ reserved = NoReservation /\ place \notin Inputs
    /\ nextDraft' = nextDraft + 1
    /\ reserved' = [at |-> Here, id |-> nextDraft + 1]

Preparation(input) == [at |-> Here, id |-> nextDraft + 1, paste |-> pastes + 1, input |-> input]

\* Files are attached by their paths, or the native clipboard is read.
AttachInput ==
    /\ Pasted /\ Reserves
    /\ \E input \in {"paths", "clipboard"} : orders' = Append(orders, Preparation(input))
    /\ UNCHANGED <<hereVars, broker, nextRead, reads, job, threads, results, moves, pasteSwitches,
                   landed>>

\* While another preparation is under way, pasted paths become text at once.
PasteAsText ==
    /\ Pasted
    /\ reserved # NoReservation /\ place \notin Inputs
    /\ landed' = landed \cup {<<pastes + 1, Here>>}
    /\ UNCHANGED <<hereVars, appPasteVars, broker, nextRead, reads, workerPasteVars, moves,
                   pasteSwitches>>

-------------------------------------------------------------------------------
(* The broker.                                                                  *)

\* enqueue: every read has a number of its own, and a deadline that begins now.
Enqueue(wants, for, paste) ==
    /\ nextRead' = nextRead + 1
    /\ broker' = [id |-> nextRead + 1, wants |-> wants, for |-> for, paste |-> paste]
    /\ reads' = reads \cup {broker'}

\* route: over SSH a paste of the clipboard goes to the emulator, and fails at once
\* while another one is under way.
PasteRemotely ==
    /\ Pasted /\ nextDraft' = nextDraft + 1
    /\ reserved = NoReservation /\ place \notin Inputs
    /\ IF broker = NoRead
       THEN /\ reserved' = [at |-> Here, id |-> nextDraft + 1]
            /\ Enqueue("types", reserved', pastes + 1)
       ELSE UNCHANGED <<reserved, broker, nextRead, reads>>
    /\ UNCHANGED <<hereVars, workerPasteVars, moves, pasteSwitches, landed>>

\* event: the emulator announces a paste of its own, with the types it has. An open
\* draft is reserved; another input is only remembered.
PasteAnnounced ==
    /\ Pasted /\ broker = NoRead
    /\ IF place \in Inputs
       THEN /\ Enqueue("data", [at |-> Here, id |-> 0], pastes + 1)
            /\ UNCHANGED appPasteVars
       ELSE /\ Reserves
            /\ Enqueue("data", reserved', pastes + 1)
    /\ UNCHANGED <<hereVars, workerPasteVars, moves, pasteSwitches, landed>>

\* Mutant: an answer counts whatever read it belongs to.
AwaitedAny(read) == broker # NoRead

Awaited(read) == broker.id = read.id

\* received: the types, of which one is asked for, or none fits.
TypesArrive ==
    /\ \E read \in reads :
          /\ Awaited(read) /\ broker.wants = "types"
          /\ \/ /\ nextRead' = nextRead + 1
                /\ broker' = [broker EXCEPT !.id = nextRead + 1, !.wants = "data"]
                /\ reads' = (reads \ {read}) \cup {broker'}
                /\ UNCHANGED <<reserved, landed>>
             \/ /\ broker' = NoRead
                /\ reads' = reads \ {read}
                /\ FailDestination(broker)
                /\ UNCHANGED nextRead
    /\ UNCHANGED <<hereVars, nextDraft, workerPasteVars, pasteBounds, meant>>

\* received: the contents. For a draft they go to the worker; into another input only
\* if the user is still there; or they are unusable.
DataArrives ==
    /\ \E read \in reads :
          /\ Awaited(read) /\ broker.wants = "data"
          /\ reads' = reads \ {read}
          /\ broker' = NoRead
          /\ LET for == broker.for
             IN \/ /\ for.id # 0
                   /\ orders' = Append(orders, [at |-> for.at, id |-> for.id,
                                                paste |-> read.paste, input |-> "payload"])
                   /\ UNCHANGED <<reserved, landed>>
                \/ /\ for.id = 0 /\ for.at = Here
                   /\ landed' = landed \cup {<<read.paste, Here>>}
                   /\ UNCHANGED <<orders, reserved>>
                \/ /\ FailDestination(broker)
                   /\ UNCHANGED orders
    /\ UNCHANGED <<hereVars, nextDraft, nextRead, job, threads, results, pasteBounds, meant>>

\* An answer to a read that was given up is ignored, whatever it says.
LateAnswer ==
    /\ \E read \in reads : ~Awaited(read) /\ reads' = reads \ {read}
    /\ UNCHANGED <<hereVars, appPasteVars, broker, nextRead, workerPasteVars, pasteBounds,
                   meant, landed>>

\* timeout, and ReadError, configuration_changed, configure and flush, which fail a
\* paste in the same way. The emulator may still answer later.
PasteFails ==
    /\ broker # NoRead
    /\ broker' = NoRead
    /\ FailDestination(broker)
    /\ UNCHANGED <<hereVars, nextDraft, nextRead, reads, workerPasteVars, pasteBounds, meant>>

-------------------------------------------------------------------------------
(* The worker.                                                                  *)

Result(order, ok) == [at |-> order.at, id |-> order.id, ok |-> ok, paste |-> order.paste]

\* start: one preparation of the whole process at a time. Of paths that were pasted the
\* text is inserted where the files cannot be.
StartPreparation ==
    /\ orders # <<>>
    /\ orders' = Tail(orders)
    /\ LET order == Head(orders) IN
       IF job # NoTask \/ threads # {}
       THEN /\ \E ok \in {FALSE, order.input = "paths"} :
                  results' = Append(results, Result(order, ok))
            /\ UNCHANGED <<job, threads>>
       ELSE /\ \E timed \in {order.input = "clipboard", order.input # "payload"} :
                  job' = [order |-> order, expired |-> FALSE, timed |-> timed]
            /\ threads' = {order}
            /\ UNCHANGED results
    /\ UNCHANGED <<hereVars, appPasteVars, broker, nextRead, reads, pasteBounds, meant, landed>>

\* The thread ends with files, a text or an error. Its worker, if it is still there and
\* has not given it up, hands that on.
PreparationEnds(order) ==
    /\ order \in threads
    /\ threads' = threads \ {order}
    /\ IF job.order = order
       THEN /\ job' = NoTask
            /\ \E ok \in BOOLEAN : results' = IF job.expired THEN results
                                              ELSE Append(results, Result(order, ok))
       ELSE UNCHANGED <<job, results>>
    /\ UNCHANGED <<hereVars, appPasteVars, broker, nextRead, reads, orders, pasteBounds,
                   meant, landed>>

\* Mutant: what takes too long is given up without a word.
ExpiresSilently ==
    /\ job # NoTask /\ job.timed /\ ~job.expired
    /\ job' = [job EXCEPT !.expired = TRUE]
    /\ UNCHANGED <<hereVars, appPasteVars, broker, nextRead, reads, orders, threads, results,
                   pasteBounds, meant, landed>>

\* next: a read of the clipboard or of pasted images that takes too long fails; its thread
\* still keeps others from starting.
PreparationExpires ==
    /\ job # NoTask /\ job.timed /\ ~job.expired
    /\ job' = [job EXCEPT !.expired = TRUE]
    /\ results' = Append(results, Result(job.order, FALSE))
    /\ UNCHANGED <<hereVars, appPasteVars, broker, nextRead, reads, orders, threads,
                   pasteBounds, meant, landed>>

FileReadEnds == \E order \in threads : order.input # "clipboard" /\ PreparationEnds(order)

TakePrepared ==
    /\ results # <<>>
    /\ results' = Tail(results)
    /\ LET r == Head(results) IN AttachmentsArePrepared(r.at, r.id, r.ok, r.paste)
    /\ UNCHANGED <<hereVars, nextDraft, broker, nextRead, reads, orders, job, threads,
                   pasteBounds, meant>>

-------------------------------------------------------------------------------
(* The user.                                                                    *)

GoTo ==
    /\ moves < MaxMoves /\ moves' = moves + 1
    /\ \E p \in Spot : p # place /\ place' = p
    /\ UNCHANGED <<account, appPasteVars, broker, nextRead, reads, workerPasteVars, pastes,
                   pasteSwitches, meant, landed>>

\* RemoveAttachment while the open draft is being prepared.
GiveUpPreparation ==
    /\ reserved # NoReservation /\ reserved.at = Here
    /\ reserved' = NoReservation
    /\ UNCHANGED <<hereVars, nextDraft, broker, nextRead, reads, workerPasteVars, pasteBounds,
                   meant, landed>>

\* Mutant: the numbers of the reads begin again, as those of the drafts do.
SwitchCountingAnew ==
    /\ pasteSwitches < MaxPasteSwitches /\ pasteSwitches' = pasteSwitches + 1
    /\ account' \in Owner
    /\ reserved' = NoReservation /\ nextDraft' = 0
    /\ broker' = NoRead /\ nextRead' = 0
    /\ orders' = <<>> /\ job' = NoTask /\ results' = <<>>
    /\ UNCHANGED <<place, reads, threads, pastes, moves, meant, landed>>

\* reset_for_account_switch, Broker.cancel and a new worker with new channels. What the
\* emulator and the threads are at goes on.
SwitchPasting ==
    /\ pasteSwitches < MaxPasteSwitches /\ pasteSwitches' = pasteSwitches + 1
    /\ account' \in Owner
    /\ reserved' = NoReservation /\ nextDraft' = 0
    /\ broker' = NoRead
    /\ orders' = <<>> /\ job' = NoTask /\ results' = <<>>
    /\ UNCHANGED <<place, nextRead, reads, threads, pastes, moves, meant, landed>>

PastingNext ==
    \/ AttachInput \/ PasteAsText \/ PasteRemotely \/ PasteAnnounced
    \/ TypesArrive \/ DataArrives \/ LateAnswer \/ PasteFails
    \/ StartPreparation \/ PreparationExpires \/ TakePrepared
    \/ \E order \in threads : PreparationEnds(order)
    \/ GoTo \/ GiveUpPreparation \/ SwitchPasting

\* The deadline of a read passes, the loops of the worker and the terminal go on, and
\* a thread that reads files ends. One that reads the native clipboard may hang.
PastingFairness ==
    /\ WF_pasteVars(PasteFails)
    /\ WF_pasteVars(StartPreparation)
    /\ WF_pasteVars(FileReadEnds)
    /\ WF_pasteVars(PreparationExpires)
    /\ WF_pasteVars(TakePrepared)

PastingSpec == PastingInit /\ [][PastingNext]_pasteVars /\ PastingFairness

-------------------------------------------------------------------------------
(* Properties.                                                                  *)

\* What arrives is inserted into the draft or the input that the user pasted into, of
\* that account, whatever was opened, cancelled, timed out or switched since; and a
\* paste arrives in one place only.
PastesGoWhereMeant ==
    \A paste \in 1 .. pastes, at \in [account : Owner, place : Spot] :
        <<paste, at>> \in landed => at = meant[paste]

\* No draft waits for ever for an attachment: until it is answered, the user cannot
\* attach anything, anywhere.
PreparationsEnd == []<>(reserved = NoReservation)
==============================================================================
