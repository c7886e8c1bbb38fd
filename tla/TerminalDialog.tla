---------------------------- MODULE TerminalDialog ----------------------------
(* What the dialogs of the terminal share (App in app.rs, spawn and complete  *)
(* in telegram/requests.rs). The terminal has one mode; a dialog numbers its  *)
(* requests, has at most one pending and takes only the answer that carries   *)
(* the pending number. The worker answers every command once, with a result   *)
(* or a failure (TelegramCommand::failure), in any order and after any delay; *)
(* `calls` holds the commands that are not answered yet. The other clients of *)
(* the account change what the server holds at any time, and the terminal is  *)
(* told of these changes in order, late. Each dialog is a module that extends *)
(* this one; the dialogs that review before they act implement ReviewedAction.*)
EXTENDS Naturals, FiniteSets

CONSTANTS
    MaxVersion,    \* bound: versions of the object the server ever holds
    MaxRequests,   \* bound: requests a dialog ever makes
    MaxCarried     \* bound: times an action is carried out

ASSUME DialogBounds ==
    /\ MaxVersion \in Nat \ {0}
    /\ MaxRequests \in Nat
    /\ MaxCarried \in Nat

VARIABLES
    mode,         \* App.mode: "Navigate", or "Dialog" while the dialog has the keys
    prompt,       \* the dialog's own state; prompt.plan is the version it shows
    pending,      \* State.pending: number of the awaited request, and whether it acts
    nextRequest,  \* State.next_request
    online,       \* App.connection is Online
    calls,        \* commands given to the worker whose answer is not handled yet
    server,       \* what the server holds: version, whether it is gone, whose text
    told,         \* how many of the server's changes the terminal has been told of;
                  \* 1 for ever in the dialogs that follow no update
    carried,      \* ghost: how many times the server carried the action out
    effects       \* ghost: what was carried out, in the dialog's own terms

dialogVars ==
    <<mode, prompt, pending, nextRequest, online, calls, server, told, carried, effects>>
terminalVars == <<mode, prompt, pending, nextRequest, online>>
serverVars == <<server, told, carried, effects>>

Version == 1..MaxVersion
NoVersion == 0

\* server.text: what another client wrote, or what this one made of it.
Theirs == "theirs"

NoPending == [id |-> 0, saving |-> FALSE]

Current(s) == IF s.gone THEN NoVersion ELSE s.version

\* Versions that differ only in what the terminal does not compare with its
\* plan (entities, poll options) look the same to it.
Looks(v) == v \div 2

\* The changes are the versions one after the other and, last, the removal.
Changes(s) == s.version + (IF s.gone THEN 1 ELSE 0)
ToldGone == told > server.version

Idle == pending = NoPending

\* The next request of the dialog: its number becomes the pending one. An acting
\* request carries the version it was confirmed for; `detail` is the rest of it.
Submit(saving, version, detail) ==
    /\ nextRequest < MaxRequests
    /\ nextRequest' = nextRequest + 1
    /\ pending' = [id |-> nextRequest + 1, saving |-> saving]
    /\ calls' = calls \cup {[id |-> nextRequest + 1, acts |-> saving, phase |-> "sent",
                             version |-> version, detail |-> detail]}

\* The call moves on inside the worker's task or at the server.
Becomes(call, moved) == calls' = (calls \ {call}) \cup {moved}

Answers == {call \in calls : call.phase \in {"done", "failed"}}
AwaitedBy(p, call) == p.id = call.id /\ p.saving = call.acts

\* The terminal handles the answer it awaits, of a look-up or of an action.
Takes(call, acting) ==
    /\ call \in Answers
    /\ call.acts = acting /\ AwaitedBy(pending, call)
    /\ calls' = calls \ {call}

\* Its answer was the last thing that the dialog waited for...
Settles(call, after) ==
    /\ call \in Answers /\ AwaitedBy(pending, call)
    /\ calls' = calls \ {call}
    /\ pending' = NoPending
    /\ prompt' = after
    /\ UNCHANGED nextRequest

\* ... or it looks the object up again at once, when it is online (and within the
\* bound): load_poll_review and load_reactions after a change that was saved.
SettlesAndLooks(call, after, looking, detail) ==
    IF online /\ nextRequest < MaxRequests
    THEN /\ call \in Answers /\ AwaitedBy(pending, call)
         /\ nextRequest' = nextRequest + 1
         /\ pending' = [id |-> nextRequest + 1, saving |-> FALSE]
         /\ calls' = (calls \ {call}) \cup
                     {[id |-> nextRequest + 1, acts |-> FALSE, phase |-> "sent",
                       version |-> NoVersion, detail |-> detail]}
         /\ prompt' = looking
    ELSE Settles(call, after)

\* Cancel: the prompt goes, unless its action is under way; that one goes on in
\* the background and keeps the prompt.
LetGo(closed) ==
    /\ mode = "Dialog"
    /\ mode' = "Navigate"
    /\ IF pending.saving
       THEN UNCHANGED <<pending, prompt>>
       ELSE pending' = NoPending /\ prompt' = closed
    /\ UNCHANGED <<nextRequest, online, calls, serverVars>>

DialogInit(initialPrompt) ==
    /\ mode = "Navigate"
    /\ prompt = initialPrompt
    /\ pending = NoPending
    /\ nextRequest = 0
    /\ online \in BOOLEAN
    /\ calls = {}
    /\ server = [version |-> 1, gone |-> FALSE, text |-> Theirs]
    /\ told = 1
    /\ carried = 0
    /\ effects = {}

-------------------------------------------------------------------------------
(* Steps that are the same whatever the dialog. *)

ConnectionChanges ==
    /\ online' = ~online
    /\ UNCHANGED <<mode, prompt, pending, nextRequest, calls, serverVars>>

\* Another client edits the object, or removes it.
OthersChange ==
    /\ ~server.gone
    /\ \/ /\ server.version < MaxVersion
          /\ server' = [server EXCEPT !.version = @ + 1, !.text = Theirs]
       \/ server' = [server EXCEPT !.gone = TRUE]
    /\ UNCHANGED <<terminalVars, calls, told, carried, effects>>

\* Any error of the call: no permission, no connection, a timeout, a full queue.
CallFails(call) ==
    /\ call.phase \in {"sent", "checked"}
    /\ Becomes(call, [call EXCEPT !.phase = "failed"])
    /\ UNCHANGED <<terminalVars, serverVars>>

\* complete() turned the result into an event and the terminal drops it: the
\* dialog does not wait for this number any more.
AnswerIgnored(call) ==
    /\ call \in Answers
    /\ ~AwaitedBy(pending, call)
    /\ calls' = calls \ {call}
    /\ UNCHANGED <<terminalVars, serverVars>>

\* A chat opens or disappears under the dialog: it loses the keys, not its state.
ModeReset ==
    /\ mode = "Dialog"
    /\ mode' = "Navigate"
    /\ UNCHANGED <<prompt, pending, nextRequest, online, calls, serverVars>>

\* Mutant: the tasks of the old worker still answer.
SwitchKeepingCalls(initialPrompt) ==
    /\ mode' = "Navigate"
    /\ prompt' = initialPrompt
    /\ pending' = NoPending
    /\ nextRequest' = 0
    /\ online' = FALSE
    /\ UNCHANGED <<calls, server, told, carried, effects>>

\* Away to another account and back: the dialogs start over, the worker and its
\* tasks are replaced. What such a task had already done at the server stays.
AccountSwitch(initialPrompt) ==
    /\ mode' = "Navigate"
    /\ prompt' = initialPrompt
    /\ pending' = NoPending
    /\ nextRequest' = 0
    /\ calls' = {}
    /\ online' = FALSE
    /\ UNCHANGED <<server, told, carried, effects>>

\* The steps of the surroundings, none of them the dialog's.
Surroundings ==
    \/ ConnectionChanges
    \/ OthersChange
    \/ ModeReset
    \/ \E call \in calls : CallFails(call) \/ AnswerIgnored(call)

-------------------------------------------------------------------------------
(* The abstract view of a dialog that reviews before it acts. *)

Acting == {call \in calls : call.acts /\ call.phase \in {"sent", "checked"}}
Asked == IF Acting = {} THEN NoVersion ELSE (CHOOSE call \in Acting : TRUE).version
Verified == \E call \in Acting : call.phase = "checked"

Reviewed == INSTANCE ReviewedAction WITH
    current <- Current(server),
    shown <- prompt.plan,
    asked <- Asked,
    verified <- Verified

\* Every dialog that reviews before it acts (deletion, forwarding, editing,
\* invites, polls, reactions) carries an action out only for the version the
\* user confirmed, after that version was found current again, and at most once
\* for a confirmation, whatever is lost, late or changed in between.
ActsAsReviewed == Reviewed!Spec

\* No dialog waits for ever for one request: its answer is handled, or the dialog
\* lets go of it or makes another, so that it can never block.
RequestsSettle ==
    []<>Idle \/ []<><<pending.id # pending'.id>>_pending

DialogType ==
    /\ mode \in {"Navigate", "Dialog"}
    /\ pending \in [id : 0..MaxRequests, saving : BOOLEAN]
    /\ nextRequest \in 0..MaxRequests
    /\ online \in BOOLEAN
    /\ server.version \in Version /\ server.gone \in BOOLEAN
    /\ told \in 1..Changes(server)
    /\ carried \in 0..MaxCarried
    /\ prompt.plan \in Version \cup {NoVersion}
    /\ \A call \in calls :
        /\ call.id \in 0..nextRequest
        /\ call.phase \in {"sent", "checked", "done", "failed"}
    /\ \A a, b \in calls : (a.id = b.id /\ a.id # 0) => a = b

=============================================================================
