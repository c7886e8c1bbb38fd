-------------------------------- MODULE Editing -------------------------------
(* Editing a message (app/editing.rs, telegram/editing.rs): the original is   *)
(* loaded with its revision into the edit kept in the chat's draft; saving    *)
(* compares the revision again, and the edit is kept until the server has it. *)
(* prompt is the kept edit: plan is its revision, text what its input holds.  *)
(* `effects` holds the texts that the server had when it was asked to save.   *)
EXTENDS TerminalDialog

CONSTANT Typed   \* the texts the user can type

\* The input of an edit: none is kept, it is the original, or a typed text.
NoEdit == "none"
Original == "original"

ASSUME TypedIsText == {NoEdit, Original} \cap Typed = {}

NothingKept == [plan |-> NoVersion, text |-> NoEdit]

EditInit == DialogInit(NothingKept)

Kept == prompt.text # NoEdit

-------------------------------------------------------------------------------
(* The terminal. *)

\* begin_message_edit: a kept edit is resumed, else the original is loaded.
ResumeEdit ==
    /\ mode = "Navigate"
    /\ Kept
    /\ mode' = "Dialog"
    /\ UNCHANGED <<prompt, pending, nextRequest, online, calls, serverVars>>

LoadEdit ==
    /\ mode = "Navigate"
    /\ ~Kept
    /\ Idle
    /\ online
    /\ Submit(FALSE, NoVersion, NoEdit)
    /\ mode' = "Dialog"
    /\ UNCHANGED <<prompt, online, serverVars>>

EditLoaded(call) ==
    /\ Takes(call, FALSE)
    /\ pending' = NoPending
    /\ IF call.phase = "failed"
       THEN mode' = "Navigate" /\ UNCHANGED prompt
       ELSE prompt' = [plan |-> call.version, text |-> Original] /\ UNCHANGED mode
    /\ UNCHANGED <<nextRequest, online, serverVars>>

\* Mutant: the input takes keys while the edit is being saved.
TypeAnytime ==
    /\ mode = "Dialog"
    /\ Kept
    /\ \E text \in Typed : prompt' = [prompt EXCEPT !.text = text]
    /\ UNCHANGED <<mode, pending, nextRequest, online, calls, serverVars>>

\* The input takes no key while a request of the edit is pending.
TypeEdit ==
    /\ mode = "Dialog"
    /\ Idle
    /\ Kept
    /\ \E text \in Typed \cup {Original} : prompt' = [prompt EXCEPT !.text = text]
    /\ UNCHANGED <<mode, pending, nextRequest, online, calls, serverVars>>

SaveUnchanged ==
    /\ mode = "Dialog"
    /\ Idle
    /\ prompt.text = Original
    /\ prompt' = NothingKept
    /\ mode' = "Navigate"
    /\ UNCHANGED <<pending, nextRequest, online, calls, serverVars>>

SaveEdit ==
    /\ mode = "Dialog"
    /\ Idle
    /\ prompt.text \in Typed
    /\ online
    /\ Submit(TRUE, prompt.plan, prompt.text)
    /\ UNCHANGED <<mode, prompt, online, serverVars>>

\* Mutant: the edit is dropped although the save failed.
DropOnFailure(call) ==
    /\ Takes(call, TRUE)
    /\ pending' = NoPending
    /\ prompt' = NothingKept /\ mode' = "Navigate"
    /\ UNCHANGED <<nextRequest, online, serverVars>>

EditFinished(call) ==
    /\ Takes(call, TRUE)
    /\ pending' = NoPending
    /\ IF call.phase = "failed"
       THEN UNCHANGED <<prompt, mode>>
       ELSE prompt' = NothingKept /\ mode' = "Navigate"
    /\ UNCHANGED <<nextRequest, online, serverVars>>

DiscardEdit ==
    /\ Idle
    /\ prompt' = NothingKept
    /\ mode' = "Navigate"
    /\ UNCHANGED <<pending, nextRequest, online, calls, serverVars>>

\* Escape keeps the edit; it lets go of a load, not of a save.
LeaveEdit ==
    /\ mode = "Dialog"
    /\ mode' = "Navigate"
    /\ pending' = IF pending.saving THEN pending ELSE NoPending
    /\ UNCHANGED <<prompt, nextRequest, online, calls, serverVars>>

-------------------------------------------------------------------------------
(* The worker's task and the server. *)

OriginalLoaded(call) ==
    /\ ~call.acts /\ call.phase = "sent"
    /\ ~server.gone
    /\ Becomes(call, [call EXCEPT !.phase = "done", !.version = server.version])
    /\ UNCHANGED <<terminalVars, serverVars>>

\* An earlier attempt may have succeeded before its answer was lost.
AlreadySaved(call) ==
    /\ call.acts /\ call.phase = "sent"
    /\ ~server.gone /\ server.text = call.detail
    /\ Becomes(call, [call EXCEPT !.phase = "done"])
    /\ effects' = effects \cup {call.detail}
    /\ UNCHANGED <<terminalVars, server, told, carried>>

RecheckEdit(call) ==
    /\ call.acts /\ call.phase = "sent"
    /\ ~server.gone /\ server.text # call.detail
    /\ call.version = server.version
    /\ Becomes(call, [call EXCEPT !.phase = "checked"])
    /\ UNCHANGED <<terminalVars, serverVars>>

EditMessage(call) ==
    /\ call.acts /\ call.phase = "checked"
    /\ ~server.gone /\ server.version < MaxVersion
    /\ carried < MaxCarried
    /\ \E outcome \in {"done", "failed"} :
        Becomes(call, [call EXCEPT !.phase = outcome])
    /\ server' = [server EXCEPT !.version = @ + 1, !.text = call.detail]
    /\ carried' = carried + 1
    /\ effects' = effects \cup {call.detail}
    /\ UNCHANGED <<terminalVars, told>>

EditNext ==
    \/ ResumeEdit
    \/ LoadEdit
    \/ TypeEdit
    \/ SaveUnchanged
    \/ SaveEdit
    \/ DiscardEdit
    \/ LeaveEdit
    \/ AccountSwitch(prompt)
    \/ Surroundings
    \/ \E call \in calls :
        \/ EditLoaded(call)
        \/ EditFinished(call)
        \/ OriginalLoaded(call)
        \/ AlreadySaved(call)
        \/ RecheckEdit(call)
        \/ EditMessage(call)

\* What the user typed leaves the terminal only when he discards or retypes it,
\* or after the server had that very text: no failure, lost answer, closed
\* dialog or account switch loses it.
TypedTextIsKept ==
    (prompt.text \in Typed /\ prompt'.text # prompt.text) =>
        \/ prompt.text \in effects
        \/ Idle /\ pending' = NoPending /\ calls' = calls

=============================================================================
