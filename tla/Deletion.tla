------------------------------- MODULE Deletion -------------------------------
(* The deletion of a message (app/deletion.rs, telegram/deletion.rs): the     *)
(* terminal asks for a review (the message as it is and the scopes allowed),  *)
(* the user picks a scope, and the worker reviews again before it deletes.    *)
(* server.scopes is the number of scopes: 1 is "only me" alone.               *)
EXTENDS TerminalDialog

DeletionClosed ==
    [open |-> FALSE, plan |-> NoVersion, scopes |-> 0, selected |-> 0, invalid |-> FALSE]

DeletionInit ==
    /\ DialogInit(DeletionClosed)

-------------------------------------------------------------------------------
(* The terminal. *)

BeginDeletion ==
    /\ mode = "Navigate"
    /\ Idle
    /\ online
    /\ prompt' = [DeletionClosed EXCEPT !.open = TRUE]
    /\ Submit(FALSE, NoVersion, 0)
    /\ mode' = "Dialog"
    /\ UNCHANGED <<online, serverVars>>

\* Mutant: an answer that comes too late for the prompt is still waited for.
ReadyUnlessInvalid(call) ==
    /\ Takes(call, FALSE)
    /\ prompt.open
    /\ pending' = IF prompt.invalid THEN pending ELSE NoPending
    /\ prompt' = IF prompt.invalid \/ call.phase = "failed"
                 THEN prompt
                 ELSE [prompt EXCEPT !.plan = call.version, !.scopes = call.detail,
                                     !.selected = 0]
    /\ UNCHANGED <<mode, nextRequest, online, serverVars>>

DeletionReady(call) ==
    /\ Takes(call, FALSE)
    /\ prompt.open
    /\ pending' = NoPending
    /\ prompt' = IF prompt.invalid \/ call.phase = "failed"
                 THEN prompt
                 ELSE [prompt EXCEPT !.plan = call.version, !.scopes = call.detail,
                                     !.selected = 0]
    /\ UNCHANGED <<mode, nextRequest, online, serverVars>>

\* Up and Down move over "keep it" (0) and the scopes of a plan still valid.
SelectScope ==
    /\ mode = "Dialog"
    /\ Idle
    /\ prompt.open
    /\ \E n \in 0..(IF prompt.plan = NoVersion \/ prompt.invalid THEN 0 ELSE prompt.scopes) :
        prompt' = [prompt EXCEPT !.selected = n]
    /\ UNCHANGED <<mode, pending, nextRequest, online, calls, serverVars>>

\* Mutant: a prompt found invalid is confirmed all the same.
ConfirmInvalid ==
    /\ mode = "Dialog"
    /\ Idle
    /\ prompt.open /\ prompt.plan # NoVersion
    /\ online
    /\ Submit(TRUE, prompt.plan, 1)
    /\ UNCHANGED <<mode, prompt, online, serverVars>>

\* Mutant: nothing keeps a second confirmation from following the first.
ConfirmTwice ==
    /\ mode = "Dialog"
    /\ prompt.open /\ prompt.selected > 0 /\ ~prompt.invalid /\ prompt.plan # NoVersion
    /\ online
    /\ Submit(TRUE, prompt.plan, prompt.selected)
    /\ UNCHANGED <<mode, prompt, online, serverVars>>

ConfirmDeletion ==
    /\ mode = "Dialog"
    /\ Idle
    /\ prompt.open /\ prompt.selected > 0 /\ ~prompt.invalid /\ prompt.plan # NoVersion
    /\ prompt.selected <= prompt.scopes
    /\ online
    /\ Submit(TRUE, prompt.plan, prompt.selected)
    /\ UNCHANGED <<mode, prompt, online, serverVars>>

\* Cancel, or Open on "keep it". A deletion under way goes on in the background.
CloseDeletion == LetGo(DeletionClosed)

DeletionFinished(call) ==
    /\ Takes(call, TRUE)
    /\ prompt.open
    /\ pending' = NoPending
    /\ IF call.phase = "failed"
       THEN prompt' = [prompt EXCEPT !.selected = 0] /\ UNCHANGED mode
       ELSE prompt' = DeletionClosed /\ mode' = "Navigate"
    /\ UNCHANGED <<nextRequest, online, serverVars>>

Invalidated(p) == [p EXCEPT !.invalid = TRUE, !.selected = 0]

\* observe_deletion: an update of the message invalidates a prompt that has no
\* plan yet or one that looks otherwise; its removal always does.
DeletionTold ==
    /\ told < Changes(server)
    /\ told' = told + 1
    /\ prompt' = IF prompt.open /\ \/ told' > server.version
                                   \/ prompt.plan = NoVersion
                                   \/ Looks(prompt.plan) # Looks(told')
                 THEN Invalidated(prompt)
                 ELSE prompt
    /\ UNCHANGED <<mode, pending, nextRequest, online, calls, server, carried, effects>>

\* CacheInvalidated: the chat has to be fetched anew.
DeletionInvalidated ==
    /\ prompt.open
    /\ prompt' = Invalidated(prompt)
    /\ UNCHANGED <<mode, pending, nextRequest, online, calls, serverVars>>

-------------------------------------------------------------------------------
(* The worker's task and the server. *)

\* The permissions are the server's: one scope, or both.
ReviewDeletion(call) ==
    /\ ~call.acts /\ call.phase = "sent"
    /\ ~server.gone
    /\ \E scopes \in 1..2 :
        Becomes(call, [call EXCEPT !.phase = "done", !.version = server.version,
                                   !.detail = scopes])
    /\ UNCHANGED <<terminalVars, serverVars>>

\* Mutant: the worker deletes without comparing the revision again.
RecheckNothing(call) ==
    /\ call.acts /\ call.phase = "sent"
    /\ ~server.gone
    /\ Becomes(call, [call EXCEPT !.phase = "checked"])
    /\ UNCHANGED <<terminalVars, serverVars>>

RecheckDeletion(call) ==
    /\ call.acts /\ call.phase = "sent"
    /\ ~server.gone /\ call.version = server.version
    /\ \E scopes \in 1..2 : call.detail <= scopes
    /\ Becomes(call, [call EXCEPT !.phase = "checked"])
    /\ UNCHANGED <<terminalVars, serverVars>>

\* The RPC after the check; its reply may be lost though the server acted.
DeleteMessage(call) ==
    /\ call.acts /\ call.phase = "checked"
    /\ carried < MaxCarried
    /\ \E outcome \in {"done", "failed"} :
        Becomes(call, [call EXCEPT !.phase = outcome])
    /\ server' = [server EXCEPT !.gone = TRUE]
    /\ carried' = carried + 1
    /\ UNCHANGED <<terminalVars, told, effects>>

DeletionNext ==
    \/ BeginDeletion
    \/ SelectScope
    \/ ConfirmDeletion
    \/ CloseDeletion
    \/ DeletionTold
    \/ DeletionInvalidated
    \/ AccountSwitch(DeletionClosed)
    \/ Surroundings
    \/ \E call \in calls :
        \/ DeletionReady(call)
        \/ DeletionFinished(call)
        \/ ReviewDeletion(call)
        \/ RecheckDeletion(call)
        \/ DeleteMessage(call)

=============================================================================
