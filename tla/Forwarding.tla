------------------------------ MODULE Forwarding ------------------------------
(* Forwarding a message (app/forwarding.rs, telegram/forwarding.rs): the      *)
(* review fetches the original and draws the random id that the server knows  *)
(* the copy by; every attempt to send the reviewed copy uses that one id.     *)
(* `effects` holds what was forwarded, as pairs of the review and the id used.*)
EXTENDS TerminalDialog

RandomId == 1..(MaxCarried + MaxRequests + 1)

ForwardClosed ==
    [open |-> FALSE, plan |-> NoVersion, random |-> 0, invalid |-> FALSE, error |-> FALSE]

ForwardInit == DialogInit(ForwardClosed)

\* An id nobody has drawn yet, as random 64-bit numbers are.
Drawn ==
    {prompt.random} \cup {call.detail[2] : call \in calls} \cup {copy[2] : copy \in effects}
Fresh == CHOOSE r \in RandomId : r \notin Drawn

-------------------------------------------------------------------------------
(* The terminal. *)

ReviewForward ==
    /\ mode = "Navigate"
    /\ Idle
    /\ online
    /\ prompt' = [ForwardClosed EXCEPT !.open = TRUE]
    /\ Submit(FALSE, NoVersion, <<0, 0>>)
    /\ mode' = "Dialog"
    /\ UNCHANGED <<online, serverVars>>

\* The key of forwarding brings back a review that ended in an error.
ReopenForward ==
    /\ mode = "Navigate"
    /\ prompt.open /\ prompt.error
    /\ mode' = "Dialog"
    /\ UNCHANGED <<prompt, pending, nextRequest, online, calls, serverVars>>

ForwardReady(call) ==
    /\ Takes(call, FALSE)
    /\ pending' = NoPending
    /\ prompt' = IF ~prompt.open \/ prompt.invalid THEN prompt
                 ELSE IF call.phase = "failed" THEN [prompt EXCEPT !.error = TRUE]
                 ELSE [prompt EXCEPT !.plan = call.version, !.random = call.detail[2]]
    /\ UNCHANGED <<mode, nextRequest, online, serverVars>>

\* Mutant: every attempt draws its own random id.
SendFresh ==
    /\ mode = "Dialog"
    /\ Idle
    /\ prompt.open /\ prompt.plan # NoVersion /\ ~prompt.invalid
    /\ online
    /\ Submit(TRUE, prompt.plan, <<prompt.random, Fresh>>)
    /\ UNCHANGED <<mode, prompt, online, serverVars>>

SendForward ==
    /\ mode = "Dialog"
    /\ Idle
    /\ prompt.open /\ prompt.plan # NoVersion /\ ~prompt.invalid
    /\ online
    /\ Submit(TRUE, prompt.plan, <<prompt.random, prompt.random>>)
    /\ UNCHANGED <<mode, prompt, online, serverVars>>

CancelForward == LetGo(ForwardClosed)

ForwardFinished(call) ==
    /\ Takes(call, TRUE)
    /\ pending' = NoPending
    /\ IF call.phase = "failed"
       THEN prompt' = [prompt EXCEPT !.error = prompt.open] /\ UNCHANGED mode
       ELSE prompt' = ForwardClosed /\ mode' = "Navigate"
    /\ UNCHANGED <<nextRequest, online, serverVars>>

\* observe_forward, for an update or the removal of the original.
ForwardTold ==
    /\ told < Changes(server)
    /\ told' = told + 1
    /\ prompt' = IF prompt.open /\ \/ told' > server.version
                                   \/ prompt.plan = NoVersion
                                   \/ Looks(prompt.plan) # Looks(told')
                 THEN [prompt EXCEPT !.invalid = TRUE, !.error = TRUE]
                 ELSE prompt
    /\ UNCHANGED <<mode, pending, nextRequest, online, calls, server, carried, effects>>

ForwardInvalidated ==
    /\ prompt.open
    /\ prompt' = [prompt EXCEPT !.invalid = TRUE, !.error = TRUE]
    /\ UNCHANGED <<mode, pending, nextRequest, online, calls, serverVars>>

-------------------------------------------------------------------------------
(* The worker's task and the server. *)

OriginalFetched(call) ==
    /\ ~call.acts /\ call.phase = "sent"
    /\ ~server.gone
    /\ Becomes(call, [call EXCEPT !.phase = "done", !.version = server.version,
                                  !.detail = <<0, Fresh>>])
    /\ UNCHANGED <<terminalVars, serverVars>>

RecheckOriginal(call) ==
    /\ call.acts /\ call.phase = "sent"
    /\ ~server.gone /\ call.version = server.version
    /\ Becomes(call, [call EXCEPT !.phase = "checked"])
    /\ UNCHANGED <<terminalVars, serverVars>>

\* The server takes a random id once (external); the reply may be lost.
ForwardMessage(call) ==
    /\ call.acts /\ call.phase = "checked"
    /\ call.detail[2] \notin {copy[2] : copy \in effects}
    /\ carried < MaxCarried
    /\ \E outcome \in {"done", "failed"} :
        Becomes(call, [call EXCEPT !.phase = outcome])
    /\ carried' = carried + 1
    /\ effects' = effects \cup {call.detail}
    /\ UNCHANGED <<terminalVars, server, told>>

ForwardNext ==
    \/ ReviewForward
    \/ ReopenForward
    \/ SendForward
    \/ CancelForward
    \/ ForwardTold
    \/ ForwardInvalidated
    \/ AccountSwitch(ForwardClosed)
    \/ Surroundings
    \/ \E call \in calls :
        \/ ForwardReady(call)
        \/ ForwardFinished(call)
        \/ OriginalFetched(call)
        \/ RecheckOriginal(call)
        \/ ForwardMessage(call)

\* A reviewed message is forwarded once however often the sending is retried,
\* lost answers included (ForwardMessage.random_id).
ForwardsOnce ==
    \A one, other \in effects : one[1] = other[1] => one = other

=============================================================================
