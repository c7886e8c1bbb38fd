---------------------------- MODULE PinnedMessages ----------------------------
(* The pinned messages of a chat (app/message_pins.rs): the list that the user*)
(* browses, the prompt that pins or unpins one, and the updates of other      *)
(* clients. The list awaits `pending`, a change awaits prompt.mutation: the   *)
(* two are independent. A version is the set of pins; prompt.plan is the set  *)
(* that the list shows, NoVersion for the cached rows, whose coverage is said *)
(* to be partial.                                                             *)
EXTENDS TerminalDialog

\* prompt.asking is the mode that the pin prompt returns to (previous_mode).
PinsClosed ==
    [plan |-> NoVersion, loading |-> FALSE, dirty |-> FALSE, error |-> FALSE,
     asking |-> "no", mutation |-> 0]

PinsInit == DialogInit(PinsClosed)

AtList == mode = "Dialog" /\ prompt.asking = "no"

LoadPinPage(p, what) ==
    /\ prompt' = [p EXCEPT !.loading = TRUE, !.dirty = IF what = "page" THEN FALSE ELSE @,
                           !.error = FALSE]
    /\ Submit(FALSE, NoVersion, what)

\* An answer that makes the list load again, within the bound.
AnswerReloads(call, p) ==
    /\ prompt' = [p EXCEPT !.loading = TRUE, !.dirty = FALSE, !.error = FALSE]
    /\ nextRequest' = nextRequest + 1
    /\ pending' = [id |-> nextRequest + 1, saving |-> FALSE]
    /\ calls' = (calls \ {call}) \cup
                {[id |-> nextRequest + 1, acts |-> FALSE, phase |-> "sent",
                  version |-> NoVersion, detail |-> "page"]}

Stays(p) == prompt' = p /\ UNCHANGED <<pending, nextRequest, calls>>

-------------------------------------------------------------------------------
(* The terminal. *)

OpenPins ==
    /\ mode = "Navigate"
    /\ mode' = "Dialog"
    /\ LoadPinPage([prompt EXCEPT !.plan = NoVersion], "page")
    /\ UNCHANGED <<online, serverVars>>

RefreshPins ==
    /\ AtList
    /\ LoadPinPage(prompt, "page")
    /\ UNCHANGED <<mode, online, serverVars>>

\* Open on a pin: its context replaces the conversation when it arrives.
OpenPinContext ==
    /\ AtList
    /\ prompt.plan # NoVersion
    /\ LoadPinPage(prompt, "context")
    /\ UNCHANGED <<mode, online, serverVars>>

LeavePins ==
    /\ AtList
    /\ mode' = "Navigate"
    /\ pending' = NoPending
    /\ prompt' = [prompt EXCEPT !.loading = FALSE]
    /\ UNCHANGED <<nextRequest, online, calls, serverVars>>

BeginMessagePin ==
    /\ online
    /\ prompt.mutation = 0 /\ prompt.asking = "no"
    /\ mode = "Dialog" => prompt.plan # NoVersion
    /\ prompt' = [prompt EXCEPT !.asking = mode, !.error = FALSE]
    /\ mode' = "Dialog"
    /\ UNCHANGED <<pending, nextRequest, online, calls, serverVars>>

CancelPinPrompt ==
    /\ mode = "Dialog" /\ prompt.asking # "no"
    /\ mode' = prompt.asking
    /\ prompt' = [prompt EXCEPT !.asking = "no"]
    /\ UNCHANGED <<pending, nextRequest, online, calls, serverVars>>

ConfirmPin ==
    /\ mode = "Dialog" /\ prompt.asking # "no"
    /\ prompt.mutation = 0
    /\ nextRequest < MaxRequests
    /\ nextRequest' = nextRequest + 1
    /\ prompt' = [prompt EXCEPT !.mutation = nextRequest + 1, !.error = FALSE]
    /\ calls' = calls \cup {[id |-> nextRequest + 1, acts |-> TRUE, phase |-> "sent",
                             version |-> NoVersion, detail |-> "pin"]}
    /\ UNCHANGED <<mode, pending, online, serverVars>>

\* finish_message_pin; within the bound the list is loaded again at once.
PinFinished(call) ==
    /\ call \in Answers
    /\ call.acts /\ prompt.mutation = call.id
    /\ IF call.phase = "failed"
       THEN /\ prompt' = [prompt EXCEPT !.mutation = 0, !.error = TRUE]
            /\ calls' = calls \ {call}
            /\ UNCHANGED <<mode, pending, nextRequest>>
       ELSE LET after == IF prompt.asking = "no" THEN mode ELSE prompt.asking
                closed == [prompt EXCEPT !.mutation = 0, !.asking = "no"]
            IN  /\ mode' = after
                /\ IF after = "Dialog" /\ nextRequest < MaxRequests
                   THEN AnswerReloads(call, closed)
                   ELSE /\ prompt' = [closed EXCEPT !.error = @ \/ after = "Dialog"]
                        /\ calls' = calls \ {call}
                        /\ UNCHANGED <<pending, nextRequest>>
    /\ UNCHANGED <<online, serverVars>>

\* The cached rows come first; they end the loading when there is no connection.
CachedPinsArrive(call) ==
    /\ call.phase = "sent" /\ call.detail = "page"
    /\ AwaitedBy(pending, call)
    /\ prompt' = [prompt EXCEPT !.plan = NoVersion, !.loading = online]
    /\ UNCHANGED <<mode, pending, nextRequest, online, calls, serverVars>>

\* finish_pinned_messages and fail_pinned_messages: a page that pins changed
\* under is asked for again. Past the bound the model stops with an error.
PinPageArrives(call) ==
    /\ call \in Answers
    /\ call.detail = "page"
    /\ AwaitedBy(pending, call)
    /\ IF call.phase = "done" /\ prompt.dirty /\ nextRequest < MaxRequests
       THEN AnswerReloads(call, prompt)
       ELSE /\ calls' = calls \ {call}
            /\ pending' = NoPending
            /\ prompt' = IF call.phase = "failed" \/ prompt.dirty
                         THEN [prompt EXCEPT !.loading = FALSE, !.error = TRUE]
                         ELSE [prompt EXCEPT !.loading = FALSE, !.plan = call.version]
            /\ UNCHANGED nextRequest
    /\ UNCHANGED <<mode, online, serverVars>>

\* finish_pinned_context.
PinContextArrives(call) ==
    /\ Takes(call, FALSE)
    /\ call.detail = "context"
    /\ mode = "Dialog"
    /\ pending' = NoPending
    /\ IF call.phase = "failed"
       THEN prompt' = [prompt EXCEPT !.loading = FALSE, !.error = TRUE] /\ UNCHANGED mode
       ELSE prompt' = [prompt EXCEPT !.loading = FALSE] /\ mode' = "Navigate"
    /\ UNCHANGED <<nextRequest, online, serverVars>>

\* Mutant: a pin told of while the list loads is left to the answer.
PinToldClean ==
    /\ told < server.version
    /\ told' = told + 1
    /\ IF AtList /\ ~prompt.loading THEN LoadPinPage(prompt, "page") ELSE Stays(prompt)
    /\ UNCHANGED <<mode, online, server, carried, effects>>

\* pin_messages_changed, for a pin by another client. (A pin removed leaves the
\* rows at once, and the list is then treated alike.)
PinTold ==
    /\ told < server.version
    /\ told' = told + 1
    /\ IF prompt.loading
       THEN Stays([prompt EXCEPT !.dirty = TRUE])
       ELSE IF AtList THEN LoadPinPage(prompt, "page") ELSE Stays(prompt)
    /\ UNCHANGED <<mode, online, server, carried, effects>>

\* invalidate_message_pins: the history of the chat is fetched anew.
PinsInvalidated ==
    /\ LET after == IF mode = "Dialog" /\ prompt.asking # "no" THEN prompt.asking ELSE mode
           fresh == [PinsClosed EXCEPT !.mutation = prompt.mutation]
       IN  /\ mode' = after
           /\ IF after = "Dialog" THEN LoadPinPage(fresh, "page")
              ELSE prompt' = fresh /\ pending' = NoPending /\ UNCHANGED <<nextRequest, calls>>
    /\ UNCHANGED <<online, serverVars>>

\* The answers of requests let go of: replaced, left, or invalidated.
PinAnswerDropped(call) ==
    /\ call \in Answers
    /\ IF call.acts THEN prompt.mutation # call.id
       ELSE ~AwaitedBy(pending, call) \/ (call.detail = "context" /\ mode = "Navigate")
    /\ calls' = calls \ {call}
    /\ UNCHANGED <<terminalVars, serverVars>>

-------------------------------------------------------------------------------
(* The worker's task and the server. *)

PinsFetched(call) ==
    /\ ~call.acts /\ call.phase = "sent"
    /\ Becomes(call, [call EXCEPT !.phase = "done", !.version = server.version])
    /\ UNCHANGED <<terminalVars, serverVars>>

ChangeMessagePin(call) ==
    /\ call.acts /\ call.phase = "sent"
    /\ server.version < MaxVersion
    /\ \E outcome \in {"done", "failed"} :
        Becomes(call, [call EXCEPT !.phase = outcome])
    /\ server' = [server EXCEPT !.version = @ + 1]
    /\ UNCHANGED <<terminalVars, told, carried, effects>>

OthersPin ==
    /\ server.version < MaxVersion
    /\ server' = [server EXCEPT !.version = @ + 1]
    /\ UNCHANGED <<terminalVars, calls, told, carried, effects>>

PinsNext ==
    \/ OpenPins
    \/ RefreshPins
    \/ OpenPinContext
    \/ LeavePins
    \/ BeginMessagePin
    \/ CancelPinPrompt
    \/ ConfirmPin
    \/ PinTold
    \/ PinsInvalidated
    \/ OthersPin
    \/ ConnectionChanges
    \/ AccountSwitch(PinsClosed)
    \/ \E call \in calls :
        \/ CallFails(call)
        \/ PinFinished(call)
        \/ CachedPinsArrive(call)
        \/ PinPageArrives(call)
        \/ PinContextArrives(call)
        \/ PinAnswerDropped(call)
        \/ PinsFetched(call)
        \/ ChangeMessagePin(call)

\* The page that ends a loading shows every pin that the terminal was told of
\* meanwhile, and before: an answer under way when pins change, whichever of the
\* requests it belongs to, never settles the list with what it found.
PageIsCurrent ==
    (prompt.loading /\ ~prompt'.loading /\ AtList' /\ ~prompt'.error
        /\ prompt'.plan # NoVersion) => prompt'.plan >= told'

\* The list on the screen shows every pin that the terminal was told of, unless
\* it says that it is loading, partial or failed ("Other clients' pin/unpin and
\* deletion updates refresh the banner/list", docs/wiki/en/Pins.md:35-36).
PinListIsCurrent ==
    (AtList /\ ~prompt.loading /\ ~prompt.error /\ prompt.plan # NoVersion) =>
        prompt.plan >= told

=============================================================================
