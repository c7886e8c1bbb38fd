------------------------------- MODULE ChatInfo -------------------------------
(* What the account may do in a chat (app/chat_info.rs): looked up while the  *)
(* chat is on the screen, kept until it ages, is told to have changed, or the *)
(* connection is lost. The draft's send is refused by a fresh entry only. A   *)
(* version is the rights and facts of the chat; prompt.plan is the entry's.   *)
EXTENDS TerminalDialog

\* prompt.valid is the flag of the pending request; entries of other chats are
\* independent, and so is their bound of 64.
NoEntry == [plan |-> NoVersion, entry |-> "none", valid |-> TRUE]

InfoInit == DialogInit(NoEntry)

Known == prompt.entry = "fresh"

-------------------------------------------------------------------------------
(* The terminal. *)

\* The chat comes on the screen (or its panel opens) and leaves it.
ChatShown ==
    /\ mode' = IF mode = "Dialog" THEN "Navigate" ELSE "Dialog"
    /\ UNCHANGED <<prompt, pending, nextRequest, online, calls, serverVars>>

\* refresh_chat_info by the key, or REFRESH has passed.
InfoAges ==
    /\ Known
    /\ prompt' = [prompt EXCEPT !.entry = "stale"]
    /\ UNCHANGED <<mode, pending, nextRequest, online, calls, serverVars>>

\* request_visible_chat_info, at every turn of the terminal's loop.
RequestVisibleChatInfo ==
    /\ online /\ mode = "Dialog"
    /\ Idle
    /\ ~Known
    /\ prompt' = [prompt EXCEPT !.valid = TRUE]
    /\ Submit(FALSE, NoVersion, 0)
    /\ UNCHANGED <<mode, online, serverVars>>

\* Mutant: an answer counts although the chat changed while it was fetched.
InfoArrivesAnyway(call) ==
    /\ Takes(call, FALSE)
    /\ pending' = NoPending
    /\ prompt' = [prompt EXCEPT !.entry = "fresh",
                                !.plan = IF call.phase = "failed" THEN NoVersion
                                         ELSE call.version]
    /\ UNCHANGED <<mode, nextRequest, online, serverVars>>

\* ChatInfoReady; an error makes an entry too, which restricts nothing.
ChatInfoReady(call) ==
    /\ Takes(call, FALSE)
    /\ pending' = NoPending
    /\ prompt' = IF ~prompt.valid THEN prompt
                 ELSE [prompt EXCEPT !.entry = "fresh",
                                     !.plan = IF call.phase = "failed" THEN NoVersion
                                              ELSE call.version]
    /\ UNCHANGED <<mode, nextRequest, online, serverVars>>

\* ChatInfoInvalidated of the stream, or a send that was refused.
ChatInfoInvalidated ==
    /\ told' \in {told, told + 1}
    /\ told' <= Changes(server)
    /\ prompt' = [NoEntry EXCEPT !.valid = FALSE]
    /\ UNCHANGED <<mode, pending, nextRequest, online, calls, server, carried, effects>>

\* Status: what was known before the connection was lost has to be looked up.
InfoOnline ==
    /\ online' = ~online
    /\ prompt' = IF online' THEN prompt
                 ELSE [prompt EXCEPT !.entry = IF @ = "none" THEN @ ELSE "stale",
                                     !.valid = FALSE]
    /\ UNCHANGED <<mode, pending, nextRequest, calls, serverVars>>

-------------------------------------------------------------------------------
(* The worker's task. *)

ChatInfoFetched(call) ==
    /\ call.phase = "sent"
    /\ ~server.gone
    /\ Becomes(call, [call EXCEPT !.phase = "done", !.version = server.version])
    /\ UNCHANGED <<terminalVars, serverVars>>

InfoNext ==
    \/ ChatShown
    \/ InfoAges
    \/ RequestVisibleChatInfo
    \/ ChatInfoInvalidated
    \/ InfoOnline
    \/ OthersChange
    \/ AccountSwitch(NoEntry)
    \/ \E call \in calls :
        \/ CallFails(call)
        \/ AnswerIgnored(call)
        \/ ChatInfoReady(call)
        \/ ChatInfoFetched(call)

\* A draft is refused or let through by what the account may do according to
\* everything the terminal was told: an entry that counts as fresh is never
\* older than the last invalidation (draft_restriction).
FreshInfoIsCurrent == (Known /\ prompt.plan # NoVersion) => prompt.plan >= told

=============================================================================
