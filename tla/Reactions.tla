------------------------------- MODULE Reactions ------------------------------
(* Reacting to a message (app/reactions.rs, reactions.rs,                     *)
(* telegram/reactions.rs). A version is the set of reactions the account has  *)
(* chosen; the change is relative to it (a toggle), so that carrying one out  *)
(* twice would undo it.                                                      *)
EXTENDS TerminalDialog

PanelClosed == [open |-> FALSE, plan |-> NoVersion, ready |-> FALSE]

ReactionInit == DialogInit(PanelClosed)

LoadReactions(panel) ==
    /\ prompt' = [panel EXCEPT !.ready = FALSE]
    /\ IF online THEN Submit(FALSE, NoVersion, told)
       ELSE pending' = NoPending /\ UNCHANGED <<nextRequest, calls>>

-------------------------------------------------------------------------------
(* The terminal. *)

BeginReactions ==
    /\ mode = "Navigate"
    /\ ~pending.saving
    /\ ~ToldGone
    /\ mode' = "Dialog"
    /\ LoadReactions([PanelClosed EXCEPT !.open = TRUE])
    /\ UNCHANGED <<online, serverVars>>

RefreshPanel ==
    /\ mode = "Dialog"
    /\ Idle
    /\ prompt.open
    /\ LoadReactions(prompt)
    /\ UNCHANGED <<mode, online, serverVars>>

\* The journal replays what was told since the look-up began.
Replayed(call) == IF told > call.detail /\ ~ToldGone THEN told ELSE call.version

\* Panel::loaded; a journal that overflowed makes the summary stale.
ReactionsLoaded(call) ==
    /\ Takes(call, FALSE)
    /\ pending' = NoPending
    /\ \E fresh \in BOOLEAN :
        prompt' = IF call.phase = "failed" THEN prompt
                  ELSE [prompt EXCEPT !.plan = Replayed(call), !.ready = fresh]
    /\ UNCHANGED <<mode, nextRequest, online, serverVars>>

\* A panel that shows something is told by every answer, awaited or not.
ReactionsAnswered(call) ==
    /\ call \in Answers /\ call.phase = "done"
    /\ ~call.acts /\ ~AwaitedBy(pending, call)
    /\ prompt.open /\ prompt.plan # NoVersion
    /\ calls' = calls \ {call}
    /\ prompt' = [prompt EXCEPT !.plan = Replayed(call)]
    /\ UNCHANGED <<mode, pending, nextRequest, online, serverVars>>

ChangeReaction ==
    /\ mode = "Dialog"
    /\ Idle
    /\ prompt.open /\ prompt.ready /\ prompt.plan # NoVersion
    /\ online
    /\ Submit(TRUE, prompt.plan, told)
    /\ UNCHANGED <<mode, prompt, online, serverVars>>

ReactionsFinished(call) ==
    /\ call.acts
    /\ prompt.open
    /\ \/ /\ call.phase = "failed"
          /\ Settles(call, [prompt EXCEPT !.ready = FALSE])
       \/ /\ call.phase = "done" /\ mode = "Navigate"
          /\ Settles(call, PanelClosed)
       \/ /\ call.phase = "done" /\ mode = "Dialog"
          /\ SettlesAndLooks(call, [prompt EXCEPT !.ready = FALSE],
                             [prompt EXCEPT !.ready = FALSE], told)
    /\ UNCHANGED <<mode, online, serverVars>>

CloseReactions == LetGo(PanelClosed)

\* apply_reactions: the panel shows what it is told, ready as before.
ReactionsTold ==
    /\ told < Changes(server)
    /\ told' = told + 1
    /\ IF ~prompt.open THEN UNCHANGED <<prompt, pending>>
       ELSE IF told' > server.version
       THEN /\ prompt' = [prompt EXCEPT !.ready = FALSE]
            /\ pending' = IF pending.saving THEN pending ELSE NoPending
       ELSE /\ prompt' = [prompt EXCEPT !.plan = IF @ = NoVersion THEN @ ELSE told']
            /\ UNCHANGED pending
    /\ UNCHANGED <<mode, nextRequest, online, calls, server, carried, effects>>

ReactionsInvalidated ==
    /\ prompt.open
    /\ prompt' = [prompt EXCEPT !.ready = FALSE]
    /\ pending' = IF pending.saving THEN pending ELSE NoPending
    /\ UNCHANGED <<mode, nextRequest, online, calls, serverVars>>

-------------------------------------------------------------------------------
(* The worker's task and the server. *)

ReactionsReviewed(call) ==
    /\ ~call.acts /\ call.phase = "sent"
    /\ ~server.gone
    /\ Becomes(call, [call EXCEPT !.phase = "done", !.version = server.version])
    /\ UNCHANGED <<terminalVars, serverVars>>

\* Mutant: the toggle applies to whatever is chosen now.
ToggleAnyway(call) ==
    /\ call.acts /\ call.phase = "sent"
    /\ ~server.gone
    /\ Becomes(call, [call EXCEPT !.phase = "checked"])
    /\ UNCHANGED <<terminalVars, serverVars>>

\* change: the choices must still be the expected ones.
RecheckReactions(call) ==
    /\ call.acts /\ call.phase = "sent"
    /\ ~server.gone /\ call.version = server.version
    /\ Becomes(call, [call EXCEPT !.phase = "checked"])
    /\ UNCHANGED <<terminalVars, serverVars>>

\* The new choices are a new version.
SendReactions(call) ==
    /\ call.acts /\ call.phase = "checked"
    /\ ~server.gone /\ server.version < MaxVersion
    /\ carried < MaxCarried
    /\ \E outcome \in {"done", "failed"} :
        Becomes(call, [call EXCEPT !.phase = outcome])
    /\ server' = [server EXCEPT !.version = @ + 1]
    /\ carried' = carried + 1
    /\ UNCHANGED <<terminalVars, told, effects>>

ReactionNext ==
    \/ BeginReactions
    \/ RefreshPanel
    \/ ChangeReaction
    \/ CloseReactions
    \/ ReactionsTold
    \/ ReactionsInvalidated
    \/ AccountSwitch(PanelClosed)
    \/ Surroundings
    \/ \E call \in calls :
        \/ ReactionsLoaded(call) \/ ReactionsAnswered(call)
        \/ ReactionsFinished(call)
        \/ ReactionsReviewed(call)
        \/ RecheckReactions(call)
        \/ SendReactions(call)

=============================================================================
