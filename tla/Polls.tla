--------------------------------- MODULE Polls --------------------------------
(* Voting in a poll (app/polls.rs, polls.rs, telegram/polls.rs). A version is *)
(* a definition of the poll: question, options, settings. The review follows  *)
(* what the terminal is told, and the answers picked belong to one definition.*)
(* `effects` holds the votes, as pairs <<definition the answers were picked   *)
(* from, definition they counted for>>.                                       *)
EXTENDS TerminalDialog

\* prompt.picked is the definition that review.choices were picked from, when
\* they are dirty: NoVersion stands for the choices that the server knows.
PollClosed == [open |-> FALSE, plan |-> NoVersion, picked |-> NoVersion, ready |-> FALSE]

PollInit == DialogInit(PollClosed)

\* Review::update: fresh data, or another definition, drops the answers picked.
Shown(review, version, loaded) ==
    [review EXCEPT
        !.plan = version,
        !.picked = IF loaded \/ review.plan # version THEN NoVersion ELSE @,
        !.ready = IF loaded THEN TRUE ELSE @ /\ review.plan = version]

\* A look-up notes how far the terminal had been told (history_revisions).
LoadPoll(review) ==
    IF online
    THEN /\ prompt' = [review EXCEPT !.ready = FALSE]
         /\ Submit(FALSE, NoVersion, told)
    ELSE prompt' = review /\ pending' = NoPending /\ UNCHANGED <<nextRequest, calls>>

-------------------------------------------------------------------------------
(* The terminal. *)

\* The row shows what was told, or what a look-up brought since.
BeginPoll ==
    /\ mode = "Navigate"
    /\ ~pending.saving
    /\ ~ToldGone
    /\ mode' = "Dialog"
    /\ \E row \in told..server.version :
        LoadPoll([PollClosed EXCEPT !.open = TRUE, !.plan = row])
    /\ UNCHANGED <<online, serverVars>>

RefreshReview ==
    /\ mode = "Dialog"
    /\ Idle
    /\ prompt.open
    /\ online
    /\ LoadPoll(prompt)
    /\ UNCHANGED <<mode, online, serverVars>>

\* The journal replays the updates told since the look-up began over its answer
\* (Journal::reconcile); when it overflowed the poll is stale, not ready.
PollLoaded(call) ==
    /\ Takes(call, FALSE)
    /\ pending' = NoPending
    /\ \E fresh \in BOOLEAN :
        prompt' = IF call.phase = "failed" THEN prompt
                  ELSE [Shown(prompt, IF told > call.detail /\ ~ToldGone THEN told
                                      ELSE call.version, TRUE) EXCEPT !.ready = fresh]
    /\ UNCHANGED <<mode, nextRequest, online, serverVars>>

\* toggle_poll_answer, RetractVote.
PickAnswers ==
    /\ mode = "Dialog"
    /\ Idle
    /\ prompt.open /\ prompt.ready
    /\ prompt' = [prompt EXCEPT !.picked = prompt.plan]
    /\ UNCHANGED <<mode, pending, nextRequest, online, calls, serverVars>>

SubmitVote ==
    /\ mode = "Dialog"
    /\ Idle
    /\ prompt.open /\ prompt.ready /\ prompt.picked # NoVersion
    /\ online
    /\ Submit(TRUE, prompt.plan, prompt.picked)
    /\ UNCHANGED <<mode, prompt, online, serverVars>>

\* A failed vote waits for a refresh; a saved one is looked up again.
VoteFinished(call) ==
    /\ call.acts
    /\ prompt.open
    /\ \/ /\ call.phase = "failed"
          /\ Settles(call, [prompt EXCEPT !.ready = FALSE])
       \/ /\ call.phase = "done" /\ mode = "Navigate"
          /\ Settles(call, PollClosed)
       \/ /\ call.phase = "done" /\ mode = "Dialog"
          /\ SettlesAndLooks(call, [prompt EXCEPT !.picked = NoVersion],
                             [prompt EXCEPT !.picked = NoVersion, !.ready = FALSE], told)
    /\ UNCHANGED <<mode, online, serverVars>>

ClosePoll == LetGo(PollClosed)

\* PollChanged or MessageUpdated; the last change is the deletion.
PollTold ==
    /\ told < Changes(server)
    /\ told' = told + 1
    /\ IF ~prompt.open THEN UNCHANGED <<prompt, pending>>
       ELSE IF told' > server.version
       THEN /\ prompt' = [prompt EXCEPT !.ready = FALSE]
            /\ pending' = IF pending.saving THEN pending ELSE NoPending
       ELSE prompt' = Shown(prompt, told', FALSE) /\ UNCHANGED pending
    /\ UNCHANGED <<mode, nextRequest, online, calls, server, carried, effects>>

PollInvalidated ==
    /\ prompt.open
    /\ prompt' = [prompt EXCEPT !.ready = FALSE]
    /\ pending' = IF pending.saving THEN pending ELSE NoPending
    /\ UNCHANGED <<mode, nextRequest, online, calls, serverVars>>

-------------------------------------------------------------------------------
(* The worker's task and the server. *)

PollFetched(call) ==
    /\ ~call.acts /\ call.phase = "sent"
    /\ ~server.gone
    /\ Becomes(call, [call EXCEPT !.phase = "done", !.version = server.version])
    /\ UNCHANGED <<terminalVars, serverVars>>

\* vote: the definition is compared again (validate_vote).
RecheckPoll(call) ==
    /\ call.acts /\ call.phase = "sent"
    /\ ~server.gone /\ call.version = server.version
    /\ Becomes(call, [call EXCEPT !.phase = "checked"])
    /\ UNCHANGED <<terminalVars, serverVars>>

SendVote(call) ==
    /\ call.acts /\ call.phase = "checked"
    /\ carried < MaxCarried
    /\ \E outcome \in {"done", "failed"} :
        Becomes(call, [call EXCEPT !.phase = outcome])
    /\ carried' = carried + 1
    /\ effects' = effects \cup {<<call.detail, call.version>>}
    /\ UNCHANGED <<terminalVars, server, told>>

PollNext ==
    \/ BeginPoll
    \/ RefreshReview
    \/ PickAnswers
    \/ SubmitVote
    \/ ClosePoll
    \/ PollTold
    \/ PollInvalidated
    \/ AccountSwitch(PollClosed)
    \/ Surroundings
    \/ \E call \in calls :
        \/ PollLoaded(call)
        \/ VoteFinished(call)
        \/ PollFetched(call)
        \/ RecheckPoll(call)
        \/ SendVote(call)

\* A vote counts for the very options among which the user picked: whatever
\* update, look-up or retry comes in between, answers picked from one
\* definition of the poll are never sent for another.
VotesAsPicked == \A vote \in effects : vote[1] = vote[2]

=============================================================================
