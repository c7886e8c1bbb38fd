------------------------------- MODULE Invites --------------------------------
(* Joining by an invite link (app/invites.rs, telegram/invites.rs). The links *)
(* are other links of one chat; a version is a title with its way of joining. *)
(* server.text tells whether the account is a member. A join is tried once    *)
(* for a preview. `effects` holds what joined, as pairs <<preview, join>> of  *)
(* the numbers of the two requests.                                           *)
EXTENDS TerminalDialog

CONSTANT Link   \* the invite links the user opens

Member == "member"
NoLink == "no link"

\* prompt.link is State.hash; prompt.of is the link that the preview was made for.
InviteClosed ==
    [open |-> FALSE, plan |-> NoVersion, link |-> NoLink, of |-> NoLink,
     joined |-> FALSE, settled |-> FALSE, review |-> 0]

InviteInit == DialogInit(InviteClosed)

-------------------------------------------------------------------------------
(* The terminal. *)

BeginInvite ==
    /\ ~pending.saving
    /\ online
    /\ \E link \in Link :
        /\ prompt' = [InviteClosed EXCEPT !.open = TRUE, !.link = link,
                                          !.review = nextRequest + 1]
        /\ Submit(FALSE, NoVersion, [link |-> link, member |-> FALSE, review |-> 0])
    /\ mode' = "Dialog"
    /\ UNCHANGED <<online, serverVars>>

InviteReady(call) ==
    /\ Takes(call, FALSE)
    /\ pending' = NoPending
    /\ prompt' = IF call.phase = "failed" THEN prompt
                 ELSE [prompt EXCEPT !.plan = call.version, !.of = call.detail.link,
                                     !.joined = call.detail.member]
    /\ UNCHANGED <<mode, nextRequest, online, serverVars>>

\* Mutant: the prompt forgets the numbers it has used when it closes.
CloseForgetting ==
    /\ mode = "Dialog"
    /\ ~pending.saving
    /\ mode' = "Navigate"
    /\ pending' = NoPending /\ prompt' = InviteClosed
    /\ nextRequest' = 0
    /\ UNCHANGED <<online, calls, serverVars>>

CloseInvite == LetGo(InviteClosed)

\* Open on a chat the account is in already.
OpenJoined ==
    /\ mode = "Dialog"
    /\ Idle
    /\ prompt.plan # NoVersion /\ ~prompt.settled /\ prompt.joined
    /\ prompt' = InviteClosed
    /\ mode' = "Navigate"
    /\ UNCHANGED <<pending, nextRequest, online, calls, serverVars>>

JoinInvite ==
    /\ mode = "Dialog"
    /\ Idle
    /\ prompt.plan # NoVersion /\ ~prompt.settled /\ ~prompt.joined
    /\ online
    /\ Submit(TRUE, prompt.plan,
              [link |-> prompt.link, member |-> FALSE, review |-> prompt.review])
    /\ UNCHANGED <<mode, prompt, online, serverVars>>

\* Mutant: a join that failed may be tried again from the same preview.
JoinedOrAgain(call) ==
    /\ Takes(call, TRUE)
    /\ pending' = NoPending
    /\ prompt' = [prompt EXCEPT !.settled = call.phase = "done"]
    /\ UNCHANGED <<mode, nextRequest, online, serverVars>>

\* Whatever the outcome the preview is settled; the chat joined is opened when
\* the prompt is still there.
InviteJoined(call) ==
    /\ Takes(call, TRUE)
    /\ pending' = NoPending
    /\ IF call.phase = "done" /\ call.detail.member /\ mode = "Dialog"
       THEN prompt' = InviteClosed /\ mode' = "Navigate"
       ELSE prompt' = [prompt EXCEPT !.settled = TRUE] /\ UNCHANGED mode
    /\ UNCHANGED <<nextRequest, online, serverVars>>

-------------------------------------------------------------------------------
(* The worker's task and the server. *)

InvitePreviewed(call) ==
    /\ ~call.acts /\ call.phase = "sent"
    /\ ~server.gone
    /\ Becomes(call, [call EXCEPT !.phase = "done", !.version = server.version,
                                  !.detail.member = server.text = Member])
    /\ UNCHANGED <<terminalVars, serverVars>>

\* Another client joined meanwhile: nothing is left to do.
AlreadyMember(call) ==
    /\ call.acts /\ call.phase = "sent"
    /\ ~server.gone /\ server.text = Member
    /\ Becomes(call, [call EXCEPT !.phase = "done", !.detail.member = TRUE])
    /\ UNCHANGED <<terminalVars, serverVars>>

RecheckInvite(call) ==
    /\ call.acts /\ call.phase = "sent"
    /\ ~server.gone /\ server.text # Member
    /\ call.version = server.version
    /\ Becomes(call, [call EXCEPT !.phase = "checked"])
    /\ UNCHANGED <<terminalVars, serverVars>>

\* The server makes the account a member, or it waits for an administrator or
\* for a verification; the reply, or the look at the chat after it, may fail.
ImportChatInvite(call) ==
    /\ call.acts /\ call.phase = "checked"
    /\ carried < MaxCarried
    /\ \E member \in BOOLEAN, outcome \in {"done", "failed"} :
        /\ Becomes(call, [call EXCEPT !.phase = outcome, !.detail.member = member])
        /\ server' = [server EXCEPT !.text = IF member THEN Member ELSE @]
    /\ carried' = carried + 1
    /\ effects' = effects \cup {<<call.detail.review, call.id>>}
    /\ UNCHANGED <<terminalVars, told>>

InviteNext ==
    \/ BeginInvite
    \/ CloseInvite
    \/ OpenJoined
    \/ JoinInvite
    \/ AccountSwitch(InviteClosed)
    \/ Surroundings
    \/ \E call \in calls :
        \/ InviteReady(call)
        \/ InviteJoined(call)
        \/ InvitePreviewed(call)
        \/ AlreadyMember(call)
        \/ RecheckInvite(call)
        \/ ImportChatInvite(call)

\* The preview that the user sees, and joins by, is the one of the link he
\* opened last, although previews of links opened before may still arrive
\* (close_invite keeps next_request).
PreviewIsOfTheLink == prompt.plan # NoVersion => prompt.of = prompt.link

\* A preview is joined by once: a join that failed may have reached the server,
\* so that another takes a new preview (observe_invite settles the prompt).
JoinsOncePerPreview ==
    \A one, other \in effects : one[1] = other[1] => one = other

=============================================================================
