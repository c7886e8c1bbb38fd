------------------------------- MODULE MCDialogs ------------------------------
(* An instance of the dialogs that review before they act, and of pasting:    *)
(* `dialog` names the one a behaviour is about, so that one run checks what   *)
(* all of them promise.                                                       *)
EXTENDS Deletion, Forwarding, Editing, Invites, Polls, Reactions,
        PinnedMessages, ChatInfo, ReplyPreviews, Stickers, Pasting

VARIABLE dialog
vars == <<dialogVars, pasteVars, dialog>>

DialogStarts ==
    \/ dialog = "deletion" /\ DeletionInit
    \/ dialog = "forwarding" /\ ForwardInit
    \/ dialog = "editing" /\ EditInit
    \/ dialog = "invite" /\ InviteInit
    \/ dialog = "poll" /\ PollInit
    \/ dialog = "reactions" /\ ReactionInit
    \/ dialog = "pins" /\ PinsInit
    \/ dialog = "info" /\ InfoInit
    \/ dialog = "stickers" /\ StickersInit
    \/ dialog = "previews" /\ PreviewInit
    \/ dialog = "pasting" /\ DeletionInit

\* Owners differ in name only; what a behaviour is not about stays as it begins.
Init ==
    /\ DialogStarts /\ PastingInit
    /\ account = CHOOSE o \in Owner : TRUE
    /\ dialog # "pasting" => place = CHOOSE s \in Spot : TRUE

DialogNext ==
    /\ UNCHANGED pasteVars
    /\ \/ dialog = "deletion" /\ DeletionNext
       \/ dialog = "forwarding" /\ ForwardNext
       \/ dialog = "editing" /\ EditNext
       \/ dialog = "invite" /\ InviteNext
       \/ dialog = "poll" /\ PollNext
       \/ dialog = "reactions" /\ ReactionNext
       \/ dialog = "pins" /\ PinsNext
       \/ dialog = "info" /\ InfoNext
       \/ dialog = "stickers" /\ StickersNext
       \/ dialog = "previews" /\ PreviewNext

Next ==
    /\ UNCHANGED dialog
    /\ \/ DialogNext
       \/ dialog = "pasting" /\ PastingNext /\ UNCHANGED dialogVars

\* The steps that bring a call to its end: the worker's time limits answer every
\* command, and the terminal reads every event.
Ends(call) ==
    \/ CallFails(call)
    \/ dialog # "pins" /\ AnswerIgnored(call)
    \/ dialog = "deletion" /\ (DeletionReady(call) \/ DeletionFinished(call))
    \/ dialog = "forwarding" /\ (ForwardReady(call) \/ ForwardFinished(call))
    \/ dialog = "editing" /\ (EditLoaded(call) \/ EditFinished(call))
    \/ dialog = "invite" /\ (InviteReady(call) \/ InviteJoined(call))
    \/ dialog = "poll" /\ (PollLoaded(call) \/ VoteFinished(call))
    \/ dialog = "reactions" /\ (ReactionsLoaded(call) \/ ReactionsFinished(call))
    \/ dialog = "pins" /\ (PinPageArrives(call) \/ PinContextArrives(call)
                            \/ PinAnswerDropped(call))
    \/ dialog = "info" /\ ChatInfoReady(call)
    \/ dialog = "previews" /\ PreviewsArrive(call)
    \/ dialog = "stickers" /\ StickersLoaded(call)

Spec ==
    /\ Init
    /\ [][Next]_vars
    /\ WF_vars(UNCHANGED <<dialog, pasteVars>> /\ \E call \in calls : call.id = pending.id /\ Ends(call))
    \* The fairness of PastingSpec.
    /\ WF_pasteVars(dialog = "pasting" /\ PasteFails)
    /\ WF_pasteVars(dialog = "pasting" /\ StartPreparation)
    /\ WF_pasteVars(dialog = "pasting" /\ FileReadEnds)
    /\ WF_pasteVars(dialog = "pasting" /\ PreparationExpires)
    /\ WF_pasteVars(dialog = "pasting" /\ TakePrepared)

TypeOK == DialogType /\ PastingType

\* Whatever was asked for is answered: no dialog waits for ever, and no draft for an
\* attachment.
RequestsEnd == RequestsSettle /\ PreparationsEnd

\* A confirmation never rests on a plan that the terminal knows to be outdated:
\* whatever the terminal was told of the message, the version that the user
\* confirms looks like the last of it (observe_deletion, observe_forward), and
\* that of a poll or of reactions is no older (observe_polls, observe_reactions).
ConfirmsWhatIsTold ==
    [][\A call \in calls' \ calls :
        (call.acts /\ call.phase = "sent") =>
            /\ dialog \in {"deletion", "forwarding"} =>
                    ~ToldGone /\ Looks(call.version) >= Looks(told)
            /\ dialog \in {"poll", "reactions"} => ~ToldGone /\ call.version >= told]_vars

\* What was carried out, dialog by dialog.
EffectsAsConfirmed ==
    /\ dialog = "forwarding" => ForwardsOnce
    /\ dialog = "invite" => JoinsOncePerPreview
    /\ dialog = "poll" => VotesAsPicked

\* Nothing newer gives way to an answer: neither what the terminal was told of, to the
\* page that ends the loading of a list of pins or to a batch of excerpts, nor what the
\* user typed in an edit, to any step but the user's own.
NothingNewerIsLost ==
    [][/\ dialog = "pins" => PageIsCurrent
       /\ dialog = "previews" => BatchNeverUndoes
       /\ dialog = "editing" => TypedTextIsKept]_vars

\* What the terminal was told of is respected, by confirmations and by answers.
ToldIsRespected == ConfirmsWhatIsTold /\ NothingNewerIsLost

\* What is on the screen: the invite shown is the one that was opened, the rights in
\* a chat are those last told of, and what a sticker panel shows as loading is
\* loading, within its budget.
ShownIsTrue ==
    /\ dialog = "invite" => PreviewIsOfTheLink
    /\ dialog = "info" => FreshInfoIsCurrent
    /\ dialog = "stickers" => ThumbBudget /\ SetOnItsWay
=============================================================================
