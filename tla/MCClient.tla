------------------------------- MODULE MCClient -------------------------------
(* An instance of what the terminal does with messages: sending them, showing a    *)
(* chat, finding them, alerting of them and keeping the pictures they will carry;   *)
(* of what the user steers, the list of chats and the keys; and of how it keeps      *)
(* itself up to date. `part` names the one a behaviour is about.                     *)
EXTENDS Outbox, Transcript, Alerts, Search, Assets, Navigation, Keys, Installer, UpdateCheck

VARIABLE part
messageVars == <<outboxVars, transcriptVars, alertVars, searchVars, assetVars>>
controlVars == <<navigationVars, keyVars>>
selfVars == <<installerVars, updateCheckVars>>
vars == <<messageVars, controlVars, selfVars, part>>

\* Files of a user: an ambiguous one, one of other keys, with a count, and one that binds
\* keys in two contexts.
UserConfigs ==
    {<<>>,
     <<Binding("chats", <<"g", "m">>, "noop", 1), Binding("chats", <<"g">>, "oldest", 1)>>,
     <<Binding("chats", <<"g", "m">>, "noop", 1), Binding("global", <<"g", "j">>, "message_down", 2),
       Binding("chats", <<"2">>, "mentions", 1)>>,
     <<Binding("global", <<"j">>, "mentions", 1), Binding("compose", <<"j", "0">>, "mentions", 1)>>,
     <<Binding("global", <<"j">>, "unknown", 1)>>}

\* The parts that a behaviour is not about do not move. A chat has more messages than a
\* page from the beginning; at most one certain chat is missing from the list.
Init ==
    /\ part \in {"outbox", "transcript", "alerts", "search", "assets",
                "navigation", "keys", "installer", "check"}
    /\ OutboxInit /\ TranscriptInit /\ AlertsInit /\ SearchInit /\ AssetsInit
    /\ NavigationInit /\ KeysInit /\ InstallerInit /\ UpdateCheckInit
    /\ IF part = "transcript" THEN Len(log) > PageSize ELSE log = <<>>
    /\ IF part = "navigation" THEN 1 \in held ELSE held = Dialog
    /\ part # "keys" => file = <<>>
    /\ part # "installer" => onWindows = FALSE

Next ==
    /\ UNCHANGED part
    /\ \/ /\ part = "outbox" /\ UNCHANGED <<transcriptVars, alertVars, searchVars, assetVars, controlVars, selfVars>>
          /\ OutboxNext
       \/ /\ part = "transcript" /\ UNCHANGED <<outboxVars, alertVars, searchVars, assetVars, controlVars, selfVars>>
          /\ TranscriptNext
       \/ /\ part = "alerts" /\ UNCHANGED <<outboxVars, transcriptVars, searchVars, assetVars, controlVars, selfVars>>
          /\ AlertsNext
       \/ /\ part = "search" /\ UNCHANGED <<outboxVars, transcriptVars, alertVars, assetVars, controlVars, selfVars>>
          /\ SearchNext
       \/ /\ part = "assets" /\ UNCHANGED <<outboxVars, transcriptVars, alertVars, searchVars, controlVars, selfVars>>
          /\ AssetsNext
       \/ /\ part = "navigation" /\ UNCHANGED <<messageVars, keyVars, selfVars>>
          /\ NavigationNext
       \/ /\ part = "keys" /\ UNCHANGED <<messageVars, navigationVars, selfVars>>
          /\ KeysNext
       \/ /\ part = "installer" /\ UNCHANGED <<messageVars, controlVars, updateCheckVars>>
          /\ InstallerNext
       \/ /\ part = "check" /\ UNCHANGED <<messageVars, controlVars, installerVars>>
          /\ UpdateCheckNext

Spec == Init /\ [][Next]_vars

\* The types of the part that moves.
TypeOK ==
    /\ part = "outbox" => OutboxType
    /\ part = "transcript" => TranscriptType
    /\ part = "alerts" => AlertsType
    /\ part = "search" => SearchType
    /\ part = "assets" => AssetsType
    /\ part = "navigation" => NavigationType
    /\ part = "keys" => KeysType
    /\ part = "installer" => InstallerType
    /\ part = "check" => UpdateCheckType

\* The moments that count: an alert is posted only while it is good, and a found
\* message opened only while it exists.
ActsOnWhatIs == OnlyGoodIsPosted /\ OpensWhatExists

\* What the user steers is what is on the screen: the composer and the command line are
\* those of an open chat, and keys do what was typed and what is shown for them.
ControlsHold ==
    /\ part = "navigation" => StaysInItsChat
    /\ part = "keys" => KeysHold

\* The cursor follows its chat, what is opened is what was named, and the list is never
\* older than it was.
ActsAsSteered == [][part = "navigation" => StepsAsSteered]_vars

\* Updates: what a killed or failing replacement leaves can be restored, and what is
\* offered is what the settings of now ask for.
UpdatesHold == ReplacesSafely /\ OffersAreTrue
===============================================================================
