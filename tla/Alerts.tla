-------------------------------- MODULE Alerts --------------------------------
(* Desktop alerts: the groups of new messages and the settings they wait for      *)
(* (app/alerts.rs), the RPC that resolves the settings (telegram/notifications.rs) *)
(* and the thread that posts, which shares with the terminal one flag per alert    *)
(* (notifications/delivery.rs).                                                    *)
EXTENDS Naturals, Sequences, FiniteSets, FiniteSetsExt

CONSTANTS
    Talk,           \* conversations
    Channel,        \* those whose messages have identifiers of their own
    Kind,           \* "plain" and "mention": SettingsKey.sender is for a mention only
    Backend,        \* keymap.notifications.backend: "terminal", "native" or "auto"
    MaxLoading,     \* settings requests at a time
    MaxGrouped,     \* MAX_MESSAGES: messages of one group
    MaxJobs,        \* the capacity of the thread's channel
    MaxMessages,    \* bound: messages of a conversation
    MaxAlertChanges, \* bound: edits of a message with changes of the settings
    MaxAccounts,    \* bound: accounts used one after the other
    MaxResolved     \* bound: settings requests

ASSUME ChannelsAreTalks == Channel \subseteq Talk
\* A group has a message, and a channel holds jobs.
ASSUME AlertsAssumption ==
    MaxMessages \in Nat /\ MaxGrouped \in Nat \ {0} /\ MaxJobs \in Nat

VARIABLES
    login,          \* account_user_id, counted by the switches
    online,         \* State.online; also whether alerts are wanted at all
    highWater,      \* State.high_water
    groups,         \* State.groups: the messages of each
    preferences,    \* State.settings
    submitted,      \* State.submitted: the alerts it can still withdraw
    nextResolve,    \* State.next_request
    boundary,       \* read_inbox_max_id of the conversations
    alerts,         \* every alert taken, by number
    valid,          \* those whose flag is set
    jobs,           \* the channel to the thread
    posting,        \* what the thread is at: an alert and whether it posts it
    completions,    \* the channel back
    resolving,      \* settings requests under way, with what was read if anything
    settingsChanges, \* how often the settings changed on the server
    notices,        \* changes the terminal was not told of yet
    arrived,        \* messages delivered to the terminal
    text,           \* their latest text that the terminal knows
    gone            \* ghost: those the terminal knows deleted, or read, or has shown

policyVars == <<login, online, highWater, groups, preferences, submitted,
                nextResolve, boundary>>
deliveryVars == <<alerts, valid, jobs, posting, completions>>
serverVars == <<resolving, settingsChanges, notices, arrived, text, gone>>
alertVars == <<policyVars, deliveryVars, serverVars>>

SettingsKey == Talk \X Kind
Id == 1..MaxMessages
Unknown == [known |-> FALSE, asOf |-> 0]
AtRest == [alert |-> 0, posts |-> FALSE]

AlertsInit ==
    /\ login = 1 /\ online = FALSE
    /\ highWater = [c \in Talk |-> 0] /\ boundary = [c \in Talk |-> 0]
    /\ groups = [c \in Talk |-> {}]
    /\ preferences = <<>> /\ submitted = {} /\ nextResolve = 0
    /\ alerts = <<>> /\ valid = {}
    /\ jobs = <<>> /\ posting = AtRest /\ completions = <<>>
    /\ resolving = {} /\ settingsChanges = 0 /\ notices = 0
    /\ arrived = [c \in Talk |-> 0] /\ text = [m \in Talk \X Id |-> 0]
    /\ gone = {}

Drop(f, keys) == [k \in DOMAIN f \ keys |-> f[k]]

\* What an alert or a group says of a conversation.
IdsOf(items) == {item.id : item \in items}
Of(alert) == {<<alert.chat, id>> : id \in IdsOf(alert.items)}

-------------------------------------------------------------------------------
(* What the terminal hears. *)

\* Mutant: what was handed to the thread is not withdrawn.
RemoveFromGroups(messages) ==
    /\ groups' = [c \in Talk |-> {m \in groups[c] : <<c, m.id>> \notin messages}]
    /\ UNCHANGED <<submitted, valid>>

\* remove_matching
RemoveMatching(messages) ==
    LET withdrawn == {a \in submitted : Of(alerts[a]) \cap messages # {}} IN
    /\ groups' = [c \in Talk |-> {m \in groups[c] : <<c, m.id>> \notin messages}]
    /\ submitted' = submitted \ withdrawn
    /\ valid' = valid \ withdrawn

\* Mutant: the alerts are forgotten but still good.
ForgetAlerts == groups' = [c \in Talk |-> {}] /\ submitted' = {} /\ UNCHANGED valid

CancelAlerts ==
    /\ groups' = [c \in Talk |-> {}]
    /\ submitted' = {}
    /\ valid' = valid \ submitted

FewChanges == \A m \in Talk \X Id : settingsChanges + text[m] < MaxAlertChanges

OnlyMessages ==
    UNCHANGED <<login, online, preferences, nextResolve,
                alerts, jobs, posting, completions, resolving, settingsChanges,
                notices>>

\* Ready and Status(Online).
GoesOnline ==
    /\ ~online /\ online' = TRUE
    /\ UNCHANGED <<login, highWater, groups, preferences, submitted,
                   nextResolve, boundary, deliveryVars, serverVars>>

\* Any other Status, Auth and Fatal.
GoesOffline ==
    /\ online /\ online' = FALSE
    /\ CancelAlerts
    /\ preferences' = <<>>
    /\ UNCHANGED <<login, highWater, nextResolve, boundary, alerts,
                   jobs, posting, completions, serverVars>>

\* Mutant: every message that is delivered is new.
QueueAnyAlert(chat, id, kind, live) ==
    /\ highWater' = [highWater EXCEPT ![chat] = Max({@, id})]
    /\ groups' = IF online /\ live
                 THEN [groups EXCEPT ![chat] = @ \cup
                        {[id |-> id, text |-> text[<<chat, id>>], kind |-> kind]}]
                 ELSE groups

\* queue_alert; `live` is fresh, at most half a minute old and sent while online.
QueueAlert(chat, id, kind, live) ==
    /\ highWater' = [highWater EXCEPT ![chat] = Max({@, id})]
    /\ groups' =
        IF id > highWater[chat] /\ online /\ live
        THEN LET full == Cardinality(groups[chat]) = MaxGrouped
                 kept == IF full THEN {m \in groups[chat] : m.id # Min(IdsOf(groups[chat]))}
                         ELSE groups[chat] IN
             [groups EXCEPT ![chat] = kept \cup
                {[id |-> id, text |-> text[<<chat, id>>], kind |-> kind]}]
        ELSE groups

\* NewMessage: the next one, or one that is delivered again.
NewMessage(chat, id, kind, live) ==
    /\ id <= arrived[chat] + 1 /\ <<chat, id>> \notin gone
    /\ QueueAlert(chat, id, kind, live)
    /\ arrived' = [arrived EXCEPT ![chat] = Max({@, id})]
    /\ UNCHANGED <<login, online, preferences, submitted, nextResolve,
                   boundary, deliveryVars, resolving, settingsChanges, notices, text, gone>>

\* Mutant: an edit corrects the messages that wait, and no more.
CorrectGroup(chat, id, new) ==
    /\ groups' = [groups EXCEPT ![chat] =
                    {IF m.id = id THEN [m EXCEPT !.text = new] ELSE m : m \in @}]
    /\ UNCHANGED valid

\* MessageUpdated: queued native text cannot be rewritten.
Correct(chat, id, new) ==
    /\ groups' = [groups EXCEPT ![chat] =
                    {IF m.id = id THEN [m EXCEPT !.text = new] ELSE m : m \in @}]
    /\ valid' = valid \ {a \in submitted : <<chat, id>> \in Of(alerts[a])}

MessageUpdated(chat, id) ==
    /\ id <= arrived[chat] /\ <<chat, id>> \notin gone
    /\ FewChanges
    /\ text' = [text EXCEPT ![<<chat, id>>] = @ + 1]
    /\ Correct(chat, id, text[<<chat, id>>] + 1)
    /\ UNCHANGED <<highWater, submitted, boundary, arrived, gone>>
    /\ OnlyMessages

\* MessagesDeleted and MessageContentsRead: of one channel, or of all other talks.
MessagesDeleted(chat, id) ==
    /\ id <= arrived[chat]
    /\ LET affected == IF chat \in Channel THEN {<<chat, id>>}
                       ELSE {<<c, id>> : c \in Talk \ Channel} IN
        /\ \A m \in affected : m[2] <= arrived[m[1]]
        /\ RemoveMatching(affected)
        /\ gone' = gone \cup affected
    /\ UNCHANGED <<highWater, boundary, arrived, text>>
    /\ OnlyMessages

\* ReadMarked and UnreadChanged.
ReadUpTo(chat, id) ==
    /\ boundary[chat] < id /\ id <= arrived[chat]
    /\ boundary' = [boundary EXCEPT ![chat] = id]
    /\ RemoveMatching({<<chat, i>> : i \in 1..id})
    /\ gone' = gone \cup {<<chat, i>> : i \in 1..id}
    /\ UNCHANGED <<highWater, arrived, text>>
    /\ OnlyMessages

\* CacheInvalidated: the history is loaded anew, nothing of it is alerted again.
CacheInvalidated(chat) ==
    /\ groups[chat] # {} \/ \E a \in submitted : alerts[a].chat = chat
    /\ RemoveMatching({chat} \X Id)
    /\ UNCHANGED <<highWater, boundary, arrived, text, gone>>
    /\ OnlyMessages

-------------------------------------------------------------------------------
(* The settings of a conversation and, for a mention, of its sender. *)

\* NotifySettings, a mute of the user's that is confirmed.
SettingsChange ==
    /\ FewChanges
    /\ settingsChanges' = settingsChanges + 1 /\ notices' = notices + 1
    /\ UNCHANGED <<policyVars, deliveryVars, resolving, arrived, text, gone>>

\* NotificationSettingsChanged, ChatMuteChanged, ChatMuteFinished: the groups stay.
InvalidateAlertSettings ==
    /\ notices > 0 /\ notices' = notices - 1
    /\ preferences' = <<>>
    /\ submitted' = {}
    /\ valid' = valid \ submitted
    /\ UNCHANGED <<login, online, highWater, groups, nextResolve,
                   boundary, alerts, jobs, posting, completions,
                   resolving, settingsChanges, arrived, text, gone>>

\* resolve_alert reads the settings, or it fails.
Resolves(request) ==
    /\ ~request.read
    /\ \E ok \in BOOLEAN :
        resolving' = (resolving \ {request}) \cup
            {[request EXCEPT !.read = TRUE,
                             !.value = IF ok THEN [known |-> TRUE, asOf |-> settingsChanges]
                                       ELSE Unknown]}
    /\ UNCHANGED <<policyVars, deliveryVars, settingsChanges, notices, arrived, text, gone>>

\* Mutant: an answer is taken for the key, whichever request it answers.
TakeAnySettings(request) ==
    IF request.key \in DOMAIN preferences
    THEN preferences' = [preferences EXCEPT ![request.key].loading = FALSE,
                                            ![request.key].value = request.value]
    ELSE UNCHANGED preferences

TakeSettings(request) ==
    IF request.key \in DOMAIN preferences /\ preferences[request.key].request = request.id
    THEN preferences' = [preferences EXCEPT ![request.key].loading = FALSE,
                                            ![request.key].value = request.value]
    ELSE UNCHANGED preferences

AlertSettingsReady(request) ==
    /\ request.read
    /\ resolving' = resolving \ {request}
    /\ TakeSettings(request)
    /\ UNCHANGED <<login, online, highWater, groups, submitted, nextResolve,
                   boundary, deliveryVars, settingsChanges, notices, arrived, text, gone>>

-------------------------------------------------------------------------------
(* A turn of the event loop: prune_alerts, request_alert_settings_at and         *)
(* take_alerts_at with Dispatcher.flush; the screen was drawn just before.       *)

\* Drawn: up to some message of one conversation, while the terminal has the focus.
Drawn == {{<<c, i>> : i \in 1..id} : c \in Talk, id \in {0} \cup {arrived[c] : c \in Talk}}
Read == UNION {{<<c, i>> : i \in 1..boundary[c]} : c \in Talk}

\* What is left of the groups, and the submitted alerts that go: those whose half
\* minute is over (`late`) and those with a message that is read or `drawn`.
Pruned(drawn) == [c \in Talk |-> {m \in groups[c] : <<c, m.id>> \notin drawn \cup Read}]
Withdrawn(drawn, late) ==
    {a \in submitted : a \in late \/ Of(alerts[a]) \cap (drawn \cup Read) # {}}

Prune ==
    \E drawn \in Drawn :
        /\ \E late \in {{}} \cup {{a} : a \in submitted} :
            /\ submitted' = (submitted \ Withdrawn(drawn, late)) \cap valid
            /\ valid' = valid \ Withdrawn(drawn, late)
        /\ \E old \in {{}} \cup {{c} : c \in Talk} :
            groups' = [c \in Talk |-> IF c \in old THEN {} ELSE Pruned(drawn)[c]]
        /\ gone' = gone \cup drawn

FreeRequests == MaxLoading - Cardinality({k \in DOMAIN preferences : preferences[k].loading})

Unresolved ==
    (UNION {{<<c, m.kind>> : m \in groups'[c]} : c \in Talk}) \ DOMAIN preferences

RequestAlertSettings ==
    /\ Prune
    /\ FreeRequests > 0 /\ nextResolve < MaxResolved
    /\ \E k \in Unresolved :
        /\ nextResolve' = nextResolve + 1
        /\ preferences' = [j \in DOMAIN preferences \cup {k} |->
                            IF j = k THEN [request |-> nextResolve', loading |-> TRUE,
                                           value |-> Unknown]
                            ELSE preferences[j]]
        /\ resolving' = resolving \cup {[key |-> k, id |-> nextResolve', read |-> FALSE,
                                         value |-> Unknown]}
    /\ UNCHANGED <<login, online, highWater, boundary, alerts, jobs, posting,
                   completions, settingsChanges, notices, arrived, text>>

\* Settings that are too old are pruned, answered or not.
SettingsExpire(k) ==
    /\ Prune
    /\ preferences' = Drop(preferences, {k})
    /\ UNCHANGED <<login, online, highWater, nextResolve, boundary, alerts, jobs,
                   posting, completions, resolving, settingsChanges, notices, arrived, text>>

Settled(chat, items) ==
    \A m \in items : LET k == <<chat, m.kind>> IN
        k \in DOMAIN preferences /\ preferences[k].value.known

\* submitted has one entry for a conversation and the last message of an alert.
Replaced(new) ==
    {a \in submitted : /\ alerts[a].chat = new.chat
                       /\ Max(IdsOf(alerts[a].items)) = Max(IdsOf(new.items))}

\* A group whose delay is over is taken: its unmuted messages, if there are any,
\* become an alert. The terminal posts it at once, or it is queued; if the queue is
\* full it is given up.
TakeAlert(chat, drawn) ==
    LET items == Pruned(drawn)[chat]
        kept == (submitted \ Withdrawn(drawn, {})) \cap valid IN
    /\ items # {} /\ Settled(chat, items)
    /\ groups' = [Pruned(drawn) EXCEPT ![chat] = {}]
    /\ gone' = gone \cup drawn
    /\ \E eligible \in SUBSET items :
        LET alert == [account |-> login, chat |-> chat, items |-> eligible,
                      asOf |-> {preferences[<<chat, m.kind>>].value.asOf : m \in eligible}]
            n == Len(alerts) + 1
            queues == Backend # "terminal" /\ Len(jobs) < MaxJobs IN
        IF eligible = {}
        THEN /\ submitted' = kept /\ valid' = valid \ Withdrawn(drawn, {})
             /\ UNCHANGED <<alerts, jobs>>
        ELSE /\ alerts' = Append(alerts, alert)
             /\ valid' = (valid \ Withdrawn(drawn, {})) \cup {n}
             /\ submitted' = (kept \ Replaced(alert)) \cup (IF queues THEN {n} ELSE {})
             /\ jobs' = IF queues THEN Append(jobs, n) ELSE jobs
    /\ UNCHANGED <<login, online, highWater, preferences, nextResolve, boundary, posting,
                   completions, resolving, settingsChanges, notices, arrived, text>>

\* A turn that only prunes.
Turn ==
    /\ Prune
    /\ <<groups, submitted, valid>>' # <<groups, submitted, valid>>
    /\ UNCHANGED <<login, online, highWater, preferences, nextResolve, boundary,
                   alerts, jobs, posting, completions, resolving, settingsChanges, notices,
                   arrived, text>>

-------------------------------------------------------------------------------
(* The thread and what comes back from it. *)

\* Mutant: what is queued is posted.
TakeAnyJob ==
    /\ posting = AtRest /\ jobs # <<>>
    /\ posting' = [alert |-> Head(jobs), posts |-> TRUE]
    /\ jobs' = Tail(jobs)
    /\ UNCHANGED <<policyVars, serverVars, alerts, valid, completions>>

TakeJob ==
    /\ posting = AtRest /\ jobs # <<>>
    /\ posting' = [alert |-> Head(jobs),
                   posts |-> Head(jobs) \in valid]
    /\ jobs' = Tail(jobs)
    /\ UNCHANGED <<policyVars, serverVars, alerts, valid, completions>>

PostNative ==
    /\ posting # AtRest
    /\ \E ok \in BOOLEAN :
        /\ posting.posts \/ ok
        /\ completions' = Append(completions, [alert |-> posting.alert, ok |-> ok])
    /\ posting' = AtRest
    /\ UNCHANGED <<policyVars, serverVars, alerts, valid, jobs>>

\* Mutant: the failure of an alert that was withdrawn is made up for.
FallbackAnyway(done) == ~done.ok /\ Backend = "auto"

Fallback(done) ==
    /\ ~done.ok /\ Backend = "auto"
    /\ done.alert \in valid
    /\ alerts[done.alert].account = login

\* Dispatcher.activity; alert_finished goes by the flag, not only by its key.
Delivered ==
    /\ completions # <<>>
    /\ submitted' = submitted \ {Head(completions).alert}
    /\ completions' = Tail(completions)
    /\ UNCHANGED <<login, online, highWater, groups, preferences,
                   nextResolve, boundary, alerts, valid, jobs, posting,
                   serverVars>>

-------------------------------------------------------------------------------
(* The account. *)

\* reset_for_account_switch, and what the new worker restores from its cache
\* (CachedSnapshot). The thread and its channels stay.
SwitchAlerts ==
    /\ login < MaxAccounts /\ login' = login + 1
    /\ online' = FALSE
    /\ CancelAlerts
    /\ highWater' = [c \in Talk |-> arrived[c]]
    /\ boundary' = [c \in Talk |-> 0]
    /\ preferences' = <<>> /\ nextResolve' = 0
    /\ resolving' = {} /\ notices' = 0
    /\ UNCHANGED <<alerts, jobs, posting, completions, settingsChanges,
                   arrived, text, gone>>

AlertsNext ==
    \/ GoesOnline
    \/ GoesOffline
    \/ (\E c \in Talk, id \in Id, k \in Kind, live \in BOOLEAN : NewMessage(c, id, k, live))
    \/ (\E c \in Talk, id \in Id : MessageUpdated(c, id))
    \/ (\E c \in Talk, id \in Id : MessagesDeleted(c, id))
    \/ (\E c \in Talk, id \in Id : ReadUpTo(c, id))
    \/ (\E c \in Talk : CacheInvalidated(c))
    \/ SettingsChange
    \/ InvalidateAlertSettings
    \/ (\E r \in resolving : Resolves(r))
    \/ (\E r \in resolving : AlertSettingsReady(r))
    \/ RequestAlertSettings
    \/ (\E k \in DOMAIN preferences : SettingsExpire(k))
    \/ (\E c \in Talk, drawn \in Drawn : TakeAlert(c, drawn))
    \/ Turn
    \/ TakeJob
    \/ PostNative
    \/ Delivered
    \/ SwitchAlerts

AlertsSpec == AlertsInit /\ [][AlertsNext]_alertVars

-------------------------------------------------------------------------------
(* Properties. *)

AlertsType ==
    /\ submitted \subseteq DOMAIN alerts /\ valid \subseteq DOMAIN alerts
    /\ DOMAIN preferences \subseteq SettingsKey
    /\ \A c \in Talk : Cardinality(groups[c]) <= MaxGrouped
    /\ Len(jobs) <= MaxJobs

\* An alert that is still good says what the terminal knows: none of its messages is
\* deleted, read or seen, none was edited since, its account is the one in use and its
\* settings are not older than a change the terminal was told of.
Good(a) ==
    LET alert == alerts[a] IN
    /\ Of(alert) \cap gone = {}
    /\ \A m \in alert.items : m.text = text[<<alert.chat, m.id>>]
    /\ alert.account = login
    /\ \A asOf \in alert.asOf : asOf >= settingsChanges - notices

\* Every alert the thread or a fallback may still post is a good one: whatever
\* reaches the terminal while the alert is queued withdraws it
\* (notifications/delivery.rs:106, app/alerts.rs:85).
QueuedAlertsAreGood ==
    \A a \in DOMAIN alerts :
        a \in valid /\ (\E i \in DOMAIN jobs : jobs[i] = a) => Good(a)

\* An alert is shown only if it is good when the thread picks it, or when the terminal
\* makes up for a failure of the thread (notifications/delivery.rs:132).
OnlyGoodIsPosted ==
    [][/\ (posting'.posts /\ ~posting.posts) => Good(posting'.alert)
       /\ (completions # <<>> /\ Fallback(Head(completions)) /\ completions' = Tail(completions))
          => Good(Head(completions).alert)]_alertVars

\* No message is alerted twice, however often it is delivered (high_water).
AlertedOnce ==
    \A a, b \in DOMAIN alerts : a # b => Of(alerts[a]) \cap Of(alerts[b]) = {}

\* What may still be posted says what the terminal knows, and of no message twice.
AlertsHold == QueuedAlertsAreGood /\ AlertedOnce
================================================================================
