------------------------------- MODULE Presence -------------------------------
(* The online status: what the terminal wants to report (presence.rs), the task of *)
(* the worker that reports it (telegram/presence.rs), Telegram, which forgets an   *)
(* online status that is not repeated, and the end of a worker. Time in the        *)
(* terminal is counted in ticks; a call that fails was not carried out, and so     *)
(* was one that is aborted before Telegram serves it.                              *)
EXTENDS Naturals, Sequences, FiniteSetsExt

CONSTANTS
    FocusDelay, BlurTimeout, IdleTimeout,  \* in ticks
    MaxQueued,    \* bound: reports on their way to the worker
    MaxFailures,  \* bound: calls that fail
    MaxWorkers    \* bound: workers ever started

\* The limits of presence.rs are of 1, 5 and 30 seconds.
ASSUME PresenceAssumption ==
    /\ {FocusDelay, BlurTimeout, IdleTimeout} \subseteq Nat
    /\ FocusDelay <= BlurTimeout /\ BlurTimeout <= IdleTimeout

VARIABLES
    focused,      \* State.focused
    sinceFocus,   \* ticks since State.focus_changed, up to the longest that matters
    sinceInput,   \* ticks since State.last_input
    ready,        \* State.ready
    reported,     \* State.reported
    alarm,        \* ticks until the main loop wakes up by itself (next_presence_deadline)
    awake,        \* the main loop handles an event and will look at the status
    reports,      \* SetOnline commands on their way to the worker
    stage,        \* the worker: "running", "closing", "finishing" or "stopped"
    asked,        \* Handle.wanted: the status, and whether the task has seen it
    notified,     \* the permit of Handle.other_offline
    acknowledged, \* Handle.online
    task,         \* report: where it is, and the status it works on
    call,         \* UpdateStatus under way: the status and how far it got
    retry,        \* report's retry_at: "never", "later" or "now"
    refresh,      \* report's refresh_at, likewise
    visible,      \* the worker whose report makes Telegram show the account online, or 0
    offlineNews,  \* the status update of another session is on its way
    failures, workers

stateVars == <<focused, sinceFocus, sinceInput, ready, reported, alarm, awake>>
taskVars == <<asked, notified, acknowledged, task, call, retry, refresh>>
telegramVars == <<visible, offlineNews>>
presenceBounds == <<failures, workers>>
presenceVars == <<stateVars, reports, stage, taskVars, telegramVars, presenceBounds>>

Never == IdleTimeout + 1
Offline == 0
NoCall == [status |-> FALSE, phase |-> "none"]

Unasked == [status |-> FALSE, seen |-> TRUE]
Begun == [at |-> "looking", status |-> FALSE]

PresenceInit ==
    /\ focused = TRUE /\ sinceFocus = 0 /\ sinceInput = 0
    /\ ready = FALSE /\ reported = FALSE /\ alarm = Never /\ awake = TRUE
    /\ reports = <<>>
    /\ stage = "running"
    /\ asked = Unasked /\ notified = FALSE /\ acknowledged = FALSE
    /\ task = Begun /\ call = NoCall /\ retry = "never" /\ refresh = "never"
    /\ visible = Offline /\ offlineNews = FALSE
    /\ failures = 0 /\ workers = 1

-------------------------------------------------------------------------------
(* The terminal.                                                               *)

\* wanted(): the status now, and in how many ticks that answer changes.
Until ==
    IF focused THEN IdleTimeout - sinceInput
    ELSE IF sinceFocus >= BlurTimeout \/ sinceInput >= IdleTimeout THEN 0
    ELSE Min({IdleTimeout - sinceInput, BlurTimeout - sinceFocus})

Wanted(r) ==
    /\ Until > 0
    /\ IF focused THEN sinceFocus >= FocusDelay ELSE r

\* Mutant: nothing wakes the terminal up once it has lost the focus.
DeadlineFocused(r) ==
    IF ~ready \/ Until = 0 \/ ~focused THEN Never
    ELSE IF sinceFocus < FocusDelay THEN FocusDelay - sinceFocus
    ELSE Until

Deadline(r) ==
    IF ~ready \/ Until = 0 \/ (~focused /\ ~r) THEN Never
    ELSE IF focused /\ sinceFocus < FocusDelay THEN FocusDelay - sinceFocus
    ELSE Until

\* An iteration of the main loop: request_presence (change), then the deadline.
Iterate ==
    /\ awake /\ Len(reports) < MaxQueued
    /\ awake' = FALSE
    /\ reported' = (ready /\ Wanted(reported))
    /\ alarm' = Deadline(reported')
    /\ reports' = IF reported' = reported THEN reports ELSE Append(reports, reported')
    /\ UNCHANGED <<focused, sinceFocus, sinceInput, ready, stage, taskVars, telegramVars,
                   presenceBounds>>

\* The terminal's events; each is handled before the next one is read.
Event ==
    /\ ~awake /\ awake' = TRUE
    /\ UNCHANGED <<reported, alarm, reports, stage, taskVars, telegramVars, presenceBounds>>

Input == Event /\ sinceInput' = 0 /\ UNCHANGED <<focused, sinceFocus, ready>>

Focus ==
    /\ Event
    /\ focused' = ~focused /\ sinceFocus' = 0
    /\ sinceInput' = IF focused' THEN 0 ELSE sinceInput
    /\ UNCHANGED ready

Ready ==
    /\ Event
    /\ ~ready /\ stage = "running"
    /\ ready' = TRUE
    /\ UNCHANGED <<focused, sinceFocus, sinceInput>>

Wake == Event /\ alarm = 0 /\ UNCHANGED <<focused, sinceFocus, sinceInput, ready>>

Tick ==
    /\ sinceFocus' = Min({sinceFocus + 1, BlurTimeout})
    /\ sinceInput' = Min({sinceInput + 1, IdleTimeout})
    /\ alarm' = IF alarm \in {0, Never} THEN alarm ELSE alarm - 1
    /\ UNCHANGED <<focused, ready, reported, awake, reports, stage, taskVars, telegramVars,
                   presenceBounds>>

-------------------------------------------------------------------------------
(* The worker: its commands and updates, and the task that reports.            *)

ReadReport ==
    /\ stage = "running" /\ reports # <<>>
    /\ asked' = [status |-> Head(reports), seen |-> FALSE]
    /\ reports' = Tail(reports)
    /\ UNCHANGED <<stateVars, stage, notified, acknowledged, task, call, retry, refresh,
                   telegramVars, presenceBounds>>

\* own_status
ReadOffline ==
    /\ stage = "running" /\ offlineNews
    /\ notified' = TRUE /\ offlineNews' = FALSE
    /\ UNCHANGED <<stateVars, reports, stage, asked, acknowledged, task, call, retry, refresh,
                   visible, presenceBounds>>

Due(status) == status # acknowledged \/ (status /\ refresh # "later")

\* The head of the loop: borrow_and_update, then the call if one is due.
Look ==
    /\ stage = "running" /\ task.at = "looking"
    /\ asked' = [asked EXCEPT !.seen = TRUE]
    /\ LET asks == Due(asked.status) /\ retry # "later"
       IN /\ task' = [at |-> IF asks THEN "asking" ELSE "waiting", status |-> asked.status]
          /\ call' = IF asks THEN [status |-> asked.status, phase |-> "sent"] ELSE NoCall
    /\ UNCHANGED <<stateVars, reports, stage, notified, acknowledged, retry, refresh,
                   telegramVars, presenceBounds>>

Returns(ackd, again, repeated) ==
    /\ acknowledged' = ackd /\ retry' = again /\ refresh' = repeated
    /\ call' = NoCall /\ task' = [task EXCEPT !.at = "looking"]
    /\ UNCHANGED <<stateVars, reports, stage, asked, notified, telegramVars, presenceBounds>>

CallReturns ==
    /\ stage = "running" /\ task.at = "asking"
    /\ \/ call.phase = "done" /\ Returns(call.status, "never", "later")
       \/ call.phase = "failed" /\ Returns(acknowledged, "later", refresh)

Awakes ==
    /\ stage = "running" /\ task.at = "waiting"
    /\ task' = [task EXCEPT !.at = "looking"]
    /\ UNCHANGED <<stateVars, reports, stage, asked, acknowledged, call, retry, telegramVars,
                   presenceBounds>>

WantedChanged == Awakes /\ ~asked.seen /\ UNCHANGED <<notified, refresh>>

\* Another session went offline: an online status is to be said again.
OtherOffline ==
    /\ Awakes /\ notified
    /\ notified' = FALSE
    /\ refresh' = IF task.status THEN "never" ELSE refresh

\* Mutant: only the period wakes the task up, not the time to try again.
TimerFiresLate ==
    /\ Awakes
    /\ retry # "later" /\ task.status /\ refresh = "now"
    /\ UNCHANGED <<notified, refresh>>

TimerFires ==
    /\ Awakes
    /\ retry = "now" \/ (retry = "never" /\ task.status /\ refresh = "now")
    /\ UNCHANGED <<notified, refresh>>

TimePasses ==
    /\ stage = "running"
    /\ \/ retry = "later" /\ retry' = "now" /\ UNCHANGED refresh
       \/ refresh = "later" /\ refresh' = "now" /\ UNCHANGED retry
    /\ UNCHANGED <<stateVars, reports, stage, asked, notified, acknowledged, task, call,
                   telegramVars, presenceBounds>>

-------------------------------------------------------------------------------
(* Telegram.                                                                   *)

CallServed ==
    /\ call.phase = "sent"
    /\ visible' = IF call.status THEN workers ELSE Offline
    /\ call' = [call EXCEPT !.phase = "done"]
    /\ UNCHANGED <<stateVars, reports, stage, asked, notified, acknowledged, task, retry,
                   refresh, offlineNews, presenceBounds>>

CallFails ==
    /\ call.phase = "sent" /\ failures < MaxFailures
    /\ failures' = failures + 1
    /\ call' = [call EXCEPT !.phase = "failed"]
    /\ UNCHANGED <<stateVars, reports, stage, asked, notified, acknowledged, task, retry,
                   refresh, telegramVars, workers>>

\* The status is forgotten once the period to repeat it has passed.
Forgotten ==
    /\ visible # Offline /\ refresh = "now"
    /\ visible' = Offline
    /\ UNCHANGED <<stateVars, reports, stage, taskVars, offlineNews, presenceBounds>>

\* Another client of the account goes offline, which hides this one too.
OtherGoesOffline ==
    /\ visible # Offline /\ ~offlineNews /\ stage = "running"
    /\ failures < MaxFailures /\ failures' = failures + 1
    /\ visible' = Offline /\ offlineNews' = TRUE
    /\ UNCHANGED <<stateVars, reports, stage, taskVars, workers>>

-------------------------------------------------------------------------------
(* The end of a worker: the user quits or switches the account. The terminal   *)
(* sends Shutdown and closes its commands; the bridge (serve) passes Shutdown  *)
(* on, and aborts the worker as soon as it finds the commands closed.          *)

\* reset_for_account_switch, or the end of the main loop
Close ==
    /\ stage = "running" /\ ~awake
    /\ stage' = "closing" /\ reports' = <<>>
    /\ focused' = TRUE /\ sinceFocus' = 0 /\ sinceInput' = 0
    /\ ready' = FALSE /\ reported' = FALSE /\ alarm' = Never /\ awake' = TRUE
    /\ UNCHANGED <<taskVars, telegramVars, presenceBounds>>

\* run ends on Shutdown: the reporting task is aborted, then finish.
Finish ==
    /\ stage = "closing"
    /\ acknowledged' = FALSE
    /\ stage' = IF acknowledged THEN "finishing" ELSE "stopped"
    /\ call' = IF acknowledged THEN [status |-> FALSE, phase |-> "sent"] ELSE NoCall
    /\ UNCHANGED <<stateVars, reports, asked, notified, task, retry, refresh, telegramVars,
                   presenceBounds>>

\* The offline report of finish returns, or its second is over.
Finished ==
    /\ stage = "finishing"
    /\ stage' = "stopped" /\ call' = NoCall
    /\ UNCHANGED <<stateVars, reports, asked, notified, acknowledged, task, retry, refresh,
                   telegramVars, presenceBounds>>

\* serve finds the commands closed and aborts the worker, wherever it is.
Abort ==
    /\ stage \in {"closing", "finishing"}
    /\ stage' = "stopped" /\ call' = NoCall
    /\ UNCHANGED <<stateVars, reports, asked, notified, acknowledged, task, retry, refresh,
                   telegramVars, presenceBounds>>

\* Mutant: the task of a new worker stands where that of the old one stood.
StartWorkerAsBefore ==
    /\ stage = "stopped" /\ workers < MaxWorkers
    /\ workers' = workers + 1
    /\ stage' = "running"
    /\ UNCHANGED <<stateVars, reports, taskVars, telegramVars, failures>>

\* A new worker starts offline, whatever the previous one reported.
StartWorker ==
    /\ stage = "stopped" /\ workers < MaxWorkers
    /\ workers' = workers + 1
    /\ stage' = "running"
    /\ asked' = Unasked /\ notified' = FALSE /\ acknowledged' = FALSE
    /\ task' = Begun /\ call' = NoCall /\ retry' = "never" /\ refresh' = "never"
    /\ UNCHANGED <<stateVars, reports, telegramVars, failures>>

PresenceNext ==
    \/ Iterate \/ Input \/ Focus \/ Ready \/ Wake \/ Tick
    \/ ReadReport \/ ReadOffline \/ Look \/ CallReturns
    \/ WantedChanged \/ OtherOffline \/ TimerFires \/ TimePasses
    \/ CallServed \/ CallFails \/ Forgotten \/ OtherGoesOffline
    \/ Close \/ Finish \/ Finished \/ Abort \/ StartWorker

\* The main loop and the worker run, the reporting task takes its next step, timers
\* fire, and Telegram answers.
TaskRuns == Look \/ CallServed \/ CallReturns \/ WantedChanged \/ OtherOffline \/ TimerFires

PresenceFairness ==
    /\ WF_presenceVars(Iterate)
    /\ WF_presenceVars(ReadReport \/ ReadOffline)
    /\ WF_presenceVars(TaskRuns)
    /\ WF_presenceVars(TimePasses)

PresenceSpec == PresenceInit /\ [][PresenceNext]_presenceVars /\ PresenceFairness

-------------------------------------------------------------------------------
PresenceType ==
    /\ sinceFocus \in 0..BlurTimeout /\ sinceInput \in 0..IdleTimeout /\ alarm \in 0..Never
    /\ reports \in Seq(BOOLEAN)
    /\ stage \in {"running", "closing", "finishing", "stopped"}
    /\ task.at \in {"looking", "asking", "waiting"}
    /\ stage = "running" => (task.at = "asking" <=> call # NoCall)
    /\ retry \in {"never", "later", "now"} /\ refresh \in {"never", "later", "now"}

\* The main loop wakes up exactly in time: between its events, and before its
\* alarm goes off, the status it last reported is the one its rules ask for now,
\* however input, focus and the two time limits fell together (deadline).
ReportedInTime == ~awake /\ alarm > 0 => reported = (ready /\ Wanted(reported))

\* A status that the terminal reports for good is what Telegram shows, again and
\* again: failed calls are retried, a status that another session hid or Telegram
\* forgot is repeated (report's retry_at, refresh_at and other_offline), and an
\* offline status is not lost among them. What an earlier worker
\* left behind at its end is not repaired: see the README.
ReportIsShown ==
    /\ <>[](stage = "running" /\ reported) => []<>(visible # Offline)
    /\ <>[](stage = "running" /\ ~reported) => []<>(visible # workers)
====
