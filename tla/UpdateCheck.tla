----------------------------- MODULE UpdateCheck -----------------------------
(* The automatic check for updates (update.rs, main.rs, app.rs): the preferences    *)
(* of the user, the thread that asks GitHub, the marker that spaces the checks, and *)
(* the update that the footer offers. Other tg processes share the marker and the   *)
(* settings file.                                                                   *)
EXTENDS Naturals

CONSTANTS
    Interval,     \* ticks between two checks (CHECK_INTERVAL)
    MaxTime,      \* bound: ticks
    MaxNewest,    \* bound: the highest release; 1 is the one that runs
    MaxToggles,   \* bound: preferences the user changes
    MaxRuns       \* bound: launches of tg

\* There are a tick, a release and a launch to begin with.
ASSUME UpdateCheckAssumption ==
    {MaxTime, MaxNewest, MaxRuns} \subseteq Nat \ {0} /\ MaxToggles \in Nat

VARIABLES
    newest,       \* GitHub: the highest release of each channel
    clock,        \* unix_seconds, in ticks
    saved,        \* the settings file
    marker,       \* the file update-check: a channel, and when it was asked
    settings,     \* App.settings; also update_preferences, which follow within a turn
    available,    \* App.available_update, and the channel it is from
    check,        \* update_check and its thread
    throttle,     \* AUTOMATIC_CHECKS
    toggles, runs,
    answered,        \* ghost: when each channel was last answered
    used          \* ghost: the channel of the result taken since the last change

updateCheckVars == <<newest, clock, saved, marker, settings, available, check,
                     throttle, toggles, runs, answered, used>>

UpdateChannel == {"stable", "prerelease"}
NoMarker == [channel |-> "none", time |-> 0]
NoUpdate == [channel |-> "none", version |-> 0]
NoCheck == [at |-> "none", channel |-> "none", began |-> 0, version |-> 0]
Defaults == [auto |-> TRUE, channel |-> "stable"]
Unthrottled == [c \in UpdateChannel |-> "idle"]

\* spawn_update_check
Spawned(preferences) ==
    IF preferences.auto
    THEN [at |-> "starting", channel |-> preferences.channel, began |-> 0, version |-> 0]
    ELSE NoCheck

UpdateCheckInit ==
    /\ newest = [c \in UpdateChannel |-> 1]
    /\ clock = 1
    /\ saved = Defaults /\ settings = Defaults
    /\ marker = NoMarker /\ available = NoUpdate
    /\ check = Spawned(Defaults) /\ throttle = Unthrottled
    /\ toggles = 0 /\ runs = 1
    /\ answered = [c \in UpdateChannel |-> 0] /\ used = "none"

UpdateCheckType ==
    /\ newest \in [UpdateChannel -> 1 .. MaxNewest] /\ clock \in 1 .. MaxTime
    /\ {saved, settings} \subseteq [auto : BOOLEAN, channel : UpdateChannel]
    /\ marker \in [channel : UpdateChannel \cup {"none"}, time : 0 .. MaxTime]
    /\ available \in [channel : UpdateChannel \cup {"none"}, version : 0 .. MaxNewest]
    /\ check \in [at : {"none", "starting", "asking", "found", "current", "skipped", "failed"},
                  channel : UpdateChannel \cup {"none"}, began : 0 .. MaxTime,
                  version : 0 .. MaxNewest]
    /\ throttle \in [UpdateChannel -> {"idle", "inflight", "failed"}]
    /\ toggles \in 0 .. MaxToggles /\ runs \in 1 .. MaxRuns
    /\ answered \in [UpdateChannel -> 0 .. MaxTime] /\ used \in UpdateChannel \cup {"none"}

-------------------------------------------------------------------------------
(* The world: releases, time and other processes.                               *)

ReleaseAppears ==
    /\ \E c \in UpdateChannel, version \in 2 .. MaxNewest :
          /\ version > newest["prerelease"]
          /\ newest' = [d \in UpdateChannel |-> IF d \in {c, "prerelease"} THEN version
                                                                     ELSE newest[d]]
    /\ UNCHANGED <<clock, saved, marker, settings, available, check, throttle,
                   toggles, runs, answered, used>>

ClockTicks ==
    /\ clock < MaxTime
    /\ clock' = clock + 1
    /\ UNCHANGED <<newest, saved, marker, settings, available, check, throttle,
                   toggles, runs, answered, used>>

\* Another process checks, and records it.
OthersCheck ==
    /\ \E c \in UpdateChannel :
          /\ \E began \in 1 .. clock : marker' = [channel |-> c, time |-> began]
          /\ answered' = [answered EXCEPT ![c] = clock]
    /\ UNCHANGED <<newest, clock, saved, settings, available, check, throttle,
                   toggles, runs, used>>

-------------------------------------------------------------------------------
(* The thread: check_if_due.                                                    *)

\* check_is_due: a marker from the future does not count.
IsDue(channel) ==
    \/ marker.channel # channel
    \/ marker.time > clock \/ clock - marker.time >= Interval

\* Mutant: the check is recorded before GitHub is asked.
BeginRecording ==
    /\ check.at = "starting"
    /\ IF IsDue(check.channel) /\ throttle[check.channel] = "idle"
       THEN /\ check' = [check EXCEPT !.at = "asking", !.began = clock]
            /\ throttle' = [throttle EXCEPT ![check.channel] = "inflight"]
            /\ marker' = [channel |-> check.channel, time |-> clock]
       ELSE /\ check' = [check EXCEPT !.at = "skipped"]
            /\ UNCHANGED <<throttle, marker>>
    /\ UNCHANGED <<newest, clock, saved, settings, available, toggles, runs,
                   answered, used>>

\* The marker and the throttle are looked at before GitHub is asked.
BeginCheck ==
    /\ check.at = "starting"
    /\ IF IsDue(check.channel) /\ throttle[check.channel] = "idle"
       THEN /\ check' = [check EXCEPT !.at = "asking", !.began = clock]
            /\ throttle' = [throttle EXCEPT ![check.channel] = "inflight"]
       ELSE /\ check' = [check EXCEPT !.at = "skipped"]
            /\ UNCHANGED throttle
    /\ UNCHANGED <<newest, clock, saved, marker, settings, available, toggles, runs,
                   answered, used>>

\* GitHub answers; record_check_success, then finish.
CheckAnswered ==
    /\ check.at = "asking"
    /\ LET version == newest[check.channel]
       IN check' = [check EXCEPT !.at = IF version > 1 THEN "found" ELSE "current",
                                 !.version = version]
    /\ marker' = [channel |-> check.channel, time |-> check.began]
    /\ throttle' = [throttle EXCEPT ![check.channel] = "idle"]
    /\ answered' = [answered EXCEPT ![check.channel] = clock]
    /\ UNCHANGED <<newest, clock, saved, settings, available, toggles, runs, used>>

\* No answer, or one that cannot be parsed or recorded.
CheckFails ==
    /\ check.at = "asking"
    /\ check' = [check EXCEPT !.at = "failed"]
    /\ throttle' = [throttle EXCEPT ![check.channel] = "failed"]
    /\ UNCHANGED <<newest, clock, saved, marker, settings, available, toggles, runs,
                   answered, used>>

-------------------------------------------------------------------------------
(* The terminal.                                                                *)

\* Mutant: the result is taken whatever the user has chosen since.
TakeAnyResult ==
    /\ check.at \in {"found", "current", "skipped", "failed"}
    /\ check' = NoCheck
    /\ used' = check.channel
    /\ available' = CASE check.at = "found" -> [channel |-> check.channel,
                                                version |-> check.version]
                      [] check.at = "failed" -> available
                      [] OTHER -> NoUpdate
    /\ UNCHANGED <<newest, clock, saved, marker, settings, throttle, toggles, runs,
                   answered>>

\* Mutant: a result of the other channel is dropped and nothing asks again.
DropOtherResult ==
    /\ check.at \in {"found", "current", "skipped", "failed"}
    /\ check' = NoCheck
    /\ IF settings.auto /\ check.channel = settings.channel
       THEN /\ available' = CASE check.at = "found" -> [channel |-> check.channel,
                                                        version |-> check.version]
                              [] check.at = "failed" -> available
                              [] OTHER -> NoUpdate
            /\ used' = check.channel
       ELSE UNCHANGED <<available, used>>
    /\ UNCHANGED <<newest, clock, saved, marker, settings, throttle, toggles, runs,
                   answered>>

\* RuntimeEvent::UpdateCheck: a result of the chosen channel is shown; one of the
\* other channel starts another check.
TakeResult ==
    /\ check.at \in {"found", "current", "skipped", "failed"}
    /\ IF settings.auto /\ check.channel = settings.channel
       THEN /\ available' = CASE check.at = "found" -> [channel |-> check.channel,
                                                        version |-> check.version]
                              [] check.at = "failed" -> available
                              [] OTHER -> NoUpdate
            /\ check' = NoCheck
            /\ used' = check.channel
       ELSE /\ check' = Spawned(settings)
            /\ UNCHANGED <<available, used>>
    /\ UNCHANGED <<newest, clock, saved, marker, settings, throttle, toggles, runs,
                   answered>>

Toggled(toggled) ==
    IF toggled = "auto" THEN [settings EXCEPT !.auto = ~@]
    ELSE [settings EXCEPT !.channel = CHOOSE c \in UpdateChannel \ {@} : TRUE]

\* toggle_selected_setting, which takes the choice back if it cannot be saved, and at
\* the end of that turn synchronize_update_preferences.
ToggleSetting ==
    /\ toggles < MaxToggles
    /\ toggles' = toggles + 1
    /\ \E toggled \in {"auto", "channel"} : settings' = Toggled(toggled)
    /\ saved' = settings'
    /\ check' = IF check = NoCheck THEN Spawned(settings') ELSE check
    /\ available' = NoUpdate /\ used' = "none"
    /\ UNCHANGED <<newest, clock, marker, throttle, runs, answered>>

SaveIsRefused ==
    /\ toggles < MaxToggles
    /\ toggles' = toggles + 1
    /\ UNCHANGED <<newest, clock, saved, marker, settings, available, check, throttle,
                   runs, answered, used>>

\* tg ends at any time, its thread with it, and is started again.
RunAgain ==
    /\ runs < MaxRuns
    /\ runs' = runs + 1
    /\ settings' = saved
    /\ check' = Spawned(saved)
    /\ throttle' = Unthrottled /\ available' = NoUpdate /\ used' = "none"
    /\ UNCHANGED <<newest, clock, saved, marker, toggles, answered>>

UpdateCheckNext ==
    \/ ReleaseAppears \/ ClockTicks \/ OthersCheck
    \/ BeginCheck \/ CheckAnswered \/ CheckFails
    \/ TakeResult \/ ToggleSetting \/ SaveIsRefused \/ RunAgain

UpdateCheckSpec == UpdateCheckInit /\ [][UpdateCheckNext]_updateCheckVars

-------------------------------------------------------------------------------
(* Properties.                                                                  *)

\* The footer offers only an update of the channel the user chose, and none to a user
\* who does not want to know, whatever was asked before the choice.
OffersTheChannel ==
    available # NoUpdate => settings.auto /\ available.channel = settings.channel

\* A user who wants to know is told of the chosen channel: no choice leaves the
\* terminal with no check under way and no result taken since.
ChoiceIsChecked ==
    settings.auto /\ check = NoCheck => used = settings.channel

\* "an offline launch cannot create a persistent blind spot" (update.rs): the marker
\* that stands for an answer is from a check that was answered.
NoBlindSpot ==
    marker # NoMarker => answered[marker.channel] >= marker.time

\* The footer offers an update of the channel the user chose, and always learns of it,
\* because no check that failed counts as made.
OffersAreTrue == OffersTheChannel /\ ChoiceIsChecked /\ NoBlindSpot
==============================================================================
