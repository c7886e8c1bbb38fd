---------------------------- MODULE ClientProofs ----------------------------
(* Proofs about what the client does for itself: the check for updates, their      *)
(* installation, the alerts it posts, and the search panel with its worker; and of *)
(* all that together with what the user has before him and steers.                 *)
EXTENDS MCClient, TranscriptProofs, FiniteSetTheorems, WellFoundedInduction, TLAPS

-------------------------------------------------------------------------------
(* The check for updates. *)

(* The parts of the type that the argument needs. *)
CheckShape ==
    /\ settings \in [auto : BOOLEAN, channel : UpdateChannel]
    /\ saved \in [auto : BOOLEAN, channel : UpdateChannel]
    /\ available \in [channel : UpdateChannel \cup {"none"}, version : Nat]
    /\ check \in [at : {"none", "starting", "asking", "found", "current", "skipped", "failed"},
                  channel : UpdateChannel \cup {"none"}, began : Nat, version : Nat]
    /\ check # NoCheck => check.channel \in UpdateChannel /\ check.at # "none"
    /\ newest \in [UpdateChannel -> Nat] /\ clock \in Nat
    /\ marker \in [channel : UpdateChannel \cup {"none"}, time : Nat]
    /\ answered \in [UpdateChannel -> Nat]
    /\ throttle \in [UpdateChannel -> {"idle", "inflight", "failed"}]

(* Nothing was asked or answered in the future, and a marker stands for an answer. *)
CheckedInThePast ==
    /\ check.began <= clock
    /\ \A c \in UpdateChannel : answered[c] <= clock

CheckInv == CheckShape /\ CheckedInThePast /\ OffersAreTrue

LEMMA SpawnedFacts ==
  ASSUME NEW wanted \in [auto : BOOLEAN, channel : UpdateChannel]
  PROVE  /\ Spawned(wanted) \in
              [at : {"none", "starting", "asking", "found", "current", "skipped", "failed"},
               channel : UpdateChannel \cup {"none"}, began : Nat, version : Nat]
         /\ Spawned(wanted).began = 0
         /\ wanted.auto =>
              /\ Spawned(wanted) # NoCheck
              /\ Spawned(wanted).channel = wanted.channel
              /\ Spawned(wanted).at = "starting"
         /\ ~wanted.auto => Spawned(wanted) = NoCheck
BY DEF Spawned, NoCheck

LEMMA CheckBegins == UpdateCheckInit => CheckInv
<1> SUFFICES ASSUME UpdateCheckInit PROVE CheckInv
 OBVIOUS
<1>1. Defaults \in [auto : BOOLEAN, channel : UpdateChannel] /\ Defaults.auto
      /\ Defaults.channel = "stable"
 BY DEF Defaults, UpdateChannel
<1>2. /\ check = Spawned(Defaults) /\ check # NoCheck /\ check.began = 0
      /\ check.channel = "stable" /\ check.at = "starting"
      /\ check \in [at : {"none", "starting", "asking", "found", "current", "skipped", "failed"},
                    channel : UpdateChannel \cup {"none"}, began : Nat, version : Nat]
 BY <1>1, SpawnedFacts DEF UpdateCheckInit
<1>3. CheckShape
 BY <1>1, <1>2 DEF UpdateCheckInit, CheckShape, NoUpdate, NoMarker, Unthrottled, UpdateChannel
<1>4. CheckedInThePast
 BY <1>2 DEF UpdateCheckInit, CheckedInThePast
<1>5. OffersAreTrue
 BY <1>2 DEF UpdateCheckInit, OffersAreTrue, OffersTheChannel, ChoiceIsChecked, NoBlindSpot
<1> QED BY <1>3, <1>4, <1>5 DEF CheckInv

LEMMA CheckSteps == CheckInv /\ [UpdateCheckNext]_updateCheckVars => CheckInv'
<1> SUFFICES ASSUME CheckInv, [UpdateCheckNext]_updateCheckVars PROVE CheckInv'
 OBVIOUS
<1>0. CheckShape /\ CheckedInThePast /\ OffersTheChannel /\ ChoiceIsChecked /\ NoBlindSpot
 BY DEF CheckInv, OffersAreTrue
<1> SUFFICES CheckShape' /\ CheckedInThePast' /\ OffersTheChannel' /\ ChoiceIsChecked'
             /\ NoBlindSpot'
 BY DEF CheckInv, OffersAreTrue
<1> USE DEF OffersTheChannel, ChoiceIsChecked, NoBlindSpot
<1>1. CASE UNCHANGED updateCheckVars
 BY <1>0, <1>1 DEF updateCheckVars, CheckShape, CheckedInThePast
<1>2. CASE ReleaseAppears
 <2>1. PICK c \in UpdateChannel, version \in 2 .. MaxNewest :
         newest' = [d \in UpdateChannel |-> IF d \in {c, "prerelease"} THEN version
                                                                    ELSE newest[d]]
  BY <1>2 DEF ReleaseAppears
 <2>2. newest' \in [UpdateChannel -> Nat]
  <3>1. version \in Nat
   OBVIOUS
  <3>2. \A d \in UpdateChannel : newest[d] \in Nat
   BY <1>0 DEF CheckShape
  <3> QED BY <2>1, <3>1, <3>2
 <2> QED BY <1>0, <1>2, <2>2 DEF ReleaseAppears, CheckShape, CheckedInThePast
<1>3. CASE ClockTicks
 <2>1. clock' \in Nat /\ \A n \in Nat : n <= clock => n <= clock'
  BY <1>0, <1>3 DEF ClockTicks, CheckShape
 <2>2. check.began \in Nat /\ \A c \in UpdateChannel : answered[c] \in Nat
  BY <1>0 DEF CheckShape
 <2> QED BY <1>0, <1>3, <2>1, <2>2 DEF ClockTicks, CheckShape, CheckedInThePast
<1>4. CASE OthersCheck
 <2>1. PICK c \in UpdateChannel, began \in 1 .. clock :
         /\ marker' = [channel |-> c, time |-> began]
         /\ answered' = [answered EXCEPT ![c] = clock]
  BY <1>4 DEF OthersCheck
 <2>2. clock \in Nat /\ began \in Nat /\ began <= clock /\ clock <= clock
  BY <1>0 DEF CheckShape
 <2>3. /\ marker' \in [channel : UpdateChannel \cup {"none"}, time : Nat]
       /\ answered' \in [UpdateChannel -> Nat]
       /\ \A d \in UpdateChannel : answered'[d] = IF d = c THEN clock ELSE answered[d]
  BY <1>0, <2>1, <2>2 DEF CheckShape
 <2>4. CheckShape'
  BY <1>0, <1>4, <2>3 DEF OthersCheck, CheckShape
 <2>5. CheckedInThePast'
  BY <1>0, <1>4, <2>2, <2>3 DEF OthersCheck, CheckedInThePast
 <2>6. marker'.channel = c /\ marker'.time = began
  BY <2>1
 <2>7. answered'[marker'.channel] >= marker'.time
  BY <2>2, <2>3, <2>6
 <2> QED BY <1>0, <1>4, <2>4, <2>5, <2>7 DEF OthersCheck
<1>5. CASE BeginCheck
 <2>1. /\ check.at = "starting" /\ check # NoCheck
       /\ \/ check' = [check EXCEPT !.at = "asking", !.began = clock]
          \/ check' = [check EXCEPT !.at = "skipped"]
       /\ throttle' \in {throttle, [throttle EXCEPT ![check.channel] = "inflight"]}
       /\ UNCHANGED <<newest, clock, saved, marker, settings, available, answered, used>>
  BY <1>5 DEF BeginCheck, NoCheck
 <2>2. /\ check'.channel = check.channel /\ check'.at \in {"asking", "skipped"}
       /\ check'.began \in {check.began, clock}
       /\ check' \in [at : {"none", "starting", "asking", "found", "current", "skipped",
                            "failed"},
                      channel : UpdateChannel \cup {"none"}, began : Nat, version : Nat]
  <3>1. /\ clock \in Nat
        /\ check \in [at : {"none", "starting", "asking", "found", "current", "skipped",
                            "failed"},
                      channel : UpdateChannel \cup {"none"}, began : Nat, version : Nat]
   BY <1>0 DEF CheckShape
  <3>2. CASE check' = [check EXCEPT !.at = "asking", !.began = clock]
   BY <3>1, <3>2
  <3>3. CASE check' = [check EXCEPT !.at = "skipped"]
   BY <3>1, <3>3
  <3> QED BY <2>1, <3>2, <3>3
 <2>3. check' # NoCheck
  BY <2>2 DEF NoCheck
 <2>4. check.channel \in UpdateChannel
  BY <1>0, <2>1 DEF CheckShape
 <2>5. throttle' \in [UpdateChannel -> {"idle", "inflight", "failed"}]
  BY <1>0, <2>1, <2>4 DEF CheckShape
 <2>6. CheckShape'
  BY <1>0, <2>1, <2>2, <2>3, <2>4, <2>5 DEF CheckShape
 <2>7. CheckedInThePast'
  <3>1. clock <= clock
   BY <1>0 DEF CheckShape
  <3> QED BY <1>0, <2>1, <2>2, <3>1 DEF CheckedInThePast
 <2> QED BY <1>0, <2>1, <2>3, <2>6, <2>7
<1>6. CASE CheckAnswered
 <2> DEFINE c == check.channel
 <2>1. /\ check.at = "asking" /\ check # NoCheck
       /\ check' = [check EXCEPT !.at = IF newest[c] > 1 THEN "found" ELSE "current",
                                 !.version = newest[c]]
       /\ marker' = [channel |-> c, time |-> check.began]
       /\ throttle' = [throttle EXCEPT ![c] = "idle"]
       /\ answered' = [answered EXCEPT ![c] = clock]
       /\ UNCHANGED <<newest, clock, saved, settings, available, used>>
  BY <1>6 DEF CheckAnswered, NoCheck
 <2>2. c \in UpdateChannel
  BY <1>0, <2>1 DEF CheckShape
 <2>3. newest[c] \in Nat /\ clock \in Nat /\ clock <= clock /\ check.began \in Nat
       /\ check.began <= clock
  BY <1>0, <2>2 DEF CheckShape, CheckedInThePast
 <2>4. /\ check'.began = check.began /\ check'.channel = c
       /\ check'.at \in {"found", "current"}
       /\ check' \in [at : {"none", "starting", "asking", "found", "current", "skipped",
                            "failed"},
                      channel : UpdateChannel \cup {"none"}, began : Nat, version : Nat]
  <3>1. check \in [at : {"none", "starting", "asking", "found", "current", "skipped",
                         "failed"},
                   channel : UpdateChannel \cup {"none"}, began : Nat, version : Nat]
   BY <1>0 DEF CheckShape
  <3>2. (IF newest[c] > 1 THEN "found" ELSE "current") \in {"found", "current"}
   OBVIOUS
  <3> QED BY <2>1, <2>3, <3>1, <3>2
 <2>5. check' # NoCheck
  BY <2>4 DEF NoCheck
 <2>6. /\ marker' \in [channel : UpdateChannel \cup {"none"}, time : Nat]
       /\ answered' \in [UpdateChannel -> Nat]
       /\ \A d \in UpdateChannel : answered'[d] = IF d = c THEN clock ELSE answered[d]
       /\ throttle' \in [UpdateChannel -> {"idle", "inflight", "failed"}]
  BY <1>0, <2>1, <2>2, <2>3 DEF CheckShape
 <2>7. CheckShape'
  BY <1>0, <2>1, <2>2, <2>4, <2>5, <2>6 DEF CheckShape
 <2>8. CheckedInThePast'
  BY <1>0, <2>1, <2>3, <2>4, <2>6 DEF CheckedInThePast
 <2>9. marker'.channel = c /\ marker'.time = check.began
  BY <2>1
 <2>10. answered'[marker'.channel] >= marker'.time
  BY <2>2, <2>3, <2>6, <2>9
 <2> QED BY <1>0, <2>1, <2>5, <2>7, <2>8, <2>10
<1>7. CASE CheckFails
 <2>1. /\ check.at = "asking" /\ check # NoCheck
       /\ check' = [check EXCEPT !.at = "failed"]
       /\ throttle' = [throttle EXCEPT ![check.channel] = "failed"]
       /\ UNCHANGED <<newest, clock, saved, marker, settings, available, answered, used>>
  BY <1>7 DEF CheckFails, NoCheck
 <2>2. /\ check' # NoCheck /\ check'.began = check.began
       /\ check'.channel = check.channel /\ check'.at = "failed"
       /\ check' \in [at : {"none", "starting", "asking", "found", "current", "skipped",
                            "failed"},
                      channel : UpdateChannel \cup {"none"}, began : Nat, version : Nat]
  BY <1>0, <2>1 DEF CheckShape, NoCheck
 <2>4. check.channel \in UpdateChannel
       /\ throttle' \in [UpdateChannel -> {"idle", "inflight", "failed"}]
  BY <1>0, <2>1 DEF CheckShape
 <2>5. CheckShape'
  BY <1>0, <2>1, <2>2, <2>4 DEF CheckShape
 <2>3. CheckedInThePast'
  BY <1>0, <2>1, <2>2 DEF CheckedInThePast
 <2> QED BY <1>0, <2>1, <2>2, <2>3, <2>5
<1>8. CASE TakeResult
 <2>1. /\ check # NoCheck /\ check.channel \in UpdateChannel
       /\ UNCHANGED <<newest, clock, saved, marker, settings, throttle, answered>>
  BY <1>0, <1>8 DEF TakeResult, CheckShape, NoCheck
 <2>2. CASE settings.auto /\ check.channel = settings.channel
  <3>1. /\ check' = NoCheck /\ used' = check.channel
        /\ available' \in {[channel |-> check.channel, version |-> check.version],
                           available, NoUpdate}
   BY <1>8, <2>2 DEF TakeResult
  <3>2. CheckShape' /\ check'.began = 0
   BY <1>0, <2>1, <3>1 DEF CheckShape, NoCheck, NoUpdate
  <3>3. CheckedInThePast'
   <4>1. 0 <= clock
    BY <1>0 DEF CheckShape
   <4> QED BY <1>0, <2>1, <3>2, <4>1 DEF CheckedInThePast
  <3> QED BY <1>0, <2>1, <2>2, <3>1, <3>2, <3>3
 <2>3. CASE ~(settings.auto /\ check.channel = settings.channel)
  <3>1. check' = Spawned(settings) /\ UNCHANGED <<available, used>>
   BY <1>8, <2>3 DEF TakeResult
  <3>2. settings \in [auto : BOOLEAN, channel : UpdateChannel]
   BY <1>0 DEF CheckShape
  <3>3. CheckShape' /\ check'.began = 0
   BY <1>0, <2>1, <3>1, <3>2, SpawnedFacts DEF CheckShape
  <3>4. CheckedInThePast'
   <4>1. 0 <= clock
    BY <1>0 DEF CheckShape
   <4> QED BY <1>0, <2>1, <3>3, <4>1 DEF CheckedInThePast
  <3>5. settings.auto => check' # NoCheck
   BY <3>1, <3>2, SpawnedFacts
  <3> QED BY <1>0, <2>1, <3>1, <3>3, <3>4, <3>5
 <2> QED BY <2>2, <2>3
<1>9. CASE ToggleSetting
 <2>1. /\ settings' \in [auto : BOOLEAN, channel : UpdateChannel]
       /\ saved' = settings'
       /\ check' = IF check = NoCheck THEN Spawned(settings') ELSE check
       /\ available' = NoUpdate /\ used' = "none"
       /\ UNCHANGED <<newest, clock, marker, throttle, answered>>
  <3>2. PICK toggled \in {"auto", "channel"} : settings' = Toggled(toggled)
   BY <1>9 DEF ToggleSetting
  <3>3. settings' \in [auto : BOOLEAN, channel : UpdateChannel]
   <4>1. CASE toggled = "auto"
    <5>1. settings' = [settings EXCEPT !.auto = ~settings.auto]
     BY <3>2, <4>1 DEF Toggled
    <5>2. (~settings.auto) \in BOOLEAN
     OBVIOUS
    <5> QED BY <1>0, <5>1, <5>2 DEF CheckShape
   <4>2. CASE toggled = "channel"
    <5>1. PICK d \in UpdateChannel : settings' = [settings EXCEPT !.channel = d]
     <6>1. \E d \in UpdateChannel : d \in UpdateChannel \ {settings.channel}
      BY DEF UpdateChannel
     <6> QED BY <3>2, <4>2, <6>1 DEF Toggled
    <5> QED BY <1>0, <5>1 DEF CheckShape
   <4> QED BY <4>1, <4>2
  <3> QED BY <1>9, <3>3 DEF ToggleSetting
 <2>2. Spawned(settings)' = Spawned(settings')
  BY DEF Spawned
 <2>3. CheckShape' /\ check'.began \in {check.began, 0}
  BY <1>0, <2>1, SpawnedFacts DEF CheckShape, NoUpdate
 <2>4. CheckedInThePast'
  <3>1. 0 <= clock
   BY <1>0 DEF CheckShape
  <3> QED BY <1>0, <2>1, <2>3, <3>1 DEF CheckedInThePast
 <2>5. settings'.auto => check' # NoCheck
  BY <2>1, SpawnedFacts
 <2> QED BY <1>0, <2>1, <2>3, <2>4, <2>5
<1>10. CASE SaveIsRefused
 BY <1>0, <1>10 DEF SaveIsRefused, CheckShape, CheckedInThePast
<1>11. CASE RunAgain
 <2>1. /\ saved \in [auto : BOOLEAN, channel : UpdateChannel]
       /\ settings' = saved /\ check' = Spawned(saved)
       /\ throttle' = Unthrottled /\ available' = NoUpdate /\ used' = "none"
       /\ UNCHANGED <<newest, clock, saved, marker, answered>>
  BY <1>0, <1>11 DEF RunAgain, CheckShape
 <2>2. CheckShape' /\ check'.began = 0
  <3>1. Unthrottled \in [UpdateChannel -> {"idle", "inflight", "failed"}]
   BY DEF Unthrottled
  <3> QED BY <1>0, <2>1, <3>1, SpawnedFacts DEF CheckShape, NoUpdate
 <2>3. CheckedInThePast'
  <3>1. 0 <= clock
   BY <1>0 DEF CheckShape
  <3> QED BY <1>0, <2>1, <2>2, <3>1 DEF CheckedInThePast
 <2>4. settings'.auto => check' # NoCheck
  BY <2>1, SpawnedFacts
 <2> QED BY <1>0, <2>1, <2>2, <2>3, <2>4
<1> QED BY <1>1, <1>2, <1>3, <1>4, <1>5, <1>6, <1>7, <1>8, <1>9, <1>10, <1>11
       DEF UpdateCheckNext

(* OffersAreTrue, for any releases, times, preferences and launches: the footer offers
   only the channel the user chose, no choice leaves the terminal without a check, and
   a marker stands for an answer ("an offline launch cannot create a persistent blind
   spot", update.rs). *)
THEOREM CheckOffersAreTrue == UpdateCheckSpec => []OffersAreTrue
<1>1. UpdateCheckInit => CheckInv
 BY CheckBegins
<1>2. CheckInv /\ [UpdateCheckNext]_updateCheckVars => CheckInv'
 BY CheckSteps
<1>3. CheckInv => OffersAreTrue
 BY DEF CheckInv
<1> QED BY <1>1, <1>2, <1>3, PTL DEF UpdateCheckSpec

(* The bounds that the type names besides. *)
CheckBounds ==
    /\ newest \in [UpdateChannel -> 1 .. MaxNewest] /\ clock \in 1 .. MaxTime
    /\ answered \in [UpdateChannel -> 0 .. MaxTime] /\ used \in UpdateChannel \cup {"none"}
    /\ marker.time \in 0 .. MaxTime /\ available.version \in 0 .. MaxNewest
    /\ check.began \in 0 .. MaxTime /\ check.version \in 0 .. MaxNewest
    /\ toggles \in 0 .. MaxToggles /\ runs \in 1 .. MaxRuns

LEMMA CheckBoundsBegin == UpdateCheckInit => CheckBounds
<1> SUFFICES ASSUME UpdateCheckInit PROVE CheckBounds
 OBVIOUS
<1>1. /\ 1 \in 1 .. MaxNewest /\ 1 \in 1 .. MaxTime /\ 0 \in 0 .. MaxTime
      /\ 0 \in 0 .. MaxNewest /\ 0 \in 0 .. MaxToggles /\ 1 \in 1 .. MaxRuns
 BY UpdateCheckAssumption
<1>2. Spawned(Defaults).began = 0 /\ Spawned(Defaults).version = 0
 BY DEF Spawned, Defaults
<1> QED BY <1>1, <1>2 DEF UpdateCheckInit, CheckBounds, NoMarker, NoUpdate

LEMMA CheckBoundsKept ==
  CheckInv /\ CheckBounds /\ [UpdateCheckNext]_updateCheckVars => CheckBounds'
<1> SUFFICES ASSUME CheckInv, CheckBounds, [UpdateCheckNext]_updateCheckVars PROVE CheckBounds'
 OBVIOUS
<1>0. /\ {MaxTime, MaxNewest, MaxRuns} \subseteq Nat \ {0} /\ MaxToggles \in Nat
      /\ CheckShape
 BY UpdateCheckAssumption DEF CheckInv
<1>s. \A p : Spawned(p).began = 0 /\ Spawned(p).version = 0
 BY DEF Spawned, NoCheck
<1>z. 0 \in 0 .. MaxTime /\ 0 \in 0 .. MaxNewest
 BY <1>0
<1>c. check.at \notin {"none"} => check.channel \in UpdateChannel
 BY <1>0 DEF CheckShape, NoCheck
<1>1. CASE ReleaseAppears
 <2>1. newest' \in [UpdateChannel -> 1 .. MaxNewest]
  BY <1>0, <1>1 DEF ReleaseAppears, CheckBounds
 <2> QED BY <1>1, <2>1 DEF ReleaseAppears, CheckBounds
<1>2. CASE ClockTicks
 BY <1>0, <1>2 DEF ClockTicks, CheckBounds
<1>3. CASE OthersCheck
 <2>1. PICK c \in UpdateChannel :
         /\ \E began \in 1 .. clock : marker' = [channel |-> c, time |-> began]
         /\ answered' = [answered EXCEPT ![c] = clock]
  BY <1>3 DEF OthersCheck
 <2>2. marker'.time \in 0 .. MaxTime
  BY <1>0, <2>1 DEF CheckBounds
 <2>3. answered' \in [UpdateChannel -> 0 .. MaxTime]
  BY <1>0, <2>1 DEF CheckBounds
 <2> QED BY <1>3, <2>2, <2>3 DEF OthersCheck, CheckBounds
<1>4. CASE BeginCheck
 <2>1. check'.began \in {check.began, clock} /\ check'.version = check.version
  <3>1. \/ check' = [check EXCEPT !.at = "asking", !.began = clock]
        \/ check' = [check EXCEPT !.at = "skipped"]
   BY <1>4 DEF BeginCheck
  <3>2. check \in [at : {"none", "starting", "asking", "found", "current", "skipped", "failed"},
                  channel : UpdateChannel \cup {"none"}, began : Nat, version : Nat]
   BY <1>0 DEF CheckShape
  <3> QED BY <3>1, <3>2
 <2> QED BY <1>0, <1>4, <2>1 DEF BeginCheck, CheckBounds
<1>5. CASE CheckAnswered
 <2>1. check.channel \in UpdateChannel
  BY <1>5, <1>c DEF CheckAnswered
 <2>2. check'.began = check.began /\ check'.version = newest[check.channel]
       /\ marker'.time = check.began
  BY <1>0, <1>5 DEF CheckAnswered, CheckShape
 <2>3. newest[check.channel] \in 0 .. MaxNewest /\ clock \in 0 .. MaxTime
  BY <1>0, <2>1 DEF CheckBounds
 <2>4. answered' \in [UpdateChannel -> 0 .. MaxTime]
  BY <1>5, <2>3 DEF CheckAnswered, CheckBounds
 <2> QED BY <1>5, <2>2, <2>3, <2>4 DEF CheckAnswered, CheckBounds
<1>6. CASE CheckFails
 <2>1. check'.began = check.began /\ check'.version = check.version
  BY <1>0, <1>6 DEF CheckFails, CheckShape
 <2> QED BY <1>6, <2>1 DEF CheckFails, CheckBounds
<1>7. CASE TakeResult
 <2>1. check.channel \in UpdateChannel
  BY <1>7, <1>c DEF TakeResult
 <2>2. CASE settings.auto /\ check.channel = settings.channel
  <3>1. available'.version \in {check.version, available.version, 0}
        /\ check' = NoCheck /\ used' = check.channel
   BY <1>7, <2>2 DEF TakeResult, NoUpdate
  <3> QED BY <1>7, <1>z, <2>1, <3>1 DEF TakeResult, CheckBounds, NoCheck
 <2>3. CASE ~(settings.auto /\ check.channel = settings.channel)
  BY <1>7, <1>s, <1>z, <2>3 DEF TakeResult, CheckBounds
 <2> QED BY <2>2, <2>3
<1>8. CASE ToggleSetting
 <2>1. check' = check \/ (check'.began = 0 /\ check'.version = 0)
  BY <1>8, <1>s DEF ToggleSetting
 <2>2. toggles' \in 0 .. MaxToggles
  BY <1>0, <1>8 DEF ToggleSetting, CheckBounds
 <2> QED BY <1>8, <1>z, <2>1, <2>2 DEF ToggleSetting, CheckBounds, NoUpdate
<1>9. CASE SaveIsRefused
 BY <1>0, <1>9 DEF SaveIsRefused, CheckBounds
<1>10. CASE RunAgain
 <2>1. check'.began = 0 /\ check'.version = 0
  BY <1>10, <1>s DEF RunAgain
 <2>2. runs' \in 1 .. MaxRuns
  BY <1>0, <1>10 DEF RunAgain, CheckBounds
 <2> QED BY <1>10, <1>z, <2>1, <2>2 DEF RunAgain, CheckBounds, NoUpdate
<1>11. CASE UNCHANGED updateCheckVars
 BY <1>11 DEF updateCheckVars, CheckBounds
<1> QED BY <1>1, <1>2, <1>3, <1>4, <1>5, <1>6, <1>7, <1>8, <1>9, <1>10, <1>11 DEF UpdateCheckNext

LEMMA CheckTypeFollows == CheckInv /\ CheckBounds => UpdateCheckType
<1> SUFFICES ASSUME CheckInv, CheckBounds PROVE UpdateCheckType
 OBVIOUS
<1>1. /\ marker \in [channel : UpdateChannel \cup {"none"}, time : 0 .. MaxTime]
      /\ available \in [channel : UpdateChannel \cup {"none"}, version : 0 .. MaxNewest]
 BY DEF CheckInv, CheckShape, CheckBounds
<1>2. check \in [at : {"none", "starting", "asking", "found", "current", "skipped", "failed"},
                channel : UpdateChannel \cup {"none"}, began : 0 .. MaxTime,
                version : 0 .. MaxNewest]
 BY DEF CheckInv, CheckShape, CheckBounds
<1> QED BY <1>1, <1>2 DEF CheckInv, CheckShape, CheckBounds, UpdateCheckType

(* The state of the automatic check has its type: its times, versions and launches stay
   within the bounds of the model. *)
THEOREM UpdateCheckTypeCorrect == UpdateCheckSpec => []UpdateCheckType
<1>1. UpdateCheckInit => CheckInv /\ CheckBounds
 BY CheckBegins, CheckBoundsBegin
<1>2. CheckInv /\ CheckBounds /\ [UpdateCheckNext]_updateCheckVars => CheckInv' /\ CheckBounds'
 BY CheckSteps, CheckBoundsKept
<1> QED BY <1>1, <1>2, CheckTypeFollows, PTL DEF UpdateCheckSpec

-------------------------------------------------------------------------------
(* The installer. *)

Updating == [at : {"unstarted", "checking", "downloading", "verifying", "staging", "staged",
                   "replacing", "restoring", "discarding", "marking", "clearing", "ended"},
             channel : {"stable", "prerelease"}, runs : Nat, version : 0 .. MaxHeight,
             archive : Nat, stage : Nat, backup : 0 .. MaxHeight, attempt : Nat]

IsOffered(channel, height) ==
    \E r \in published : (channel = "prerelease" \/ ~r.prerelease) /\ r.height = height

(* What an updater seeks is a release for it; what it has on disk is that or a part of
   it, and whole from the moment that it is checked. *)
IsSound(s) ==
    /\ {s.stage, s.archive} \subseteq {NoFile, Partial, s.version}
    /\ s.version # NoFile => s.version > s.runs /\ IsOffered(s.channel, s.version)
    /\ s.at \in {"unstarted", "checking"} =>
          s.version = NoFile /\ s.stage = NoFile /\ s.archive = NoFile
    /\ s.at \in {"downloading", "verifying", "staging", "staged", "replacing"} =>
          s.version # NoFile
    /\ s.at = "staging" => s.archive = s.version
    /\ s.at \in {"staged", "replacing"} => s.stage = s.version

ReleasesAreTrue ==
    /\ published \subseteq [height : 1 .. MaxHeight, prerelease : BOOLEAN]
    /\ Release(1, FALSE) \in published

UpdatersAreSound ==
    /\ updaters \in [Updater -> Updating]
    /\ \A u \in Updater : IsSound(updaters[u])

(* A missing executable is in a backup, of an updater that will move it back unless
   something is killed. *)
ExecutableIsKept ==
    /\ executable \in 0 .. MaxHeight /\ harms \in Nat
    /\ executable = NoFile =>
          /\ \E u \in Updater : updaters[u].backup # NoFile
          /\ harms = 0 => \E u \in Updater : /\ updaters[u].at \in {"replacing", "restoring"}
                                             /\ updaters[u].backup # NoFile

InstallInv == ReleasesAreTrue /\ UpdatersAreSound /\ ExecutableIsKept

LEMMA InstallBegins == InstallerInit => InstallInv
<1> SUFFICES ASSUME InstallerInit PROVE InstallInv
 OBVIOUS
<1>1. MaxHeight \in Nat /\ 1 \in 1 .. MaxHeight /\ 1 \in 0 .. MaxHeight /\ 0 \in 0 .. MaxHeight
 BY InstallerAssumption
<1>2. ReleasesAreTrue
 BY <1>1 DEF InstallerInit, ReleasesAreTrue, Release
<1>3. Unstarted \in Updating /\ IsSound(Unstarted)
 BY <1>1 DEF Unstarted, Updating, IsSound, NoFile
<1>4. UpdatersAreSound
 BY <1>3 DEF InstallerInit, UpdatersAreSound
<1>5. ExecutableIsKept
 BY <1>1 DEF InstallerInit, ExecutableIsKept, NoFile
<1> QED BY <1>2, <1>4, <1>5 DEF InstallInv

(* A set of releases has a highest one, in 1 .. MaxHeight. *)
LEMMA MaxIsHighest ==
  ASSUME NEW S, S \subseteq 1 .. MaxHeight, S # {}
  PROVE  Max(S) \in S /\ \A v \in S : v <= Max(S)
<1> DEFINE T == {MaxHeight - v : v \in S}
<1>1. T \subseteq Nat /\ T # {}
 <2>1. \A v \in S : v \in Nat /\ MaxHeight - v \in Nat
  BY InstallerAssumption
 <2> QED BY <2>1
<1>2. \E x \in T : \A y \in T : ~ (<<y, x>> \in OpToRel(<, Nat))
 BY <1>1, WFMin, NatLessThanWellFounded, Zenon
<1>3. \A x, y \in Nat : x <= y \/ <<y, x>> \in OpToRel(<, Nat)
 <2>1. \A x, y \in Nat : y < x => <<y, x>> \in OpToRel(<, Nat)
  BY Zenon DEF OpToRel
 <2>2. \A x, y \in Nat : x <= y \/ y < x
  OBVIOUS
 <2> QED BY <2>1, <2>2, Zenon
<1>4. PICK x \in T : \A y \in T : x <= y
 BY <1>1, <1>2, <1>3, Zenon
<1>5. PICK u \in S : x = MaxHeight - u
 OBVIOUS
<1>6. \A v \in S : u >= v
 <2>1. \A v \in S : MaxHeight - v \in T
  OBVIOUS
 <2> TAKE v \in S
 <2>2. MaxHeight - u <= MaxHeight - v
  BY <1>4, <1>5, <2>1
 <2> QED BY <2>2, InstallerAssumption
<1>7. Max(S) \in S /\ \A v \in S : Max(S) >= v
 BY <1>5, <1>6 DEF Max
<1>8. \A v, w \in 1 .. MaxHeight : w >= v => v <= w
 BY InstallerAssumption
<1> QED
 <2> HIDE DEF T
 <2> QED BY <1>7, <1>8

LEMMA NewestIsOffered ==
  ASSUME ReleasesAreTrue, NEW channel \in {"stable", "prerelease"}
  PROVE  NewestOffered(channel) \in 1 .. MaxHeight /\ IsOffered(channel, NewestOffered(channel))
<1> DEFINE S == {r.height : r \in Offered(channel)}
<1>1. S \subseteq 1 .. MaxHeight
 BY DEF ReleasesAreTrue, Offered
<1>2. S # {}
 BY DEF ReleasesAreTrue, Offered, Release
<1>3. Max(S) \in S
 BY <1>1, <1>2, MaxIsHighest
<1>4. NewestOffered(channel) \in S
 BY <1>3 DEF NewestOffered
<1> QED BY <1>1, <1>4 DEF Offered, IsOffered

(* One updater moves, to a state that is sound. *)
LEMMA UpdaterMoves ==
  ASSUME InstallInv, UNCHANGED published, NEW u \in Updater, NEW change \in Updating,
         updaters' = [updaters EXCEPT ![u] = change], IsSound(change)
  PROVE  /\ ReleasesAreTrue' /\ UpdatersAreSound'
         /\ updaters'[u] = change /\ \A w \in Updater \ {u} : updaters'[w] = updaters[w]
<1>1. ReleasesAreTrue'
 BY DEF InstallInv, ReleasesAreTrue
<1>2. updaters' \in [Updater -> Updating] /\ updaters'[u] = change
      /\ \A w \in Updater \ {u} : updaters'[w] = updaters[w]
 BY DEF InstallInv, UpdatersAreSound
<1>3. ASSUME NEW w \in Updater
      PROVE  IsSound(updaters[w])'
 <2>1. IsSound(updaters'[w])
  BY <1>2 DEF InstallInv, UpdatersAreSound
 <2>2. IsSound(updaters'[w]) => IsSound(updaters[w])'
  BY DEF IsSound, IsOffered
 <2> QED BY <2>1, <2>2
<1> QED BY <1>1, <1>2, <1>3 DEF UpdatersAreSound

(* It moves and leaves the executable and its backup: it is not one that would move a
   backup back, or still is, or was killed. *)
LEMMA UpdaterLeavesExecutable ==
  ASSUME InstallInv, UNCHANGED <<published, executable>>, NEW u \in Updater,
         NEW change \in Updating,
         updaters' = [updaters EXCEPT ![u] = change], IsSound(change),
         change.backup = updaters[u].backup \/ executable # NoFile,
         harms' \in Nat, harms' = 0 => harms = 0,
         \/ harms' # 0 \/ executable # NoFile \/ updaters[u].backup = NoFile
         \/ updaters[u].at \in {"replacing", "restoring"}
              => change.at \in {"replacing", "restoring"}
  PROVE  InstallInv'
<1>1. /\ ReleasesAreTrue' /\ UpdatersAreSound'
      /\ updaters'[u] = change /\ \A w \in Updater \ {u} : updaters'[w] = updaters[w]
 BY UpdaterMoves
<1>2. ExecutableIsKept'
 BY <1>1 DEF InstallInv, ExecutableIsKept
<1> QED BY <1>1, <1>2 DEF InstallInv

LEMMA InstallSteps == InstallInv /\ [InstallerNext]_installerVars => InstallInv'
<1> SUFFICES ASSUME InstallInv, [InstallerNext]_installerVars PROVE InstallInv'
 OBVIOUS
<1>0. ReleasesAreTrue /\ UpdatersAreSound /\ ExecutableIsKept
 BY DEF InstallInv
<1>n. MaxHeight \in Nat /\ NoFile = 0 /\ Partial = MaxHeight + 1 /\ Partial \in Nat
      /\ 0 \in 0 .. MaxHeight /\ \A v \in 0 .. MaxHeight : v \in Nat /\ v # Partial
 BY InstallerAssumption DEF NoFile, Partial
<1>1. CASE UNCHANGED installerVars
 BY <1>0, <1>1 DEF installerVars, InstallInv, ReleasesAreTrue, UpdatersAreSound,
      ExecutableIsKept, IsSound, IsOffered
<1>2. CASE Publish
 <2>1. PICK height \in 1 .. MaxHeight, prerelease \in BOOLEAN :
         published' = published \cup {Release(height, prerelease)}
  BY <1>2 DEF Publish
 <2>2. ReleasesAreTrue'
  BY <1>0, <2>1 DEF ReleasesAreTrue, Release
 <2>3. UpdatersAreSound'
  BY <1>0, <1>2, <2>1 DEF Publish, UpdatersAreSound, IsSound, IsOffered
 <2>4. ExecutableIsKept'
  BY <1>0, <1>2 DEF Publish, ExecutableIsKept
 <2> QED BY <2>2, <2>3, <2>4 DEF InstallInv
<1>3. ASSUME NEW u \in Updater,
             \/ Start(u) \/ Check(u) \/ DownloadArchive(u) \/ VerifyArchive(u) \/ StageBinary(u)
             \/ Fails(u) \/ Rename(u) \/ SpawnReplacer(u) \/ Replace(u) \/ ReplaceFails(u)
             \/ Restore(u) \/ DiscardBackup(u) \/ MarkFailure(u) \/ DeleteStage(u) \/ Killed(u)
      PROVE  InstallInv'
 <2> DEFINE s == updaters[u]
 <2>0. s \in Updating /\ IsSound(s)
  BY <1>0 DEF UpdatersAreSound
 <2>e. executable \in 0 .. MaxHeight /\ executable \in Nat /\ harms \in Nat
  BY <1>0, <1>n DEF ExecutableIsKept
 <2>1. CASE Start(u)
  <3>1. PICK channel \in {"stable", "prerelease"} :
          /\ s.at = "unstarted"
          /\ updaters' = [updaters EXCEPT ![u] =
               [s EXCEPT !.at = "checking", !.channel = channel, !.runs = executable]]
   BY <2>1 DEF Start, Moves
  <3> DEFINE change == [s EXCEPT !.at = "checking", !.channel = channel, !.runs = executable]
  <3>2. /\ change \in Updating /\ change.backup = s.backup /\ change.at = "checking"
        /\ change.version = s.version /\ change.stage = s.stage /\ change.archive = s.archive
   BY <2>0, <2>e DEF Updating
  <3>3. IsSound(change)
   BY <2>0, <3>1, <3>2 DEF IsSound
  <3> QED BY <2>1, <2>e, <3>1, <3>2, <3>3, UpdaterLeavesExecutable DEF Start
 <2>2. CASE Check(u)
  <3> DEFINE highest == NewestOffered(s.channel)
             found == highest > s.runs
             change == [s EXCEPT !.at = IF found THEN "downloading" ELSE "ended",
                                 !.version = IF found THEN highest ELSE NoFile]
  <3>1. s.at = "checking" /\ updaters' = [updaters EXCEPT ![u] = change]
   BY <2>2 DEF Check, Moves
  <3>2. highest \in 1 .. MaxHeight /\ IsOffered(s.channel, highest)
   BY <1>0, <2>0, NewestIsOffered DEF Updating
  <3>n. highest \in 0 .. MaxHeight
   BY <1>n, <3>2
  <3>3. s.version = NoFile /\ s.stage = NoFile /\ s.archive = NoFile
   BY <2>0, <3>1 DEF IsSound
  <3>4. CASE found
   <4>1. /\ change \in Updating /\ change.backup = s.backup /\ change.at = "downloading"
         /\ change.version = highest /\ change.stage = s.stage /\ change.archive = s.archive
         /\ change.runs = s.runs /\ change.channel = s.channel
    BY <2>0, <3>n, <3>4 DEF Updating
   <4>2. highest # NoFile
    BY <1>n, <3>2
   <4>3. IsSound(change)
    BY <3>2, <3>3, <3>4, <4>1, <4>2 DEF IsSound
   <4> QED BY <2>2, <2>e, <3>1, <4>1, <4>3, UpdaterLeavesExecutable DEF Check
  <3>5. CASE ~found
   <4>1. /\ change \in Updating /\ change.backup = s.backup /\ change.at = "ended"
         /\ change.version = NoFile /\ change.stage = s.stage /\ change.archive = s.archive
    BY <1>n, <2>0, <3>5 DEF Updating
   <4>3. IsSound(change)
    BY <3>3, <4>1 DEF IsSound
   <4> QED BY <2>2, <2>e, <3>1, <4>1, <4>3, UpdaterLeavesExecutable DEF Check
  <3> QED BY <3>4, <3>5
 <2>3. CASE DownloadArchive(u)
  <3>1. PICK archive \in {s.version, Partial} :
          /\ s.at = "downloading"
          /\ updaters' = [updaters EXCEPT ![u] =
               [s EXCEPT !.at = "verifying", !.archive = archive]]
   BY <2>3 DEF DownloadArchive, Moves
  <3> DEFINE change == [s EXCEPT !.at = "verifying", !.archive = archive]
  <3>2. s.version \in Nat
   BY <1>n, <2>0 DEF Updating
  <3>3. /\ change \in Updating /\ change.backup = s.backup /\ change.at = "verifying"
        /\ change.version = s.version /\ change.stage = s.stage /\ change.archive = archive
        /\ change.runs = s.runs /\ change.channel = s.channel
   BY <1>n, <2>0, <3>2 DEF Updating
  <3>4. IsSound(change)
   BY <2>0, <3>1, <3>3 DEF IsSound
  <3> QED BY <2>3, <2>e, <3>1, <3>3, <3>4, UpdaterLeavesExecutable DEF DownloadArchive
 <2>4. CASE VerifyArchive(u)
  <3> DEFINE change == [s EXCEPT !.at = "staging", !.stage = Partial]
  <3>1. s.at = "verifying" /\ updaters' = [updaters EXCEPT ![u] = change]
        /\ s.archive = s.version
   BY <2>4 DEF VerifyArchive, Moves
  <3>3. /\ change \in Updating /\ change.backup = s.backup /\ change.at = "staging"
        /\ change.version = s.version /\ change.stage = Partial /\ change.archive = s.archive
        /\ change.runs = s.runs /\ change.channel = s.channel
   BY <1>n, <2>0 DEF Updating
  <3>4. IsSound(change)
   BY <2>0, <3>1, <3>3 DEF IsSound
  <3> QED BY <2>4, <2>e, <3>1, <3>3, <3>4, UpdaterLeavesExecutable DEF VerifyArchive
 <2>5. CASE StageBinary(u)
  <3> DEFINE change == [s EXCEPT !.at = "staged", !.stage = s.archive]
  <3>1. s.at = "staging" /\ updaters' = [updaters EXCEPT ![u] = change]
   BY <2>5 DEF StageBinary, Moves
  <3>3. /\ change \in Updating /\ change.backup = s.backup /\ change.at = "staged"
        /\ change.version = s.version /\ change.stage = s.archive
        /\ change.archive = s.archive
        /\ change.runs = s.runs /\ change.channel = s.channel
   BY <1>n, <2>0 DEF Updating
  <3>4. IsSound(change)
   BY <2>0, <3>1, <3>3 DEF IsSound
  <3> QED BY <2>5, <2>e, <3>1, <3>3, <3>4, UpdaterLeavesExecutable DEF StageBinary
 <2>6. CASE Fails(u)
  <3> DEFINE change == [s EXCEPT !.at = "ended", !.stage = NoFile, !.archive = NoFile]
  <3>1. s.at \in {"checking", "downloading", "verifying", "staging"}
        /\ updaters' = [updaters EXCEPT ![u] = change]
   BY <2>6 DEF Fails, Moves
  <3>3. /\ change \in Updating /\ change.backup = s.backup /\ change.at = "ended"
        /\ change.version = s.version /\ change.stage = NoFile /\ change.archive = NoFile
        /\ change.runs = s.runs /\ change.channel = s.channel
   BY <1>n, <2>0 DEF Updating
  <3>4. IsSound(change)
   BY <2>0, <3>1, <3>3 DEF IsSound
  <3> QED BY <2>6, <2>e, <3>1, <3>3, <3>4, UpdaterLeavesExecutable DEF Fails
 <2>ended. /\ [s EXCEPT !.at = "ended", !.stage = NoFile] \in Updating
           /\ IsSound([s EXCEPT !.at = "ended", !.stage = NoFile])
           /\ [s EXCEPT !.at = "ended", !.stage = NoFile].backup = s.backup
  <3> DEFINE change == [s EXCEPT !.at = "ended", !.stage = NoFile]
  <3>3. /\ change \in Updating /\ change.backup = s.backup /\ change.at = "ended"
        /\ change.version = s.version /\ change.stage = NoFile /\ change.archive = s.archive
        /\ change.runs = s.runs /\ change.channel = s.channel
   BY <1>n, <2>0 DEF Updating
  <3>4. IsSound(change)
   BY <2>0, <3>3 DEF IsSound
  <3> QED BY <3>3, <3>4
 <2>7. CASE Rename(u)
  <3> DEFINE change == [s EXCEPT !.at = "ended", !.stage = NoFile]
  <3>1. /\ s.at = "staged" /\ updaters' = [updaters EXCEPT ![u] = change]
        /\ executable' \in {executable, s.stage}
        /\ UNCHANGED <<published, harms>>
   BY <2>7 DEF Rename, Moves
  <3>2. CASE executable' = executable
   BY <2>e, <2>ended, <3>1, <3>2, UpdaterLeavesExecutable
  <3>3. CASE executable' = s.stage
   <4>1. s.stage = s.version /\ s.version # NoFile /\ s.version \in 0 .. MaxHeight
    BY <2>0, <3>1 DEF IsSound, Updating
   <4>2. ReleasesAreTrue' /\ UpdatersAreSound'
    BY <2>ended, <3>1, UpdaterMoves
   <4>3. ExecutableIsKept'
    BY <2>e, <3>1, <3>3, <4>1 DEF ExecutableIsKept
   <4> QED BY <4>2, <4>3 DEF InstallInv
  <3> QED BY <3>1, <3>2, <3>3
 <2>8. CASE SpawnReplacer(u)
  <3>1. PICK at \in {"replacing", "ended"} :
          /\ s.at = "staged" /\ UNCHANGED <<published, executable, harms>>
          /\ \/ updaters' = [updaters EXCEPT ![u] = [s EXCEPT !.at = at]]
             \/ updaters' = [updaters EXCEPT ![u] = [s EXCEPT !.at = "ended",
                                                              !.stage = NoFile]]
   BY <2>8 DEF SpawnReplacer, Moves
  <3> DEFINE change == [s EXCEPT !.at = at]
  <3>3. /\ change \in Updating /\ change.backup = s.backup /\ change.at = at
        /\ change.version = s.version /\ change.stage = s.stage
        /\ change.archive = s.archive
        /\ change.runs = s.runs /\ change.channel = s.channel
   BY <1>n, <2>0 DEF Updating
  <3>4. IsSound(change)
   BY <2>0, <3>1, <3>3 DEF IsSound
  <3>5. CASE updaters' = [updaters EXCEPT ![u] = change]
   BY <2>e, <3>1, <3>3, <3>4, <3>5, UpdaterLeavesExecutable
  <3>6. CASE updaters' = [updaters EXCEPT ![u] = [s EXCEPT !.at = "ended",
                                                          !.stage = NoFile]]
   BY <2>e, <2>ended, <3>1, <3>6, UpdaterLeavesExecutable
  <3> QED BY <3>1, <3>5, <3>6
 <2>9. CASE Replace(u)
  <3>1. PICK backup \in {NoFile, executable} :
          /\ s.at = "replacing" /\ executable # NoFile /\ executable' = s.stage
          /\ updaters' = [updaters EXCEPT ![u] =
               [s EXCEPT !.at = "ended", !.stage = NoFile, !.backup = backup]]
          /\ UNCHANGED <<published, harms>>
   BY <2>9 DEF Replace, Moves
  <3> DEFINE change == [s EXCEPT !.at = "ended", !.stage = NoFile, !.backup = backup]
  <3>2. /\ change \in Updating /\ change.at = "ended"
        /\ change.version = s.version /\ change.stage = NoFile
        /\ change.archive = s.archive
        /\ change.runs = s.runs /\ change.channel = s.channel
   BY <1>n, <2>0, <2>e DEF Updating
  <3>3. IsSound(change)
   BY <2>0, <3>2 DEF IsSound
  <3>4. s.stage = s.version /\ s.version # NoFile /\ s.version \in 0 .. MaxHeight
   BY <2>0, <3>1 DEF IsSound, Updating
  <3>5. ReleasesAreTrue' /\ UpdatersAreSound'
   BY <3>1, <3>2, <3>3, UpdaterMoves
  <3>6. ExecutableIsKept'
   BY <2>e, <3>1, <3>4 DEF ExecutableIsKept
  <3> QED BY <3>5, <3>6 DEF InstallInv
 <2>10. CASE ReplaceFails(u)
  <3>1. PICK half \in BOOLEAN :
          /\ s.at = "replacing" /\ (half => executable # NoFile)
          /\ executable' = IF half THEN NoFile ELSE executable
          /\ updaters' = [updaters EXCEPT ![u] =
               [s EXCEPT !.at = AfterAttempt(u), !.attempt = s.attempt + 1,
                         !.backup = IF half THEN executable ELSE s.backup]]
          /\ UNCHANGED <<published, harms>>
   BY <2>10 DEF ReplaceFails, Moves
  <3> DEFINE change == [s EXCEPT !.at = AfterAttempt(u), !.attempt = s.attempt + 1,
                                 !.backup = IF half THEN executable ELSE s.backup]
  <3>2. AfterAttempt(u) \in {"replacing", "restoring"} /\ s.attempt + 1 \in Nat
   BY <2>0 DEF AfterAttempt, Updating
  <3>3. (IF half THEN executable ELSE s.backup) \in 0 .. MaxHeight
   BY <2>0, <2>e DEF Updating
  <3>4. /\ change \in Updating /\ change.at \in {"replacing", "restoring"}
        /\ change.backup = IF half THEN executable ELSE s.backup
        /\ change.version = s.version /\ change.stage = s.stage
        /\ change.archive = s.archive
        /\ change.runs = s.runs /\ change.channel = s.channel
   BY <2>0, <3>2, <3>3 DEF Updating
  <3>s. s.stage = s.version /\ s.version # NoFile
   <4>1. s.at = "replacing"
    BY <3>1
   <4> QED BY <2>0, <4>1 DEF IsSound
  <3>5. IsSound(change)
   <4>1. change.at \notin {"unstarted", "checking", "staging"}
    BY <3>4
   <4> HIDE DEF change
   <4> QED BY <2>0, <3>4, <3>s, <4>1 DEF IsSound
  <3>6. CASE half
   <4>1. /\ ReleasesAreTrue' /\ UpdatersAreSound' /\ updaters'[u] = change
    BY <3>1, <3>4, <3>5, UpdaterMoves
   <4>2. executable' = NoFile /\ executable' \in 0 .. MaxHeight /\ harms' \in Nat
    BY <1>n, <2>e, <3>1, <3>6
   <4>3. updaters'[u].backup # NoFile /\ updaters'[u].at \in {"replacing", "restoring"}
    <5>1. executable # NoFile
     BY <3>1, <3>6
    <5>2. change.backup = executable /\ change.at \in {"replacing", "restoring"}
     BY <3>4, <3>6
    <5> HIDE DEF change
    <5> QED BY <4>1, <5>1, <5>2
   <4>4. ExecutableIsKept'
    BY <4>2, <4>3 DEF ExecutableIsKept
   <4> QED BY <4>1, <4>4 DEF InstallInv
  <3>7. CASE ~half
   BY <2>e, <3>1, <3>4, <3>5, <3>7, UpdaterLeavesExecutable
  <3> QED BY <3>6, <3>7
 <2>11. CASE Restore(u)
  <3> DEFINE kept == [s EXCEPT !.at = "discarding"]
             moved == [s EXCEPT !.at = "discarding", !.backup = NoFile]
  <3>1. s.at = "restoring" /\ UNCHANGED published
   BY <2>11 DEF Restore, Moves
  <3>2. /\ kept \in Updating /\ kept.at = "discarding" /\ kept.backup = s.backup
        /\ kept.version = s.version /\ kept.stage = s.stage
        /\ kept.archive = s.archive
        /\ kept.runs = s.runs /\ kept.channel = s.channel
   BY <2>0 DEF Updating
  <3>3. /\ moved \in Updating /\ moved.at = "discarding"
        /\ moved.version = s.version /\ moved.stage = s.stage
        /\ moved.archive = s.archive
        /\ moved.runs = s.runs /\ moved.channel = s.channel
   BY <1>n, <2>0 DEF Updating
  <3>4. IsSound(kept) /\ IsSound(moved)
   BY <2>0, <3>2, <3>3 DEF IsSound
  <3>5. CASE executable = NoFile /\ s.backup # NoFile
               /\ executable' = s.backup /\ updaters' = [updaters EXCEPT ![u] = moved]
               /\ UNCHANGED harms
   <4>1. s.backup \in 0 .. MaxHeight
    BY <2>0 DEF Updating
   <4>2. ReleasesAreTrue' /\ UpdatersAreSound'
    BY <3>1, <3>3, <3>4, <3>5, UpdaterMoves
   <4>3. ExecutableIsKept'
    BY <2>e, <3>5, <4>1 DEF ExecutableIsKept
   <4> QED BY <4>2, <4>3 DEF InstallInv
  <3>6. CASE /\ harms' = harms + 1 /\ updaters' = [updaters EXCEPT ![u] = kept]
             /\ UNCHANGED executable
   <4>1. harms' \in Nat /\ harms' # 0
    BY <2>e, <3>6
   <4> QED BY <3>1, <3>2, <3>4, <3>6, <4>1, UpdaterLeavesExecutable
  <3>7. CASE /\ ~(executable = NoFile /\ s.backup # NoFile)
             /\ updaters' = [updaters EXCEPT ![u] = kept]
             /\ UNCHANGED <<executable, harms>>
   BY <2>e, <3>1, <3>2, <3>4, <3>7, UpdaterLeavesExecutable
  <3> QED BY <2>11, <3>5, <3>6, <3>7 DEF Restore, Moves
 <2>12. CASE DiscardBackup(u)
  <3>1. PICK backup \in {s.backup, NoFile} :
          /\ s.at = "discarding" /\ (backup = s.backup \/ executable # NoFile)
          /\ updaters' = [updaters EXCEPT ![u] =
               [s EXCEPT !.at = "marking", !.backup = backup]]
   BY <2>12 DEF DiscardBackup, Moves
  <3> DEFINE change == [s EXCEPT !.at = "marking", !.backup = backup]
  <3>2. /\ change \in Updating /\ change.at = "marking" /\ change.backup = backup
        /\ change.version = s.version /\ change.stage = s.stage
        /\ change.archive = s.archive
        /\ change.runs = s.runs /\ change.channel = s.channel
   BY <1>n, <2>0 DEF Updating
  <3>3. IsSound(change)
   BY <2>0, <3>2 DEF IsSound
  <3> QED BY <2>12, <2>e, <3>1, <3>2, <3>3, UpdaterLeavesExecutable DEF DiscardBackup
 <2>13. CASE MarkFailure(u)
  <3> DEFINE change == [s EXCEPT !.at = "clearing"]
  <3>1. s.at = "marking" /\ updaters' = [updaters EXCEPT ![u] = change]
   BY <2>13 DEF MarkFailure, Moves
  <3>2. /\ change \in Updating /\ change.at = "clearing" /\ change.backup = s.backup
        /\ change.version = s.version /\ change.stage = s.stage
        /\ change.archive = s.archive
        /\ change.runs = s.runs /\ change.channel = s.channel
   BY <2>0 DEF Updating
  <3>3. IsSound(change)
   BY <2>0, <3>2 DEF IsSound
  <3> QED BY <2>13, <2>e, <3>1, <3>2, <3>3, UpdaterLeavesExecutable DEF MarkFailure
 <2>14. CASE DeleteStage(u)
  <3>1. s.at = "clearing" /\ updaters' = [updaters EXCEPT ![u] =
                                [s EXCEPT !.at = "ended", !.stage = NoFile]]
   BY <2>14 DEF DeleteStage, Moves
  <3> QED BY <2>14, <2>e, <2>ended, <3>1, UpdaterLeavesExecutable DEF DeleteStage
 <2>15. CASE Killed(u)
  <3> DEFINE change == [s EXCEPT !.at = "ended"]
  <3>1. updaters' = [updaters EXCEPT ![u] = change] /\ UNCHANGED <<published, executable>>
        /\ harms' \in Nat /\ harms' # 0
   BY <2>15, <2>e DEF Killed
  <3>2. /\ change \in Updating /\ change.at = "ended" /\ change.backup = s.backup
        /\ change.version = s.version /\ change.stage = s.stage
        /\ change.archive = s.archive
        /\ change.runs = s.runs /\ change.channel = s.channel
   BY <2>0 DEF Updating
  <3>3. IsSound(change)
   BY <2>0, <3>2 DEF IsSound
  <3> QED BY <3>1, <3>2, <3>3, UpdaterLeavesExecutable
 <2> QED BY <1>3, <2>1, <2>2, <2>3, <2>4, <2>5, <2>6, <2>7, <2>8, <2>9, <2>10, <2>11,
 <2>12, <2>13, <2>14, <2>15
<1> QED BY <1>1, <1>2, <1>3 DEF InstallerNext

LEMMA InstallHolds == InstallInv => ReplacesSafely
<1> SUFFICES ASSUME InstallInv PROVE ReplacesSafely
 OBVIOUS
<1>n. MaxHeight \in Nat /\ NoFile = 0 /\ Partial = MaxHeight + 1
 BY InstallerAssumption DEF NoFile, Partial
<1>0. ReleasesAreTrue /\ UpdatersAreSound /\ ExecutableIsKept
 BY DEF InstallInv
<1>1. executable # Partial
 BY <1>0, <1>n DEF ExecutableIsKept
<1>2. \A u \in Updater : updaters[u].backup # NoFile => updaters[u].backup \in 1 .. MaxHeight
 BY <1>0, <1>n DEF UpdatersAreSound, Updating
<1>3. ExecutableSurvives
 BY <1>0, <1>1, <1>2 DEF ExecutableSurvives, ExecutableIsKept
<1>4. ASSUME NEW u \in Updater, updaters[u].stage \in 1 .. MaxHeight
      PROVE  /\ updaters[u].stage > updaters[u].runs
             /\ \E r \in Offered(updaters[u].channel) : r.height = updaters[u].stage
 <2>1. updaters[u].stage # NoFile /\ updaters[u].stage # Partial
  BY <1>n, <1>4
 <2>2. IsSound(updaters[u])
  BY <1>0 DEF UpdatersAreSound
 <2>3. updaters[u].stage = updaters[u].version /\ updaters[u].version # NoFile
  BY <2>1, <2>2 DEF IsSound
 <2> QED BY <2>2, <2>3 DEF IsSound, IsOffered, Offered
<1> QED BY <1>3, <1>4 DEF ReplacesSafely, StagedIsWanted

(* ReplacesSafely, for any number of updaters and releases: "the existing executable is
   left untouched on failure" (update.rs), whatever fails between two steps of however
   many updaters, and what is put in its place is a whole and newer release. *)
THEOREM UpdateReplacesSafely == InstallerSpec => []ReplacesSafely
<1>1. InstallerInit => InstallInv
 BY InstallBegins
<1>2. InstallInv /\ [InstallerNext]_installerVars => InstallInv'
 BY InstallSteps
<1>3. InstallInv => ReplacesSafely
 BY InstallHolds
<1> QED BY <1>1, <1>2, <1>3, PTL DEF InstallerSpec

(* The bounds that the type names besides: an updater counts its attempts only while it
   replaces, and is at the last one at most. *)
InstallBounds ==
    /\ onWindows \in BOOLEAN /\ failureMarker \in BOOLEAN /\ harms \in 0 .. MaxHarms
    /\ \A u \in Updater :
          /\ updaters[u].runs \in File /\ updaters[u].attempt \in 0 .. Attempts
          /\ updaters[u].at \notin {"replacing", "restoring", "discarding", "marking", "clearing",
                                   "ended"} => updaters[u].attempt = 0
          /\ updaters[u].at = "replacing" => updaters[u].attempt < Attempts

LEMMA InstallBoundsBegin == InstallerInit => InstallBounds
<1> SUFFICES ASSUME InstallerInit PROVE InstallBounds
 OBVIOUS
<1>1. 0 \in 0 .. MaxHarms /\ 0 \in 0 .. Attempts /\ NoFile \in File
 BY InstallerAssumption DEF File, NoFile, Partial
<1> QED BY <1>1 DEF InstallerInit, InstallBounds, Unstarted

\* One updater moves, and neither the platform nor the marker is disturbed by it.
LEMMA UpdaterStaysBounded ==
  ASSUME InstallInv, InstallBounds, NEW u \in Updater, NEW change,
         updaters' = [updaters EXCEPT ![u] = change],
         onWindows' = onWindows, failureMarker' \in BOOLEAN, harms' \in 0 .. MaxHarms,
         change.runs \in File, change.attempt \in 0 .. Attempts,
         change.at \notin {"replacing", "restoring", "discarding", "marking", "clearing",
                          "ended"} => change.attempt = 0,
         change.at = "replacing" => change.attempt < Attempts
  PROVE  InstallBounds'
<1>1. updaters \in [Updater -> Updating]
 BY DEF InstallInv, UpdatersAreSound
<1>2. /\ updaters'[u] = change
      /\ \A v \in Updater : v # u => updaters'[v] = updaters[v]
 BY <1>1
<1> QED BY <1>2 DEF InstallBounds

LEMMA InstallBoundsKept ==
  InstallInv /\ InstallBounds /\ [InstallerNext]_installerVars => InstallBounds'
<1> SUFFICES ASSUME InstallInv, InstallBounds, [InstallerNext]_installerVars PROVE InstallBounds'
 OBVIOUS
<1>0. /\ MaxHeight \in Nat /\ Attempts \in Nat \ {0} /\ MaxHarms \in Nat
      /\ harms \in 0 .. MaxHarms /\ failureMarker \in BOOLEAN /\ onWindows \in BOOLEAN
      /\ updaters \in [Updater -> Updating] /\ executable \in File
 BY InstallerAssumption DEF InstallInv, InstallBounds, UpdatersAreSound, ExecutableIsKept, File,
    NoFile, Partial
<1>1. CASE UNCHANGED installerVars
 BY <1>1 DEF installerVars, InstallBounds
<1>2. CASE Publish
 BY <1>2 DEF Publish, InstallBounds
<1>3. ASSUME NEW u \in Updater,
             \/ Start(u) \/ Check(u) \/ DownloadArchive(u) \/ VerifyArchive(u) \/ StageBinary(u)
             \/ Fails(u) \/ Rename(u) \/ SpawnReplacer(u) \/ Replace(u) \/ ReplaceFails(u)
             \/ Restore(u) \/ DiscardBackup(u) \/ MarkFailure(u) \/ DeleteStage(u) \/ Killed(u)
      PROVE  InstallBounds'
 <2>0. /\ updaters[u] \in Updating /\ updaters[u].runs \in File
       /\ updaters[u].attempt \in 0 .. Attempts /\ 0 \in 0 .. Attempts
       /\ updaters[u].at \notin {"replacing", "restoring", "discarding", "marking", "clearing",
                                 "ended"} => updaters[u].attempt = 0
       /\ updaters[u].at = "replacing" => updaters[u].attempt < Attempts
  BY <1>0 DEF InstallBounds
 <2>1. /\ onWindows' = onWindows
       /\ failureMarker' \in BOOLEAN
  <3>1. ~Check(u) => failureMarker' \in BOOLEAN
   BY <1>0, <1>3 DEF Start, DownloadArchive, VerifyArchive, StageBinary, Fails, Rename,
      SpawnReplacer, Replace, ReplaceFails, Restore, DiscardBackup, MarkFailure, DeleteStage,
      Killed
  <3>2. Check(u) => failureMarker' \in BOOLEAN
   <4>1. ASSUME Check(u) PROVE \E b : failureMarker' = (failureMarker /\ b)
    BY <4>1 DEF Check
   <4>2. \A b : (failureMarker /\ b) \in BOOLEAN
    BY Zenon
   <4> QED BY <4>1, <4>2, Zenon
  <3>3. onWindows' = onWindows
   BY <1>3 DEF Start, Check, DownloadArchive, VerifyArchive, StageBinary, Fails, Rename,
      SpawnReplacer, Replace, ReplaceFails, Restore, DiscardBackup, MarkFailure, DeleteStage,
      Killed
  <3> QED BY <3>1, <3>2, <3>3
 <2>2. harms' \in 0 .. MaxHarms
  <3>1. \/ Restore(u) \/ Killed(u) \/ UNCHANGED harms
   BY <1>3 DEF Start, Check, DownloadArchive, VerifyArchive, StageBinary, Fails, Rename,
      SpawnReplacer, Replace, ReplaceFails, DiscardBackup, MarkFailure, DeleteStage
  <3>2. Restore(u) \/ Killed(u) => harms' = harms \/ (harms < MaxHarms /\ harms' = harms + 1)
   BY DEF Restore, Killed
  <3> QED BY <1>0, <3>1, <3>2
 <2>3. PICK change :
         /\ updaters' = [updaters EXCEPT ![u] = change]
         /\ change.runs \in {updaters[u].runs, executable}
         /\ \/ /\ change.attempt = updaters[u].attempt
               /\ \/ change.at \in {"restoring", "discarding", "marking", "clearing", "ended"}
                  \/ updaters[u].attempt = 0
            \/ /\ change.attempt = updaters[u].attempt + 1
               /\ updaters[u].attempt < Attempts
               /\ change.at \in {"replacing", "restoring"}
               /\ change.at = "replacing" => updaters[u].attempt + 1 # Attempts
  <3> DEFINE Goes(change) ==
        /\ updaters' = [updaters EXCEPT ![u] = change]
        /\ change.runs \in {updaters[u].runs, executable}
        /\ \/ /\ change.attempt = updaters[u].attempt
              /\ \/ change.at \in {"restoring", "discarding", "marking", "clearing", "ended"}
                 \/ updaters[u].attempt = 0
           \/ /\ change.attempt = updaters[u].attempt + 1
              /\ updaters[u].attempt < Attempts
              /\ change.at \in {"replacing", "restoring"}
              /\ change.at = "replacing" => updaters[u].attempt + 1 # Attempts
  <3>1. CASE Start(u)
   <4>1. PICK channel : Moves(u, "unstarted", [updaters[u] EXCEPT !.at = "checking",
                                       !.channel = channel, !.runs = executable])
    BY <3>1 DEF Start
   <4>2. Goes([updaters[u] EXCEPT !.at = "checking", !.channel = channel, !.runs = executable])
    BY <2>0, <4>1 DEF Moves, Updating
   <4> QED BY <4>2
  <3>2. CASE Check(u)
   <4>1. PICK at, version : Moves(u, "checking", [updaters[u] EXCEPT !.at = at,
                                                                  !.version = version])
    BY <3>2 DEF Check
   <4>2. Goes([updaters[u] EXCEPT !.at = at, !.version = version])
    BY <2>0, <4>1 DEF Moves, Updating
   <4> QED BY <4>2
  <3>3. CASE DownloadArchive(u)
   <4>1. PICK archive : Moves(u, "downloading", [updaters[u] EXCEPT !.at = "verifying",
                                                                  !.archive = archive])
    BY <3>3 DEF DownloadArchive
   <4>2. Goes([updaters[u] EXCEPT !.at = "verifying", !.archive = archive])
    BY <2>0, <4>1 DEF Moves, Updating
   <4> QED BY <4>2
  <3>4. CASE VerifyArchive(u)
   <4>1. Goes([updaters[u] EXCEPT !.at = "staging", !.stage = Partial])
    BY <2>0, <3>4 DEF VerifyArchive, Moves, Updating
   <4> QED BY <4>1
  <3>5. CASE StageBinary(u)
   <4>1. Goes([updaters[u] EXCEPT !.at = "staged", !.stage = updaters[u].archive])
    BY <2>0, <3>5 DEF StageBinary, Moves, Updating
   <4> QED BY <4>1
  <3>6. CASE Fails(u)
   <4>1. Goes([updaters[u] EXCEPT !.at = "ended", !.stage = NoFile, !.archive = NoFile])
    BY <2>0, <3>6 DEF Fails, Moves, Updating
   <4> QED BY <4>1
  <3>7. CASE Rename(u) \/ DeleteStage(u)
   <4>1. Goes([updaters[u] EXCEPT !.at = "ended", !.stage = NoFile])
    BY <2>0, <3>7 DEF Rename, DeleteStage, Moves, Updating
   <4> QED BY <4>1
  <3>8. CASE SpawnReplacer(u)
   <4>1. \/ Goes([updaters[u] EXCEPT !.at = "replacing"])
         \/ Goes([updaters[u] EXCEPT !.at = "ended"])
         \/ Goes([updaters[u] EXCEPT !.at = "ended", !.stage = NoFile])
    BY <2>0, <3>8 DEF SpawnReplacer, Moves, Updating
   <4> QED BY <4>1
  <3>9. CASE Replace(u)
   <4>1. PICK backup : Moves(u, "replacing", [updaters[u] EXCEPT !.at = "ended",
                                                !.stage = NoFile, !.backup = backup])
    BY <3>9 DEF Replace
   <4>2. Goes([updaters[u] EXCEPT !.at = "ended", !.stage = NoFile, !.backup = backup])
    BY <2>0, <4>1 DEF Moves, Updating
   <4> QED BY <4>2
  <3>10. CASE ReplaceFails(u)
   <4>1. PICK backup : Moves(u, "replacing", [updaters[u] EXCEPT !.at = AfterAttempt(u),
                                    !.attempt = updaters[u].attempt + 1, !.backup = backup])
    BY <3>10 DEF ReplaceFails
   <4>2. /\ AfterAttempt(u) \in {"replacing", "restoring"}
         /\ AfterAttempt(u) = "replacing" => updaters[u].attempt + 1 # Attempts
    BY DEF AfterAttempt
   <4>3. Goes([updaters[u] EXCEPT !.at = AfterAttempt(u),
                                  !.attempt = updaters[u].attempt + 1, !.backup = backup])
    BY <2>0, <4>1, <4>2 DEF Moves, Updating
   <4> QED BY <4>3
  <3>11. CASE Restore(u)
   <4>1. \/ Moves(u, "restoring", [updaters[u] EXCEPT !.at = "discarding", !.backup = NoFile])
         \/ Moves(u, "restoring", [updaters[u] EXCEPT !.at = "discarding"])
    BY <3>11 DEF Restore
   <4>2. \/ Goes([updaters[u] EXCEPT !.at = "discarding", !.backup = NoFile])
         \/ Goes([updaters[u] EXCEPT !.at = "discarding"])
    BY <2>0, <4>1 DEF Moves, Updating
   <4> QED BY <4>2
  <3>12. CASE DiscardBackup(u)
   <4>1. PICK backup : Moves(u, "discarding", [updaters[u] EXCEPT !.at = "marking",
                                                                !.backup = backup])
    BY <3>12 DEF DiscardBackup
   <4>2. Goes([updaters[u] EXCEPT !.at = "marking", !.backup = backup])
    BY <2>0, <4>1 DEF Moves, Updating
   <4> QED BY <4>2
  <3>13. CASE MarkFailure(u)
   <4>1. Goes([updaters[u] EXCEPT !.at = "clearing"])
    BY <2>0, <3>13 DEF MarkFailure, Moves, Updating
   <4> QED BY <4>1
  <3>14. CASE Killed(u)
   <4>1. Goes([updaters[u] EXCEPT !.at = "ended"])
    BY <2>0, <3>14 DEF Killed, Updating
   <4> QED BY <4>1
  <3> QED BY <1>3, <3>1, <3>2, <3>3, <3>4, <3>5, <3>6, <3>7, <3>8, <3>9, <3>10, <3>11, <3>12,
  <3>13, <3>14
 <2>4. /\ change.attempt \in 0 .. Attempts
       /\ change.at \notin {"replacing", "restoring", "discarding", "marking", "clearing",
                           "ended"} => change.attempt = 0
       /\ change.at = "replacing" => change.attempt < Attempts
  BY <1>0, <2>0, <2>3
 <2> QED BY <1>0, <2>0, <2>1, <2>2, <2>3, <2>4, UpdaterStaysBounded
<1> QED BY <1>1, <1>2, <1>3 DEF InstallerNext

LEMMA InstallTypeFollows == InstallInv /\ InstallBounds => InstallerType
<1> SUFFICES ASSUME InstallInv, InstallBounds PROVE InstallerType
 OBVIOUS
<1>0. MaxHeight \in Nat /\ NoFile = 0 /\ Partial = MaxHeight + 1 /\ File = 0 .. MaxHeight + 1
 BY InstallerAssumption DEF NoFile, Partial, File
<1>1. ASSUME NEW u \in Updater
      PROVE  updaters[u] \in
                [at : {"unstarted", "checking", "downloading", "verifying", "staging", "staged",
                "replacing", "restoring", "discarding", "marking", "clearing", "ended"},
                 channel : {"stable", "prerelease"}, runs : File, version : File, archive : File,
                 stage : File, backup : File, attempt : 0 .. Attempts]
 <2>1. updaters[u] \in Updating /\ IsSound(updaters[u])
  BY DEF InstallInv, UpdatersAreSound
 <2>2. /\ updaters[u].version \in File /\ updaters[u].backup \in File
       /\ updaters[u].archive \in File /\ updaters[u].stage \in File
  <3>1. updaters[u].version \in 0 .. MaxHeight /\ updaters[u].backup \in 0 .. MaxHeight
   BY <2>1 DEF Updating
  <3> QED BY <1>0, <2>1, <3>1 DEF IsSound
 <2>3. updaters[u].runs \in File /\ updaters[u].attempt \in 0 .. Attempts
  BY DEF InstallBounds
 <2> QED BY <2>1, <2>2, <2>3 DEF Updating
<1>2. executable \in File
 BY <1>0 DEF InstallInv, ExecutableIsKept
<1> QED BY <1>1, <1>2 DEF InstallInv, InstallBounds, ReleasesAreTrue, UpdatersAreSound, InstallerType

(* The state of the updaters has its type: every file holds a release, a part of one or
   nothing, and the Windows helper makes no more than its attempts. *)
THEOREM InstallerTypeCorrect == InstallerSpec => []InstallerType
<1>1. InstallerInit => InstallInv /\ InstallBounds
 BY InstallBegins, InstallBoundsBegin
<1>2. InstallInv /\ InstallBounds /\ [InstallerNext]_installerVars => InstallInv' /\ InstallBounds'
 BY InstallSteps, InstallBoundsKept
<1> QED BY <1>1, <1>2, InstallTypeFollows, PTL DEF InstallerSpec

-------------------------------------------------------------------------------
(* Alerts. *)

Queued == {jobs[i] : i \in DOMAIN jobs}
Returned == {completions[i].alert : i \in DOMAIN completions}
Underway == (Queued \cup {posting.alert} \cup Returned) \ {0}
Item == [id : Id, text : Nat, kind : Kind]
Alert == [account : Nat, chat : Talk, items : (SUBSET Item) \ {{}}, asOf : SUBSET Nat]
Preference == [known : BOOLEAN, asOf : Nat]

AlertsShape ==
    /\ login \in Nat /\ nextResolve \in Nat
    /\ highWater \in [Talk -> Nat] /\ arrived \in [Talk -> Nat] /\ boundary \in [Talk -> Nat]
    /\ groups \in [Talk -> SUBSET Item] /\ text \in [Talk \X Id -> Nat]
    /\ settingsChanges \in Nat /\ notices \in Nat /\ notices <= settingsChanges
    /\ alerts \in Seq(Alert)
    /\ submitted \subseteq 1..Len(alerts) /\ valid \subseteq 1..Len(alerts)
    /\ DOMAIN preferences \subseteq SettingsKey
    /\ \A k \in DOMAIN preferences :
          preferences[k] \in [request : Nat, loading : BOOLEAN, value : Preference]
    /\ resolving \subseteq [key : SettingsKey, id : Nat, read : BOOLEAN, value : Preference]

(* The thread takes the alerts in their order: what has come back from it is before
   the one it is at, and that before what it still has to take. *)
JobsInOrder ==
    /\ jobs \in Seq(1..Len(alerts))
    /\ completions \in Seq([alert : 0..Len(alerts), ok : BOOLEAN])
    /\ posting \in [alert : 0..Len(alerts), posts : BOOLEAN]
    /\ \A i, j \in DOMAIN jobs : i < j => jobs[i] < jobs[j]
    /\ \A a \in Queued : posting.alert < a
    /\ \A a \in Queued, b \in Returned : b < a
    /\ \A i, j \in DOMAIN completions : i < j => completions[i].alert < completions[j].alert
    /\ posting = AtRest \/ (posting.alert > 0 /\ \A b \in Returned : b < posting.alert)

(* What waits in a group is as the terminal knows it, and was not alerted. *)
GroupsAreCurrent ==
    \A c \in Talk : \A m \in groups[c] :
        m.id <= highWater[c] /\ <<c, m.id>> \notin gone /\ m.text = text[<<c, m.id>>]

GroupsAreNew ==
    \A a \in DOMAIN alerts : \A m \in alerts[a].items :
        /\ m.id <= highWater[alerts[a].chat]
        /\ \A w \in groups[alerts[a].chat] : w.id # m.id

HighWaterArrived == \A c \in Talk : highWater[c] <= arrived[c]

(* Settings are not older than the last change the terminal was told of, and
   neither are those that answer what it still waits for. *)
SettingsAreFresh ==
    /\ \A k \in DOMAIN preferences :
          /\ preferences[k].request <= nextResolve
          /\ preferences[k].value.known
                => preferences[k].value.asOf + notices >= settingsChanges
    /\ \A r \in resolving :
          /\ r.id <= nextResolve
          /\ r.value.known /\ r.key \in DOMAIN preferences /\ preferences[r.key].request = r.id
                => r.value.asOf + notices >= settingsChanges

(* What the thread has still to take or was given, and may be posted, can be withdrawn. *)
UnderwayAreGood == \A a \in valid \cap Underway : a \in submitted /\ Good(a)

AlertsInv ==
    /\ AlertsShape /\ JobsInOrder /\ GroupsAreCurrent /\ GroupsAreNew /\ HighWaterArrived
    /\ SettingsAreFresh /\ UnderwayAreGood /\ AlertedOnce

\* The greatest of some identifiers is one of them.
LEMMA GreatestIdFound ==
  ASSUME NEW S \in SUBSET Id, S # {}
  PROVE  Max(S) \in S
<1> DEFINE T == {MaxMessages - x : x \in S}
<1>0. MaxMessages \in Nat /\ S \subseteq Nat
 BY AlertsAssumption DEF Id
<1>1. T \subseteq Nat /\ T # {}
 <2>1. \A x \in S : MaxMessages - x \in Nat
  BY <1>0 DEF Id
 <2> QED BY <2>1
<1> HIDE DEF T
<1>2. \E x \in T : \A y \in T : ~ (<<y, x>> \in OpToRel(<, Nat))
 BY <1>1, WFMin, NatLessThanWellFounded, Zenon
<1>3. \A x, y \in Nat : x <= y \/ <<y, x>> \in OpToRel(<, Nat)
 <2>1. \A x, y \in Nat : y < x => <<y, x>> \in OpToRel(<, Nat)
  BY Zenon DEF OpToRel
 <2>2. \A x, y \in Nat : x <= y \/ y < x
  OBVIOUS
 <2> QED BY <2>1, <2>2, Zenon
<1>4. PICK t \in T : \A u \in T : t <= u
 BY <1>1, <1>2, <1>3, Zenon
<1>5. PICK x \in S : t = MaxMessages - x
 BY <1>4 DEF T
<1>6. ASSUME NEW y \in S PROVE x >= y
 <2>1. MaxMessages - y \in T
  BY DEF T
 <2>2. t <= MaxMessages - y
  BY <1>4, <2>1
 <2> QED BY <1>0, <1>5, <2>2
<1> QED BY <1>6 DEF Max

\* And so is the least.
LEMMA LeastIdFound ==
  ASSUME NEW S \in SUBSET Id, S # {}
  PROVE  Min(S) \in S
<1>0. S \subseteq Nat
 BY AlertsAssumption DEF Id
<1>1. \E x \in S : \A y \in S : ~ (<<y, x>> \in OpToRel(<, Nat))
 BY <1>0, WFMin, NatLessThanWellFounded, Zenon
<1>2. \A x, y \in Nat : x <= y \/ <<y, x>> \in OpToRel(<, Nat)
 <2>1. \A x, y \in Nat : y < x => <<y, x>> \in OpToRel(<, Nat)
  BY Zenon DEF OpToRel
 <2>2. \A x, y \in Nat : x <= y \/ y < x
  OBVIOUS
 <2> QED BY <2>1, <2>2, Zenon
<1>3. \E x \in S : \A y \in S : x <= y
 BY <1>0, <1>1, <1>2, Zenon
<1> QED BY <1>3 DEF Min

LEMMA GreaterOfTwo ==
  ASSUME NEW m \in Nat, NEW n \in Nat
  PROVE  /\ Max({m, n}) \in {m, n} /\ Max({m, n}) >= m /\ Max({m, n}) >= n
<1>1. \E x \in {m, n} : \A y \in {m, n} : x >= y
 <2>1. CASE m >= n
  BY <2>1
 <2>2. CASE n >= m
  BY <2>2
 <2> QED BY <2>1, <2>2
<1> QED BY <1>1 DEF Max

\* What the number of an alert stands for.
LEMMA AlertFacts ==
  ASSUME AlertsInv
  PROVE  \A a \in DOMAIN alerts :
            /\ alerts[a].chat \in Talk /\ alerts[a].items \subseteq Item
            /\ alerts[a].items # {} /\ alerts[a].asOf \subseteq Nat
<1>1. alerts \in Seq(Alert)
 BY DEF AlertsInv, AlertsShape
<1>2. \A a \in DOMAIN alerts : alerts[a] \in Alert
 BY <1>1
<1> QED BY <1>2 DEF Alert

LEMMA SeqHolds ==
  ASSUME NEW S, NEW s \in Seq(S)
  PROVE  \A i \in DOMAIN s : s[i] \in S
  OBVIOUS

\* The alerts that have come back are numbers.
LEMMA ReturnedNumbers ==
  ASSUME AlertsInv
  PROVE  /\ \A i \in DOMAIN completions : completions[i].alert \in 0..Len(alerts)
         /\ \A b \in Returned : b \in Nat
         /\ posting.alert \in Nat
<1>1. /\ completions \in Seq([alert : 0..Len(alerts), ok : BOOLEAN])
      /\ posting \in [alert : 0..Len(alerts), posts : BOOLEAN] /\ Len(alerts) \in Nat
 BY DEF AlertsInv, AlertsShape, JobsInOrder
<1>2. \A i \in DOMAIN completions : completions[i] \in [alert : 0..Len(alerts), ok : BOOLEAN]
 BY ONLY <1>1, SeqHolds
<1>3. \A i \in DOMAIN completions : completions[i].alert \in 0..Len(alerts)
 BY <1>2
<1> QED BY <1>1, <1>3 DEF Returned

\* What most of what the terminal hears does: of the removed in `removed` nothing is
\* left, and the rest that may be posted can be withdrawn as before.
Keeps(removed) ==
    /\ alerts' = alerts /\ text' = text /\ Underway' \subseteq Underway
    /\ \A c \in Talk : groups'[c] \subseteq {m \in groups[c] : <<c, m.id>> \notin removed}
    /\ gone' \subseteq gone \cup removed
    /\ \A c \in Talk : highWater'[c] \in Nat /\ highWater[c] <= highWater'[c]
    /\ valid' \subseteq valid
    /\ \A a \in valid' \cap Underway' \cap submitted :
          /\ a \in submitted' /\ Of(alerts[a]) \cap removed = {}
          /\ login' = login /\ settingsChanges' - notices' = settingsChanges - notices

GroupsAndQueue == GroupsAreCurrent /\ GroupsAreNew /\ UnderwayAreGood /\ AlertedOnce

LEMMA KeepingKeeps ==
  ASSUME AlertsInv, NEW removed, Keeps(removed)
  PROVE  GroupsAndQueue'
<1>1. /\ highWater \in [Talk -> Nat] /\ groups \in [Talk -> SUBSET Item]
      /\ alerts' = alerts /\ text' = text
      /\ \A a \in DOMAIN alerts : alerts[a].chat \in Talk /\ alerts[a].items \subseteq Item
      /\ \A m \in Item : m.id \in Nat
      /\ valid \subseteq DOMAIN alerts
 <2>1. /\ highWater \in [Talk -> Nat] /\ groups \in [Talk -> SUBSET Item]
       /\ alerts' = alerts /\ text' = text /\ valid \subseteq DOMAIN alerts
  BY DEF AlertsInv, AlertsShape, Keeps
 <2>2. \A m \in Item : m.id \in Nat
  BY AlertsAssumption DEF Item, Id
 <2> QED BY <2>1, <2>2, AlertFacts
<1>2. GroupsAreCurrent'
 <2> SUFFICES ASSUME NEW c \in Talk, NEW m \in groups'[c]
              PROVE  m.id <= highWater'[c] /\ <<c, m.id>> \notin gone' /\ m.text = text'[<<c, m.id>>]
  BY DEF GroupsAreCurrent
 <2>1. m \in groups[c] /\ <<c, m.id>> \notin removed /\ m \in Item
  BY <1>1 DEF Keeps
 <2>2. m.id <= highWater[c] /\ <<c, m.id>> \notin gone /\ m.text = text[<<c, m.id>>]
  BY <2>1 DEF AlertsInv, GroupsAreCurrent
 <2>3. m.id \in Nat /\ highWater[c] \in Nat /\ highWater'[c] \in Nat /\ highWater[c] <= highWater'[c]
  BY <1>1, <2>1 DEF Keeps
 <2> QED BY <1>1, <2>1, <2>2, <2>3 DEF Keeps
<1>3. GroupsAreNew'
 <2> SUFFICES ASSUME NEW a \in DOMAIN alerts, NEW m \in alerts[a].items
              PROVE  /\ m.id <= highWater'[alerts[a].chat]
                     /\ \A w \in groups'[alerts[a].chat] : w.id # m.id
  BY <1>1 DEF GroupsAreNew
 <2>1. /\ m.id <= highWater[alerts[a].chat]
       /\ \A w \in groups[alerts[a].chat] : w.id # m.id
  BY DEF AlertsInv, GroupsAreNew
 <2>2. alerts[a].chat \in Talk /\ m.id \in Nat
  BY <1>1
 <2>3. highWater[alerts[a].chat] \in Nat /\ highWater'[alerts[a].chat] \in Nat
       /\ highWater[alerts[a].chat] <= highWater'[alerts[a].chat]
  BY <1>1, <2>2 DEF Keeps
 <2>4. groups'[alerts[a].chat] \subseteq groups[alerts[a].chat]
  BY <2>2 DEF Keeps
 <2> QED BY <2>1, <2>2, <2>3, <2>4
<1>4. UnderwayAreGood'
 <2> SUFFICES ASSUME NEW a \in valid' \cap Underway' PROVE a \in submitted' /\ Good(a)'
  BY DEF UnderwayAreGood
 <2>1. a \in submitted /\ Good(a) /\ a \in DOMAIN alerts
  BY <1>1 DEF AlertsInv, UnderwayAreGood, Keeps
 <2>2. /\ a \in submitted' /\ Of(alerts[a]) \cap removed = {}
       /\ login' = login /\ settingsChanges' - notices' = settingsChanges - notices
  BY <2>1 DEF Keeps
 <2> QED BY <1>1, <2>1, <2>2 DEF Good, Of, IdsOf, Keeps
<1>5. AlertedOnce'
 BY <1>1 DEF AlertsInv, AlertedOnce, Of, IdsOf
<1> QED BY <1>2, <1>3, <1>4, <1>5 DEF GroupsAndQueue

\* All that a turn of the event loop withdraws before it does anything else.
LEMMA PruneKeeps ==
  ASSUME AlertsInv, Prune,
         UNCHANGED <<login, highWater, alerts, jobs, posting, completions, settingsChanges,
                     notices, text>>
  PROVE  GroupsAndQueue'
<1>1. PICK drawn \in Drawn :
        /\ \E late : /\ submitted' = (submitted \ Withdrawn(drawn, late)) \cap valid
                     /\ valid' = valid \ Withdrawn(drawn, late)
        /\ \E old : groups' = [c \in Talk |-> IF c \in old THEN {} ELSE Pruned(drawn)[c]]
        /\ gone' = gone \cup drawn
 BY DEF Prune
<1>2. \A late, a : a \in submitted /\ a \notin Withdrawn(drawn, late)
                      => Of(alerts[a]) \cap drawn = {}
 BY DEF Withdrawn
<1>3. \A c \in Talk : highWater[c] \in Nat
 BY DEF AlertsInv, AlertsShape
<1>4. Keeps(drawn)
 <2>1. \A c \in Talk : groups'[c] \subseteq {m \in groups[c] : <<c, m.id>> \notin drawn}
  BY <1>1 DEF Pruned
 <2>2. Underway' = Underway
  BY DEF Underway, Queued, Returned
 <2>3. /\ valid' \subseteq valid
       /\ \A a \in valid' \cap submitted : a \in submitted' /\ Of(alerts[a]) \cap drawn = {}
  BY <1>1, <1>2
 <2> QED BY <1>1, <1>3, <2>1, <2>2, <2>3 DEF Keeps
<1> QED BY <1>4, KeepingKeeps

LEMMA RemovingKeeps ==
  ASSUME AlertsInv, NEW removed, RemoveMatching(removed), gone' \subseteq gone \cup removed,
         UNCHANGED <<login, highWater, alerts, jobs, posting, completions, settingsChanges,
                     notices, text>>
  PROVE  GroupsAndQueue'
<1>1. \A c \in Talk : highWater[c] \in Nat
 BY DEF AlertsInv, AlertsShape
<1>2. Keeps(removed)
 BY <1>1 DEF RemoveMatching, Keeps, Underway, Queued, Returned
<1> QED BY <1>2, KeepingKeeps

\* No message is concerned.
LEMMA QuietKeeps ==
  ASSUME AlertsInv, UNCHANGED <<alerts, text, gone>>, Underway' \subseteq Underway,
         groups' = groups \/ groups' = [c \in Talk |-> {}],
         \A c \in Talk : highWater'[c] \in Nat /\ highWater[c] <= highWater'[c],
         \/ /\ valid' = valid /\ login' = login
            /\ settingsChanges' - notices' = settingsChanges - notices
            /\ submitted \cap Underway' \subseteq submitted'
         \/ valid' = valid \ submitted
  PROVE  GroupsAndQueue'
<1>1. Keeps({})
 BY DEF Keeps
<1> QED BY <1>1, KeepingKeeps

LEMMA NewMessageKeeps ==
  ASSUME AlertsInv, NEW c \in Talk, NEW id \in Id, NEW k \in Kind, NEW live \in BOOLEAN,
         NewMessage(c, id, k, live)
  PROVE  GroupsAndQueue' /\ HighWaterArrived' /\ highWater' \in [Talk -> Nat]
         /\ arrived' \in [Talk -> Nat] /\ groups' \in [Talk -> SUBSET Item]
<1> DEFINE new == [id |-> id, text |-> text[<<c, id>>], kind |-> k]
<1>1. /\ highWater \in [Talk -> Nat] /\ groups \in [Talk -> SUBSET Item] /\ id \in Nat
      /\ arrived \in [Talk -> Nat] /\ text \in [Talk \X Id -> Nat]
      /\ \A m \in Item : m.id \in Nat
 BY AlertsAssumption DEF AlertsInv, AlertsShape, Id, Item
<1>2. /\ highWater' = [highWater EXCEPT ![c] = Max({highWater[c], id})]
      /\ arrived' = [arrived EXCEPT ![c] = Max({arrived[c], id})]
      /\ <<c, id>> \notin gone
      /\ UNCHANGED <<login, submitted, alerts, valid, jobs, posting, completions,
                     settingsChanges, notices, text, gone>>
 BY DEF NewMessage, QueueAlert, deliveryVars
<1>3. /\ Max({highWater[c], id}) \in Nat /\ Max({arrived[c], id}) \in Nat
      /\ Max({highWater[c], id}) >= highWater[c] /\ Max({highWater[c], id}) >= id
      /\ Max({highWater[c], id}) <= Max({arrived[c], id})
 <2>1. highWater[c] \in Nat /\ arrived[c] \in Nat /\ highWater[c] <= arrived[c]
  BY <1>1 DEF AlertsInv, HighWaterArrived
 <2>2. /\ Max({highWater[c], id}) \in {highWater[c], id}
       /\ Max({highWater[c], id}) >= highWater[c] /\ Max({highWater[c], id}) >= id
  BY <1>1, <2>1, GreaterOfTwo
 <2>3. /\ Max({arrived[c], id}) \in {arrived[c], id}
       /\ Max({arrived[c], id}) >= arrived[c] /\ Max({arrived[c], id}) >= id
  BY <1>1, <2>1, GreaterOfTwo
 <2> QED BY <1>1, <2>1, <2>2, <2>3
<1>4. /\ new \in Item /\ <<c, id>> \in Talk \X Id
 BY <1>1 DEF Item
<1>5. /\ \A d \in Talk : d # c => groups'[d] = groups[d]
      /\ \A m \in groups'[c] : m \in groups[c] \/ (m = new /\ id > highWater[c])
      /\ groups' \in [Talk -> SUBSET Item]
 <2>1. groups' = groups
       \/ (id > highWater[c]
           /\ \E kept \in SUBSET groups[c] : groups' = [groups EXCEPT ![c] = kept \cup {new}])
  BY DEF NewMessage, QueueAlert
 <2>2. ASSUME id > highWater[c], NEW kept \in SUBSET groups[c],
              groups' = [groups EXCEPT ![c] = kept \cup {new}]
       PROVE  /\ \A d \in Talk : d # c => groups'[d] = groups[d]
              /\ \A m \in groups'[c] : m \in groups[c] \/ (m = new /\ id > highWater[c])
              /\ groups' \in [Talk -> SUBSET Item]
  <3>1. kept \cup {new} \in SUBSET Item
   BY <1>1, <1>4
  <3> QED BY <1>1, <2>2, <3>1
 <2> QED BY <1>1, <2>1, <2>2
<1> HIDE DEF new
<1>6. \A d \in Talk : highWater[d] <= highWater'[d] /\ highWater'[d] \in Nat /\ highWater[d] \in Nat
 BY <1>1, <1>2, <1>3
<1>7. highWater'[c] >= id /\ new.id = id /\ new.text = text[<<c, id>>]
 BY <1>1, <1>2, <1>3 DEF new
<1>8. GroupsAreCurrent'
 <2> SUFFICES ASSUME NEW d \in Talk, NEW m \in groups'[d]
              PROVE  m.id <= highWater'[d] /\ <<d, m.id>> \notin gone /\ m.text = text[<<d, m.id>>]
  BY <1>2 DEF GroupsAreCurrent
 <2>1. CASE m \in groups[d]
  <3>1. m.id <= highWater[d] /\ m.id \in Nat
   BY <1>1, <2>1 DEF AlertsInv, GroupsAreCurrent
  <3>2. <<d, m.id>> \notin gone /\ m.text = text[<<d, m.id>>]
   BY <2>1 DEF AlertsInv, GroupsAreCurrent
  <3> QED BY <1>6, <3>1, <3>2
 <2>2. CASE d = c /\ m = new
  BY <1>1, <1>2, <1>6, <1>7, <2>2
 <2> QED BY <1>5, <2>1, <2>2
<1>9. GroupsAreNew'
 <2> SUFFICES ASSUME NEW a \in DOMAIN alerts, NEW m \in alerts[a].items
              PROVE  /\ m.id <= highWater'[alerts[a].chat]
                     /\ \A w \in groups'[alerts[a].chat] : w.id # m.id
  BY <1>2 DEF GroupsAreNew
 <2>1. alerts[a].chat \in Talk /\ m.id \in Nat
  BY <1>1, AlertFacts
 <2>2. m.id <= highWater[alerts[a].chat] /\ \A w \in groups[alerts[a].chat] : w.id # m.id
  BY DEF AlertsInv, GroupsAreNew
 <2>3. m.id <= highWater'[alerts[a].chat]
  BY <1>6, <2>1, <2>2
 <2>4. ASSUME NEW w \in groups'[alerts[a].chat] PROVE w.id # m.id
  BY <1>1, <1>5, <1>7, <2>1, <2>2
 <2> QED BY <2>3, <2>4
<1>10. UnderwayAreGood' /\ AlertedOnce'
 BY <1>2 DEF AlertsInv, UnderwayAreGood, Underway, Queued, Returned, Good, Of, IdsOf, AlertedOnce
<1>11. HighWaterArrived' /\ highWater' \in [Talk -> Nat] /\ arrived' \in [Talk -> Nat]
 BY <1>1, <1>2, <1>3 DEF AlertsInv, HighWaterArrived
<1> QED BY <1>5, <1>8, <1>9, <1>10, <1>11 DEF GroupsAndQueue

LEMMA MessageUpdatedKeeps ==
  ASSUME AlertsInv, NEW c \in Talk, NEW id \in Id, MessageUpdated(c, id)
  PROVE  GroupsAndQueue' /\ groups' \in [Talk -> SUBSET Item] /\ text' \in [Talk \X Id -> Nat]
<1> DEFINE new == text[<<c, id>>] + 1
           corrected(m) == IF m.id = id THEN [m EXCEPT !.text = new] ELSE m
<1>1. /\ highWater \in [Talk -> Nat] /\ groups \in [Talk -> SUBSET Item]
      /\ text \in [Talk \X Id -> Nat] /\ new \in Nat /\ <<c, id>> \in Talk \X Id
      /\ valid \subseteq DOMAIN alerts
 BY DEF AlertsInv, AlertsShape
<1>2. /\ text' = [text EXCEPT ![<<c, id>>] = new]
      /\ groups' = [groups EXCEPT ![c] = {corrected(m) : m \in groups[c]}]
      /\ valid' = valid \ {a \in submitted : <<c, id>> \in Of(alerts[a])}
      /\ UNCHANGED <<login, highWater, submitted, alerts, jobs, posting, completions,
                     settingsChanges, notices, gone>>
 BY DEF MessageUpdated, Correct, OnlyMessages
<1>3. \A m \in Item : /\ corrected(m) \in Item /\ corrected(m).id = m.id
                      /\ m.id # id => corrected(m) = m
                      /\ m.id = id => corrected(m).text = new
 BY <1>1 DEF Item
<1> HIDE DEF corrected, new
<1>4. groups' \in [Talk -> SUBSET Item]
 <2>1. {corrected(m) : m \in groups[c]} \in SUBSET Item
  BY <1>1, <1>3
 <2> QED BY <1>1, <1>2, <2>1
<1>5. \A d \in Talk : \A w \in groups'[d] : \E m \in groups[d] :
        /\ w.id = m.id
        /\ IF d = c /\ m.id = id THEN w.text = new ELSE w = m
 BY <1>1, <1>2, <1>3
<1>6. \A d \in Talk, i \in Id :
        text'[<<d, i>>] = IF d = c /\ i = id THEN new ELSE text[<<d, i>>]
 BY <1>1, <1>2
<1>7. \A m \in Item : m.id \in Id
 BY DEF Item
<1>8. GroupsAreCurrent'
 <2> SUFFICES ASSUME NEW d \in Talk, NEW w \in groups'[d]
              PROVE  w.id <= highWater[d] /\ <<d, w.id>> \notin gone /\ w.text = text'[<<d, w.id>>]
  BY <1>2 DEF GroupsAreCurrent
 <2>1. PICK m \in groups[d] : /\ w.id = m.id
                              /\ IF d = c /\ m.id = id THEN w.text = new ELSE w = m
  BY <1>5
 <2>2. m.id <= highWater[d] /\ <<d, m.id>> \notin gone /\ m.text = text[<<d, m.id>>]
  BY DEF AlertsInv, GroupsAreCurrent
 <2>3. m.id \in Id
  BY <1>1, <1>7
 <2> QED BY <1>6, <2>1, <2>2, <2>3
<1>9. GroupsAreNew'
 BY <1>2, <1>5, AlertFacts DEF AlertsInv, GroupsAreNew
<1>10. UnderwayAreGood'
 <2> SUFFICES ASSUME NEW a \in valid', a \in Underway PROVE a \in submitted /\ Good(a)'
  BY <1>2 DEF UnderwayAreGood, Underway, Queued, Returned
 <2>1. a \in submitted /\ Good(a) /\ a \in DOMAIN alerts
  BY <1>1, <1>2 DEF AlertsInv, UnderwayAreGood
 <2>2. <<c, id>> \notin Of(alerts[a])
  BY <1>2, <2>1
 <2>3. \A m \in alerts[a].items : m.text = text'[<<alerts[a].chat, m.id>>]
  <3> SUFFICES ASSUME NEW m \in alerts[a].items PROVE m.text = text'[<<alerts[a].chat, m.id>>]
   OBVIOUS
  <3>1. m.text = text[<<alerts[a].chat, m.id>>] /\ <<alerts[a].chat, m.id>> \in Of(alerts[a])
   BY <2>1 DEF Good, Of, IdsOf
  <3>2. m.id \in Id /\ alerts[a].chat \in Talk
   BY <1>7, <2>1, AlertFacts
  <3> QED BY <1>6, <2>2, <3>1, <3>2
 <2> QED BY <1>2, <2>1, <2>3 DEF Good, Of, IdsOf
<1>11. AlertedOnce' /\ text' \in [Talk \X Id -> Nat]
 BY <1>1, <1>2 DEF AlertsInv, AlertedOnce, Of, IdsOf
<1> QED BY <1>4, <1>8, <1>9, <1>10, <1>11 DEF GroupsAndQueue

\* A group that is taken becomes at most one alert, of removed that were not alerted;
\* no alert that is queued is forgotten for it, since none shares its last message.
LEMMA TakeAlertKeeps ==
  ASSUME AlertsInv, NEW c \in Talk, NEW drawn \in Drawn, TakeAlert(c, drawn)
  PROVE  /\ GroupsAndQueue'
         /\ groups' \in [Talk -> SUBSET Item]
         /\ alerts' \in Seq(Alert)
         /\ submitted' \subseteq 1..Len(alerts') /\ valid' \subseteq 1..Len(alerts')
         /\ Len(alerts) <= Len(alerts') /\ Len(alerts) \in Nat /\ Len(alerts') \in Nat
         /\ \/ jobs' = jobs
            \/ Len(alerts') = Len(alerts) + 1 /\ jobs' = Append(jobs, Len(alerts'))
<1> DEFINE items == Pruned(drawn)[c]
           n == Len(alerts) + 1
           kept == (submitted \ Withdrawn(drawn, {})) \cap valid
           left == valid \ Withdrawn(drawn, {})
<1>1. /\ groups \in [Talk -> SUBSET Item] /\ alerts \in Seq(Alert) /\ login \in Nat
      /\ submitted \subseteq 1..Len(alerts) /\ valid \subseteq 1..Len(alerts)
      /\ Len(alerts) \in Nat /\ n \in Nat /\ DOMAIN alerts = 1..Len(alerts)
      /\ highWater \in [Talk -> Nat] /\ jobs \in Seq(1..Len(alerts))
      /\ completions \in Seq([alert : 0..Len(alerts), ok : BOOLEAN])
      /\ posting.alert \in 0..Len(alerts)
      /\ settingsChanges \in Nat /\ notices \in Nat /\ notices <= settingsChanges
 BY DEF AlertsInv, AlertsShape, JobsInOrder
<1>2. /\ items # {} /\ Settled(c, items)
      /\ groups' = [Pruned(drawn) EXCEPT ![c] = {}]
      /\ gone' = gone \cup drawn
      /\ UNCHANGED <<login, highWater, preferences, posting, completions, settingsChanges,
                     notices, text>>
 BY DEF TakeAlert
<1>3. /\ \A d \in Talk : groups'[d] \subseteq {m \in groups[d] : <<d, m.id>> \notin drawn}
      /\ groups'[c] = {} /\ groups' \in [Talk -> SUBSET Item]
      /\ items \subseteq groups[c] /\ items \subseteq Item
      /\ \A m \in items : <<c, m.id>> \notin drawn
 BY <1>1, <1>2 DEF Pruned
<1>4. /\ kept \subseteq submitted \cap valid /\ left \subseteq valid
      /\ left \cap submitted \subseteq kept
      /\ \A a \in left \cap submitted : Of(alerts[a]) \cap drawn = {}
 BY DEF Withdrawn
<1>5. PICK eligible \in SUBSET items :
        LET alert == [account |-> login, chat |-> c, items |-> eligible,
                      asOf |-> {preferences[<<c, m.kind>>].value.asOf : m \in eligible}]
            queues == Backend # "terminal" /\ Len(jobs) < MaxJobs IN
        IF eligible = {}
        THEN submitted' = kept /\ valid' = left /\ UNCHANGED <<alerts, jobs>>
        ELSE /\ alerts' = Append(alerts, alert)
             /\ valid' = left \cup {n}
             /\ submitted' = (kept \ Replaced(alert)) \cup (IF queues THEN {n} ELSE {})
             /\ jobs' = IF queues THEN Append(jobs, n) ELSE jobs
 BY DEF TakeAlert
<1> HIDE DEF items, n, kept, left
<1>6. CASE eligible = {}
 <2>1. submitted' = kept /\ valid' = left /\ alerts' = alerts /\ jobs' = jobs
  BY <1>5, <1>6
 <2>2. Keeps(drawn)
  <3>1. \A d \in Talk : highWater'[d] \in Nat /\ highWater[d] <= highWater'[d]
   BY <1>1, <1>2
  <3>2. Underway' = Underway
   BY <1>2, <2>1 DEF Underway, Queued, Returned
  <3>3. \A a \in valid' \cap submitted : a \in submitted' /\ Of(alerts[a]) \cap drawn = {}
   BY <1>4, <2>1
  <3> QED BY <1>2, <1>3, <1>4, <2>1, <3>1, <3>2, <3>3 DEF Keeps
 <2>3. GroupsAndQueue'
  BY <2>2, KeepingKeeps
 <2> QED BY <1>1, <1>3, <1>4, <2>1, <2>3
<1>7. CASE eligible # {}
 <2> DEFINE alert == [account |-> login, chat |-> c, items |-> eligible,
                      asOf |-> {preferences[<<c, m.kind>>].value.asOf : m \in eligible}]
            queues == Backend # "terminal" /\ Len(jobs) < MaxJobs
 <2>1. /\ alerts' = Append(alerts, alert) /\ valid' = left \cup {n}
       /\ submitted' = (kept \ Replaced(alert)) \cup (IF queues THEN {n} ELSE {})
       /\ jobs' = IF queues THEN Append(jobs, n) ELSE jobs
  BY <1>5, <1>7
 <2>2. \A m \in eligible :
          /\ m \in Item /\ m \in groups[c] /\ <<c, m.id>> \notin drawn
          /\ preferences[<<c, m.kind>>].value.asOf \in Nat
          /\ preferences[<<c, m.kind>>].value.asOf + notices >= settingsChanges
  <3> SUFFICES ASSUME NEW m \in eligible
               PROVE  /\ m \in Item /\ m \in groups[c] /\ <<c, m.id>> \notin drawn
                      /\ preferences[<<c, m.kind>>].value.asOf \in Nat
                      /\ preferences[<<c, m.kind>>].value.asOf + notices >= settingsChanges
   OBVIOUS
  <3>1. <<c, m.kind>> \in DOMAIN preferences /\ preferences[<<c, m.kind>>].value.known
   BY <1>2 DEF Settled
  <3>2. preferences[<<c, m.kind>>] \in [request : Nat, loading : BOOLEAN, value : Preference]
   BY <3>1 DEF AlertsInv, AlertsShape
  <3> QED BY <1>3, <3>1, <3>2 DEF AlertsInv, SettingsAreFresh, Preference
 <2>3. /\ alert.account = login /\ alert.chat = c /\ alert.items = eligible
       /\ alert.asOf = {preferences[<<c, m.kind>>].value.asOf : m \in eligible}
       /\ alert \in Alert
  BY <1>1, <1>7, <2>2 DEF Alert
 <2> HIDE DEF alert, queues
 <2>4. /\ alerts' \in Seq(Alert) /\ Len(alerts') = n /\ DOMAIN alerts' = 1..n
       /\ alerts'[n] = alert /\ \A a \in 1..Len(alerts) : alerts'[a] = alerts[a]
  BY <1>1, <2>1, <2>3 DEF n
 <2>5. \A a \in 1..n : a \in 1..Len(alerts) \/ a = n
  BY <1>1 DEF n
 <2>6. n \notin 1..Len(alerts) /\ 1..Len(alerts) \subseteq 1..n /\ n \in 1..n /\ Len(alerts) <= n
  BY <1>1 DEF n
 <2>7. \A a \in 1..Len(alerts) : alerts[a].chat = c => IdsOf(alerts[a].items) \cap IdsOf(eligible) = {}
  BY <1>1, <2>2 DEF AlertsInv, GroupsAreNew, IdsOf
 <2>8. kept \cap Replaced(alert) = {}
  <3> SUFFICES ASSUME NEW a \in submitted, alerts[a].chat = c,
                      Max(IdsOf(alerts[a].items)) = Max(IdsOf(eligible))
               PROVE  FALSE
   BY <1>4, <2>3 DEF Replaced
  <3>1. a \in DOMAIN alerts
   BY <1>1
  <3>2. IdsOf(alerts[a].items) \in SUBSET Id /\ IdsOf(alerts[a].items) # {}
   BY <3>1, AlertFacts DEF IdsOf, Item
  <3>3. IdsOf(eligible) \in SUBSET Id /\ IdsOf(eligible) # {}
   BY <1>7, <2>2 DEF IdsOf, Item
  <3> QED BY <1>1, <2>7, <3>1, <3>2, <3>3, GreatestIdFound
 <2>9. /\ submitted' = kept \cup (IF queues THEN {n} ELSE {})
       /\ submitted' \subseteq 1..Len(alerts') /\ valid' \subseteq 1..Len(alerts')
  BY <1>1, <1>4, <2>1, <2>4, <2>6, <2>8
 <2>10. Queued' = IF queues THEN Queued \cup {n} ELSE Queued
  <3>1. CASE queues
   <4>1. n \in Nat /\ jobs \in Seq(Nat)
    BY <1>1
   <4>2. jobs' = Append(jobs, n)
    BY <2>1, <3>1
   <4> QED BY <3>1, <4>1, <4>2, SMTT(20) DEF Queued
  <3> QED BY <2>1, <3>1 DEF Queued
 <2>11. /\ Underway \subseteq 1..Len(alerts)
        /\ Underway' = IF queues THEN Underway \cup {n} ELSE Underway
  <3>1. Queued \subseteq 1..Len(alerts)
   BY <1>1 DEF Queued
  <3>2. Returned \subseteq 0..Len(alerts) /\ Returned' = Returned
   BY <1>2, ReturnedNumbers DEF Returned
  <3>3. n # 0 /\ \A a \in 0..Len(alerts) : a = 0 \/ a \in 1..Len(alerts)
   BY <1>1 DEF n
  <3>4. Underway \subseteq 1..Len(alerts)
   BY <1>1, <3>1, <3>2, <3>3 DEF Underway
  <3>5. Underway' = IF queues THEN Underway \cup {n} ELSE Underway
   BY <1>2, <2>10, <3>2, <3>3 DEF Underway
  <3> QED BY <3>4, <3>5
 <2>12. GroupsAreCurrent'
  BY <1>2, <1>3 DEF AlertsInv, GroupsAreCurrent
 <2>13. \A m \in eligible : m.id <= highWater[c] /\ <<c, m.id>> \notin gone /\ m.text = text[<<c, m.id>>]
  BY <2>2 DEF AlertsInv, GroupsAreCurrent
 <2>14. GroupsAreNew'
  <3> SUFFICES ASSUME NEW a \in 1..n, NEW m \in alerts'[a].items
               PROVE  /\ m.id <= highWater[alerts'[a].chat]
                      /\ \A w \in groups'[alerts'[a].chat] : w.id # m.id
   BY <1>2, <2>4 DEF GroupsAreNew
  <3>1. CASE a = n
   BY <1>3, <2>3, <2>4, <2>13, <3>1
  <3>2. CASE a \in 1..Len(alerts)
   <4>1. alerts'[a] = alerts[a] /\ a \in DOMAIN alerts /\ alerts[a].chat \in Talk
    BY <1>1, <2>4, <3>2, AlertFacts
   <4>2. groups'[alerts[a].chat] \subseteq groups[alerts[a].chat]
    BY <1>3, <4>1
   <4> QED BY <4>1, <4>2 DEF AlertsInv, GroupsAreNew
  <3> QED BY <2>5, <3>1, <3>2
 <2>15. AlertedOnce'
  <3>1. \A a \in 1..Len(alerts) : Of(alerts'[a]) \cap Of(alerts'[n]) = {}
   <4> SUFFICES ASSUME NEW a \in 1..Len(alerts) PROVE Of(alerts[a]) \cap Of(alert) = {}
    BY <2>4
   <4>1. Of(alert) = {<<c, id>> : id \in IdsOf(eligible)}
    BY <2>3 DEF Of
   <4>2. Of(alerts[a]) = {<<alerts[a].chat, id>> : id \in IdsOf(alerts[a].items)}
    BY DEF Of
   <4> QED BY <2>7, <4>1, <4>2
  <3>2. \A a, b \in 1..Len(alerts) : a # b => Of(alerts'[a]) \cap Of(alerts'[b]) = {}
   BY <1>1, <2>4 DEF AlertsInv, AlertedOnce
  <3> QED BY <2>4, <2>5, <3>1, <3>2 DEF AlertedOnce, Of
 <2>16. UnderwayAreGood'
  <3> SUFFICES ASSUME NEW a \in valid', a \in Underway' PROVE a \in submitted' /\ Good(a)'
   BY DEF UnderwayAreGood
  <3>1. CASE a = n
   <4>1. queues
    BY <2>6, <2>11, <3>1
   <4>2. Of(alert) \cap gone' = {}
    <5>1. \A x \in Of(alert) : \E m \in eligible : x = <<c, m.id>>
     BY <2>3 DEF Of, IdsOf
    <5> QED BY <1>2, <2>2, <2>13, <5>1
   <4>3. \A asOf \in alert.asOf : asOf >= settingsChanges - notices
    <5>1. \A x \in Nat : x + notices >= settingsChanges => x >= settingsChanges - notices
     BY <1>1
    <5> QED BY <2>2, <2>3, <5>1
   <4> QED BY <1>2, <2>3, <2>4, <2>9, <2>13, <3>1, <4>1, <4>2, <4>3 DEF Good, Of, IdsOf
  <3>2. CASE a # n
   <4>1. a \in left /\ a \in Underway /\ a \in valid
    BY <1>4, <2>1, <2>11, <3>2
   <4>2. a \in submitted /\ Good(a) /\ a \in 1..Len(alerts)
    BY <1>1, <4>1 DEF AlertsInv, UnderwayAreGood
   <4>3. a \in kept /\ Of(alerts[a]) \cap drawn = {}
    BY <1>4, <4>1, <4>2
   <4>4. alerts'[a] = alerts[a]
    BY <2>4, <4>2
   <4> QED BY <1>2, <2>9, <4>2, <4>3, <4>4 DEF Good, Of, IdsOf
  <3> QED BY <3>1, <3>2
 <2>17. jobs' = jobs \/ jobs' = Append(jobs, Len(alerts'))
  BY <2>1, <2>4
 <2> QED BY <1>1, <1>3, <2>4, <2>6, <2>9, <2>12, <2>14, <2>15, <2>16, <2>17 DEF GroupsAndQueue, n
<1> QED BY <1>6, <1>7

\* One more alert comes back, at the end, and the first one goes.
LEMMA ReturnedGrow ==
  ASSUME AlertsInv, NEW ok \in BOOLEAN,
         completions' = Append(completions, [alert |-> posting.alert, ok |-> ok])
  PROVE  /\ Returned' \subseteq Returned \cup {posting.alert}
         /\ DOMAIN completions' = 1..Len(completions) + 1 /\ Len(completions) \in Nat
         /\ DOMAIN completions = 1..Len(completions)
         /\ \A i \in 1..Len(completions) : completions'[i] = completions[i]
         /\ completions'[Len(completions) + 1].alert = posting.alert
<1> DEFINE completion == [alert |-> posting.alert, ok |-> ok]
           Done == [alert : 0..Len(alerts), ok : BOOLEAN]
<1>1. completions \in Seq(Done) /\ completion \in Done /\ completion.alert = posting.alert
 BY DEF AlertsInv, JobsInOrder
<1> HIDE DEF completion, Done
<1>2. completions' = Append(completions, completion)
 BY DEF completion
<1>3. /\ DOMAIN completions' = 1..Len(completions) + 1 /\ Len(completions) \in Nat
      /\ DOMAIN completions = 1..Len(completions)
      /\ \A i \in 1..Len(completions) : completions'[i] = completions[i]
      /\ completions'[Len(completions) + 1] = completion
 BY <1>1, <1>2
<1>4. \A i \in DOMAIN completions' : i \in DOMAIN completions \/ i = Len(completions) + 1
 BY <1>3
<1> QED BY <1>1, <1>3, <1>4 DEF Returned

LEMMA ReturnedShrink ==
  ASSUME AlertsInv, completions # <<>>, completions' = Tail(completions)
  PROVE  /\ Returned' \subseteq Returned
         /\ \A b \in Returned' : Head(completions).alert < b /\ b \in Nat
         /\ \A i, j \in DOMAIN completions' : i < j => completions'[i].alert < completions'[j].alert
<1>1. completions \in Seq([alert : 0..Len(alerts), ok : BOOLEAN])
 BY DEF AlertsInv, JobsInOrder
<1>2. /\ Head(completions) = completions[1] /\ 1 \in DOMAIN completions
      /\ Len(completions) \in Nat /\ DOMAIN completions = 1..Len(completions)
      /\ DOMAIN completions' = 1..Len(completions) - 1
      /\ \A i \in DOMAIN completions' : completions'[i] = completions[i + 1]
 BY <1>1
<1>3. \A i \in DOMAIN completions' : i + 1 \in DOMAIN completions /\ 1 < i + 1
 BY <1>2
<1>4. \A i, j \in DOMAIN completions : i < j => completions[i].alert < completions[j].alert
 BY DEF AlertsInv, JobsInOrder
<1>5. \A i \in DOMAIN completions' :
         /\ completions'[i].alert \in Returned
         /\ Head(completions).alert < completions'[i].alert
 BY <1>2, <1>3, <1>4 DEF Returned
<1>6. \A i, j \in DOMAIN completions' : i < j => completions'[i].alert < completions'[j].alert
 <2> SUFFICES ASSUME NEW i \in DOMAIN completions', NEW j \in DOMAIN completions', i < j
              PROVE  completions'[i].alert < completions'[j].alert
  OBVIOUS
 <2>1. i + 1 < j + 1
  BY <1>2
 <2>2. completions[i + 1].alert < completions[j + 1].alert
  BY <1>3, <1>4, <2>1
 <2> QED BY <1>2, <2>2
<1> QED BY <1>5, <1>6, ReturnedNumbers DEF Returned

LEMMA GroupsStep ==
  ASSUME AlertsInv, AlertsNext
  PROVE  GroupsAndQueue'
<1>0. /\ \A c \in Talk : highWater[c] \in Nat /\ arrived[c] \in Nat /\ highWater[c] <= arrived[c]
      /\ settingsChanges \in Nat /\ notices \in Nat
      /\ jobs \in Seq(1..Len(alerts)) /\ completions \in Seq([alert : 0..Len(alerts), ok : BOOLEAN])
 BY DEF AlertsInv, AlertsShape, HighWaterArrived, JobsInOrder
<1>1. CASE GoesOnline \/ \E r \in resolving : Resolves(r) \/ AlertSettingsReady(r)
 <2>1. UNCHANGED <<login, highWater, groups, submitted, alerts, valid, jobs, posting,
                   completions, settingsChanges, notices, text, gone>>
  BY <1>1 DEF GoesOnline, Resolves, AlertSettingsReady, deliveryVars, serverVars, policyVars
 <2>2. Underway' = Underway
  BY <2>1 DEF Underway, Queued, Returned
 <2> QED BY ONLY AlertsInv, <1>0, <2>1, <2>2, QuietKeeps
<1>2. CASE GoesOffline
 BY <1>0, <1>2, QuietKeeps DEF GoesOffline, CancelAlerts, serverVars, Underway, Queued, Returned
<1>3. CASE SettingsChange
 <2>1. settingsChanges' - notices' = settingsChanges - notices
  BY <1>0, <1>3 DEF SettingsChange
 <2> QED BY <1>0, <1>3, <2>1, QuietKeeps DEF SettingsChange, policyVars, deliveryVars, Underway, Queued,
      Returned
<1>4. CASE InvalidateAlertSettings
 BY <1>0, <1>4, QuietKeeps DEF InvalidateAlertSettings, Underway, Queued, Returned
<1>5. CASE SwitchAlerts
 <2>1. \A c \in Talk : highWater'[c] \in Nat /\ highWater[c] <= highWater'[c]
  BY <1>0, <1>5 DEF SwitchAlerts
 <2> QED BY <1>5, <2>1, QuietKeeps DEF SwitchAlerts, CancelAlerts, Underway, Queued, Returned
<1>6. CASE TakeJob \/ PostNative
 <2>1. Underway' \subseteq Underway
  <3>1. CASE TakeJob
   <4>1. /\ jobs' = Tail(jobs) /\ jobs # <<>> /\ completions' = completions
         /\ posting'.alert = Head(jobs)
    BY <3>1 DEF TakeJob
   <4>2. Queued' \subseteq Queued /\ Head(jobs) \in Queued /\ Returned' = Returned
    BY <1>0, <4>1 DEF Queued, Returned
   <4> QED BY <4>1, <4>2 DEF Underway
  <3>2. CASE PostNative
   <4>1. PICK ok \in BOOLEAN :
           completions' = Append(completions, [alert |-> posting.alert, ok |-> ok])
    BY <3>2 DEF PostNative
   <4>2. jobs' = jobs /\ posting' = AtRest /\ AtRest.alert = 0
    BY <3>2 DEF PostNative, AtRest
   <4>3. Returned' \subseteq Returned \cup {posting.alert} /\ Queued' = Queued
    BY <1>0, <4>1, <4>2, ReturnedGrow DEF Queued
   <4> QED BY <4>2, <4>3 DEF Underway
  <3> QED BY <1>6, <3>1, <3>2
 <2> QED BY <1>0, <1>6, <2>1, QuietKeeps DEF TakeJob, PostNative, policyVars, serverVars
<1>7. CASE Delivered
 <2> DEFINE back == Head(completions).alert
 <2>1. /\ completions # <<>> /\ completions' = Tail(completions)
       /\ UNCHANGED <<jobs, posting>>
  BY <1>7 DEF Delivered
 <2>2. back \in Returned /\ Queued' = Queued
  BY <1>0, <2>1 DEF Returned, Queued
 <2>3. /\ Returned' \subseteq Returned
       /\ \A b \in Returned' : back < b /\ b \in Nat
  BY <2>1, ReturnedShrink
 <2>4. back \in Nat /\ posting.alert \in Nat /\ \A a \in Queued : a \in Nat
  BY <1>0, <2>2, ReturnedNumbers DEF Queued
 <2>5. \A a \in Queued : back < a
  BY <2>2 DEF AlertsInv, JobsInOrder
 <2>6. posting.alert = 0 \/ back < posting.alert
  BY <2>2 DEF AlertsInv, JobsInOrder, AtRest
 <2>7. Underway' \subseteq Underway /\ back \notin Underway'
  BY <2>1, <2>2, <2>3, <2>4, <2>5, <2>6 DEF Underway
 <2> QED BY <1>0, <1>7, <2>7, QuietKeeps DEF Delivered, serverVars
<1>8. ASSUME NEW c \in Talk, NEW id \in Id, MessagesDeleted(c, id) PROVE GroupsAndQueue'
 BY <1>8, RemovingKeeps DEF MessagesDeleted, OnlyMessages
<1>9. ASSUME NEW c \in Talk, NEW id \in Id, ReadUpTo(c, id) PROVE GroupsAndQueue'
 BY <1>9, RemovingKeeps DEF ReadUpTo, OnlyMessages
<1>10. ASSUME NEW c \in Talk, CacheInvalidated(c) PROVE GroupsAndQueue'
 BY <1>10, RemovingKeeps DEF CacheInvalidated, OnlyMessages
<1>11. CASE RequestAlertSettings \/ Turn \/ \E k \in DOMAIN preferences : SettingsExpire(k)
 BY <1>11, PruneKeeps DEF RequestAlertSettings, Turn, SettingsExpire
<1> QED BY <1>1, <1>2, <1>3, <1>4, <1>5, <1>6, <1>7, <1>8, <1>9, <1>10, <1>11,
           NewMessageKeeps, MessageUpdatedKeeps, TakeAlertKeeps DEF AlertsNext

LEMMA SettingsStep ==
  ASSUME AlertsInv, AlertsNext
  PROVE  /\ SettingsAreFresh'
         /\ settingsChanges' \in Nat /\ notices' \in Nat /\ notices' <= settingsChanges'
         /\ nextResolve' \in Nat /\ login' \in Nat
         /\ DOMAIN preferences' \subseteq SettingsKey
         /\ \A k \in DOMAIN preferences' :
               preferences'[k] \in [request : Nat, loading : BOOLEAN, value : Preference]
         /\ resolving' \subseteq [key : SettingsKey, id : Nat, read : BOOLEAN, value : Preference]
<1> DEFINE Pref == [request : Nat, loading : BOOLEAN, value : Preference]
           Call == [key : SettingsKey, id : Nat, read : BOOLEAN, value : Preference]
<1>0. /\ settingsChanges \in Nat /\ notices \in Nat /\ notices <= settingsChanges
      /\ nextResolve \in Nat /\ login \in Nat /\ DOMAIN preferences \subseteq SettingsKey
      /\ \A k \in DOMAIN preferences : preferences[k] \in Pref
      /\ resolving \subseteq Call
      /\ SettingsAreFresh
 BY DEF AlertsInv, AlertsShape
<1>1. CASE UNCHANGED <<login, preferences, nextResolve, resolving, settingsChanges, notices>>
 BY <1>0, <1>1 DEF SettingsAreFresh
<1>2. CASE /\ UNCHANGED <<nextResolve, resolving, settingsChanges, login>>
           /\ notices' \in {notices, notices - 1} /\ notices' \in Nat
           /\ DOMAIN preferences' = {}
 BY <1>0, <1>2 DEF SettingsAreFresh
<1>3. CASE SettingsChange
 <2>1. /\ settingsChanges' = settingsChanges + 1 /\ notices' = notices + 1
       /\ UNCHANGED <<login, preferences, nextResolve, resolving>>
  BY <1>3 DEF SettingsChange, policyVars
 <2>2. SettingsAreFresh'
  <3>1. ASSUME NEW k \in DOMAIN preferences
        PROVE  /\ preferences[k].request <= nextResolve
               /\ preferences[k].value.known
                     => preferences[k].value.asOf + notices' >= settingsChanges'
   <4>1. preferences[k].value.asOf \in Nat
    BY <1>0 DEF Preference
   <4> QED BY <1>0, <2>1, <4>1 DEF SettingsAreFresh
  <3>2. ASSUME NEW r \in resolving
        PROVE  /\ r.id <= nextResolve
               /\ r.value.known /\ r.key \in DOMAIN preferences
                  /\ preferences[r.key].request = r.id
                     => r.value.asOf + notices' >= settingsChanges'
   <4>1. r.value.asOf \in Nat
    BY <1>0 DEF Preference
   <4> QED BY <1>0, <2>1, <4>1 DEF SettingsAreFresh
  <3> QED BY <2>1, <3>1, <3>2 DEF SettingsAreFresh
 <2> QED BY <1>0, <2>1, <2>2
<1>4. ASSUME NEW r \in resolving, Resolves(r)
      PROVE  /\ SettingsAreFresh' /\ resolving' \subseteq Call
             /\ UNCHANGED <<login, preferences, nextResolve, settingsChanges, notices>>
 <2>1. PICK value \in {Unknown, [known |-> TRUE, asOf |-> settingsChanges]} :
         /\ resolving' = (resolving \ {r}) \cup {[r EXCEPT !.read = TRUE, !.value = value]}
         /\ UNCHANGED <<login, preferences, nextResolve, settingsChanges, notices>>
  BY <1>4 DEF Resolves, policyVars
 <2> DEFINE s == [r EXCEPT !.read = TRUE, !.value = value]
 <2>2. /\ s \in Call /\ s.id = r.id /\ s.value = value
       /\ value.known => value.asOf = settingsChanges
  <3>1. value \in Preference /\ (value.known => value.asOf = settingsChanges)
   <4>1. CASE value = Unknown
    BY <4>1 DEF Preference, Unknown
   <4>2. CASE value = [known |-> TRUE, asOf |-> settingsChanges]
    <5>1. value.asOf = settingsChanges
     BY <4>2
    <5>2. value \in Preference
     BY <1>0, <4>2 DEF Preference
    <5> QED BY <5>1, <5>2
   <4> QED BY <4>1, <4>2
  <3>2. r \in Call
   BY <1>0
  <3> QED BY <3>1, <3>2
 <2> HIDE DEF s
 <2>3. resolving' \subseteq Call /\ \A q \in resolving' : q \in resolving \/ q = s
  BY <1>0, <2>1, <2>2 DEF s
 <2>4. SettingsAreFresh'
  BY <1>0, <2>1, <2>2, <2>3 DEF SettingsAreFresh
 <2> QED BY <2>1, <2>3, <2>4
<1>5. ASSUME NEW r \in resolving, AlertSettingsReady(r)
      PROVE  /\ SettingsAreFresh' /\ resolving' \subseteq Call
             /\ DOMAIN preferences' = DOMAIN preferences
             /\ \A k \in DOMAIN preferences : preferences'[k] \in Pref
             /\ UNCHANGED <<login, nextResolve, settingsChanges, notices>>
 <2>1. /\ resolving' = resolving \ {r}
       /\ UNCHANGED <<login, nextResolve, settingsChanges, notices>>
       /\ TakeSettings(r) /\ r.value \in Preference
  BY <1>0, <1>5 DEF AlertSettingsReady
 <2>2. /\ DOMAIN preferences' = DOMAIN preferences
       /\ \A k \in DOMAIN preferences :
             /\ preferences'[k] \in Pref
             /\ preferences'[k].request = preferences[k].request
             /\ \/ preferences'[k].value = preferences[k].value
                \/ /\ k = r.key /\ preferences[k].request = r.id
                   /\ preferences'[k].value = r.value
  <3>1. CASE r.key \in DOMAIN preferences /\ preferences[r.key].request = r.id
   <4>1. preferences' = [preferences EXCEPT ![r.key].loading = FALSE,
                                            ![r.key].value = r.value]
    BY <2>1, <3>1 DEF TakeSettings
   <4> QED BY <1>0, <2>1, <3>1, <4>1
  <3>2. CASE ~(r.key \in DOMAIN preferences /\ preferences[r.key].request = r.id)
   BY <1>0, <2>1, <3>2 DEF TakeSettings
  <3> QED BY <3>1, <3>2
 <2>3. SettingsAreFresh'
  BY <1>0, <2>1, <2>2 DEF SettingsAreFresh
 <2> QED BY <1>0, <2>1, <2>2, <2>3
<1>6. ASSUME RequestAlertSettings
      PROVE  /\ SettingsAreFresh' /\ resolving' \subseteq Call /\ nextResolve' \in Nat
             /\ DOMAIN preferences' \subseteq SettingsKey
             /\ \A k \in DOMAIN preferences' : preferences'[k] \in Pref
             /\ UNCHANGED <<login, settingsChanges, notices>>
 <2>1. PICK k \in Unresolved :
         /\ nextResolve' = nextResolve + 1
         /\ preferences' = [j \in DOMAIN preferences \cup {k} |->
                               IF j = k THEN [request |-> nextResolve', loading |-> TRUE,
                                              value |-> Unknown]
                               ELSE preferences[j]]
         /\ resolving' = resolving \cup {[key |-> k, id |-> nextResolve', read |-> FALSE,
                                          value |-> Unknown]}
  BY <1>6 DEF RequestAlertSettings
 <2>2. UNCHANGED <<login, settingsChanges, notices>>
  BY <1>6 DEF RequestAlertSettings
 <2>3. k \in SettingsKey /\ k \notin DOMAIN preferences
  <3>1. groups' \in [Talk -> SUBSET Item]
   <4>1. groups \in [Talk -> SUBSET Item] /\ Prune
    BY <1>6 DEF AlertsInv, AlertsShape, RequestAlertSettings
   <4> QED BY <4>1 DEF Prune, Pruned
  <3> QED BY <2>1, <3>1 DEF Unresolved, Item, SettingsKey
 <2>4. Unknown \in Preference /\ ~Unknown.known
  BY DEF Unknown, Preference
 <2>5. /\ DOMAIN preferences' = DOMAIN preferences \cup {k}
       /\ preferences'[k].request = nextResolve + 1 /\ preferences'[k].value = Unknown
       /\ \A j \in DOMAIN preferences : preferences'[j] = preferences[j]
       /\ preferences'[k] \in Pref
  BY <1>0, <2>1, <2>3, <2>4
 <2>6. \A r \in resolving' : r \in resolving
         \/ r = [key |-> k, id |-> nextResolve', read |-> FALSE, value |-> Unknown]
  BY <2>1
 <2>7. resolving' \subseteq Call
  <3>1. [key |-> k, id |-> nextResolve', read |-> FALSE, value |-> Unknown] \in Call
   BY <1>0, <2>1, <2>3, <2>4
  <3> QED BY <1>0, <2>1, <3>1
 <2>8. ASSUME NEW j \in DOMAIN preferences'
       PROVE  /\ preferences'[j].request <= nextResolve'
              /\ preferences'[j].value.known
                    => preferences'[j].value.asOf + notices' >= settingsChanges'
  <3>1. CASE j = k
   BY <1>0, <2>1, <2>4, <2>5, <3>1
  <3>2. CASE j \in DOMAIN preferences
   <4>1. preferences[j].request \in Nat
    BY <1>0, <3>2
   <4> QED BY <1>0, <2>1, <2>2, <2>5, <3>2, <4>1 DEF SettingsAreFresh
  <3> QED BY <2>5, <3>1, <3>2
 <2>9. ASSUME NEW r \in resolving'
       PROVE  /\ r.id <= nextResolve'
              /\ r.value.known /\ r.key \in DOMAIN preferences'
                 /\ preferences'[r.key].request = r.id
                    => r.value.asOf + notices' >= settingsChanges'
  <3>1. CASE r \in resolving
   <4>1. r.id \in Nat /\ r.id <= nextResolve
    BY <1>0, <3>1 DEF SettingsAreFresh
   <4>2. r.key = k => preferences'[r.key].request # r.id
    BY <1>0, <2>5, <4>1
   <4> QED BY <1>0, <2>1, <2>2, <2>5, <3>1, <4>1, <4>2 DEF SettingsAreFresh
  <3>2. CASE r = [key |-> k, id |-> nextResolve', read |-> FALSE, value |-> Unknown]
   BY <1>0, <2>1, <2>4, <3>2
  <3> QED BY <2>6, <3>1, <3>2
 <2>10. SettingsAreFresh'
  BY <2>8, <2>9 DEF SettingsAreFresh
 <2> QED BY <1>0, <2>1, <2>2, <2>3, <2>5, <2>7, <2>10
<1>7. ASSUME NEW k \in DOMAIN preferences, SettingsExpire(k)
      PROVE  /\ SettingsAreFresh'
             /\ DOMAIN preferences' \subseteq DOMAIN preferences
             /\ \A j \in DOMAIN preferences' : preferences'[j] \in Pref
             /\ UNCHANGED <<login, nextResolve, resolving, settingsChanges, notices>>
 <2>1. /\ preferences' = Drop(preferences, {k})
       /\ UNCHANGED <<login, nextResolve, resolving, settingsChanges, notices>>
  BY <1>7 DEF SettingsExpire
 <2>2. /\ DOMAIN preferences' \subseteq DOMAIN preferences
       /\ \A j \in DOMAIN preferences' : preferences'[j] = preferences[j]
  BY <2>1 DEF Drop
 <2> QED BY <1>0, <2>1, <2>2 DEF SettingsAreFresh
<1>8. CASE SwitchAlerts
 BY <1>0, <1>8 DEF SwitchAlerts, SettingsAreFresh
<1>9. CASE GoesOffline \/ InvalidateAlertSettings
 <2>1. /\ UNCHANGED <<nextResolve, resolving, settingsChanges, login>>
       /\ notices' \in {notices, notices - 1} /\ notices' \in Nat /\ DOMAIN preferences' = {}
  BY <1>0, <1>9 DEF GoesOffline, InvalidateAlertSettings, serverVars
 <2> QED BY <1>2, <2>1
<1>10. CASE GoesOnline \/ Turn \/ TakeJob \/ PostNative \/ Delivered
 BY <1>1, <1>10 DEF GoesOnline, Turn, TakeJob, PostNative, Delivered, serverVars, policyVars
<1>11. ASSUME NEW c \in Talk, NEW id \in Id,
              \/ \E k \in Kind, live \in BOOLEAN : NewMessage(c, id, k, live)
              \/ MessageUpdated(c, id) \/ MessagesDeleted(c, id) \/ ReadUpTo(c, id)
              \/ CacheInvalidated(c)
       PROVE  UNCHANGED <<login, preferences, nextResolve, resolving, settingsChanges, notices>>
 BY <1>11 DEF NewMessage, MessageUpdated, MessagesDeleted, ReadUpTo, CacheInvalidated, OnlyMessages
<1>12. ASSUME NEW c \in Talk, NEW drawn \in Drawn, TakeAlert(c, drawn) \/ CacheInvalidated(c)
       PROVE  UNCHANGED <<login, preferences, nextResolve, resolving, settingsChanges, notices>>
 BY <1>12 DEF TakeAlert, CacheInvalidated, OnlyMessages
<1>13. ASSUME NEW c \in Talk, CacheInvalidated(c)
       PROVE  UNCHANGED <<login, preferences, nextResolve, resolving, settingsChanges, notices>>
 BY <1>13 DEF CacheInvalidated, OnlyMessages
<1> HIDE DEF Pref, Call
<1> QED BY <1>0, <1>1, <1>3, <1>4, <1>5, <1>6, <1>7, <1>8, <1>9, <1>10, <1>11, <1>12, <1>13
        DEF AlertsNext, Pref, Call

LEMMA SeqGrows ==
  ASSUME NEW S, NEW T, S \subseteq T, NEW s \in Seq(S)
  PROVE  s \in Seq(T)
<1>1. Len(s) \in Nat /\ s \in [1..Len(s) -> S]
 OBVIOUS
<1>2. s \in [1..Len(s) -> T]
 BY <1>1
<1> QED BY <1>1, <1>2

LEMMA JobsStep ==
  ASSUME AlertsInv, AlertsNext
  PROVE  JobsInOrder'
<1> DEFINE Done == [alert : 0..Len(alerts), ok : BOOLEAN]
<1>0. /\ jobs \in Seq(1..Len(alerts)) /\ Len(alerts) \in Nat
      /\ completions \in Seq(Done)
      /\ posting \in [alert : 0..Len(alerts), posts : BOOLEAN]
      /\ \A i, j \in DOMAIN jobs : i < j => jobs[i] < jobs[j]
      /\ \A a \in Queued : posting.alert < a
      /\ \A a \in Queued, b \in Returned : b < a
      /\ \A i, j \in DOMAIN completions : i < j => completions[i].alert < completions[j].alert
      /\ posting = AtRest \/ (posting.alert > 0 /\ \A b \in Returned : b < posting.alert)
 BY DEF AlertsInv, AlertsShape, JobsInOrder
<1>1. CASE UNCHANGED <<alerts, jobs, posting, completions>>
 BY <1>0, <1>1 DEF JobsInOrder, Queued, Returned
<1>2. ASSUME NEW c \in Talk, NEW drawn \in Drawn, TakeAlert(c, drawn)
      PROVE  JobsInOrder'
 <2>1. /\ Len(alerts) <= Len(alerts') /\ Len(alerts') \in Nat
       /\ posting' = posting /\ completions' = completions
       /\ \/ jobs' = jobs
          \/ Len(alerts') = Len(alerts) + 1 /\ jobs' = Append(jobs, Len(alerts'))
  BY <1>2, TakeAlertKeeps DEF TakeAlert
 <2>2. /\ 1..Len(alerts) \subseteq 1..Len(alerts') /\ 0..Len(alerts) \subseteq 0..Len(alerts')
       /\ Returned' = Returned
  BY <1>0, <2>1 DEF Returned
 <2>3. completions' \in Seq([alert : 0..Len(alerts'), ok : BOOLEAN])
  <3>1. Done \subseteq [alert : 0..Len(alerts'), ok : BOOLEAN]
   BY <2>2
  <3> QED BY ONLY <1>0, <2>1, <3>1, SeqGrows
 <2>4. posting' \in [alert : 0..Len(alerts'), posts : BOOLEAN]
  BY <1>0, <2>1, <2>2
 <2>5. CASE jobs' = jobs
  <3>1. jobs' \in Seq(1..Len(alerts'))
   BY ONLY <1>0, <2>2, <2>5, SeqGrows
  <3>2. Queued' = Queued
   BY <2>5 DEF Queued
  <3> QED BY <1>0, <2>1, <2>2, <2>3, <2>4, <2>5, <3>1, <3>2 DEF JobsInOrder
 <2>6. CASE Len(alerts') = Len(alerts) + 1 /\ jobs' = Append(jobs, Len(alerts'))
  <3> DEFINE n == Len(alerts) + 1
  <3>1. jobs \in Seq(1..n) /\ n \in 1..n /\ jobs' = Append(jobs, n) /\ n = Len(alerts')
   BY <1>0, <2>2, <2>6
  <3> HIDE DEF n
  <3>2. /\ jobs' \in Seq(1..n) /\ Len(jobs) \in Nat
        /\ DOMAIN jobs = 1..Len(jobs) /\ DOMAIN jobs' = 1..Len(jobs) + 1
        /\ \A i \in 1..Len(jobs) : jobs'[i] = jobs[i]
        /\ jobs'[Len(jobs) + 1] = n
   BY <3>1
  <3>3. \A i \in 1..Len(jobs) : jobs[i] \in Nat /\ jobs[i] < n
   BY <1>0, <3>1, <3>2 DEF n
  <3>4. \A i \in 1..Len(jobs) + 1 : i \in 1..Len(jobs) \/ i = Len(jobs) + 1
   BY <3>2
  <3>5. \A i, j \in DOMAIN jobs' : i < j => jobs'[i] < jobs'[j]
   <4> SUFFICES ASSUME NEW i \in 1..Len(jobs) + 1, NEW j \in 1..Len(jobs) + 1, i < j
                PROVE  jobs'[i] < jobs'[j]
    BY <3>2
   <4>1. i \in 1..Len(jobs)
    BY <3>2
   <4> QED BY <1>0, <3>2, <3>3, <3>4, <4>1
  <3>6. \A a \in Queued' : a \in Queued \/ a = n
   BY <3>2, <3>4 DEF Queued
  <3>7. /\ posting.alert \in 0..Len(alerts)
        /\ \A b \in Returned : b \in 0..Len(alerts)
   <4>1. \A i \in DOMAIN completions : completions[i] \in Done
    BY ONLY <1>0, SeqHolds
   <4>2. \A i \in DOMAIN completions : completions[i].alert \in 0..Len(alerts)
    BY <4>1
   <4> QED BY <1>0, <4>2 DEF Returned
  <3>8. \A b \in 0..Len(alerts) : b < n
   BY <1>0 DEF n
  <3> QED BY <1>0, <2>1, <2>2, <2>3, <2>4, <3>1, <3>2, <3>5, <3>6, <3>7, <3>8 DEF JobsInOrder
 <2> QED BY <2>1, <2>5, <2>6
<1>3. ASSUME TakeJob PROVE JobsInOrder'
 <2>1. /\ jobs # <<>> /\ jobs' = Tail(jobs) /\ posting'.alert = Head(jobs)
       /\ UNCHANGED <<alerts, completions>>
       /\ posting' = [alert |-> Head(jobs), posts |-> Head(jobs) \in valid]
  BY <1>3 DEF TakeJob
 <2>2. /\ jobs' \in Seq(1..Len(alerts)) /\ Len(jobs) \in Nat /\ Len(jobs) >= 1
       /\ DOMAIN jobs' = 1..Len(jobs) - 1 /\ DOMAIN jobs = 1..Len(jobs)
       /\ \A i \in 1..Len(jobs) - 1 : jobs'[i] = jobs[i + 1] /\ i + 1 \in 1..Len(jobs) /\ 1 < i + 1
       /\ Head(jobs) = jobs[1] /\ 1 \in DOMAIN jobs /\ Head(jobs) \in 1..Len(alerts)
  BY <1>0, <2>1
 <2>3. \A i, j \in DOMAIN jobs' : i < j => jobs'[i] < jobs'[j]
  <3> SUFFICES ASSUME NEW i \in 1..Len(jobs) - 1, NEW j \in 1..Len(jobs) - 1, i < j
               PROVE  jobs'[i] < jobs'[j]
   BY <2>2
  <3>1. i + 1 \in DOMAIN jobs /\ j + 1 \in DOMAIN jobs /\ i + 1 < j + 1
   BY <2>2
  <3>2. jobs[i + 1] < jobs[j + 1]
   BY ONLY <1>0, <3>1
  <3> QED BY <2>2, <3>2
 <2>4. \A a \in Queued' : a \in Queued /\ Head(jobs) < a
  <3> SUFFICES ASSUME NEW i \in 1..Len(jobs) - 1 PROVE jobs'[i] \in Queued /\ Head(jobs) < jobs'[i]
   BY <2>2 DEF Queued
  <3>1. i + 1 \in DOMAIN jobs /\ 1 \in DOMAIN jobs /\ 1 < i + 1
   BY <2>2
  <3>2. jobs[1] < jobs[i + 1]
   BY ONLY <1>0, <3>1
  <3>3. jobs'[i] = jobs[i + 1] /\ Head(jobs) = jobs[1]
   BY <2>2
  <3> QED BY <3>1, <3>2, <3>3 DEF Queued
 <2>5. posting' \in [alert : 0..Len(alerts), posts : BOOLEAN]
  <3>1. Head(jobs) \in 0..Len(alerts)
   BY <1>0, <2>2
  <3>2. (Head(jobs) \in valid) \in BOOLEAN
   OBVIOUS
  <3> QED BY <2>1, <3>1, <3>2
 <2>6. Returned' = Returned /\ Head(jobs) \in Queued
  BY <2>1, <2>2 DEF Returned, Queued
 <2>7. posting'.alert > 0 /\ \A b \in Returned : b < posting'.alert
  BY <1>0, <2>1, <2>2, <2>6
 <2> QED BY <1>0, <2>1, <2>2, <2>3, <2>4, <2>5, <2>6, <2>7 DEF JobsInOrder
<1>4. ASSUME PostNative PROVE JobsInOrder'
 <2>1. PICK ok \in BOOLEAN :
         completions' = Append(completions, [alert |-> posting.alert, ok |-> ok])
  BY <1>4 DEF PostNative
 <2>2. posting' = AtRest /\ UNCHANGED <<alerts, jobs>>
  BY <1>4 DEF PostNative
 <2>3. [alert |-> posting.alert, ok |-> ok] \in Done
  BY <1>0
 <2>4. completions' \in Seq(Done)
  BY <1>0, <2>1, <2>3
 <2>5. \A b \in Returned' : b \in Returned \/ b = posting.alert
  BY <2>1, ReturnedGrow
 <2>6. AtRest \in [alert : 0..Len(alerts), posts : BOOLEAN] /\ AtRest.alert = 0
  BY <1>0 DEF AtRest
 <2>7. Queued' = Queued /\ \A a \in Queued : 0 < a
  BY <1>0, <2>2 DEF Queued
 <2>8. posting.alert > 0 /\ \A b \in Returned : b < posting.alert
  BY <1>0, <1>4 DEF PostNative
 <2>9. \A i, j \in DOMAIN completions' : i < j => completions'[i].alert < completions'[j].alert
  <3> SUFFICES ASSUME NEW i \in DOMAIN completions', NEW j \in DOMAIN completions', i < j
               PROVE  completions'[i].alert < completions'[j].alert
   OBVIOUS
  <3>1. i \in 1..Len(completions) /\ (j \in 1..Len(completions) \/ j = Len(completions) + 1)
   BY <2>1, ReturnedGrow
  <3>2. \A k \in 1..Len(completions) : completions[k].alert \in Returned
   BY <2>1, ReturnedGrow DEF Returned
  <3> QED BY <1>0, <2>1, <2>8, <3>1, <3>2, ReturnedGrow
 <2> QED BY <1>0, <2>2, <2>4, <2>5, <2>6, <2>7, <2>9 DEF JobsInOrder
<1>5. ASSUME Delivered PROVE JobsInOrder'
 <2>1. /\ completions # <<>> /\ completions' = Tail(completions)
       /\ UNCHANGED <<alerts, jobs, posting>>
  BY <1>5 DEF Delivered
 <2>2. completions' \in Seq(Done) /\ Returned' \subseteq Returned /\ Queued' = Queued
  BY <1>0, <2>1 DEF Returned, Queued
 <2>3. \A i, j \in DOMAIN completions' : i < j => completions'[i].alert < completions'[j].alert
  BY <2>1, ReturnedShrink
 <2> QED BY <1>0, <2>1, <2>2, <2>3 DEF JobsInOrder
<1>6. CASE \/ GoesOnline \/ GoesOffline \/ SettingsChange \/ InvalidateAlertSettings
           \/ RequestAlertSettings \/ Turn \/ SwitchAlerts
           \/ \E r \in resolving : Resolves(r) \/ AlertSettingsReady(r)
           \/ \E k \in DOMAIN preferences : SettingsExpire(k)
 BY <1>1, <1>6 DEF GoesOnline, GoesOffline, SettingsChange, InvalidateAlertSettings,
      RequestAlertSettings, Turn, SwitchAlerts, Resolves, AlertSettingsReady, SettingsExpire,
      deliveryVars
<1>7. ASSUME NEW c \in Talk, NEW id \in Id,
             \/ \E k \in Kind, live \in BOOLEAN : NewMessage(c, id, k, live)
             \/ MessageUpdated(c, id) \/ MessagesDeleted(c, id) \/ ReadUpTo(c, id)
      PROVE  JobsInOrder'
 BY <1>1, <1>7 DEF NewMessage, MessageUpdated, MessagesDeleted, ReadUpTo, OnlyMessages, deliveryVars
<1>8. ASSUME NEW c \in Talk, CacheInvalidated(c) PROVE JobsInOrder'
 BY <1>1, <1>8 DEF CacheInvalidated, OnlyMessages
<1> QED BY <1>2, <1>3, <1>4, <1>5, <1>6, <1>7, <1>8 DEF AlertsNext

\* The rest of the shape.
MarksType ==
    /\ highWater \in [Talk -> Nat] /\ arrived \in [Talk -> Nat] /\ boundary \in [Talk -> Nat]
    /\ HighWaterArrived
TablesType ==
    /\ groups \in [Talk -> SUBSET Item] /\ text \in [Talk \X Id -> Nat]
    /\ alerts \in Seq(Alert)
    /\ submitted \subseteq 1..Len(alerts) /\ valid \subseteq 1..Len(alerts)

LEMMA AlertsShapeStep ==
  ASSUME AlertsInv, AlertsNext
  PROVE  AlertsShape' /\ HighWaterArrived'
<1>0. AlertsShape /\ HighWaterArrived
 BY DEF AlertsInv
<1>1. MarksType'
 <2> USE DEF MarksType
 <2>1. CASE UNCHANGED <<highWater, arrived, boundary>>
  BY <1>0, <2>1 DEF AlertsShape, HighWaterArrived
 <2>2. ASSUME NEW c \in Talk, NEW id \in Id, NEW k \in Kind, NEW live \in BOOLEAN,
              NewMessage(c, id, k, live)
       PROVE  MarksType'
  <3>1. boundary' = boundary
   BY <2>2 DEF NewMessage
  <3>2. /\ HighWaterArrived' /\ highWater' \in [Talk -> Nat] /\ arrived' \in [Talk -> Nat]
   BY <2>2, NewMessageKeeps
  <3> QED BY <1>0, <3>1, <3>2 DEF AlertsShape
 <2>3. ASSUME NEW c \in Talk, NEW id \in Id, ReadUpTo(c, id) PROVE MarksType'
  <3>1. id \in Nat
   BY AlertsAssumption DEF Id
  <3> QED BY <1>0, <2>3, <3>1 DEF ReadUpTo, AlertsShape, HighWaterArrived
 <2>4. CASE SwitchAlerts
  BY <1>0, <2>4 DEF SwitchAlerts, AlertsShape, HighWaterArrived
 <2>5. CASE \/ GoesOnline \/ GoesOffline \/ SettingsChange \/ InvalidateAlertSettings
            \/ RequestAlertSettings \/ Turn \/ TakeJob \/ PostNative \/ Delivered
            \/ \E r \in resolving : Resolves(r) \/ AlertSettingsReady(r)
            \/ \E k \in DOMAIN preferences : SettingsExpire(k)
            \/ \E c \in Talk, id \in Id : MessageUpdated(c, id) \/ MessagesDeleted(c, id)
            \/ \E c \in Talk : CacheInvalidated(c)
            \/ \E c \in Talk, drawn \in Drawn : TakeAlert(c, drawn)
  BY <2>1, <2>5 DEF GoesOnline, GoesOffline, SettingsChange, InvalidateAlertSettings,
     RequestAlertSettings, Turn, TakeJob, PostNative, Delivered, Resolves, AlertSettingsReady,
     SettingsExpire, MessageUpdated, MessagesDeleted, CacheInvalidated, TakeAlert,
     serverVars, policyVars
 <2> QED BY <2>2, <2>3, <2>4, <2>5 DEF AlertsNext
<1>2. TablesType'
 <2> USE DEF TablesType
 <2>0. TablesType
  BY <1>0 DEF AlertsShape
 <2>1. CASE /\ UNCHANGED <<text, alerts>>
            /\ groups' \in [Talk -> SUBSET Item]
            /\ submitted' \subseteq submitted /\ valid' \subseteq valid
  BY <2>0, <2>1
 <2>2. ASSUME NEW c \in Talk, NEW id \in Id, NEW k \in Kind, NEW live \in BOOLEAN,
              NewMessage(c, id, k, live)
       PROVE  TablesType'
  BY <2>1, <2>2, NewMessageKeeps DEF NewMessage, deliveryVars
 <2>3. ASSUME NEW c \in Talk, NEW id \in Id, MessageUpdated(c, id) PROVE TablesType'
  BY <2>0, <2>3, MessageUpdatedKeeps DEF MessageUpdated, Correct, OnlyMessages
 <2>4. ASSUME NEW c \in Talk, NEW drawn \in Drawn, TakeAlert(c, drawn) PROVE TablesType'
  BY <2>0, <2>4, TakeAlertKeeps DEF TakeAlert
 <2>5. ASSUME NEW removed, RemoveMatching(removed), UNCHANGED <<text, alerts>> PROVE TablesType'
  BY <2>0, <2>1, <2>5 DEF RemoveMatching
 <2>6. CASE \E c \in Talk, id \in Id : MessagesDeleted(c, id) \/ ReadUpTo(c, id)
  BY <2>5, <2>6 DEF MessagesDeleted, ReadUpTo, OnlyMessages
 <2>7. CASE \E c \in Talk : CacheInvalidated(c)
  BY <2>5, <2>7 DEF CacheInvalidated, OnlyMessages
 <2>8. CASE RequestAlertSettings \/ Turn \/ \E k \in DOMAIN preferences : SettingsExpire(k)
  <3>1. Prune /\ UNCHANGED <<text, alerts>>
   BY <2>8 DEF RequestAlertSettings, Turn, SettingsExpire
  <3>2. submitted' \subseteq submitted /\ valid' \subseteq valid
   BY <3>1 DEF Prune
  <3>3. groups' \in [Talk -> SUBSET Item]
   BY <2>0, <3>1 DEF Prune, Pruned
  <3> QED BY <2>1, <3>1, <3>2, <3>3
 <2>9. CASE GoesOffline \/ SwitchAlerts
  BY <2>0, <2>1, <2>9 DEF GoesOffline, SwitchAlerts, CancelAlerts, serverVars
 <2>10. CASE \/ GoesOnline \/ SettingsChange \/ InvalidateAlertSettings
             \/ TakeJob \/ PostNative \/ Delivered
             \/ \E r \in resolving : Resolves(r) \/ AlertSettingsReady(r)
  BY <2>0, <2>1, <2>10 DEF GoesOnline, SettingsChange, InvalidateAlertSettings,
     TakeJob, PostNative, Delivered, Resolves, AlertSettingsReady,
     serverVars, policyVars, deliveryVars
 <2> QED BY <2>2, <2>3, <2>4, <2>6, <2>7, <2>8, <2>9, <2>10 DEF AlertsNext
<1> QED BY <1>1, <1>2, SettingsStep DEF AlertsShape, MarksType, TablesType

LEMMA AlertsStep ==
  ASSUME AlertsInv, [AlertsNext]_alertVars
  PROVE  AlertsInv'
<1>1. CASE AlertsNext
 BY <1>1, GroupsStep, SettingsStep, JobsStep, AlertsShapeStep DEF AlertsInv, GroupsAndQueue
<1>2. CASE UNCHANGED alertVars
 <2>1. /\ UNCHANGED <<login, highWater, groups, preferences, submitted, nextResolve, boundary>>
       /\ UNCHANGED <<alerts, valid, jobs, posting, completions>>
       /\ UNCHANGED <<resolving, settingsChanges, notices, arrived, text, gone>>
  BY <1>2 DEF alertVars, policyVars, deliveryVars, serverVars
 <2>2. AlertsShape' /\ HighWaterArrived' /\ SettingsAreFresh'
  BY <2>1 DEF AlertsInv, AlertsShape, HighWaterArrived, SettingsAreFresh
 <2>3. JobsInOrder'
  BY <2>1 DEF AlertsInv, JobsInOrder, Queued, Returned
 <2>4. GroupsAreCurrent' /\ GroupsAreNew' /\ AlertedOnce'
  BY <2>1 DEF AlertsInv, GroupsAreCurrent, GroupsAreNew, AlertedOnce, Of, IdsOf
 <2>5. UnderwayAreGood'
  BY <2>1 DEF AlertsInv, UnderwayAreGood, Underway, Queued, Returned, Good, Of, IdsOf
 <2> QED BY <2>2, <2>3, <2>4, <2>5 DEF AlertsInv
<1> QED BY <1>1, <1>2

LEMMA AlertsBegin == AlertsInit => AlertsInv
<1> SUFFICES ASSUME AlertsInit PROVE AlertsInv
 OBVIOUS
<1>1. /\ alerts = <<>> /\ jobs = <<>> /\ completions = <<>> /\ posting = AtRest
      /\ Len(alerts) = 0 /\ DOMAIN alerts = {}
      /\ Queued = {} /\ Returned = {} /\ Underway = {}
      /\ preferences = <<>> /\ DOMAIN preferences = {} /\ resolving = {}
      /\ valid = {} /\ submitted = {}
 BY DEF AlertsInit, AtRest, Underway, Queued, Returned
<1>2. AlertsShape /\ HighWaterArrived /\ SettingsAreFresh
 BY <1>1 DEF AlertsInit, AlertsShape, HighWaterArrived, SettingsAreFresh
<1>3. JobsInOrder
 <2>1. AtRest \in [alert : 0..0, posts : BOOLEAN]
  BY DEF AtRest
 <2> QED BY <1>1, <2>1 DEF JobsInOrder
<1>4. GroupsAreCurrent /\ GroupsAreNew /\ UnderwayAreGood /\ AlertedOnce
 BY <1>1 DEF AlertsInit, GroupsAreCurrent, GroupsAreNew, UnderwayAreGood, AlertedOnce
<1> QED BY <1>2, <1>3, <1>4 DEF AlertsInv

(* What the thread may still post says what the terminal knows, and no message is
   alerted twice (app/alerts.rs, notifications/delivery.rs): however removed, edits,
   reads, settings, accounts and the answers to requests of either interleave. *)
THEOREM AlertsAreGood == AlertsSpec => []AlertsHold
<1>1. AlertsInv => AlertsHold
 <2> SUFFICES ASSUME AlertsInv PROVE AlertsHold
  OBVIOUS
 <2>1. Queued \subseteq Underway
  BY DEF AlertsInv, JobsInOrder, Queued, Underway
 <2> QED BY <2>1 DEF AlertsInv, AlertsHold, QueuedAlertsAreGood, UnderwayAreGood, Queued
<1> QED BY AlertsBegin, AlertsStep, <1>1, PTL DEF AlertsSpec

\* The thread posts what it may, and only at that the terminal makes up for a failure.
LEMMA PostsStep ==
  ASSUME AlertsInv, AlertsNext
  PROVE  /\ (posting'.posts /\ ~posting.posts) => Good(posting'.alert)
         /\ (completions # <<>> /\ Fallback(Head(completions))) => Good(Head(completions).alert)
<1>0. /\ jobs \in Seq(1..Len(alerts)) /\ Len(alerts) \in Nat
      /\ completions \in Seq([alert : 0..Len(alerts), ok : BOOLEAN])
      /\ valid \subseteq 1..Len(alerts)
      /\ \A a \in valid \cap Underway : Good(a)
 BY DEF AlertsInv, AlertsShape, JobsInOrder, UnderwayAreGood
<1>1. ASSUME TakeJob, posting'.posts PROVE Good(posting'.alert)
 <2>1. Head(jobs) \in Queued /\ Head(jobs) # 0
  BY <1>0, <1>1 DEF TakeJob, Queued
 <2> QED BY <1>0, <1>1, <2>1 DEF TakeJob, Underway
<1>2. PostNative => ~posting'.posts
 BY DEF PostNative, AtRest
<1>3. UNCHANGED posting => (posting'.posts <=> posting.posts)
 OBVIOUS
<1>4. (posting'.posts /\ ~posting.posts) => Good(posting'.alert)
 <2>1. AlertsNext => TakeJob \/ PostNative \/ UNCHANGED posting
  BY DEF AlertsNext, GoesOnline, GoesOffline, NewMessage, MessageUpdated, MessagesDeleted, ReadUpTo,
     CacheInvalidated, SettingsChange, InvalidateAlertSettings, Resolves, AlertSettingsReady,
     RequestAlertSettings, SettingsExpire, TakeAlert, Turn, Delivered, SwitchAlerts,
     OnlyMessages, deliveryVars
 <2> QED BY <1>1, <1>2, <1>3, <2>1
<1>5. ASSUME completions # <<>>, Fallback(Head(completions)) PROVE Good(Head(completions).alert)
 <2>1. Head(completions).alert \in valid
  BY <1>5 DEF Fallback
 <2>2. Head(completions).alert \in Returned /\ Head(completions).alert # 0
  BY <1>0, <1>5, <2>1 DEF Returned
 <2> QED BY <1>0, <2>1, <2>2 DEF Underway
<1> QED BY <1>4, <1>5

(* OnlyGoodIsPosted, for any conversations, queue and accounts: an alert is good at the
   moment the thread picks it to post it, and at the moment the terminal makes up for a
   failure of the thread (notifications/delivery.rs), though what it says may be edited,
   read or deleted, its settings changed and its account left while it is queued. *)
THEOREM PostedAlertsAreGood == AlertsSpec => OnlyGoodIsPosted
<1>1. AlertsInv /\ [AlertsNext]_alertVars =>
        [/\ (posting'.posts /\ ~posting.posts) => Good(posting'.alert)
         /\ (completions # <<>> /\ Fallback(Head(completions)) /\ completions' = Tail(completions))
            => Good(Head(completions).alert)]_alertVars
 BY PostsStep
<1> QED BY AlertsBegin, AlertsStep, <1>1, PTL DEF AlertsSpec, OnlyGoodIsPosted

(* A group has no more messages than it may, and the channel no more alerts. *)
IsSmallGroup(group) == IsFiniteSet(group) /\ Cardinality(group) <= MaxGrouped
GroupsAreSmall == \A c \in Talk : IsSmallGroup(groups[c])
AlertsSmall == GroupsAreSmall /\ Len(jobs) <= MaxJobs

LEMMA SmallerGroup ==
  ASSUME NEW small, IsSmallGroup(small), NEW group, group \subseteq small
  PROVE  IsSmallGroup(group)
<1>1. /\ IsFiniteSet(group) /\ Cardinality(group) <= Cardinality(small)
      /\ Cardinality(group) \in Nat /\ Cardinality(small) \in Nat /\ MaxGrouped \in Nat
 BY FS_Subset, FS_CardinalityType, AlertsAssumption DEF IsSmallGroup
<1> QED BY <1>1 DEF IsSmallGroup

LEMMA EmptyIsSmallGroup == IsSmallGroup({})
BY FS_EmptySet, AlertsAssumption DEF IsSmallGroup

\* A message more is one too many only in a full group, which gives one up for it.
LEMMA FullGroupGivesUp ==
  ASSUME NEW group, IsSmallGroup(group), group \subseteq Item, NEW new,
         NEW kept, kept = IF Cardinality(group) = MaxGrouped
                          THEN {m \in group : m.id # Min(IdsOf(group))} ELSE group
  PROVE  IsSmallGroup(kept \cup {new})
<1>0. /\ IsFiniteSet(group) /\ Cardinality(group) \in Nat /\ Cardinality(group) <= MaxGrouped
      /\ MaxGrouped \in Nat \ {0}
 BY FS_CardinalityType, AlertsAssumption DEF IsSmallGroup
<1>1. IsFiniteSet(kept) /\ Cardinality(kept) \in Nat /\ Cardinality(kept) < MaxGrouped
 <2>1. CASE Cardinality(group) = MaxGrouped
  <3>1. group # {}
   BY <1>0, <2>1, FS_EmptySet
  <3>2. IdsOf(group) \in SUBSET Id /\ IdsOf(group) # {}
   BY <3>1 DEF IdsOf, Item
  <3>3. Min(IdsOf(group)) \in IdsOf(group)
   BY <3>2, LeastIdFound
  <3>4. PICK m \in group : m.id = Min(IdsOf(group))
   BY <3>3 DEF IdsOf
  <3>5. kept \subseteq group \ {m}
   BY <2>1, <3>4
  <3>6. IsFiniteSet(group \ {m}) /\ Cardinality(group \ {m}) = Cardinality(group) - 1
   BY <1>0, FS_RemoveElement
  <3>7. IsFiniteSet(kept) /\ Cardinality(kept) <= Cardinality(group) - 1
   BY <3>5, <3>6, FS_Subset
  <3>8. Cardinality(kept) \in Nat
   BY <3>7, FS_CardinalityType
  <3> QED BY <1>0, <2>1, <3>7, <3>8
 <2>2. CASE Cardinality(group) # MaxGrouped
  BY <1>0, <2>2
 <2> QED BY <2>1, <2>2
<1>2. IsFiniteSet(kept \cup {new}) /\ Cardinality(kept \cup {new}) <= Cardinality(kept) + 1
      /\ Cardinality(kept \cup {new}) \in Nat
 <2>1. /\ IsFiniteSet(kept \cup {new})
       /\ Cardinality(kept \cup {new}) =
            IF new \in kept THEN Cardinality(kept) ELSE Cardinality(kept) + 1
  BY <1>1, FS_AddElement
 <2>2. Cardinality(kept \cup {new}) \in Nat
  BY <2>1, FS_CardinalityType
 <2> QED BY <1>1, <2>1, <2>2
<1> QED BY <1>0, <1>1, <1>2 DEF IsSmallGroup

LEMMA GroupsStaySmall ==
  ASSUME AlertsInv, GroupsAreSmall, AlertsNext
  PROVE  GroupsAreSmall'
<1>0. groups \in [Talk -> SUBSET Item]
 BY DEF AlertsInv, AlertsShape
<1>1. ASSUME \A c \in Talk : groups'[c] \subseteq groups[c] PROVE GroupsAreSmall'
 BY <1>1, SmallerGroup DEF GroupsAreSmall
<1>2. ASSUME NEW c \in Talk, NEW id \in Id, NEW k \in Kind, NEW live \in BOOLEAN,
             NewMessage(c, id, k, live)
      PROVE  GroupsAreSmall'
 <2>1. CASE groups' = groups
  BY <1>1, <2>1
 <2>2. CASE groups' # groups
  <3>1. PICK new, kept :
          /\ kept = IF Cardinality(groups[c]) = MaxGrouped
                    THEN {m \in groups[c] : m.id # Min(IdsOf(groups[c]))} ELSE groups[c]
          /\ groups' = [groups EXCEPT ![c] = kept \cup {new}]
   BY <1>2, <2>2 DEF NewMessage, QueueAlert
  <3>2. IsSmallGroup(kept \cup {new})
   BY <1>0, <3>1, FullGroupGivesUp DEF GroupsAreSmall
  <3> QED BY <1>0, <3>1, <3>2 DEF GroupsAreSmall
 <2> QED BY <2>1, <2>2
<1>3. ASSUME NEW c \in Talk, NEW id \in Id, MessageUpdated(c, id) PROVE GroupsAreSmall'
 <2> DEFINE corrected(m) == IF m.id = id THEN [m EXCEPT !.text = text[<<c, id>>] + 1] ELSE m
 <2>1. groups' = [groups EXCEPT ![c] = {corrected(m) : m \in groups[c]}]
  BY <1>3 DEF MessageUpdated, Correct
 <2> HIDE DEF corrected
 <2>2. IsFiniteSet(groups[c]) /\ Cardinality(groups[c]) <= MaxGrouped
  BY DEF GroupsAreSmall, IsSmallGroup
 <2> DEFINE f == [m \in groups[c] |-> corrected(m)]
            image == {corrected(m) : m \in groups[c]}
 <2>3. f \in Surjection(groups[c], image)
  BY DEF Surjection
 <2> HIDE DEF f, image
 <2>4. IsFiniteSet(image) /\ Cardinality(image) <= Cardinality(groups[c])
  BY <2>2, <2>3, FS_Surjection
 <2>5. IsSmallGroup(image)
  <3>1. Cardinality(image) \in Nat /\ Cardinality(groups[c]) \in Nat /\ MaxGrouped \in Nat
   BY <2>2, <2>4, FS_CardinalityType, AlertsAssumption
  <3> QED BY <2>2, <2>4, <3>1 DEF IsSmallGroup
 <2> QED BY <1>0, <2>1, <2>5 DEF GroupsAreSmall, image
<1>4. CASE GoesOffline \/ SwitchAlerts
 BY <1>4, EmptyIsSmallGroup DEF GoesOffline, SwitchAlerts, CancelAlerts, GroupsAreSmall
<1>5. CASE \/ \E c \in Talk, id \in Id : MessagesDeleted(c, id) \/ ReadUpTo(c, id)
           \/ \E c \in Talk : CacheInvalidated(c)
 <2>1. PICK removed : RemoveMatching(removed)
  BY <1>5 DEF MessagesDeleted, ReadUpTo, CacheInvalidated
 <2> QED BY <1>1, <2>1 DEF RemoveMatching
<1>6. CASE RequestAlertSettings \/ Turn \/ \E k \in DOMAIN preferences : SettingsExpire(k)
 <2>1. Prune
  BY <1>6 DEF RequestAlertSettings, Turn, SettingsExpire
 <2> QED BY <1>1, <2>1 DEF Prune, Pruned
<1>7. ASSUME NEW c \in Talk, NEW drawn \in Drawn, TakeAlert(c, drawn) PROVE GroupsAreSmall'
 <2>1. groups' = [Pruned(drawn) EXCEPT ![c] = {}]
  BY <1>7 DEF TakeAlert
 <2> QED BY <1>1, <2>1 DEF Pruned
<1>8. CASE \/ GoesOnline \/ SettingsChange \/ InvalidateAlertSettings
           \/ TakeJob \/ PostNative \/ Delivered
           \/ \E r \in resolving : Resolves(r) \/ AlertSettingsReady(r)
 <2>1. groups' = groups
  BY <1>8 DEF GoesOnline, SettingsChange, InvalidateAlertSettings, TakeJob, PostNative,
     Delivered, Resolves, AlertSettingsReady, policyVars
 <2> QED BY <1>1, <2>1
<1> QED BY <1>2, <1>3, <1>4, <1>5, <1>6, <1>7, <1>8 DEF AlertsNext

LEMMA JobsStayFew ==
  ASSUME AlertsInv, Len(jobs) <= MaxJobs, AlertsNext
  PROVE  Len(jobs') <= MaxJobs
<1>0. jobs \in Seq(1..Len(alerts)) /\ Len(jobs) \in Nat /\ Len(alerts) \in Nat /\ MaxJobs \in Nat
 BY AlertsAssumption DEF AlertsInv, AlertsShape, JobsInOrder
<1>1. ASSUME NEW c \in Talk, NEW drawn \in Drawn, TakeAlert(c, drawn) PROVE Len(jobs') <= MaxJobs
 <2>1. \/ jobs' = jobs
       \/ Len(jobs) < MaxJobs /\ jobs' = Append(jobs, Len(alerts) + 1)
  BY <1>1 DEF TakeAlert
 <2>2. jobs \in Seq(Nat) /\ Len(alerts) + 1 \in Nat
  BY <1>0
 <2>3. Len(Append(jobs, Len(alerts) + 1)) = Len(jobs) + 1
  BY <2>2
 <2> QED BY <1>0, <2>1, <2>3
<1>2. CASE TakeJob
 <2>1. jobs # <<>> /\ jobs' = Tail(jobs)
  BY <1>2 DEF TakeJob
 <2>2. Len(Tail(jobs)) = Len(jobs) - 1
  BY <1>0, <2>1
 <2> QED BY <1>0, <2>1, <2>2
<1>3. AlertsNext => \/ TakeJob \/ jobs' = jobs
                    \/ \E c \in Talk, drawn \in Drawn : TakeAlert(c, drawn)
 BY DEF AlertsNext, GoesOnline, GoesOffline, NewMessage, MessageUpdated, MessagesDeleted, ReadUpTo,
    CacheInvalidated, SettingsChange, InvalidateAlertSettings, Resolves, AlertSettingsReady,
    RequestAlertSettings, SettingsExpire, Turn, PostNative, Delivered, SwitchAlerts,
    OnlyMessages, deliveryVars
<1> QED BY <1>1, <1>2, <1>3

LEMMA AlertsSmallBegin == AlertsInit => AlertsSmall
<1> SUFFICES ASSUME AlertsInit PROVE AlertsSmall
 OBVIOUS
<1>1. Len(jobs) <= MaxJobs
 BY AlertsAssumption DEF AlertsInit
<1> QED BY <1>1, EmptyIsSmallGroup DEF AlertsInit, AlertsSmall, GroupsAreSmall

LEMMA AlertsSmallKept == AlertsInv /\ AlertsSmall /\ [AlertsNext]_alertVars => AlertsSmall'
<1> SUFFICES ASSUME AlertsInv, AlertsSmall, [AlertsNext]_alertVars PROVE AlertsSmall'
 OBVIOUS
<1>1. CASE AlertsNext
 BY <1>1, GroupsStaySmall, JobsStayFew DEF AlertsSmall
<1>2. CASE UNCHANGED alertVars
 BY <1>2 DEF alertVars, policyVars, deliveryVars, AlertsSmall, GroupsAreSmall
<1> QED BY <1>1, <1>2

LEMMA AlertsTypeFollows == AlertsInv /\ AlertsSmall => AlertsType
<1> SUFFICES ASSUME AlertsInv, AlertsSmall PROVE AlertsType
 OBVIOUS
<1>1. alerts \in Seq(Alert) /\ DOMAIN alerts = 1..Len(alerts)
 BY DEF AlertsInv, AlertsShape
<1> QED BY <1>1 DEF AlertsInv, AlertsShape, AlertsSmall, GroupsAreSmall, IsSmallGroup, AlertsType

(* The state of the alerts has its type: no group has more messages than the terminal
   keeps of one (app/alerts.rs), and the channel of the thread no more alerts than it
   holds (notifications/delivery.rs). *)
THEOREM AlertsTypeCorrect == AlertsSpec => []AlertsType
<1>1. AlertsInit => AlertsInv /\ AlertsSmall
 BY AlertsBegin, AlertsSmallBegin
<1>2. AlertsInv /\ AlertsSmall /\ [AlertsNext]_alertVars => AlertsInv' /\ AlertsSmall'
 BY AlertsStep, AlertsSmallKept
<1> QED BY <1>1, <1>2, AlertsTypeFollows, PTL DEF AlertsSpec

-------------------------------------------------------------------------------
(* Searching. *)

Asking == {"local", "cloud"} \X Query \X (1..MaxPages)
HitLists == {<<>>} \cup UNION {[S -> 1..MaxVersion] : S \in SUBSET Hit}
SearchCommands ==
    [kind : {"local", "cloud", "context", "cloudContext", "cancel"}, request : Nat,
     asked : Asking \cup {<<>>}, target : Hit \cup {NoHit}]
SearchEvents ==
    [kind : {"local", "cloud", "context", "failed", "change", "loading", "cancelled",
             "invalidated"},
     request : Nat, asked : Asking \cup {<<>>}, target : Hit \cup {NoHit}, hits : HitLists,
     version : 0..Erased]
ScanJobs ==
    [request : Nat, asked : Asking \cup {<<>>}, cancelled : BOOLEAN, hits : HitLists,
     read : BOOLEAN]

(* The shape of the state. *)
PanelShape ==
    /\ panel \in [open : BOOLEAN, source : {"local", "cloud"}, query : Query,
                  position : 1..MaxPages, request : Nat, loading : BOOLEAN,
                  target : Hit \cup {NoHit}]
    /\ page \in [asked : Asking \cup {<<>>}, hits : HitLists]

CommandsShape ==
    /\ toLocal \in Seq(SearchCommands)
    /\ waiting \in Seq(SearchCommands) /\ Len(waiting) <= 1
    /\ \A i \in 1..Len(waiting) : waiting[i].kind \in {"cloud", "cloudContext", "cancel"}

EventIsWhole(e) == e.kind = "change" => e.target \in Hit /\ e.version >= 1
AreWhole(q) == q \in Seq(SearchEvents) /\ \A i \in 1..Len(q) : EventIsWhole(q[i])
EventsShape ==
    /\ AreWhole(toTerminal) /\ AreWhole(stream) /\ AreWhole(pushed)
    /\ \A i \in 1..Len(pushed) : pushed[i].kind = "change"

RestShape ==
    /\ scans \in [job : ScanJobs, queued : ScanJobs]
    /\ ~scans.queued.cancelled
    /\ rows \in Listed /\ told \in Listed /\ server \in Listed /\ knows \in Listed
    /\ cloud \in [request : Nat, changed : SUBSET Hit]
    /\ \A m \in cloud.changed : told[m] # 0
    /\ flight \in [request : Nat, asked : Asking \cup {<<>>}, target : Hit \cup {NoHit},
                   hits : HitLists, read : BOOLEAN]
    /\ gapsFound \in Nat

SearchShape == PanelShape /\ CommandsShape /\ EventsShape /\ RestShape

(* Whatever carries the number of the search that the panel asked for last carries
   what it asks, too. *)
AskedBy(p) == <<p.source, p.query, p.position>>
AskedFor(p, request, asked) ==
    request <= p.request /\ (request = p.request => asked = AskedBy(p))
TargetFor(p, request, target) ==
    request = p.request /\ p.loading => target = p.target

CommandIsRight(p, c) ==
    c.kind # "cancel" =>
        /\ c.request >= 1 /\ c.asked \in Asking
        /\ AskedFor(p, c.request, c.asked) /\ TargetFor(p, c.request, c.target)
        /\ c.kind \in {"local", "cloud"} => c.asked[1] = c.kind /\ c.target = NoHit
        /\ c.kind \in {"context", "cloudContext"} => c.target \in Hit

JobIsRight(p, j) ==
    j # NoJob =>
        j.request >= 1 /\ j.asked \in Asking /\ AskedFor(p, j.request, j.asked) /\ j.asked[1] = "local"

FlightIsRight(p, f) ==
    f # NoFlight =>
        /\ f.request >= 1 /\ f.asked \in Asking
        /\ AskedFor(p, f.request, f.asked) /\ TargetFor(p, f.request, f.target)
        /\ f.target = NoHit => f.asked[1] = "cloud"

EventIsRight(p, e) ==
    /\ e.kind \in {"local", "cloud"} =>
        e.asked \in Asking /\ AskedFor(p, e.request, e.asked) /\ e.asked[1] = e.kind
    /\ e.kind = "context" => e.request <= p.request /\ TargetFor(p, e.request, e.target)
    /\ e.kind \in {"cloud", "context"} => e.request >= 1

AllAreRight ==
    /\ page = NoPage \/ page.asked = AskedBy(panel)
    /\ \A i \in 1..Len(toLocal) : CommandIsRight(panel, toLocal[i])
    /\ \A i \in 1..Len(waiting) : CommandIsRight(panel, waiting[i])
    /\ JobIsRight(panel, scans.job) /\ JobIsRight(panel, scans.queued)
    /\ FlightIsRight(panel, flight)
    /\ \A i \in 1..Len(stream) : EventIsRight(panel, stream[i])
    /\ \A i \in 1..Len(toTerminal) : EventIsRight(panel, toTerminal[i])

(* A search under way is the last command, or where that command led. *)
AnswersSearch(e, request) ==
    e.request = request /\ e.kind \in {"local", "cloud", "context", "failed"}
AnswerComes(q, request) == \E i \in 1..Len(q) : AnswersSearch(q[i], request)

IsUnderWay ==
    \/ \E i \in 1..Len(waiting) : waiting[i].request = panel.request /\ Cloudy(waiting[i])
    \/ flight # NoFlight /\ flight.request = panel.request /\ waiting = <<>>
    \/ AnswerComes(stream, panel.request)
    \/ AnswerComes(toTerminal, panel.request)
    \/ scans.queued.request = panel.request
    \/ scans.job.request = panel.request /\ ~scans.job.cancelled

ServedInOrder ==
    panel.loading =>
        /\ panel.open /\ panel.request >= 1
        /\ IF toLocal # <<>>
           THEN /\ toLocal[Len(toLocal)].request = panel.request
                /\ toLocal[Len(toLocal)].kind # "cancel"
           ELSE IsUnderWay

(* Versions of a message arrive in order on their way from the server to the panel.
   `k` is what the terminal knows, `q` what is told to it. *)
IsChange(e, m) == e.kind = "change" /\ e.target = m
Below(k, q, m, v) ==
    /\ k[m] <= v
    /\ \A j \in 1..Len(q) : IsChange(q[j], m) => q[j].version <= v
InTurn(q, m) ==
    \A i, j \in 1..Len(q) :
        i < j /\ IsChange(q[i], m) /\ IsChange(q[j], m) => q[i].version <= q[j].version

Ordered(k, q, s, p, v, m) ==
    /\ Below(k, q, m, v)
    /\ InTurn(s, m) /\ InTurn(p, m)
    /\ \A j \in 1..Len(s) : IsChange(s[j], m) => s[j].version <= v /\ Below(k, q, m, s[j].version)
    /\ \A j \in 1..Len(p) : IsChange(p[j], m) =>
        /\ p[j].version <= v /\ Below(k, q, m, p[j].version)
        /\ \A i \in 1..Len(s) : IsChange(s[i], m) => s[i].version <= p[j].version

VersionsInOrder == \A m \in Hit : Ordered(knows, toTerminal, stream, pushed, server[m], m)

(* What the local worker tells of a message is nothing, or the last that it told. *)
ToldIsLast == \A m \in Hit : told[m] = 0 \/ Below(knows, toTerminal, m, told[m])

(* An answer that comes at `p` in the stream `s` was read after all that was told before
   its search began; what was told since is in the changes of the search, `c`. *)
Loads(e, request) == e.kind = "loading" /\ e.request = request
ReadInTime(k, q, s, c, p, request, hits) ==
    \A m \in DOMAIN hits :
        /\ \A l \in 1..Len(s) : l < p /\ Loads(s[l], request) =>
            /\ Below(k, q, m, hits[m])
            /\ \A j \in 1..Len(s) : j < l /\ IsChange(s[j], m) => s[j].version <= hits[m]
        /\ (\A l \in 1..Len(s) : l < p => ~Loads(s[l], request)) =>
            c.request # request \/ m \in c.changed \/ Below(k, q, m, hits[m])

IsAnswer(e) == e.kind \in {"cloud", "context"}
AnswersInTime ==
    /\ flight.read =>
        ReadInTime(knows, toTerminal, stream, cloud, Len(stream) + 1, flight.request, flight.hits)
    /\ \A p \in 1..Len(stream) : IsAnswer(stream[p]) =>
        ReadInTime(knows, toTerminal, stream, cloud, p, stream[p].request, stream[p].hits)

(* The hits that the terminal is sent are no older than what it was told before. *)
HitsAreCurrent(k, q, i) ==
    \A m \in DOMAIN q[i].hits :
        /\ k[m] <= q[i].hits[m]
        /\ \A j \in 1..Len(q) : j < i /\ IsChange(q[j], m) => q[j].version <= q[i].hits[m]

AllShown(k, q) == \A i \in 1..Len(q) : IsAnswer(q[i]) => HitsAreCurrent(k, q, i)
ShownInTime == AllShown(knows, toTerminal) /\ CloudHitsAreCurrent

SearchInv ==
    /\ SearchShape /\ AllAreRight /\ ServedInOrder
    /\ VersionsInOrder /\ ToldIsLast /\ AnswersInTime /\ ShownInTime

LEMMA AppendedFacts ==
  ASSUME NEW S, NEW q \in Seq(S), NEW e \in S
  PROVE  /\ Append(q, e) \in Seq(S) /\ Len(q) \in Nat /\ Len(Append(q, e)) = Len(q) + 1
         /\ \A i \in 1..Len(q) : Append(q, e)[i] = q[i]
         /\ Append(q, e)[Len(q) + 1] = e
         /\ \A i \in 1..Len(q) + 1 : i \in 1..Len(q) \/ i = Len(q) + 1
         /\ Append(q, e) # <<>>
<1>1. Append(q, e) \in Seq(S) /\ Len(q) \in Nat /\ Len(Append(q, e)) = Len(q) + 1
 OBVIOUS
<1>2. \A i \in 1..Len(q) : Append(q, e)[i] = q[i]
 OBVIOUS
<1>3. Append(q, e)[Len(q) + 1] = e
 OBVIOUS
<1>4. \A i \in 1..Len(q) + 1 : i \in 1..Len(q) \/ i = Len(q) + 1
 OBVIOUS
<1>5. Append(q, e) # <<>>
 BY <1>1
<1> QED BY <1>1, <1>2, <1>3, <1>4, <1>5

LEMMA ElementFacts ==
  ASSUME NEW S, NEW q \in Seq(S)
  PROVE  /\ Len(q) \in Nat
         /\ \A i \in 1..Len(q) : q[i] \in S
         /\ q # <<>> <=> Len(q) >= 1
         /\ q # <<>> => Len(q) \in 1..Len(q)
OBVIOUS

LEMMA ShiftedFacts ==
  ASSUME NEW S, NEW q \in Seq(S), q # <<>>
  PROVE  /\ Tail(q) \in Seq(S) /\ Len(q) \in Nat /\ Len(q) >= 1
         /\ Len(Tail(q)) = Len(q) - 1 /\ Head(q) = q[1] /\ Head(q) \in S
         /\ \A i \in 1..Len(q) - 1 : Tail(q)[i] = q[i + 1] /\ i + 1 \in 1..Len(q)
         /\ 1 \in 1..Len(q)
         /\ Len(q) = 1 => Tail(q) = <<>>
<1>1. Tail(q) \in Seq(S) /\ Len(q) \in Nat /\ Len(q) >= 1 /\ Len(Tail(q)) = Len(q) - 1
 OBVIOUS
<1>2. 1 \in 1..Len(q) /\ Head(q) = q[1] /\ Head(q) \in S
 BY <1>1
<1>3. \A i \in 1..Len(q) - 1 : Tail(q)[i] = q[i + 1] /\ i + 1 \in 1..Len(q)
 BY <1>1
<1>4. Len(q) = 1 => Tail(q) = <<>>
 <2>1. Len(q) = 1 => ~ (Len(Tail(q)) >= 1)
  BY <1>1
 <2> QED BY <1>1, <2>1, ElementFacts
<1> QED BY <1>1, <1>2, <1>3, <1>4

LEMMA HitListFacts ==
  /\ <<>> \in HitLists
  /\ \A h \in HitLists : DOMAIN h \subseteq Hit /\ \A m \in DOMAIN h : h[m] \in 1..MaxVersion
  /\ \A versions \in Listed :
      /\ Messages(versions) \in HitLists
      /\ \A m \in DOMAIN Messages(versions) :
          m \in Hit /\ versions[m] \in 1..MaxVersion /\ Messages(versions)[m] = versions[m]
<1>1. <<>> \in HitLists
 BY DEF HitLists
<1>2. \A h \in HitLists : DOMAIN h \subseteq Hit /\ \A m \in DOMAIN h : h[m] \in 1..MaxVersion
 BY DEF HitLists
<1>3. ASSUME NEW versions \in Listed
      PROVE  /\ Messages(versions) \in HitLists
             /\ \A m \in DOMAIN Messages(versions) :
                m \in Hit /\ versions[m] \in 1..MaxVersion /\ Messages(versions)[m] = versions[m]
 <2> DEFINE S == {h \in Hit : versions[h] \in 1..MaxVersion}
 <2>1. Messages(versions) = [m \in S |-> versions[m]] /\ S \in SUBSET Hit
  BY DEF Messages
 <2>2. Messages(versions) \in [S -> 1..MaxVersion]
  BY <2>1
 <2>3. Messages(versions) \in HitLists
  BY <2>1, <2>2 DEF HitLists
 <2> QED BY <2>1, <2>3
<1> QED BY <1>1, <1>2, <1>3

-------------------------------------------------------------------------------
PanelAsks == Submit \/ Turns \/ SubmitOffline \/ EditQuery \/ CloseSearch \/ OpenHit

(* What a command of the panel carries. *)
Carries(c, p) ==
    /\ c \in SearchCommands /\ c.request = p.request
    /\ c.kind # "cancel" =>
        /\ c.asked = <<p.source, p.query, p.position>> /\ c.target = p.target
        /\ c.kind \in {"local", "cloud"} => c.kind = p.source /\ c.target = NoHit
        /\ c.kind \in {"context", "cloudContext"} => c.target \in Hit
    /\ p.loading => c.kind # "cancel" /\ p.open

LEMMA AsksCarries ==
  ASSUME SearchShape, NEW next, NEW command, Asks(next, command),
         next \in [open : BOOLEAN, source : {"local", "cloud"}, query : Query,
                   position : 1..MaxPages, request : Nat, loading : BOOLEAN,
                   target : Hit \cup {NoHit}],
         Carries([command EXCEPT !.request = next.request], next), command \in SearchCommands
  PROVE  /\ panel'.request = panel.request + 1
         /\ panel' = [next EXCEPT !.request = panel.request + 1]
         /\ panel' \in [open : BOOLEAN, source : {"local", "cloud"}, query : Query,
                   position : 1..MaxPages, request : Nat, loading : BOOLEAN,
                   target : Hit \cup {NoHit}]
         /\ \E c : Carries(c, panel') /\ toLocal' = Append(toLocal, c)
         /\ UNCHANGED <<toTerminal, waiting, scans, rows, told, cloud, networkVars, knows, gapsFound>>
<1>1. panel.request + 1 \in Nat
 BY DEF SearchShape, PanelShape
<1>2. panel' = [next EXCEPT !.request = panel.request + 1]
 BY DEF Asks
<1>3. panel' \in [open : BOOLEAN, source : {"local", "cloud"}, query : Query,
                     position : 1..MaxPages, request : Nat, loading : BOOLEAN,
                     target : Hit \cup {NoHit}]
 BY <1>1, <1>2
<1>4. Carries([command EXCEPT !.request = panel.request + 1], panel')
 BY <1>1, <1>2, <1>3 DEF Carries, SearchCommands
<1> QED BY <1>1, <1>2, <1>3, <1>4 DEF Asks

LEMMA CancellingCarries ==
  ASSUME NEW p \in [open : BOOLEAN, source : {"local", "cloud"}, query : Query,
                   position : 1..MaxPages, request : Nat, loading : BOOLEAN,
                   target : Hit \cup {NoHit}], ~p.loading
  PROVE  Carries([Cancelling EXCEPT !.request = p.request], p) /\ Cancelling \in SearchCommands
BY DEF Carries, Cancelling, Command, SearchCommands

LEMMA PanelAsksFacts ==
  ASSUME SearchShape, PanelAsks
  PROVE  /\ panel'.request = panel.request + 1
         /\ PanelShape'
         /\ \E c : Carries(c, panel') /\ toLocal' = Append(toLocal, c)
         /\ \/ page' = NoPage
            \/ page' = page /\ Asked' = Asked
         /\ UNCHANGED <<toTerminal, waiting, scans, rows, told, cloud, networkVars, knows, gapsFound>>
<1> DEFINE Panels == [open : BOOLEAN, source : {"local", "cloud"}, query : Query,
                     position : 1..MaxPages, request : Nat, loading : BOOLEAN,
                     target : Hit \cup {NoHit}]
<1>0. panel \in Panels /\ page \in [asked : Asking \cup {<<>>}, hits : HitLists] /\ 1 \in 1..MaxPages
 BY SearchAssumption DEF SearchShape, PanelShape
<1>1. NoPage \in [asked : Asking \cup {<<>>}, hits : HitLists]
 BY HitListFacts DEF NoPage
<1>2. ASSUME NEW next \in Panels, Submits(next), next.request = panel.request
      PROVE  /\ panel'.request = panel.request + 1 /\ panel' \in Panels /\ page' = NoPage
             /\ \E c : Carries(c, panel') /\ toLocal' = Append(toLocal, c)
             /\ UNCHANGED <<toTerminal, waiting, scans, rows, told, cloud, networkVars, knows, gapsFound>>
 <2> DEFINE opened == [next EXCEPT !.open = TRUE, !.loading = TRUE, !.target = NoHit]
            command == Command(next.source, 0, <<next.source, next.query, next.position>>, NoHit)
 <2>1. opened \in Panels /\ Asks(opened, command) /\ page' = NoPage
  BY <1>2 DEF Submits
 <2>2. <<next.source, next.query, next.position>> \in Asking
  BY DEF Asking
 <2>3. command \in SearchCommands
  BY <2>2 DEF Command, SearchCommands
 <2>4. Carries([command EXCEPT !.request = opened.request], opened)
  BY <2>1, <2>2, <2>3 DEF Command, SearchCommands, Carries
 <2> HIDE DEF opened, command
 <2> QED BY <2>1, <2>3, <2>4, AsksCarries
<1>3. CASE Submit
 <2>1. PICK source \in {"local", "cloud"}, query \in Query :
         Submits([panel EXCEPT !.source = source, !.query = query, !.position = 1])
  BY <1>3 DEF Submit
 <2>2. [panel EXCEPT !.source = source, !.query = query, !.position = 1] \in Panels
  BY <1>0
 <2>3. [panel EXCEPT !.source = source, !.query = query, !.position = 1].request = panel.request
  BY <1>0
 <2> QED BY <2>1, <2>2, <2>3, <1>1, <1>2 DEF PanelShape
<1>4. CASE Turns
 <2>1. PICK position \in 1..MaxPages : Submits([panel EXCEPT !.position = position])
  BY <1>4 DEF Turns
 <2>2. [panel EXCEPT !.position = position] \in Panels
  BY <1>0
 <2>3. [panel EXCEPT !.position = position].request = panel.request
  BY <1>0
 <2> QED BY <2>1, <2>2, <2>3, <1>1, <1>2 DEF PanelShape
<1>5. ASSUME NEW next \in Panels, Asks(next, Cancelling), ~next.loading
      PROVE  /\ panel'.request = panel.request + 1 /\ panel' \in Panels
             /\ panel' = [next EXCEPT !.request = panel.request + 1]
             /\ \E c : Carries(c, panel') /\ toLocal' = Append(toLocal, c)
             /\ UNCHANGED <<toTerminal, waiting, scans, rows, told, cloud, networkVars, knows, gapsFound>>
 BY <1>5, CancellingCarries, AsksCarries
<1>6. CASE SubmitOffline
 <2>1. PICK query \in Query :
         Asks([panel EXCEPT !.open = TRUE, !.source = "cloud", !.query = query,
                         !.position = 1, !.loading = FALSE, !.target = NoHit], Cancelling)
  BY <1>6 DEF SubmitOffline
 <2> DEFINE next == [panel EXCEPT !.open = TRUE, !.source = "cloud", !.query = query,
                         !.position = 1, !.loading = FALSE, !.target = NoHit]
 <2>2. next \in Panels /\ ~next.loading
  BY <1>0
 <2>3. page' = NoPage
  BY <1>6 DEF SubmitOffline
 <2> QED BY <2>1, <2>2, <2>3, <1>1, <1>5 DEF PanelShape
<1>7. CASE EditQuery
 <2>1. PICK query \in Query : Asks([panel EXCEPT !.query = query, !.loading = FALSE], Cancelling)
  BY <1>7 DEF EditQuery
 <2> DEFINE next == [panel EXCEPT !.query = query, !.loading = FALSE]
 <2>2. next \in Panels /\ ~next.loading
  BY <1>0
 <2>3. page' = NoPage
  BY <1>7 DEF EditQuery
 <2> QED BY <2>1, <2>2, <2>3, <1>1, <1>5 DEF PanelShape
<1>8. CASE CloseSearch
 <2> DEFINE next == [panel EXCEPT !.open = FALSE, !.loading = FALSE]
 <2>1. next \in Panels /\ ~next.loading /\ Asks(next, Cancelling) /\ page' = page
  BY <1>0, <1>8 DEF CloseSearch
 <2>2. Asked' = Asked
  <3>1. panel' = [next EXCEPT !.request = panel.request + 1]
   BY <2>1, <1>5
  <3> QED BY <1>0, <3>1 DEF Asked
 <2> QED BY <2>1, <2>2, <1>0, <1>5 DEF PanelShape
<1>9. CASE OpenHit
 <2>1. PICK hit \in DOMAIN page.hits :
         Asks([panel EXCEPT !.loading = TRUE, !.target = hit],
           Command(IF panel.source = "cloud" THEN "cloudContext" ELSE "context", 0, Asked, hit))
  BY <1>9 DEF OpenHit
 <2> DEFINE next == [panel EXCEPT !.loading = TRUE, !.target = hit]
            command == Command(IF panel.source = "cloud" THEN "cloudContext" ELSE "context", 0,
                               Asked, hit)
 <2>2. hit \in Hit /\ page' = page /\ panel.open
  BY <1>0, <1>9, HitListFacts DEF OpenHit
 <2>3. next \in Panels /\ Asked \in Asking
  BY <1>0, <2>2 DEF Asked, Asking
 <2>4. command \in SearchCommands
  BY <2>2, <2>3 DEF Command, SearchCommands
 <2>5. Carries([command EXCEPT !.request = next.request], next)
  BY <1>0, <2>2, <2>3, <2>4 DEF Command, SearchCommands, Carries, Asked
 <2>6. /\ panel'.request = panel.request + 1 /\ panel' \in Panels
       /\ panel' = [next EXCEPT !.request = panel.request + 1]
       /\ \E c : Carries(c, panel') /\ toLocal' = Append(toLocal, c)
       /\ UNCHANGED <<toTerminal, waiting, scans, rows, told, cloud, networkVars, knows, gapsFound>>
  <3> HIDE DEF next, command
  <3>1. Asks(next, command)
   BY <2>1 DEF next, command
  <3> QED BY <2>3, <2>4, <2>5, <3>1, AsksCarries
 <2>7. Asked' = Asked
  BY <1>0, <2>6 DEF Asked
 <2> QED BY <2>2, <2>6, <2>7, <1>0 DEF PanelShape
<1> QED BY <1>3, <1>4, <1>6, <1>7, <1>8, <1>9 DEF PanelAsks

-------------------------------------------------------------------------------
(* The shape is kept. *)
EventKinds == {"local", "cloud", "context", "failed", "change", "loading", "cancelled", "invalidated"}

LEMMA SearchEventFacts ==
  \A kind \in EventKinds, request \in Nat, asked \in Asking \cup {<<>>},
     target \in Hit \cup {NoHit}, hits \in HitLists :
      /\ Event(kind, request, asked, target, hits) \in SearchEvents
      /\ Event(kind, request, asked, target, hits).kind = kind
      /\ Event(kind, request, asked, target, hits).request = request
      /\ Event(kind, request, asked, target, hits).asked = asked
      /\ Event(kind, request, asked, target, hits).target = target
      /\ Event(kind, request, asked, target, hits).hits = hits
<1> TAKE kind \in EventKinds, request \in Nat, asked \in Asking \cup {<<>>},
         target \in Hit \cup {NoHit}, hits \in HitLists
<1>1. 0 \in 0..Erased
 BY SearchAssumption DEF Erased
<1> QED BY <1>1 DEF Event, SearchEvents, EventKinds

(* What has no hits and no target. *)
LEMMA PlainEventFacts ==
  \A kind \in EventKinds, request \in Nat :
      /\ Event(kind, request, <<>>, NoHit, <<>>) \in SearchEvents
      /\ Event(kind, request, <<>>, NoHit, <<>>).kind = kind
      /\ Event(kind, request, <<>>, NoHit, <<>>).request = request
      /\ Event(kind, request, <<>>, NoHit, <<>>).hits = <<>>
<1> TAKE kind \in EventKinds, request \in Nat
<1>1. <<>> \in HitLists /\ NoHit \in Hit \cup {NoHit} /\ <<>> \in Asking \cup {<<>>} /\ 0 \in 0..Erased
 BY HitListFacts, SearchAssumption DEF Erased
<1> QED BY <1>1 DEF Event, SearchEvents, EventKinds

LEMMA ChangeEventFacts ==
  \A m \in Hit, v \in 0..Erased :
      LET e == [Event("change", 0, <<>>, m, <<>>) EXCEPT !.version = v]
      IN  e \in SearchEvents /\ e.kind = "change" /\ e.target = m /\ e.version = v
<1> TAKE m \in Hit, v \in 0..Erased
<1>1. 0 \in 0..Erased /\ <<>> \in HitLists
 BY SearchAssumption, HitListFacts DEF Erased
<1> QED BY <1>1 DEF Event, SearchEvents

LEMMA HandledKeepsShape ==
  ASSUME SearchShape, HandleSearchEvent
  PROVE  /\ PanelShape' /\ knows' \in Listed
         /\ toTerminal # <<>> /\ toTerminal' = Tail(toTerminal)
         /\ Asked' = Asked
<1>0. /\ PanelShape /\ knows \in Listed /\ toTerminal # <<>> /\ toTerminal \in Seq(SearchEvents)
      /\ toTerminal' = Tail(toTerminal)
 BY DEF SearchShape, RestShape, EventsShape, AreWhole, HandleSearchEvent
<1> DEFINE e == Head(toTerminal)
<1>1. /\ e \in SearchEvents
      /\ e.kind = "change" => e.target \in Hit /\ e.version \in 1..Erased
 <2>1. e = toTerminal[1] /\ 1 \in 1..Len(toTerminal) /\ e \in SearchEvents
  BY <1>0, ShiftedFacts
 <2>2. e.version \in 0..Erased
  BY <2>1 DEF SearchEvents
 <2> QED BY <2>1, <2>2, SearchAssumption DEF SearchShape, EventsShape, AreWhole, EventIsWhole, Erased
<1>2. \/ SearchResults(e) \/ SearchFailed(e) \/ OpenSearchContext(e)
      \/ ObserveChange(e) \/ ObserveInvalidation(e)
 BY DEF HandleSearchEvent
<1> HIDE DEF e
<1>3. CASE SearchResults(e)
 <2>1. e.asked \in Asking \cup {<<>>} /\ e.hits \in HitLists
  BY <1>1 DEF SearchEvents
 <2>2. CASE Finishes(e)
  <3>1. /\ panel' = [panel EXCEPT !.loading = FALSE] /\ knows' = knows
        /\ page' = [asked |-> e.asked, hits |-> e.hits]
   BY <1>3, <2>2 DEF SearchResults
  <3>2. page' \in [asked : Asking \cup {<<>>}, hits : HitLists]
   BY <2>1, <3>1
  <3> QED BY <1>0, <3>1, <3>2 DEF PanelShape, Asked
 <2>3. CASE ~Finishes(e)
  BY <1>0, <1>3, <2>3 DEF SearchResults, PanelShape, Asked, panelVars
 <2> QED BY <2>2, <2>3
<1>4. CASE SearchFailed(e)
 BY <1>0, <1>4 DEF SearchFailed, PanelShape, Asked
<1>5. CASE OpenSearchContext(e)
 BY <1>0, <1>5 DEF OpenSearchContext, PanelShape, Asked
<1>6. CASE ObserveChange(e)
 <2>1. e.target \in Hit /\ e.version \in 1..Erased
  BY <1>1, <1>6 DEF ObserveChange
 <2>2. knows' \in Listed
  BY <1>0, <1>6, <2>1 DEF ObserveChange, Listed
 <2>3. page'.hits \in HitLists /\ page' = [page EXCEPT !.hits = page'.hits]
  <3>1. page.hits \in HitLists /\ page' = FollowChange(e)
   BY <1>0, <1>6 DEF PanelShape, ObserveChange
  <3>2. CASE e.target \notin DOMAIN page.hits
   BY <1>0, <3>1, <3>2 DEF FollowChange, PanelShape
  <3>3. CASE e.target \in DOMAIN page.hits /\ e.version = Erased
   <4> DEFINE S == DOMAIN page.hits \ {e.target}
              h == [m \in S |-> page.hits[m]]
   <4>1. S \in SUBSET Hit /\ h \in [S -> 1..MaxVersion]
    BY <3>1, HitListFacts
   <4>2. h \in HitLists
    BY <4>1 DEF HitLists
   <4>3. page' = [page EXCEPT !.hits = h]
    BY <3>1, <3>3 DEF FollowChange
   <4> HIDE DEF h
   <4> QED BY <1>0, <4>2, <4>3 DEF PanelShape
  <3>4. CASE e.target \in DOMAIN page.hits /\ e.version # Erased
   <4> DEFINE h == [page.hits EXCEPT ![e.target] = e.version]
   <4>1. e.version \in 1..MaxVersion
    BY <2>1, <3>4, SearchAssumption DEF Erased
   <4>2. DOMAIN page.hits \in SUBSET Hit /\ page.hits \in [DOMAIN page.hits -> 1..MaxVersion]
    <5>1. DOMAIN <<>> = {}
     OBVIOUS
    <5>2. page.hits # <<>>
     BY <3>4, <5>1
    <5> QED BY <3>1, <5>2, HitListFacts DEF HitLists
   <4>3. h \in [DOMAIN page.hits -> 1..MaxVersion]
    BY <4>1, <4>2
   <4>4. h \in HitLists
    BY <4>2, <4>3 DEF HitLists
   <4>5. page' = [page EXCEPT !.hits = h]
    BY <1>0, <3>1, <3>4 DEF FollowChange, PanelShape
   <4> HIDE DEF h
   <4> QED BY <1>0, <4>4, <4>5 DEF PanelShape
  <3> QED BY <3>2, <3>3, <3>4
 <2>4. page' \in [asked : Asking \cup {<<>>}, hits : HitLists]
  BY <1>0, <2>3 DEF PanelShape
 <2>5. panel' = panel
  BY <1>6 DEF ObserveChange
 <2> QED BY <1>0, <2>2, <2>4, <2>5 DEF PanelShape, Asked
<1>7. CASE ObserveInvalidation(e)
 <2>1. NoPage \in [asked : Asking \cup {<<>>}, hits : HitLists]
  BY HitListFacts DEF NoPage
 <2>2. /\ panel' = [panel EXCEPT !.request = @ + 1, !.loading = FALSE, !.target = NoHit]
       /\ page' = NoPage /\ knows' = knows
  BY <1>7 DEF ObserveInvalidation
 <2>3. panel' \in [open : BOOLEAN, source : {"local", "cloud"}, query : Query,
                     position : 1..MaxPages, request : Nat, loading : BOOLEAN,
                     target : Hit \cup {NoHit}]
  <3> DEFINE n == panel.request + 1
  <3>1. n \in Nat /\ panel' = [panel EXCEPT !.request = n, !.loading = FALSE, !.target = NoHit]
   BY <1>0, <2>2 DEF PanelShape
  <3> HIDE DEF n
  <3> QED BY <1>0, <3>1 DEF PanelShape
 <2>4. Asked' = Asked
  BY <1>0, <2>2 DEF PanelShape, Asked
 <2> QED BY <1>0, <2>1, <2>2, <2>3, <2>4 DEF PanelShape
<1> QED BY <1>0, <1>2, <1>3, <1>4, <1>5, <1>6, <1>7

(* What the local worker does with a command. *)
LEMMA TakenFacts ==
  ASSUME SearchShape, TakeSearchCommand
  PROVE  LET c == Head(toLocal)
         IN  /\ toLocal # <<>> /\ toLocal' = Tail(toLocal) /\ c \in SearchCommands
             /\ \/ waiting' = waiting /\ c.kind = "context"
                \/ waiting' = <<>> /\ c.kind # "context" /\ c.kind # "local"
                \/ waiting' = <<c>> /\ c.kind \in {"cloud", "cloudContext", "cancel"}
                \/ waiting' = <<Cancelling>> /\ c.kind = "local"
             /\ \/ toTerminal' = toTerminal
                \/ /\ toTerminal' = Append(toTerminal, Event("failed", c.request, <<>>, NoHit, <<>>))
                   /\ c.kind # "context"
                \/ /\ toTerminal' = Append(toTerminal, Event("context", c.request, <<>>, c.target,
                                                           Messages(told)))
                   /\ c.kind = "context"
             /\ c.kind = "context" => toTerminal' # toTerminal
             /\ waiting' = <<>> /\ Cloudy(c) => toTerminal' # toTerminal
             /\ \/ scans' = scans /\ c.kind = "context"
                \/ scans' = CancelScan /\ c.kind # "context" /\ c.kind # "local"
                \/ scans' = Queue(c) /\ c.kind = "local"
             /\ rows' \in {rows, told}
             /\ UNCHANGED <<panelVars, told, cloud, networkVars, knows, gapsFound>>
<1> DEFINE c == Head(toLocal)
<1>1. /\ toLocal # <<>> /\ toLocal' = Tail(toLocal) /\ c \in SearchCommands
      /\ UNCHANGED <<panelVars, told, cloud, networkVars, knows, gapsFound>>
 BY ShiftedFacts DEF TakeSearchCommand, SearchShape, CommandsShape
<1>2. c.kind \in {"local", "cloud", "context", "cloudContext", "cancel"} /\ c.request \in Nat
      /\ c.target \in Hit \cup {NoHit}
 BY <1>1 DEF SearchCommands
<1>3. \A e \in SearchEvents : Append(toTerminal, e) # toTerminal
 <2> TAKE e \in SearchEvents
 <2>1. Len(Append(toTerminal, e)) = Len(toTerminal) + 1 /\ Len(toTerminal) \in Nat
  BY AppendedFacts DEF SearchShape, EventsShape, AreWhole
 <2> QED BY <2>1
<1>9. <<>> \in Asking \cup {<<>>} /\ Messages(told) \in HitLists
 BY HitListFacts DEF SearchShape, RestShape
<1>4. /\ Event("failed", c.request, <<>>, NoHit, <<>>) \in SearchEvents
      /\ Event("context", c.request, <<>>, c.target, Messages(told)) \in SearchEvents
 BY <1>2, <1>9, SearchEventFacts, PlainEventFacts, HitListFacts DEF SearchShape, RestShape, EventKinds
<1>5. \/ /\ c.kind = "local"
         /\ scans' = Queue(c) /\ waiting' = <<Cancelling>> /\ rows' = told
         /\ UNCHANGED toTerminal
      \/ /\ c.kind = "cancel" \/ Cloudy(c)
         /\ scans' = CancelScan /\ Passes(c) /\ UNCHANGED rows
      \/ /\ c.kind = "context"
         /\ rows' = told
         /\ toTerminal' = Append(toTerminal,
              Event("context", c.request, <<>>, c.target, Messages(told)))
         /\ UNCHANGED <<scans, waiting>>
 BY DEF TakeSearchCommand
<1> HIDE DEF c
<1>6. CASE c.kind = "local"
 BY <1>1, <1>5, <1>6 DEF Cloudy, c
<1>7. CASE c.kind = "context"
 BY <1>1, <1>3, <1>4, <1>5, <1>7 DEF Cloudy, c
<1>8. CASE c.kind = "cancel" \/ Cloudy(c)
 <2>1. c.kind \in {"cloud", "cloudContext", "cancel"} /\ c.kind # "context" /\ c.kind # "local"
  BY <1>8 DEF Cloudy
 <2>2. scans' = CancelScan /\ Passes(c) /\ UNCHANGED rows
  BY <1>5, <2>1
 <2>3. \/ waiting' = <<c>> /\ UNCHANGED toTerminal
       \/ /\ waiting' = <<>>
          /\ toTerminal' = IF Cloudy(c)
                           THEN Append(toTerminal, Event("failed", c.request, <<>>, NoHit, <<>>))
                           ELSE toTerminal
  BY <2>2 DEF Passes
 <2>4. waiting' = <<>> /\ Cloudy(c) => toTerminal' # toTerminal
  <3>1. <<>> # <<c>>
   OBVIOUS
  <3> QED BY <1>3, <1>4, <2>3, <3>1
 <2> QED BY <1>1, <2>1, <2>2, <2>3, <2>4 DEF c
<1> QED BY <1>2, <1>6, <1>7, <1>8 DEF Cloudy

LEMMA NothingFacts ==
  ASSUME NEW S
  PROVE  <<>> \in Seq(S) /\ Len(<<>>) = 0 /\ 1..Len(<<>>) = {} /\ DOMAIN <<>> = {}
OBVIOUS

LEMMA OneOfCommands ==
  ASSUME NEW c \in SearchCommands
  PROVE  <<c>> \in Seq(SearchCommands) /\ Len(<<c>>) = 1 /\ <<c>>[1] = c /\ <<c>> # <<>>
OBVIOUS

LEMMA CommandsShapeStep ==
  ASSUME SearchShape, SearchNext
  PROVE  CommandsShape'
<1>0. CommandsShape
 BY DEF SearchShape
<1>1. CASE UNCHANGED <<toLocal, waiting>>
 BY <1>0, <1>1 DEF CommandsShape
<1>2. CASE PanelAsks
 <2>1. PICK c \in SearchCommands : toLocal' = Append(toLocal, c)
  BY <1>2, PanelAsksFacts DEF Carries
 <2>2. waiting' = waiting
  BY <1>2, PanelAsksFacts
 <2> QED BY <1>0, <2>1, <2>2, AppendedFacts DEF CommandsShape
<1>3. CASE TakeSearchCommand
 <2> DEFINE c == Head(toLocal)
 <2>1. /\ toLocal # <<>> /\ toLocal' = Tail(toLocal) /\ c \in SearchCommands
       /\ \/ waiting' = waiting
          \/ waiting' = <<>>
          \/ waiting' = <<c>> /\ c.kind \in {"cloud", "cloudContext", "cancel"}
          \/ waiting' = <<Cancelling>>
  BY <1>3, TakenFacts
 <2>2. toLocal' \in Seq(SearchCommands)
  BY <1>0, <2>1, ShiftedFacts DEF CommandsShape
 <2>3. Cancelling \in SearchCommands /\ Cancelling.kind = "cancel"
  BY DEF Cancelling, Command, SearchCommands
 <2>4. \A one \in SearchCommands : one.kind \in {"cloud", "cloudContext", "cancel"}
           /\ waiting' = <<one>> => CommandsShape'
  <3> TAKE one \in SearchCommands
  <3> HAVE one.kind \in {"cloud", "cloudContext", "cancel"} /\ waiting' = <<one>>
  <3>1. waiting' \in Seq(SearchCommands) /\ Len(waiting') = 1 /\ waiting'[1] = one
   BY OneOfCommands
  <3>2. \A i \in 1..Len(waiting') : i = 1
   BY <3>1
  <3> QED BY <2>2, <3>1, <3>2 DEF CommandsShape
 <2>5. waiting' = <<>> => CommandsShape'
  BY <2>2, NothingFacts DEF CommandsShape
 <2>6. waiting' = waiting => CommandsShape'
  BY <1>0, <2>2 DEF CommandsShape
 <2> HIDE DEF c
 <2> QED BY <2>1, <2>3, <2>4, <2>5, <2>6
<1>4. CASE HandleSearch
 <2>1. waiting # <<>> /\ waiting' = Tail(waiting) /\ toLocal' = toLocal
  BY <1>4 DEF HandleSearch
 <2>2. Len(waiting) = 1
  <3>1. waiting \in Seq(SearchCommands) /\ Len(waiting) <= 1
   BY <1>0 DEF CommandsShape
  <3> DEFINE n == Len(waiting)
  <3>2. n \in Nat /\ n >= 1
   BY <2>1, <3>1, ElementFacts
  <3>3. n <= 1
   BY <3>1
  <3> HIDE DEF n
  <3>4. n = 1
   BY <3>2, <3>3
  <3> QED BY <3>4 DEF n
 <2>3. waiting' = <<>>
  BY <1>0, <2>1, <2>2, ShiftedFacts DEF CommandsShape
 <2> QED BY <1>0, <2>1, <2>3, NothingFacts DEF CommandsShape
<1> QED BY <1>1, <1>2, <1>3, <1>4 DEF SearchNext, PanelAsks, ReopenSearch, HandleSearchEvent, StartPending,
     Scan, ScanEnds, FlushBatch, TakeStream, Answers, Complete, Changes, ReceivesChange, FindsGap,
     localVars

(* Queues of events. *)
LEMMA WholeFacts ==
  /\ \A q, e : AreWhole(q) /\ e \in SearchEvents /\ EventIsWhole(e) => AreWhole(Append(q, e))
  /\ \A q : AreWhole(q) /\ q # <<>> =>
      AreWhole(Tail(q)) /\ Head(q) \in SearchEvents /\ EventIsWhole(Head(q)) /\ Head(q) = q[1]
<1>1. ASSUME NEW q, NEW e, AreWhole(q), e \in SearchEvents, EventIsWhole(e)
      PROVE  AreWhole(Append(q, e))
 <2>1. q \in Seq(SearchEvents) /\ \A i \in 1..Len(q) : EventIsWhole(q[i])
  BY <1>1 DEF AreWhole
 <2>2. Append(q, e) \in Seq(SearchEvents) /\ Len(Append(q, e)) = Len(q) + 1
  BY <1>1, <2>1, AppendedFacts
 <2>3. ASSUME NEW i \in 1..Len(q) + 1
       PROVE  EventIsWhole(Append(q, e)[i])
  BY <1>1, <2>1, AppendedFacts
 <2> QED BY <2>2, <2>3 DEF AreWhole
<1>2. ASSUME NEW q, AreWhole(q), q # <<>>
      PROVE  AreWhole(Tail(q)) /\ Head(q) \in SearchEvents /\ EventIsWhole(Head(q)) /\ Head(q) = q[1]
 <2>1. q \in Seq(SearchEvents) /\ \A i \in 1..Len(q) : EventIsWhole(q[i])
  BY <1>2 DEF AreWhole
 <2>2. Tail(q) \in Seq(SearchEvents) /\ Len(Tail(q)) = Len(q) - 1
  BY <1>2, <2>1, ShiftedFacts
 <2>3. ASSUME NEW i \in 1..Len(q) - 1
       PROVE  EventIsWhole(Tail(q)[i])
  BY <1>2, <2>1, ShiftedFacts
 <2>4. Head(q) = q[1] /\ 1 \in 1..Len(q) /\ Head(q) \in SearchEvents
  BY <1>2, <2>1, ShiftedFacts
 <2> QED BY <2>1, <2>2, <2>3, <2>4 DEF AreWhole
<1> QED BY <1>1, <1>2

(* What the local worker does with an event of the network worker. *)
LEMMA AnswerFacts ==
  ASSUME SearchShape, NEW e \in SearchEvents, TellsAnswer(e)
  PROVE  /\ e.kind \in {"cloud", "context"}
         /\ \/ /\ cloud.request # e.request
               /\ toTerminal' = Append(toTerminal, Event("failed", e.request, <<>>, NoHit, <<>>))
               /\ UNCHANGED <<told, cloud, rows>>
            \/ /\ cloud.request = e.request /\ cloud' = [cloud EXCEPT !.request = 0]
               /\ \E hits \in HitLists :
                  /\ toTerminal' = Append(toTerminal, [e EXCEPT !.hits = hits])
                  /\ told' = [m \in Hit |-> IF m \in DOMAIN hits THEN hits[m] ELSE told[m]]
                  /\ rows' = told' /\ told' \in Listed
                  /\ \A m \in DOMAIN hits :
                      /\ m \in Hit /\ m \in DOMAIN e.hits /\ hits[m] \in 1..MaxVersion
                      /\ hits[m] = IF m \in cloud.changed THEN told[m] ELSE e.hits[m]
<1>1. /\ told \in Listed /\ cloud \in [request : Nat, changed : SUBSET Hit]
      /\ \A m \in cloud.changed : told[m] # 0
 BY DEF SearchShape, RestShape
<1>2. e.hits \in HitLists
 BY DEF SearchEvents
<1>3. CASE cloud.request # e.request
 BY <1>3 DEF TellsAnswer
<1>4. CASE cloud.request = e.request
 <2> DEFINE hits == ReconcileHits(e.hits)
            S == {h \in DOMAIN e.hits : told[h] # Erased}
 <2>1. /\ toTerminal' = Append(toTerminal, [e EXCEPT !.hits = hits])
       /\ told' = [m \in Hit |-> IF m \in DOMAIN hits THEN hits[m] ELSE told[m]]
       /\ rows' = told' /\ cloud' = [cloud EXCEPT !.request = 0]
       /\ e.kind \in {"cloud", "context"}
  BY <1>4 DEF TellsAnswer
 <2>2. hits = [m \in S |-> IF m \in cloud.changed THEN told[m] ELSE e.hits[m]]
  BY DEF ReconcileHits
 <2>3. ASSUME NEW m \in S
       PROVE  m \in Hit /\ (IF m \in cloud.changed THEN told[m] ELSE e.hits[m]) \in 1..MaxVersion
  <3>1. m \in Hit /\ e.hits[m] \in 1..MaxVersion
   BY <1>2, <2>3, HitListFacts
  <3>2. told[m] \in 0..Erased /\ told[m] # Erased
   BY <1>1, <2>3, <3>1 DEF Listed
  <3>3. m \in cloud.changed => told[m] \in 1..MaxVersion
   BY <1>1, <3>2, SearchAssumption DEF Erased
  <3> QED BY <3>1, <3>3
 <2>4. hits \in [S -> 1..MaxVersion] /\ S \in SUBSET Hit /\ DOMAIN hits = S
  BY <2>2, <2>3
 <2>5. hits \in HitLists
  BY <2>4 DEF HitLists
 <2>6. told' \in Listed
  <3>1. \A m \in Hit : (IF m \in DOMAIN hits THEN hits[m] ELSE told[m]) \in 0..Erased
   <4> TAKE m \in Hit
   <4>1. told[m] \in 0..Erased
    BY <1>1 DEF Listed
   <4>2. m \in DOMAIN hits => hits[m] \in 0..Erased
    BY <2>4, SearchAssumption DEF Erased
   <4> QED BY <4>1, <4>2
  <3> QED BY <2>1, <3>1 DEF Listed
 <2>7. \A m \in DOMAIN hits :
           /\ m \in Hit /\ m \in DOMAIN e.hits /\ hits[m] \in 1..MaxVersion
           /\ hits[m] = IF m \in cloud.changed THEN told[m] ELSE e.hits[m]
  BY <2>2, <2>4
 <2> HIDE DEF hits
 <2> QED BY <1>4, <2>1, <2>5, <2>6, <2>7
<1> QED BY <1>3, <1>4 DEF TellsAnswer

(* An answer that is awaited is sent on, with what changed since. *)
LEMMA AnswerIsSent ==
  ASSUME SearchShape, NEW e \in SearchEvents, TellsAnswer(e), cloud.request = e.request
  PROVE  \E h \in HitLists :
            /\ toTerminal' = Append(toTerminal, [e EXCEPT !.hits = h])
            /\ \A m \in DOMAIN h :
                  /\ m \in Hit /\ m \in DOMAIN e.hits /\ h[m] \in 1..MaxVersion
                  /\ h[m] = IF m \in cloud.changed THEN told[m] ELSE e.hits[m]
<1>1. PICK h \in HitLists :
          /\ toTerminal' = Append(toTerminal, [e EXCEPT !.hits = h])
          /\ \A m \in DOMAIN h :
                /\ m \in Hit /\ m \in DOMAIN e.hits /\ h[m] \in 1..MaxVersion
                /\ h[m] = IF m \in cloud.changed THEN told[m] ELSE e.hits[m]
 <2>1. ~(cloud.request # e.request)
  OBVIOUS
 <2> QED BY <2>1, AnswerFacts, Zenon
<1> QED BY <1>1, Zenon

LEMMA TakeStreamFacts ==
  ASSUME SearchShape, TakeStream
  PROVE  LET e == Head(stream)
         IN  /\ stream # <<>> /\ stream' = Tail(stream)
             /\ e \in SearchEvents /\ EventIsWhole(e) /\ e = stream[1]
             /\ \/ TellsChange(e) \/ TellsLoading(e) \/ TellsCancelled(e)
                \/ TellsAnswer(e) \/ TellsFailure(e) \/ TellsInvalidation(e)
             /\ UNCHANGED <<panelVars, toLocal, waiting, scans, flight, server, pushed, knows,
                            gapsFound>>
BY WholeFacts DEF SearchShape, EventsShape, TakeStream

LEMMA HandleSearchFacts ==
  ASSUME SearchShape, HandleSearch
  PROVE  /\ waiting # <<>> /\ waiting' = <<>> /\ Len(waiting) = 1
         /\ waiting[1] \in SearchCommands
         /\ waiting[1].kind \in {"cloud", "cloudContext", "cancel"}
         /\ \E s :
              /\ \/ s = stream
                 \/ s = Append(stream, Event("cancelled", flight.request, <<>>, NoHit, <<>>))
              /\ \/ stream' = s /\ flight' = NoFlight /\ ~Cloudy(waiting[1])
                 \/ /\ stream' = Append(s, Event("loading", waiting[1].request, <<>>, NoHit, <<>>))
                    /\ Cloudy(waiting[1])
                    /\ flight' = [NoFlight EXCEPT !.request = waiting[1].request,
                                     !.asked = waiting[1].asked, !.target = waiting[1].target]
         /\ UNCHANGED <<panelVars, toLocal, toTerminal, scans, rows, told, cloud, server, pushed,
                        knows, gapsFound>>
<1>1. waiting # <<>> /\ waiting \in Seq(SearchCommands) /\ Len(waiting) <= 1
      /\ \A i \in 1..Len(waiting) : waiting[i].kind \in {"cloud", "cloudContext", "cancel"}
 BY DEF SearchShape, CommandsShape, HandleSearch
<1>2. Head(waiting) = waiting[1] /\ 1 \in 1..Len(waiting)
 BY <1>1, ShiftedFacts
<1>3. waiting' = Tail(waiting)
 BY DEF HandleSearch
<1>4. Len(waiting) = 1
 <2> DEFINE n == Len(waiting)
 <2>1. n \in Nat /\ n >= 1
  BY <1>1, ShiftedFacts
 <2>2. n <= 1
  BY <1>1
 <2> HIDE DEF n
 <2>3. n = 1
  BY <2>1, <2>2
 <2> QED BY <2>3 DEF n
<1>5. waiting' = <<>>
 BY <1>1, <1>3, <1>4, ShiftedFacts
<1>6. /\ \A q, x \in Seq(SearchEvents) : q \o <<>> = q
      /\ \A q \in Seq(SearchEvents), a \in SearchEvents : q \o <<a>> = Append(q, a)
 <2>1. \A q \in Seq(SearchEvents) : q \o <<>> = q
  OBVIOUS
 <2>2. \A q \in Seq(SearchEvents), a \in SearchEvents : q \o <<a>> = Append(q, a)
  OBVIOUS
 <2> QED BY <2>1, <2>2
<1> DEFINE c == waiting[1]
           cancelled == Event("cancelled", flight.request, <<>>, NoHit, <<>>)
           begun == Event("loading", c.request, <<>>, NoHit, <<>>)
           aborted == IF flight = NoFlight THEN <<>> ELSE <<cancelled>>
           announced == IF Cloudy(c) THEN <<begun>> ELSE <<>>
<1>7. /\ stream' = stream \o aborted \o announced
      /\ flight' = IF ~Cloudy(c) THEN NoFlight
                   ELSE [NoFlight EXCEPT !.request = c.request, !.asked = c.asked,
                                         !.target = c.target]
      /\ UNCHANGED <<panelVars, toLocal, toTerminal, scans, rows, told, cloud, server, pushed,
                     knows, gapsFound>>
 BY <1>2 DEF HandleSearch
<1>8. c \in SearchCommands /\ c.request \in Nat /\ flight.request \in Nat
 <2>1. c \in SearchCommands
  BY <1>1, <1>2, ElementFacts
 <2>2. flight.request \in Nat
  BY DEF SearchShape, RestShape
 <2> HIDE DEF c
 <2> QED BY <2>1, <2>2 DEF SearchCommands
<1>9. cancelled \in SearchEvents /\ begun \in SearchEvents /\ stream \in Seq(SearchEvents)
 BY <1>8, PlainEventFacts DEF SearchShape, EventsShape, AreWhole, EventKinds
<1>10. /\ c.kind \in {"cloud", "cloudContext", "cancel"}
 BY <1>1, <1>2
<1> HIDE DEF c, cancelled, begun
<1>11. \E s : /\ s = stream \o aborted /\ s \in Seq(SearchEvents)
              /\ s = stream \/ s = Append(stream, cancelled)
 BY <1>6, <1>9, AppendedFacts
<1>12. PICK s \in Seq(SearchEvents) : s = stream \o aborted /\ (s = stream \/ s = Append(stream, cancelled))
 BY <1>11
<1>13. stream' = s \o announced
 BY <1>7, <1>12
<1>14. \/ ~Cloudy(c) /\ stream' = s
       \/ Cloudy(c) /\ stream' = Append(s, begun)
 BY <1>6, <1>9, <1>13
<1> QED BY <1>1, <1>4, <1>5, <1>7, <1>8, <1>10, <1>12, <1>14 DEF c, cancelled, begun

LEMMA NetworkFacts ==
  ASSUME SearchShape
  PROVE  /\ Answers => /\ flight' = [flight EXCEPT !.read = TRUE, !.hits = Messages(server)]
                       /\ flight # NoFlight
                       /\ UNCHANGED <<panelVars, localVars, stream, server, pushed, knows, gapsFound>>
         /\ Complete => /\ flight.read /\ flight # NoFlight /\ flight' = NoFlight
                        /\ UNCHANGED <<panelVars, localVars, server, pushed, knows, gapsFound>>
                        /\ \E e \in SearchEvents :
                              /\ stream' = Append(stream, e) /\ e.request = flight.request
                              /\ e.kind = "failed" \/
                                 /\ e.kind = IF flight.target = NoHit THEN "cloud" ELSE "context"
                                 /\ e.asked = flight.asked /\ e.target = flight.target
                                 /\ e.hits = flight.hits
<1>1. /\ flight.request \in Nat /\ flight.asked \in Asking \cup {<<>>}
      /\ flight.target \in Hit \cup {NoHit} /\ flight.hits \in HitLists
 BY DEF SearchShape, RestShape
<1>2. ASSUME Complete
      PROVE  /\ flight.read /\ flight # NoFlight /\ flight' = NoFlight
             /\ UNCHANGED <<panelVars, localVars, server, pushed, knows, gapsFound>>
             /\ \E e \in SearchEvents :
                   /\ stream' = Append(stream, e) /\ e.request = flight.request
                   /\ e.kind = "failed" \/
                      /\ e.kind = IF flight.target = NoHit THEN "cloud" ELSE "context"
                      /\ e.asked = flight.asked /\ e.target = flight.target
                      /\ e.hits = flight.hits
 <2> DEFINE kind == IF flight.target = NoHit THEN "cloud" ELSE "context"
            answer == Event(kind, flight.request, flight.asked, flight.target, flight.hits)
            failure == Event("failed", flight.request, <<>>, NoHit, <<>>)
 <2>1. stream' \in {Append(stream, answer), Append(stream, failure)}
  BY <1>2 DEF Complete
 <2>2. /\ answer \in SearchEvents /\ answer.request = flight.request /\ answer.kind = kind
       /\ answer.asked = flight.asked /\ answer.target = flight.target /\ answer.hits = flight.hits
       /\ failure \in SearchEvents /\ failure.request = flight.request /\ failure.kind = "failed"
  <3>1. kind \in EventKinds
   BY DEF EventKinds
  <3> HIDE DEF kind
  <3>3. /\ answer \in SearchEvents /\ answer.request = flight.request /\ answer.kind = kind
        /\ answer.asked = flight.asked /\ answer.target = flight.target
        /\ answer.hits = flight.hits
   <4>1. 0 \in 0..Erased
    BY SearchAssumption DEF Erased
   <4> QED BY <1>1, <3>1, <4>1 DEF Event, SearchEvents, EventKinds
  <3>4. failure \in SearchEvents /\ failure.request = flight.request /\ failure.kind = "failed"
   BY <1>1, PlainEventFacts DEF EventKinds
  <3> QED BY <3>3, <3>4
 <2> HIDE DEF answer, failure
 <2>3. flight.read /\ flight' = NoFlight
       /\ UNCHANGED <<panelVars, localVars, server, pushed, knows, gapsFound>>
  BY <1>2 DEF Complete
 <2>4. flight # NoFlight
  BY <2>3 DEF NoFlight
 <2> QED BY <2>1, <2>2, <2>3, <2>4
<1>3. Answers => /\ flight' = [flight EXCEPT !.read = TRUE, !.hits = Messages(server)]
                 /\ flight # NoFlight
                 /\ UNCHANGED <<panelVars, localVars, stream, server, pushed, knows, gapsFound>>
 BY DEF Answers
<1> QED BY <1>2, <1>3

LEMMA ScanEndsFacts ==
  ASSUME SearchShape, ScanEnds
  PROVE  /\ scans' = [scans EXCEPT !.job = NoJob] /\ scans.job # NoJob
         /\ \/ scans.job.cancelled /\ toTerminal' = toTerminal
            \/ /\ ~scans.job.cancelled
               /\ \E e \in SearchEvents :
                  /\ toTerminal' = Append(toTerminal, e) /\ e.request = scans.job.request
                  /\ e.kind \in {"local", "failed"}
                  /\ e.kind = "local" => e.asked = scans.job.asked
         /\ UNCHANGED <<panelVars, toLocal, waiting, rows, told, cloud, networkVars, knows, gapsFound>>
<1>1. /\ scans.job.request \in Nat /\ scans.job.asked \in Asking \cup {<<>>}
      /\ scans.job.hits \in HitLists
 BY DEF SearchShape, RestShape, ScanJobs
<1>2. scans.job # NoJob /\ scans' = [scans EXCEPT !.job = NoJob]
      /\ UNCHANGED <<panelVars, toLocal, waiting, rows, told, cloud, networkVars, knows, gapsFound>>
 BY DEF ScanEnds, NoJob
<1> DEFINE answer == Event("local", scans.job.request, scans.job.asked, NoHit, scans.job.hits)
           failure == Event("failed", scans.job.request, <<>>, NoHit, <<>>)
<1>3. \/ scans.job.cancelled /\ toTerminal' = toTerminal
      \/ /\ ~scans.job.cancelled
         /\ toTerminal' \in {Append(toTerminal, answer), Append(toTerminal, failure)}
 BY DEF ScanEnds
<1>4. /\ answer \in SearchEvents /\ answer.request = scans.job.request /\ answer.kind = "local"
      /\ answer.asked = scans.job.asked
 <2>1. 0 \in 0..Erased
  BY SearchAssumption DEF Erased
 <2> QED BY <1>1, <2>1 DEF Event, SearchEvents
<1>5. failure \in SearchEvents /\ failure.request = scans.job.request /\ failure.kind = "failed"
 BY <1>1, PlainEventFacts DEF EventKinds
<1> HIDE DEF answer, failure
<1> QED BY <1>2, <1>3, <1>4, <1>5

LEMMA ChangesFacts ==
  ASSUME SearchShape, NEW m \in Hit, Changes(m)
  PROVE  /\ \E e \in SearchEvents :
              /\ e.kind = "change" /\ e.target = m /\ e.version \in 1..Erased
              /\ e.version > server[m]
              /\ server' = [server EXCEPT ![m] = e.version] /\ pushed' = Append(pushed, e)
         /\ server' \in Listed
         /\ UNCHANGED <<panelVars, localVars, flight, stream, knows, gapsFound>>
<1>1. server \in Listed /\ server[m] \in 0..Erased /\ server[m] < Erased /\ Erased \in Nat
 BY SearchAssumption DEF SearchShape, RestShape, Listed, Changes, Erased
<1>2. PICK v \in {server[m] + 1, Erased} :
        /\ server' = [server EXCEPT ![m] = v]
        /\ pushed' = Append(pushed, [Event("change", 0, <<>>, m, <<>>) EXCEPT !.version = v])
 BY DEF Changes
<1>3. v \in 1..Erased /\ v > server[m] /\ v \in 0..Erased
 BY <1>1
<1> DEFINE e == [Event("change", 0, <<>>, m, <<>>) EXCEPT !.version = v]
<1>4. e \in SearchEvents /\ e.kind = "change" /\ e.target = m /\ e.version = v
 BY <1>3, ChangeEventFacts
<1>5. server' \in Listed
 BY <1>1, <1>2, <1>3 DEF Listed
<1>6. pushed' = Append(pushed, e)
 BY <1>2
<1> HIDE DEF e
<1> QED BY <1>2, <1>3, <1>4, <1>5, <1>6 DEF Changes

LEMMA TakenEvents ==
  ASSUME SearchShape, NEW c \in SearchCommands
  PROVE  /\ Event("failed", c.request, <<>>, NoHit, <<>>) \in SearchEvents
         /\ Event("failed", c.request, <<>>, NoHit, <<>>).kind = "failed"
         /\ Event("failed", c.request, <<>>, NoHit, <<>>).request = c.request
         /\ Event("context", c.request, <<>>, c.target, Messages(told)) \in SearchEvents
         /\ Event("context", c.request, <<>>, c.target, Messages(told)).kind = "context"
         /\ Event("context", c.request, <<>>, c.target, Messages(told)).request = c.request
         /\ Event("context", c.request, <<>>, c.target, Messages(told)).target = c.target
         /\ Event("context", c.request, <<>>, c.target, Messages(told)).hits = Messages(told)
<1>1. c.request \in Nat /\ c.target \in Hit \cup {NoHit} /\ 0 \in 0..Erased
 BY SearchAssumption DEF SearchCommands, Erased
<1>2. Messages(told) \in HitLists
 BY HitListFacts DEF SearchShape, RestShape
<1> QED BY <1>1, <1>2, PlainEventFacts DEF Event, SearchEvents, EventKinds

LEMMA ToldIsWhole ==
  ASSUME SearchShape, TakeStream
  PROVE  /\ AreWhole(toTerminal') /\ AreWhole(stream')
         /\ \/ toTerminal' = toTerminal
            \/ \E x \in SearchEvents :
                  /\ toTerminal' = Append(toTerminal, x) /\ x.request = Head(stream).request
                  /\ x.kind = "change" => x = Head(stream)
                  /\ EventIsWhole(x)
<1> DEFINE e == Head(stream)
<1>1. /\ AreWhole(toTerminal) /\ AreWhole(stream) /\ stream' = Tail(stream) /\ stream # <<>>
      /\ e \in SearchEvents /\ EventIsWhole(e)
      /\ \/ TellsChange(e) \/ TellsLoading(e) \/ TellsCancelled(e)
         \/ TellsAnswer(e) \/ TellsFailure(e) \/ TellsInvalidation(e)
 BY TakeStreamFacts DEF SearchShape, EventsShape
<1> HIDE DEF e
<1>2. \/ toTerminal' = toTerminal
      \/ \E x \in SearchEvents :
          toTerminal' = Append(toTerminal, x) /\ x.request = e.request /\ (x.kind = "change" => x = e)
 <2>1. CASE TellsChange(e) \/ TellsFailure(e) \/ TellsInvalidation(e)
  BY <1>1, <2>1 DEF TellsChange, TellsFailure, TellsInvalidation
 <2>2. CASE TellsLoading(e) \/ TellsCancelled(e)
  BY <2>2 DEF TellsLoading, TellsCancelled
 <2>3. CASE TellsAnswer(e)
  <3>1. e.request \in Nat /\ e.kind \in {"cloud", "context"}
   BY <1>1, <2>3, AnswerFacts DEF SearchEvents
  <3> DEFINE failure == Event("failed", e.request, <<>>, NoHit, <<>>)
  <3>2. failure \in SearchEvents /\ failure.request = e.request /\ failure.kind = "failed"
   BY <3>1, PlainEventFacts DEF EventKinds
  <3>3. \A h \in HitLists : LET x == [e EXCEPT !.hits = h]
                            IN  x \in SearchEvents /\ x.request = e.request /\ x.kind = e.kind
   BY <1>1 DEF SearchEvents
  <3>4. \/ toTerminal' = Append(toTerminal, failure)
        \/ \E h \in HitLists : toTerminal' = Append(toTerminal, [e EXCEPT !.hits = h])
   BY <1>1, <2>3, AnswerFacts
  <3> HIDE DEF failure
  <3> QED BY <3>1, <3>2, <3>3, <3>4
 <2> QED BY <1>1, <2>1, <2>2, <2>3
<1>3. AreWhole(stream')
 BY <1>1, WholeFacts
<1>4. CASE toTerminal' = toTerminal
 BY <1>1, <1>3, <1>4
<1>5. CASE toTerminal' # toTerminal
 <2>1. PICK x \in SearchEvents : toTerminal' = Append(toTerminal, x) /\ x.request = e.request
                                 /\ (x.kind = "change" => x = e)
  BY <1>2, <1>5
 <2>2. EventIsWhole(x)
  BY <1>1, <2>1 DEF EventIsWhole
 <2>3. AreWhole(toTerminal')
  BY <1>1, <2>1, <2>2, WholeFacts
 <2> QED BY <1>3, <2>1, <2>2, <2>3 DEF e
<1> QED BY <1>4, <1>5

LEMMA EventsShapeStep ==
  ASSUME SearchShape, SearchNext
  PROVE  EventsShape'
<1>0. /\ AreWhole(toTerminal) /\ AreWhole(stream) /\ AreWhole(pushed)
      /\ \A i \in 1..Len(pushed) : pushed[i].kind = "change"
 BY DEF SearchShape, EventsShape
<1>w. \A x \in SearchEvents : x.kind # "change" => EventIsWhole(x)
 BY DEF EventIsWhole
<1>1. CASE UNCHANGED <<toTerminal, stream, pushed>>
 BY <1>0, <1>1 DEF EventsShape
<1>2. CASE HandleSearchEvent
 BY <1>0, <1>2, WholeFacts DEF HandleSearchEvent, EventsShape, networkVars
<1>3. CASE TakeSearchCommand
 <2> DEFINE c == Head(toLocal)
 <2>1. /\ c \in SearchCommands
       /\ \/ toTerminal' = toTerminal
          \/ toTerminal' = Append(toTerminal, Event("failed", c.request, <<>>, NoHit, <<>>))
          \/ toTerminal' = Append(toTerminal, Event("context", c.request, <<>>, c.target,
                                                            Messages(told)))
       /\ UNCHANGED <<stream, pushed>>
  BY <1>3, TakenFacts DEF networkVars
 <2>3. \/ toTerminal' = toTerminal
       \/ \E x \in SearchEvents : toTerminal' = Append(toTerminal, x) /\ x.kind # "change"
  <3> HIDE DEF c
  <3>1. c \in SearchCommands
   BY <2>1
  <3>2. /\ Event("failed", c.request, <<>>, NoHit, <<>>) \in SearchEvents
        /\ Event("failed", c.request, <<>>, NoHit, <<>>).kind # "change"
        /\ Event("context", c.request, <<>>, c.target, Messages(told)) \in SearchEvents
        /\ Event("context", c.request, <<>>, c.target, Messages(told)).kind # "change"
   BY <3>1, TakenEvents
  <3> QED BY <2>1, <3>2
 <2> HIDE DEF c
 <2>2. AreWhole(toTerminal')
  BY <1>0, <1>w, <2>3, WholeFacts
 <2> QED BY <1>0, <2>1, <2>2 DEF EventsShape
<1>4. CASE ScanEnds
 <2>1. /\ \/ toTerminal' = toTerminal
          \/ \E e \in SearchEvents : toTerminal' = Append(toTerminal, e) /\ e.kind \in {"local", "failed"}
       /\ UNCHANGED <<stream, pushed>>
  BY <1>4, ScanEndsFacts DEF networkVars
 <2>2. AreWhole(toTerminal')
  BY <1>0, <1>w, <2>1, WholeFacts
 <2> QED BY <1>0, <2>1, <2>2 DEF EventsShape
<1>5. CASE TakeStream
 <2>1. AreWhole(toTerminal') /\ AreWhole(stream') /\ pushed' = pushed
  BY <1>5, ToldIsWhole, TakeStreamFacts
 <2> QED BY <1>0, <2>1 DEF EventsShape
<1>6. CASE HandleSearch
 <2>1. /\ waiting[1] \in SearchCommands /\ flight.request \in Nat
       /\ UNCHANGED <<toTerminal, pushed>>
  BY <1>6, HandleSearchFacts DEF SearchShape, RestShape
 <2> DEFINE cancelled == Event("cancelled", flight.request, <<>>, NoHit, <<>>)
            begun == Event("loading", waiting[1].request, <<>>, NoHit, <<>>)
 <2>2. PICK s : /\ s = stream \/ s = Append(stream, cancelled)
                /\ stream' = s \/ stream' = Append(s, begun)
  BY <1>6, HandleSearchFacts
 <2>3. waiting[1].request \in Nat
  BY <2>1 DEF SearchCommands
 <2>4. /\ cancelled \in SearchEvents /\ cancelled.kind = "cancelled"
       /\ begun \in SearchEvents /\ begun.kind = "loading"
  BY <2>1, <2>3, PlainEventFacts DEF EventKinds
 <2> HIDE DEF cancelled, begun
 <2>5. AreWhole(s)
  BY <1>0, <1>w, <2>2, <2>4, WholeFacts
 <2>6. AreWhole(stream')
  BY <1>w, <2>2, <2>4, <2>5, WholeFacts
 <2> QED BY <1>0, <2>1, <2>6 DEF EventsShape
<1>7. CASE Complete
 <2>1. PICK e \in SearchEvents : stream' = Append(stream, e) /\ e.kind # "change"
  BY <1>7, NetworkFacts
 <2>2. UNCHANGED <<toTerminal, pushed>>
  BY <1>7, NetworkFacts DEF localVars
 <2> QED BY <1>0, <1>w, <2>1, <2>2, WholeFacts DEF EventsShape
<1>8. CASE \E m \in Hit : Changes(m)
 <2>1. PICK m \in Hit : Changes(m)
  BY <1>8
 <2>2. PICK e \in SearchEvents : /\ pushed' = Append(pushed, e) /\ e.kind = "change" /\ e.target = m
                                 /\ e.version \in 1..Erased
  BY <2>1, ChangesFacts
 <2>3. UNCHANGED <<toTerminal, stream>>
  BY <2>1, ChangesFacts DEF localVars
 <2>4. AreWhole(pushed')
  BY <1>0, <2>2, WholeFacts DEF EventIsWhole
 <2>5. \A i \in 1..Len(pushed') : pushed'[i].kind = "change"
  BY <1>0, <2>2, AppendedFacts DEF AreWhole
 <2> QED BY <1>0, <2>3, <2>4, <2>5 DEF EventsShape
<1>9. CASE ReceivesChange
 <2>1. /\ pushed # <<>> /\ pushed' = Tail(pushed) /\ stream' = Append(stream, Head(pushed))
       /\ toTerminal' = toTerminal
  BY <1>9 DEF ReceivesChange, localVars
 <2>2. AreWhole(pushed') /\ AreWhole(stream')
  BY <1>0, <2>1, WholeFacts
 <2>3. \A i \in 1..Len(pushed') : pushed'[i].kind = "change"
  BY <1>0, <2>1, ShiftedFacts DEF AreWhole
 <2> QED BY <1>0, <2>1, <2>2, <2>3 DEF EventsShape
<1>10. CASE FindsGap
 <2> DEFINE x == Event("invalidated", 0, <<>>, NoHit, <<>>)
 <2>1. pushed' = <<>> /\ stream' = Append(stream, x) /\ toTerminal' = toTerminal
  BY <1>10 DEF FindsGap, localVars
 <2>2. x \in SearchEvents /\ x.kind = "invalidated"
  BY PlainEventFacts DEF EventKinds
 <2> HIDE DEF x
 <2>3. AreWhole(<<>>)
  BY NothingFacts DEF AreWhole
 <2>4. AreWhole(stream')
  BY <1>0, <1>w, <2>1, <2>2, WholeFacts
 <2> QED BY <1>0, <2>1, <2>3, <2>4, NothingFacts DEF EventsShape
<1>11. CASE PanelAsks
 BY <1>1, <1>11, PanelAsksFacts DEF networkVars
<1> QED BY <1>1, <1>2, <1>3, <1>4, <1>5, <1>6, <1>7, <1>8, <1>9, <1>10, <1>11
     DEF SearchNext, PanelAsks, ReopenSearch, StartPending, Scan, FlushBatch, Answers, localVars, networkVars

LEMMA PanelShapeStep ==
  ASSUME SearchShape, SearchNext
  PROVE  PanelShape'
<1>0. /\ PanelShape
      /\ panel \in [open : BOOLEAN, source : {"local", "cloud"}, query : Query,
                  position : 1..MaxPages, request : Nat, loading : BOOLEAN,
                  target : Hit \cup {NoHit}]
 BY DEF SearchShape, PanelShape
<1>1. CASE PanelAsks
 BY <1>1, PanelAsksFacts
<1>2. CASE HandleSearchEvent
 BY <1>2, HandledKeepsShape
<1>3. CASE ReopenSearch
 <2>1. panel' = [panel EXCEPT !.open = TRUE] /\ page' = page
  BY <1>3 DEF ReopenSearch
 <2> QED BY <1>0, <2>1 DEF PanelShape
<1>4. CASE UNCHANGED panelVars
 BY <1>0, <1>4 DEF PanelShape, panelVars
<1> QED BY <1>1, <1>2, <1>3, <1>4
     DEF SearchNext, PanelAsks, TakeSearchCommand, StartPending, Scan, ScanEnds, FlushBatch, TakeStream,
         HandleSearch, Answers, Complete, Changes, ReceivesChange, FindsGap

LEMMA JobFacts ==
  ASSUME SearchShape
  PROVE  /\ NoJob \in ScanJobs /\ ~NoJob.cancelled /\ NoJob.request = 0
         /\ scans.job \in ScanJobs /\ scans.queued \in ScanJobs
         /\ Flagged(scans.job) \in ScanJobs
         /\ Flagged(scans.job) = NoJob \/ Flagged(scans.job) = [scans.job EXCEPT !.cancelled = TRUE]
         /\ \A c \in SearchCommands :
              /\ Queue(c) \in [job : ScanJobs, queued : ScanJobs]
              /\ Queue(c).job = Flagged(scans.job)
              /\ ~Queue(c).queued.cancelled /\ Queue(c).queued.request = c.request
              /\ Queue(c).queued.asked = c.asked
         /\ CancelScan \in [job : ScanJobs, queued : ScanJobs]
         /\ CancelScan.job = Flagged(scans.job) /\ CancelScan.queued = NoJob
<1>1. NoJob \in ScanJobs /\ ~NoJob.cancelled /\ NoJob.request = 0
 BY HitListFacts DEF NoJob, ScanJobs
<1>2. scans.job \in ScanJobs /\ scans.queued \in ScanJobs
 BY DEF SearchShape, RestShape
<1>3. Flagged(scans.job) \in ScanJobs
 BY <1>1, <1>2 DEF Flagged, ScanJobs
<1>4. Flagged(scans.job) = NoJob \/ Flagged(scans.job) = [scans.job EXCEPT !.cancelled = TRUE]
 BY DEF Flagged
<1>5. ASSUME NEW c \in SearchCommands
      PROVE  /\ Queue(c) \in [job : ScanJobs, queued : ScanJobs]
             /\ Queue(c).job = Flagged(scans.job)
             /\ ~Queue(c).queued.cancelled /\ Queue(c).queued.request = c.request
             /\ Queue(c).queued.asked = c.asked
 <2> DEFINE q == [NoJob EXCEPT !.request = c.request, !.asked = c.asked]
 <2>1. c.request \in Nat /\ c.asked \in Asking \cup {<<>>}
  BY DEF SearchCommands
 <2>2. q \in ScanJobs /\ ~q.cancelled /\ q.request = c.request /\ q.asked = c.asked
  BY <2>1, HitListFacts DEF NoJob, ScanJobs
 <2>3. Queue(c) = [job |-> Flagged(scans.job), queued |-> q]
  BY DEF Queue
 <2> HIDE DEF q
 <2> QED BY <1>3, <2>2, <2>3
<1>6. /\ CancelScan \in [job : ScanJobs, queued : ScanJobs]
      /\ CancelScan.job = Flagged(scans.job) /\ CancelScan.queued = NoJob
 BY <1>1, <1>3 DEF CancelScan
<1> QED BY <1>1, <1>2, <1>3, <1>4, <1>5, <1>6

ScansShape == scans \in [job : ScanJobs, queued : ScanJobs] /\ ~scans.queued.cancelled

LEMMA ScansShapeStep ==
  ASSUME SearchShape, SearchNext
  PROVE  ScansShape'
<1>0. ScansShape
 BY DEF SearchShape, RestShape, ScansShape
<1>1. CASE scans' = scans
 BY <1>0, <1>1 DEF ScansShape
<1>2. CASE TakeSearchCommand
 <2> DEFINE c == Head(toLocal)
 <2>1. c \in SearchCommands /\ (scans' = scans \/ scans' = CancelScan \/ scans' = Queue(c))
  BY <1>2, TakenFacts
 <2> HIDE DEF c
 <2> QED BY <1>0, <2>1, JobFacts DEF ScansShape
<1>3. CASE StartPending
 <2>1. scans' = [job |-> scans.queued, queued |-> NoJob]
  BY <1>3 DEF StartPending
 <2> QED BY <2>1, JobFacts DEF ScansShape
<1>4. CASE Scan
 <2>1. scans' = [scans EXCEPT !.job.read = TRUE, !.job.hits = Messages(rows)]
  BY <1>4 DEF Scan
 <2>2. Messages(rows) \in HitLists
  BY HitListFacts DEF SearchShape, RestShape
 <2>3. scans.job \in ScanJobs
  BY JobFacts
 <2> DEFINE job == [scans.job EXCEPT !.read = TRUE, !.hits = Messages(rows)]
 <2>4. job \in ScanJobs
  BY <2>2, <2>3 DEF ScanJobs
 <2>5. scans' = [scans EXCEPT !.job = job]
  BY <1>0, <2>1, <2>3 DEF ScansShape, ScanJobs
 <2> HIDE DEF job
 <2> QED BY <1>0, <2>4, <2>5 DEF ScansShape
<1>5. CASE ScanEnds
 <2>1. scans' = [scans EXCEPT !.job = NoJob]
  BY <1>5, ScanEndsFacts
 <2> QED BY <1>0, <2>1, JobFacts DEF ScansShape
<1>6. CASE PanelAsks
 BY <1>1, <1>6, PanelAsksFacts
<1> QED BY <1>1, <1>2, <1>3, <1>4, <1>5, <1>6
     DEF SearchNext, PanelAsks, ReopenSearch, HandleSearchEvent, FlushBatch, TakeStream,
         HandleSearch, Answers, Complete, Changes, ReceivesChange, FindsGap, localVars

CacheShape ==
    /\ rows \in Listed /\ told \in Listed
    /\ cloud \in [request : Nat, changed : SUBSET Hit]
    /\ \A m \in cloud.changed : told[m] # 0

LEMMA CacheShapeStep ==
  ASSUME SearchShape, SearchNext
  PROVE  CacheShape'
<1>0. CacheShape
 BY DEF SearchShape, RestShape, CacheShape
<1>1. CASE UNCHANGED <<rows, told, cloud>>
 BY <1>0, <1>1 DEF CacheShape
<1>2. CASE TakeSearchCommand
 <2>1. rows' \in {rows, told} /\ UNCHANGED <<told, cloud>>
  BY <1>2, TakenFacts
 <2> QED BY <1>0, <2>1 DEF CacheShape
<1>3. CASE FlushBatch
 BY <1>0, <1>3 DEF FlushBatch, CacheShape
<1>4. CASE TakeStream
 <2> DEFINE e == Head(stream)
 <2>1. /\ e \in SearchEvents /\ EventIsWhole(e)
       /\ \/ TellsChange(e) \/ TellsLoading(e) \/ TellsCancelled(e)
          \/ TellsAnswer(e) \/ TellsFailure(e) \/ TellsInvalidation(e)
  BY <1>4, TakeStreamFacts
 <2> HIDE DEF e
 <2>2. e.request \in Nat /\ e.version \in 0..Erased
  BY <2>1 DEF SearchEvents
 <2>3. CASE TellsChange(e)
  <3>1. e.target \in Hit /\ e.version >= 1
   BY <2>1, <2>3 DEF EventIsWhole, TellsChange
  <3>2. /\ told' = [told EXCEPT ![e.target] = e.version] /\ rows' = rows
        /\ cloud' = [cloud EXCEPT !.changed = cloud.changed \cup {e.target}]
   BY <2>3 DEF TellsChange
  <3>3. told' \in Listed
   BY <1>0, <2>2, <3>1, <3>2 DEF CacheShape, Listed
  <3>4. cloud' \in [request : Nat, changed : SUBSET Hit]
        /\ cloud'.changed = cloud.changed \cup {e.target}
   BY <1>0, <3>1, <3>2 DEF CacheShape
  <3>5. \A m \in cloud'.changed : told'[m] # 0
   <4> SUFFICES ASSUME NEW m \in cloud.changed \cup {e.target} PROVE told'[m] # 0
    BY <3>4
   <4>1. m = e.target => told'[m] = e.version
    BY <1>0, <3>1, <3>2 DEF CacheShape, Listed
   <4>2. m # e.target => told'[m] = told[m] /\ m \in cloud.changed
    BY <1>0, <3>1, <3>2 DEF CacheShape, Listed
   <4>3. e.version # 0
    BY <2>2, <3>1
   <4> QED BY <1>0, <4>1, <4>2, <4>3 DEF CacheShape
  <3> QED BY <1>0, <3>2, <3>3, <3>4, <3>5 DEF CacheShape
 <2>4. CASE TellsLoading(e)
  <3>1. cloud' = [request |-> e.request, changed |-> {}] /\ UNCHANGED <<told, rows>>
   BY <2>4 DEF TellsLoading
  <3> QED BY <1>0, <2>2, <3>1 DEF CacheShape
 <2>5. CASE TellsCancelled(e) \/ TellsFailure(e)
  <3>1. cloud' \in {cloud, [cloud EXCEPT !.request = 0]} /\ UNCHANGED <<told, rows>>
   BY <2>5 DEF TellsCancelled, TellsFailure
  <3>2. cloud' \in [request : Nat, changed : SUBSET Hit] /\ cloud'.changed = cloud.changed
   BY <1>0, <3>1 DEF CacheShape
  <3> QED BY <1>0, <3>1, <3>2 DEF CacheShape
 <2>6. CASE TellsAnswer(e)
  <3>1. CASE UNCHANGED <<told, cloud, rows>>
   BY <1>1, <3>1
  <3>2. CASE ~UNCHANGED <<told, cloud, rows>>
   <4>1. PICK hits \in HitLists :
           /\ told' = [m \in Hit |-> IF m \in DOMAIN hits THEN hits[m] ELSE told[m]]
           /\ rows' = told' /\ told' \in Listed /\ cloud' = [cloud EXCEPT !.request = 0]
           /\ \A m \in DOMAIN hits : hits[m] \in 1..MaxVersion
    BY <2>1, <2>6, <3>2, AnswerFacts
   <4>2. cloud' \in [request : Nat, changed : SUBSET Hit] /\ cloud'.changed = cloud.changed
    BY <1>0, <4>1 DEF CacheShape
   <4>3. \A m \in cloud.changed : told'[m] # 0
    <5> TAKE m \in cloud.changed
    <5>1. m \in Hit /\ told[m] # 0
     BY <1>0 DEF CacheShape
    <5>2. m \in DOMAIN hits => hits[m] # 0
     BY <4>1
    <5> QED BY <4>1, <5>1, <5>2
   <4> QED BY <4>1, <4>2, <4>3 DEF CacheShape
  <3> QED BY <3>1, <3>2
 <2>7. CASE TellsInvalidation(e)
  <3>1. cloud' = [request |-> 0, changed |-> {}] /\ told' = [m \in Hit |-> 0] /\ rows' = rows
   BY <2>7 DEF TellsInvalidation
  <3>2. told' \in Listed
   BY <3>1, SearchAssumption DEF Listed, Erased
  <3> QED BY <1>0, <3>1, <3>2 DEF CacheShape
 <2> QED BY <2>1, <2>3, <2>4, <2>5, <2>6, <2>7
<1>5. CASE PanelAsks
 BY <1>1, <1>5, PanelAsksFacts
<1>6. CASE ScanEnds
 BY <1>1, <1>6, ScanEndsFacts
<1>7. CASE HandleSearch
 BY <1>1, <1>7, HandleSearchFacts
<1> QED BY <1>1, <1>2, <1>3, <1>4, <1>5, <1>6, <1>7
     DEF SearchNext, PanelAsks, ReopenSearch, HandleSearchEvent, StartPending, Scan,
         Answers, Complete, Changes, ReceivesChange, FindsGap, localVars

FlightShape ==
    flight \in [request : Nat, asked : Asking \cup {<<>>}, target : Hit \cup {NoHit},
                hits : HitLists, read : BOOLEAN]

LEMMA RestShapeStep ==
  ASSUME SearchShape, SearchNext
  PROVE  RestShape'
<1>0. /\ server \in Listed /\ knows \in Listed /\ gapsFound \in Nat /\ FlightShape
 BY DEF SearchShape, RestShape, FlightShape
<1>1. server' \in Listed
 <2>1. CASE \E m \in Hit : Changes(m)
  BY <2>1, ChangesFacts
 <2>2. CASE PanelAsks
  BY <1>0, <2>2, PanelAsksFacts DEF networkVars
 <2> QED BY <1>0, <2>1, <2>2 DEF SearchNext, PanelAsks, ReopenSearch, HandleSearchEvent, TakeSearchCommand,
      StartPending, Scan, ScanEnds, FlushBatch, TakeStream, HandleSearch, Answers, Complete,
      ReceivesChange, FindsGap, localVars, networkVars
<1>2. knows' \in Listed
 <2>1. CASE HandleSearchEvent
  BY <2>1, HandledKeepsShape
 <2>2. CASE PanelAsks
  BY <1>0, <2>2, PanelAsksFacts
 <2> QED BY <1>0, <2>1, <2>2 DEF SearchNext, PanelAsks, ReopenSearch, TakeSearchCommand,
      StartPending, Scan, ScanEnds, FlushBatch, TakeStream, HandleSearch, Answers, Complete,
      Changes, ReceivesChange, FindsGap, localVars, networkVars
<1>3. gapsFound' \in Nat
 <2>1. CASE FindsGap
  BY <1>0, <2>1 DEF FindsGap
 <2>2. CASE PanelAsks
  BY <1>0, <2>2, PanelAsksFacts
 <2> QED BY <1>0, <2>1, <2>2 DEF SearchNext, PanelAsks, ReopenSearch, HandleSearchEvent, TakeSearchCommand,
      StartPending, Scan, ScanEnds, FlushBatch, TakeStream, HandleSearch, Answers, Complete,
      Changes, ReceivesChange, localVars, networkVars
<1>4. FlightShape'
 <2>1. CASE flight' = flight
  BY <1>0, <2>1 DEF FlightShape
 <2>2. NoFlight \in [request : Nat, asked : Asking \cup {<<>>}, target : Hit \cup {NoHit},
               hits : HitLists, read : BOOLEAN]
  BY HitListFacts DEF NoFlight
 <2>3. CASE HandleSearch
  <3>1. /\ waiting[1] \in SearchCommands
        /\ \/ flight' = NoFlight
           \/ flight' = [NoFlight EXCEPT !.request = waiting[1].request,
                             !.asked = waiting[1].asked, !.target = waiting[1].target]
   BY <2>3, HandleSearchFacts
  <3>2. /\ waiting[1].request \in Nat /\ waiting[1].asked \in Asking \cup {<<>>}
        /\ waiting[1].target \in Hit \cup {NoHit}
   BY <3>1 DEF SearchCommands
  <3> QED BY <2>2, <3>1, <3>2 DEF FlightShape
 <2>4. CASE Answers
  <3>1. Messages(server) \in HitLists
   BY <1>0, HitListFacts
  <3> QED BY <1>0, <2>4, <3>1, NetworkFacts DEF FlightShape
 <2>5. CASE Complete
  BY <2>2, <2>5, NetworkFacts DEF FlightShape
 <2>6. CASE PanelAsks
  BY <2>1, <2>6, PanelAsksFacts DEF networkVars
 <2> QED BY <2>1, <2>3, <2>4, <2>5, <2>6 DEF SearchNext, PanelAsks, ReopenSearch, HandleSearchEvent,
      TakeSearchCommand, StartPending, Scan, ScanEnds, FlushBatch, TakeStream,
      Changes, ReceivesChange, FindsGap, localVars, networkVars
<1> QED BY <1>1, <1>2, <1>3, <1>4, ScansShapeStep, CacheShapeStep
     DEF RestShape, FlightShape, ScansShape, CacheShape

LEMMA SearchShapeStep ==
  ASSUME SearchShape, SearchNext
  PROVE  SearchShape'
BY PanelShapeStep, CommandsShapeStep, EventsShapeStep, RestShapeStep DEF SearchShape

-------------------------------------------------------------------------------
(* The order of versions. *)
LEMMA VersionFacts ==
  /\ \A e \in SearchEvents : e.version \in 0..Erased /\ e.version \in Nat /\ e.request \in Nat
  /\ \A k \in Listed, m \in Hit : k[m] \in 0..Erased /\ k[m] \in Nat
  /\ Erased \in Nat /\ \A v \in 1..MaxVersion : v \in Nat /\ v # Erased /\ v < Erased
<1>1. Erased \in Nat /\ \A v \in 1..MaxVersion : v \in Nat /\ v # Erased /\ v < Erased
 BY SearchAssumption DEF Erased
<1>2. \A e \in SearchEvents : e.version \in 0..Erased /\ e.request \in Nat
 BY DEF SearchEvents
<1>3. \A k \in Listed, m \in Hit : k[m] \in 0..Erased
 BY DEF Listed
<1>4. \A v \in 0..Erased : v \in Nat
 BY <1>1
<1> QED BY <1>1, <1>2, <1>3, <1>4

LEMMA BelowAppend ==
  ASSUME NEW k, NEW q \in Seq(SearchEvents), NEW m, NEW v, NEW e \in SearchEvents,
         Below(k, q, m, v), IsChange(e, m) => e.version <= v
  PROVE  Below(k, Append(q, e), m, v)
BY AppendedFacts DEF Below

LEMMA BelowTail ==
  ASSUME NEW k, NEW k2, NEW q \in Seq(SearchEvents), NEW m, NEW v, q # <<>>,
         Below(k, q, m, v), k2[m] = k[m] \/ (IsChange(q[1], m) /\ k2[m] = q[1].version)
  PROVE  Below(k2, Tail(q), m, v)
<1>1. 1 \in 1..Len(q) /\ Len(Tail(q)) = Len(q) - 1
      /\ \A i \in 1..Len(q) - 1 : Tail(q)[i] = q[i + 1] /\ i + 1 \in 1..Len(q)
 BY ShiftedFacts
<1>2. k2[m] <= v
 BY <1>1 DEF Below
<1>3. \A j \in 1..Len(q) - 1 : IsChange(Tail(q)[j], m) => Tail(q)[j].version <= v
 BY <1>1 DEF Below
<1> QED BY <1>1, <1>2, <1>3 DEF Below

LEMMA BelowMore ==
  ASSUME NEW k \in Listed, NEW q \in Seq(SearchEvents), NEW m \in Hit, NEW v \in Nat, NEW w \in Nat,
         Below(k, q, m, v), v <= w
  PROVE  Below(k, q, m, w)
<1>1. k[m] <= w
 BY VersionFacts DEF Below
<1>2. ASSUME NEW j \in 1..Len(q), IsChange(q[j], m)
      PROVE  q[j].version <= w
 <2>1. q[j] \in SearchEvents
  BY ElementFacts
 <2>2. q[j].version \in Nat /\ q[j].version <= v
  BY <1>2, <2>1, VersionFacts DEF Below
 <2> QED BY <2>2
<1> QED BY <1>1, <1>2 DEF Below

LEMMA InTurnAppend ==
  ASSUME NEW q \in Seq(SearchEvents), NEW m, NEW e \in SearchEvents, InTurn(q, m),
         IsChange(e, m) => \A i \in 1..Len(q) : IsChange(q[i], m) => q[i].version <= e.version
  PROVE  InTurn(Append(q, e), m)
<1> DEFINE r == Append(q, e)
<1>1. /\ Len(q) \in Nat /\ Len(r) = Len(q) + 1 /\ r[Len(q) + 1] = e
      /\ \A i \in 1..Len(q) : r[i] = q[i]
      /\ \A i \in 1..Len(q) + 1 : i \in 1..Len(q) \/ i = Len(q) + 1
 BY AppendedFacts
<1> HIDE DEF r
<1>2. ASSUME NEW i \in 1..Len(q) + 1, NEW j \in 1..Len(q) + 1, i < j, IsChange(r[i], m), IsChange(r[j], m)
      PROVE  r[i].version <= r[j].version
 <2>1. i \in 1..Len(q)
  BY <1>1, <1>2
 <2>2. CASE j \in 1..Len(q)
  BY <1>1, <1>2, <2>1, <2>2 DEF InTurn
 <2>3. CASE j = Len(q) + 1
  BY <1>1, <1>2, <2>1, <2>3
 <2> QED BY <1>1, <2>2, <2>3
<1>3. InTurn(r, m)
 BY <1>1, <1>2 DEF InTurn
<1> QED BY <1>3 DEF r

LEMMA InTurnTail ==
  ASSUME NEW q \in Seq(SearchEvents), NEW m, InTurn(q, m), q # <<>>
  PROVE  /\ InTurn(Tail(q), m)
         /\ IsChange(q[1], m) =>
              \A j \in 1..Len(Tail(q)) : IsChange(Tail(q)[j], m) => q[1].version <= Tail(q)[j].version
<1>1. 1 \in 1..Len(q) /\ Len(q) \in Nat /\ Len(Tail(q)) = Len(q) - 1
      /\ \A i \in 1..Len(q) - 1 : Tail(q)[i] = q[i + 1] /\ i + 1 \in 1..Len(q)
 BY ShiftedFacts
<1>2. ASSUME NEW i \in 1..Len(q) - 1, NEW j \in 1..Len(q) - 1, i < j,
             IsChange(Tail(q)[i], m), IsChange(Tail(q)[j], m)
      PROVE  Tail(q)[i].version <= Tail(q)[j].version
 <2>1. i + 1 < j + 1 /\ i + 1 \in 1..Len(q) /\ j + 1 \in 1..Len(q)
  BY <1>1, <1>2
 <2> QED BY <1>1, <1>2, <2>1 DEF InTurn
<1>3. ASSUME NEW j \in 1..Len(q) - 1, IsChange(q[1], m), IsChange(Tail(q)[j], m)
      PROVE  q[1].version <= Tail(q)[j].version
 <2>1. 1 < j + 1 /\ j + 1 \in 1..Len(q)
  BY <1>1, <1>3
 <2> QED BY <1>1, <1>3, <2>1 DEF InTurn
<1> QED BY <1>1, <1>2, <1>3 DEF InTurn

(* The bounds of all that is on its way, from one state of the terminal to another. *)
Covers(k, q, k2, q2) == \A m \in Hit, v \in Nat : Below(k, q, m, v) => Below(k2, q2, m, v)

(* What the events before `e` are known to be no newer than. *)
IsTold(k, q, k2, q2, e) ==
    \A m \in Hit, v \in Nat :
        Below(k, q, m, v) /\ (IsChange(e, m) => e.version <= v) => Below(k2, q2, m, v)

LEMMA CoversFacts ==
  ASSUME SearchShape
  PROVE  /\ \A e \in SearchEvents : toTerminal' = Append(toTerminal, e) /\ e.kind # "change" /\ knows' = knows
              => Covers(knows, toTerminal, knows', toTerminal')
         /\ HandleSearchEvent => Covers(knows, toTerminal, knows', toTerminal')
         /\ UNCHANGED <<toTerminal, knows>> => Covers(knows, toTerminal, knows', toTerminal')
<1>0. toTerminal \in Seq(SearchEvents) /\ knows \in Listed
 BY DEF SearchShape, EventsShape, AreWhole, RestShape
<1>1. ASSUME NEW e \in SearchEvents, toTerminal' = Append(toTerminal, e), e.kind # "change", knows' = knows
      PROVE  Covers(knows, toTerminal, knows', toTerminal')
 <2>1. \A m : ~IsChange(e, m)
  BY <1>1 DEF IsChange
 <2> QED BY <1>0, <1>1, <2>1, BelowAppend DEF Covers
<1>2. ASSUME HandleSearchEvent
      PROVE  Covers(knows, toTerminal, knows', toTerminal')
 <2> DEFINE e == Head(toTerminal)
 <2>1. toTerminal # <<>> /\ toTerminal' = Tail(toTerminal) /\ e = toTerminal[1] /\ e \in SearchEvents
       /\ EventIsWhole(e)
  BY <1>2, WholeFacts DEF HandleSearchEvent, SearchShape, EventsShape
 <2>2. \/ SearchResults(e) \/ SearchFailed(e) \/ OpenSearchContext(e)
       \/ ObserveChange(e) \/ ObserveInvalidation(e)
  BY <1>2 DEF HandleSearchEvent
 <2> HIDE DEF e
 <2>3. \A m \in Hit : knows'[m] = knows[m] \/ (IsChange(e, m) /\ knows'[m] = e.version)
  <3>1. CASE ObserveChange(e)
   <4>1. /\ e.kind = "change" /\ knows' = [knows EXCEPT ![e.target] = e.version]
    BY <3>1 DEF ObserveChange
   <4> QED BY <1>0, <4>1 DEF IsChange, Listed
  <3>2. CASE ~ObserveChange(e)
   BY <2>2, <3>2 DEF SearchResults, SearchFailed, OpenSearchContext, ObserveInvalidation
  <3> QED BY <3>1, <3>2
 <2>4. ASSUME NEW m \in Hit, NEW v \in Nat, Below(knows, toTerminal, m, v)
       PROVE  Below(knows', toTerminal', m, v)
  <3>1. Below(knows', Tail(toTerminal), m, v)
   BY <1>0, <2>1, <2>3, <2>4, BelowTail
  <3> QED BY <2>1, <3>1
 <2> QED BY <2>4 DEF Covers
<1>3. ASSUME UNCHANGED <<toTerminal, knows>>
      PROVE  Covers(knows, toTerminal, knows', toTerminal')
 BY <1>3 DEF Covers
<1> QED BY <1>1, <1>2, <1>3

(* Every step but the telling of a change keeps the bounds. *)
LEMMA StepCovers ==
  ASSUME SearchShape, SearchNext, TakeStream => Head(stream).kind # "change"
  PROVE  Covers(knows, toTerminal, knows', toTerminal')
<1>1. CASE UNCHANGED <<toTerminal, knows>>
 BY <1>1, CoversFacts
<1>2. CASE HandleSearchEvent
 BY <1>2, CoversFacts
<1>3. CASE TakeSearchCommand
 <2>1. /\ Head(toLocal) \in SearchCommands /\ knows' = knows
  BY <1>3, TakenFacts
 <2>2. \/ toTerminal' = toTerminal
       \/ \E x \in SearchEvents : toTerminal' = Append(toTerminal, x) /\ x.kind # "change"
  <3> DEFINE c == Head(toLocal)
  <3>1. /\ c \in SearchCommands
        /\ \/ toTerminal' = toTerminal
           \/ toTerminal' = Append(toTerminal, Event("failed", c.request, <<>>, NoHit, <<>>))
           \/ toTerminal' = Append(toTerminal, Event("context", c.request, <<>>, c.target,
                                                           Messages(told)))
   BY <1>3, TakenFacts
  <3> HIDE DEF c
  <3>2. /\ Event("failed", c.request, <<>>, NoHit, <<>>) \in SearchEvents
        /\ Event("failed", c.request, <<>>, NoHit, <<>>).kind # "change"
        /\ Event("context", c.request, <<>>, c.target, Messages(told)) \in SearchEvents
        /\ Event("context", c.request, <<>>, c.target, Messages(told)).kind # "change"
   BY <3>1, TakenEvents
  <3> QED BY <3>1, <3>2
 <2> QED BY <2>1, <2>2, CoversFacts
<1>4. CASE ScanEnds
 <2>1. /\ \/ toTerminal' = toTerminal
          \/ \E e \in SearchEvents : toTerminal' = Append(toTerminal, e) /\ e.kind # "change"
       /\ knows' = knows
  BY <1>4, ScanEndsFacts
 <2> QED BY <2>1, CoversFacts
<1>5. CASE TakeStream
 <2>1. \/ toTerminal' = toTerminal
       \/ \E e \in SearchEvents : toTerminal' = Append(toTerminal, e) /\ e.kind # "change"
  BY <1>5, ToldIsWhole
 <2>2. knows' = knows
  BY <1>5, TakeStreamFacts
 <2> QED BY <2>1, <2>2, CoversFacts
<1>6. CASE PanelAsks
 BY <1>1, <1>6, PanelAsksFacts
<1>7. CASE HandleSearch
 BY <1>1, <1>7, HandleSearchFacts
<1> QED BY <1>1, <1>2, <1>3, <1>4, <1>5, <1>6, <1>7
     DEF SearchNext, PanelAsks, ReopenSearch, StartPending, Scan, FlushBatch, Answers, Complete,
         Changes, ReceivesChange, FindsGap, localVars

LEMMA OrderedCovers ==
  ASSUME NEW k, NEW q, NEW k2, NEW q2, NEW s \in Seq(SearchEvents), NEW p \in Seq(SearchEvents),
         NEW v \in Nat, NEW m \in Hit, Covers(k, q, k2, q2), Ordered(k, q, s, p, v, m)
  PROVE  Ordered(k2, q2, s, p, v, m)
<1>1. \A w \in Nat : Below(k, q, m, w) => Below(k2, q2, m, w)
 BY DEF Covers
<1>2. /\ \A j \in 1..Len(s) : s[j].version \in Nat
      /\ \A j \in 1..Len(p) : p[j].version \in Nat
 BY ElementFacts, VersionFacts
<1> QED BY <1>1, <1>2 DEF Ordered

LEMMA OrderedQuiet ==
  ASSUME NEW k, NEW q, NEW s \in Seq(SearchEvents), NEW p \in Seq(SearchEvents),
         NEW v, NEW m \in Hit, Ordered(k, q, s, p, v, m),
         NEW e \in SearchEvents, ~IsChange(e, m)
  PROVE  Ordered(k, q, Append(s, e), p, v, m)
<1> DEFINE r == Append(s, e)
<1>1. /\ Len(r) = Len(s) + 1 /\ r[Len(s) + 1] = e
      /\ \A i \in 1..Len(s) : r[i] = s[i]
      /\ \A i \in 1..Len(s) + 1 : i \in 1..Len(s) \/ i = Len(s) + 1
 BY AppendedFacts
<1>2. InTurn(r, m)
 BY InTurnAppend DEF Ordered
<1> HIDE DEF r
<1>3. \A j \in 1..Len(r) : IsChange(r[j], m) => j \in 1..Len(s) /\ r[j] = s[j]
 BY <1>1
<1>4. Ordered(k, q, r, p, v, m)
 BY <1>2, <1>3 DEF Ordered
<1> QED BY <1>4 DEF r

LEMMA OrderedTail ==
  ASSUME NEW k, NEW q, NEW s \in Seq(SearchEvents), NEW p \in Seq(SearchEvents),
         NEW v, NEW m \in Hit, Ordered(k, q, s, p, v, m), s # <<>>
  PROVE  Ordered(k, q, Tail(s), p, v, m)
<1> DEFINE r == Tail(s)
<1>1. /\ Len(r) = Len(s) - 1
      /\ \A i \in 1..Len(s) - 1 : r[i] = s[i + 1] /\ i + 1 \in 1..Len(s)
 BY ShiftedFacts
<1>2. InTurn(r, m)
 BY InTurnTail DEF Ordered
<1> HIDE DEF r
<1>3. \A j \in 1..Len(r) : j + 1 \in 1..Len(s) /\ r[j] = s[j + 1]
 BY <1>1
<1>4. Ordered(k, q, r, p, v, m)
 BY <1>2, <1>3 DEF Ordered
<1> QED BY <1>4 DEF r

LEMMA OrderedTold ==
  ASSUME NEW k, NEW q \in Seq(SearchEvents), NEW s \in Seq(SearchEvents), NEW p \in Seq(SearchEvents),
         NEW v, NEW m \in Hit, Ordered(k, q, s, p, v, m), s # <<>>
  PROVE  Ordered(k, Append(q, s[1]), Tail(s), p, v, m)
<1> DEFINE r == Tail(s)
           t == Append(q, s[1])
<1>1. /\ Ordered(k, q, r, p, v, m) /\ s[1] \in SearchEvents /\ 1 \in 1..Len(s)
 BY OrderedTail, ShiftedFacts
<1>2. \A w : Below(k, q, m, w) /\ (IsChange(s[1], m) => s[1].version <= w) => Below(k, t, m, w)
 BY <1>1, BelowAppend
<1>3. IsChange(s[1], m) =>
        /\ s[1].version <= v
        /\ \A j \in 1..Len(r) : IsChange(r[j], m) => s[1].version <= r[j].version
        /\ \A j \in 1..Len(p) : IsChange(p[j], m) => s[1].version <= p[j].version
 BY <1>1, InTurnTail DEF Ordered
<1> HIDE DEF r, t
<1>4. Ordered(k, t, r, p, v, m)
 BY <1>1, <1>2, <1>3 DEF Ordered
<1> QED BY <1>4 DEF r, t

LEMMA OrderedStep ==
  ASSUME SearchShape, VersionsInOrder, SearchNext
  PROVE  VersionsInOrder'
<1>0. /\ toTerminal \in Seq(SearchEvents) /\ stream \in Seq(SearchEvents) /\ pushed \in Seq(SearchEvents)
      /\ AreWhole(stream) /\ AreWhole(pushed)
      /\ knows \in Listed /\ server \in Listed
      /\ \A i \in 1..Len(pushed) : pushed[i].kind = "change"
 BY DEF SearchShape, EventsShape, AreWhole, RestShape
<1> SUFFICES ASSUME NEW m \in Hit
             PROVE  Ordered(knows', toTerminal', stream', pushed', server'[m], m)
 BY DEF VersionsInOrder
<1>01. Ordered(knows, toTerminal, stream, pushed, server[m], m) /\ server[m] \in Nat
 BY <1>0, VersionFacts DEF VersionsInOrder
<1>1. CASE /\ UNCHANGED <<stream, pushed, server>> /\ ~TakeStream
 <2>1. Covers(knows, toTerminal, knows', toTerminal')
  BY <1>1, StepCovers
 <2> QED BY <1>0, <1>01, <1>1, <2>1, OrderedCovers
<1>2. CASE TakeStream
 <2>1. /\ stream # <<>> /\ stream' = Tail(stream) /\ UNCHANGED <<pushed, server, knows>>
       /\ stream[1] \in SearchEvents /\ Head(stream) = stream[1]
  BY <1>2, TakeStreamFacts
 <2>2. stream' \in Seq(SearchEvents)
  BY <1>0, <2>1, ShiftedFacts
 <2>3. CASE stream[1].kind = "change"
  <3>1. TellsChange(stream[1])
   BY <1>2, <2>1, <2>3, TakeStreamFacts DEF TellsChange, TellsLoading, TellsCancelled, TellsAnswer,
        TellsFailure, TellsInvalidation
  <3>2. toTerminal' = Append(toTerminal, stream[1])
   BY <3>1 DEF TellsChange
  <3> QED BY <1>0, <1>01, <2>1, <3>2, OrderedTold
 <2>4. CASE stream[1].kind # "change"
  <3>1. Covers(knows, toTerminal, knows', toTerminal')
   BY <2>1, <2>4, StepCovers
  <3>2. Ordered(knows, toTerminal, stream', pushed, server[m], m)
   BY <1>0, <1>01, <2>1, OrderedTail
  <3> QED BY <1>0, <1>01, <2>1, <2>2, <3>1, <3>2, OrderedCovers
 <2> QED BY <2>3, <2>4
<1>3. CASE HandleSearch
 <2>1. waiting[1] \in SearchCommands /\ flight.request \in Nat
       /\ UNCHANGED <<toTerminal, pushed, server, knows>>
  BY <1>3, HandleSearchFacts DEF SearchShape, RestShape
 <2> DEFINE cancelled == Event("cancelled", flight.request, <<>>, NoHit, <<>>)
            begun == Event("loading", waiting[1].request, <<>>, NoHit, <<>>)
 <2>2. PICK s : /\ s = stream \/ s = Append(stream, cancelled)
                /\ stream' = s \/ stream' = Append(s, begun)
  BY <1>3, HandleSearchFacts
 <2>3. waiting[1].request \in Nat
  BY <2>1 DEF SearchCommands
 <2>4. /\ cancelled \in SearchEvents /\ ~IsChange(cancelled, m)
       /\ begun \in SearchEvents /\ ~IsChange(begun, m)
  BY <2>1, <2>3, PlainEventFacts DEF EventKinds, IsChange
 <2> HIDE DEF cancelled, begun
 <2>5. s \in Seq(SearchEvents) /\ Ordered(knows, toTerminal, s, pushed, server[m], m)
  <3>1. CASE s = stream
   BY <1>0, <1>01, <3>1
  <3>2. CASE s = Append(stream, cancelled)
   <4>1. s \in Seq(SearchEvents)
    BY <1>0, <2>4, <3>2, AppendedFacts
   <4> QED BY <1>0, <1>01, <2>4, <3>2, <4>1, OrderedQuiet
  <3> QED BY <2>2, <3>1, <3>2
 <2>6. Ordered(knows, toTerminal, stream', pushed, server[m], m)
  BY <1>0, <2>2, <2>4, <2>5, OrderedQuiet
 <2> QED BY <2>1, <2>6
<1>4. CASE Complete
 <2>1. PICK e \in SearchEvents : stream' = Append(stream, e) /\ e.kind # "change"
  BY <1>4, NetworkFacts
 <2>2. UNCHANGED <<toTerminal, pushed, server, knows>>
  BY <1>4, NetworkFacts DEF localVars
 <2>3. ~IsChange(e, m)
  BY <2>1 DEF IsChange
 <2> QED BY <1>0, <1>01, <2>1, <2>2, <2>3, OrderedQuiet
<1>5. CASE FindsGap
 <2> DEFINE x == Event("invalidated", 0, <<>>, NoHit, <<>>)
 <2>1. pushed' = <<>> /\ stream' = Append(stream, x) /\ UNCHANGED <<toTerminal, server, knows>>
  BY <1>5 DEF FindsGap, localVars
 <2>2. x \in SearchEvents /\ ~IsChange(x, m)
  BY PlainEventFacts DEF EventKinds, IsChange
 <2> HIDE DEF x
 <2>3. Ordered(knows, toTerminal, stream', pushed, server[m], m)
  BY <1>0, <1>01, <2>1, <2>2, OrderedQuiet
 <2>4. InTurn(pushed', m) /\ 1..Len(pushed') = {}
  BY <2>1, NothingFacts DEF InTurn
 <2> QED BY <2>1, <2>3, <2>4 DEF Ordered
<1>6. CASE \E h \in Hit : Changes(h)
 <2>1. PICK h \in Hit : Changes(h)
  BY <1>6
 <2>2. PICK e \in SearchEvents :
           /\ pushed' = Append(pushed, e) /\ e.kind = "change" /\ e.target = h
           /\ e.version > server[h] /\ e.version \in 1..Erased
           /\ server' = [server EXCEPT ![h] = e.version]
  BY <2>1, ChangesFacts
 <2>3. UNCHANGED <<toTerminal, stream, knows>>
  BY <2>1, ChangesFacts DEF localVars
 <2>4. CASE m = h
  <3>1. e.version \in Nat /\ server[m] <= e.version /\ server'[m] = e.version /\ server[m] \in Nat
   BY <1>0, <1>01, <2>2, <2>4, VersionFacts DEF Listed
  <3>2. Below(knows, toTerminal, m, e.version)
   BY <1>0, <1>01, <3>1, BelowMore DEF Ordered
  <3>3. /\ \A j \in 1..Len(stream) : stream[j].version \in Nat
        /\ \A j \in 1..Len(pushed) : pushed[j].version \in Nat
   BY <1>0, ElementFacts, VersionFacts
  <3>4. /\ \A j \in 1..Len(stream) : IsChange(stream[j], m) => stream[j].version <= e.version
        /\ \A j \in 1..Len(pushed) : IsChange(pushed[j], m) => pushed[j].version <= e.version
   BY <1>01, <3>1, <3>3 DEF Ordered
  <3>5. InTurn(pushed', m)
   BY <1>0, <1>01, <2>2, <3>4, InTurnAppend DEF Ordered
  <3>6. \A j \in 1..Len(pushed') : (j \in 1..Len(pushed) /\ pushed'[j] = pushed[j]) \/ pushed'[j] = e
   BY <1>0, <2>2, AppendedFacts
  <3>7. e.version <= e.version
   BY <3>1
  <3>8. \A j \in 1..Len(pushed') : IsChange(pushed'[j], m) =>
          /\ pushed'[j].version <= e.version /\ Below(knows, toTerminal, m, pushed'[j].version)
          /\ \A i \in 1..Len(stream) : IsChange(stream[i], m) => stream[i].version <= pushed'[j].version
   BY <1>01, <3>2, <3>4, <3>6, <3>7 DEF Ordered
  <3>9. InTurn(stream, m) /\ \A j \in 1..Len(stream) : IsChange(stream[j], m) =>
                               Below(knows, toTerminal, m, stream[j].version)
   BY <1>01 DEF Ordered
  <3> QED BY <2>3, <3>1, <3>2, <3>4, <3>5, <3>8, <3>9 DEF Ordered
 <2>5. CASE m # h
  <3>1. server'[m] = server[m] /\ ~IsChange(e, m)
   BY <1>0, <2>2, <2>5 DEF Listed, IsChange
  <3>2. InTurn(pushed', m)
   BY <1>0, <1>01, <2>2, <3>1, InTurnAppend DEF Ordered
  <3>3. \A j \in 1..Len(pushed') : (j \in 1..Len(pushed) /\ pushed'[j] = pushed[j]) \/ pushed'[j] = e
   BY <1>0, <2>2, AppendedFacts
  <3> QED BY <1>01, <2>3, <3>1, <3>2, <3>3 DEF Ordered
 <2> QED BY <2>4, <2>5
<1>7. CASE ReceivesChange
 <2>1. /\ pushed # <<>> /\ pushed' = Tail(pushed) /\ stream' = Append(stream, pushed[1])
       /\ UNCHANGED <<toTerminal, knows, server>>
  BY <1>0, <1>7, ShiftedFacts DEF ReceivesChange, localVars
 <2>2. 1 \in 1..Len(pushed) /\ pushed[1] \in SearchEvents /\ pushed' \in Seq(SearchEvents)
  BY <1>0, <2>1, ShiftedFacts, ElementFacts
 <2>3. \A j \in 1..Len(pushed') : pushed'[j] = pushed[j + 1] /\ j + 1 \in 1..Len(pushed)
  BY <1>0, <2>1, ShiftedFacts
 <2>4. \A j \in 1..Len(stream') : (j \in 1..Len(stream) /\ stream'[j] = stream[j]) \/ stream'[j] = pushed[1]
  BY <1>0, <2>1, <2>2, AppendedFacts
 <2>5. InTurn(pushed', m)
       /\ (IsChange(pushed[1], m) =>
             \A j \in 1..Len(pushed') : IsChange(pushed'[j], m) => pushed[1].version <= pushed'[j].version)
  BY <1>0, <1>01, <2>1, InTurnTail DEF Ordered
 <2>6. InTurn(stream', m)
  <3>1. IsChange(pushed[1], m) =>
          \A i \in 1..Len(stream) : IsChange(stream[i], m) => stream[i].version <= pushed[1].version
   BY <1>01, <2>2 DEF Ordered
  <3> QED BY <1>0, <1>01, <2>1, <2>2, <3>1, InTurnAppend DEF Ordered
 <2>7. \A j \in 1..Len(stream') : IsChange(stream'[j], m) =>
           stream'[j].version <= server[m] /\ Below(knows, toTerminal, m, stream'[j].version)
  BY <1>01, <2>2, <2>4 DEF Ordered
 <2>8. \A j \in 1..Len(pushed') : IsChange(pushed'[j], m) =>
           /\ pushed'[j].version <= server[m] /\ Below(knows, toTerminal, m, pushed'[j].version)
           /\ \A i \in 1..Len(stream') : IsChange(stream'[i], m) => stream'[i].version <= pushed'[j].version
  <3> SUFFICES ASSUME NEW j \in 1..Len(pushed'), IsChange(pushed'[j], m)
               PROVE  /\ pushed'[j].version <= server[m]
                      /\ Below(knows, toTerminal, m, pushed'[j].version)
                      /\ \A i \in 1..Len(stream') :
                           IsChange(stream'[i], m) => stream'[i].version <= pushed'[j].version
   OBVIOUS
  <3>1. pushed'[j] = pushed[j + 1] /\ j + 1 \in 1..Len(pushed)
   BY <2>3
  <3>2. /\ pushed[j + 1].version <= server[m] /\ Below(knows, toTerminal, m, pushed[j + 1].version)
        /\ \A i \in 1..Len(stream) : IsChange(stream[i], m) => stream[i].version <= pushed[j + 1].version
   BY <1>01, <3>1 DEF Ordered
  <3> QED BY <2>4, <2>5, <3>1, <3>2
 <2>9. Below(knows, toTerminal, m, server[m])
  BY <1>01 DEF Ordered
 <2> QED BY <2>1, <2>5, <2>6, <2>7, <2>8, <2>9 DEF Ordered
<1>8. CASE PanelAsks
 <2>1. UNCHANGED <<stream, pushed, server>> /\ UNCHANGED <<toTerminal, knows>>
  BY <1>8, PanelAsksFacts DEF networkVars
 <2> QED BY <1>01, <2>1
<1>9. CASE TakeSearchCommand \/ ScanEnds
 <2>1. UNCHANGED <<stream, pushed, server>>
  BY <1>9, TakenFacts, ScanEndsFacts DEF networkVars
 <2> QED BY <1>1, <1>2, <2>1
<1> QED BY <1>1, <1>2, <1>3, <1>4, <1>5, <1>6, <1>7, <1>8, <1>9
     DEF SearchNext, PanelAsks, ReopenSearch, HandleSearchEvent, StartPending, Scan, FlushBatch, Answers,
         localVars, networkVars

-------------------------------------------------------------------------------
(* The answers of the server. *)
LEMMA ReadCovers ==
  ASSUME NEW k, NEW q, NEW k2, NEW q2, NEW s, NEW c, NEW p, NEW r, NEW h \in HitLists,
         Covers(k, q, k2, q2), ReadInTime(k, q, s, c, p, r, h)
  PROVE  ReadInTime(k2, q2, s, c, p, r, h)
<1>1. \A m \in DOMAIN h : m \in Hit /\ h[m] \in Nat
 BY HitListFacts, VersionFacts
<1>2. \A m \in DOMAIN h : Below(k, q, m, h[m]) => Below(k2, q2, m, h[m])
 BY <1>1 DEF Covers
<1> QED BY <1>2 DEF ReadInTime

LEMMA ReadAppend ==
  ASSUME NEW k, NEW q, NEW s \in Seq(SearchEvents), NEW c, NEW p \in 1..Len(s) + 1, NEW r,
         NEW h \in HitLists, NEW e \in SearchEvents, ReadInTime(k, q, s, c, p, r, h)
  PROVE  ReadInTime(k, q, Append(s, e), c, p, r, h)
<1> DEFINE t == Append(s, e)
<1>1. /\ Len(s) \in Nat /\ Len(t) = Len(s) + 1
      /\ \A i \in 1..Len(s) : t[i] = s[i]
      /\ \A i \in 1..Len(s) + 1 : i \in 1..Len(s) \/ i = Len(s) + 1
 BY AppendedFacts
<1> HIDE DEF t
<1>2. \A l \in 1..Len(t) : l < p => l \in 1..Len(s) /\ t[l] = s[l]
 BY <1>1
<1>3. \A l \in 1..Len(s) : l \in 1..Len(t)
 BY <1>1
<1> SUFFICES ReadInTime(k, q, t, c, p, r, h)
 BY DEF t
<1> SUFFICES ASSUME NEW m \in DOMAIN h
             PROVE  /\ \A l \in 1..Len(t) : l < p /\ Loads(t[l], r) =>
                        /\ Below(k, q, m, h[m])
                        /\ \A j \in 1..Len(t) : j < l /\ IsChange(t[j], m) => t[j].version <= h[m]
                    /\ (\A l \in 1..Len(t) : l < p => ~Loads(t[l], r)) =>
                        c.request # r \/ m \in c.changed \/ Below(k, q, m, h[m])
 BY DEF ReadInTime
<1>4. ASSUME NEW l \in 1..Len(t), l < p, Loads(t[l], r)
      PROVE  /\ Below(k, q, m, h[m])
             /\ \A j \in 1..Len(t) : j < l /\ IsChange(t[j], m) => t[j].version <= h[m]
 <2>1. l \in 1..Len(s) /\ Loads(s[l], r)
  BY <1>2, <1>4
 <2>2. /\ Below(k, q, m, h[m])
       /\ \A j \in 1..Len(s) : j < l /\ IsChange(s[j], m) => s[j].version <= h[m]
  BY <1>4, <2>1 DEF ReadInTime
 <2>3. \A j \in 1..Len(t) : j < l => j \in 1..Len(s) /\ t[j] = s[j]
  BY <1>1, <2>1
 <2> QED BY <2>2, <2>3
<1>5. (\A l \in 1..Len(t) : l < p => ~Loads(t[l], r)) => (\A l \in 1..Len(s) : l < p => ~Loads(s[l], r))
 BY <1>1, <1>3
<1> QED BY <1>4, <1>5 DEF ReadInTime

(* What follows an answer that is read, before it comes. *)
LEMMA ReadAppendLast ==
  ASSUME NEW k, NEW q, NEW s \in Seq(SearchEvents), NEW c, NEW r,
         NEW h \in HitLists, NEW e \in SearchEvents, e.kind # "loading",
         ReadInTime(k, q, s, c, Len(s) + 1, r, h)
  PROVE  ReadInTime(k, q, Append(s, e), c, Len(Append(s, e)) + 1, r, h)
<1> DEFINE t == Append(s, e)
           n == Len(s)
<1>1. n \in Nat /\ Len(t) = n + 1 /\ t[n + 1] = e
 BY AppendedFacts
<1>2. ReadInTime(k, q, t, c, n + 1, r, h)
 <2>1. n + 1 \in 1..n + 1
  BY <1>1
 <2> QED BY <2>1, ReadAppend
<1>3. ~Loads(t[n + 1], r)
 BY <1>1 DEF Loads
<1> HIDE DEF t, n
<1>4. \A l \in 1..Len(t) : l < Len(t) + 1 /\ Loads(t[l], r) => l < n + 1
 <2> SUFFICES ASSUME NEW l \in 1..Len(t), Loads(t[l], r) PROVE l < n + 1
  OBVIOUS
 <2>1. l # n + 1
  BY <1>3
 <2> QED BY <1>1, <2>1
<1>5. \A l \in 1..Len(t) : l < n + 1 => l < Len(t) + 1
 BY <1>1
<1>6. ReadInTime(k, q, t, c, Len(t) + 1, r, h)
 BY <1>2, <1>4, <1>5 DEF ReadInTime
<1> QED BY <1>6 DEF t

(* What the cache keeps of a search when an event is told. *)
KeepsPosition(c, c2, e, r) ==
    Loads(e, r) \/ c2.request # r \/
        /\ c2.request = c.request /\ c.changed \subseteq c2.changed
        /\ \A m \in Hit : IsChange(e, m) => m \in c2.changed

LEMMA ReadTold ==
  ASSUME NEW k, NEW q, NEW k2, NEW q2, NEW s \in Seq(SearchEvents), NEW c, NEW c2,
         NEW p \in 2..Len(s) + 1, NEW r, NEW h \in HitLists, s # <<>>,
         ReadInTime(k, q, s, c, p, r, h), IsTold(k, q, k2, q2, s[1]), KeepsPosition(c, c2, s[1], r)
  PROVE  ReadInTime(k2, q2, Tail(s), c2, p - 1, r, h)
<1> DEFINE t == Tail(s)
<1>1. /\ Len(s) \in Nat /\ Len(t) = Len(s) - 1 /\ 1 \in 1..Len(s)
      /\ \A i \in 1..Len(s) - 1 : t[i] = s[i + 1] /\ i + 1 \in 1..Len(s)
 BY ShiftedFacts
<1> HIDE DEF t
<1>2. \A m \in DOMAIN h : m \in Hit /\ h[m] \in Nat
 BY HitListFacts, VersionFacts
<1> SUFFICES ASSUME NEW m \in DOMAIN h
             PROVE  /\ \A l \in 1..Len(t) : l < p - 1 /\ Loads(t[l], r) =>
                        /\ Below(k2, q2, m, h[m])
                        /\ \A j \in 1..Len(t) : j < l /\ IsChange(t[j], m) => t[j].version <= h[m]
                    /\ (\A l \in 1..Len(t) : l < p - 1 => ~Loads(t[l], r)) =>
                        c2.request # r \/ m \in c2.changed \/ Below(k2, q2, m, h[m])
 BY DEF ReadInTime, t
<1>3. Below(k, q, m, h[m]) /\ (IsChange(s[1], m) => s[1].version <= h[m]) => Below(k2, q2, m, h[m])
 BY <1>2 DEF IsTold
<1>4. ASSUME NEW l \in 1..Len(t), l < p - 1, Loads(t[l], r)
      PROVE  /\ Below(k2, q2, m, h[m])
             /\ \A j \in 1..Len(t) : j < l /\ IsChange(t[j], m) => t[j].version <= h[m]
 <2>1. l + 1 \in 1..Len(s) /\ Loads(s[l + 1], r) /\ l + 1 < p /\ 1 < l + 1
  BY <1>1, <1>4
 <2>2. /\ Below(k, q, m, h[m])
       /\ \A j \in 1..Len(s) : j < l + 1 /\ IsChange(s[j], m) => s[j].version <= h[m]
  BY <2>1 DEF ReadInTime
 <2>3. Below(k2, q2, m, h[m])
  BY <1>1, <1>3, <2>1, <2>2
 <2>4. ASSUME NEW j \in 1..Len(t), j < l, IsChange(t[j], m)
       PROVE  t[j].version <= h[m]
  <3>1. j + 1 \in 1..Len(s) /\ t[j] = s[j + 1] /\ j + 1 < l + 1
   BY <1>1, <2>4
  <3> QED BY <2>2, <2>4, <3>1
 <2> QED BY <2>3, <2>4
<1>5. ASSUME \A l \in 1..Len(t) : l < p - 1 => ~Loads(t[l], r)
      PROVE  c2.request # r \/ m \in c2.changed \/ Below(k2, q2, m, h[m])
 <2>1. CASE Loads(s[1], r)
  <3>1. ~IsChange(s[1], m)
   BY <2>1 DEF Loads, IsChange
  <3>2. Below(k, q, m, h[m])
   <4>1. 1 < p
    OBVIOUS
   <4> QED BY <1>1, <2>1, <4>1 DEF ReadInTime
  <3> QED BY <1>3, <3>1, <3>2
 <2>2. CASE ~Loads(s[1], r) /\ c2.request = r
  <3>1. /\ c2.request = c.request /\ c.changed \subseteq c2.changed
        /\ IsChange(s[1], m) => m \in c2.changed
   BY <1>2, <2>2 DEF KeepsPosition
  <3>2. ASSUME NEW l \in 1..Len(s), l < p
        PROVE  ~Loads(s[l], r)
   <4>1. CASE l = 1
    BY <2>2, <4>1
   <4>2. CASE l # 1
    <5> DEFINE i == l - 1
    <5>1. i \in 1..Len(t) /\ i + 1 = l /\ i < p - 1
     BY <1>1, <3>2, <4>2
    <5> HIDE DEF i
    <5>2. t[i] = s[l]
     BY <1>1, <5>1
    <5> QED BY <1>5, <5>1, <5>2
   <4> QED BY <4>1, <4>2
  <3>3. c.request # r \/ m \in c.changed \/ Below(k, q, m, h[m])
   BY <3>2 DEF ReadInTime
  <3> QED BY <1>3, <2>2, <3>1, <3>3
 <2> QED BY <2>1, <2>2
<1> QED BY <1>4, <1>5

LEMMA ToldFacts ==
  ASSUME SearchShape, TakeStream
  PROVE  /\ IsTold(knows, toTerminal, knows', toTerminal', stream[1])
         /\ \A r \in Nat : r >= 1 => KeepsPosition(cloud, cloud', stream[1], r)
<1> DEFINE e == stream[1]
<1>1. /\ e \in SearchEvents /\ EventIsWhole(e) /\ knows' = knows /\ Head(stream) = e
      /\ \/ TellsChange(e) \/ TellsLoading(e) \/ TellsCancelled(e)
         \/ TellsAnswer(e) \/ TellsFailure(e) \/ TellsInvalidation(e)
 BY TakeStreamFacts
<1>2. /\ toTerminal \in Seq(SearchEvents) /\ cloud \in [request : Nat, changed : SUBSET Hit]
 BY DEF SearchShape, EventsShape, AreWhole, RestShape
<1> HIDE DEF e
<1>3. IsTold(knows, toTerminal, knows', toTerminal', e)
 <2>1. \/ toTerminal' = toTerminal
       \/ \E x \in SearchEvents : toTerminal' = Append(toTerminal, x) /\ (x.kind = "change" => x = e)
  BY <1>1, ToldIsWhole
 <2>2. ASSUME NEW m \in Hit, NEW v \in Nat, Below(knows, toTerminal, m, v), IsChange(e, m) => e.version <= v
       PROVE  Below(knows', toTerminal', m, v)
  <3>1. CASE toTerminal' = toTerminal
   BY <1>1, <2>2, <3>1
  <3>2. CASE toTerminal' # toTerminal
   <4>1. PICK x \in SearchEvents : toTerminal' = Append(toTerminal, x) /\ (x.kind = "change" => x = e)
    BY <2>1, <3>2
   <4>2. IsChange(x, m) => x.version <= v
    BY <2>2, <4>1 DEF IsChange
   <4> QED BY <1>1, <1>2, <2>2, <4>1, <4>2, BelowAppend
  <3> QED BY <3>1, <3>2
 <2> QED BY <2>2 DEF IsTold
<1>4. ASSUME NEW r \in Nat, r >= 1
      PROVE  KeepsPosition(cloud, cloud', e, r)
 <2>1. e.request \in Nat
  BY <1>1 DEF SearchEvents
 <2>2. CASE TellsChange(e)
  <3>1. cloud' = [cloud EXCEPT !.changed = cloud.changed \cup {e.target}]
   BY <2>2 DEF TellsChange
  <3>2. cloud'.request = cloud.request /\ cloud'.changed = cloud.changed \cup {e.target}
   BY <1>2, <3>1
  <3> QED BY <3>2 DEF KeepsPosition, IsChange
 <2>3. CASE TellsLoading(e)
  <3>1. cloud'.request = e.request /\ e.kind = "loading"
   BY <2>3 DEF TellsLoading
  <3> QED BY <3>1 DEF KeepsPosition, Loads
 <2>4. CASE TellsCancelled(e) \/ TellsFailure(e)
  <3>1. cloud' \in {cloud, [cloud EXCEPT !.request = 0]} /\ e.kind # "change"
   BY <2>4 DEF TellsCancelled, TellsFailure
  <3>2. cloud' = cloud \/ cloud'.request # r
   BY <1>2, <1>4, <3>1
  <3> QED BY <3>1, <3>2 DEF KeepsPosition, IsChange
 <2>5. CASE TellsAnswer(e)
  <3>1. cloud' \in {cloud, [cloud EXCEPT !.request = 0]} /\ e.kind # "change"
   BY <1>1, <2>5, AnswerFacts
  <3>2. cloud' = cloud \/ cloud'.request # r
   BY <1>2, <1>4, <3>1
  <3> QED BY <3>1, <3>2 DEF KeepsPosition, IsChange
 <2>6. CASE TellsInvalidation(e)
  <3>1. cloud'.request # r
   BY <1>4, <2>6 DEF TellsInvalidation
  <3> QED BY <3>1 DEF KeepsPosition
 <2> QED BY <1>1, <2>2, <2>3, <2>4, <2>5, <2>6
<1> QED BY <1>3, <1>4 DEF e

(* The answer of the search that the cache follows is as new as all that was told. *)
LEMMA AnswerIsCurrent ==
  ASSUME SearchShape, ToldIsLast, AnswersInTime, stream # <<>>,
         IsAnswer(stream[1]), cloud.request = stream[1].request,
         NEW h \in HitLists,
         \A m \in DOMAIN h :
            /\ m \in Hit /\ m \in DOMAIN stream[1].hits /\ h[m] \in 1..MaxVersion
            /\ h[m] = IF m \in cloud.changed THEN told[m] ELSE stream[1].hits[m]
  PROVE  \A m \in DOMAIN h : Below(knows, toTerminal, m, h[m])
<1> SUFFICES ASSUME NEW m \in DOMAIN h PROVE Below(knows, toTerminal, m, h[m])
 OBVIOUS
<1>1. 1 \in 1..Len(stream)
 BY ShiftedFacts DEF SearchShape, EventsShape, AreWhole
<1>2. ReadInTime(knows, toTerminal, stream, cloud, 1, stream[1].request, stream[1].hits)
 BY <1>1 DEF AnswersInTime
<1>3. CASE m \in cloud.changed
 <2>1. told[m] # 0 /\ h[m] = told[m] /\ m \in Hit
  BY <1>3 DEF SearchShape, RestShape
 <2> QED BY <2>1 DEF ToldIsLast
<1>4. CASE m \notin cloud.changed
 <2>1. m \in DOMAIN stream[1].hits /\ h[m] = stream[1].hits[m]
  BY <1>4
 <2>2. \A l \in 1..Len(stream) : ~(l < 1)
  OBVIOUS
 <2>3. (\A l \in 1..Len(stream) : l < 1 => ~Loads(stream[l], stream[1].request)) =>
           \/ cloud.request # stream[1].request \/ m \in cloud.changed
           \/ Below(knows, toTerminal, m, stream[1].hits[m])
  BY <1>2, <2>1 DEF ReadInTime
 <2>4. Below(knows, toTerminal, m, stream[1].hits[m])
  BY <1>4, <2>2, <2>3
 <2> QED BY <2>1, <2>4
<1> QED BY <1>3, <1>4

LEMMA ToldIsLastStep ==
  ASSUME SearchShape, VersionsInOrder, ToldIsLast, AnswersInTime, SearchNext
  PROVE  ToldIsLast'
<1>0. /\ toTerminal \in Seq(SearchEvents) /\ stream \in Seq(SearchEvents) /\ AreWhole(stream)
      /\ knows \in Listed /\ told \in Listed
 BY DEF SearchShape, EventsShape, AreWhole, RestShape
<1>1. CASE told' = told /\ (TakeStream => Head(stream).kind # "change")
 <2>1. Covers(knows, toTerminal, knows', toTerminal')
  BY <1>1, StepCovers
 <2>2. \A m \in Hit : told[m] \in Nat
  BY <1>0, VersionFacts
 <2> QED BY <1>1, <2>1, <2>2 DEF ToldIsLast, Covers
<1>2. CASE TakeStream
 <2> DEFINE e == stream[1]
 <2>1. /\ stream # <<>> /\ knows' = knows /\ Head(stream) = e /\ e \in SearchEvents /\ EventIsWhole(e)
       /\ \/ TellsChange(e) \/ TellsLoading(e) \/ TellsCancelled(e)
          \/ TellsAnswer(e) \/ TellsFailure(e) \/ TellsInvalidation(e)
  BY <1>2, TakeStreamFacts
 <2>2. 1 \in 1..Len(stream)
  BY <1>0, <2>1, ShiftedFacts
 <2> HIDE DEF e
 <2>3. CASE TellsChange(e)
  <3>1. /\ e.kind = "change" /\ told' = [told EXCEPT ![e.target] = e.version]
        /\ toTerminal' = Append(toTerminal, e) /\ e.target \in Hit /\ e.version \in Nat
   BY <2>1, <2>3, VersionFacts DEF TellsChange, EventIsWhole
  <3>2. ASSUME NEW m \in Hit
        PROVE  told'[m] = 0 \/ Below(knows', toTerminal', m, told'[m])
   <4>1. CASE m = e.target
    <5>1. IsChange(e, m) /\ told'[m] = e.version
     BY <1>0, <3>1, <4>1 DEF IsChange, Listed
    <5>2. Below(knows, toTerminal, m, e.version)
     BY <2>2, <5>1 DEF VersionsInOrder, Ordered, e
    <5>3. e.version <= e.version
     BY <3>1
    <5>4. Below(knows, Append(toTerminal, e), m, e.version)
     BY <1>0, <2>1, <5>2, <5>3, BelowAppend
    <5> QED BY <2>1, <3>1, <5>1, <5>4
   <4>2. CASE m # e.target
    <5>1. ~IsChange(e, m) /\ told'[m] = told[m]
     BY <1>0, <3>1, <4>2 DEF IsChange, Listed
    <5>2. told[m] = 0 \/ Below(knows, toTerminal, m, told[m])
     BY DEF ToldIsLast
    <5> QED BY <1>0, <2>1, <3>1, <5>1, <5>2, BelowAppend
   <4> QED BY <4>1, <4>2
  <3> QED BY <3>2 DEF ToldIsLast
 <2>4. CASE TellsLoading(e) \/ TellsCancelled(e) \/ TellsFailure(e)
  BY <1>1, <2>1, <2>4 DEF TellsLoading, TellsCancelled, TellsFailure
 <2>5. CASE TellsAnswer(e)
  <3>1. e.kind \in {"cloud", "context"} /\ e.kind # "change"
   BY <2>1, <2>5, AnswerFacts
  <3>2. CASE told' = told
   BY <1>1, <2>1, <3>1, <3>2
  <3>3. CASE told' # told
   <4>1. PICK h \in HitLists :
           /\ told' = [m \in Hit |-> IF m \in DOMAIN h THEN h[m] ELSE told[m]]
           /\ \A m \in DOMAIN h :
                 /\ m \in Hit /\ m \in DOMAIN e.hits /\ h[m] \in 1..MaxVersion
                 /\ h[m] = IF m \in cloud.changed THEN told[m] ELSE e.hits[m]
           /\ cloud.request = e.request
    BY <2>1, <2>5, <3>3, AnswerFacts
   <4>2. \A m \in DOMAIN h : Below(knows, toTerminal, m, h[m])
    BY <2>1, <3>1, <4>1, AnswerIsCurrent DEF e, IsAnswer
   <4>3. Covers(knows, toTerminal, knows', toTerminal')
    BY <2>1, <3>1, StepCovers
   <4>4. ASSUME NEW m \in Hit
         PROVE  told'[m] = 0 \/ Below(knows', toTerminal', m, told'[m])
    <5>1. CASE m \in DOMAIN h
     <6>1. told'[m] = h[m] /\ h[m] \in Nat
      BY <4>1, <5>1
     <6> QED BY <4>2, <4>3, <5>1, <6>1 DEF Covers
    <5>2. CASE m \notin DOMAIN h
     <6>1. told'[m] = told[m] /\ told[m] \in Nat
      BY <1>0, <4>1, <5>2, VersionFacts
     <6> QED BY <4>3, <6>1 DEF Covers, ToldIsLast
    <5> QED BY <5>1, <5>2
   <4> QED BY <4>4 DEF ToldIsLast
  <3> QED BY <3>2, <3>3
 <2>6. CASE TellsInvalidation(e)
  BY <2>6 DEF TellsInvalidation, ToldIsLast
 <2> QED BY <2>1, <2>3, <2>4, <2>5, <2>6
<1>3. CASE PanelAsks
 <2>1. UNCHANGED <<toTerminal, knows, told>>
  BY <1>3, PanelAsksFacts
 <2> QED BY <2>1 DEF ToldIsLast
<1>4. CASE told' = told /\ ~TakeStream
 BY <1>1, <1>4
<1>5. CASE TakeSearchCommand \/ ScanEnds \/ HandleSearch
 BY <1>2, <1>4, <1>5, TakenFacts, ScanEndsFacts, HandleSearchFacts
<1> QED BY <1>2, <1>3, <1>4, <1>5
     DEF SearchNext, PanelAsks, ReopenSearch, HandleSearchEvent, StartPending, Scan, FlushBatch, Answers,
         Complete, Changes, ReceivesChange, FindsGap, localVars

(* The events of the stream and the search in flight, as far as they carry an answer. *)
LEMMA AnswersInTimeStep ==
  ASSUME SearchShape, AllAreRight, VersionsInOrder, AnswersInTime, SearchNext
  PROVE  AnswersInTime'
<1>0. /\ toTerminal \in Seq(SearchEvents) /\ stream \in Seq(SearchEvents) /\ pushed \in Seq(SearchEvents)
      /\ knows \in Listed /\ Len(stream) \in Nat
      /\ flight.request \in Nat /\ flight.hits \in HitLists
      /\ \A i \in 1..Len(stream) : stream[i] \in SearchEvents /\ stream[i].hits \in HitLists
                                   /\ stream[i].request \in Nat
 <2>1. /\ toTerminal \in Seq(SearchEvents) /\ stream \in Seq(SearchEvents) /\ pushed \in Seq(SearchEvents)
       /\ knows \in Listed /\ flight.request \in Nat /\ flight.hits \in HitLists
  BY DEF SearchShape, EventsShape, AreWhole, RestShape
 <2>2. \A i \in 1..Len(stream) : stream[i] \in SearchEvents
  BY <2>1, ElementFacts
 <2>3. \A e \in SearchEvents : e.hits \in HitLists /\ e.request \in Nat
  BY DEF SearchEvents
 <2> QED BY <2>1, <2>2, <2>3
<1>1. CASE ~TakeStream /\ UNCHANGED <<stream, cloud, flight>>
 <2>1. Covers(knows, toTerminal, knows', toTerminal')
  BY <1>1, StepCovers
 <2>2. flight'.read => ReadInTime(knows', toTerminal', stream', cloud', Len(stream') + 1,
                                  flight'.request, flight'.hits)
  BY <1>0, <1>1, <2>1, ReadCovers DEF AnswersInTime
 <2>3. \A p \in 1..Len(stream') : IsAnswer(stream'[p]) =>
           ReadInTime(knows', toTerminal', stream', cloud', p, stream'[p].request, stream'[p].hits)
  BY <1>0, <1>1, <2>1, ReadCovers DEF AnswersInTime
 <2> QED BY <2>2, <2>3 DEF AnswersInTime
<1>2. CASE TakeStream
 <2>1. stream # <<>> /\ stream' = Tail(stream) /\ flight' = flight
  BY <1>2, TakeStreamFacts
 <2>2. /\ Len(stream') = Len(stream) - 1 /\ Len(stream) >= 1
       /\ \A i \in 1..Len(stream') : stream'[i] = stream[i + 1] /\ i + 1 \in 1..Len(stream)
  BY <1>0, <2>1, ShiftedFacts
 <2>3. /\ IsTold(knows, toTerminal, knows', toTerminal', stream[1])
       /\ \A r \in Nat : r >= 1 => KeepsPosition(cloud, cloud', stream[1], r)
  BY <1>2, ToldFacts
 <2>4. ASSUME flight.read
       PROVE  ReadInTime(knows', toTerminal', stream', cloud', Len(stream') + 1,
                         flight.request, flight.hits)
  <3>1. flight # NoFlight
   BY <2>4 DEF NoFlight
  <3>2. flight.request >= 1
   BY <3>1 DEF AllAreRight, FlightIsRight
  <3>3. KeepsPosition(cloud, cloud', stream[1], flight.request)
   BY <1>0, <2>3, <3>2
  <3>4. ReadInTime(knows, toTerminal, stream, cloud, Len(stream) + 1, flight.request, flight.hits)
   BY <2>4 DEF AnswersInTime
  <3>5. Len(stream) + 1 \in 2..Len(stream) + 1 /\ Len(stream) + 1 - 1 = Len(stream') + 1
   BY <1>0, <2>2
  <3> DEFINE n == Len(stream) + 1
  <3>6. n \in 2..Len(stream) + 1 /\ n - 1 = Len(stream') + 1
        /\ ReadInTime(knows, toTerminal, stream, cloud, n, flight.request, flight.hits)
   BY <3>4, <3>5
  <3> HIDE DEF n
  <3>7. ReadInTime(knows', toTerminal', Tail(stream), cloud', n - 1, flight.request, flight.hits)
   BY <1>0, <2>1, <2>3, <3>3, <3>6, ReadTold
  <3> QED BY <2>1, <3>6, <3>7
 <2>5. ASSUME NEW p \in 1..Len(stream'), IsAnswer(stream'[p])
       PROVE  ReadInTime(knows', toTerminal', stream', cloud', p, stream'[p].request, stream'[p].hits)
  <3>1. stream'[p] = stream[p + 1] /\ p + 1 \in 1..Len(stream)
   BY <2>2
  <3>2. /\ stream[p + 1].request \in Nat /\ stream[p + 1].hits \in HitLists
        /\ stream[p + 1].request >= 1
   BY <1>0, <2>5, <3>1 DEF AllAreRight, EventIsRight, IsAnswer
  <3>3. KeepsPosition(cloud, cloud', stream[1], stream[p + 1].request)
   BY <2>3, <3>2
  <3>4. ReadInTime(knows, toTerminal, stream, cloud, p + 1, stream[p + 1].request, stream[p + 1].hits)
   BY <2>5, <3>1 DEF AnswersInTime
  <3>5. p + 1 \in 2..Len(stream) + 1 /\ p + 1 - 1 = p
   BY <1>0, <2>2, <3>1
  <3> DEFINE n == p + 1
  <3>6. n \in 2..Len(stream) + 1 /\ n - 1 = p
        /\ ReadInTime(knows, toTerminal, stream, cloud, n, stream[n].request, stream[n].hits)
        /\ stream'[p] = stream[n] /\ stream[n].hits \in HitLists
        /\ KeepsPosition(cloud, cloud', stream[1], stream[n].request)
   BY <3>1, <3>2, <3>3, <3>4, <3>5
  <3> HIDE DEF n
  <3>7. ReadInTime(knows', toTerminal', Tail(stream), cloud', n - 1, stream[n].request, stream[n].hits)
   BY <1>0, <2>1, <2>3, <3>6, ReadTold
  <3> QED BY <2>1, <3>6, <3>7
 <2> QED BY <2>1, <2>4, <2>5 DEF AnswersInTime
<1>r. \A s \in Seq(SearchEvents), e \in SearchEvents :
        /\ \A p \in 1..Len(s) : IsAnswer(s[p]) =>
              ReadInTime(knows, toTerminal, s, cloud, p, s[p].request, s[p].hits)
        /\ IsAnswer(e) => ReadInTime(knows, toTerminal, s, cloud, Len(s) + 1, e.request, e.hits)
        => \A p \in 1..Len(Append(s, e)) : IsAnswer(Append(s, e)[p]) =>
              ReadInTime(knows, toTerminal, Append(s, e), cloud, p, Append(s, e)[p].request,
                         Append(s, e)[p].hits)
 <2> TAKE s \in Seq(SearchEvents), e \in SearchEvents
 <2> HAVE /\ \A p \in 1..Len(s) : IsAnswer(s[p]) =>
               ReadInTime(knows, toTerminal, s, cloud, p, s[p].request, s[p].hits)
          /\ IsAnswer(e) => ReadInTime(knows, toTerminal, s, cloud, Len(s) + 1, e.request, e.hits)
 <2> DEFINE t == Append(s, e)
 <2>1. /\ Len(s) \in Nat /\ Len(t) = Len(s) + 1 /\ t[Len(s) + 1] = e
       /\ \A i \in 1..Len(s) : t[i] = s[i]
       /\ \A i \in 1..Len(s) + 1 : i \in 1..Len(s) \/ i = Len(s) + 1
  BY AppendedFacts
 <2>2. \A x \in SearchEvents : x.hits \in HitLists
  BY DEF SearchEvents
 <2>3. \A i \in 1..Len(s) : s[i] \in SearchEvents
  BY ElementFacts
 <2>4. ASSUME NEW p \in 1..Len(t), IsAnswer(t[p])
       PROVE  ReadInTime(knows, toTerminal, t, cloud, p, t[p].request, t[p].hits)
  <3>1. CASE p \in 1..Len(s)
   <4>1. t[p] = s[p] /\ p \in 1..Len(s) + 1 /\ s[p].hits \in HitLists
    BY <2>1, <2>2, <2>3, <3>1
   <4>2. ReadInTime(knows, toTerminal, s, cloud, p, s[p].request, s[p].hits)
    BY <2>4, <3>1, <4>1
   <4> QED BY <4>1, <4>2, ReadAppend
  <3>2. CASE p = Len(s) + 1
   <4>1. t[p] = e /\ p \in 1..Len(s) + 1 /\ e.hits \in HitLists
    BY <2>1, <2>2, <3>2
   <4>2. ReadInTime(knows, toTerminal, s, cloud, p, e.request, e.hits)
    BY <2>4, <3>2, <4>1
   <4> QED BY <4>1, <4>2, ReadAppend
  <3> QED BY <2>1, <3>1, <3>2
 <2> QED BY <2>4
<1>q. ASSUME NEW e \in SearchEvents, ~IsAnswer(e), e.kind # "loading", stream' = Append(stream, e),
             UNCHANGED <<knows, toTerminal, cloud, flight>>
      PROVE  AnswersInTime'
 <2>1. \A p \in 1..Len(stream') : IsAnswer(stream'[p]) =>
           ReadInTime(knows, toTerminal, stream', cloud, p, stream'[p].request, stream'[p].hits)
  BY <1>0, <1>q, <1>r DEF AnswersInTime
 <2>2. flight.read =>
           ReadInTime(knows, toTerminal, stream', cloud, Len(stream') + 1, flight.request, flight.hits)
  BY <1>0, <1>q, ReadAppendLast DEF AnswersInTime
 <2> QED BY <1>q, <2>1, <2>2 DEF AnswersInTime
<1>3. CASE HandleSearch
 <2>1. waiting[1] \in SearchCommands /\ UNCHANGED <<knows, toTerminal, cloud>>
  BY <1>3, HandleSearchFacts
 <2> DEFINE cancelled == Event("cancelled", flight.request, <<>>, NoHit, <<>>)
            begun == Event("loading", waiting[1].request, <<>>, NoHit, <<>>)
 <2>2. PICK s : /\ s = stream \/ s = Append(stream, cancelled)
                /\ stream' = s \/ stream' = Append(s, begun)
  BY <1>3, HandleSearchFacts
 <2>3. waiting[1].request \in Nat
  BY <2>1 DEF SearchCommands
 <2>4. /\ cancelled \in SearchEvents /\ ~IsAnswer(cancelled)
       /\ begun \in SearchEvents /\ ~IsAnswer(begun)
  BY <1>0, <2>3, PlainEventFacts DEF EventKinds, IsAnswer
 <2> HIDE DEF cancelled, begun
 <2>5. s \in Seq(SearchEvents)
       /\ \A p \in 1..Len(s) : IsAnswer(s[p]) =>
             ReadInTime(knows, toTerminal, s, cloud, p, s[p].request, s[p].hits)
  <3>1. CASE s = stream
   BY <1>0, <3>1 DEF AnswersInTime
  <3>2. CASE s = Append(stream, cancelled)
   <4>1. s \in Seq(SearchEvents)
    BY <1>0, <2>4, <3>2, AppendedFacts
   <4> QED BY <1>0, <1>r, <2>4, <3>2, <4>1 DEF AnswersInTime
  <3> QED BY <2>2, <3>1, <3>2
 <2>6. \A p \in 1..Len(stream') : IsAnswer(stream'[p]) =>
           ReadInTime(knows, toTerminal, stream', cloud, p, stream'[p].request, stream'[p].hits)
  <3>1. CASE stream' = s
   BY <2>5, <3>1
  <3>2. CASE stream' = Append(s, begun)
   BY <1>r, <2>4, <2>5, <3>2
  <3> QED BY <2>2, <3>1, <3>2
 <2>7. ~flight'.read
  <3>1. \/ flight' = NoFlight
        \/ flight' = [NoFlight EXCEPT !.request = waiting[1].request,
                             !.asked = waiting[1].asked, !.target = waiting[1].target]
   BY <1>3, HandleSearchFacts
  <3>2. NoFlight.read = FALSE
   BY DEF NoFlight
  <3> QED BY <3>1, <3>2 DEF NoFlight
 <2> QED BY <2>1, <2>6, <2>7 DEF AnswersInTime
<1>4. CASE Answers
 <2>1. /\ flight' = [flight EXCEPT !.read = TRUE, !.hits = Messages(server)]
       /\ UNCHANGED <<knows, toTerminal, cloud, stream>>
  BY <1>4, NetworkFacts DEF localVars
 <2>2. flight'.hits = Messages(server) /\ flight'.request = flight.request
  BY <2>1 DEF SearchShape, RestShape
 <2>3. \A m \in DOMAIN Messages(server) : m \in Hit /\ Messages(server)[m] = server[m]
  BY HitListFacts DEF SearchShape, RestShape
 <2>4. ReadInTime(knows, toTerminal, stream, cloud, Len(stream) + 1, flight.request, Messages(server))
  <3>1. \A m \in DOMAIN Messages(server) :
          /\ Below(knows, toTerminal, m, Messages(server)[m])
          /\ \A j \in 1..Len(stream) : IsChange(stream[j], m) => stream[j].version <= Messages(server)[m]
   BY <2>3 DEF VersionsInOrder, Ordered
  <3> QED BY <3>1 DEF ReadInTime
 <2>5. \A p \in 1..Len(stream) : IsAnswer(stream[p]) =>
           ReadInTime(knows, toTerminal, stream, cloud, p, stream[p].request, stream[p].hits)
  BY DEF AnswersInTime
 <2> QED BY <2>1, <2>2, <2>4, <2>5 DEF AnswersInTime
<1>5. CASE Complete
 <2>1. flight.read /\ flight' = NoFlight /\ UNCHANGED <<knows, toTerminal, cloud>>
  BY <1>5, NetworkFacts DEF localVars
 <2>2. PICK e \in SearchEvents :
           /\ stream' = Append(stream, e) /\ e.request = flight.request
           /\ e.kind = "failed" \/ e.hits = flight.hits
  BY <1>5, NetworkFacts
 <2>3. IsAnswer(e) => ReadInTime(knows, toTerminal, stream, cloud, Len(stream) + 1, e.request, e.hits)
  BY <2>1, <2>2 DEF AnswersInTime, IsAnswer
 <2>4. \A p \in 1..Len(stream') : IsAnswer(stream'[p]) =>
           ReadInTime(knows, toTerminal, stream', cloud, p, stream'[p].request, stream'[p].hits)
  BY <1>0, <1>r, <2>2, <2>3 DEF AnswersInTime
 <2>5. ~flight'.read
  BY <2>1 DEF NoFlight
 <2> QED BY <2>1, <2>4, <2>5 DEF AnswersInTime
<1>6. CASE ReceivesChange
 <2>1. pushed # <<>> /\ stream' = Append(stream, Head(pushed)) /\ UNCHANGED <<knows, toTerminal, cloud, flight>>
  BY <1>6 DEF ReceivesChange, localVars
 <2>2. Head(pushed) \in SearchEvents /\ Head(pushed).kind = "change"
  BY <1>0, <2>1, ShiftedFacts DEF SearchShape, EventsShape
 <2> QED BY <1>q, <2>1, <2>2 DEF IsAnswer
<1>7. CASE FindsGap
 <2> DEFINE x == Event("invalidated", 0, <<>>, NoHit, <<>>)
 <2>1. stream' = Append(stream, x) /\ UNCHANGED <<knows, toTerminal, cloud, flight>>
  BY <1>7 DEF FindsGap, localVars
 <2>2. x \in SearchEvents /\ x.kind = "invalidated"
  BY PlainEventFacts DEF EventKinds
 <2> HIDE DEF x
 <2> QED BY <1>q, <2>1, <2>2 DEF IsAnswer
<1>8. CASE PanelAsks
 <2>1. UNCHANGED <<knows, toTerminal, cloud, stream, flight>>
  BY <1>8, PanelAsksFacts DEF networkVars
 <2> QED BY <2>1 DEF AnswersInTime
<1>9. CASE TakeSearchCommand \/ ScanEnds
 <2>1. UNCHANGED <<stream, cloud, flight>>
  BY <1>9, TakenFacts, ScanEndsFacts DEF networkVars
 <2> QED BY <1>1, <1>2, <2>1
<1> QED BY <1>1, <1>2, <1>3, <1>4, <1>5, <1>6, <1>7, <1>8, <1>9
     DEF SearchNext, PanelAsks, ReopenSearch, HandleSearchEvent, StartPending, Scan, FlushBatch,
         Changes, localVars, networkVars

-------------------------------------------------------------------------------
(* What the terminal is sent, and shows. *)
LEMMA ShownAppend ==
  ASSUME NEW k, NEW q \in Seq(SearchEvents), NEW e \in SearchEvents
  PROVE  /\ \A i \in 1..Len(q) : HitsAreCurrent(k, q, i) => HitsAreCurrent(k, Append(q, e), i)
         /\ (\A m \in DOMAIN e.hits : Below(k, q, m, e.hits[m])) =>
              HitsAreCurrent(k, Append(q, e), Len(q) + 1)
<1> DEFINE t == Append(q, e)
<1>1. /\ Len(q) \in Nat /\ Len(t) = Len(q) + 1 /\ t[Len(q) + 1] = e
      /\ \A i \in 1..Len(q) : t[i] = q[i]
      /\ \A i \in 1..Len(q) + 1 : i \in 1..Len(q) \/ i = Len(q) + 1
 BY AppendedFacts
<1> HIDE DEF t
<1>2. ASSUME NEW i \in 1..Len(q), HitsAreCurrent(k, q, i)
      PROVE  HitsAreCurrent(k, t, i)
 <2>1. t[i] = q[i] /\ \A j \in 1..Len(t) : j < i => j \in 1..Len(q) /\ t[j] = q[j]
  BY <1>1
 <2> QED BY <1>2, <2>1 DEF HitsAreCurrent
<1>3. ASSUME \A m \in DOMAIN e.hits : Below(k, q, m, e.hits[m])
      PROVE  HitsAreCurrent(k, t, Len(q) + 1)
 <2>1. \A j \in 1..Len(t) : j < Len(q) + 1 => j \in 1..Len(q) /\ t[j] = q[j]
  BY <1>1
 <2>2. \A m \in DOMAIN e.hits :
           /\ k[m] <= e.hits[m]
           /\ \A j \in 1..Len(q) : IsChange(q[j], m) => q[j].version <= e.hits[m]
  BY <1>3 DEF Below
 <2> QED BY <1>1, <2>1, <2>2 DEF HitsAreCurrent
<1> QED BY <1>2, <1>3 DEF t

LEMMA ShownTail ==
  ASSUME NEW k, NEW k2, NEW q \in Seq(SearchEvents), q # <<>>,
         NEW i \in 1..Len(q) - 1, HitsAreCurrent(k, q, i + 1), q[i + 1].hits \in HitLists,
         \A m \in Hit : k2[m] = k[m] \/ (IsChange(q[1], m) /\ k2[m] = q[1].version)
  PROVE  HitsAreCurrent(k2, Tail(q), i)
<1> DEFINE t == Tail(q)
<1>1. /\ Len(q) \in Nat /\ Len(t) = Len(q) - 1 /\ 1 \in 1..Len(q)
      /\ \A j \in 1..Len(q) - 1 : t[j] = q[j + 1] /\ j + 1 \in 1..Len(q)
 BY ShiftedFacts
<1> HIDE DEF t
<1>2. t[i] = q[i + 1] /\ 1 < i + 1
 BY <1>1
<1>3. ASSUME NEW m \in DOMAIN q[i + 1].hits
      PROVE  /\ k2[m] <= q[i + 1].hits[m]
             /\ \A j \in 1..Len(t) : j < i /\ IsChange(t[j], m) => t[j].version <= q[i + 1].hits[m]
 <2>1. /\ k[m] <= q[i + 1].hits[m]
       /\ \A j \in 1..Len(q) : j < i + 1 /\ IsChange(q[j], m) => q[j].version <= q[i + 1].hits[m]
  BY <1>3 DEF HitsAreCurrent
 <2>2. m \in Hit
  BY HitListFacts
 <2>3. k2[m] <= q[i + 1].hits[m]
  BY <1>1, <1>2, <2>1, <2>2
 <2>4. ASSUME NEW j \in 1..Len(t), j < i, IsChange(t[j], m)
       PROVE  t[j].version <= q[i + 1].hits[m]
  <3>1. j + 1 \in 1..Len(q) /\ t[j] = q[j + 1] /\ j + 1 < i + 1
   BY <1>1, <2>4
  <3> QED BY <2>1, <2>4, <3>1
 <2> QED BY <2>3, <2>4
<1> QED BY <1>2, <1>3 DEF HitsAreCurrent, t

LEMMA AllShownAppend ==
  ASSUME NEW k, NEW q \in Seq(SearchEvents), NEW e \in SearchEvents, AllShown(k, q),
         IsAnswer(e) => \A m \in DOMAIN e.hits : Below(k, q, m, e.hits[m])
  PROVE  AllShown(k, Append(q, e))
<1> DEFINE t == Append(q, e)
<1>1. /\ Len(q) \in Nat /\ Len(t) = Len(q) + 1 /\ t[Len(q) + 1] = e
      /\ \A i \in 1..Len(q) : t[i] = q[i]
      /\ \A i \in 1..Len(q) + 1 : i \in 1..Len(q) \/ i = Len(q) + 1
 BY AppendedFacts
<1>2. ASSUME NEW i \in 1..Len(q), IsAnswer(t[i])
      PROVE  HitsAreCurrent(k, t, i)
 BY <1>1, <1>2, ShownAppend DEF AllShown
<1>3. IsAnswer(e) => HitsAreCurrent(k, t, Len(q) + 1)
 BY ShownAppend
<1> HIDE DEF t
<1> QED BY <1>1, <1>2, <1>3 DEF AllShown, t

LEMMA AllShownTail ==
  ASSUME NEW k, NEW k2, NEW q \in Seq(SearchEvents), q # <<>>, AllShown(k, q),
         \A m \in Hit : k2[m] = k[m] \/ (IsChange(q[1], m) /\ k2[m] = q[1].version)
  PROVE  AllShown(k2, Tail(q))
<1>1. /\ Len(q) \in Nat /\ Len(Tail(q)) = Len(q) - 1
      /\ \A j \in 1..Len(q) - 1 : Tail(q)[j] = q[j + 1] /\ j + 1 \in 1..Len(q)
 BY ShiftedFacts
<1>2. ASSUME NEW i \in 1..Len(Tail(q)), IsAnswer(Tail(q)[i])
      PROVE  HitsAreCurrent(k2, Tail(q), i)
 <2>1. i \in 1..Len(q) - 1 /\ i + 1 \in 1..Len(q) /\ IsAnswer(q[i + 1])
  BY <1>1, <1>2
 <2>2. HitsAreCurrent(k, q, i + 1)
  BY <2>1 DEF AllShown
 <2>3. q[i + 1].hits \in HitLists
  <3>1. q[i + 1] \in SearchEvents
   BY <2>1, ElementFacts
  <3> QED BY <3>1 DEF SearchEvents
 <2> QED BY <2>1, <2>2, <2>3, ShownTail
<1> QED BY <1>2 DEF AllShown

LEMMA HandledKnows ==
  ASSUME SearchShape, HandleSearchEvent
  PROVE  /\ toTerminal # <<>> /\ toTerminal' = Tail(toTerminal) /\ Head(toTerminal) = toTerminal[1]
         /\ toTerminal[1] \in SearchEvents /\ EventIsWhole(toTerminal[1]) /\ 1 \in 1..Len(toTerminal)
         /\ \/ SearchResults(toTerminal[1]) \/ SearchFailed(toTerminal[1])
            \/ OpenSearchContext(toTerminal[1]) \/ ObserveChange(toTerminal[1])
            \/ ObserveInvalidation(toTerminal[1])
         /\ \A m \in Hit : knows'[m] = knows[m]
                           \/ (IsChange(toTerminal[1], m) /\ knows'[m] = toTerminal[1].version)
<1> DEFINE e == toTerminal[1]
<1>0. knows \in Listed
 BY DEF SearchShape, RestShape
<1>1. toTerminal # <<>> /\ toTerminal' = Tail(toTerminal) /\ Head(toTerminal) = e /\ e \in SearchEvents
      /\ EventIsWhole(e) /\ 1 \in 1..Len(toTerminal)
 BY WholeFacts, ShiftedFacts DEF HandleSearchEvent, SearchShape, EventsShape, AreWhole
<1>2. \/ SearchResults(e) \/ SearchFailed(e) \/ OpenSearchContext(e)
      \/ ObserveChange(e) \/ ObserveInvalidation(e)
 BY <1>1 DEF HandleSearchEvent
<1> HIDE DEF e
<1>3. \A m \in Hit : knows'[m] = knows[m] \/ (IsChange(e, m) /\ knows'[m] = e.version)
 <2>1. CASE ObserveChange(e)
  <3>1. /\ e.kind = "change" /\ knows' = [knows EXCEPT ![e.target] = e.version]
   BY <2>1 DEF ObserveChange
  <3> QED BY <1>0, <3>1 DEF IsChange, Listed
 <2>2. CASE ~ObserveChange(e)
  BY <1>2, <2>2 DEF SearchResults, SearchFailed, OpenSearchContext, ObserveInvalidation
 <2> QED BY <2>1, <2>2
<1> QED BY <1>1, <1>2, <1>3 DEF e

LEMMA AllShownStep ==
  ASSUME SearchShape, ToldIsLast, AnswersInTime, AllShown(knows, toTerminal), SearchNext
  PROVE  AllShown(knows', toTerminal')
<1>0. /\ toTerminal \in Seq(SearchEvents) /\ knows \in Listed /\ told \in Listed
 BY DEF SearchShape, EventsShape, AreWhole, RestShape
<1>1. CASE UNCHANGED <<toTerminal, knows>>
 BY <1>1
<1>2. CASE HandleSearchEvent
 BY <1>0, <1>2, HandledKnows, AllShownTail
<1>3. CASE TakeSearchCommand
 <2> DEFINE c == Head(toLocal)
            failed == Event("failed", c.request, <<>>, NoHit, <<>>)
            context == Event("context", c.request, <<>>, c.target, Messages(told))
 <2>1. /\ c \in SearchCommands
       /\ toTerminal' = toTerminal \/ toTerminal' = Append(toTerminal, failed)
          \/ toTerminal' = Append(toTerminal, context)
       /\ knows' = knows
  BY <1>3, TakenFacts
 <2>2. /\ failed \in SearchEvents /\ ~IsAnswer(failed)
       /\ context \in SearchEvents /\ context.hits = Messages(told)
  BY <2>1, TakenEvents DEF IsAnswer
 <2>3. \A m \in DOMAIN Messages(told) : Below(knows, toTerminal, m, Messages(told)[m])
  <3> TAKE m \in DOMAIN Messages(told)
  <3>1. m \in Hit /\ told[m] \in 1..MaxVersion /\ Messages(told)[m] = told[m]
   BY <1>0, HitListFacts
  <3> QED BY <3>1 DEF ToldIsLast
 <2> HIDE DEF c, failed, context
 <2> QED BY <1>0, <2>1, <2>2, <2>3, AllShownAppend
<1>4. CASE ScanEnds
 <2>1. /\ \/ toTerminal' = toTerminal
          \/ \E e \in SearchEvents : toTerminal' = Append(toTerminal, e) /\ e.kind \in {"local", "failed"}
       /\ knows' = knows
  BY <1>4, ScanEndsFacts
 <2>2. CASE toTerminal' = toTerminal
  BY <2>1, <2>2
 <2>3. CASE toTerminal' # toTerminal
  <3>1. PICK e \in SearchEvents : toTerminal' = Append(toTerminal, e) /\ e.kind \in {"local", "failed"}
   BY <2>1, <2>3
  <3>2. ~IsAnswer(e)
   BY <3>1 DEF IsAnswer
  <3> QED BY <1>0, <2>1, <3>1, <3>2, AllShownAppend
 <2> QED BY <2>2, <2>3
<1>5. CASE TakeStream
 <2> DEFINE e == stream[1]
 <2>1. /\ stream # <<>> /\ knows' = knows /\ Head(stream) = e /\ e \in SearchEvents
       /\ \/ TellsChange(e) \/ TellsLoading(e) \/ TellsCancelled(e)
          \/ TellsAnswer(e) \/ TellsFailure(e) \/ TellsInvalidation(e)
  BY <1>5, TakeStreamFacts
 <2> HIDE DEF e
 <2>2. CASE TellsChange(e) \/ TellsFailure(e) \/ TellsInvalidation(e)
  <3>1. toTerminal' = Append(toTerminal, e) /\ ~IsAnswer(e)
   BY <2>2 DEF TellsChange, TellsFailure, TellsInvalidation, IsAnswer
  <3> QED BY <1>0, <2>1, <3>1, AllShownAppend
 <2>3. CASE TellsLoading(e) \/ TellsCancelled(e)
  BY <1>1, <2>1, <2>3 DEF TellsLoading, TellsCancelled
 <2>4. CASE TellsAnswer(e)
  <3>1. CASE cloud.request # e.request
   <4>1. toTerminal' = Append(toTerminal, Event("failed", e.request, <<>>, NoHit, <<>>))
    BY <2>1, <2>4, <3>1, AnswerFacts
   <4> DEFINE failure == Event("failed", e.request, <<>>, NoHit, <<>>)
   <4>2. failure \in SearchEvents /\ ~IsAnswer(failure)
    BY <2>1, PlainEventFacts, VersionFacts DEF EventKinds, IsAnswer
   <4> HIDE DEF failure
   <4>3. toTerminal' = Append(toTerminal, failure)
    BY <4>1 DEF failure
   <4> QED BY <1>0, <2>1, <4>2, <4>3, AllShownAppend
  <3>2. CASE cloud.request = e.request
   <4>1. PICK h \in HitLists :
           /\ toTerminal' = Append(toTerminal, [e EXCEPT !.hits = h])
           /\ \A m \in DOMAIN h :
                 /\ m \in Hit /\ m \in DOMAIN e.hits /\ h[m] \in 1..MaxVersion
                 /\ h[m] = IF m \in cloud.changed THEN told[m] ELSE e.hits[m]
    BY <2>1, <2>4, <3>2, AnswerIsSent
   <4>2. IsAnswer(e)
    BY <2>1, <2>4, AnswerFacts DEF IsAnswer
   <4>3. \A m \in DOMAIN h : Below(knows, toTerminal, m, h[m])
    BY <2>1, <3>2, <4>1, <4>2, AnswerIsCurrent DEF e
   <4> DEFINE x == [e EXCEPT !.hits = h]
   <4>4. x \in SearchEvents /\ x.hits = h
    BY <2>1 DEF SearchEvents
   <4>5. toTerminal' = Append(toTerminal, x)
    BY <4>1
   <4> HIDE DEF x
   <4>6. \A m \in DOMAIN x.hits : Below(knows, toTerminal, m, x.hits[m])
    BY <4>3, <4>4
   <4>7. AllShown(knows, Append(toTerminal, x))
    BY <1>0, <2>1, <4>4, <4>6, AllShownAppend
   <4> QED BY <2>1, <4>5, <4>7
  <3> QED BY <3>1, <3>2
 <2> QED BY <2>1, <2>2, <2>3, <2>4
<1>6. CASE PanelAsks
 BY <1>1, <1>6, PanelAsksFacts
<1>7. CASE HandleSearch
 BY <1>1, <1>7, HandleSearchFacts
<1> QED BY <1>1, <1>2, <1>3, <1>4, <1>5, <1>6, <1>7
     DEF SearchNext, PanelAsks, ReopenSearch, StartPending, Scan, FlushBatch, Answers, Complete,
         Changes, ReceivesChange, FindsGap, localVars

LEMMA CloudHitsStep ==
  ASSUME SearchShape, AllAreRight, AllShown(knows, toTerminal), CloudHitsAreCurrent, SearchNext
  PROVE  CloudHitsAreCurrent'
<1>0. /\ page \in [asked : Asking \cup {<<>>}, hits : HitLists]
      /\ page.hits \in HitLists /\ knows \in Listed
 BY DEF SearchShape, PanelShape, RestShape
<1>1. CASE UNCHANGED <<page, knows>>
 BY <1>1 DEF CloudHitsAreCurrent
<1>2. CASE PanelAsks
 BY <1>1, <1>2, PanelAsksFacts DEF CloudHitsAreCurrent
<1>3. CASE HandleSearchEvent
 <2> DEFINE e == toTerminal[1]
 <2>1. /\ e \in SearchEvents /\ EventIsWhole(e) /\ 1 \in 1..Len(toTerminal)
       /\ \/ SearchResults(e) \/ SearchFailed(e) \/ OpenSearchContext(e)
          \/ ObserveChange(e) \/ ObserveInvalidation(e)
  BY <1>3, HandledKnows
 <2>2. IsAnswer(e) => HitsAreCurrent(knows, toTerminal, 1)
  BY <2>1 DEF AllShown
 <2>3. EventIsRight(panel, e)
  BY <2>1 DEF AllAreRight
 <2>4. IsAnswer(e) => \A m \in DOMAIN e.hits : knows[m] <= e.hits[m]
  BY <2>2 DEF HitsAreCurrent
 <2>5. \A m \in DOMAIN e.hits : m \in Hit /\ e.hits[m] \in Nat /\ knows[m] \in Nat
  BY <1>0, <2>1, HitListFacts, VersionFacts DEF SearchEvents
 <2> HIDE DEF e
 <2>6. CASE SearchResults(e)
  <3>1. CASE Finishes(e)
   <4>1. /\ page' = [asked |-> e.asked, hits |-> e.hits] /\ knows' = knows
         /\ e.kind \in {"local", "cloud"}
    BY <2>6, <3>1 DEF SearchResults
   <4>2. page'.asked = e.asked /\ page'.hits = e.hits /\ e.asked[1] = e.kind
    BY <2>3, <4>1 DEF EventIsRight
   <4>3. page'.asked[1] = "cloud" => \A m \in DOMAIN e.hits : e.hits[m] >= knows[m]
    BY <2>4, <2>5, <4>2 DEF IsAnswer
   <4> QED BY <4>1, <4>2, <4>3 DEF CloudHitsAreCurrent
  <3>2. CASE ~Finishes(e)
   BY <1>1, <2>6, <3>2 DEF SearchResults, panelVars
  <3> QED BY <3>1, <3>2
 <2>7. CASE SearchFailed(e) \/ OpenSearchContext(e)
  BY <1>1, <2>7 DEF SearchFailed, OpenSearchContext
 <2>8. CASE ObserveInvalidation(e)
  BY <2>8 DEF ObserveInvalidation, CloudHitsAreCurrent
 <2>9. CASE ObserveChange(e)
  <3>1. /\ page' = FollowChange(e) /\ knows' = [knows EXCEPT ![e.target] = e.version]
        /\ e.target \in Hit /\ e.version \in Nat
   BY <2>1, <2>9, VersionFacts DEF ObserveChange, EventIsWhole
  <3>2. \A m \in Hit : m # e.target => knows'[m] = knows[m]
   BY <1>0, <3>1 DEF Listed
  <3>3. knows'[e.target] = e.version
   BY <1>0, <3>1 DEF Listed
  <3>4. DOMAIN page.hits \subseteq Hit
   BY <1>0, HitListFacts
  <3>5. CASE e.target \notin DOMAIN page.hits
   <4>1. page' = page
    BY <3>1, <3>5 DEF FollowChange
   <4>2. \A m \in DOMAIN page.hits : knows'[m] = knows[m]
    BY <3>2, <3>4, <3>5
   <4> QED BY <4>1, <4>2 DEF CloudHitsAreCurrent
  <3>6. CASE e.target \in DOMAIN page.hits
   <4>1. page # NoPage
    <5>1. DOMAIN NoPage.hits = {}
     BY DEF NoPage
    <5> QED BY <3>6, <5>1
   <4>2. page'.asked = page.asked
         /\ \A m \in DOMAIN page'.hits :
             /\ m \in DOMAIN page.hits
             /\ m = e.target => page'.hits[m] = e.version
             /\ m # e.target => page'.hits[m] = page.hits[m]
    <5>1. CASE e.version = Erased
     <6> DEFINE h == [m \in DOMAIN page.hits \ {e.target} |-> page.hits[m]]
     <6>1. page' = [page EXCEPT !.hits = h]
      BY <3>1, <3>6, <5>1 DEF FollowChange
     <6>2. \A m \in DOMAIN h : m \in DOMAIN page.hits /\ m # e.target /\ h[m] = page.hits[m]
      OBVIOUS
     <6> HIDE DEF h
     <6>3. page'.asked = page.asked /\ page'.hits = h
      BY <1>0, <6>1
     <6> QED BY <6>2, <6>3
    <5>2. CASE e.version # Erased
     <6> DEFINE h == [page.hits EXCEPT ![e.target] = e.version]
     <6>1. page' = [page EXCEPT !.hits = h]
      BY <1>0, <3>1, <3>6, <5>2 DEF FollowChange
     <6>2. \A m \in DOMAIN h : /\ m \in DOMAIN page.hits
                               /\ m = e.target => h[m] = e.version
                               /\ m # e.target => h[m] = page.hits[m]
      BY <3>6
     <6> HIDE DEF h
     <6>3. page'.asked = page.asked /\ page'.hits = h
      BY <1>0, <6>1
     <6> QED BY <6>2, <6>3
    <5> QED BY <5>1, <5>2
   <4>3. page.asked[1] = "cloud" => \A m \in DOMAIN page.hits : page.hits[m] >= knows[m]
    BY <4>1 DEF CloudHitsAreCurrent
   <4>4. e.version >= e.version
    BY <3>1
   <4>5. page'.asked[1] = "cloud" => \A m \in DOMAIN page'.hits : page'.hits[m] >= knows'[m]
    BY <3>2, <3>3, <3>4, <4>2, <4>3, <4>4
   <4> QED BY <4>5 DEF CloudHitsAreCurrent
  <3> QED BY <3>5, <3>6
 <2> QED BY <2>1, <2>6, <2>7, <2>8, <2>9
<1>4. CASE TakeSearchCommand \/ ScanEnds \/ TakeStream \/ HandleSearch
 BY <1>1, <1>4, TakenFacts, ScanEndsFacts, TakeStreamFacts, HandleSearchFacts DEF panelVars
<1> QED BY <1>1, <1>2, <1>3, <1>4
     DEF SearchNext, PanelAsks, ReopenSearch, StartPending, Scan, FlushBatch, Answers, Complete,
         Changes, ReceivesChange, FindsGap, localVars, panelVars

-------------------------------------------------------------------------------
(* What carries the number of a search. *)

\* The panel of a step: a new number, or the same search, perhaps no longer announced.
TakesUp(p, p2) ==
    \/ p2.request > p.request
    \/ /\ p2.request = p.request /\ AskedBy(p2) = AskedBy(p)
       /\ p2.loading => p.loading /\ p2.target = p.target

LEMMA MovesFacts ==
  ASSUME NEW p, NEW p2, p.request \in Nat, p2.request \in Nat, TakesUp(p, p2)
  PROVE  /\ \A c : c.request \in Nat /\ CommandIsRight(p, c) => CommandIsRight(p2, c)
         /\ \A j : j.request \in Nat /\ JobIsRight(p, j) => JobIsRight(p2, j)
         /\ \A f : f.request \in Nat /\ FlightIsRight(p, f) => FlightIsRight(p2, f)
         /\ \A e : e.request \in Nat /\ EventIsRight(p, e) => EventIsRight(p2, e)
<1>1. \A r \in Nat : \A asked : AskedFor(p, r, asked) => AskedFor(p2, r, asked)
 BY DEF AskedFor, TakesUp
<1>2. \A r \in Nat : \A t : r <= p.request /\ TargetFor(p, r, t) => TargetFor(p2, r, t)
 BY DEF TargetFor, TakesUp
<1>3. \A r \in Nat : \A asked : AskedFor(p, r, asked) => r <= p.request
 BY DEF AskedFor
<1>4. \A r \in Nat : r <= p.request => r <= p2.request
 BY DEF TakesUp
<1>5. ASSUME NEW c, c.request \in Nat, CommandIsRight(p, c)
      PROVE  CommandIsRight(p2, c)
 BY <1>1, <1>2, <1>3, <1>5 DEF CommandIsRight
<1>6. ASSUME NEW j, j.request \in Nat, JobIsRight(p, j)
      PROVE  JobIsRight(p2, j)
 BY <1>1, <1>6 DEF JobIsRight
<1>7. ASSUME NEW f, f.request \in Nat, FlightIsRight(p, f)
      PROVE  FlightIsRight(p2, f)
 BY <1>1, <1>2, <1>3, <1>7 DEF FlightIsRight
<1>8. ASSUME NEW e, e.request \in Nat, EventIsRight(p, e)
      PROVE  EventIsRight(p2, e)
 BY <1>1, <1>2, <1>4, <1>8 DEF EventIsRight
<1> QED BY <1>5, <1>6, <1>7, <1>8

CommandsAreRight(p, q) == \A i \in 1..Len(q) : CommandIsRight(p, q[i])
EventsAreRight(p, q) == \A i \in 1..Len(q) : EventIsRight(p, q[i])

LEMMA RightAppend ==
  /\ \A p, q, c : q \in Seq(SearchCommands) /\ c \in SearchCommands /\ CommandsAreRight(p, q)
                  /\ CommandIsRight(p, c) => CommandsAreRight(p, Append(q, c))
  /\ \A p, q, e : q \in Seq(SearchEvents) /\ e \in SearchEvents /\ EventsAreRight(p, q)
                  /\ EventIsRight(p, e) => EventsAreRight(p, Append(q, e))
<1>1. ASSUME NEW p, NEW q \in Seq(SearchCommands), NEW c \in SearchCommands, CommandsAreRight(p, q),
             CommandIsRight(p, c)
      PROVE  CommandsAreRight(p, Append(q, c))
 <2> DEFINE t == Append(q, c)
 <2>1. \A i \in 1..Len(t) : (i \in 1..Len(q) /\ t[i] = q[i]) \/ t[i] = c
  BY AppendedFacts
 <2> HIDE DEF t
 <2>2. CommandsAreRight(p, t)
  BY <1>1, <2>1 DEF CommandsAreRight
 <2> QED BY <2>2 DEF t
<1>2. ASSUME NEW p, NEW q \in Seq(SearchEvents), NEW e \in SearchEvents, EventsAreRight(p, q),
             EventIsRight(p, e)
      PROVE  EventsAreRight(p, Append(q, e))
 <2> DEFINE t == Append(q, e)
 <2>1. \A i \in 1..Len(t) : (i \in 1..Len(q) /\ t[i] = q[i]) \/ t[i] = e
  BY AppendedFacts
 <2> HIDE DEF t
 <2>2. EventsAreRight(p, t)
  BY <1>2, <2>1 DEF EventsAreRight
 <2> QED BY <2>2 DEF t
<1> QED BY <1>1, <1>2

LEMMA RightTail ==
  /\ \A p, q : q \in Seq(SearchCommands) /\ q # <<>> /\ CommandsAreRight(p, q)
          => CommandsAreRight(p, Tail(q)) /\ CommandIsRight(p, Head(q))
  /\ \A p, q : q \in Seq(SearchEvents) /\ q # <<>> /\ EventsAreRight(p, q)
          => EventsAreRight(p, Tail(q)) /\ EventIsRight(p, Head(q))
<1>1. ASSUME NEW p, NEW q \in Seq(SearchCommands), q # <<>>, CommandsAreRight(p, q)
      PROVE  CommandsAreRight(p, Tail(q)) /\ CommandIsRight(p, Head(q))
 <2>1. Head(q) = q[1] /\ 1 \in 1..Len(q)
       /\ \A i \in 1..Len(Tail(q)) : Tail(q)[i] = q[i + 1] /\ i + 1 \in 1..Len(q)
  BY <1>1, ShiftedFacts
 <2> QED BY <1>1, <2>1 DEF CommandsAreRight
<1>2. ASSUME NEW p, NEW q \in Seq(SearchEvents), q # <<>>, EventsAreRight(p, q)
      PROVE  EventsAreRight(p, Tail(q)) /\ EventIsRight(p, Head(q))
 <2>1. Head(q) = q[1] /\ 1 \in 1..Len(q)
       /\ \A i \in 1..Len(Tail(q)) : Tail(q)[i] = q[i + 1] /\ i + 1 \in 1..Len(q)
  BY <1>2, ShiftedFacts
 <2> QED BY <1>2, <2>1 DEF EventsAreRight
<1> QED BY <1>1, <1>2

(* Whatever does not change stays right when the panel moves. *)
LEMMA RightMoves ==
  ASSUME SearchShape, AllAreRight, panel'.request \in Nat, TakesUp(panel, panel')
  PROVE  /\ CommandsAreRight(panel', toLocal) /\ CommandsAreRight(panel', waiting)
         /\ JobIsRight(panel', scans.job) /\ JobIsRight(panel', scans.queued)
         /\ FlightIsRight(panel', flight)
         /\ EventsAreRight(panel', stream) /\ EventsAreRight(panel', toTerminal)
<1>1. /\ panel.request \in Nat /\ flight.request \in Nat
      /\ scans.job.request \in Nat /\ scans.queued.request \in Nat
      /\ toLocal \in Seq(SearchCommands) /\ waiting \in Seq(SearchCommands)
      /\ stream \in Seq(SearchEvents) /\ toTerminal \in Seq(SearchEvents)
 BY DEF SearchShape, PanelShape, CommandsShape, EventsShape, AreWhole, RestShape, ScanJobs
<1>2. \A c \in SearchCommands : c.request \in Nat
 BY DEF SearchCommands
<1>3. /\ \A i \in 1..Len(toLocal) : toLocal[i].request \in Nat
      /\ \A i \in 1..Len(waiting) : waiting[i].request \in Nat
 BY <1>1, <1>2, ElementFacts
<1>4. /\ \A i \in 1..Len(stream) : stream[i].request \in Nat
      /\ \A i \in 1..Len(toTerminal) : toTerminal[i].request \in Nat
 BY <1>1, VersionFacts, ElementFacts
<1>5. /\ CommandsAreRight(panel', toLocal) /\ CommandsAreRight(panel', waiting)
 BY <1>1, <1>3, MovesFacts DEF AllAreRight, CommandsAreRight
<1>6. /\ EventsAreRight(panel', stream) /\ EventsAreRight(panel', toTerminal)
 BY <1>1, <1>4, MovesFacts DEF AllAreRight, EventsAreRight
<1>7. JobIsRight(panel', scans.job) /\ JobIsRight(panel', scans.queued)
      /\ FlightIsRight(panel', flight)
 BY <1>1, MovesFacts DEF AllAreRight
<1> QED BY <1>5, <1>6, <1>7

(* The panel moves. *)
LEMMA PanelMoves ==
  ASSUME SearchShape, AllAreRight, SearchNext
  PROVE  TakesUp(panel, panel') /\ panel'.request \in Nat
<1>0. /\ panel \in [open : BOOLEAN, source : {"local", "cloud"}, query : Query,
                  position : 1..MaxPages, request : Nat, loading : BOOLEAN,
                  target : Hit \cup {NoHit}]
      /\ panel.request \in Nat /\ panel.request + 1 > panel.request
 BY DEF SearchShape, PanelShape
<1>1. panel'.request \in Nat
 BY PanelShapeStep DEF PanelShape
<1>2. CASE panel' = panel
 BY <1>0, <1>2 DEF TakesUp
<1>3. CASE PanelAsks
 BY <1>0, <1>3, PanelAsksFacts DEF TakesUp
<1>4. CASE ReopenSearch
 <2>1. panel' = [panel EXCEPT !.open = TRUE]
  BY <1>4 DEF ReopenSearch
 <2> QED BY <1>0, <2>1 DEF TakesUp, AskedBy
<1>5. CASE HandleSearchEvent
 <2> DEFINE e == toTerminal[1]
 <2>1. \/ SearchResults(e) \/ SearchFailed(e) \/ OpenSearchContext(e)
       \/ ObserveChange(e) \/ ObserveInvalidation(e)
  BY <1>5, HandledKnows
 <2> HIDE DEF e
 <2>2. CASE SearchResults(e) \/ SearchFailed(e)
  <3>1. panel' = panel \/ panel' = [panel EXCEPT !.loading = FALSE]
   BY <2>2 DEF SearchResults, SearchFailed, panelVars
  <3> QED BY <1>0, <1>2, <3>1 DEF TakesUp, AskedBy
 <2>3. CASE OpenSearchContext(e)
  <3>1. \/ panel' = panel
        \/ panel' = [panel EXCEPT !.loading = FALSE, !.target = NoHit, !.open = FALSE]
        \/ panel' = [panel EXCEPT !.loading = FALSE, !.target = NoHit]
   BY <2>3 DEF OpenSearchContext
  <3> QED BY <1>0, <1>2, <3>1 DEF TakesUp, AskedBy
 <2>4. CASE ObserveChange(e)
  BY <1>2, <2>4 DEF ObserveChange
 <2>5. CASE ObserveInvalidation(e)
  <3>1. panel' = [panel EXCEPT !.request = panel.request + 1, !.loading = FALSE, !.target = NoHit]
   BY <2>5 DEF ObserveInvalidation
  <3>2. panel'.request = panel.request + 1
   BY <1>0, <3>1
  <3> QED BY <1>0, <3>2 DEF TakesUp
 <2> QED BY <2>1, <2>2, <2>3, <2>4, <2>5
<1> QED BY <1>1, <1>2, <1>3, <1>4, <1>5, TakenFacts, ScanEndsFacts, HandleSearchFacts
     DEF SearchNext, PanelAsks, StartPending, Scan, FlushBatch, TakeStream, Answers, Complete,
         Changes, ReceivesChange, FindsGap, panelVars

(* The page keeps answering what is asked. *)
LEMMA PageStep ==
  ASSUME SearchShape, AllAreRight, SearchNext
  PROVE  page' = NoPage \/ page'.asked = AskedBy(panel')
<1>0. /\ page = NoPage \/ page.asked = AskedBy(panel)
      /\ page \in [asked : Asking \cup {<<>>}, hits : HitLists]
      /\ panel \in [open : BOOLEAN, source : {"local", "cloud"}, query : Query,
                  position : 1..MaxPages, request : Nat, loading : BOOLEAN,
                  target : Hit \cup {NoHit}]
 BY DEF AllAreRight, SearchShape, PanelShape
<1>1. CASE UNCHANGED <<panel, page>>
 BY <1>0, <1>1
<1>2. CASE PanelAsks
 BY <1>0, <1>2, PanelAsksFacts DEF Asked, AskedBy
<1>3. CASE ReopenSearch
 BY <1>0, <1>3 DEF ReopenSearch, AskedBy
<1>4. CASE HandleSearchEvent
 <2> DEFINE e == toTerminal[1]
 <2>1. /\ 1 \in 1..Len(toTerminal)
       /\ \/ SearchResults(e) \/ SearchFailed(e) \/ OpenSearchContext(e)
          \/ ObserveChange(e) \/ ObserveInvalidation(e)
  BY <1>4, HandledKnows
 <2>2. EventIsRight(panel, e)
  BY <2>1 DEF AllAreRight
 <2>3. AskedBy(panel') = AskedBy(panel)
  BY <1>4, HandledKeepsShape DEF Asked, AskedBy
 <2> HIDE DEF e
 <2>4. CASE SearchResults(e)
  <3>1. CASE Finishes(e)
   <4>1. /\ page' = [asked |-> e.asked, hits |-> e.hits] /\ e.kind \in {"local", "cloud"}
         /\ panel.request = e.request
    BY <2>4, <3>1 DEF SearchResults, Finishes
   <4>2. e.asked = AskedBy(panel)
    BY <2>2, <4>1 DEF EventIsRight, AskedFor
   <4> QED BY <2>3, <4>1, <4>2
  <3>2. CASE ~Finishes(e)
   BY <1>1, <2>4, <3>2 DEF SearchResults, panelVars
  <3> QED BY <3>1, <3>2
 <2>5. CASE SearchFailed(e) \/ OpenSearchContext(e)
  BY <1>0, <2>3, <2>5 DEF SearchFailed, OpenSearchContext
 <2>6. CASE ObserveInvalidation(e)
  BY <2>6 DEF ObserveInvalidation
 <2>7. CASE ObserveChange(e)
  <3>1. page' = FollowChange(e)
   BY <2>7 DEF ObserveChange
  <3>2. page' = page \/ (page'.asked = page.asked /\ page # NoPage)
   <4>1. CASE e.target \notin DOMAIN page.hits
    BY <3>1, <4>1 DEF FollowChange
   <4>2. CASE e.target \in DOMAIN page.hits
    <5>1. page # NoPage
     <6>1. DOMAIN NoPage.hits = {}
      BY DEF NoPage
     <6> QED BY <4>2, <6>1
    <5>2. page'.asked = page.asked
     BY <1>0, <3>1, <4>2 DEF FollowChange
    <5> QED BY <5>1, <5>2
   <4> QED BY <4>1, <4>2
  <3> QED BY <1>0, <2>3, <3>2
 <2> QED BY <2>1, <2>4, <2>5, <2>6, <2>7
<1> QED BY <1>1, <1>2, <1>3, <1>4, TakenFacts, ScanEndsFacts, HandleSearchFacts
     DEF SearchNext, PanelAsks, StartPending, Scan, FlushBatch, TakeStream, Answers, Complete,
         Changes, ReceivesChange, FindsGap, panelVars

LEMMA AllAreRightStep ==
  ASSUME SearchShape, AllAreRight, SearchNext
  PROVE  AllAreRight'
<1>0. /\ toLocal \in Seq(SearchCommands) /\ waiting \in Seq(SearchCommands)
      /\ stream \in Seq(SearchEvents) /\ toTerminal \in Seq(SearchEvents)
      /\ scans \in [job : ScanJobs, queued : ScanJobs]
 BY DEF SearchShape, CommandsShape, EventsShape, AreWhole, RestShape
<1>1. /\ page' = NoPage \/ page'.asked = AskedBy(panel')
      /\ TakesUp(panel, panel') /\ panel'.request \in Nat
 BY PageStep, PanelMoves
<1>2. /\ CommandsAreRight(panel', toLocal) /\ CommandsAreRight(panel', waiting)
      /\ JobIsRight(panel', scans.job) /\ JobIsRight(panel', scans.queued)
      /\ FlightIsRight(panel', flight)
      /\ EventsAreRight(panel', stream) /\ EventsAreRight(panel', toTerminal)
 BY <1>1, RightMoves
<1>3. /\ \A e : e.kind \in {"failed", "change", "loading", "cancelled", "invalidated"}
            => EventIsRight(panel', e)
      /\ JobIsRight(panel', NoJob) /\ FlightIsRight(panel', NoFlight)
      /\ \A c : c.kind = "cancel" => CommandIsRight(panel', c)
 BY DEF EventIsRight, JobIsRight, FlightIsRight, CommandIsRight
<1>p. ASSUME CommandsAreRight(panel', toLocal'), CommandsAreRight(panel', waiting'),
             JobIsRight(panel', scans'.job), JobIsRight(panel', scans'.queued),
             FlightIsRight(panel', flight'),
             EventsAreRight(panel', stream'), EventsAreRight(panel', toTerminal')
      PROVE  AllAreRight'
 BY <1>1, <1>p DEF AllAreRight, CommandsAreRight, EventsAreRight
<1>4. CASE UNCHANGED <<toLocal, waiting, scans, flight, stream, toTerminal>>
 BY <1>2, <1>4, <1>p
<1>5. CASE PanelAsks
 <2>1. PICK c : Carries(c, panel') /\ toLocal' = Append(toLocal, c)
  BY <1>5, PanelAsksFacts
 <2>2. UNCHANGED <<waiting, scans, flight, stream, toTerminal>>
  BY <1>5, PanelAsksFacts DEF networkVars
 <2>3. panel'.request = panel.request + 1 /\ panel.request \in Nat
       /\ panel' \in [open : BOOLEAN, source : {"local", "cloud"}, query : Query,
                 position : 1..MaxPages, request : Nat, loading : BOOLEAN,
                 target : Hit \cup {NoHit}]
  BY <1>5, PanelAsksFacts DEF SearchShape, PanelShape
 <2>4. CommandIsRight(panel', c)
  <3> SUFFICES ASSUME c.kind # "cancel"
               PROVE  /\ c.request >= 1 /\ c.asked \in Asking
                      /\ AskedFor(panel', c.request, c.asked) /\ TargetFor(panel', c.request, c.target)
                      /\ c.kind \in {"local", "cloud"} => c.asked[1] = c.kind /\ c.target = NoHit
                      /\ c.kind \in {"context", "cloudContext"} => c.target \in Hit
   BY DEF CommandIsRight
  <3>1. /\ c.request = panel'.request /\ c.asked = <<panel'.source, panel'.query, panel'.position>>
        /\ c.target = panel'.target
        /\ c.kind \in {"local", "cloud"} => c.kind = panel'.source /\ c.target = NoHit
        /\ c.kind \in {"context", "cloudContext"} => c.target \in Hit
   BY <2>1 DEF Carries
  <3>2. c.asked \in Asking /\ c.asked[1] = panel'.source
   BY <2>3, <3>1 DEF Asking
  <3>3. c.request >= 1 /\ c.request <= panel'.request
   BY <2>3, <3>1
  <3>4. AskedFor(panel', c.request, c.asked) /\ TargetFor(panel', c.request, c.target)
   BY <3>1, <3>3 DEF AskedFor, AskedBy, TargetFor
  <3> QED BY <3>1, <3>2, <3>3, <3>4
 <2>5. CommandsAreRight(panel', toLocal')
  BY <1>0, <1>2, <2>1, <2>4, RightAppend DEF Carries
 <2> QED BY <1>2, <1>p, <2>2, <2>5
<1>6. CASE HandleSearchEvent
 <2>1. toTerminal # <<>> /\ toTerminal' = Tail(toTerminal)
       /\ UNCHANGED <<toLocal, waiting, scans, flight, stream>>
  BY <1>6 DEF HandleSearchEvent, networkVars
 <2>2. EventsAreRight(panel', toTerminal')
  BY <1>0, <1>2, <2>1, RightTail
 <2> QED BY <1>2, <1>p, <2>1, <2>2
<1>7. CASE TakeSearchCommand
 <2> DEFINE c == Head(toLocal)
            failed == Event("failed", c.request, <<>>, NoHit, <<>>)
            context == Event("context", c.request, <<>>, c.target, Messages(told))
 <2>1. /\ toLocal # <<>> /\ toLocal' = Tail(toLocal) /\ c \in SearchCommands
       /\ \/ waiting' = waiting
          \/ waiting' = <<>>
          \/ waiting' = <<c>>
          \/ waiting' = <<Cancelling>>
       /\ \/ toTerminal' = toTerminal
          \/ toTerminal' = Append(toTerminal, failed)
          \/ toTerminal' = Append(toTerminal, context) /\ c.kind = "context"
       /\ \/ scans' = scans
          \/ scans' = CancelScan
          \/ scans' = Queue(c) /\ c.kind = "local"
       /\ UNCHANGED <<flight, stream>>
  BY <1>7, TakenFacts DEF networkVars
 <2>2. CommandsAreRight(panel', toLocal') /\ CommandIsRight(panel', c)
  BY <1>0, <1>2, <2>1, RightTail
 <2>3. /\ failed \in SearchEvents /\ failed.kind = "failed"
       /\ context \in SearchEvents /\ context.kind = "context" /\ context.request = c.request
       /\ context.target = c.target
  BY <2>1, TakenEvents
 <2>4. c.request \in Nat
  BY <2>1 DEF SearchCommands
 <2> HIDE DEF c, failed, context
 <2>5. c.kind = "context" => EventIsRight(panel', context)
  BY <2>2, <2>3, <2>4 DEF CommandIsRight, EventIsRight, AskedFor
 <2>6. EventsAreRight(panel', toTerminal')
  <3>1. CASE toTerminal' = toTerminal
   BY <1>2, <3>1
  <3>2. CASE toTerminal' = Append(toTerminal, failed)
   <4>1. EventIsRight(panel', failed)
    BY <1>3, <2>3
   <4> QED BY <1>0, <1>2, <2>3, <3>2, <4>1, RightAppend
  <3>3. CASE toTerminal' = Append(toTerminal, context) /\ c.kind = "context"
   BY <1>0, <1>2, <2>3, <2>5, <3>3, RightAppend
  <3> QED BY <2>1, <3>1, <3>2, <3>3
 <2>7. CommandsAreRight(panel', waiting')
  <3>1. CASE waiting' = <<>>
   BY <3>1, NothingFacts DEF CommandsAreRight
  <3>2. \A one : waiting' = <<one>> /\ CommandIsRight(panel', one) => CommandsAreRight(panel', waiting')
   BY DEF CommandsAreRight
  <3>3. CommandIsRight(panel', Cancelling)
   BY <1>3 DEF Cancelling, Command
  <3> QED BY <1>2, <2>1, <2>2, <3>1, <3>2, <3>3
 <2>8. JobIsRight(panel', Flagged(scans.job))
  <3>1. CASE scans.job = NoJob
   BY <1>3, <3>1 DEF Flagged
  <3>2. CASE scans.job # NoJob
   <4>1. Flagged(scans.job) = [scans.job EXCEPT !.cancelled = TRUE]
    BY <3>2 DEF Flagged
   <4>2. Flagged(scans.job).request = scans.job.request /\ Flagged(scans.job).asked = scans.job.asked
    BY <1>0, <4>1 DEF ScanJobs
   <4> QED BY <1>2, <3>2, <4>2 DEF JobIsRight
  <3> QED BY <3>1, <3>2
 <2>9. JobIsRight(panel', scans'.job) /\ JobIsRight(panel', scans'.queued)
  <3>1. CASE scans' = scans
   BY <1>2, <3>1
  <3>2. CASE scans' = CancelScan
   BY <1>3, <2>8, <3>2, JobFacts
  <3>3. CASE scans' = Queue(c) /\ c.kind = "local"
   <4>1. /\ scans'.job = Flagged(scans.job)
         /\ scans'.queued.request = c.request /\ scans'.queued.asked = c.asked
    BY <2>1, <3>3, JobFacts
   <4>2. JobIsRight(panel', scans'.queued)
    BY <2>2, <3>3, <4>1 DEF CommandIsRight, JobIsRight
   <4> QED BY <2>8, <4>1, <4>2
  <3> QED BY <2>1, <3>1, <3>2, <3>3
 <2> QED BY <1>2, <1>p, <2>1, <2>2, <2>6, <2>7, <2>9
<1>8. CASE StartPending
 <2>1. scans' = [job |-> scans.queued, queued |-> NoJob]
       /\ UNCHANGED <<toLocal, waiting, flight, stream, toTerminal>>
  BY <1>8 DEF StartPending, networkVars
 <2> QED BY <1>2, <1>3, <1>p, <2>1
<1>9. CASE Scan
 <2>1. /\ scans' = [scans EXCEPT !.job.read = TRUE, !.job.hits = Messages(rows)]
       /\ scans.job # NoJob
       /\ UNCHANGED <<toLocal, waiting, flight, stream, toTerminal>>
  BY <1>9 DEF Scan, networkVars
 <2>2. /\ scans'.queued = scans.queued /\ scans'.job.request = scans.job.request
       /\ scans'.job.asked = scans.job.asked
  BY <1>0, <2>1 DEF ScanJobs
 <2>3. JobIsRight(panel', scans'.job)
  BY <1>2, <2>1, <2>2 DEF JobIsRight
 <2> QED BY <1>2, <1>p, <2>1, <2>2, <2>3
<1>10. CASE ScanEnds
 <2>1. /\ scans' = [scans EXCEPT !.job = NoJob] /\ scans.job # NoJob
       /\ \/ toTerminal' = toTerminal
          \/ \E e \in SearchEvents :
               /\ toTerminal' = Append(toTerminal, e) /\ e.request = scans.job.request
               /\ e.kind \in {"local", "failed"}
               /\ e.kind = "local" => e.asked = scans.job.asked
       /\ UNCHANGED <<toLocal, waiting, flight, stream>>
  BY <1>10, ScanEndsFacts DEF networkVars
 <2>2. scans'.job = NoJob /\ scans'.queued = scans.queued
  BY <1>0, <2>1
 <2>3. EventsAreRight(panel', toTerminal')
  <3>1. CASE toTerminal' = toTerminal
   BY <1>2, <3>1
  <3>2. CASE toTerminal' # toTerminal
   <4>1. PICK e \in SearchEvents :
             /\ toTerminal' = Append(toTerminal, e) /\ e.request = scans.job.request
             /\ e.kind \in {"local", "failed"}
             /\ e.kind = "local" => e.asked = scans.job.asked
    BY <2>1, <3>2
   <4>2. EventIsRight(panel', e)
    BY <1>2, <2>1, <4>1 DEF JobIsRight, EventIsRight
   <4> QED BY <1>0, <1>2, <4>1, <4>2, RightAppend
  <3> QED BY <3>1, <3>2
 <2> QED BY <1>2, <1>3, <1>p, <2>1, <2>2, <2>3
<1>11. CASE TakeStream
 <2> DEFINE e == Head(stream)
 <2>1. /\ stream # <<>> /\ stream' = Tail(stream) /\ e \in SearchEvents
       /\ \/ TellsChange(e) \/ TellsLoading(e) \/ TellsCancelled(e)
          \/ TellsAnswer(e) \/ TellsFailure(e) \/ TellsInvalidation(e)
       /\ UNCHANGED <<panel, toLocal, waiting, scans, flight>>
  BY <1>11, TakeStreamFacts DEF panelVars
 <2>2. EventsAreRight(panel', stream') /\ EventIsRight(panel', e)
  BY <1>0, <1>2, <2>1, RightTail
 <2> HIDE DEF e
 <2>3. EventsAreRight(panel', toTerminal')
  <3>1. CASE TellsChange(e) \/ TellsFailure(e) \/ TellsInvalidation(e)
   <4>1. toTerminal' = Append(toTerminal, e)
    BY <3>1 DEF TellsChange, TellsFailure, TellsInvalidation
   <4> QED BY <1>0, <1>2, <2>1, <2>2, <4>1, RightAppend
  <3>2. CASE TellsLoading(e) \/ TellsCancelled(e)
   BY <1>2, <3>2 DEF TellsLoading, TellsCancelled
  <3>3. CASE TellsAnswer(e)
   <4> DEFINE failure == Event("failed", e.request, <<>>, NoHit, <<>>)
   <4>1. failure \in SearchEvents /\ failure.kind = "failed"
    BY <2>1, PlainEventFacts, VersionFacts DEF EventKinds
   <4>2. \A h \in HitLists : LET x == [e EXCEPT !.hits = h]
                             IN  /\ x \in SearchEvents /\ x.kind = e.kind /\ x.request = e.request
                                 /\ x.asked = e.asked /\ x.target = e.target
    BY <2>1 DEF SearchEvents
   <4>3. \A x : x.kind = e.kind /\ x.request = e.request /\ x.asked = e.asked /\ x.target = e.target
                 => EventIsRight(panel', x)
    BY <2>2 DEF EventIsRight
   <4>4. \/ toTerminal' = Append(toTerminal, failure)
         \/ \E h \in HitLists : toTerminal' = Append(toTerminal, [e EXCEPT !.hits = h])
    BY <2>1, <3>3, AnswerFacts
   <4> HIDE DEF failure
   <4>5. CASE toTerminal' = Append(toTerminal, failure)
    BY <1>0, <1>2, <1>3, <4>1, <4>5, RightAppend
   <4>6. CASE \E h \in HitLists : toTerminal' = Append(toTerminal, [e EXCEPT !.hits = h])
    <5>1. PICK h \in HitLists : toTerminal' = Append(toTerminal, [e EXCEPT !.hits = h])
     BY <4>6
    <5> DEFINE x == [e EXCEPT !.hits = h]
    <5>2. x \in SearchEvents /\ EventIsRight(panel', x)
     BY <4>2, <4>3
    <5>3. toTerminal' = Append(toTerminal, x)
     BY <5>1
    <5> HIDE DEF x
    <5> QED BY <1>0, <1>2, <5>2, <5>3, RightAppend
   <4> QED BY <4>4, <4>5, <4>6
  <3> QED BY <2>1, <3>1, <3>2, <3>3
 <2> QED BY <1>2, <1>p, <2>1, <2>2, <2>3
<1>12. CASE HandleSearch
 <2>1. /\ waiting[1] \in SearchCommands /\ waiting' = <<>> /\ 1 \in 1..Len(waiting)
       /\ flight.request \in Nat
       /\ UNCHANGED <<toLocal, scans, toTerminal>>
  BY <1>12, HandleSearchFacts DEF SearchShape, RestShape
 <2> DEFINE c == waiting[1]
            cancelled == Event("cancelled", flight.request, <<>>, NoHit, <<>>)
            begun == Event("loading", c.request, <<>>, NoHit, <<>>)
 <2>2. PICK s : /\ s = stream \/ s = Append(stream, cancelled)
                /\ \/ stream' = s /\ flight' = NoFlight /\ ~Cloudy(c)
                   \/ /\ stream' = Append(s, begun)
                      /\ Cloudy(c)
                      /\ flight' = [NoFlight EXCEPT !.request = c.request,
                                      !.asked = c.asked, !.target = c.target]
  BY <1>12, HandleSearchFacts
 <2>3. c.request \in Nat
  BY <2>1 DEF SearchCommands
 <2>4. /\ cancelled \in SearchEvents /\ cancelled.kind = "cancelled"
       /\ begun \in SearchEvents /\ begun.kind = "loading"
  BY <2>1, <2>3, PlainEventFacts DEF EventKinds
 <2>5. CommandIsRight(panel', c)
  BY <1>2, <2>1 DEF CommandsAreRight
 <2> HIDE DEF cancelled, begun, c
 <2>10. EventIsRight(panel', cancelled) /\ EventIsRight(panel', begun)
  BY <1>3, <2>4
 <2>6. s \in Seq(SearchEvents) /\ EventsAreRight(panel', s)
  <3>1. CASE s = stream
   BY <1>0, <1>2, <3>1
  <3>2. CASE s = Append(stream, cancelled)
   <4>1. s \in Seq(SearchEvents)
    BY <1>0, <2>4, <3>2, AppendedFacts
   <4> QED BY <1>0, <1>2, <2>4, <2>10, <3>2, <4>1, RightAppend
  <3> QED BY <2>2, <3>1, <3>2
 <2>7. EventsAreRight(panel', stream')
  <3>1. CASE stream' = s
   BY <2>6, <3>1
  <3>2. CASE stream' = Append(s, begun)
   BY <2>4, <2>6, <2>10, <3>2, RightAppend
  <3> QED BY <2>2, <3>1, <3>2
 <2>8. FlightIsRight(panel', flight')
  <3>1. CASE flight' = NoFlight
   BY <1>3, <3>1
  <3>2. CASE flight' # NoFlight
   <4>1. /\ c.kind \in {"cloud", "cloudContext"}
         /\ flight' = [NoFlight EXCEPT !.request = c.request, !.asked = c.asked, !.target = c.target]
    BY <2>2, <3>2 DEF Cloudy
   <4>2. flight'.request = c.request /\ flight'.asked = c.asked /\ flight'.target = c.target
    BY <4>1 DEF NoFlight
   <4>3. c.target = NoHit => c.kind = "cloud"
    BY <2>5, <4>1, SearchAssumption DEF CommandIsRight
   <4> QED BY <2>5, <4>1, <4>2, <4>3 DEF CommandIsRight, FlightIsRight
  <3> QED BY <3>1, <3>2
 <2>9. CommandsAreRight(panel', waiting')
  BY <2>1, NothingFacts DEF CommandsAreRight
 <2> QED BY <1>2, <1>p, <2>1, <2>7, <2>8, <2>9
<1>13. CASE Answers
 <2>1. /\ flight' = [flight EXCEPT !.read = TRUE, !.hits = Messages(server)] /\ flight # NoFlight
       /\ UNCHANGED <<toLocal, waiting, scans, stream, toTerminal>>
  BY <1>13, NetworkFacts DEF localVars
 <2>2. flight'.request = flight.request /\ flight'.asked = flight.asked /\ flight'.target = flight.target
  BY <2>1 DEF SearchShape, RestShape
 <2>3. FlightIsRight(panel', flight')
  BY <1>2, <2>1, <2>2 DEF FlightIsRight
 <2> QED BY <1>2, <1>p, <2>1, <2>3
<1>14. CASE Complete
 <2>1. /\ flight # NoFlight /\ flight' = NoFlight
       /\ UNCHANGED <<toLocal, waiting, scans, toTerminal>>
  BY <1>14, NetworkFacts DEF localVars
 <2>2. PICK e \in SearchEvents :
           /\ stream' = Append(stream, e) /\ e.request = flight.request
           /\ e.kind = "failed" \/
               /\ e.kind = IF flight.target = NoHit THEN "cloud" ELSE "context"
               /\ e.asked = flight.asked /\ e.target = flight.target
  BY <1>14, NetworkFacts
 <2>3. /\ flight.request >= 1 /\ flight.asked \in Asking
       /\ AskedFor(panel', flight.request, flight.asked) /\ TargetFor(panel', flight.request, flight.target)
       /\ flight.target = NoHit => flight.asked[1] = "cloud"
  BY <1>2, <2>1 DEF FlightIsRight
 <2>4. EventIsRight(panel', e)
  <3>1. CASE e.kind = "failed"
   BY <1>3, <3>1
  <3>2. CASE e.kind = "cloud"
   <4>1. flight.target = NoHit /\ e.asked = flight.asked
    BY <2>2, <3>2
   <4> QED BY <2>2, <2>3, <3>2, <4>1 DEF EventIsRight
  <3>3. CASE e.kind = "context"
   <4>1. e.target = flight.target
    BY <2>2, <3>3
   <4> QED BY <2>2, <2>3, <3>3, <4>1 DEF EventIsRight, AskedFor
  <3> QED BY <2>2, <3>1, <3>2, <3>3
 <2>5. EventsAreRight(panel', stream')
  BY <1>0, <1>2, <2>2, <2>4, RightAppend
 <2> QED BY <1>2, <1>3, <1>p, <2>1, <2>5
<1>15. CASE ReceivesChange \/ FindsGap
 <2>1. /\ UNCHANGED <<toLocal, waiting, scans, flight, toTerminal>>
       /\ \E e \in SearchEvents : stream' = Append(stream, e) /\ e.kind \in {"change", "invalidated"}
  <3>1. CASE ReceivesChange
   <4>1. pushed # <<>> /\ stream' = Append(stream, Head(pushed))
         /\ UNCHANGED <<toLocal, waiting, scans, flight, toTerminal>>
    BY <3>1 DEF ReceivesChange, localVars
   <4>2. Head(pushed) \in SearchEvents /\ Head(pushed).kind = "change"
    BY <4>1, ShiftedFacts DEF SearchShape, EventsShape, AreWhole
   <4> QED BY <4>1, <4>2
  <3>2. CASE FindsGap
   <4> DEFINE x == Event("invalidated", 0, <<>>, NoHit, <<>>)
   <4>1. stream' = Append(stream, x) /\ UNCHANGED <<toLocal, waiting, scans, flight, toTerminal>>
    BY <3>2 DEF FindsGap, localVars
   <4>2. x \in SearchEvents /\ x.kind = "invalidated"
    BY PlainEventFacts DEF EventKinds
   <4> HIDE DEF x
   <4> QED BY <4>1, <4>2
  <3> QED BY <1>15, <3>1, <3>2
 <2>2. EventsAreRight(panel', stream')
  BY <1>0, <1>2, <1>3, <2>1, RightAppend
 <2> QED BY <1>2, <1>p, <2>1, <2>2
<1> QED BY <1>4, <1>5, <1>6, <1>7, <1>8, <1>9, <1>10, <1>11, <1>12, <1>13, <1>14, <1>15
     DEF SearchNext, PanelAsks, ReopenSearch, FlushBatch, Changes, localVars, networkVars

-------------------------------------------------------------------------------
(* A search under way is on its way. *)
LEMMA AnsweredFacts ==
  /\ \A q \in Seq(SearchEvents), e \in SearchEvents, r \in Nat :
      /\ AnswerComes(q, r) => AnswerComes(Append(q, e), r)
      /\ AnswersSearch(e, r) => AnswerComes(Append(q, e), r)
  /\ \A q \in Seq(SearchEvents), r \in Nat :
      q # <<>> /\ AnswerComes(q, r) => AnswersSearch(q[1], r) \/ AnswerComes(Tail(q), r)
<1>1. ASSUME NEW q \in Seq(SearchEvents), NEW e \in SearchEvents, NEW r \in Nat
      PROVE  /\ AnswerComes(q, r) => AnswerComes(Append(q, e), r)
             /\ AnswersSearch(e, r) => AnswerComes(Append(q, e), r)
 <2> DEFINE t == Append(q, e)
 <2>1. /\ Len(q) \in Nat /\ Len(t) = Len(q) + 1 /\ t[Len(q) + 1] = e
       /\ \A i \in 1..Len(q) : t[i] = q[i] /\ i \in 1..Len(q) + 1
  BY AppendedFacts
 <2> HIDE DEF t
 <2>2. AnswerComes(q, r) => AnswerComes(t, r)
  BY <2>1 DEF AnswerComes
 <2>3. Len(q) + 1 \in 1..Len(t)
  BY <2>1
 <2>4. AnswersSearch(e, r) => AnswerComes(t, r)
  BY <2>1, <2>3 DEF AnswerComes
 <2> QED BY <2>2, <2>4 DEF t
<1>2. ASSUME NEW q \in Seq(SearchEvents), NEW r \in Nat, q # <<>>, AnswerComes(q, r), ~AnswersSearch(q[1], r)
      PROVE  AnswerComes(Tail(q), r)
 <2>1. PICK i \in 1..Len(q) : AnswersSearch(q[i], r)
  BY <1>2 DEF AnswerComes
 <2>2. i # 1
  BY <1>2, <2>1
 <2>3. /\ Len(q) \in Nat /\ Len(Tail(q)) = Len(q) - 1
       /\ \A j \in 1..Len(q) - 1 : Tail(q)[j] = q[j + 1]
  BY <1>2, ShiftedFacts
 <2> DEFINE j == i - 1
 <2>4. j \in 1..Len(q) - 1 /\ j + 1 = i
  BY <2>2, <2>3
 <2> HIDE DEF j
 <2>5. AnswersSearch(Tail(q)[j], r) /\ j \in 1..Len(Tail(q))
  BY <2>1, <2>3, <2>4
 <2> QED BY <2>5 DEF AnswerComes
<1> QED BY <1>1, <1>2

\* What serves the search that is numbered r, from the last command on.
Serves(r, local, network, f, s, t, begunJobs) ==
    IF local # <<>> THEN local[Len(local)].request = r /\ local[Len(local)].kind # "cancel"
    ELSE \/ \E i \in 1..Len(network) : network[i].request = r /\ Cloudy(network[i])
         \/ f # NoFlight /\ f.request = r /\ network = <<>>
         \/ AnswerComes(s, r)
         \/ AnswerComes(t, r)
         \/ begunJobs.queued.request = r
         \/ begunJobs.job.request = r /\ ~begunJobs.job.cancelled
IsServed(r) == Serves(r, toLocal, waiting, flight, stream, toTerminal, scans)

LEMMA ServedFacts ==
  /\ ServedInOrder <=>
      (panel.loading => panel.open /\ panel.request >= 1 /\ IsServed(panel.request))
  /\ ServedInOrder' <=>
      (panel'.loading => /\ panel'.open /\ panel'.request >= 1
                         /\ Serves(panel'.request, toLocal', waiting', flight', stream', toTerminal',
                                   scans'))
BY DEF ServedInOrder, IsUnderWay, IsServed, Serves

LEMMA ServedStep ==
  ASSUME SearchShape, AllAreRight, ServedInOrder, SearchNext
  PROVE  ServedInOrder'
<1>0. /\ toLocal \in Seq(SearchCommands) /\ waiting \in Seq(SearchCommands)
      /\ stream \in Seq(SearchEvents) /\ toTerminal \in Seq(SearchEvents)
      /\ scans \in [job : ScanJobs, queued : ScanJobs]
      /\ panel.request \in Nat
      /\ panel \in [open : BOOLEAN, source : {"local", "cloud"}, query : Query,
                  position : 1..MaxPages, request : Nat, loading : BOOLEAN,
                  target : Hit \cup {NoHit}]
 BY DEF SearchShape, PanelShape, CommandsShape, EventsShape, AreWhole, RestShape
<1> DEFINE r == panel.request
<1>s. panel.loading => panel.open /\ r >= 1 /\ IsServed(r)
 BY ServedFacts
<1>p. ASSUME panel'.loading /\ panel'.open = panel.open /\ panel'.request = panel.request /\ panel.loading
                => Serves(r, toLocal', waiting', flight', stream', toTerminal', scans'),
             panel'.loading => panel.loading /\ panel'.open = panel.open /\ panel'.request = panel.request
      PROVE  ServedInOrder'
 <2>1. CASE ~panel'.loading
  BY <2>1, ServedFacts
 <2>2. CASE panel'.loading
  BY <1>s, <1>p, <2>2, ServedFacts
 <2> QED BY <2>1, <2>2
<1>1. CASE PanelAsks
 <2>1. PICK c : Carries(c, panel') /\ toLocal' = Append(toLocal, c)
  BY <1>1, PanelAsksFacts
 <2>2. panel'.request = r + 1 /\ c \in SearchCommands
  BY <1>1, <2>1, PanelAsksFacts DEF Carries
 <2>3. toLocal' # <<>> /\ toLocal'[Len(toLocal')] = c
  BY <1>0, <2>1, <2>2, AppendedFacts
 <2>4. panel'.loading => c.kind # "cancel" /\ panel'.open /\ c.request = panel'.request
  BY <2>1 DEF Carries
 <2>5. panel'.request >= 1
  BY <1>0, <2>2
 <2> QED BY <2>3, <2>4, <2>5, ServedFacts DEF Serves
<1>2. CASE ReopenSearch
 <2>1. panel' = [panel EXCEPT !.open = TRUE] /\ ~panel.open
       /\ UNCHANGED <<toLocal, waiting, flight, stream, toTerminal, scans>>
  BY <1>2 DEF ReopenSearch, localVars, networkVars
 <2>2. ~panel'.loading
  BY <1>0, <1>s, <2>1
 <2> QED BY <2>2, ServedFacts
<1>3. CASE HandleSearchEvent
 <2> DEFINE e == toTerminal[1]
 <2>1. /\ toTerminal # <<>> /\ toTerminal' = Tail(toTerminal) /\ 1 \in 1..Len(toTerminal)
       /\ \/ SearchResults(e) \/ SearchFailed(e) \/ OpenSearchContext(e)
          \/ ObserveChange(e) \/ ObserveInvalidation(e)
       /\ UNCHANGED <<toLocal, waiting, flight, stream, scans>>
  BY <1>3, HandledKnows DEF HandleSearchEvent, networkVars
 <2>2. EventIsRight(panel, e)
  BY <2>1 DEF AllAreRight
 <2> HIDE DEF e
 <2>3. panel'.loading => panel' = panel /\ ~(panel.open /\ AnswersSearch(e, r))
  <3>1. CASE SearchResults(e)
   <4>1. CASE Finishes(e)
    BY <1>0, <3>1, <4>1 DEF SearchResults
   <4>2. CASE ~Finishes(e)
    BY <3>1, <4>2 DEF SearchResults, panelVars, Finishes, AnswersSearch
   <4> QED BY <4>1, <4>2
  <3>2. CASE SearchFailed(e)
   <4>1. CASE Finishes(e)
    BY <1>0, <3>2, <4>1 DEF SearchFailed
   <4>2. CASE ~Finishes(e)
    BY <3>2, <4>2 DEF SearchFailed, Finishes, AnswersSearch
   <4> QED BY <4>1, <4>2
  <3>3. CASE OpenSearchContext(e)
   <4>1. e.kind = "context"
    BY <3>3 DEF OpenSearchContext
   <4>2. CASE ~Finishes(e)
    BY <3>3, <4>2 DEF OpenSearchContext, Finishes, AnswersSearch
   <4>3. CASE panel.target # e.target /\ Finishes(e)
    <5>1. panel' = panel /\ panel.request = e.request
     BY <3>3, <4>3 DEF OpenSearchContext, Finishes
    <5>2. ~panel.loading
     BY <2>2, <4>1, <4>3, <5>1 DEF EventIsRight, TargetFor
    <5> QED BY <5>1, <5>2
   <4>4. CASE panel.target = e.target /\ Finishes(e)
    BY <1>0, <3>3, <4>4 DEF OpenSearchContext
   <4> QED BY <4>2, <4>3, <4>4
  <3>4. CASE ObserveChange(e)
   BY <3>4 DEF ObserveChange, AnswersSearch
  <3>5. CASE ObserveInvalidation(e)
   BY <1>0, <3>5 DEF ObserveInvalidation
  <3> QED BY <2>1, <3>1, <3>2, <3>3, <3>4, <3>5
 <2>4. ASSUME panel'.loading
       PROVE  Serves(r, toLocal', waiting', flight', stream', toTerminal', scans')
  <3>1. panel.loading /\ panel.open /\ IsServed(r) /\ ~AnswersSearch(e, r)
   BY <1>s, <2>3, <2>4
  <3>2. AnswerComes(toTerminal, r) => AnswerComes(toTerminal', r)
   BY <1>0, <2>1, <3>1, AnsweredFacts DEF e
  <3> QED BY <2>1, <3>1, <3>2 DEF IsServed, Serves
 <2> QED BY <1>p, <2>3, <2>4
<1>4. CASE TakeSearchCommand
 <2> DEFINE c == Head(toLocal)
            failed == Event("failed", c.request, <<>>, NoHit, <<>>)
            context == Event("context", c.request, <<>>, c.target, Messages(told))
 <2>1. /\ toLocal # <<>> /\ toLocal' = Tail(toLocal) /\ c \in SearchCommands
       /\ \/ waiting' = waiting /\ c.kind = "context"
          \/ waiting' = <<>> /\ c.kind # "context" /\ c.kind # "local"
          \/ waiting' = <<c>> /\ c.kind \in {"cloud", "cloudContext", "cancel"}
          \/ waiting' = <<Cancelling>> /\ c.kind = "local"
       /\ \/ toTerminal' = toTerminal
          \/ toTerminal' = Append(toTerminal, failed) /\ c.kind # "context"
          \/ toTerminal' = Append(toTerminal, context) /\ c.kind = "context"
       /\ c.kind = "context" => toTerminal' # toTerminal
       /\ waiting' = <<>> /\ Cloudy(c) => toTerminal' # toTerminal
       /\ \/ scans' = scans /\ c.kind = "context"
          \/ scans' = CancelScan /\ c.kind # "context" /\ c.kind # "local"
          \/ scans' = Queue(c) /\ c.kind = "local"
       /\ panel' = panel
  BY <1>4, TakenFacts DEF panelVars
 <2>2. /\ failed \in SearchEvents /\ failed.kind = "failed" /\ failed.request = c.request
       /\ context \in SearchEvents /\ context.kind = "context" /\ context.request = c.request
  BY <2>1, TakenEvents
 <2>3. c = toLocal[1] /\ c.request \in Nat
       /\ c.kind \in {"local", "cloud", "context", "cloudContext", "cancel"}
  BY <1>0, <2>1, ShiftedFacts DEF SearchCommands
 <2>4. /\ Len(toLocal) \in Nat /\ Len(toLocal) >= 1 /\ Len(toLocal') = Len(toLocal) - 1
       /\ toLocal' \in Seq(SearchCommands)
       /\ \A i \in 1..Len(toLocal) - 1 : toLocal'[i] = toLocal[i + 1]
  BY <1>0, <2>1, ShiftedFacts
 <2> HIDE DEF c, failed, context
 <2>5. ASSUME panel.loading
       PROVE  Serves(r, toLocal', waiting', flight', stream', toTerminal', scans')
  <3>1. toLocal[Len(toLocal)].request = r /\ toLocal[Len(toLocal)].kind # "cancel" /\ r \in Nat
   BY <1>0, <1>s, <2>1, <2>5 DEF IsServed, Serves
  <3>2. CASE toLocal' # <<>>
   <4> DEFINE n == Len(toLocal)
   <4>1. n \in Nat /\ Len(toLocal') = n - 1 /\ Len(toLocal') >= 1
    BY <2>4, <3>2, ElementFacts
   <4>2. n - 1 \in 1..n - 1 /\ n - 1 + 1 = n
    BY <4>1
   <4>3. toLocal'[Len(toLocal')] = toLocal[Len(toLocal)]
    BY <2>4, <4>1, <4>2
   <4> QED BY <3>1, <3>2, <4>3 DEF Serves
  <3>3. CASE toLocal' = <<>>
   <4>1. Len(toLocal) = 1
    <5> DEFINE n == Len(toLocal)
    <5>1. n \in Nat /\ n >= 1 /\ 0 = n - 1
     BY <2>4, <3>3, NothingFacts
    <5> HIDE DEF n
    <5>2. n = 1
     BY <5>1
    <5> QED BY <5>2 DEF n
   <4>2. c.request = r /\ c.kind # "cancel"
    BY <2>3, <3>1, <4>1
   <4>3. CASE c.kind = "local"
    <5>1. scans' = Queue(c)
     BY <2>1, <4>3
    <5>2. scans'.queued.request = r
     BY <2>1, <4>2, <5>1, JobFacts
    <5> QED BY <3>3, <5>2 DEF Serves
   <4>4. CASE c.kind = "context"
    <5>1. toTerminal' = Append(toTerminal, context)
     BY <2>1, <4>4
    <5>2. AnswersSearch(context, r)
     BY <2>2, <4>2 DEF AnswersSearch
    <5>3. AnswerComes(toTerminal', r)
     BY <1>0, <2>2, <3>1, <5>1, <5>2, AnsweredFacts
    <5> QED BY <3>3, <5>3 DEF Serves
   <4>5. CASE Cloudy(c)
    <5>1. c.kind \in {"cloud", "cloudContext"}
     BY <4>5 DEF Cloudy
    <5>2. CASE waiting' = <<c>>
     <6>1. 1 \in 1..Len(waiting') /\ waiting'[1] = c
      BY <2>1, <5>2, OneOfCommands
     <6> QED BY <3>3, <4>2, <4>5, <6>1 DEF Serves
    <5>3. CASE waiting' = <<>>
     <6>1. toTerminal' = Append(toTerminal, failed)
      BY <2>1, <4>5, <5>1, <5>3
     <6>2. AnswersSearch(failed, r)
      BY <2>2, <4>2 DEF AnswersSearch
     <6>3. AnswerComes(toTerminal', r)
      BY <1>0, <2>2, <3>1, <6>1, <6>2, AnsweredFacts
     <6> QED BY <3>3, <6>3 DEF Serves
    <5> QED BY <2>1, <5>1, <5>2, <5>3
   <4> QED BY <2>3, <4>2, <4>3, <4>4, <4>5 DEF Cloudy
  <3> QED BY <3>2, <3>3
 <2> QED BY <1>p, <2>1, <2>5
<1>5. CASE StartPending
 <2>1. /\ scans.job = NoJob /\ scans' = [job |-> scans.queued, queued |-> NoJob]
       /\ UNCHANGED <<panel, toLocal, waiting, flight, stream, toTerminal>>
  BY <1>5 DEF StartPending, networkVars, panelVars
 <2>2. ~scans.queued.cancelled /\ scans.job.request = 0
  BY <2>1 DEF SearchShape, RestShape, NoJob
 <2>3. ASSUME panel.loading
       PROVE  Serves(r, toLocal', waiting', flight', stream', toTerminal', scans')
  <3>1. r >= 1 /\ IsServed(r) /\ scans.job.request # r
   BY <1>0, <1>s, <2>2, <2>3
  <3>2. scans'.job = scans.queued
   BY <2>1
  <3> QED BY <2>1, <2>2, <3>1, <3>2 DEF IsServed, Serves
 <2> QED BY <1>p, <2>1, <2>3
<1>6. CASE Scan
 <2>1. /\ scans' = [scans EXCEPT !.job.read = TRUE, !.job.hits = Messages(rows)]
       /\ UNCHANGED <<panel, toLocal, waiting, flight, stream, toTerminal>>
  BY <1>6 DEF Scan, networkVars, panelVars
 <2>2. /\ scans'.queued = scans.queued /\ scans'.job.request = scans.job.request
       /\ scans'.job.cancelled = scans.job.cancelled
  BY <1>0, <2>1 DEF ScanJobs
 <2> QED BY <1>p, <1>s, <2>1, <2>2 DEF IsServed, Serves
<1>7. CASE ScanEnds
 <2>1. /\ scans' = [scans EXCEPT !.job = NoJob]
       /\ \/ scans.job.cancelled /\ toTerminal' = toTerminal
          \/ /\ ~scans.job.cancelled
             /\ \E e \in SearchEvents :
                   /\ toTerminal' = Append(toTerminal, e) /\ e.request = scans.job.request
                   /\ e.kind \in {"local", "failed"}
       /\ UNCHANGED <<panel, toLocal, waiting, flight, stream>>
  BY <1>7, ScanEndsFacts DEF networkVars, panelVars
 <2>2. scans'.queued = scans.queued
  BY <1>0, <2>1
 <2>3. AnswerComes(toTerminal, r) => AnswerComes(toTerminal', r)
  BY <1>0, <2>1, AnsweredFacts
 <2>4. scans.job.request = r /\ ~scans.job.cancelled => AnswerComes(toTerminal', r)
  <3> SUFFICES ASSUME scans.job.request = r, ~scans.job.cancelled
               PROVE  AnswerComes(toTerminal', r)
   OBVIOUS
  <3>1. PICK e \in SearchEvents :
          /\ toTerminal' = Append(toTerminal, e) /\ e.request = scans.job.request
          /\ e.kind \in {"local", "failed"}
   BY <2>1
  <3>2. AnswersSearch(e, r)
   BY <3>1 DEF AnswersSearch
  <3> QED BY <1>0, <3>1, <3>2, AnsweredFacts
 <2> QED BY <1>p, <1>s, <2>1, <2>2, <2>3, <2>4 DEF IsServed, Serves
<1>8. CASE TakeStream
 <2> DEFINE e == stream[1]
 <2>1. /\ stream # <<>> /\ stream' = Tail(stream) /\ e \in SearchEvents /\ Head(stream) = e
       /\ \/ TellsChange(e) \/ TellsLoading(e) \/ TellsCancelled(e)
          \/ TellsAnswer(e) \/ TellsFailure(e) \/ TellsInvalidation(e)
       /\ UNCHANGED <<panel, toLocal, waiting, scans, flight>>
  BY <1>8, TakeStreamFacts DEF panelVars
 <2>2. AnswerComes(toTerminal, r) => AnswerComes(toTerminal', r)
  <3>1. CASE toTerminal' = toTerminal
   BY <3>1
  <3>2. CASE toTerminal' # toTerminal
   <4>1. PICK x \in SearchEvents : toTerminal' = Append(toTerminal, x)
    BY <1>8, <3>2, ToldIsWhole
   <4> QED BY <1>0, <4>1, AnsweredFacts
  <3> QED BY <3>1, <3>2
 <2>3. EventIsRight(panel, e)
  <3>1. 1 \in 1..Len(stream)
   BY <1>0, <2>1, ShiftedFacts
  <3> QED BY <3>1 DEF AllAreRight
 <2>4. AnswerComes(stream, r) => AnswersSearch(e, r) \/ AnswerComes(stream', r)
  BY <1>0, <2>1, AnsweredFacts
 <2> HIDE DEF e
 <2>5. AnswersSearch(e, r) => AnswerComes(toTerminal', r)
  <3> SUFFICES ASSUME AnswersSearch(e, r) PROVE AnswerComes(toTerminal', r)
   OBVIOUS
  <3>1. e.request = r /\ e.kind \in {"local", "cloud", "context", "failed"}
   BY DEF AnswersSearch
  <3>2. CASE e.kind = "local"
   BY <2>1, <3>2 DEF TellsChange, TellsLoading, TellsCancelled, TellsAnswer, TellsFailure,
        TellsInvalidation
  <3>3. CASE e.kind = "failed"
   <4>1. toTerminal' = Append(toTerminal, e)
    BY <2>1, <3>3 DEF TellsChange, TellsLoading, TellsCancelled, TellsAnswer, TellsFailure,
       TellsInvalidation
   <4> QED BY <1>0, <2>1, <4>1, AnsweredFacts
  <3>4. CASE e.kind \in {"cloud", "context"}
   <4>1. TellsAnswer(e)
    BY <2>1, <3>4 DEF TellsChange, TellsLoading, TellsCancelled, TellsFailure, TellsInvalidation
   <4> DEFINE failure == Event("failed", e.request, <<>>, NoHit, <<>>)
   <4>2. failure \in SearchEvents /\ AnswersSearch(failure, r)
    BY <2>1, <3>1, PlainEventFacts, VersionFacts DEF EventKinds, AnswersSearch
   <4>3. \A h \in HitLists : LET x == [e EXCEPT !.hits = h]
                             IN  x \in SearchEvents /\ x.kind = e.kind /\ x.request = e.request
    BY <2>1 DEF SearchEvents
   <4>4. \/ toTerminal' = Append(toTerminal, failure)
         \/ \E h \in HitLists : toTerminal' = Append(toTerminal, [e EXCEPT !.hits = h])
    BY <2>1, <4>1, AnswerFacts
   <4> HIDE DEF failure
   <4>5. CASE toTerminal' = Append(toTerminal, failure)
    BY <1>0, <4>2, <4>5, AnsweredFacts
   <4>6. CASE \E h \in HitLists : toTerminal' = Append(toTerminal, [e EXCEPT !.hits = h])
    <5>1. PICK h \in HitLists : toTerminal' = Append(toTerminal, [e EXCEPT !.hits = h])
     BY <4>6
    <5> DEFINE x == [e EXCEPT !.hits = h]
    <5>2. x \in SearchEvents /\ AnswersSearch(x, r)
     BY <3>1, <4>3 DEF AnswersSearch
    <5>3. toTerminal' = Append(toTerminal, x)
     BY <5>1
    <5> HIDE DEF x
    <5> QED BY <1>0, <5>2, <5>3, AnsweredFacts
   <4> QED BY <4>4, <4>5, <4>6
  <3> QED BY <3>1, <3>2, <3>3, <3>4
 <2> QED BY <1>p, <1>s, <2>1, <2>2, <2>4, <2>5 DEF IsServed, Serves
<1>9. CASE HandleSearch
 <2>1. /\ waiting # <<>> /\ waiting' = <<>> /\ Len(waiting) = 1
       /\ waiting[1] \in SearchCommands /\ flight.request \in Nat
       /\ UNCHANGED <<panel, toLocal, scans, toTerminal>>
  BY <1>9, HandleSearchFacts DEF SearchShape, RestShape, panelVars
 <2> DEFINE c == waiting[1]
            cancelled == Event("cancelled", flight.request, <<>>, NoHit, <<>>)
            begun == Event("loading", c.request, <<>>, NoHit, <<>>)
 <2>2. PICK s : /\ s = stream \/ s = Append(stream, cancelled)
                /\ \/ stream' = s /\ flight' = NoFlight /\ ~Cloudy(c)
                   \/ /\ stream' = Append(s, begun)
                      /\ Cloudy(c)
                      /\ flight' = [NoFlight EXCEPT !.request = c.request,
                                      !.asked = c.asked, !.target = c.target]
  BY <1>9, HandleSearchFacts
 <2>3. c.request \in Nat
  BY <2>1 DEF SearchCommands
 <2>4. cancelled \in SearchEvents /\ begun \in SearchEvents
  BY <2>1, <2>3, PlainEventFacts DEF EventKinds
 <2> HIDE DEF cancelled, begun
 <2>5. AnswerComes(stream, r) => AnswerComes(stream', r)
  <3>1. s \in Seq(SearchEvents) /\ (AnswerComes(stream, r) => AnswerComes(s, r))
   <4>1. CASE s = stream
    BY <1>0, <4>1
   <4>2. CASE s = Append(stream, cancelled)
    <5>1. s \in Seq(SearchEvents)
     BY <1>0, <2>4, <4>2, AppendedFacts
    <5> QED BY <1>0, <2>4, <4>2, <5>1, AnsweredFacts
   <4> QED BY <2>2, <4>1, <4>2
  <3>2. CASE stream' = s
   BY <3>1, <3>2
  <3>3. CASE stream' = Append(s, begun)
   BY <1>0, <2>4, <3>1, <3>3, AnsweredFacts
  <3> QED BY <2>2, <3>1, <3>2, <3>3
 <2>6. ASSUME panel.loading
       PROVE  Serves(r, toLocal', waiting', flight', stream', toTerminal', scans')
  <3>1. r >= 1 /\ r \in Nat /\ IsServed(r)
   BY <1>0, <1>s, <2>6
  <3>2. (\E i \in 1..Len(waiting) : waiting[i].request = r /\ Cloudy(waiting[i]))
          => flight' # NoFlight /\ flight'.request = r
   <4> SUFFICES ASSUME NEW i \in 1..Len(waiting), waiting[i].request = r, Cloudy(waiting[i])
                PROVE  flight' # NoFlight /\ flight'.request = r
    OBVIOUS
   <4>1. i = 1
    BY <2>1
   <4>2. c.request = r /\ Cloudy(c)
    BY <4>1
   <4>3. flight'.request = r
    BY <2>2, <4>2 DEF NoFlight
   <4>4. NoFlight.request # r
    BY <3>1 DEF NoFlight
   <4> QED BY <4>3, <4>4
  <3> QED BY <2>1, <2>5, <3>1, <3>2 DEF IsServed, Serves
 <2> QED BY <1>p, <2>1, <2>6
<1>10. CASE Answers
 <2>1. /\ flight' = [flight EXCEPT !.read = TRUE, !.hits = Messages(server)] /\ flight # NoFlight
       /\ UNCHANGED <<panel, toLocal, waiting, scans, stream, toTerminal>>
  BY <1>10, NetworkFacts DEF localVars, panelVars
 <2>2. flight'.request = flight.request /\ flight'.read
  BY <2>1 DEF SearchShape, RestShape
 <2>3. flight' # NoFlight
  BY <2>2 DEF NoFlight
 <2> QED BY <1>p, <1>s, <2>1, <2>2, <2>3 DEF IsServed, Serves
<1>11. CASE Complete
 <2>1. UNCHANGED <<panel, toLocal, waiting, scans, toTerminal>>
  BY <1>11, NetworkFacts DEF localVars, panelVars
 <2>2. PICK e \in SearchEvents :
           /\ stream' = Append(stream, e) /\ e.request = flight.request
           /\ e.kind = "failed" \/ e.kind = IF flight.target = NoHit THEN "cloud" ELSE "context"
  BY <1>11, NetworkFacts
 <2>3. flight.request = r => AnswersSearch(e, r)
  BY <2>2 DEF AnswersSearch
 <2>4. /\ AnswerComes(stream, r) => AnswerComes(stream', r)
       /\ flight.request = r => AnswerComes(stream', r)
  BY <1>0, <2>2, <2>3, AnsweredFacts
 <2> QED BY <1>p, <1>s, <2>1, <2>4 DEF IsServed, Serves
<1>12. CASE ReceivesChange \/ FindsGap
 <2>1. /\ UNCHANGED <<panel, toLocal, waiting, scans, flight, toTerminal>>
       /\ \E e \in SearchEvents : stream' = Append(stream, e)
  <3>1. CASE ReceivesChange
   <4>1. pushed # <<>> /\ stream' = Append(stream, Head(pushed))
         /\ UNCHANGED <<panel, toLocal, waiting, scans, flight, toTerminal>>
    BY <3>1 DEF ReceivesChange, localVars, panelVars
   <4>2. Head(pushed) \in SearchEvents
    BY <4>1, ShiftedFacts DEF SearchShape, EventsShape, AreWhole
   <4> QED BY <4>1, <4>2
  <3>2. CASE FindsGap
   <4>1. stream' = Append(stream, Event("invalidated", 0, <<>>, NoHit, <<>>))
         /\ UNCHANGED <<panel, toLocal, waiting, scans, flight, toTerminal>>
    BY <3>2 DEF FindsGap, localVars, panelVars
   <4>2. Event("invalidated", 0, <<>>, NoHit, <<>>) \in SearchEvents
    BY PlainEventFacts DEF EventKinds
   <4> QED BY <4>1, <4>2
  <3> QED BY <1>12, <3>1, <3>2
 <2>2. AnswerComes(stream, r) => AnswerComes(stream', r)
  BY <1>0, <2>1, AnsweredFacts
 <2> QED BY <1>p, <1>s, <2>1, <2>2 DEF IsServed, Serves
<1>13. CASE UNCHANGED <<panel, toLocal, waiting, scans, flight, stream, toTerminal>>
 BY <1>p, <1>s, <1>13 DEF IsServed, Serves
<1> QED BY <1>1, <1>2, <1>3, <1>4, <1>5, <1>6, <1>7, <1>8, <1>9, <1>10, <1>11, <1>12, <1>13
     DEF SearchNext, PanelAsks, FlushBatch, Changes, localVars, networkVars, panelVars

-------------------------------------------------------------------------------
LEMMA SearchInitInv == SearchInit => SearchInv
<1> SUFFICES ASSUME SearchInit PROVE SearchInv
 OBVIOUS
<1>0. /\ panel = [open |-> FALSE, source |-> "local", query |-> CHOOSE q \in Query : TRUE,
                position |-> 1, request |-> 0, loading |-> FALSE, target |-> NoHit]
      /\ page = NoPage
      /\ toLocal = <<>> /\ toTerminal = <<>> /\ waiting = <<>>
      /\ scans = [job |-> NoJob, queued |-> NoJob]
      /\ rows = [h \in Hit |-> 1] /\ told = rows /\ server = rows /\ knows = rows
      /\ cloud = [request |-> 0, changed |-> {}]
      /\ flight = NoFlight /\ stream = <<>> /\ pushed = <<>>
      /\ gapsFound = 0
 BY DEF SearchInit
<1>1. PanelShape
 <2>1. (CHOOSE q \in Query : TRUE) \in Query
  BY SearchAssumption
 <2>2. 1 \in 1..MaxPages
  BY SearchAssumption
 <2>3. NoPage \in [asked : Asking \cup {<<>>}, hits : HitLists]
  BY HitListFacts DEF NoPage
 <2> QED BY <1>0, <2>1, <2>2, <2>3 DEF PanelShape
<1>2. CommandsShape
 <2>1. waiting \in Seq(SearchCommands) /\ toLocal \in Seq(SearchCommands)
       /\ Len(waiting) = 0 /\ 1..Len(waiting) = {}
  BY <1>0, NothingFacts
 <2> QED BY <2>1 DEF CommandsShape
<1>3. EventsShape
 <2>1. AreWhole(<<>>) /\ 1..Len(<<>>) = {}
  BY NothingFacts DEF AreWhole
 <2> QED BY <1>0, <2>1 DEF EventsShape
<1>4. RestShape
 <2>1. NoJob \in ScanJobs /\ ~NoJob.cancelled
  BY HitListFacts DEF NoJob, ScanJobs
 <2>2. NoFlight \in [request : Nat, asked : Asking \cup {<<>>}, target : Hit \cup {NoHit},
                  hits : HitLists, read : BOOLEAN]
  BY HitListFacts DEF NoFlight
 <2>3. 1 \in 0..Erased
  BY SearchAssumption DEF Erased
 <2>4. rows \in Listed
  BY <1>0, <2>3 DEF Listed
 <2> QED BY <1>0, <2>1, <2>2, <2>4 DEF RestShape
<1>n. 1..Len(<<>>) = {}
 BY NothingFacts
<1>5. AllAreRight
 <2>1. JobIsRight(panel, NoJob) /\ FlightIsRight(panel, NoFlight)
  BY DEF JobIsRight, FlightIsRight
 <2> QED BY <1>0, <1>n, <2>1 DEF AllAreRight
<1>6. ServedInOrder
 BY <1>0 DEF ServedInOrder
<1>7. VersionsInOrder
 <2> SUFFICES ASSUME NEW m \in Hit PROVE Ordered(knows, toTerminal, stream, pushed, server[m], m)
  BY DEF VersionsInOrder
 <2>1. knows[m] = 1 /\ server[m] = 1
  BY <1>0
 <2> QED BY <1>0, <1>n, <2>1 DEF Ordered, Below, InTurn
<1>8. ToldIsLast
 <2> SUFFICES ASSUME NEW m \in Hit PROVE Below(knows, toTerminal, m, told[m])
  BY DEF ToldIsLast
 <2>1. knows[m] = 1 /\ told[m] = 1
  BY <1>0
 <2> QED BY <1>0, <1>n, <2>1 DEF Below
<1>9. AnswersInTime
 BY <1>0, <1>n DEF AnswersInTime, NoFlight
<1>10. ShownInTime
 BY <1>0, <1>n DEF ShownInTime, AllShown, CloudHitsAreCurrent
<1> QED BY <1>1, <1>2, <1>3, <1>4, <1>5, <1>6, <1>7, <1>8, <1>9, <1>10 DEF SearchInv, SearchShape

LEMMA SearchStepInv ==
  ASSUME SearchInv, [SearchNext]_searchVars
  PROVE  SearchInv'
<1>1. CASE SearchNext
 <2>1. SearchShape /\ AllAreRight /\ ServedInOrder /\ VersionsInOrder /\ ToldIsLast /\ AnswersInTime
       /\ AllShown(knows, toTerminal) /\ CloudHitsAreCurrent
  BY DEF SearchInv, ShownInTime
 <2>2. SearchShape' /\ AllAreRight' /\ ServedInOrder'
  BY <1>1, <2>1, SearchShapeStep, AllAreRightStep, ServedStep
 <2>3. VersionsInOrder' /\ ToldIsLast' /\ AnswersInTime'
  BY <1>1, <2>1, OrderedStep, ToldIsLastStep, AnswersInTimeStep
 <2>4. AllShown(knows', toTerminal') /\ CloudHitsAreCurrent'
  BY <1>1, <2>1, AllShownStep, CloudHitsStep
 <2> QED BY <2>2, <2>3, <2>4 DEF SearchInv, ShownInTime
<1>2. CASE UNCHANGED searchVars
 <2>1. UNCHANGED <<panel, page, toLocal, toTerminal, waiting, scans, rows, told, cloud, flight,
                   stream, server, pushed, knows, gapsFound>>
  BY <1>2 DEF searchVars, panelVars, localVars, networkVars
 <2>2. SearchShape'
  BY <2>1 DEF SearchInv, SearchShape, PanelShape, CommandsShape, EventsShape, RestShape
 <2>3. AllAreRight' /\ ServedInOrder'
  BY <2>1 DEF SearchInv, AllAreRight, ServedInOrder, IsUnderWay
 <2>4. VersionsInOrder' /\ ToldIsLast' /\ AnswersInTime' /\ ShownInTime'
  BY <2>1 DEF SearchInv, VersionsInOrder, ToldIsLast, AnswersInTime, ShownInTime, CloudHitsAreCurrent
 <2> QED BY <2>2, <2>3, <2>4 DEF SearchInv
<1> QED BY <1>1, <1>2

LEMMA SearchAlways == SearchSpec => []SearchInv
<1>1. SearchInv /\ [SearchNext]_searchVars => SearchInv'
 BY SearchStepInv
<1> QED BY SearchInitInv, <1>1, PTL DEF SearchSpec

LEMMA SearchInvHolds == SearchInv => SearchHolds /\ SearchType
<1> SUFFICES ASSUME SearchInv PROVE SearchHolds /\ SearchType
 OBVIOUS
<1>0. /\ SearchShape /\ AllAreRight /\ ServedInOrder /\ CloudHitsAreCurrent
      /\ toLocal \in Seq(SearchCommands) /\ waiting \in Seq(SearchCommands)
      /\ stream \in Seq(SearchEvents) /\ toTerminal \in Seq(SearchEvents)
 BY DEF SearchInv, ShownInTime, SearchShape, CommandsShape, EventsShape, AreWhole
<1>1. ShownIsAsked
 BY <1>0 DEF ShownIsAsked, AllAreRight, AskedBy, Asked
<1>2. SearchIsServed
 <2> SUFFICES ASSUME panel.loading PROVE SearchIsServed
  BY DEF SearchIsServed
 <2>1. /\ DOMAIN toLocal = 1..Len(toLocal) /\ DOMAIN waiting = 1..Len(waiting)
       /\ DOMAIN stream = 1..Len(stream) /\ DOMAIN toTerminal = 1..Len(toTerminal)
  BY <1>0
 <2>2. CASE toLocal # <<>>
  <3>1. Len(toLocal) \in DOMAIN toLocal
   BY <1>0, <2>1, <2>2, ElementFacts
  <3>2. toLocal[Len(toLocal)].request = panel.request
   BY <1>0, <2>2 DEF ServedInOrder
  <3> QED BY <3>1, <3>2 DEF SearchIsServed
 <2>3. CASE toLocal = <<>>
  BY <1>0, <2>1, <2>3 DEF ServedInOrder, IsUnderWay, AnswerComes, AnswersSearch, SearchIsServed
 <2> QED BY <2>2, <2>3
<1>3. SearchType
 <2>1. page.hits \in HitLists
  BY <1>0 DEF SearchShape, PanelShape
 <2>2. DOMAIN page.hits \subseteq Hit
  BY <2>1, HitListFacts
 <2> QED BY <1>0, <2>2 DEF SearchShape, PanelShape, RestShape, SearchType
<1> QED BY <1>0, <1>1, <1>2, <1>3 DEF SearchHolds

\* SearchHolds, for any number of everything: the page shown answers the search shown
\* with it and holds what is known of its messages, and a search under way is on its way
\* to its answer (App::apply_search_page, search::Worker).
THEOREM SearchHeld == SearchSpec => []SearchHolds
BY SearchAlways, SearchInvHolds, PTL

\* The panel, the page and the jobs of the worker keep their types.
THEOREM SearchTypeCorrect == SearchSpec => []SearchType
BY SearchAlways, SearchInvHolds, PTL

LEMMA OpensStep ==
  ASSUME SearchInv, SearchNext, panel.target # NoHit, panel.open, ~panel'.open,
         panel'.request = panel.request
  PROVE  knows[panel.target] # Erased
<1>0. /\ SearchShape /\ AllShown(knows, toTerminal)
      /\ panel \in [open : BOOLEAN, source : {"local", "cloud"}, query : Query,
                  position : 1..MaxPages, request : Nat, loading : BOOLEAN,
                  target : Hit \cup {NoHit}]
      /\ panel.request \in Nat /\ panel.request + 1 # panel.request /\ knows \in Listed
 BY DEF SearchInv, ShownInTime, SearchShape, PanelShape, RestShape
<1>1. HandleSearchEvent
 <2>1. ~PanelAsks
  BY <1>0, PanelAsksFacts
 <2>2. ~ReopenSearch
  BY <1>0 DEF ReopenSearch
 <2>3. panel' # panel
  BY <1>0
 <2> QED BY <1>0, <2>1, <2>2, <2>3, TakenFacts, ScanEndsFacts, HandleSearchFacts
      DEF SearchNext, PanelAsks, StartPending, Scan, FlushBatch, TakeStream, Answers, Complete,
          Changes, ReceivesChange, FindsGap, panelVars
<1> DEFINE e == toTerminal[1]
<1>2. /\ e \in SearchEvents /\ 1 \in 1..Len(toTerminal)
      /\ \/ SearchResults(e) \/ SearchFailed(e) \/ OpenSearchContext(e)
         \/ ObserveChange(e) \/ ObserveInvalidation(e)
 BY <1>0, <1>1, HandledKnows
<1>3. IsAnswer(e) => \A m \in DOMAIN e.hits : knows[m] <= e.hits[m]
 BY <1>0, <1>2 DEF AllShown, HitsAreCurrent
<1> HIDE DEF e
<1>4. OpenSearchContext(e) /\ StillThere(e)
 <2>1. ~SearchResults(e) /\ ~SearchFailed(e)
  BY <1>0 DEF SearchResults, SearchFailed, panelVars
 <2>2. ~ObserveChange(e) /\ ~ObserveInvalidation(e)
  BY <1>0 DEF ObserveChange, ObserveInvalidation
 <2>3. OpenSearchContext(e)
  BY <1>2, <2>1, <2>2
 <2>4. StillThere(e)
  BY <1>0, <2>3 DEF OpenSearchContext
 <2> QED BY <2>3, <2>4
<1>5. panel.target \in DOMAIN e.hits /\ IsAnswer(e)
 BY <1>4 DEF StillThere, OpenSearchContext, IsAnswer
<1>6. e.hits[panel.target] \in 1..MaxVersion /\ panel.target \in Hit
 BY <1>2, <1>5, HitListFacts DEF SearchEvents
<1>7. knows[panel.target] <= e.hits[panel.target]
 BY <1>3, <1>5
<1>8. e.hits[panel.target] < Erased /\ e.hits[panel.target] \in Nat /\ Erased \in Nat
      /\ knows[panel.target] \in Nat
 BY <1>0, <1>6, VersionFacts
<1> QED BY <1>7, <1>8

\* A hit is opened only if it exists as far as the terminal was told (App::open_hit,
\* docs/wiki/en/Search.md:29).
THEOREM OpenedHitExists == SearchSpec => OpensWhatExists
<1>1. SearchInv /\ [SearchNext]_searchVars =>
        [panel.target # NoHit /\ panel.open /\ ~panel'.open /\ panel'.request = panel.request
         => knows[panel.target] # Erased]_searchVars
 BY OpensStep
<1> QED BY SearchAlways, <1>1, PTL DEF SearchSpec, OpensWhatExists

-------------------------------------------------------------------------------
(* All parts together. Each of them behaves as it does by itself, moving or not. *)
LEMMA PartsBegin ==
  Init => /\ OutboxInit /\ TranscriptInit /\ AlertsInit /\ SearchInit /\ AssetsInit
          /\ NavigationInit /\ KeysInit /\ InstallerInit /\ UpdateCheckInit
BY DEF Init

LEMMA PartsStep ==
  [Next]_vars => /\ [OutboxNext]_outboxVars /\ [TranscriptNext]_transcriptVars
                 /\ [AlertsNext]_alertVars /\ [SearchNext]_searchVars /\ [AssetsNext]_assetVars
                 /\ [NavigationNext]_navigationVars /\ [KeysNext]_keyVars
                 /\ [InstallerNext]_installerVars /\ [UpdateCheckNext]_updateCheckVars
<1> SUFFICES ASSUME [Next]_vars
             PROVE  /\ [OutboxNext]_outboxVars /\ [TranscriptNext]_transcriptVars
                    /\ [AlertsNext]_alertVars /\ [SearchNext]_searchVars /\ [AssetsNext]_assetVars
                    /\ [NavigationNext]_navigationVars /\ [KeysNext]_keyVars
                    /\ [InstallerNext]_installerVars /\ [UpdateCheckNext]_updateCheckVars
 OBVIOUS
<1>1. /\ OutboxNext \/ UNCHANGED outboxVars
      /\ TranscriptNext \/ UNCHANGED transcriptVars
      /\ AlertsNext \/ UNCHANGED alertVars
      /\ SearchNext \/ UNCHANGED searchVars
      /\ AssetsNext \/ UNCHANGED assetVars
      /\ NavigationNext \/ UNCHANGED navigationVars
      /\ KeysNext \/ UNCHANGED keyVars
      /\ InstallerNext \/ UNCHANGED installerVars
      /\ UpdateCheckNext \/ UNCHANGED updateCheckVars
 <2>1. CASE Next
  BY <2>1 DEF Next, messageVars, controlVars, selfVars
 <2>2. CASE UNCHANGED vars
  BY <2>2 DEF vars, messageVars, controlVars, selfVars
 <2> QED BY <2>1, <2>2
<1> QED BY <1>1

LEMMA PartsBehave ==
  Spec => /\ OutboxSpec /\ TranscriptSpec /\ AlertsSpec /\ SearchSpec /\ AssetsSpec
          /\ NavigationSpec /\ KeysSpec /\ InstallerSpec /\ UpdateCheckSpec
BY PartsBegin, PartsStep, PTL DEF Spec, OutboxSpec, TranscriptSpec, AlertsSpec, SearchSpec,
   AssetsSpec, NavigationSpec, KeysSpec, InstallerSpec, UpdateCheckSpec

(* TypeOK, whatever part a behaviour is about. *)
THEOREM ClientTypesHold == Spec => []TypeOK
<1>1. /\ OutboxType /\ TranscriptType /\ AlertsType /\ SearchType /\ AssetsType
      /\ NavigationType /\ KeysType /\ InstallerType /\ UpdateCheckType
      => TypeOK
 BY DEF TypeOK
<1> QED BY PartsBehave, OutboxTypeCorrect, TranscriptTypeCorrect, AlertsTypeCorrect,
           SearchTypeCorrect, AssetsTypeCorrect, NavigationTypeCorrect, KeysTypeCorrect,
           InstallerTypeCorrect, UpdateCheckTypeCorrect, <1>1, PTL

(* ActsOnWhatIs: the terminal posts an alert only while it is good, and opens a found
   message only while it exists, though both are decided of something that was asked for
   earlier and may have changed since. *)
THEOREM ClientActsOnWhatIs == Spec => ActsOnWhatIs
BY PartsBehave, PostedAlertsAreGood, OpenedHitExists, PTL DEF ActsOnWhatIs

(* ControlsHold: the composer and the command line belong to an open chat of the list
   (handle_compose, App::submit_command), and a key does what was typed before it and is
   shown for it (Keymap::feed), however files are reloaded and the list is replaced. *)
THEOREM ClientControlsHold == Spec => []ControlsHold
<1>1. StaysInItsChat /\ KeysHold => ControlsHold
 BY DEF ControlsHold
<1> QED BY PartsBehave, NavigationStaysInItsChat, KeysDoAsTyped, <1>1, PTL

(* UpdatesHold: a replacement of the program that is killed or fails leaves a program that
   can be restored, and what is offered is what the settings of now ask for (update.rs,
   App::synchronize_update_preferences). *)
THEOREM ClientUpdatesHold == Spec => []UpdatesHold
<1>1. ReplacesSafely /\ OffersAreTrue => UpdatesHold
 BY DEF UpdatesHold
<1> QED BY PartsBehave, UpdateReplacesSafely, CheckOffersAreTrue, <1>1, PTL

(* ActsAsSteered: the cursor stays on its chat when the list moves, what is opened is what
   was named and under the cursor, and no refresh takes a chat back to an older message
   (preserve_chat_selection, open_chat_by_id, track_snapshot_changes). *)
THEOREM ClientActsAsSteered == Spec => ActsAsSteered
<1>1. NavInv /\ NavInv' /\ [NavigationNext]_navigationVars
      => [part = "navigation" => StepsAsSteered]_vars
 BY SteeredKept
<1> QED BY PartsBehave, PartsStep, NavAlways, <1>1, PTL DEF Spec, ActsAsSteered
===============================================================================
