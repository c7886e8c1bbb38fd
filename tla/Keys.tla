--------------------------------- MODULE Keys ---------------------------------
(* The keymap: chords and counts as they are typed (keymap.rs), and the Lua file    *)
(* that replaces it while the program runs (app/configuration.rs, main.rs). A key,  *)
(* an action and a context stand for those like them, and a configuration is what   *)
(* its `keymap` lists: whether Lua accepts the rest of it is a spec of an unknown    *)
(* action.                                                                          *)
EXTENDS Naturals, Sequences, SequencesExt

CONSTANTS
    Configs,      \* contents of config.lua: sequences of specs
    MaxTyped,     \* bound: keys typed
    MaxReloads    \* bound: reloads asked for and edits of the file

VARIABLES
    bound,        \* Keymap.bindings, whose order only matters for the help
    chord,        \* Keymap.pending
    times,        \* Keymap.count
    keyContext,   \* Keymap.context
    file,         \* what config.lua says
    requested,    \* State.requested
    reloading,    \* State.loading
    reading,      \* configuration_load: where it is and what it found
    typed,        \* history: the keys, the number before them and where they were typed
    ran,          \* history: the action the last key ran, and what was typed for it
    keysTyped, reloads  \* bounded

chordVars == <<chord, times, keyContext, typed, ran>>
reloadVars == <<file, requested, reloading, reading, reloads>>
keyVars == <<bound, chordVars, reloadVars, keysTyped>>

Context == {"global", "chats", "conversation", "compose"}
Counted == {"chats", "conversation"}
MaxCount == 9999

\* What a key is as a number.
Digit == [k \in {"0", "2"} |-> IF k = "0" THEN 0 ELSE 2]

Binding(context, keys, run, n) == [context |-> context, keys |-> keys, run |-> run, times |-> n]

\* Keymap::default, a few of each kind.
BuiltIn ==
    {Binding("global", <<"F2">>, "next_account", 1), Binding("conversation", <<"j">>, "message_down", 1),
     Binding("conversation", <<"Esc">>, "cancel", 1), Binding("compose", <<"Esc">>, "cancel", 1)} \cup
    {Binding(c, <<"g", k>>, IF k = "g" THEN "oldest" ELSE "mentions", 1) : c \in Counted, k \in {"g", "m"}}

Key == (UNION {{b.keys[i] : i \in 1..Len(b.keys)} : b \in BuiltIn}) \cup DOMAIN Digit

-------------------------------------------------------------------------------
(* A configuration. *)

Run == {"next_account", "cancel", "message_down", "oldest", "mentions", "noop"}
Repeatable == {"message_down"}
BindingSpec == [context : Context, keys : Seq(Key), run : Run \cup {"unknown"}, times : Nat]

ASSUME KeysAssumption == Configs \subseteq Seq(BindingSpec)

\* What insert refuses.
Acceptable(s) ==
    /\ Len(s.keys) \in 1..4
    /\ s.times \in 1..MaxCount /\ (s.times # 1 => s.run \in Repeatable)
    /\ s.run \in Run

SameKeys(b, s) == b.context = s.context /\ b.keys = s.keys

\* insert, of one after the other: the last of the same keys counts, and a noop leaves
\* them unbound.
Overridden(specs) ==
    {b \in BuiltIn : \A i \in DOMAIN specs : ~SameKeys(b, specs[i])} \cup
    {specs[i] : i \in {j \in DOMAIN specs :
        specs[j].run # "noop" /\ \A k \in (j + 1)..Len(specs) : ~SameKeys(specs[j], specs[k])}}

\* Mutant: keys that begin others are let through.
ClearIfDistinct(bs) ==
    \A a, b \in bs : a # b => ~SameKeys(a, b)

Clear(bs) ==
    \A a, b \in bs : a # b /\ a.context = b.context => ~IsPrefix(a.keys, b.keys)

\* parse: no partly loaded bindings.
Parses(specs) == (\A i \in DOMAIN specs : Acceptable(specs[i])) /\ Clear(Overridden(specs))

\* load, at the start.
Loaded(specs) == IF Parses(specs) THEN Overridden(specs) ELSE BuiltIn

-------------------------------------------------------------------------------
(* Keys as they are typed. *)

NothingTyped == [keys |-> <<>>, said |-> 0]
NothingRan == [run |-> "noop", times |-> 0, context |-> "global", typed |-> NothingTyped]
NotReading == [at |-> "none", parses |-> FALSE, bindings |-> {}]

KeysInit ==
    /\ file \in Configs /\ bound = Loaded(file)
    /\ chord = <<>> /\ times = 0 /\ keyContext = "global"
    /\ requested = FALSE /\ reloading = FALSE /\ reading = NotReading
    /\ typed = NothingTyped /\ ran = NothingRan
    /\ keysTyped = 0 /\ reloads = 0

Lesser(i, j) == IF i < j THEN i ELSE j
Greater(i, j) == IF i < j THEN j ELSE i

\* Mutant: the number stays.
ResetsChord == chord' = <<>> /\ UNCHANGED times /\ typed' = NothingTyped

\* Keymap::reset
Resets == chord' = <<>> /\ times' = 0 /\ typed' = NothingTyped

Beginning(c, keys) == {b \in bound : b.context = c /\ IsPrefix(keys, b.keys)}

\* The bindings that the keys begin or are: those of the context come first.
Candidates(c, keys) == IF Beginning(c, keys) # {} THEN Beginning(c, keys) ELSE Beginning("global", keys)

\* A digit that is bound is one only within a number.
IsDigit(c, k, n) ==
    /\ c \in Counted /\ k \in DOMAIN Digit
    /\ Digit[k] # 0 \/ n # 0
    /\ n # 0 \/ ~\E b \in bound : b.context \in {c, "global"} /\ b.keys = <<k>>

\* feed, with what was typed in the context before. The context is that of the mode and
\* the focus (App::handle_key).
Feeds(c, k, keys, n, before) ==
    \/ /\ k = "Esc" /\ (keys # <<>> \/ n # 0)
       /\ Resets /\ ran' = NothingRan
    \/ /\ ~(k = "Esc" /\ (keys # <<>> \/ n # 0))
       /\ keys = <<>> /\ IsDigit(c, k, n)
       /\ times' = Lesser(n * 10 + Digit[k], MaxCount) /\ chord' = keys
       /\ typed' = [before EXCEPT !.said = @ * 10 + Digit[k]]
       /\ ran' = NothingRan
    \/ /\ ~(k = "Esc" /\ (keys # <<>> \/ n # 0))
       /\ ~(keys = <<>> /\ IsDigit(c, k, n))
       /\ \/ \E b \in Candidates(c, Append(keys, k)) :
                /\ b.keys = Append(keys, k)
                /\ Resets
                /\ ran' = [run |-> b.run, times |-> Lesser(Greater(n, 1) * b.times, MaxCount),
                           context |-> c, typed |-> [before EXCEPT !.keys = Append(@, k)]]
          \/ /\ \A b \in Candidates(c, Append(keys, k)) : b.keys # Append(keys, k)
             /\ IF Candidates(c, Append(keys, k)) = {} THEN Resets
                ELSE /\ chord' = Append(keys, k) /\ times' = n
                     /\ typed' = [before EXCEPT !.keys = Append(@, k)]
             /\ ran' = NothingRan

PressKey ==
    /\ keysTyped < MaxTyped /\ keysTyped' = keysTyped + 1
    /\ \E c \in Context \ {"global"}, k \in Key :
        /\ keyContext' = c
        /\ IF c = keyContext THEN Feeds(c, k, chord, times, typed)
                             ELSE Feeds(c, k, <<>>, 0, NothingTyped)
    /\ UNCHANGED <<bound, reloadVars>>

\* A key that is none for yazi only brings its context with it.
PressUnknownKey ==
    /\ keyContext' \in Context \ {"global", keyContext}
    /\ Resets /\ ran' = NothingRan
    /\ UNCHANGED <<bound, reloadVars, keysTyped>>

\* expire, of a tick or of the next key, and the reset when the account changes.
Expires ==
    /\ chord # <<>> \/ times # 0
    /\ Resets /\ ran' = NothingRan
    /\ UNCHANGED <<bound, keyContext, reloadVars, keysTyped>>

-------------------------------------------------------------------------------
(* The file, and its reload. *)

FileEdited ==
    /\ reloads < MaxReloads /\ reloads' = reloads + 1
    /\ file' \in Configs
    /\ UNCHANGED <<bound, chordVars, requested, reloading, reading, keysTyped>>

\* request_config_reload
RequestReload ==
    /\ reloads < MaxReloads /\ reloads' = reloads + 1
    /\ ~reloading /\ reloading' = TRUE /\ requested' = TRUE
    /\ UNCHANGED <<bound, chordVars, file, reading, keysTyped>>

\* take_config_reload in the main loop.
TakeReload ==
    /\ requested /\ requested' = FALSE
    /\ reading' = [NotReading EXCEPT !.at = "reading"]
    /\ UNCHANGED <<bound, chordVars, file, reloading, reloads, keysTyped>>

\* Keymap::reload; the file may also be gone, or not to be read.
ReadFile ==
    /\ reading.at = "reading"
    /\ \E readable \in BOOLEAN :
        reading' = IF readable /\ Parses(file)
                   THEN [at |-> "done", parses |-> TRUE, bindings |-> Overridden(file)]
                   ELSE [NotReading EXCEPT !.at = "done"]
    /\ UNCHANGED <<bound, chordVars, file, requested, reloading, reloads, keysTyped>>

\* Mutant: a chord goes on in the new keymap.
InstallsWithin == bound' = reading.bindings /\ UNCHANGED chordVars

\* install_configuration
Installs == bound' = reading.bindings /\ Resets /\ ran' = NothingRan /\ UNCHANGED keyContext

\* What was read is installed, unless the terminal refuses its setting of the clipboard.
Configured ==
    /\ reading.at = "done" /\ reading' = NotReading
    /\ reloading' = FALSE /\ requested' = FALSE
    /\ \/ reading.parses /\ Installs
       \/ UNCHANGED <<bound, chordVars>>
    /\ UNCHANGED <<file, reloads, keysTyped>>

KeysNext ==
    \/ PressKey
    \/ PressUnknownKey
    \/ Expires
    \/ FileEdited
    \/ RequestReload
    \/ TakeReload
    \/ ReadFile
    \/ Configured

KeysSpec == KeysInit /\ [][KeysNext]_keyVars

-------------------------------------------------------------------------------
(* Properties. *)

KeysType ==
    /\ chord \in Seq(Key) /\ times \in 0..MaxCount /\ keyContext \in Context
    /\ requested \in BOOLEAN /\ reloading \in BOOLEAN
    /\ reading.at \in {"none", "reading", "done"}

\* What runs is what was typed: the binding of the keys since the last chord ended, of
\* the context they were typed in before a global one, as often as the number before
\* them says. No chord and no number outlives its context, a timeout or a reload.
RunsAsTyped ==
    ran # NothingRan => \E b \in bound :
        /\ b.run = ran.run /\ b.keys = ran.typed.keys
        /\ \/ b.context = ran.context
           \/ b.context = "global" /\ \A d \in bound : ~(d.context = ran.context /\ d.keys = b.keys)
        /\ ran.times = Lesser(Greater(ran.typed.said, 1) * b.times, MaxCount)

\* A chord that was begun can be ended, in the keymap that is there now.
ChordsCanEnd == chord # <<>> => Candidates(keyContext, chord) # {}

\* hint: the keys the help line shows for an action.
Shadowed(c, b) ==
    \E d \in bound : d.context = c /\ (IsPrefix(d.keys, b.keys) \/ IsPrefix(b.keys, d.keys))
Hinted(c, run) ==
    IF \E b \in bound : b.context = c /\ b.run = run
    THEN {b \in bound : b.context = c /\ b.run = run}
    ELSE {b \in bound : b.context = "global" /\ b.run = run /\ ~Shadowed(c, b)}

\* A chord that begins with a digit reads as a number, and Escape ends the chord it is in.
CanBeTyped(c, b) ==
    /\ Len(b.keys) > 1 /\ c \in Counted => b.keys[1] \notin DOMAIN Digit
    /\ \A i \in 2..Len(b.keys) : b.keys[i] # "Esc"

\* The keys that are shown for an action run it: the first is read as a key, those before
\* the last begin a chord and run nothing, and the last runs only that action.
ChordLeadsTo(c, b) ==
    \A n \in 1..Len(b.keys) : LET keys == SubSeq(b.keys, 1, n) IN
        /\ Candidates(c, keys) # {}
        /\ \A d \in Candidates(c, keys) : d.keys = keys => n = Len(b.keys) /\ d = b
        /\ n = Len(b.keys) => b \in Candidates(c, keys)

HintsRun ==
    \A c \in Context \ {"global"}, run \in Run : \A b \in Hinted(c, run) : CanBeTyped(c, b) =>
        ~IsDigit(c, b.keys[1], 0) /\ ChordLeadsTo(c, b)

\* A reload that was asked for is under way, so that one can be asked for again after it;
\* never are there two.
ReloadIsUnderWay ==
    /\ reloading <=> requested \/ reading.at # "none"
    /\ requested => reading.at = "none"

KeysHold == RunsAsTyped /\ ChordsCanEnd /\ HintsRun /\ ReloadIsUnderWay
===============================================================================
