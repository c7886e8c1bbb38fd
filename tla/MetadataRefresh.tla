--------------------------- MODULE MetadataRefresh ---------------------------
(***************************************************************************)
(* How the worker keeps the lists it does not learn from updates current:  *)
(* dialogs, folders, dialog pins, and the message pins of the open chat    *)
(* (telegram/requests.rs, refresh_dialogs, refresh_pending and complete).  *)
(*                                                                         *)
(* For each list the worker has one refresh in flight at most.  Whatever   *)
(* may change the list makes it dirty; an answer that arrives dirty is     *)
(* thrown away and the refresh repeated.  Refreshes share the MAX_REQUESTS *)
(* slots with the commands of the user and go first.                       *)
(***************************************************************************)
EXTENDS Integers, FiniteSets

CONSTANTS
    Topic,          \* lists of the account: dialogs, folders, dialog_pins
    Chat,           \* chats, each with a list of pinned messages
    Pins,           \* the refresh of the pins of the open chat
    NoChat,
    Rechecked,      \* lists with commands that complete rechecks even if they failed
    MaxTasks,       \* MAX_REQUESTS
    MaxChanges,     \* bound on the changes of all lists
    MaxFailures,    \* bound on the requests that fail
    MaxCommands,    \* bound on the commands of the user
    MaxSwitches     \* bound on the chats the user opens

None == "none"

ASSUME RefreshAssumption ==
    /\ IsFiniteSet(Topic) /\ None \notin Topic \cup Chat
    /\ MaxTasks \in Nat \ {0}
    /\ {MaxChanges, MaxFailures, MaxCommands, MaxSwitches} \subseteq Nat
    /\ Rechecked \subseteq Topic
    /\ Topic \cap Chat = {} /\ Pins \notin Topic /\ NoChat \notin Chat

VARIABLES
    version,    \* the server: the state of each list
    news,       \* the changes of each list whose updates are not yet delivered
    dirty,      \* MetadataRefresh::dirty
    asks,       \* MetadataRefresh::in_flight: what is asked for
    answer,     \* the state the server answered with
    busy,       \* requests of commands in flight, and what each changes
    target,     \* the terminal: the open chat
    active,     \* WorkerCache::active_chat
    listed,     \* the terminal: the state it has of each list
    failed,     \* history: the last refresh failed, none has begun since
    torn,       \* history: lists a command changed before it failed, of which no
                \* refresh has begun since
    left        \* what is left of the bounds

listVars == <<version, news, dirty, asks, answer, busy, target, active, listed, failed, torn,
              left>>

-----------------------------------------------------------------------------
List == Topic \cup Chat
Refresh == Topic \cup {Pins}
Unanswered == -1
Failure == -2

(* The list a refresh would ask for now. *)
Wanted(k) == IF k = Pins THEN active ELSE k

InFlight(k) == asks[k] # None
Requests == Cardinality({k \in Refresh : InFlight(k)}) + Cardinality(DOMAIN busy)
SlotFree == Requests < MaxTasks

ListsType ==
    /\ version \in [List -> 0 .. MaxChanges]
    /\ news \in [List -> SUBSET (1 .. MaxChanges)]
    /\ dirty \in [Refresh -> BOOLEAN]
    /\ asks \in [Refresh -> List \cup {None}]
    /\ answer \in [Refresh -> Failure .. MaxChanges]
    /\ DOMAIN busy \subseteq 1 .. MaxTasks
    /\ \A i \in DOMAIN busy : busy[i] \in [list : List, applied : BOOLEAN, rechecked : BOOLEAN]
    /\ Requests <= MaxTasks
    /\ {target, active} \subseteq Chat \cup {NoChat}
    /\ listed \in [List -> 0 .. MaxChanges]
    /\ failed \in [Refresh -> BOOLEAN]
    /\ torn \subseteq Topic
    /\ left \in [changes : 0 .. MaxChanges, failures : 0 .. MaxFailures,
                 commands : 0 .. MaxCommands, switches : 0 .. MaxSwitches]

(* run: every list is dirty when the worker starts. *)
ListsInit ==
    /\ version = [l \in List |-> 0]
    /\ news = [l \in List |-> {}]
    /\ dirty = [k \in Refresh |-> TRUE]
    /\ asks = [k \in Refresh |-> None]
    /\ answer = [k \in Refresh |-> Unanswered]
    /\ busy = << >>
    /\ target = NoChat /\ active = NoChat
    /\ listed = [l \in List |-> 0]
    /\ failed = [k \in Refresh |-> FALSE]
    /\ torn = {}
    /\ left = [changes |-> MaxChanges, failures |-> MaxFailures,
               commands |-> MaxCommands, switches |-> MaxSwitches]

-----------------------------------------------------------------------------
(* Another device changes a list; the update that says so comes later. *)
ServerChanges(l) ==
    /\ left.changes > 0
    /\ left' = [left EXCEPT !.changes = @ - 1]
    /\ version' = [version EXCEPT ![l] = @ + 1]
    /\ news' = [news EXCEPT ![l] = @ \cup {version'[l]}]
    /\ UNCHANGED <<dirty, asks, answer, busy, target, active, listed, failed, torn>>

ListAnswered(k) ==
    /\ InFlight(k) /\ answer[k] = Unanswered
    /\ answer' = [answer EXCEPT ![k] = version[asks[k]]]
    /\ UNCHANGED <<version, news, dirty, asks, busy, target, active, listed, failed, torn, left>>

ListRefused(k) ==
    /\ InFlight(k) /\ answer[k] = Unanswered /\ left.failures > 0
    /\ answer' = [answer EXCEPT ![k] = Failure]
    /\ left' = [left EXCEPT !.failures = @ - 1]
    /\ UNCHANGED <<version, news, dirty, asks, busy, target, active, listed, failed, torn>>

Concerns(k, l) == Wanted(k) = l

(* MessagePinsChanged: the terminal applies a change of pins to the ones before. *)
Changed(l, v) == l \in Chat /\ listed[l] = v - 1

(* process_update *)
UpdateArrives(l) ==
    \E v \in news[l] :
        /\ \A w \in news[l] : v <= w
        /\ news' = [news EXCEPT ![l] = @ \ {v}]
        /\ listed' = IF Changed(l, v) THEN [listed EXCEPT ![l] = v] ELSE listed
        /\ dirty' = [k \in Refresh |-> dirty[k] \/ Concerns(k, l)]
        /\ UNCHANGED <<version, asks, answer, busy, target, active, failed, torn, left>>

-----------------------------------------------------------------------------
(* refresh_pending runs after every event of the worker's loop. *)
Pending(k) == dirty[k] /\ ~InFlight(k) /\ SlotFree /\ Wanted(k) # NoChat

(* Mutant: the flag is cleared with the answer instead of before the RPC. *)
StartRefreshStillDirty(k) ==
    /\ Pending(k)
    /\ asks' = [asks EXCEPT ![k] = Wanted(k)]
    /\ answer' = [answer EXCEPT ![k] = Unanswered]
    /\ failed' = [failed EXCEPT ![k] = FALSE]
    /\ torn' = torn \ {Wanted(k)}
    /\ UNCHANGED <<version, news, dirty, busy, target, active, listed, left>>

StartRefresh(k) ==
    /\ Pending(k)
    /\ dirty' = [dirty EXCEPT ![k] = FALSE]
    /\ asks' = [asks EXCEPT ![k] = Wanted(k)]
    /\ answer' = [answer EXCEPT ![k] = Unanswered]
    /\ failed' = [failed EXCEPT ![k] = FALSE]
    /\ torn' = torn \ {Wanted(k)}
    /\ UNCHANGED <<version, news, busy, target, active, listed, left>>

(* Mutant: an answer is shown although the list is dirty. *)
AcceptedAlways(k) == answer[k] # Failure

Accepted(k) == answer[k] # Failure /\ ~dirty[k]

(* complete: a failure that is not dirty is reported and not repeated. *)
RefreshArrives(k) ==
    /\ InFlight(k) /\ answer[k] # Unanswered
    /\ asks' = [asks EXCEPT ![k] = None]
    /\ answer' = [answer EXCEPT ![k] = Unanswered]
    /\ listed' = IF Accepted(k) THEN [listed EXCEPT ![asks[k]] = answer[k]] ELSE listed
    /\ failed' = [failed EXCEPT ![k] = answer[k] = Failure]
    /\ UNCHANGED <<version, news, dirty, busy, target, active, torn, left>>

-----------------------------------------------------------------------------
(* Mutant: the slots are not counted before a command is taken. *)
MayTakeAnyway == \A k \in Refresh : ~Pending(k)

(* Commands.  They wait while a refresh can start. *)
MayTake == SlotFree /\ \A k \in Refresh : ~Pending(k)

(* RefreshDialogs, RefreshFolders, RefreshDialogPins *)
AskRefresh(K) ==
    /\ MayTake /\ left.commands > 0
    /\ dirty' = [k \in Refresh |-> dirty[k] \/ k \in K]
    /\ left' = [left EXCEPT !.commands = @ - 1]
    /\ UNCHANGED <<version, news, asks, answer, busy, target, active, listed, failed, torn>>

(* A command that changes a list: SetChatUnread and SetChatMute, which are rechecked
   whatever becomes of them, or SetArchived, ChangeDialogPin, ChangeMessagePin. *)
StartCommand(l, rechecked) ==
    /\ MayTake /\ left.commands > 0
    /\ rechecked => l \in Rechecked
    /\ left' = [left EXCEPT !.commands = @ - 1]
    /\ LET i == CHOOSE i \in 1 .. MaxTasks : i \notin DOMAIN busy IN
       busy' = [j \in DOMAIN busy \cup {i} |->
                  IF j = i THEN [list |-> l, applied |-> FALSE, rechecked |-> rechecked]
                           ELSE busy[j]]
    /\ UNCHANGED <<version, news, dirty, asks, answer, target, active, listed, failed, torn>>

CommandApplies(i) ==
    /\ i \in DOMAIN busy /\ ~busy[i].applied /\ left.changes > 0
    /\ left' = [left EXCEPT !.changes = @ - 1]
    /\ version' = [version EXCEPT ![busy[i].list] = @ + 1]
    /\ busy' = [busy EXCEPT ![i].applied = TRUE]
    /\ UNCHANGED <<news, dirty, asks, answer, target, active, listed, failed, torn>>

Done(i) == busy' = [j \in DOMAIN busy \ {i} |-> busy[j]]

(* The answer to a command makes its list dirty. *)
CommandArrives(i) ==
    /\ i \in DOMAIN busy
    /\ Done(i)
    /\ dirty' = [k \in Refresh |-> dirty[k] \/ Concerns(k, busy[i].list)]
    /\ UNCHANGED <<version, news, asks, answer, target, active, listed, failed, torn, left>>

(* A command fails: it is refused, or it has changed its list, which takes all but
   ChangeMessagePin two RPCs, and the second is refused. *)
CommandFails(i) ==
    /\ i \in DOMAIN busy /\ left.failures > 0
    /\ busy[i].applied => busy[i].list \in Topic
    /\ Done(i)
    /\ left' = [left EXCEPT !.failures = @ - 1]
    /\ dirty' = [k \in Refresh |-> \/ dirty[k]
                                   \/ busy[i].rechecked /\ Concerns(k, busy[i].list)]
    /\ torn' = IF busy[i].applied /\ ~busy[i].rechecked THEN torn \cup {busy[i].list} ELSE torn
    /\ UNCHANGED <<version, news, asks, answer, target, active, listed, failed>>

(* The watch channel of the open chat. *)
OpenChat(c) ==
    /\ c # target /\ left.switches > 0
    /\ target' = c
    /\ left' = [left EXCEPT !.switches = @ - 1]
    /\ UNCHANGED <<version, news, dirty, asks, answer, busy, active, listed, failed, torn>>

(* Mutant: opening a chat does not refresh its pins. *)
ActiveChangedOnly ==
    /\ active # target
    /\ active' = target
    /\ UNCHANGED <<version, news, dirty, asks, answer, busy, target, listed, failed, torn, left>>

ActiveChanged ==
    /\ active # target
    /\ active' = target
    /\ dirty' = [dirty EXCEPT ![Pins] = TRUE]
    /\ UNCHANGED <<version, news, asks, answer, busy, target, listed, failed, torn, left>>

ListsNext ==
    \/ \E l \in List : ServerChanges(l) \/ UpdateArrives(l)
    \/ \E l \in List, rechecked \in BOOLEAN : StartCommand(l, rechecked)
    \/ \E k \in Refresh : StartRefresh(k) \/ ListAnswered(k) \/ ListRefused(k)
                          \/ RefreshArrives(k)
    \/ \E K \in SUBSET Refresh : AskRefresh(K)
    \/ \E i \in 1 .. MaxTasks : CommandApplies(i) \/ CommandArrives(i)
                                  \/ CommandFails(i)
    \/ \E c \in Chat \cup {NoChat} : OpenChat(c)
    \/ ActiveChanged

(* The loop of the worker polls what is ready, and the server answers. *)
ListsFairness ==
    /\ \A l \in List : WF_listVars(UpdateArrives(l))
    /\ \A k \in Refresh : /\ WF_listVars(StartRefresh(k))
                          /\ WF_listVars(ListAnswered(k) \/ ListRefused(k))
                          /\ WF_listVars(RefreshArrives(k))
    /\ \A i \in 1 .. MaxTasks : WF_listVars(CommandArrives(i) \/ CommandFails(i))
    /\ WF_listVars(ActiveChanged)

ListsSpec == ListsInit /\ [][ListsNext]_listVars /\ ListsFairness

-----------------------------------------------------------------------------
OnItsWay(l) == news[l] # {} \/ \E i \in DOMAIN busy : busy[i].applied /\ busy[i].list = l

Settled(k) ==
    ~dirty[k] /\ ~InFlight(k) /\ ~failed[k] /\ Wanted(k) # NoChat /\ ~OnItsWay(Wanted(k))

(***************************************************************************)
(* A list the worker neither refreshes nor means to refresh is the one the *)
(* server has: no change that overtakes a refresh is lost.  Changes that   *)
(* are still on their way, and a refresh that failed, are excepted, and so *)
(* are the lists that a command changed before it failed, until the next   *)
(* refresh of them.                                                        *)
(***************************************************************************)
SettledIsCurrent ==
    \A k \in Refresh :
        Settled(k) => Wanted(k) \in torn \/ listed[Wanted(k)] = version[Wanted(k)]

(***************************************************************************)
(* What complete says of a second RPC that fails after a first that did    *)
(* not: the list is refreshed even then, so that it can settle.            *)
(***************************************************************************)
PartialFailuresSettle ==
    \A k \in Refresh : Settled(k) => listed[Wanted(k)] = version[Wanted(k)]

(***************************************************************************)
(* The answer to a refresh never undoes a change the terminal already      *)
(* shows, whichever of the update and the answer was sent first.           *)
(***************************************************************************)
AnswersNeverUndo ==
    [][\A k \in Refresh : RefreshArrives(k) => \A l \in List : listed'[l] >= listed[l]]_listVars

(* Each list the terminal looks at becomes current and stays so, or its last
   refresh has failed, or a command on it halfway. *)
Settles ==
    <>[]\A k \in Refresh :
        \/ failed[k]
        \/ k \in torn
        \/ k = Pins /\ target = NoChat
        \/ k = Pins /\ listed[target] = version[target]
        \/ k # Pins /\ listed[k] = version[k]
=============================================================================
