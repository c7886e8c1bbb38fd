------------------------------- MODULE Session -------------------------------
(* Signing in: the sign-in screen of the terminal (App in app.rs), the bridge that *)
(* lets sign-in commands overtake (serve in telegram/local.rs) and the worker's    *)
(* sign-in loop (run and authenticate in telegram/mod.rs), whose every call to     *)
(* Telegram may be interrupted by a restart of the sign-in or by a shutdown.       *)
(* A refused call is one that the server did not carry out.                        *)
EXTENDS Naturals, Sequences

CONSTANTS
    Dc,           \* the data centres that can hold the authorization
    NoDc,
    MaxCommands,  \* bound: sign-in commands the user ever gives
    MaxLaunches,  \* bound: workers started after the first one
    MaxHops       \* QR_MIGRATION_LIMIT

ASSUME NoDcAssumption == NoDc \notin Dc
ASSUME HopsAssumption == MaxHops \in Nat \ {0}

VARIABLES
    screen,      \* App.screen and, during a sign-in, its phase
    progress,    \* App.auth_progress: "none" or what the terminal waits for
    restarting,  \* App.auth_restart_pending
    sent,        \* commands on their way from the terminal to the bridge
    pending,     \* serve's pending commands, the next one first
    queue,       \* commands on their way from the bridge to the worker
    news,        \* events on their way from the worker to the terminal
    at,          \* where the worker is: what it awaits or asks
    answer,      \* what Telegram answered to the call under way, or "none"
    displayed,   \* sign_in_with_qr displays a token (displayed_token)
    hops,        \* answers that moved the token under way to another data centre
    target,      \* follow_qr_migration's imported_dc
    home,        \* the session's home data centre
    authorized,  \* the data centres that hold an authorization of the session's key
    given, launches  \* bounded: commands given, workers started after the first one

screenVars == <<screen, progress, restarting>>
tokenVars == <<displayed, hops, target>>
workerVars == <<at, tokenVars, home>>
bridgeVars == <<sent, pending>>
sessionBounds == <<given, launches>>
sessionVars ==
    <<screenVars, bridgeVars, queue, news, workerVars, answer, authorized, sessionBounds>>

Phases == {"phone", "code", "password", "qr"}

\* The worker waits for the user, and shows what it waits for.
Prompts == {"phone", "code", "password", "scanning"}
PhaseOf(place) == IF place = "scanning" THEN "qr" ELSE place

\* A call of the worker to Telegram is under way.
Calls == {"asking", "signing", "exporting", "importing", "completing", "loading",
          "checking", "naming", "cancelling"}

SessionInit ==
    /\ screen = "connecting" /\ progress = "none" /\ restarting = FALSE
    /\ sent = <<>> /\ pending = <<>> /\ queue = <<>> /\ news = <<>>
    /\ at = "connecting" /\ answer = "none"
    /\ displayed = FALSE /\ hops = 0 /\ target = NoDc
    /\ home \in Dc
    /\ authorized \in {{}, {home}}
    /\ given = 0 /\ launches = 0

-------------------------------------------------------------------------------
(* The sign-in screen.                                                         *)

Give(command) ==
    /\ given < MaxCommands
    /\ given' = given + 1
    /\ sent' = Append(sent, command)
    /\ UNCHANGED <<pending, queue, news, workerVars, answer, authorized, launches>>

\* handle_auth and submit_auth: input goes only to a phase that waits for nothing.
SubmitAuth ==
    /\ progress = "none"
    /\ screen \in {"phone", "code", "password"}
    /\ progress' = screen
    /\ Give(screen)
    /\ UNCHANGED <<screen, restarting>>

StartQr ==
    /\ progress = "none" /\ screen = "phone"
    /\ progress' = "qr"
    /\ Give("qr")
    /\ UNCHANGED <<screen, restarting>>

\* Escape during an operation, or in any later phase than the first.
Escape ==
    /\ screen \in Phases /\ ~restarting
    /\ progress # "none" \/ screen # "phone"
    /\ screen' = "phone" /\ progress' = "restart" /\ restarting' = TRUE
    /\ Give("restart")

\* Quitting sends Shutdown; the loop ends and shows no event any more.
QuitSignIn ==
    /\ screen # "exited"
    /\ screen' = "exited"
    /\ sent' = Append(sent, "shutdown")
    /\ UNCHANGED <<progress, restarting, pending, queue, news, workerVars, answer,
                   authorized, sessionBounds>>

\* Mutant: an error leaves the terminal waiting for the answer that it is.
HandleErrorWaiting(event) ==
    CASE event \in Phases ->
            IF restarting /\ event # "phone" THEN UNCHANGED screenVars
            ELSE /\ screen' = event
                 /\ restarting' = (restarting /\ event # "phone")
                 /\ progress' = IF event = "qr" THEN "scan" ELSE "none"
      [] event = "ready" -> screen' = "main" /\ progress' = "none" /\ restarting' = FALSE
      [] event = "error" -> UNCHANGED screenVars
      [] event = "fatal" -> screen' = "fatal" /\ UNCHANGED <<progress, restarting>>

\* handle_network, for the events of a sign-in. Prompts and errors of an attempt
\* that the user left are not shown; the prompt for the phone ends the wait.
Handle(event) ==
    CASE event \in Phases ->
            IF restarting /\ event # "phone" THEN UNCHANGED screenVars
            ELSE /\ screen' = event
                 /\ restarting' = (restarting /\ event # "phone")
                 /\ progress' = IF event = "qr" THEN "scan" ELSE "none"
      [] event = "ready" -> screen' = "main" /\ progress' = "none" /\ restarting' = FALSE
      [] event = "error" ->
            /\ progress' = IF restarting \/ progress \in {"qr", "scan"} THEN progress
                           ELSE "none"
            /\ UNCHANGED <<screen, restarting>>
      [] event = "fatal" -> screen' = "fatal" /\ UNCHANGED <<progress, restarting>>

HandleNews ==
    /\ news # <<>> /\ screen # "exited"
    /\ Handle(Head(news))
    /\ news' = Tail(news)
    /\ UNCHANGED <<bridgeVars, queue, workerVars, answer, authorized, sessionBounds>>

-------------------------------------------------------------------------------
(* The bridge: a sign-in command goes ahead of the ones that wait.             *)

TakeCommand ==
    /\ sent # <<>> /\ at # "stopped"
    /\ pending' = <<Head(sent)>> \o pending
    /\ sent' = Tail(sent)
    /\ UNCHANGED <<screenVars, queue, news, workerVars, answer, authorized, sessionBounds>>

PassCommand ==
    /\ pending # <<>> /\ at # "stopped"
    /\ queue' = Append(queue, Head(pending))
    /\ pending' = Tail(pending)
    /\ UNCHANGED <<screenVars, sent, news, workerVars, answer, authorized, sessionBounds>>

-------------------------------------------------------------------------------
(* The worker. take_auth_interruption reads its queue up to the first command  *)
(* that interrupts and drops what it reads.                                    *)

Interrupting == {"restart", "shutdown"}
Found(q) == {i \in 1..Len(q) : q[i] \in Interrupting}
First(q) == CHOOSE i \in Found(q) : \A j \in Found(q) : i <= j
Interruption(q) == IF Found(q) = {} THEN "none" ELSE q[First(q)]
AfterInterruption(q) == IF Found(q) = {} THEN <<>> ELSE SubSeq(q, First(q) + 1, Len(q))

Tell(events) == news' = news \o events

Stays == UNCHANGED <<tokenVars, home, authorized>>

\* A new sign-in begins with the prompt for the phone number.
FromTheStart(before) ==
    /\ at' = "phone" /\ Tell(before \o <<"phone">>)
    /\ Stays

\* An error ends the worker; the terminal is told why.
Stop ==
    /\ at' = "stopped" /\ Tell(<<"fatal">>)
    /\ Stays

Await(place) ==
    /\ at' = place /\ Tell(<<PhaseOf(place)>>)
    /\ Stays

Call(place) ==
    /\ at' = place
    /\ UNCHANGED news /\ Stays

\* restart_auth_requested, which every answer is preceded by.
Uninterrupted == Interruption(queue) = "none"
Interrupted ==
    \/ Interruption(queue) = "restart" /\ FromTheStart(<<>>)
    \/ Interruption(queue) = "shutdown" /\ Stop

\* authorized_outcome: a restart signs the new authorization out again.
InterruptedAuthorized ==
    \/ Interruption(queue) = "restart" /\ Call("cancelling")
    \/ Interruption(queue) = "shutdown" /\ Stop

\* The answer to the call under way is read, together with the queue.
Answered(place, kinds) ==
    /\ at = place /\ answer \in kinds
    /\ answer' = "none"
    /\ queue' = AfterInterruption(queue)
    /\ UNCHANGED <<screenVars, bridgeVars, sessionBounds>>

\* The answer is read, and the queue is left alone.
AnsweredOnly(place, kinds) ==
    /\ at = place /\ answer \in kinds
    /\ answer' = "none"
    /\ UNCHANGED <<screenVars, bridgeVars, queue, sessionBounds>>

\* run: an authorized session needs no sign-in.
Connect ==
    /\ at = "connecting"
    /\ \/ Stop
       \/ home \in authorized /\ at' = "ready" /\ Tell(<<"ready">>) /\ Stays
       \/ home \notin authorized /\ FromTheStart(<<>>)
    /\ UNCHANGED <<screenVars, bridgeVars, queue, answer, sessionBounds>>

\* The commands each prompt reacts to; it drops the others.
Understood(place) ==
    CASE place = "phone" -> {"qr", "phone", "shutdown"}
      [] place = "code" -> {"code", "restart", "shutdown"}
      [] place = "password" -> {"password", "restart", "shutdown"}
      [] place = "scanning" -> {"restart", "shutdown"}

CallFor(command) ==
    CASE command = "phone" -> "asking"
      [] command = "code" -> "signing"
      [] command = "password" -> "checking"

React(command) ==
    IF command \notin Understood(at)
    THEN UNCHANGED <<news, workerVars, authorized>>
    ELSE CASE command = "shutdown" -> Stop
           [] command = "restart" -> FromTheStart(<<>>)
           [] command = "qr" -> /\ at' = "round" /\ displayed' = FALSE
                                /\ UNCHANGED <<news, hops, target, home, authorized>>
           [] OTHER -> Call(CallFor(command))

ReadCommand ==
    /\ at \in Prompts /\ queue # <<>>
    /\ React(Head(queue))
    /\ queue' = Tail(queue)
    /\ UNCHANGED <<screenVars, bridgeVars, answer, sessionBounds>>

\* request_login_attempt, once the login code was asked for.
CodeRequested ==
    /\ Answered("asking", {"ok", "refused"})
    /\ \/ Interrupted
       \/ Uninterrupted /\ answer = "ok" /\ Await("code")
       \/ /\ Uninterrupted /\ answer = "refused"
          /\ at' = "phone" /\ Tell(<<"error">>)
          /\ Stays

\* Mutant: a restart leaves the authorization that the code has just given.
CodeCheckedUnsigned ==
    \/ /\ Answered("signing", {"ok"})
       /\ Interrupted \/ (Uninterrupted /\ Call("naming"))
    \/ /\ Answered("signing", {"needs_password", "invalid", "refused"})
       /\ \/ Interrupted
          \/ Uninterrupted /\ answer = "needs_password" /\ Await("password")
          \/ Uninterrupted /\ answer = "refused" /\ Stop
    \/ AnsweredOnly("signing", {"must_register"}) /\ Stop

\* sign_in_with_code
CodeChecked ==
    \/ /\ Answered("signing", {"ok"})
       /\ InterruptedAuthorized \/ (Uninterrupted /\ Call("naming"))
    \/ /\ Answered("signing", {"needs_password", "invalid", "refused"})
       /\ \/ Interrupted
          \/ Uninterrupted /\ answer = "needs_password" /\ Await("password")
          \/ /\ Uninterrupted /\ answer = "invalid"
             /\ at' = "code" /\ Tell(<<"error">>)
             /\ Stays
          \/ Uninterrupted /\ answer = "refused" /\ Stop
    \/ AnsweredOnly("signing", {"must_register"}) /\ Stop

\* authenticate, for the password of the second factor
PasswordChecked ==
    \/ /\ Answered("checking", {"ok"})
       /\ InterruptedAuthorized \/ (Uninterrupted /\ Call("naming"))
    \/ /\ Answered("checking", {"invalid", "refused"})
       /\ \/ Interrupted
          \/ /\ Uninterrupted /\ answer = "invalid"
             /\ at' = "password" /\ Tell(<<"error">>)
             /\ Stays
          \/ Uninterrupted /\ answer = "refused" /\ Stop

\* get_password_token, then the interruption that authenticate looks for
PasswordLoaded ==
    \/ /\ Answered("loading", {"ok"})
       /\ Interrupted \/ (Uninterrupted /\ Await("password"))
    \/ AnsweredOnly("loading", {"refused"}) /\ Stop

\* cancel_authorized_login
Cancelled ==
    \/ AnsweredOnly("cancelling", {"ok"}) /\ FromTheStart(<<>>)
    \/ AnsweredOnly("cancelling", {"refused"}) /\ Stop

\* Mutant: the account is shown without a last look at the queue.
NamedAnyway ==
    \/ /\ AnsweredOnly("naming", {"ok"})
       /\ at' = "ready" /\ Tell(<<"ready">>)
       /\ Stays
    \/ AnsweredOnly("naming", {"refused"}) /\ Stop

\* run: the last look before the account is shown
Named ==
    \/ /\ Answered("naming", {"ok"})
       /\ \/ InterruptedAuthorized
          \/ /\ Uninterrupted
             /\ at' = "ready" /\ Tell(<<"ready">>)
             /\ Stays
    \/ AnsweredOnly("naming", {"refused"}) /\ Stop

-------------------------------------------------------------------------------
(* sign_in_with_qr and follow_qr_migration. Each round of the loop looks at    *)
(* the queue, asks for a token and follows it to the data centre it names.     *)

NextRound ==
    /\ at = "round"
    /\ queue' = AfterInterruption(queue)
    /\ Interrupted \/ (Uninterrupted /\ Call("exporting"))
    /\ UNCHANGED <<screenVars, bridgeVars, answer, sessionBounds>>

\* The answer ends the round; `home` follows the token if it was imported.
EndRound(kinds, place, follows, events) ==
    /\ at \in {"exporting", "importing"} /\ answer \in kinds
    /\ at = "importing" => hops < MaxHops
    /\ answer' = "none"
    /\ at' = place /\ Tell(events)
    /\ home' = IF follows /\ target # NoDc THEN target ELSE home
    /\ target' = NoDc /\ hops' = 0
    /\ UNCHANGED <<authorized, screenVars, bridgeVars, sessionBounds>>

\* Where an interruption leads to, and what is told; a worker that stops tells
\* of it, a new sign-in prompts for the phone number.
Leads(place, events) ==
    CASE Interruption(queue) = "none" -> [to |-> place, told |-> events]
      [] Interruption(queue) = "restart" -> [to |-> "phone", told |-> <<"phone">>]
      [] Interruption(queue) = "shutdown" -> [to |-> "stopped", told |-> <<"fatal">>]

\* A token is shown unless it is the one on display.
TokenIssued ==
    /\ queue' = AfterInterruption(queue)
    /\ LET repeated == displayed /\ answer = "same_token"
           turn == Leads("scanning", IF repeated THEN <<>> ELSE <<"qr">>)
       IN /\ EndRound({"same_token", "new_token"}, turn.to, TRUE, turn.told)
          /\ displayed' = (turn.to = "scanning")

\* The token was accepted: the session is authorized, unless the user left.
\* A shutdown keeps the authorization, which complete_qr_login makes usable.
TokenAccepted ==
    /\ queue' = AfterInterruption(queue)
    /\ LET turn == Leads("completing", <<>>)
           to == IF turn.to = "phone" THEN "cancelling" ELSE turn.to
       IN EndRound({"success"}, to, TRUE, IF to = "stopped" THEN <<"fatal">> ELSE <<>>)
    /\ displayed' = FALSE

TokenNeedsPassword ==
    /\ EndRound({"needs_password"}, "loading", TRUE, <<>>)
    /\ displayed' = FALSE /\ UNCHANGED queue

\* AUTH_RESTART or, of an imported token, an answer that asks for another one
TokenOutdated ==
    /\ EndRound({"outdated"}, "round", FALSE, <<>>)
    /\ UNCHANGED <<queue, displayed>>

TokenRefused ==
    /\ queue' = AfterInterruption(queue)
    /\ LET turn == Leads("phone", <<"error", "phone">>)
       IN EndRound({"refused"}, turn.to, FALSE, turn.told)
    /\ displayed' = FALSE

TokenMigrates ==
    /\ at \in {"exporting", "importing"} /\ answer = "migrate"
    /\ at = "importing" => hops < MaxHops
    /\ at' = "importing" /\ answer' = "none"
    /\ hops' = hops + 1
    /\ target' \in Dc \ {home, target}
    /\ UNCHANGED <<screenVars, bridgeVars, queue, news, displayed, home, authorized, sessionBounds>>

\* The answer to the last import that the limit allows is not looked at, unless
\* it is an error.
MigratesTooOften ==
    /\ at = "importing" /\ hops = MaxHops /\ answer # "none"
    /\ IF answer \in {"needs_password", "outdated"}
       THEN /\ at' = IF answer = "outdated" THEN "round" ELSE "loading"
            /\ home' = IF answer = "needs_password" THEN target ELSE home
            /\ UNCHANGED <<queue, news, displayed>>
       ELSE LET turn == Leads("phone", <<"error", "phone">>)
            IN /\ at' = turn.to /\ Tell(turn.told)
               /\ queue' = AfterInterruption(queue)
               /\ displayed' = FALSE /\ UNCHANGED home
    /\ answer' = "none" /\ target' = NoDc /\ hops' = 0
    /\ UNCHANGED <<screenVars, bridgeVars, authorized, sessionBounds>>

\* The token is renewed when it expires or was accepted elsewhere. Bound: only
\* after the terminal has read the events before it, which is a matter of
\* milliseconds against MIN_QR_REFRESH_DELAY.
RenewToken ==
    /\ at = "scanning" /\ news = <<>>
    /\ at' = "round"
    /\ UNCHANGED <<screenVars, bridgeVars, queue, news, tokenVars, home, answer,
                   authorized, sessionBounds>>

\* complete_qr_login, then authorized_outcome
QrCompleted ==
    \/ /\ Answered("completing", {"ok"})
       /\ InterruptedAuthorized \/ (Uninterrupted /\ Call("naming"))
    \/ AnsweredOnly("completing", {"refused"}) /\ Stop

-------------------------------------------------------------------------------
(* Telegram, as the worker uses it.                                            *)

Place == IF at = "importing" THEN target ELSE home

\* Telegram issues no token to a data centre that is authorized already, and moves
\* a token on, never back to where it came from.
Kinds ==
    CASE at = "signing" -> {"ok", "needs_password", "invalid", "must_register", "refused"}
      [] at = "checking" -> {"ok", "invalid", "refused"}
      [] at \in {"exporting", "importing"} ->
            IF Place \in authorized THEN {"success", "refused"}
            ELSE {"same_token", "new_token", "success", "migrate", "needs_password",
                  "outdated", "refused"}
      [] OTHER -> {"ok", "refused"}

TelegramAnswers ==
    /\ at \in Calls /\ answer = "none"
    /\ answer' \in Kinds
    /\ authorized' =
          IF answer' = "success" \/ (answer' = "ok" /\ at \in {"signing", "checking"})
          THEN authorized \cup {Place}
          ELSE IF answer' = "ok" /\ at = "cancelling" THEN authorized \ {home}
          ELSE authorized
    /\ UNCHANGED <<screenVars, bridgeVars, queue, news, workerVars, sessionBounds>>

\* serve ends when the terminal has closed its commands, and ends the worker with
\* it, wherever it is.
BridgeCloses ==
    /\ screen = "exited" /\ sent = <<>> /\ at # "stopped"
    /\ at' = "stopped"
    /\ UNCHANGED <<screenVars, bridgeVars, queue, news, tokenVars, home, answer,
                   authorized, sessionBounds>>

\* A new worker: the program is started again, after a quit or a kill, or the
\* user comes back from another account. The session file is what remains.
Launch ==
    /\ launches < MaxLaunches
    /\ launches' = launches + 1
    /\ screen' = "connecting" /\ progress' = "none" /\ restarting' = FALSE
    /\ sent' = <<>> /\ pending' = <<>> /\ queue' = <<>> /\ news' = <<>>
    /\ at' = "connecting" /\ answer' = "none"
    /\ displayed' = FALSE /\ hops' = 0 /\ target' = NoDc
    /\ UNCHANGED <<home, authorized, given>>

SessionNext ==
    \/ SubmitAuth \/ StartQr \/ Escape \/ QuitSignIn \/ HandleNews
    \/ TakeCommand \/ PassCommand \/ BridgeCloses
    \/ Connect \/ ReadCommand
    \/ CodeRequested \/ CodeChecked \/ PasswordLoaded \/ PasswordChecked
    \/ Cancelled \/ Named
    \/ NextRound \/ TokenIssued \/ TokenAccepted \/ TokenNeedsPassword
    \/ TokenOutdated \/ TokenRefused \/ TokenMigrates \/ MigratesTooOften
    \/ RenewToken \/ QrCompleted
    \/ TelegramAnswers \/ Launch

SessionSpec == SessionInit /\ [][SessionNext]_sessionVars

-------------------------------------------------------------------------------
(* What a sign-in promises.                                                    *)

SessionType ==
    /\ screen \in Phases \cup {"connecting", "main", "fatal", "exited"}
    /\ progress \in {"none", "phone", "code", "password", "qr", "scan", "restart"}
    /\ restarting => screen \in {"phone", "fatal", "exited"} /\ progress = "restart"
    /\ at \in Prompts \cup Calls \cup {"connecting", "round", "ready", "stopped"}
    /\ answer # "none" => at \in Calls \cup {"stopped"}
    /\ (at = "importing") <=> (target # NoDc /\ at # "stopped")
    /\ hops \in 0..MaxHops

\* The worker prompts only for an account that the session does not hold: a
\* restart that meets an authorization, however late, signs it out first
\* (authorized_outcome, cancel_authorized_login and the loop of run).
PromptsSignedOut == at \in Prompts => home \notin authorized

\* Once everything has been delivered, the terminal shows the phase that the
\* worker waits in and accepts input for it (AuthPrompt, auth_progress), however
\* prompts, errors and restarts crossed. A restart that is not answered is the
\* matter of EscapeIsAnswered.
Delivered == sent = <<>> /\ pending = <<>> /\ queue = <<>> /\ news = <<>> /\ at \in Prompts
PhasesAgree ==
    Delivered /\ screen \in Phases /\ ~restarting =>
        /\ screen = PhaseOf(at)
        /\ progress = IF at = "scanning" THEN "scan" ELSE "none"

\* The worker never shows the account of a sign-in that it was told to leave
\* (take_auth_interruption after get_me), and the session's home is where the
\* authorization is, whichever data centres the token went through.
ReadyIsWanted ==
    [][at' = "ready" /\ at # "ready" =>
          /\ home' \in authorized'
          /\ \A i \in 1..Len(queue) : queue[i] # "restart"]_sessionVars

\* "Esc returns to phone sign-in": once everything has been delivered, the
\* terminal no longer waits for the prompt that ends a restart.
EscapeIsAnswered == Delivered /\ screen = "phone" => ~restarting
====
