------------------------------ MODULE MCTerminal ------------------------------
(* An instance of what the terminal and its worker share for as long as they run: *)
(* signing in, the online status and the drafts. `part` names the one a behaviour  *)
(* is about, so that one run checks all of them.                                   *)
EXTENDS Session, Drafts, Presence

VARIABLE part
vars == <<sessionVars, draftVars, presenceVars, part>>

AnyDc == CHOOSE dc \in Dc : TRUE
AnyAccount == CHOOSE a \in Account : TRUE

\* The parts a behaviour is not about stay as they begin. The accounts differ in name
\* only, so that the first of them can be any one.
Init ==
    /\ part \in {"session", "drafts", "presence"}
    /\ SessionInit /\ DraftsInit /\ PresenceInit
    /\ part # "session" => home = AnyDc /\ authorized = {}
    /\ worker = Started(AnyAccount)

Next ==
    /\ UNCHANGED part
    /\ \/ /\ part = "session" /\ SessionNext
          /\ UNCHANGED <<draftVars, presenceVars>>
       \/ /\ part = "drafts" /\ DraftsNext
          /\ UNCHANGED <<sessionVars, presenceVars>>
       \/ /\ part = "presence" /\ PresenceNext
          /\ UNCHANGED <<sessionVars, draftVars>>

\* The fairness of DraftsSpec and PresenceSpec.
Fairness ==
    /\ WF_draftVars(part = "drafts" /\ QueueSnapshot)
    /\ WF_draftVars(part = "drafts" /\ Writer)
    /\ WF_presenceVars(part = "presence" /\ Iterate)
    /\ WF_presenceVars(part = "presence" /\ (ReadReport \/ ReadOffline))
    /\ WF_presenceVars(part = "presence" /\ TaskRuns)
    /\ WF_presenceVars(part = "presence" /\ TimePasses)

Spec == Init /\ [][Next]_vars /\ Fairness

\* The types of the parts.
TypeOK == SessionType /\ DraftsType /\ PresenceType

\* The worker, the screen and the server are in step: the screen of a sign-in is the one its
\* worker is at, no prompt hides an authorised session, and what the server shows of the
\* user is no older than the timers allow.
InStep == PhasesAgree /\ PromptsSignedOut /\ ReportedInTime

\* What is begun ends: an edited draft gets to the disk and the online status to the
\* server.
WorkSettles == BecomesDurable /\ ReportIsShown
===============================================================================
