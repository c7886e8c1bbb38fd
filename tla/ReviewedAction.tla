---------------------------- MODULE ReviewedAction ----------------------------
(* What a dialog that reviews before it acts promises, whatever it acts on:   *)
(* the user sees a version, confirms that version, and the action is carried  *)
(* out at most once for the confirmation, only after the confirmed version    *)
(* was found to be the current one again.                                     *)
EXTENDS Naturals

CONSTANTS
    Version,   \* the versions an object of the server can have
    NoVersion  \* none of them

VARIABLES
    current,   \* the version the server holds, NoVersion when it holds none
    shown,     \* the version the user has before him, NoVersion for none
    asked,     \* the version confirmed and not carried out yet
    verified,  \* the confirmed version was current after the confirmation
    carried    \* how many times the action was carried out

reviewedVars == <<current, shown, asked, verified, carried>>

MaybeVersion == Version \cup {NoVersion}

Init ==
    /\ current \in MaybeVersion
    /\ shown \in MaybeVersion
    /\ asked = NoVersion
    /\ verified = FALSE
    /\ carried = 0

Changes ==
    /\ current' \in MaybeVersion
    /\ UNCHANGED <<shown, asked, verified, carried>>

Shows ==
    /\ shown' \in MaybeVersion
    /\ UNCHANGED <<current, asked, verified, carried>>

Confirms ==
    /\ shown \in Version
    /\ asked = NoVersion
    /\ asked' = shown
    /\ verified' = FALSE
    /\ UNCHANGED <<current, shown, carried>>

Verifies ==
    /\ asked \in Version
    /\ asked = current
    /\ verified' = TRUE
    /\ UNCHANGED <<current, shown, asked, carried>>

\* The action itself may change what the server holds.
CarriesOut ==
    /\ verified
    /\ carried' = carried + 1
    /\ asked' = NoVersion
    /\ verified' = FALSE
    /\ current' \in MaybeVersion
    /\ UNCHANGED shown

GivesUp ==
    /\ asked' = NoVersion
    /\ verified' = FALSE
    /\ shown' \in MaybeVersion
    /\ UNCHANGED <<current, carried>>

Next == Changes \/ Shows \/ Confirms \/ Verifies \/ CarriesOut \/ GivesUp

Spec == Init /\ [][Next]_reviewedVars

=============================================================================
