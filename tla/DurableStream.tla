---------------------------- MODULE DurableStream ----------------------------
(***************************************************************************)
(* What the synchronization of the cache promises, without saying how: the *)
(* updates of the server become durable in order, the cursor from which a  *)
(* restart continues never passes what is durable, and in the end          *)
(* everything is durable and covered.                                      *)
(***************************************************************************)
EXTENDS Integers

CONSTANT Updates    \* the updates the server produces, numbered from 1

VARIABLES
    stored,     \* the updates whose effects are durable
    cursor      \* the last update the durable cursor covers

vars == <<stored, cursor>>

Init ==
    /\ stored = {}
    /\ cursor = 0

Extend ==
    \E n \in 0 .. Updates :
        /\ stored \subseteq 1 .. n
        /\ stored' = 1 .. n
        /\ cursor' \in cursor .. n
        /\ <<stored', cursor'>> # <<stored, cursor>>

Fairness == WF_vars(Extend)

Spec == Init /\ [][Extend]_vars /\ Fairness
=============================================================================
