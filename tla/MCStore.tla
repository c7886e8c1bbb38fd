-------------------------------- MODULE MCStore -------------------------------
(***************************************************************************)
(* An instance of the store: the rows of a channel's messages, the poll or *)
(* the reactions of one of them with the journal of their changes, or the  *)
(* unread count of a chat.  `part` names the one a behaviour is about, so  *)
(* that one run checks all of them.                                        *)
(***************************************************************************)
EXTENDS MCMessageCache, ContentJournal, UnreadCount

VARIABLE part

\* A change of the counts alone, of the own choice with them, or an edit of the
\* message, which tells the counts.
SomeChanges ==
    {[own |-> own, whole |-> TRUE, edit |-> FALSE] : own \in BOOLEAN}
        \cup {[own |-> FALSE, whole |-> TRUE, edit |-> TRUE]}

\* The parts a behaviour is not about stay as they begin.
StoreInit ==
    /\ part \in {"rows", "contents", "count"}
    /\ Init /\ JournalInit /\ CountInit
    /\ part # "contents" => kind = "poll" /\ ~row.content.there

StoreNext ==
    /\ UNCHANGED part
    /\ \/ part = "rows" /\ Next /\ UNCHANGED <<journalVars, countVars>>
       \/ part = "contents" /\ JournalNext /\ UNCHANGED <<vars, countVars>>
       \/ part = "count" /\ CountNext /\ UNCHANGED <<vars, journalVars>>

StoreSpec == StoreInit /\ [][StoreNext]_<<vars, journalVars, countVars, part>>

===============================================================================
