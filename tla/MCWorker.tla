------------------------------- MODULE MCWorker -------------------------------
(***************************************************************************)
(* An instance of the loops of the workers: the pipeline of the updates    *)
(* and the refreshes of the lists.  `part` names the one a behaviour is    *)
(* about, so that one run checks both.                                     *)
(***************************************************************************)
EXTENDS SyncPipeline, MetadataRefresh

VARIABLE part

\* The part a behaviour is not about stays as it begins.
WorkerInit ==
    /\ part \in {"pipeline", "lists"}
    /\ Init /\ ListsInit

WorkerNext ==
    /\ UNCHANGED part
    /\ \/ part = "pipeline" /\ Next /\ UNCHANGED listVars
       \/ part = "lists" /\ ListsNext /\ UNCHANGED vars

\* Fairness and ListsFairness, of the part that moves.
WorkerFairness ==
    /\ WF_vars(part = "pipeline" /\ ServerProduces)
    /\ WF_vars(part = "pipeline" /\ (TakeBatch \/ SendUpdate \/ SendCheckpoint))
    /\ WF_vars(part = "pipeline" /\ ReceiveEvent)
    /\ WF_vars(part = "pipeline" /\ LocalEnds)
    /\ WF_vars(part = "pipeline" /\ HandOn)
    /\ WF_vars(part = "pipeline" /\ Show)
    /\ \A l \in List : WF_listVars(part = "lists" /\ UpdateArrives(l))
    /\ \A k \in Refresh :
        /\ WF_listVars(part = "lists" /\ StartRefresh(k))
        /\ WF_listVars(part = "lists" /\ (ListAnswered(k) \/ ListRefused(k)))
        /\ WF_listVars(part = "lists" /\ RefreshArrives(k))
    /\ \A i \in 1 .. MaxTasks :
        WF_listVars(part = "lists" /\ (CommandArrives(i) \/ CommandFails(i)))
    /\ WF_listVars(part = "lists" /\ ActiveChanged)

WorkerSpec ==
    WorkerInit /\ [][WorkerNext]_<<vars, listVars, part>> /\ WorkerFairness

-----------------------------------------------------------------------------
(* The types of both parts, with the bounds of queues, slots and transactions. *)
WorkerTypeOK == TypeOK /\ ListsType

(* AllShown and Settles, of the part that moves. *)
AllArrives ==
    /\ part = "pipeline" => AllShown
    /\ part = "lists" => Settles

(* The cache file is a durable stream: DurableStreamSpec, whose liveness is that
   of the part that moves. *)
ImplementsDurableStream ==
    /\ Durable!Init
    /\ [][Durable!Extend]_<<stored, cursor>>
    /\ part = "pipeline" => Durable!Fairness
===============================================================================
