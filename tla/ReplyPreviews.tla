----------------------------- MODULE ReplyPreviews ----------------------------
(* The excerpts of replied messages (app/replies.rs): fetched in batches for  *)
(* the replies on the screen, one batch at a time, kept in a bounded map. The *)
(* model follows one target. A batch answers twice, from the cache (complete  *)
(* is FALSE) and from the server; updates of the target may come in between.  *)
EXTENDS TerminalDialog

\* prompt.request is Entry.request_id: 0 when the entry is not of a batch.
NoPreview == [plan |-> NoVersion, preview |-> "none", request |-> 0]

PreviewInit == DialogInit(NoPreview)

-------------------------------------------------------------------------------
(* The terminal. *)

ReplyShown ==
    /\ mode' = IF mode = "Dialog" THEN "Navigate" ELSE "Dialog"
    /\ UNCHANGED <<prompt, pending, nextRequest, online, calls, serverVars>>

\* request_visible_replies, after every frame that shows the reply.
RequestPreview ==
    /\ mode = "Dialog"
    /\ Idle
    /\ prompt.preview = "none"
    /\ prompt' = [prompt EXCEPT !.preview = "loading", !.request = nextRequest + 1]
    /\ Submit(FALSE, NoVersion, "batch")
    /\ UNCHANGED <<mode, online, serverVars>>

\* The bounded map drops a target that is not on the screen.
PreviewEvicted ==
    /\ mode = "Navigate" /\ Idle
    /\ prompt' = NoPreview
    /\ UNCHANGED <<mode, pending, nextRequest, online, calls, serverVars>>

\* The cached rows hold what the terminal was told, or are missing.
CachedPreview(call) ==
    /\ call.phase = "sent" /\ call.detail = "batch"
    /\ AwaitedBy(pending, call)
    /\ prompt.request = call.id
    /\ prompt' = IF ToldGone THEN [prompt EXCEPT !.preview = "unavailable"]
                 ELSE [prompt EXCEPT !.preview = "ready", !.plan = told]
    /\ UNCHANGED <<mode, pending, nextRequest, online, calls, serverVars>>

\* What the answer of its batch makes of an entry.
Filled(p, call) ==
    IF call.phase = "failed"
    THEN IF p.preview = "loading" THEN [p EXCEPT !.preview = "failed"] ELSE p
    ELSE IF call.version = NoVersion THEN [p EXCEPT !.preview = "unavailable"]
    ELSE [p EXCEPT !.preview = "ready", !.plan = call.version]

\* Mutant: an answer fills whatever entry the target has by now.
FillAnyway(call) ==
    /\ call.detail = "batch"
    /\ Takes(call, FALSE)
    /\ pending' = NoPending
    /\ prompt' = IF prompt.preview = "none" THEN prompt ELSE Filled(prompt, call)
    /\ UNCHANGED <<mode, nextRequest, online, serverVars>>

\* finish_reply_previews: only an entry still of this batch is filled.
PreviewsArrive(call) ==
    /\ call.detail = "batch"
    /\ Takes(call, FALSE)
    /\ pending' = NoPending
    /\ prompt' = IF prompt.request = call.id THEN Filled(prompt, call) ELSE prompt
    /\ UNCHANGED <<mode, nextRequest, online, serverVars>>

\* The message is loaded for another purpose (an edit, a search result); the
\* answer makes an excerpt too, whatever was told since it was fetched.
LoadTarget ==
    /\ nextRequest < MaxRequests
    /\ calls' = calls \cup {[id |-> nextRequest + 1, acts |-> FALSE, phase |-> "sent",
                             version |-> NoVersion, detail |-> "load"]}
    /\ nextRequest' = nextRequest + 1
    /\ UNCHANGED <<mode, prompt, pending, online, serverVars>>

MessageLoaded(call) ==
    /\ call \in Answers /\ call.detail = "load"
    /\ calls' = calls \ {call}
    /\ prompt' = IF call.version = NoVersion \/ prompt.preview \in {"none", "unavailable"}
                 THEN prompt
                 ELSE [plan |-> call.version, preview |-> "ready", request |-> 0]
    /\ UNCHANGED <<mode, pending, nextRequest, online, serverVars>>

\* An edit or the deletion of the target takes the entry from its batch. A
\* deletion is kept for a target that was never loaded too.
TargetTold ==
    /\ told < Changes(server)
    /\ told' = told + 1
    /\ prompt' = IF told' > server.version
                 THEN [plan |-> prompt.plan, preview |-> "unavailable", request |-> 0]
                 ELSE IF prompt.preview \in {"none", "unavailable"} THEN prompt
                 ELSE [plan |-> told', preview |-> "ready", request |-> 0]
    /\ UNCHANGED <<mode, pending, nextRequest, online, calls, server, carried, effects>>

PreviewsInvalidated ==
    /\ prompt' = NoPreview
    /\ pending' = NoPending
    /\ UNCHANGED <<mode, nextRequest, online, calls, serverVars>>

\* Back online: what failed is tried again.
PreviewsOnline ==
    /\ online' = ~online
    /\ prompt' = IF online' /\ prompt.preview = "failed" THEN NoPreview ELSE prompt
    /\ UNCHANGED <<mode, pending, nextRequest, calls, serverVars>>

-------------------------------------------------------------------------------
(* The worker's task. *)

PreviewsFetched(call) ==
    /\ call.phase = "sent"
    /\ Becomes(call, [call EXCEPT !.phase = "done", !.version = Current(server)])
    /\ UNCHANGED <<terminalVars, serverVars>>

PreviewNext ==
    \/ ReplyShown
    \/ RequestPreview
    \/ PreviewEvicted
    \/ LoadTarget
    \/ TargetTold
    \/ PreviewsInvalidated
    \/ PreviewsOnline
    \/ OthersChange
    \/ AccountSwitch(NoPreview)
    \/ \E call \in calls :
        \/ CallFails(call)
        \/ call.detail = "batch" /\ AnswerIgnored(call)
        \/ CachedPreview(call)
        \/ MessageLoaded(call)
        \/ PreviewsArrive(call)
        \/ PreviewsFetched(call)

\* A batch never brings back an excerpt that is older than what the terminal was
\* told of its message, nor one of a deleted message: an edit wins over a batch
\* begun before it (update_reply_previews, finish_reply_previews).
BatchNeverUndoes ==
    \A call \in calls \ calls' :
        (call.detail = "batch" /\ prompt' # prompt /\ prompt'.preview = "ready") =>
            ~ToldGone /\ prompt'.plan >= told

=============================================================================
