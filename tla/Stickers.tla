------------------------------- MODULE Stickers -------------------------------
(* The sticker panel (app/stickers.rs, telegram/stickers.rs): the overview is *)
(* shown from the cache and validated by the server, the stickers of a set    *)
(* likewise, and the pictures of the cells on the screen are downloaded a few *)
(* at a time. Documents and pictures outlive the panel. A version is the      *)
(* overview; the model follows one set.                                       *)
EXTENDS TerminalDialog

CONSTANTS
    Sticker,     \* the stickers of the set
    MaxThumbs    \* MAX_THUMB_DOWNLOADS

\* A sticker is known by its document, apart from the panel's other requests.
ASSUME StickerConstants ==
    /\ MaxThumbs \in Nat
    /\ Sticker \cap {"overview", "set"} = {}

\* prompt.set is the request that the set's documents are loaded by, 0 for none;
\* thumbs are State.thumbs and queued, loading_thumbs the downloads under way.
NoStickers ==
    [plan |-> NoVersion, error |-> FALSE, documents |-> "none", set |-> 0,
     thumbs |-> [s \in Sticker |-> "none"], queued |-> {}, flying |-> {}]

StickersInit == DialogInit(NoStickers)

Order(id, detail) ==
    [id |-> id, acts |-> FALSE, phase |-> "sent", version |-> NoVersion, detail |-> detail]

\* ensure_sticker_section: a set not loaded or failed is asked for.
Ensures(p, others) ==
    IF p.plan # NoVersion /\ p.documents \in {"none", "failed"} /\ nextRequest < MaxRequests
    THEN /\ prompt' = [p EXCEPT !.documents = "loading", !.set = nextRequest + 1]
         /\ calls' = others \cup {Order(nextRequest + 1, "set")}
         /\ nextRequest' = nextRequest + 1
    ELSE prompt' = p /\ calls' = others /\ UNCHANGED nextRequest

-------------------------------------------------------------------------------
(* The terminal. *)

BeginStickers ==
    /\ mode = "Navigate"
    /\ mode' = "Dialog"
    /\ prompt' = [prompt EXCEPT
            !.plan = NoVersion, !.error = FALSE,
            !.thumbs = [s \in Sticker |-> IF @[s] = "failed" THEN "none" ELSE @[s]]]
    /\ Submit(FALSE, NoVersion, "overview")
    /\ UNCHANGED <<online, serverVars>>

\* Cancel, or the sticker was sent.
CloseStickers ==
    /\ mode = "Dialog"
    /\ mode' = "Navigate"
    /\ pending' = NoPending
    /\ prompt' = [prompt EXCEPT !.queued = {}]
    /\ UNCHANGED <<nextRequest, online, calls, serverVars>>

RefreshStickers ==
    /\ mode = "Dialog" /\ Idle
    /\ prompt' = [prompt EXCEPT !.error = FALSE]
    /\ Submit(FALSE, NoVersion, "overview")
    /\ UNCHANGED <<mode, online, serverVars>>

SelectSection ==
    /\ mode = "Dialog"
    /\ Ensures(prompt, calls)
    /\ UNCHANGED <<mode, pending, online, serverVars>>

\* serve_cached answers with the cached overview first (validated is FALSE).
CachedOverview(call) ==
    /\ call.phase = "sent" /\ call.detail = "overview"
    /\ AwaitedBy(pending, call)
    /\ Ensures([prompt EXCEPT !.plan = told], calls)
    /\ UNCHANGED <<mode, pending, online, serverVars>>

\* stickers_loaded; when the validation fails what was cached stays.
StickersLoaded(call) ==
    /\ call \in Answers /\ call.detail = "overview"
    /\ AwaitedBy(pending, call)
    /\ pending' = NoPending
    /\ IF call.phase = "failed"
       THEN /\ prompt' = [prompt EXCEPT !.error = TRUE]
            /\ calls' = calls \ {call}
            /\ UNCHANGED nextRequest
       ELSE Ensures([prompt EXCEPT !.plan = call.version, !.error = FALSE], calls \ {call})
    /\ UNCHANGED <<mode, online, serverVars>>

CachedSet(call) ==
    /\ call.phase = "sent" /\ call.detail = "set"
    /\ prompt.set = call.id /\ prompt.documents \in {"loading", "validating"}
    /\ prompt' = [prompt EXCEPT !.documents = "validating"]
    /\ UNCHANGED <<mode, pending, nextRequest, online, calls, serverVars>>

StickerSetLoaded(call) ==
    /\ call \in Answers /\ call.detail = "set"
    /\ calls' = calls \ {call}
    /\ prompt' = IF prompt.set # call.id THEN prompt
                 ELSE [prompt EXCEPT
                        !.set = 0,
                        !.error = @ \/ (call.phase = "failed" /\ prompt.documents = "validating"),
                        !.documents = IF call.phase = "failed" /\ @ = "loading"
                                      THEN "failed" ELSE "loaded"]
    /\ UNCHANGED <<mode, pending, nextRequest, online, serverVars>>

\* queue_thumb, for a cell that is drawn.
QueueThumb(s) ==
    /\ mode = "Dialog" /\ prompt.documents \in {"validating", "loaded"}
    /\ prompt.thumbs[s] = "none" /\ s \notin prompt.flying \cup prompt.queued
    /\ prompt' = [prompt EXCEPT !.queued = @ \cup {s}]
    /\ UNCHANGED <<mode, pending, nextRequest, online, calls, serverVars>>

\* Mutant: the budget counts only the downloads of the panel that is open.
RequestUncounted(s) ==
    /\ mode = "Dialog"
    /\ s \in prompt.queued
    /\ prompt' = [prompt EXCEPT !.queued = @ \ {s}, !.flying = {s},
                                !.thumbs[s] = "loading"]
    /\ calls' = calls \cup {Order(0, s)}
    /\ UNCHANGED <<mode, pending, nextRequest, online, serverVars>>

\* request_sticker_thumbs; its answer is known by the sticker, not by a number.
RequestStickerThumb(s) ==
    /\ mode = "Dialog"
    /\ s \in prompt.queued
    /\ Cardinality(prompt.flying) < MaxThumbs
    /\ prompt' = [prompt EXCEPT !.queued = @ \ {s}, !.flying = @ \cup {s},
                                !.thumbs[s] = "loading"]
    /\ calls' = calls \cup {Order(0, s)}
    /\ UNCHANGED <<mode, pending, nextRequest, online, serverVars>>

StickerThumbDownloaded(call) ==
    /\ call \in Answers /\ call.detail \in Sticker
    /\ calls' = calls \ {call}
    /\ prompt' = [prompt EXCEPT
            !.flying = @ \ {call.detail},
            !.thumbs[call.detail] = IF call.phase = "failed" THEN "failed" ELSE "ready"]
    /\ UNCHANGED <<mode, pending, nextRequest, online, serverVars>>

-------------------------------------------------------------------------------
(* The worker's task. *)

StickersFetched(call) ==
    /\ call.phase = "sent"
    /\ Becomes(call, [call EXCEPT !.phase = "done", !.version = server.version])
    /\ UNCHANGED <<terminalVars, serverVars>>

StickersNext ==
    \/ BeginStickers
    \/ CloseStickers
    \/ RefreshStickers
    \/ SelectSection
    \/ AccountSwitch(NoStickers)
    \/ \E s \in Sticker : QueueThumb(s) \/ RequestStickerThumb(s)
    \/ \E call \in calls :
        \/ CallFails(call)
        \/ call.detail = "overview" /\ AnswerIgnored(call)
        \/ CachedOverview(call)
        \/ StickersLoaded(call)
        \/ CachedSet(call)
        \/ StickerSetLoaded(call)
        \/ StickerThumbDownloaded(call)
        \/ StickersFetched(call)

\* However the panel is closed and opened again while pictures are downloaded,
\* the downloads under way never exceed the budget, and a picture that shows as
\* loading is on its way (request_sticker_thumbs).
ThumbBudget ==
    /\ Cardinality({call \in calls : call.detail \in Sticker}) <= MaxThumbs
    /\ \A s \in Sticker :
        prompt.thumbs[s] = "loading" <=> \E call \in calls : call.detail = s

\* A set that shows as loading is on its way (ensure_sticker_section asks for no
\* set twice, and relies on the answer to come).
SetOnItsWay ==
    prompt.documents \in {"loading", "validating"} =>
        \E call \in calls : call.detail = "set" /\ call.id = prompt.set

=============================================================================
