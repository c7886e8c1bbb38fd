-------------------------------- MODULE Assets --------------------------------
(* The files of pasted pictures (clipboard.rs, staging.rs, drafts.rs): who holds a    *)
(* lease of which, when the last holder lets it go, and the sweep that removes what   *)
(* a crash left behind while threads of an earlier worker, uploads and the writer of  *)
(* the drafts go on. All pictures are of one draft of one account.                    *)
EXTENDS Naturals, FiniteSets

CONSTANTS
    MaxPictures,  \* bound: pictures ever pasted
    MaxEnds       \* bound: account switches, orderly ends and crashes

ASSUME AssetsAssumption == MaxPictures \in Nat /\ MaxEnds \in Nat

VARIABLES
    files,        \* the account's directory of pictures
    holders,      \* LIVE_ASSETS: who has a lease of a picture; of none, it has no lease
    retained,     \* Asset.retained
    stored,       \* the draft in the database
    thread,       \* the preparation thread: its picture, how far it is, for which worker
    worker,       \* the worker: its number and where it is in loading the drafts
    referenced,   \* restore: what the sweep will spare
    draftLoaded,  \* App.draft_accounts has the account
    unsaved,      \* App.drafts_dirty
    unseenDraft,  \* the watch channel of the writer has a new snapshot
    pictures, ends,
    done          \* ghost: pictures that the user sent or removed

assetVars == <<files, holders, retained, stored, thread, worker, referenced, draftLoaded,
               unsaved, unseenDraft, pictures, ends, done>>

Picture == 1 .. MaxPictures

\* "queued" and "written" are the snapshots of the writer: the one in the channel and
\* the one it saved last.
Holder == {"thread", "result", "draft", "queued", "written", "upload", "retry", "restored"}
NoThread == [picture |-> 0, at |-> "idle", worker |-> 0]

AssetsInit ==
    /\ files = {} /\ holders = [p \in Picture |-> {}] /\ retained = [p \in Picture |-> FALSE]
    /\ stored = {} /\ thread = NoThread /\ worker = [number |-> 1, at |-> "loading"]
    /\ referenced = {} /\ draftLoaded = FALSE /\ unsaved = FALSE /\ unseenDraft = FALSE
    /\ pictures = 0 /\ ends = 0 /\ done = {}

AssetsType ==
    /\ files \subseteq 1 .. pictures /\ stored \subseteq 1 .. pictures
    /\ holders \in [Picture -> SUBSET Holder] /\ retained \in [Picture -> BOOLEAN]
    /\ thread.at \in {"idle", "writing", "leased"}
    /\ worker \in [number : 1 .. MaxEnds + 1, at : {"loading", "restoring", "sweeping",
                                                    "told", "serving"}]
    /\ {draftLoaded, unsaved, unseenDraft} \subseteq BOOLEAN
    /\ done \subseteq 1 .. pictures

Has(holder) == {p \in Picture : holder \in holders[p]}
Leased == {p \in Picture : holders[p] # {}}

\* Each holder in `changes` now has these pictures.
Holds(changes) ==
    holders' = [p \in Picture |->
        (holders[p] \ DOMAIN changes) \cup {h \in DOMAIN changes : p \in changes[h]}]

\* Asset::drop: the last holder of a picture that is not retained removes its file.
Drops == {p \in Leased : holders'[p] = {} /\ ~retained'[p]}

Only(holder, set) == [h \in {holder} |-> set]
Moved(p, from, to) ==
    [h \in {from, to} |-> IF h = from THEN Has(h) \ {p} ELSE Has(h) \cup {p}]

-------------------------------------------------------------------------------
(* The preparation of a picture.                                                *)

\* read_native, prepare_payload: the file is made in the account's directory.
MakesFile ==
    /\ thread = NoThread /\ pictures < MaxPictures /\ worker.at = "serving"
    /\ pictures' = pictures + 1
    /\ files' = files \cup {pictures'}
    /\ thread' = [picture |-> pictures', at |-> "writing", worker |-> worker.number]
    /\ UNCHANGED <<holders, retained, stored, worker, referenced, draftLoaded, unsaved,
                   unseenDraft, ends, done>>

\* finish_asset and Asset::new, or an error: the file is gone, or goes.
FinishAsset ==
    /\ thread.at = "writing"
    /\ LET p == thread.picture IN
        \/ /\ p \in files
           /\ thread' = [thread EXCEPT !.at = "leased"]
           /\ Holds(Only("thread", {p}))
           /\ retained' = [retained EXCEPT ![p] = FALSE]
           /\ UNCHANGED files
        \/ /\ thread' = NoThread
           /\ files' = files \ {p}
           /\ UNCHANGED <<holders, retained>>
    /\ UNCHANGED <<stored, worker, referenced, draftLoaded, unsaved, unseenDraft, pictures,
                   ends, done>>

\* The result reaches the worker that asked for it, if that is still there.
DeliverPicture ==
    /\ thread.at = "leased"
    /\ thread' = NoThread
    /\ IF thread.worker = worker.number
       THEN Holds(Moved(thread.picture, "thread", "result"))
       ELSE Holds(Only("thread", {}))
    /\ UNCHANGED retained
    /\ files' = files \ Drops
    /\ UNCHANGED <<stored, worker, referenced, draftLoaded, unsaved, unseenDraft, pictures,
                   ends, done>>

\* Mutant: a picture enters the draft without being retained.
TakeUnretained ==
    /\ \E p \in Has("result") :
          /\ Holds(Moved(p, "result", "draft"))
          /\ unsaved' = TRUE
    /\ UNCHANGED retained
    /\ files' = files \ Drops
    /\ UNCHANGED <<stored, thread, worker, referenced, draftLoaded, unseenDraft, pictures,
                   ends, done>>

\* attachments_prepared: the draft takes it and retains it, or does not want it any more.
TakePicture ==
    /\ \E p \in Has("result") :
        \/ /\ retained' = [retained EXCEPT ![p] = TRUE]
           /\ Holds(Moved(p, "result", "draft"))
           /\ unsaved' = TRUE
        \/ /\ Holds(Only("result", Has("result") \ {p}))
           /\ UNCHANGED <<retained, unsaved>>
    /\ files' = files \ Drops
    /\ UNCHANGED <<stored, thread, worker, referenced, draftLoaded, unseenDraft, pictures,
                   ends, done>>

-------------------------------------------------------------------------------
(* The user removes it or sends it.                                             *)

\* RemoveAttachment
RemovePicture ==
    /\ \E p \in Has("draft") :
          /\ retained' = [retained EXCEPT ![p] = FALSE]
          /\ Holds(Only("draft", Has("draft") \ {p}))
          /\ done' = done \cup {p}
    /\ unsaved' = TRUE
    /\ files' = files \ Drops
    /\ UNCHANGED <<stored, thread, worker, referenced, draftLoaded, unseenDraft, pictures,
                   ends>>

\* SendAttachment takes it from the draft; a retry takes it from the failed message.
SendPicture ==
    /\ worker.at = "serving"
    /\ \E p \in Picture, from \in {"draft", "retry"} :
          /\ p \in Has(from)
          /\ Holds(Moved(p, from, "upload"))
          /\ unsaved' = (unsaved \/ from = "draft")
    /\ UNCHANGED retained
    /\ files' = files \ Drops
    /\ UNCHANGED <<stored, thread, worker, referenced, draftLoaded, unseenDraft, pictures,
                   ends, done>>

\* Mutant: an upload that failed lets its file go.
UploadLetsGo ==
    /\ \E p \in Has("upload") :
          /\ retained' = [retained EXCEPT ![p] = FALSE]
          /\ \/ Holds(Only("upload", Has("upload") \ {p})) /\ done' = done \cup {p}
             \/ Holds(Moved(p, "upload", "retry")) /\ UNCHANGED done
    /\ files' = files \ Drops
    /\ UNCHANGED <<stored, thread, worker, referenced, draftLoaded, unsaved, unseenDraft,
                   pictures, ends>>

\* TransferCompletion::Send: a sent one is discarded; a failed one returns to the
\* terminal, which keeps it for a retry.
UploadPicture ==
    /\ \E p \in Has("upload") :
        \/ /\ p \in files
           /\ retained' = [retained EXCEPT ![p] = FALSE]
           /\ Holds(Only("upload", Has("upload") \ {p}))
           /\ done' = done \cup {p}
        \/ /\ Holds(Moved(p, "upload", "retry"))
           /\ UNCHANGED <<retained, done>>
    /\ files' = files \ Drops
    /\ UNCHANGED <<stored, thread, worker, referenced, draftLoaded, unsaved, unseenDraft,
                   pictures, ends>>

\* clear_reconciled_retry: the message was sent after all.
ReconcilePicture ==
    /\ \E p \in Has("retry") :
          /\ retained' = [retained EXCEPT ![p] = FALSE]
          /\ Holds(Only("retry", Has("retry") \ {p}))
          /\ done' = done \cup {p}
    /\ files' = files \ Drops
    /\ UNCHANGED <<stored, thread, worker, referenced, draftLoaded, unsaved, unseenDraft,
                   pictures, ends>>

-------------------------------------------------------------------------------
(* The writer of the drafts. Its snapshots hold leases too.                     *)

QueueDraft ==
    /\ unsaved /\ draftLoaded
    /\ unsaved' = FALSE /\ unseenDraft' = TRUE
    /\ Holds(Only("queued", Has("draft")))
    /\ UNCHANGED retained
    /\ files' = files \ Drops
    /\ UNCHANGED <<stored, thread, worker, referenced, draftLoaded, pictures, ends, done>>

SaveDraft ==
    /\ unseenDraft /\ unseenDraft' = FALSE
    /\ stored' = Has("queued")
    /\ Holds(Only("written", Has("queued")))
    /\ UNCHANGED retained
    /\ files' = files \ Drops
    /\ UNCHANGED <<thread, worker, referenced, draftLoaded, unsaved, pictures, ends, done>>

-------------------------------------------------------------------------------
(* A worker loads the drafts of its account.                                    *)

LoadDrafts ==
    /\ worker.at = "loading"
    /\ worker' = [worker EXCEPT !.at = "restoring"]
    /\ referenced' = stored
    /\ UNCHANGED <<files, holders, retained, stored, thread, draftLoaded, unsaved,
                   unseenDraft, pictures, ends, done>>

\* Mutant: only what the database refers to is spared.
RestoreStored ==
    /\ worker.at = "restoring"
    /\ worker' = [worker EXCEPT !.at = "sweeping"]
    /\ UNCHANGED referenced
    /\ retained' = [p \in Picture |-> IF p \in referenced \ Leased THEN TRUE ELSE retained[p]]
    /\ Holds(Only("restored", referenced))
    /\ UNCHANGED <<files, stored, thread, draftLoaded, unsaved, unseenDraft, pictures, ends,
                   done>>

\* restore: what is live is spared too; a lease that exists is shared as it is.
RestoreLeases ==
    /\ worker.at = "restoring"
    /\ worker' = [worker EXCEPT !.at = "sweeping"]
    /\ referenced' = referenced \cup Leased
    /\ retained' = [p \in Picture |-> IF p \in referenced \ Leased THEN TRUE ELSE retained[p]]
    /\ Holds(Only("restored", referenced))
    /\ UNCHANGED <<files, stored, thread, draftLoaded, unsaved, unseenDraft, pictures, ends,
                   done>>

SweepFiles ==
    /\ worker.at = "sweeping"
    /\ worker' = [worker EXCEPT !.at = "told"]
    /\ files' = files \cap referenced
    /\ referenced' = {}
    /\ UNCHANGED <<holders, retained, stored, thread, draftLoaded, unsaved, unseenDraft,
                   pictures, ends, done>>

\* restore_drafts: of an account that is loaded, the terminal's own draft counts.
TakeDrafts ==
    /\ worker.at = "told"
    /\ worker' = [worker EXCEPT !.at = "serving"]
    /\ draftLoaded' = TRUE
    /\ Holds([h \in {"restored", "draft"} |->
                IF h = "draft" /\ ~draftLoaded THEN Has("restored")
                ELSE IF h = "draft" THEN Has("draft") ELSE {}])
    /\ UNCHANGED retained
    /\ files' = files \ Drops
    /\ UNCHANGED <<stored, thread, referenced, unsaved, unseenDraft, pictures, ends, done>>

\* An account switch and back again: the terminal keeps its drafts and the writer its
\* snapshots; the messages, uploads and results of the old worker are dropped, while
\* its thread goes on.
SwitchDrafts ==
    /\ ends < MaxEnds /\ ends' = ends + 1
    /\ worker' = [number |-> worker.number + 1, at |-> "loading"]
    /\ Holds([h \in {"result", "upload", "retry", "restored"} |-> {}])
    /\ UNCHANGED retained
    /\ files' = files \ Drops
    /\ referenced' = {}
    /\ UNCHANGED <<stored, thread, draftLoaded, unsaved, unseenDraft, pictures, done>>

StartsAgain ==
    /\ ends < MaxEnds /\ ends' = ends + 1
    /\ worker' = [number |-> worker.number + 1, at |-> "loading"]
    /\ holders' = [p \in Picture |-> {}]
    /\ thread' = NoThread /\ referenced' = {}
    /\ draftLoaded' = FALSE /\ unsaved' = FALSE /\ unseenDraft' = FALSE

\* The program ends: the writer saves the last draft, and the leases are dropped.
QuitDrafts ==
    /\ StartsAgain
    /\ stored' = IF draftLoaded /\ (unsaved \/ unseenDraft)
                 THEN (IF unsaved THEN Has("draft") ELSE Has("queued")) ELSE stored
    /\ UNCHANGED <<retained, pictures, done>>
    /\ files' = files \ Drops

\* It is killed: nothing is saved, and nobody removes a file.
CrashDrafts ==
    /\ StartsAgain
    /\ UNCHANGED <<files, retained, stored, pictures, done>>

AssetsNext ==
    \/ MakesFile \/ FinishAsset \/ DeliverPicture \/ TakePicture
    \/ RemovePicture \/ SendPicture \/ UploadPicture \/ ReconcilePicture
    \/ QueueDraft \/ SaveDraft
    \/ LoadDrafts \/ RestoreLeases \/ SweepFiles \/ TakeDrafts
    \/ SwitchDrafts \/ QuitDrafts \/ CrashDrafts

AssetsSpec == AssetsInit /\ [][AssetsNext]_assetVars

-------------------------------------------------------------------------------
(* Properties.                                                                  *)

\* A picture that the user has neither removed nor sent is there: for the draft that
\* shows it, for the upload and the retry that send it, and for the database, which a
\* restart reads. No sweep, no lease that ends and no crash takes it away.
PicturesExist ==
    \A p \in Picture \ done :
        p \in stored \/ holders[p] \cap {"draft", "upload", "retry"} # {} => p \in files
==============================================================================
