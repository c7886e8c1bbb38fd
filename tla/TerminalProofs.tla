--------------------------- MODULE TerminalProofs ---------------------------
(* Proofs about the terminal: the drafts it keeps, the sign-in of its session, the  *)
(* presence it reports, and the three composed in one loop.                        *)
EXTENDS MCTerminal, FiniteSetTheorems, WellFoundedInduction, TLAPS

-------------------------------------------------------------------------------
(* Numbers. *)

\* Any natural numbers have a least one.
LEMMA LeastFound ==
  ASSUME NEW S \in SUBSET Nat, S # {}
  PROVE  \E x \in S : \A y \in S : x <= y
<1>1. \E x \in S : \A y \in S : ~ (<<y, x>> \in OpToRel(<, Nat))
 BY WFMin, NatLessThanWellFounded, Zenon
<1>2. \A x, y \in Nat : x <= y \/ <<y, x>> \in OpToRel(<, Nat)
 <2>1. \A x, y \in Nat : y < x => <<y, x>> \in OpToRel(<, Nat)
  BY Zenon DEF OpToRel
 <2>2. \A x, y \in Nat : x <= y \/ y < x
  OBVIOUS
 <2> QED BY <2>1, <2>2, Zenon
<1> QED BY <1>1, <1>2, Zenon

-------------------------------------------------------------------------------
(* The drafts. *)

Rows == [Chat -> 0 .. MaxEdits]
Snapshots == UNION {[A -> Rows] : A \in SUBSET Account}
DraftEvent == [kind : {"drafts", "identity"}, account : Account, rows : Rows]

DraftsShape ==
    /\ memory \in [Account -> [Chat -> {Missing} \cup 0 .. MaxEdits]]
    /\ disk \in [Account -> Rows] /\ wanted \in [Account -> Rows]
    /\ loaded \subseteq Account /\ modified \subseteq Account /\ dirty \in BOOLEAN
    /\ identity \in Account \cup {NoAccount} /\ edits \in 0 .. MaxEdits /\ nextRequest \in Nat
    /\ staging \in [account : Account \cup {NoAccount}, id : Nat]
    /\ worker \in [account : Account, at : {"loading", "serving"}, known : SUBSET Account]
    /\ events \in Seq(DraftEvent)
    /\ running \in {"running", "closing", "exited"}
    /\ queued \in [snapshot : Snapshots, unseen : BOOLEAN]
    /\ writer \in [at : {"waiting", "saving", "retrying", "last", "finished", "failed"},
                   snapshot : Snapshots, previous : Snapshots]

(* The drafts of an account that are on their way are the ones in the file, and come
   before its identity. *)
HasDrafts(es, a, n) == \E j \in 1 .. n : es[j].kind = "drafts" /\ es[j].account = a
EventsAreTrue ==
    \A i \in 1 .. Len(events) :
        /\ events[i].kind = "drafts" /\ events[i].account \notin loaded
              => events[i].rows = wanted[events[i].account]
        /\ events[i].kind = "identity" =>
              events[i].account \in loaded \/ HasDrafts(events, events[i].account, i - 1)
KnownAreLoaded ==
    /\ \A a \in worker.known : a \in loaded \/ HasDrafts(events, a, Len(events))
    /\ identity # NoAccount => identity \in loaded
    /\ staging # NoStaging => staging.account \in loaded

UnloadedAreUntouched == \A a \in Account \ loaded : \A c \in Chat : memory[a][c] = Missing

(* What was not edited is in the file; what was edited is in the snapshot of the turn
   that ended, and what is written at last is that snapshot. *)
UnmodifiedAreStored == \A a \in Account \ modified : disk[a] = wanted[a]
SnapshotsAreOfModified ==
    DOMAIN queued.snapshot \subseteq modified /\ DOMAIN writer.snapshot \subseteq modified
QueuedIsWanted ==
    ~dirty => \A a \in modified : a \in DOMAIN queued.snapshot /\ queued.snapshot[a] = wanted[a]
LastIsQueued ==
    /\ running # "running" => ~dirty
    /\ writer.at = "last" => running = "closing" /\ writer.snapshot = queued.snapshot
    /\ writer.at = "finished" => running = "exited" /\ disk = wanted

(* What the terminal has, and what the writer has. *)
InMemory == EventsAreTrue /\ KnownAreLoaded /\ UnloadedAreUntouched /\ DraftsAreKept
OnDisk ==
    /\ UnmodifiedAreStored /\ SnapshotsAreOfModified /\ QueuedIsWanted /\ LastIsQueued
    /\ SkippedIsStored

DraftsInv == DraftsShape /\ InMemory /\ OnDisk

(* What the worker prepares was asked for by somebody. *)
SomeoneAsked == NoStaging \notin preparing

LEMMA NowhereIsSnapshot == Nowhere \in Snapshots /\ DOMAIN Nowhere = {}
<1>1. Nowhere \in [{} -> Rows]
 BY DEF Nowhere
<1> QED BY <1>1 DEF Snapshots, Nowhere

LEMMA SnapshotFacts ==
  ASSUME NEW s \in Snapshots
  PROVE  DOMAIN s \subseteq Account /\ \A a \in DOMAIN s : s[a] \in Rows
BY DEF Snapshots

LEMMA DraftsBegin == DraftsInit => DraftsInv
<1> SUFFICES ASSUME DraftsInit PROVE DraftsInv
 OBVIOUS
<1>1. /\ memory = [a \in Account |-> [c \in Chat |-> Missing]]
      /\ disk = [a \in Account |-> [c \in Chat |-> 0]] /\ wanted = disk
      /\ loaded = {} /\ modified = {} /\ dirty = FALSE /\ identity = NoAccount
      /\ staging = NoStaging /\ nextRequest = 0 /\ edits = 0 /\ running = "running"
      /\ events = <<>> /\ Len(events) = 0
      /\ queued = [snapshot |-> Nowhere, unseen |-> FALSE]
      /\ writer = [at |-> "waiting", snapshot |-> Nowhere, previous |-> Nowhere]
 BY DEF DraftsInit, Empty
<1>2. worker \in [account : Account, at : {"loading", "serving"}, known : SUBSET Account]
      /\ worker.known = {}
 BY DEF DraftsInit, Started
<1>3. /\ memory \in [Account -> [Chat -> {Missing} \cup 0 .. MaxEdits]]
      /\ disk \in [Account -> Rows] /\ wanted \in [Account -> Rows]
 BY <1>1, DraftsAssumption DEF Rows
<1>4. staging \in [account : Account \cup {NoAccount}, id : Nat]
 BY <1>1 DEF NoStaging
<1>5. queued \in [snapshot : Snapshots, unseen : BOOLEAN] /\
      writer \in [at : {"waiting", "saving", "retrying", "last", "finished", "failed"},
                  snapshot : Snapshots, previous : Snapshots]
 BY <1>1, NowhereIsSnapshot
<1>6. DraftsShape
 <2>1. events \in Seq(DraftEvent)
  BY <1>1
 <2>2. /\ loaded \subseteq Account /\ modified \subseteq Account /\ dirty \in BOOLEAN
       /\ identity \in Account \cup {NoAccount} /\ edits \in 0 .. MaxEdits /\ nextRequest \in Nat
       /\ running \in {"running", "closing", "exited"}
  <3>1. 0 \in 0 .. MaxEdits
   BY DraftsAssumption
  <3> QED BY <1>1, <3>1
 <2> QED BY <1>2, <1>3, <1>4, <1>5, <2>1, <2>2 DEF DraftsShape
<1>7. InMemory
 <2>1. EventsAreTrue /\ KnownAreLoaded
  BY <1>1, <1>2 DEF EventsAreTrue, KnownAreLoaded
 <2>2. UnloadedAreUntouched /\ DraftsAreKept
  BY <1>1 DEF UnloadedAreUntouched, DraftsAreKept, EditsAreKept, EditedIsLoaded
 <2> QED BY <2>1, <2>2 DEF InMemory
<1>8. OnDisk
 BY <1>1, NowhereIsSnapshot DEF OnDisk, UnmodifiedAreStored, SnapshotsAreOfModified,
    QueuedIsWanted, LastIsQueued, SkippedIsStored
<1> QED BY <1>6, <1>7, <1>8 DEF DraftsInv

(* A queue of events, when the first is handled and when some are sent. *)
LEMMA FirstOf ==
  ASSUME NEW S, NEW s \in Seq(S), s # <<>>
  PROVE  /\ Tail(s) \in Seq(S) /\ Len(Tail(s)) = Len(s) - 1 /\ Len(s) \in Nat /\ Len(s) >= 1
         /\ Head(s) = s[1] /\ Head(s) \in S
         /\ \A i \in 1 .. Len(Tail(s)) : Tail(s)[i] = s[i + 1]
OBVIOUS

LEMMA OneMore ==
  ASSUME NEW S, NEW s \in Seq(S), NEW a \in S
  PROVE  /\ Append(s, a) \in Seq(S) /\ Len(Append(s, a)) = Len(s) + 1 /\ Len(s) \in Nat
         /\ \A i \in 1 .. Len(s) : Append(s, a)[i] = s[i]
         /\ Append(s, a)[Len(s) + 1] = a
OBVIOUS

LEMMA TwoMore ==
  ASSUME NEW S, NEW s \in Seq(S), NEW a \in S, NEW b \in S
  PROVE  /\ s \o <<a, b>> \in Seq(S) /\ Len(s \o <<a, b>>) = Len(s) + 2 /\ Len(s) \in Nat
         /\ \A i \in 1 .. Len(s) : (s \o <<a, b>>)[i] = s[i]
         /\ (s \o <<a, b>>)[Len(s) + 1] = a /\ (s \o <<a, b>>)[Len(s) + 2] = b
OBVIOUS

(* The writer and the file are left alone. *)
LEMMA DiskIsLeft ==
  ASSUME OnDisk, UNCHANGED <<disk, wanted, modified, dirty, queued, writer, running>>
  PROVE  OnDisk'
BY DEF OnDisk, UnmodifiedAreStored, SnapshotsAreOfModified, QueuedIsWanted, LastIsQueued,
   SkippedIsStored

(* The terminal's memory is left alone. *)
LEMMA MemoryIsLeft ==
  ASSUME InMemory, UNCHANGED <<memory, wanted, loaded, modified, identity, staging, worker,
                               events>>
  PROVE  InMemory'
BY DEF InMemory, EventsAreTrue, HasDrafts, KnownAreLoaded, UnloadedAreUntouched, DraftsAreKept,
   EditsAreKept, EditedIsLoaded, Text

(* The user edits a draft of an account that is loaded. *)
LEMMA EditKeeps ==
  ASSUME DraftsInv, NEW a \in loaded, NEW c \in Chat, NEW draft \in 0 .. MaxEdits, Edits(a, c, draft),
         Turn, staging' \in {staging, NoStaging}, UNCHANGED <<loaded, identity, running, worker,
                                         events, queued, writer, disk, nextRequest>>
  PROVE  DraftsInv'
<1>0. DraftsShape /\ InMemory /\ OnDisk
 BY DEF DraftsInv
<1>1. /\ memory' = [memory EXCEPT ![a][c] = draft]
      /\ wanted' = [wanted EXCEPT ![a][c] = draft]
      /\ modified' = modified \cup {a} /\ dirty' = TRUE /\ edits' = edits + 1
 BY DEF Edits
<1>2. a \in Account
 BY <1>0 DEF DraftsShape
<1>3. /\ memory' \in [Account -> [Chat -> {Missing} \cup 0 .. MaxEdits]]
      /\ \A b \in Account : b # a => memory'[b] = memory[b]
      /\ \A d \in Chat : memory'[a][d] = IF d = c THEN draft ELSE memory[a][d]
 <2>1. memory \in [Account -> [Chat -> {Missing} \cup 0 .. MaxEdits]]
  BY <1>0 DEF DraftsShape
 <2> QED BY <1>1, <1>2, <2>1
<1>4. /\ wanted' \in [Account -> [Chat -> 0 .. MaxEdits]]
      /\ \A b \in Account : b # a => wanted'[b] = wanted[b]
      /\ \A d \in Chat : wanted'[a][d] = IF d = c THEN draft ELSE wanted[a][d]
 <2>1. wanted \in [Account -> [Chat -> 0 .. MaxEdits]]
  BY <1>0 DEF DraftsShape, Rows
 <2> QED BY <1>1, <1>2, <2>1
<1>5. staging' \in [account : Account \cup {NoAccount}, id : Nat]
 BY <1>0 DEF DraftsShape, NoStaging
<1>6. DraftsShape'
 <2>1. edits' \in 0 .. MaxEdits
  BY <1>0, DraftsAssumption DEF DraftsShape, Edits
 <2> QED BY <1>0, <1>1, <1>2, <1>3, <1>4, <1>5, <2>1 DEF DraftsShape, Rows
<1>7. InMemory'
 <2>1. EventsAreTrue'
  <3>1. \A i \in 1 .. Len(events) : events[i].account \in Account
   <4>1. events \in Seq(DraftEvent)
    BY <1>0 DEF DraftsShape
   <4>2. \A i \in 1 .. Len(events) : events[i] \in DraftEvent
    BY <4>1
   <4> QED BY <4>2 DEF DraftEvent
  <3> QED BY <1>0, <1>4, <3>1 DEF InMemory, EventsAreTrue, HasDrafts
 <2>2. KnownAreLoaded'
  BY <1>0 DEF InMemory, KnownAreLoaded, HasDrafts
 <2>3. UnloadedAreUntouched'
  BY <1>0, <1>3 DEF InMemory, UnloadedAreUntouched
 <2>4. EditedIsLoaded'
  BY <1>0, <1>1 DEF InMemory, DraftsAreKept, EditedIsLoaded
 <2>5. EditsAreKept'
  <3>1. draft # Missing
   BY DraftsAssumption
  <3>2. ASSUME NEW b \in loaded, NEW d \in Chat
        PROVE  Text(memory'[b][d]) = wanted'[b][d]
   <4>1. Text(memory[b][d]) = wanted[b][d] /\ b \in Account
    BY <1>0 DEF InMemory, DraftsAreKept, EditsAreKept, DraftsShape
   <4>2. CASE b = a /\ d = c
    BY <1>3, <1>4, <3>1, <4>2 DEF Text
   <4>3. CASE ~(b = a /\ d = c)
    <5>1. memory'[b][d] = memory[b][d] /\ wanted'[b][d] = wanted[b][d]
     BY <1>3, <1>4, <4>1, <4>3
    <5> QED BY <4>1, <5>1
   <4> QED BY <4>2, <4>3
  <3> QED BY <3>2 DEF EditsAreKept, Text
 <2> QED BY <2>1, <2>2, <2>3, <2>4, <2>5 DEF InMemory, DraftsAreKept
<1>8. OnDisk'
 <2>1. UnmodifiedAreStored'
  BY <1>0, <1>1, <1>4 DEF OnDisk, UnmodifiedAreStored
 <2>2. SnapshotsAreOfModified' /\ QueuedIsWanted' /\ SkippedIsStored'
  BY <1>0, <1>1 DEF OnDisk, SnapshotsAreOfModified, QueuedIsWanted, SkippedIsStored
 <2>3. LastIsQueued'
  BY <1>0 DEF OnDisk, LastIsQueued, Turn
 <2> QED BY <2>1, <2>2, <2>3 DEF OnDisk
<1> QED BY <1>6, <1>7, <1>8 DEF DraftsInv

LEMMA EventFacts ==
  ASSUME DraftsShape, NEW i \in 1 .. Len(events)
  PROVE  events[i] \in DraftEvent /\ events[i].account \in Account /\ events[i].rows \in Rows
         /\ events[i].kind \in {"drafts", "identity"}
<1>1. events \in Seq(DraftEvent)
 BY DEF DraftsShape
<1>2. events[i] \in DraftEvent
 BY <1>1
<1> QED BY <1>2 DEF DraftEvent

(* What was loaded, or is on its way, stays so when the worker sends more. *)
LEMMA WorkerAnnounces ==
  ASSUME DraftsInv, NEW account \in Account, Identifies(account)
  PROVE  DraftsInv'
<1>0. DraftsShape /\ InMemory /\ OnDisk
 BY DEF DraftsInv
<1>1. UNCHANGED <<memory, loaded, modified, dirty, identity, staging, nextRequest, running, queued,
                  writer, disk, edits, wanted>>
 BY DEF Identifies, appVars, draftBounds
<1>2. OnDisk'
 BY <1>0, <1>1, DiskIsLeft
<1> DEFINE drafts == [kind |-> "drafts", account |-> account, rows |-> disk[account]]
           identified == [kind |-> "identity", account |-> account, rows |-> disk[account]]
<1>3. events \in Seq(DraftEvent) /\ drafts \in DraftEvent /\ identified \in DraftEvent
 BY <1>0 DEF DraftsShape, DraftEvent
<1>4. CASE account \in worker.known
 <2>1. events' = Append(events, identified) /\ UNCHANGED worker
  BY <1>4 DEF Identifies
 <2>2. /\ events' \in Seq(DraftEvent) /\ Len(events') = Len(events) + 1 /\ Len(events) \in Nat
       /\ \A i \in 1 .. Len(events) : events'[i] = events[i]
       /\ events'[Len(events) + 1] = identified
  <3> HIDE DEF identified
  <3> QED BY <1>3, <2>1, OneMore
 <2>3. DraftsShape'
  BY <1>0, <1>1, <2>1, <2>2 DEF DraftsShape
 <2>4. \A a, n : n \in 0 .. Len(events) /\ HasDrafts(events, a, n) => HasDrafts(events', a, n)
  BY <2>2 DEF HasDrafts
 <2>5. HasDrafts(events, account, Len(events)) \/ account \in loaded
  BY <1>0, <1>4 DEF InMemory, KnownAreLoaded
 <2>6. EventsAreTrue'
  <3> SUFFICES ASSUME NEW i \in 1 .. Len(events')
               PROVE  /\ events'[i].kind = "drafts" /\ events'[i].account \notin loaded
                            => events'[i].rows = wanted[events'[i].account]
                      /\ events'[i].kind = "identity" =>
                            events'[i].account \in loaded \/ HasDrafts(events', events'[i].account, i - 1)
   BY <1>1 DEF EventsAreTrue, HasDrafts
  <3>1. CASE i \in 1 .. Len(events)
   <4>1. i - 1 \in 0 .. Len(events) /\ events'[i] = events[i]
    BY <2>2, <3>1
   <4> QED BY <1>0, <2>4, <3>1, <4>1 DEF InMemory, EventsAreTrue
  <3>2. CASE i = Len(events) + 1
   <4>1. i - 1 = Len(events) /\ Len(events) \in 0 .. Len(events) /\ events'[i] = identified
    BY <2>2, <3>2
   <4> QED BY <2>4, <2>5, <4>1
  <3> QED BY <2>2, <3>1, <3>2
 <2>7. KnownAreLoaded'
  <3>1. Len(events) \in 0 .. Len(events)
   BY <2>2
  <3>2. \A a : HasDrafts(events, a, Len(events)) => HasDrafts(events', a, Len(events))
   BY <2>4, <3>1
  <3>3. \A a : HasDrafts(events, a, Len(events)) => \E j \in 1 .. Len(events') :
              events'[j].kind = "drafts" /\ events'[j].account = a
   BY <2>2 DEF HasDrafts
  <3> QED BY <1>0, <1>1, <2>1, <3>3 DEF InMemory, KnownAreLoaded, HasDrafts
 <2>8. UnloadedAreUntouched' /\ DraftsAreKept'
  BY <1>0, <1>1 DEF InMemory, UnloadedAreUntouched, DraftsAreKept, EditsAreKept, EditedIsLoaded,
     Text
 <2> QED BY <1>2, <2>3, <2>6, <2>7, <2>8 DEF DraftsInv, InMemory
<1>5. CASE account \notin worker.known
 <2>1. /\ events' = events \o <<drafts, identified>>
       /\ worker' = [worker EXCEPT !.at = "serving", !.account = account,
                                   !.known = worker.known \cup {account}]
  BY <1>5 DEF Identifies, LoadsDrafts
 <2>2. /\ events' \in Seq(DraftEvent) /\ Len(events') = Len(events) + 2 /\ Len(events) \in Nat
       /\ \A i \in 1 .. Len(events) : events'[i] = events[i]
       /\ events'[Len(events) + 1] = drafts /\ events'[Len(events) + 2] = identified
  <3> HIDE DEF drafts, identified
  <3> QED BY <1>3, <2>1, TwoMore
 <2>3. /\ worker' \in [account : Account, at : {"loading", "serving"}, known : SUBSET Account]
       /\ worker'.known = worker.known \cup {account}
  BY <1>0, <2>1 DEF DraftsShape
 <2>4. DraftsShape'
  BY <1>0, <1>1, <2>2, <2>3 DEF DraftsShape
 <2>5. \A a, n : n \in 0 .. Len(events) /\ HasDrafts(events, a, n) => HasDrafts(events', a, n)
  BY <2>2 DEF HasDrafts
 <2>6. account \notin loaded => disk[account] = wanted[account]
  BY <1>0 DEF InMemory, OnDisk, DraftsAreKept, EditedIsLoaded, UnmodifiedAreStored
 <2>7. EventsAreTrue'
  <3> SUFFICES ASSUME NEW i \in 1 .. Len(events')
               PROVE  /\ events'[i].kind = "drafts" /\ events'[i].account \notin loaded
                            => events'[i].rows = wanted[events'[i].account]
                      /\ events'[i].kind = "identity" =>
                            events'[i].account \in loaded \/ HasDrafts(events', events'[i].account, i - 1)
   BY <1>1 DEF EventsAreTrue, HasDrafts
  <3>1. CASE i \in 1 .. Len(events)
   <4>1. i - 1 \in 0 .. Len(events) /\ events'[i] = events[i]
    BY <2>2, <3>1
   <4> QED BY <1>0, <2>5, <3>1, <4>1 DEF InMemory, EventsAreTrue
  <3>2. CASE i = Len(events) + 1
   BY <2>2, <2>6, <3>2
  <3>3. CASE i = Len(events) + 2
   <4>1. i - 1 = Len(events) + 1 /\ Len(events) + 1 \in 1 .. i - 1 /\ events'[i] = identified
    BY <2>2, <3>3
   <4>2. HasDrafts(events', account, i - 1)
    BY <2>2, <4>1 DEF HasDrafts
   <4> QED BY <4>1, <4>2
  <3> QED BY <2>2, <3>1, <3>2, <3>3
 <2>8. KnownAreLoaded'
  <3>1. \A a : HasDrafts(events, a, Len(events)) => \E j \in 1 .. Len(events') :
              events'[j].kind = "drafts" /\ events'[j].account = a
   BY <2>2 DEF HasDrafts
  <3>2. \E j \in 1 .. Len(events') : events'[j].kind = "drafts" /\ events'[j].account = account
   <4>1. Len(events) + 1 \in 1 .. Len(events')
    BY <2>2
   <4> QED BY <2>2, <4>1
  <3> QED BY <1>0, <1>1, <2>3, <3>1, <3>2 DEF InMemory, KnownAreLoaded, HasDrafts
 <2>9. UnloadedAreUntouched' /\ DraftsAreKept'
  BY <1>0, <1>1 DEF InMemory, UnloadedAreUntouched, DraftsAreKept, EditsAreKept, EditedIsLoaded,
     Text
 <2> QED BY <1>2, <2>4, <2>7, <2>8, <2>9 DEF DraftsInv, InMemory
<1> QED BY <1>4, <1>5

LEMMA TerminalHandles ==
  ASSUME DraftsInv, HandleEvent
  PROVE  DraftsInv'
<1>0. DraftsShape /\ InMemory /\ OnDisk
 BY DEF DraftsInv
<1> DEFINE e == events[1]
<1>1. /\ events # <<>> /\ events' = Tail(events) /\ e = Head(events)
      /\ UNCHANGED <<modified, dirty, staging, nextRequest, running, worker, queued, writer, disk,
                     edits, wanted>>
 BY DEF HandleEvent, draftBounds
<1>2. OnDisk'
 BY <1>0, <1>1, DiskIsLeft
<1>3. /\ events' \in Seq(DraftEvent) /\ Len(events') = Len(events) - 1 /\ Len(events) \in Nat
      /\ Len(events) >= 1 /\ \A i \in 1 .. Len(events') : events'[i] = events[i + 1]
 <2>1. events \in Seq(DraftEvent)
  BY <1>0 DEF DraftsShape
 <2> QED BY <1>1, <2>1, FirstOf
<1>4. e.account \in Account /\ e.rows \in Rows
 <2>1. 1 \in 1 .. Len(events)
  BY <1>3
 <2> QED BY <1>0, <2>1, EventFacts
<1>5. /\ e.kind = "drafts" /\ e.account \notin loaded => e.rows = wanted[e.account]
      /\ e.kind = "identity" => e.account \in loaded
 <2>1. 1 \in 1 .. Len(events)
  BY <1>3
 <2>2. \A a : ~HasDrafts(events, a, 1 - 1)
  BY DEF HasDrafts
 <2> QED BY <1>0, <2>1, <2>2 DEF InMemory, EventsAreTrue
<1>6. \/ /\ e.kind = "drafts" /\ RestoreDrafts(e.account, e.rows) /\ UNCHANGED identity
      \/ /\ e.kind = "identity" /\ identity' = e.account /\ UNCHANGED <<memory, loaded>>
 BY <1>1 DEF HandleEvent
<1>7. loaded \subseteq loaded' /\ loaded' \subseteq Account /\ (e.kind = "drafts" => e.account \in loaded')
      /\ loaded' \subseteq loaded \cup {e.account}
 BY <1>0, <1>4, <1>6 DEF RestoreDrafts, DraftsShape
<1>8. ASSUME NEW a, NEW n \in 1 .. Len(events), HasDrafts(events, a, n)
      PROVE  a \in loaded' \/ HasDrafts(events', a, n - 1)
 <2>1. PICK j \in 1 .. n : events[j].kind = "drafts" /\ events[j].account = a
  BY <1>8 DEF HasDrafts
 <2>2. CASE j = 1
  BY <1>7, <2>1, <2>2
 <2>3. CASE j # 1
  <3>1. j - 1 \in 1 .. n - 1 /\ j - 1 \in 1 .. Len(events') /\ j - 1 + 1 = j
   BY <1>3, <2>3
  <3>2. events'[j - 1] = events[j]
   BY <1>3, <3>1
  <3> QED BY <2>1, <3>1, <3>2 DEF HasDrafts
 <2> QED BY <2>2, <2>3
<1>9. EventsAreTrue'
 <2> SUFFICES ASSUME NEW i \in 1 .. Len(events')
              PROVE  /\ events'[i].kind = "drafts" /\ events'[i].account \notin loaded'
                           => events'[i].rows = wanted[events'[i].account]
                     /\ events'[i].kind = "identity" =>
                           events'[i].account \in loaded' \/ HasDrafts(events', events'[i].account, i - 1)
  BY <1>1 DEF EventsAreTrue, HasDrafts
 <2>1. i + 1 \in 1 .. Len(events) /\ i \in 1 .. Len(events) /\ (i + 1) - 1 = i
       /\ events'[i] = events[i + 1]
  BY <1>3
 <2>2. /\ events'[i].kind = "drafts" /\ events'[i].account \notin loaded
             => events'[i].rows = wanted[events'[i].account]
       /\ events'[i].kind = "identity" =>
             events'[i].account \in loaded \/ HasDrafts(events, events'[i].account, i)
  BY <1>0, <2>1 DEF InMemory, EventsAreTrue
 <2>3. HasDrafts(events, events'[i].account, i) =>
           events'[i].account \in loaded' \/ HasDrafts(events', events'[i].account, i - 1)
  BY <1>8, <2>1
 <2> QED BY <1>7, <2>2, <2>3
<1>10. KnownAreLoaded'
 <2>1. \A a \in worker.known : a \in loaded' \/ \E j \in 1 .. Len(events') :
           events'[j].kind = "drafts" /\ events'[j].account = a
  <3> TAKE a \in worker.known
  <3>1. a \in loaded \/ HasDrafts(events, a, Len(events))
   BY <1>0 DEF InMemory, KnownAreLoaded
  <3>2. Len(events) \in 1 .. Len(events) /\ Len(events) - 1 = Len(events')
   BY <1>3
  <3>3. HasDrafts(events, a, Len(events)) => a \in loaded' \/ HasDrafts(events', a, Len(events) - 1)
   BY <1>8, <3>2
  <3> QED BY <1>7, <3>1, <3>2, <3>3 DEF HasDrafts
 <2>2. identity' # NoAccount => identity' \in loaded'
  BY <1>0, <1>5, <1>6, <1>7 DEF InMemory, KnownAreLoaded
 <2> QED BY <1>0, <1>1, <1>7, <2>1, <2>2 DEF InMemory, KnownAreLoaded, HasDrafts
<1>11. CASE \/ e.kind = "identity" /\ UNCHANGED <<memory, loaded>> /\ identity' = e.account
            \/ e.account \in loaded /\ UNCHANGED <<memory, loaded, identity>>
 <2>1. DraftsShape'
  BY <1>0, <1>1, <1>3, <1>4, <1>11 DEF DraftsShape
 <2>2. UnloadedAreUntouched' /\ DraftsAreKept'
  BY <1>0, <1>1, <1>11 DEF InMemory, UnloadedAreUntouched, DraftsAreKept, EditsAreKept,
     EditedIsLoaded, Text
 <2> QED BY <1>2, <1>9, <1>10, <2>1, <2>2 DEF DraftsInv, InMemory
<1>12. CASE e.kind = "drafts" /\ e.account \notin loaded
 <2> DEFINE a == e.account
 <2>1. /\ memory' = [memory EXCEPT ![a] = [c \in Chat |->
             IF memory[a][c] = Missing /\ e.rows[c] # Empty THEN e.rows[c] ELSE memory[a][c]]]
       /\ loaded' = loaded \cup {a} /\ UNCHANGED identity
  BY <1>6, <1>12 DEF RestoreDrafts
 <2>2. memory \in [Account -> [Chat -> {Missing} \cup 0 .. MaxEdits]] /\ e.rows \in [Chat -> 0 .. MaxEdits]
  BY <1>0, <1>4 DEF DraftsShape, Rows
 <2>3. \A c \in Chat : memory[a][c] = Missing
  BY <1>0, <1>4, <1>12 DEF InMemory, UnloadedAreUntouched
 <2> DEFINE row == [c \in Chat |->
               IF memory[a][c] = Missing /\ e.rows[c] # Empty THEN e.rows[c] ELSE memory[a][c]]
 <2>4. /\ memory' \in [Account -> [Chat -> {Missing} \cup 0 .. MaxEdits]]
       /\ \A b \in Account : b # a => memory'[b] = memory[b]
       /\ \A c \in Chat : memory'[a][c] = IF e.rows[c] # Empty THEN e.rows[c] ELSE Missing
  <3>1. row \in [Chat -> {Missing} \cup 0 .. MaxEdits]
        /\ \A c \in Chat : row[c] = IF e.rows[c] # Empty THEN e.rows[c] ELSE Missing
   BY <1>4, <2>2, <2>3
  <3>2. memory' = [memory EXCEPT ![a] = row]
   BY <2>1
  <3>3. a \in Account
   BY <1>4
  <3> HIDE DEF a, row
  <3> QED BY <2>2, <3>1, <3>2, <3>3
 <2>5. DraftsShape'
  BY <1>0, <1>1, <1>3, <1>7, <2>1, <2>4 DEF DraftsShape
 <2>6. UnloadedAreUntouched'
  BY <1>0, <2>1, <2>4 DEF InMemory, UnloadedAreUntouched
 <2>7. EditedIsLoaded'
  BY <1>0, <1>1, <1>7 DEF InMemory, DraftsAreKept, EditedIsLoaded
 <2>8. EditsAreKept'
  <3>1. ASSUME NEW b \in loaded', NEW c \in Chat
        PROVE  Text(memory'[b][c]) = wanted[b][c]
   <4>1. CASE b = a
    <5>1. e.rows[c] = wanted[a][c] /\ e.rows[c] \in Nat
     BY <1>5, <1>12, <2>2
    <5>2. memory'[b][c] = IF e.rows[c] # Empty THEN e.rows[c] ELSE Missing
     BY <2>4, <4>1
    <5>3. e.rows[c] # Missing
     BY <5>1, DraftsAssumption
    <5> QED BY <4>1, <5>1, <5>2, <5>3 DEF Text
   <4>2. CASE b # a
    <5>1. b \in loaded /\ b \in Account
     BY <1>7, <2>1, <4>2
    <5> QED BY <1>0, <2>4, <4>2, <5>1 DEF InMemory, DraftsAreKept, EditsAreKept
   <4> QED BY <4>1, <4>2
  <3> QED BY <1>1, <3>1 DEF EditsAreKept, Text
 <2> QED BY <1>2, <1>9, <1>10, <2>5, <2>6, <2>7, <2>8 DEF DraftsInv, InMemory, DraftsAreKept
<1> QED
 <2>1. CASE e.kind = "drafts" /\ e.account \in loaded
  <3>1. UNCHANGED <<memory, identity>> /\ loaded' = loaded
   BY <1>6, <2>1 DEF RestoreDrafts
  <3> QED BY <1>11, <2>1, <3>1
 <2> QED BY <1>6, <1>11, <1>12, <2>1

(* The snapshot of a turn is what the user wrote. *)
LEMMA SnapshotIsWanted ==
  ASSUME DraftsInv
  PROVE  /\ Snapshot \in Snapshots /\ DOMAIN Snapshot = modified
         /\ \A a \in modified : Snapshot[a] = wanted[a]
<1>0. DraftsShape /\ modified \subseteq loaded /\ EditsAreKept
 BY DEF DraftsInv, InMemory, DraftsAreKept, EditedIsLoaded
<1>1. DOMAIN Snapshot = modified /\ modified \subseteq Account
 BY <1>0 DEF Snapshot, DraftsShape
<1>2. ASSUME NEW a \in modified
      PROVE  Snapshot[a] = wanted[a] /\ wanted[a] \in Rows
 <2>1. wanted[a] \in [Chat -> 0 .. MaxEdits]
  BY <1>0, <1>1 DEF DraftsShape, Rows
 <2>2. Snapshot[a] = [c \in Chat |-> Text(memory[a][c])]
  BY <1>0 DEF Snapshot
 <2>3. \A c \in Chat : Text(memory[a][c]) = wanted[a][c]
  BY <1>0 DEF EditsAreKept
 <2> QED BY <2>1, <2>2, <2>3 DEF Rows
<1>3. Snapshot \in [modified -> Rows]
 <2>1. Snapshot = [a \in modified |-> Snapshot[a]]
  BY <1>0, <1>1 DEF Snapshot
 <2> QED BY <1>2, <2>1
<1> QED BY <1>1, <1>2, <1>3 DEF Snapshots

(* It is queued, in the middle of the program or at its end. *)
LEMMA SnapshotIsQueued ==
  ASSUME DraftsInv, running = "running", dirty' = FALSE,
         \/ dirty /\ queued' = [snapshot |-> Snapshot, unseen |-> TRUE]
         \/ ~dirty /\ UNCHANGED queued,
         running' \in {"running", "closing"},
         UNCHANGED <<memory, loaded, modified, identity, staging, nextRequest, worker, events,
                     writer, disk, edits, wanted>>
  PROVE  DraftsInv'
<1>0. DraftsShape /\ InMemory /\ OnDisk
 BY DEF DraftsInv
<1>1. queued' \in [snapshot : Snapshots, unseen : BOOLEAN]
      /\ (dirty => queued'.snapshot = Snapshot)
 <2>1. CASE dirty
  <3>1. Snapshot \in Snapshots
   BY SnapshotIsWanted
  <3>2. queued' = [snapshot |-> Snapshot, unseen |-> TRUE]
   BY <2>1
  <3> QED BY <3>1, <3>2
 <2>2. CASE ~dirty
  BY <1>0, <2>2 DEF DraftsShape
 <2> QED BY <1>0, <2>1, <2>2 DEF DraftsShape
<1>2. DraftsShape'
 BY <1>0, <1>1 DEF DraftsShape
<1>3. InMemory'
 BY <1>0, MemoryIsLeft
<1>4. UnmodifiedAreStored' /\ SkippedIsStored'
 BY <1>0 DEF OnDisk, UnmodifiedAreStored, SkippedIsStored
<1>5. SnapshotsAreOfModified' /\ QueuedIsWanted'
 BY <1>0, <1>1, SnapshotIsWanted DEF OnDisk, SnapshotsAreOfModified, QueuedIsWanted
<1>6. LastIsQueued'
 BY <1>0 DEF OnDisk, LastIsQueued
<1> QED BY <1>2, <1>3, <1>4, <1>5, <1>6 DEF DraftsInv, OnDisk

LEMMA WriterWrites ==
  ASSUME DraftsInv, Writer
  PROVE  DraftsInv'
<1>0. DraftsShape /\ InMemory /\ OnDisk
 BY DEF DraftsInv
<1>1. UNCHANGED <<memory, loaded, modified, dirty, identity, staging, nextRequest, worker, events,
                  edits, wanted>>
 BY DEF Writer, Borrow, LastSave, SaveSucceeds, SaveFails, WriterOnly, appVars
<1>2. InMemory'
 BY <1>0, <1>1, MemoryIsLeft
<1>w. /\ writer \in [at : {"waiting", "saving", "retrying", "last", "finished", "failed"},
                     snapshot : Snapshots, previous : Snapshots]
      /\ queued \in [snapshot : Snapshots, unseen : BOOLEAN]
 BY <1>0 DEF DraftsShape
<1>3. CASE Borrow
 <2>1. /\ writer.at \in {"waiting", "retrying"}
       /\ writer' = [writer EXCEPT !.at = "saving", !.snapshot = queued.snapshot]
       /\ queued' = [queued EXCEPT !.unseen = FALSE]
       /\ UNCHANGED <<running, disk>>
  BY <1>3 DEF Borrow
 <2>2. /\ writer' \in [at : {"waiting", "saving", "retrying", "last", "finished", "failed"},
                       snapshot : Snapshots, previous : Snapshots]
       /\ writer'.at = "saving" /\ writer'.snapshot = queued.snapshot
       /\ writer'.previous = writer.previous
       /\ queued' \in [snapshot : Snapshots, unseen : BOOLEAN]
       /\ queued'.snapshot = queued.snapshot
  BY <1>w, <2>1
 <2>3. DraftsShape'
  BY <1>0, <1>1, <2>1, <2>2 DEF DraftsShape
 <2>4. OnDisk'
  BY <1>0, <1>1, <2>1, <2>2 DEF OnDisk, UnmodifiedAreStored, SnapshotsAreOfModified,
     QueuedIsWanted, LastIsQueued, SkippedIsStored
 <2> QED BY <1>2, <2>3, <2>4 DEF DraftsInv
<1>4. CASE LastSave
 <2>1. /\ running = "closing"
       /\ writer' = [writer EXCEPT !.at = "last", !.snapshot = queued.snapshot]
       /\ UNCHANGED <<running, disk, queued>>
  BY <1>4 DEF LastSave
 <2>2. /\ writer' \in [at : {"waiting", "saving", "retrying", "last", "finished", "failed"},
                       snapshot : Snapshots, previous : Snapshots]
       /\ writer'.at = "last" /\ writer'.snapshot = queued.snapshot
       /\ writer'.previous = writer.previous
  BY <1>w, <2>1
 <2>3. DraftsShape'
  BY <1>0, <1>1, <2>1, <2>2 DEF DraftsShape
 <2>4. OnDisk'
  BY <1>0, <1>1, <2>1, <2>2 DEF OnDisk, UnmodifiedAreStored, SnapshotsAreOfModified,
     QueuedIsWanted, LastIsQueued, SkippedIsStored
 <2> QED BY <1>2, <2>3, <2>4 DEF DraftsInv
<1>5. CASE SaveFails
 <2>1. /\ \/ writer' = [writer EXCEPT !.at = "failed"] /\ running' = "exited"
             /\ (writer.at = "last" \/ running = "closing")
          \/ writer' = [writer EXCEPT !.at = "retrying"] /\ UNCHANGED running
             /\ writer.at # "last"
       /\ UNCHANGED <<disk, queued>>
  BY <1>5 DEF SaveFails
 <2>2. /\ writer' \in [at : {"waiting", "saving", "retrying", "last", "finished", "failed"},
                       snapshot : Snapshots, previous : Snapshots]
       /\ writer'.at \in {"failed", "retrying"} /\ writer'.snapshot = writer.snapshot
       /\ writer'.previous = writer.previous
  BY <1>w, <2>1
 <2>3. running' \in {running, "exited"} /\ (running' # "running" => ~dirty)
  BY <1>0, <2>1 DEF OnDisk, LastIsQueued
 <2>4. DraftsShape'
  BY <1>0, <1>1, <2>1, <2>2, <2>3 DEF DraftsShape
 <2>5. OnDisk'
  BY <1>0, <1>1, <2>1, <2>2, <2>3 DEF OnDisk, UnmodifiedAreStored, SnapshotsAreOfModified,
     QueuedIsWanted, LastIsQueued, SkippedIsStored
 <2> QED BY <1>2, <2>4, <2>5 DEF DraftsInv
<1>6. CASE SaveSucceeds
 <2> DEFINE s == writer.snapshot
            p == writer.previous
 <2>1. /\ writer.at \in {"saving", "last"}
       /\ disk' = Saved(s, p)
       /\ writer' = [writer EXCEPT !.at = IF writer.at = "last" THEN "finished" ELSE "waiting",
                                   !.previous = s]
       /\ running' = IF writer.at = "last" THEN "exited" ELSE running
       /\ UNCHANGED queued
  BY <1>6 DEF SaveSucceeds
 <2>2. /\ writer' \in [at : {"waiting", "saving", "retrying", "last", "finished", "failed"},
                       snapshot : Snapshots, previous : Snapshots]
       /\ writer'.at = IF writer.at = "last" THEN "finished" ELSE "waiting"
       /\ writer'.snapshot = s /\ writer'.previous = s
  BY <1>w, <2>1
 <2>3. DOMAIN s \subseteq modified /\ DOMAIN s \subseteq Account /\ \A a \in DOMAIN s : s[a] \in Rows
  <3>1. s \in Snapshots
   BY <1>w
  <3>2. DOMAIN s \subseteq modified
   BY <1>0 DEF OnDisk, SnapshotsAreOfModified
  <3> HIDE DEF s
  <3> QED BY <3>1, <3>2, SnapshotFacts
 <2>4. /\ disk' \in [Account -> Rows]
       /\ \A a \in Account : disk'[a] = IF a \in DOMAIN s THEN s[a] ELSE disk[a]
  <3>1. \A a \in Account : Same(a, s, p) => disk[a] = s[a]
   BY <1>0 DEF OnDisk, SkippedIsStored, Same
  <3>2. disk \in [Account -> Rows]
   BY <1>0 DEF DraftsShape
  <3>3. disk' = [a \in Account |-> IF a \in DOMAIN s /\ ~Same(a, s, p) THEN s[a] ELSE disk[a]]
   BY <2>1 DEF Saved
  <3> HIDE DEF s, p
  <3>4. \A a \in Account : disk'[a] = IF a \in DOMAIN s THEN s[a] ELSE disk[a]
   BY <3>1, <3>3
  <3> QED BY <2>3, <3>2, <3>3, <3>4
 <2>5. DraftsShape'
  BY <1>0, <1>1, <2>1, <2>2, <2>4 DEF DraftsShape
 <2>6. UnmodifiedAreStored'
  BY <1>0, <1>1, <2>3, <2>4 DEF OnDisk, UnmodifiedAreStored
 <2>7. SkippedIsStored'
  BY <2>2, <2>3, <2>4 DEF SkippedIsStored
 <2>8. SnapshotsAreOfModified' /\ QueuedIsWanted'
  BY <1>0, <1>1, <2>1, <2>2 DEF OnDisk, SnapshotsAreOfModified, QueuedIsWanted
 <2>9. LastIsQueued'
  <3>1. CASE writer.at = "last"
   <4>1. s = queued.snapshot /\ running = "closing" /\ ~dirty
    BY <1>0, <3>1 DEF OnDisk, LastIsQueued
   <4>2. \A a \in modified : a \in DOMAIN s /\ s[a] = wanted[a]
    BY <1>0, <4>1 DEF OnDisk, QueuedIsWanted
   <4>3. \A a \in Account : disk'[a] = wanted[a]
    BY <1>0, <2>3, <2>4, <4>2 DEF OnDisk, UnmodifiedAreStored
   <4>4. disk' = wanted
    BY <1>0, <2>4, <4>3 DEF DraftsShape
   <4> QED BY <1>1, <2>1, <2>2, <3>1, <4>1, <4>4 DEF LastIsQueued
  <3>2. CASE writer.at # "last"
   BY <1>0, <1>1, <2>1, <2>2, <3>2 DEF OnDisk, LastIsQueued
  <3> QED BY <3>1, <3>2
 <2> QED BY <1>2, <2>5, <2>6, <2>7, <2>8, <2>9 DEF DraftsInv, OnDisk
<1> QED BY <1>3, <1>4, <1>5, <1>6 DEF Writer

LEMMA AskedStays ==
  ASSUME SomeoneAsked, [DraftsNext]_draftVars
  PROVE  SomeoneAsked'
<1>1. CASE PrepareAttachments
 BY <1>1 DEF PrepareAttachments, SomeoneAsked, NoStaging
<1>2. CASE ~PrepareAttachments
 <2>1. preparing' \subseteq preparing
  BY <1>2 DEF DraftsNext, draftVars, appVars, draftBounds, Identifies, HandleEvent, Edit,
     CancelPreparation, AttachmentsPrepared, QueueSnapshot, SwitchAccount,
     Quit, Crash, Writer, Borrow, LastSave, SaveSucceeds, SaveFails, WriterOnly
 <2> QED BY <2>1 DEF SomeoneAsked
<1> QED BY <1>1, <1>2

LEMMA DraftsSteps == SomeoneAsked /\ DraftsInv /\ [DraftsNext]_draftVars => DraftsInv'
<1> SUFFICES ASSUME SomeoneAsked, DraftsInv, [DraftsNext]_draftVars PROVE DraftsInv'
 OBVIOUS
<1>0. DraftsShape /\ InMemory /\ OnDisk
 BY DEF DraftsInv
<1>1. CASE UNCHANGED draftVars
 <2>1. UNCHANGED <<memory, loaded, modified, dirty, identity, staging, nextRequest, running, worker,
                   events, queued, writer, disk, edits, wanted>>
  BY <1>1 DEF draftVars, appVars, draftBounds
 <2>2. DraftsShape'
  BY <1>0, <2>1 DEF DraftsShape
 <2> QED BY <1>0, <2>1, <2>2, MemoryIsLeft, DiskIsLeft DEF DraftsInv
<1>2. CASE running = "running" /\ \E account \in Account : Identifies(account)
 BY <1>2, WorkerAnnounces
<1>3. CASE HandleEvent
 BY <1>3, TerminalHandles
<1>4. CASE Edit
 <2>1. identity \in loaded
  BY <1>0, <1>4 DEF Edit, InMemory, KnownAreLoaded
 <2>2. PICK chat \in Chat, draft \in {Empty, edits + 1} : Edits(identity, chat, draft)
  BY <1>4 DEF Edit
 <2>3. draft \in 0 .. MaxEdits
  BY <1>0, <2>2, DraftsAssumption DEF Empty, Edits, DraftsShape
 <2>4. Turn /\ UNCHANGED <<loaded, identity, staging, nextRequest, running, worker, events, queued,
                           writer, disk>>
  BY <1>4 DEF Edit
 <2> QED BY <2>1, <2>2, <2>3, <2>4, EditKeeps
<1>5. CASE PrepareAttachments \/ CancelPreparation
 <2>1. /\ UNCHANGED <<memory, loaded, modified, dirty, identity, running, worker, events, queued,
                      writer, disk, edits, wanted>>
       /\ nextRequest' \in {nextRequest, nextRequest + 1}
       /\ \/ staging' = [account |-> identity, id |-> nextRequest + 1] /\ identity # NoAccount
          \/ staging' = NoStaging
  BY <1>5 DEF PrepareAttachments, CancelPreparation, draftBounds
 <2>2. nextRequest' \in Nat /\ staging' \in [account : Account \cup {NoAccount}, id : Nat]
  BY <1>0, <2>1 DEF DraftsShape, NoStaging
 <2>3. DraftsShape'
  BY <1>0, <2>1, <2>2 DEF DraftsShape
 <2>4. KnownAreLoaded'
  BY <1>0, <2>1 DEF InMemory, KnownAreLoaded
 <2>5. InMemory'
  BY <1>0, <2>1, <2>4 DEF InMemory, EventsAreTrue, UnloadedAreUntouched, DraftsAreKept,
     EditsAreKept, EditedIsLoaded, Text
 <2> QED BY <1>0, <2>1, <2>3, <2>5, DiskIsLeft DEF DraftsInv
<1>6. ASSUME NEW request \in preparing, AttachmentsPrepared(request)
      PROVE  DraftsInv'
 <2>1. Turn /\ UNCHANGED <<loaded, identity, nextRequest, running, worker, events, queued, writer,
                           disk>>
  BY <1>6 DEF AttachmentsPrepared
 <2>2. CASE staging = request /\ staging # NoStaging
  <3>1. request.account \in loaded
   BY <1>0, <2>2 DEF InMemory, KnownAreLoaded
  <3>2. PICK chat \in Chat : Edits(request.account, chat, edits + 1)
   BY <1>6, <2>2 DEF AttachmentsPrepared
  <3>3. edits + 1 \in 0 .. MaxEdits /\ staging' \in {staging, NoStaging}
   BY <1>0, <1>6, <2>2, <3>2, DraftsAssumption DEF AttachmentsPrepared, DraftsShape, Edits
  <3> QED BY <2>1, <3>1, <3>2, <3>3, EditKeeps
 <2>3. CASE staging # request
  <3>1. UNCHANGED <<memory, modified, dirty, staging, edits, wanted>>
   BY <1>6, <2>3 DEF AttachmentsPrepared
  <3>2. DraftsShape'
   BY <1>0, <2>1, <3>1 DEF DraftsShape
  <3> QED BY <1>0, <2>1, <3>1, <3>2, MemoryIsLeft, DiskIsLeft DEF DraftsInv
 <2> QED BY <1>6, <2>2, <2>3 DEF SomeoneAsked
<1>7. CASE QueueSnapshot \/ Quit
 BY <1>7, SnapshotIsQueued DEF QueueSnapshot, Quit, draftBounds
<1>8. CASE SwitchAccount
 <2>1. /\ UNCHANGED <<memory, loaded, modified, dirty, running, queued, writer, disk, edits, wanted>>
       /\ identity' = NoAccount /\ staging' = NoStaging /\ nextRequest' = 0
       /\ events' = <<>> /\ Len(events') = 0 /\ events' \in Seq(DraftEvent)
  BY <1>8 DEF SwitchAccount
 <2>2. worker' \in [account : Account, at : {"loading", "serving"}, known : SUBSET Account]
       /\ worker'.known = {}
  BY <1>8 DEF SwitchAccount, Started
 <2>3. staging' \in [account : Account \cup {NoAccount}, id : Nat]
  BY <2>1 DEF NoStaging
 <2>4. DraftsShape'
  BY <1>0, <2>1, <2>2, <2>3 DEF DraftsShape
 <2>5. EventsAreTrue' /\ KnownAreLoaded'
  BY <2>1, <2>2 DEF EventsAreTrue, KnownAreLoaded
 <2>6. UnloadedAreUntouched' /\ DraftsAreKept'
  BY <1>0, <2>1 DEF InMemory, UnloadedAreUntouched, DraftsAreKept, EditsAreKept, EditedIsLoaded,
     Text
 <2> QED BY <1>0, <2>1, <2>4, <2>5, <2>6, DiskIsLeft DEF DraftsInv, InMemory
<1>9. CASE Crash
 <2>1. /\ memory' = [a \in Account |-> [c \in Chat |-> Missing]]
       /\ wanted' = disk /\ UNCHANGED <<disk, edits>>
       /\ loaded' = {} /\ modified' = {} /\ dirty' = FALSE /\ identity' = NoAccount
       /\ staging' = NoStaging /\ nextRequest' = 0 /\ running' = "running"
       /\ events' = <<>> /\ Len(events') = 0 /\ events' \in Seq(DraftEvent)
       /\ queued' = [snapshot |-> Nowhere, unseen |-> FALSE]
       /\ writer' = [at |-> "waiting", snapshot |-> Nowhere, previous |-> Nowhere]
  BY <1>9 DEF Crash
 <2>2. worker' \in [account : Account, at : {"loading", "serving"}, known : SUBSET Account]
       /\ worker'.known = {}
  BY <1>9 DEF Crash, Started
 <2>3. staging' \in [account : Account \cup {NoAccount}, id : Nat]
  BY <2>1 DEF NoStaging
 <2>4. /\ queued' \in [snapshot : Snapshots, unseen : BOOLEAN]
       /\ writer' \in [at : {"waiting", "saving", "retrying", "last", "finished", "failed"},
                       snapshot : Snapshots, previous : Snapshots]
       /\ DOMAIN queued'.snapshot = {} /\ DOMAIN writer'.snapshot = {}
       /\ DOMAIN writer'.previous = {} /\ writer'.at = "waiting"
  BY <2>1, NowhereIsSnapshot
 <2>5. memory' \in [Account -> [Chat -> {Missing} \cup 0 .. MaxEdits]]
  BY <2>1
 <2>6. DraftsShape'
  BY <1>0, <2>1, <2>2, <2>3, <2>4, <2>5 DEF DraftsShape
 <2>7. EventsAreTrue' /\ KnownAreLoaded'
  BY <2>1, <2>2 DEF EventsAreTrue, KnownAreLoaded
 <2>8. UnloadedAreUntouched' /\ DraftsAreKept'
  BY <2>1 DEF UnloadedAreUntouched, DraftsAreKept, EditsAreKept, EditedIsLoaded
 <2>9. OnDisk'
  BY <2>1, <2>4 DEF OnDisk, UnmodifiedAreStored, SnapshotsAreOfModified, QueuedIsWanted,
     LastIsQueued, SkippedIsStored
 <2> QED BY <2>6, <2>7, <2>8, <2>9 DEF DraftsInv, InMemory
<1>10. CASE Writer
 BY <1>10, WriterWrites
<1> QED BY <1>1, <1>2, <1>3, <1>4, <1>5, <1>6, <1>7, <1>8, <1>9, <1>10 DEF DraftsNext

(* NoDraftIsLost, for any accounts, chats, edits, switches, failed saves and crashes:
   no restored draft replaces an edit (app/drafts.rs:30), none is left out of a
   snapshot, and what the writer takes for saved, at the end of the program above all,
   is in the file (Writer::finish). *)
THEOREM DraftsAreNotLost == DraftsSpec => []NoDraftIsLost
<1>1. DraftsInit => DraftsInv
 BY DraftsBegin
<1>2. SomeoneAsked /\ DraftsInv /\ [DraftsNext]_draftVars => DraftsInv'
 BY DraftsSteps
<1>4. DraftsInit => SomeoneAsked
 BY DEF DraftsInit, SomeoneAsked
<1>5. SomeoneAsked /\ [DraftsNext]_draftVars => SomeoneAsked'
 BY AskedStays
<1>3. DraftsInv => NoDraftIsLost
 BY DEF DraftsInv, InMemory, OnDisk, LastIsQueued, NoDraftIsLost, DraftsReachDisk, SavedAtExit
<1> QED BY <1>1, <1>2, <1>3, <1>4, <1>5, PTL DEF DraftsSpec

-----------------------------------------------------------------------------
(* Commands and the queue.                                                   *)

Commands == {"phone", "code", "password", "qr", "restart", "shutdown"}
Quiet(q) == \A i \in 1..Len(q) : q[i] # "restart"

LEMMA FirstFound ==
  ASSUME NEW q \in Seq(Commands), Found(q) # {}
  PROVE  First(q) \in Found(q)
<1>1. Found(q) \subseteq Nat
 BY DEF Found
<1>2. \E x \in Found(q) : \A y \in Found(q) : ~ (<<y, x>> \in OpToRel(<, Nat))
 BY <1>1, WFMin, NatLessThanWellFounded, Zenon
<1>3. \A x, y \in Nat : x <= y \/ <<y, x>> \in OpToRel(<, Nat)
 <2>1. \A x, y \in Nat : y < x => <<y, x>> \in OpToRel(<, Nat)
  BY Zenon DEF OpToRel
 <2>2. \A x, y \in Nat : x <= y \/ y < x
  OBVIOUS
 <2> QED BY <2>1, <2>2, Zenon
<1>4. \E x \in Found(q) : \A y \in Found(q) : x <= y
 BY <1>1, <1>2, <1>3, Zenon
<1> QED BY <1>4 DEF First

(* An interruption is a restart or a shutdown; where there is none, no command
   of the queue is a restart. *)
LEMMA InterruptionFacts ==
  ASSUME NEW q \in Seq(Commands)
  PROVE  /\ Interruption(q) \in {"none", "restart", "shutdown"}
         /\ Interruption(q) = "none" => Quiet(q)
         /\ AfterInterruption(q) \in Seq(Commands)
<1>1. CASE Found(q) = {}
 <2>1. <<>> \in Seq(Commands)
  OBVIOUS
 <2> QED BY <1>1, <2>1 DEF Interruption, AfterInterruption, Found, Quiet, Interrupting
<1>2. CASE Found(q) # {}
 <2>1. First(q) \in 1..Len(q) /\ q[First(q)] \in Interrupting
  BY <1>2, FirstFound DEF Found
 <2>2. \A m \in 1..Len(q) : SubSeq(q, m + 1, Len(q)) \in Seq(Commands)
  <3> SUFFICES ASSUME NEW m \in 1..Len(q) PROVE SubSeq(q, m + 1, Len(q)) \in Seq(Commands)
   OBVIOUS
  <3> QED OBVIOUS
 <2> QED BY <1>2, <2>1, <2>2 DEF Interruption, AfterInterruption, Interrupting
<1> QED BY <1>1, <1>2

LEMMA SequenceFacts ==
  ASSUME NEW q \in Seq(Commands)
  PROVE  /\ \A c \in Commands : Append(q, c) \in Seq(Commands)
         /\ \A c \in Commands : Quiet(q) /\ c # "restart" => Quiet(Append(q, c))
         /\ q # <<>> => /\ Head(q) \in Commands /\ Tail(q) \in Seq(Commands)
                        /\ Quiet(q) => Quiet(Tail(q)) /\ Head(q) # "restart"
         /\ \A c \in Commands : <<c>> \o q \in Seq(Commands)
         /\ \A c \in Commands : Quiet(q) /\ c # "restart" => Quiet(<<c>> \o q)
<1>1. \A c \in Commands : Append(q, c) \in Seq(Commands)
 OBVIOUS
<1>2. \A c \in Commands : Quiet(q) /\ c # "restart" => Quiet(Append(q, c))
 BY DEF Quiet
<1>3. q # <<>> => /\ Head(q) \in Commands /\ Tail(q) \in Seq(Commands)
                  /\ Quiet(q) => Quiet(Tail(q)) /\ Head(q) # "restart"
 BY DEF Quiet
<1>4. \A c \in Commands : <<c>> \in Seq(Commands) /\ Len(<<c>>) = 1 /\ <<c>>[1] = c
 OBVIOUS
<1>5. \A c \in Commands : <<c>> \o q \in Seq(Commands)
 BY <1>4
<1>6. \A c \in Commands : Quiet(q) /\ c # "restart" => Quiet(<<c>> \o q)
 BY <1>4 DEF Quiet
<1> QED BY <1>1, <1>2, <1>3, <1>5, <1>6

-----------------------------------------------------------------------------
(* The invariant.                                                            *)

QueuesType ==
    sent \in Seq(Commands) /\ pending \in Seq(Commands) /\ queue \in Seq(Commands)

(* A worker that has not looked at its session yet has told nothing, so that the
   terminal gave no command but a shutdown. *)
NothingLeftYet ==
    at = "connecting" =>
        /\ screen \in {"connecting", "exited"} /\ news = <<>>
        /\ Quiet(sent) /\ Quiet(pending) /\ Quiet(queue)

(* Where the data centres stand: only a token that moves has a target, and that
   is another data centre than the session's. *)
TargetKnown ==
    /\ home \in Dc
    /\ at = "importing" => target \in Dc \ {home}
    /\ at \notin {"importing", "stopped"} => target = NoDc

(* Who is authorized, wherever the worker is and whatever was answered to it: a
   sign-in goes on only without an authorization, it ends with one, and an answer
   that asks for more was given by a data centre without one. *)
SignedOut ==
    /\ at \in Prompts \cup {"asking", "round", "importing", "loading"} => home \notin authorized
    /\ at \in {"signing", "checking"} /\ answer # "ok" => home \notin authorized
    /\ at = "exporting" /\ answer # "success" => home \notin authorized
    /\ at = "cancelling" /\ answer = "ok" => home \notin authorized

SignedIn ==
    /\ at \in {"signing", "checking"} /\ answer = "ok" => home \in authorized
    /\ at \in {"naming", "completing"} => home \in authorized
    /\ at \in {"exporting", "importing"} /\ answer = "success" => Place \in authorized

TokenUnused ==
    at \in {"exporting", "importing"}
        /\ answer \in {"same_token", "new_token", "migrate", "needs_password", "outdated"}
    => Place \notin authorized

AnswerOfACall == answer # "none" => at \in Calls \cup {"stopped"}

SignInInv == TargetKnown /\ SignedOut /\ SignedIn /\ TokenUnused /\ AnswerOfACall

SessionInv == QueuesType /\ NothingLeftYet /\ SignInInv

-----------------------------------------------------------------------------
(* It holds at first, and every step keeps it.                               *)

LEMMA SessionInvInit == SessionInit => SessionInv
<1> SUFFICES ASSUME SessionInit PROVE SessionInv
 OBVIOUS
<1>1. QueuesType
 BY DEF SessionInit, QueuesType
<1>2. NothingLeftYet
 BY DEF SessionInit, NothingLeftYet, Quiet
<1>3. TargetKnown
 BY DEF SessionInit, TargetKnown
<1>4. SignedOut /\ SignedIn /\ TokenUnused /\ AnswerOfACall
 BY DEF SessionInit, SignedOut, SignedIn, TokenUnused, AnswerOfACall, Prompts
<1> QED BY <1>1, <1>2, <1>3, <1>4 DEF SessionInv, SignInInv

(* What the worker reads and what it is told leave of the queue. *)
LEMMA QueuesTypeKept ==
  ASSUME QueuesType, [SessionNext]_sessionVars
  PROVE  QueuesType'
<1> USE DEF QueuesType
<1>1. \A c \in Commands : Append(sent, c) \in Seq(Commands)
 BY SequenceFacts
<1>2. sent # <<>> => Tail(sent) \in Seq(Commands) /\ <<Head(sent)>> \o pending \in Seq(Commands)
 BY SequenceFacts
<1>3. pending # <<>> =>
        Tail(pending) \in Seq(Commands) /\ Append(queue, Head(pending)) \in Seq(Commands)
 BY SequenceFacts
<1>4. queue # <<>> => Tail(queue) \in Seq(Commands)
 BY SequenceFacts
<1>5. AfterInterruption(queue) \in Seq(Commands)
 BY InterruptionFacts
<1>6. ASSUME SubmitAuth \/ StartQr \/ Escape \/ QuitSignIn PROVE QueuesType'
 BY <1>1, <1>6 DEF SubmitAuth, StartQr, Escape, QuitSignIn, Give, Commands
<1>7. ASSUME TakeCommand \/ PassCommand PROVE QueuesType'
 BY <1>2, <1>3, <1>7 DEF TakeCommand, PassCommand
<1>8. ASSUME ReadCommand PROVE QueuesType'
 BY <1>4, <1>8 DEF ReadCommand, bridgeVars
<1>9. ASSUME HandleNews \/ BridgeCloses \/ Connect \/ Cancelled \/ RenewToken \/ TelegramAnswers
             \/ TokenNeedsPassword \/ TokenOutdated \/ TokenMigrates \/ UNCHANGED sessionVars
      PROVE  QueuesType'
 BY <1>9 DEF HandleNews, BridgeCloses, Connect, Cancelled, RenewToken, TelegramAnswers,
             TokenNeedsPassword, TokenOutdated, TokenMigrates, EndRound, AnsweredOnly,
             bridgeVars, sessionVars
<1>10. ASSUME CodeRequested \/ CodeChecked \/ PasswordLoaded \/ PasswordChecked \/ Named
              \/ QrCompleted
       PROVE  QueuesType'
 BY <1>5, <1>10 DEF CodeRequested, CodeChecked, PasswordLoaded, PasswordChecked, Named,
                    QrCompleted, Answered, AnsweredOnly, bridgeVars
<1>11. ASSUME NextRound \/ TokenIssued \/ TokenAccepted \/ TokenRefused \/ MigratesTooOften
       PROVE  QueuesType'
 BY <1>5, <1>11 DEF NextRound, TokenIssued, TokenAccepted, TokenRefused, MigratesTooOften,
                    EndRound, bridgeVars
<1>12. ASSUME Launch PROVE QueuesType'
 BY <1>12 DEF Launch
<1> QED BY <1>6, <1>7, <1>8, <1>9, <1>10, <1>11, <1>12 DEF SessionNext

LEMMA NothingLeftYetKept ==
  ASSUME QueuesType, NothingLeftYet, [SessionNext]_sessionVars
  PROVE  NothingLeftYet'
<1>1. ASSUME SubmitAuth \/ StartQr \/ Escape PROVE at' # "connecting"
 BY <1>1 DEF SubmitAuth, StartQr, Escape, Give, NothingLeftYet, Phases, workerVars
<1>2. ASSUME QuitSignIn PROVE NothingLeftYet'
 <2>1. Quiet(sent) => Quiet(Append(sent, "shutdown"))
  BY SequenceFacts DEF QueuesType, Commands
 <2> QED BY <1>2, <2>1 DEF QuitSignIn, NothingLeftYet, workerVars
<1>3. ASSUME HandleNews PROVE at' # "connecting"
 BY <1>3 DEF HandleNews, NothingLeftYet, workerVars
<1>4. ASSUME TakeCommand PROVE NothingLeftYet'
 <2>1. Quiet(sent) /\ Quiet(pending) =>
           Quiet(Tail(sent)) /\ Quiet(<<Head(sent)>> \o pending)
  BY <1>4, SequenceFacts DEF QueuesType, TakeCommand
 <2> QED BY <1>4, <2>1 DEF TakeCommand, NothingLeftYet, workerVars, screenVars
<1>5. ASSUME PassCommand PROVE NothingLeftYet'
 <2>1. Quiet(pending) /\ Quiet(queue) =>
           Quiet(Tail(pending)) /\ Quiet(Append(queue, Head(pending)))
  BY <1>5, SequenceFacts DEF QueuesType, PassCommand
 <2> QED BY <1>5, <2>1 DEF PassCommand, NothingLeftYet, workerVars, screenVars
<1>6. ASSUME Launch PROVE NothingLeftYet'
 BY <1>6 DEF Launch, NothingLeftYet, Quiet
<1>7. ASSUME TelegramAnswers PROVE at' # "connecting"
 BY <1>7 DEF TelegramAnswers, Calls, workerVars
<1>8. ASSUME Connect \/ BridgeCloses \/ RenewToken \/ TokenMigrates PROVE at' # "connecting"
 BY <1>8 DEF Connect, BridgeCloses, RenewToken, TokenMigrates, FromTheStart, Stop
<1>9. ASSUME ReadCommand PROVE at' # "connecting"
 BY <1>9 DEF ReadCommand, React, Understood, CallFor, Stop, FromTheStart, Call, Prompts, workerVars
<1>10. ASSUME CodeRequested \/ CodeChecked \/ PasswordLoaded \/ PasswordChecked \/ Named
              \/ QrCompleted \/ Cancelled \/ NextRound
       PROVE  at' # "connecting"
 BY <1>10 DEF CodeRequested, CodeChecked, PasswordLoaded, PasswordChecked, Named, QrCompleted,
              Cancelled, NextRound, Interrupted, InterruptedAuthorized, FromTheStart, Stop,
              Await, Call
<1>11. Interruption(queue) \in {"none", "restart", "shutdown"}
 BY InterruptionFacts DEF QueuesType
<1>12. ASSUME TokenIssued \/ TokenAccepted \/ TokenNeedsPassword \/ TokenOutdated \/ TokenRefused
              \/ MigratesTooOften
       PROVE  at' # "connecting"
 BY <1>11, <1>12 DEF TokenIssued, TokenAccepted, TokenNeedsPassword, TokenOutdated, TokenRefused,
                     MigratesTooOften, EndRound, Leads
<1>13. ASSUME UNCHANGED sessionVars PROVE NothingLeftYet'
 BY <1>13 DEF sessionVars, screenVars, bridgeVars, workerVars, NothingLeftYet
<1>14. at' # "connecting" => NothingLeftYet'
 BY DEF NothingLeftYet
<1> QED BY <1>1, <1>2, <1>3, <1>4, <1>5, <1>6, <1>7, <1>8, <1>9, <1>10, <1>12, <1>13, <1>14
        DEF SessionNext

(* The steps that read no answer, and the answers themselves. *)
LEMMA HeldByOthers ==
  ASSUME SignInInv,
         \/ SubmitAuth \/ StartQr \/ Escape \/ QuitSignIn \/ HandleNews
         \/ TakeCommand \/ PassCommand \/ BridgeCloses \/ Launch \/ RenewToken \/ Connect
         \/ UNCHANGED sessionVars
  PROVE  SignInInv'
<1> USE DEF SignInInv, TargetKnown, SignedOut, SignedIn, TokenUnused, AnswerOfACall, Place
<1>1. ASSUME UNCHANGED <<at, target, home, answer, authorized>>
      PROVE  SignInInv'
 BY <1>1
<1>2. ASSUME SubmitAuth \/ StartQr \/ Escape \/ QuitSignIn \/ HandleNews
             \/ TakeCommand \/ PassCommand \/ UNCHANGED sessionVars
      PROVE  UNCHANGED <<at, target, home, answer, authorized>>
 BY <1>2 DEF SubmitAuth, StartQr, Escape, QuitSignIn, HandleNews, TakeCommand, PassCommand,
             Give, sessionVars, workerVars, tokenVars
<1>3. ASSUME BridgeCloses \/ Launch
      PROVE  SignInInv'
 BY <1>3 DEF BridgeCloses, Launch, Prompts, tokenVars
<1>4. ASSUME RenewToken \/ Connect
      PROVE  SignInInv'
 BY <1>4 DEF RenewToken, Connect, FromTheStart, Stop, Stays, Prompts, Calls, tokenVars
<1> QED BY <1>1, <1>2, <1>3, <1>4

LEMMA HeldByTelegram ==
  ASSUME SignInInv, TelegramAnswers
  PROVE  SignInInv'
<1> USE DEF SignInInv, TargetKnown, SignedOut, SignedIn, TokenUnused, AnswerOfACall, Place
<1>1. /\ at \in Calls /\ answer = "none" /\ answer' \in Kinds
      /\ UNCHANGED <<at, target, home>>
 BY DEF TelegramAnswers, workerVars, tokenVars
<1>2. authorized' = IF answer' = "success" \/ (answer' = "ok" /\ at \in {"signing", "checking"})
                    THEN authorized \cup {Place}
                    ELSE IF answer' = "ok" /\ at = "cancelling" THEN authorized \ {home}
                    ELSE authorized
 BY DEF TelegramAnswers
<1>3. TargetKnown'
 BY <1>1
<1>4. CASE at \in {"exporting", "importing"}
 <2>1. answer' # "ok"
       /\ (answer' \in {"same_token", "new_token", "migrate", "needs_password", "outdated"}
               => Place \notin authorized)
  BY <1>1, <1>4 DEF Kinds
 <2> QED BY <1>1, <1>2, <1>3, <1>4, <2>1 DEF Prompts
<1>5. CASE at \notin {"exporting", "importing"}
 <2>1. answer' # "success"
  BY <1>1, <1>5 DEF Kinds
 <2> QED BY <1>1, <1>2, <1>3, <1>5, <2>1 DEF Prompts, Calls
<1> QED BY <1>4, <1>5

(* The prompts, and the calls that are no token's. *)
LEMMA HeldByPrompts ==
  ASSUME SignInInv, ReadCommand
  PROVE  SignInInv'
<1> USE DEF SignInInv, TargetKnown, SignedOut, SignedIn, TokenUnused, AnswerOfACall, Place
<1>1. at \in Prompts /\ home \notin authorized /\ target = NoDc /\ UNCHANGED answer
 BY DEF ReadCommand, Prompts
<1>0. answer = "none"
 BY <1>1 DEF Prompts, Calls
<1>2. UNCHANGED <<target, home, authorized>>
      /\ at' \in Prompts \cup {"stopped", "round", "asking", "signing", "checking"}
 BY <1>1 DEF ReadCommand, React, Understood, CallFor, Stop, FromTheStart, Call, Stays,
             workerVars, tokenVars, Prompts
<1> QED BY <1>0, <1>1, <1>2 DEF Prompts

(* An answer of no token: it is read, and the sign-in goes on, starts over or ends. *)
LEMMA HeldByAnswers ==
  ASSUME SignInInv,
         \/ CodeRequested \/ CodeChecked \/ PasswordLoaded \/ PasswordChecked
         \/ Cancelled \/ Named \/ QrCompleted
  PROVE  SignInInv'
<1> USE DEF SignInInv, TargetKnown, SignedOut, SignedIn, TokenUnused, AnswerOfACall, Place
<1>1. answer' = "none" /\ target = NoDc /\ UNCHANGED <<target, home, authorized>>
 BY DEF CodeRequested, CodeChecked, PasswordLoaded, PasswordChecked, Cancelled, Named,
        QrCompleted, Answered, AnsweredOnly, Interrupted, InterruptedAuthorized,
        FromTheStart, Stop, Await, Call, Stays, tokenVars
<1>2. ASSUME CodeRequested \/ PasswordLoaded
      PROVE  home \notin authorized /\ at' \in {"phone", "code", "password", "stopped"}
 BY <1>2 DEF CodeRequested, PasswordLoaded, Answered, AnsweredOnly, Interrupted, FromTheStart,
             Stop, Await
<1>3. ASSUME CodeChecked \/ PasswordChecked
      PROVE  \/ home \notin authorized /\ at' \in {"phone", "code", "password", "stopped"}
             \/ home \in authorized /\ at' \in {"cancelling", "naming", "stopped"}
             \/ at' = "stopped"
 BY <1>3 DEF CodeChecked, PasswordChecked, Answered, AnsweredOnly, Interrupted,
             InterruptedAuthorized, FromTheStart, Stop, Await, Call
<1>4. ASSUME Named \/ QrCompleted
      PROVE  home \in authorized /\ at' \in {"cancelling", "naming", "ready", "stopped"}
 BY <1>4 DEF Named, QrCompleted, Answered, AnsweredOnly, InterruptedAuthorized, Stop, Call
<1>5. ASSUME Cancelled
      PROVE  at' = "stopped" \/ (at' = "phone" /\ home \notin authorized)
 BY <1>5 DEF Cancelled, AnsweredOnly, FromTheStart, Stop
<1> QED BY <1>1, <1>2, <1>3, <1>4, <1>5 DEF Prompts, Calls

(* The rounds of a token. *)
LEMMA HeldByTokens ==
  ASSUME SignInInv, queue \in Seq(Commands),
         \/ NextRound \/ TokenIssued \/ TokenAccepted \/ TokenNeedsPassword \/ TokenOutdated
         \/ TokenRefused \/ TokenMigrates \/ MigratesTooOften
  PROVE  SignInInv'
<1> USE DEF SignInInv, TargetKnown, SignedOut, SignedIn, TokenUnused, AnswerOfACall, Place
<1>1. Interruption(queue) \in {"none", "restart", "shutdown"}
 BY InterruptionFacts
<1>2. ASSUME NextRound PROVE SignInInv'
 <2>1. /\ home \notin authorized /\ target = NoDc /\ answer = "none" /\ at = "round"
       /\ UNCHANGED <<target, home, authorized, answer>>
       /\ at' \in {"phone", "stopped", "exporting"}
  BY <1>2 DEF NextRound, Interrupted, FromTheStart, Stop, Call, Stays, tokenVars, Prompts, Calls
 <2> QED BY <2>1 DEF Prompts, Calls
<1>3. ASSUME NEW kinds, NEW place, NEW follows, NEW tidings, EndRound(kinds, place, follows, tidings)
      PROVE  /\ at \in {"exporting", "importing"} /\ answer \in kinds
             /\ at' = place /\ answer' = "none" /\ target' = NoDc /\ authorized' = authorized
             /\ home' = IF follows THEN Place ELSE home
 BY <1>3, NoDcAssumption DEF EndRound
<1>4. ASSUME TokenIssued PROVE SignInInv'
 <2>1. PICK place, tidings :
           EndRound({"same_token", "new_token"}, place, TRUE, tidings)
           /\ place \in {"scanning", "phone", "stopped"}
  BY <1>1, <1>4 DEF TokenIssued, Leads
 <2>2. /\ at \in {"exporting", "importing"} /\ answer \in {"same_token", "new_token"}
       /\ at' = place /\ answer' = "none" /\ target' = NoDc /\ authorized' = authorized
       /\ home' = Place
  BY <1>3, <2>1
 <2> QED BY <2>1, <2>2 DEF Prompts, Calls
<1>5. ASSUME TokenAccepted PROVE SignInInv'
 <2>1. PICK place, tidings :
           EndRound({"success"}, place, TRUE, tidings)
           /\ place \in {"completing", "cancelling", "stopped"}
  BY <1>1, <1>5 DEF TokenAccepted, Leads
 <2>2. /\ at \in {"exporting", "importing"} /\ answer \in {"success"}
       /\ at' = place /\ answer' = "none" /\ target' = NoDc /\ authorized' = authorized
       /\ home' = Place
  BY <1>3, <2>1
 <2> QED BY <2>1, <2>2 DEF Prompts, Calls
<1>6. ASSUME TokenNeedsPassword PROVE SignInInv'
 <2>1. EndRound({"needs_password"}, "loading", TRUE, <<>>)
  BY <1>6 DEF TokenNeedsPassword
 <2>2. /\ at \in {"exporting", "importing"} /\ answer \in {"needs_password"}
       /\ at' = "loading" /\ answer' = "none" /\ target' = NoDc /\ authorized' = authorized
       /\ home' = Place
  BY <1>3, <2>1
 <2> QED BY <2>1, <2>2 DEF Prompts, Calls
<1>7. ASSUME TokenOutdated PROVE SignInInv'
 <2>1. EndRound({"outdated"}, "round", FALSE, <<>>)
  BY <1>7 DEF TokenOutdated
 <2>2. /\ at \in {"exporting", "importing"} /\ answer \in {"outdated"}
       /\ at' = "round" /\ answer' = "none" /\ target' = NoDc /\ authorized' = authorized
       /\ home' = home
  BY <1>3, <2>1
 <2> QED BY <2>1, <2>2 DEF Prompts, Calls
<1>8. ASSUME TokenRefused PROVE SignInInv'
 <2>1. PICK place, tidings :
           EndRound({"refused"}, place, FALSE, tidings) /\ place \in {"phone", "stopped"}
  BY <1>1, <1>8 DEF TokenRefused, Leads
 <2>2. /\ at \in {"exporting", "importing"} /\ answer \in {"refused"}
       /\ at' = place /\ answer' = "none" /\ target' = NoDc /\ authorized' = authorized
       /\ home' = home
  BY <1>3, <2>1
 <2> QED BY <2>1, <2>2 DEF Prompts, Calls
<1>9. ASSUME TokenMigrates PROVE SignInInv'
 <2>1. /\ answer = "migrate" /\ at \in {"exporting", "importing"}
       /\ at' = "importing" /\ answer' = "none" /\ target' \in Dc \ {home}
       /\ UNCHANGED <<home, authorized>>
  BY <1>9 DEF TokenMigrates
 <2> QED BY <2>1 DEF Prompts, Calls
<1>10. ASSUME MigratesTooOften PROVE SignInInv'
 <2>1. /\ at = "importing" /\ home \notin authorized
       /\ answer' = "none" /\ target' = NoDc /\ authorized' = authorized
       /\ \/ at' = "round" /\ home' = home
          \/ at' = "loading" /\ answer = "needs_password" /\ home' = target
          \/ at' \in {"phone", "stopped"} /\ home' = home
  BY <1>1, <1>10 DEF MigratesTooOften, Leads
 <2> QED BY <2>1 DEF Prompts, Calls
<1> QED BY <1>2, <1>4, <1>5, <1>6, <1>7, <1>8, <1>9, <1>10

LEMMA SessionInvKept ==
  ASSUME SessionInv, [SessionNext]_sessionVars
  PROVE  SessionInv'
<1>1. QueuesType' /\ NothingLeftYet'
 BY QueuesTypeKept, NothingLeftYetKept DEF SessionInv
<1>2. queue \in Seq(Commands) /\ SignInInv
 BY DEF SessionInv, QueuesType
<1>3. SignInInv'
 BY <1>2, HeldByOthers, HeldByTelegram, HeldByPrompts, HeldByAnswers, HeldByTokens DEF SessionNext
<1> QED BY <1>1, <1>3 DEF SessionInv

-----------------------------------------------------------------------------
(* The theorems.                                                             *)

THEOREM SessionIsInvariant == SessionSpec => []SessionInv
<1>1. SessionInit => SessionInv
 BY SessionInvInit
<1>2. SessionInv /\ [SessionNext]_sessionVars => SessionInv'
 BY SessionInvKept
<1> QED BY <1>1, <1>2, PTL DEF SessionSpec

(* The worker never prompts for an account whose authorization the session's data
   centre holds: a restart of the sign-in, at any moment of a code, a password or a
   token that moves, leaves no authorization behind it (authorized_outcome,
   cancel_authorized_login, sign_in_with_qr). *)
THEOREM SessionPromptsSignedOut == SessionSpec => []PromptsSignedOut
<1>1. SessionInv => PromptsSignedOut
 BY DEF SessionInv, SignInInv, SignedOut, PromptsSignedOut
<1> QED BY <1>1, SessionIsInvariant, PTL

(* The account is shown only when the session's data centre holds it and no restart
   waits in the worker's queue (run, after get_me). *)
THEOREM SessionReadyIsWanted == SessionSpec => ReadyIsWanted
<1> DEFINE SignInWanted == at' = "ready" /\ at # "ready" =>
                       /\ home' \in authorized'
                       /\ \A i \in 1..Len(queue) : queue[i] # "restart"
<1>1. ASSUME SessionInv, [SessionNext]_sessionVars, at' = "ready", at # "ready"
      PROVE  Connect \/ Named
 <2>1. Interruption(queue) \in {"none", "restart", "shutdown"}
  BY <1>1, InterruptionFacts DEF SessionInv, QueuesType
 <2>2. ASSUME SubmitAuth \/ StartQr \/ Escape \/ QuitSignIn \/ HandleNews \/ TakeCommand
              \/ PassCommand \/ BridgeCloses \/ Launch \/ RenewToken \/ TelegramAnswers
              \/ TokenMigrates \/ UNCHANGED sessionVars
       PROVE  FALSE
  BY <1>1, <2>2 DEF SubmitAuth, StartQr, Escape, QuitSignIn, HandleNews, TakeCommand, PassCommand,
                    BridgeCloses, Launch, RenewToken, TelegramAnswers, TokenMigrates, Give,
                    sessionVars, workerVars
 <2>3. ASSUME ReadCommand PROVE FALSE
  BY <1>1, <2>3 DEF ReadCommand, React, Understood, CallFor, Stop, FromTheStart, Call, Prompts,
                    workerVars
 <2>4. ASSUME CodeRequested \/ CodeChecked \/ PasswordLoaded \/ PasswordChecked \/ Cancelled
              \/ QrCompleted \/ NextRound
       PROVE  FALSE
  BY <1>1, <2>4 DEF CodeRequested, CodeChecked, PasswordLoaded, PasswordChecked, Cancelled,
                    QrCompleted, NextRound, Interrupted, InterruptedAuthorized, FromTheStart,
                    Stop, Await, Call
 <2>5. ASSUME TokenIssued \/ TokenAccepted \/ TokenNeedsPassword \/ TokenOutdated \/ TokenRefused
              \/ MigratesTooOften
       PROVE  FALSE
  BY <1>1, <2>1, <2>5 DEF TokenIssued, TokenAccepted, TokenNeedsPassword, TokenOutdated,
                          TokenRefused, MigratesTooOften, EndRound, Leads
 <2> QED BY <1>1, <2>2, <2>3, <2>4, <2>5 DEF SessionNext
<1>2. ASSUME SessionInv, Connect, at' = "ready" PROVE SignInWanted
 <2>1. Quiet(queue)
  BY <1>2 DEF SessionInv, NothingLeftYet, Connect
 <2> QED BY <1>2, <2>1 DEF Connect, FromTheStart, Stop, Stays, Quiet
<1>3. ASSUME SessionInv, Named, at' = "ready" PROVE SignInWanted
 <2>1. Interruption(queue) = "none" => Quiet(queue)
  BY <1>3, InterruptionFacts DEF SessionInv, QueuesType
 <2> QED BY <1>3, <2>1 DEF Named, Answered, AnsweredOnly, InterruptedAuthorized, Uninterrupted, Stop,
                           Call, Stays, SessionInv, SignInInv, SignedIn, Quiet
<1>4. SessionInv /\ [SessionNext]_sessionVars => [SignInWanted]_sessionVars
 BY <1>1, <1>2, <1>3
<1> QED BY <1>4, SessionIsInvariant, PTL DEF SessionSpec, ReadyIsWanted

-----------------------------------------------------------------------------
(* The screen and the worker in step. *)

News == Phases \cup {"ready", "error", "fatal"}

ScreenType ==
    /\ screen \in Phases \cup {"connecting", "main", "fatal", "exited"}
    /\ progress \in {"none", "phone", "code", "password", "qr", "scan", "restart"}
    /\ restarting \in BOOLEAN /\ displayed \in BOOLEAN
    /\ restarting => screen \in {"phone", "fatal", "exited"} /\ progress = "restart"
    /\ at \in Prompts \cup Calls \cup {"connecting", "round", "ready", "stopped"}
    /\ news \in Seq(News)

Holds(q, c) == \E i \in 1..Len(q) : q[i] = c
Plain(q) == \A i \in 1..Len(q) : q[i] \notin Phases

\* The last phase that q tells of, if it tells of any, is p.
EndsWith(q, p) ==
    \A i \in 1..Len(q) :
        q[i] \in Phases /\ (\A j \in (i + 1)..Len(q) : q[j] \notin Phases) => q[i] = p

\* The commands that begin a sign-in.
Begins(q) == Holds(q, "phone") \/ Holds(q, "qr")
BeginsOnce(q) == \A i, j \in 1..Len(q) : {q[i], q[j]} \subseteq {"phone", "qr"} => i = j

Underway(c) == Holds(sent, c) \/ Holds(pending, c) \/ Holds(queue, c)
SignInBegun == Begins(sent) \/ Begins(pending) \/ Begins(queue)

\* A sign-in goes on: neither the worker nor the user has ended it.
SigningIn == at \notin {"ready", "stopped"} /\ screen \notin {"main", "fatal", "exited"}

\* Nothing is told of the end of a sign-in before it ended.
EndIsTold ==
    /\ screen = "main" \/ Holds(news, "ready") => at \in {"ready", "stopped"}
    /\ screen = "fatal" \/ Holds(news, "fatal") => at = "stopped"

ScreenFits ==
    /\ restarting <=> progress = "restart"
    /\ restarting => screen = "phone"
    /\ progress \in {"phone", "code", "password"} => screen = progress
    /\ progress = "qr" => screen = "phone"
    /\ progress = "scan" <=> screen = "qr"
    /\ screen = "connecting" => progress = "none"
    /\ ~Underway("shutdown")

\* The phase that the worker told of last, where the next one may be the same.
Rounds == {"round", "exporting", "importing"}
PhaseTold(place, shows) ==
    IF place \in {"phone", "asking"} THEN "phone"
    ELSE IF place \in {"code", "signing"} THEN "code"
    ELSE IF place \in {"password", "checking"} THEN "password"
    ELSE IF place = "scanning" \/ (place \in Rounds /\ shows) THEN "qr"
    ELSE "none"

\* The screen, once it has heard everything, is that of the phase that was told last.
ToldIsShown ==
    PhaseTold(at, displayed) # "none" =>
        /\ EndsWith(news, PhaseTold(at, displayed))
        /\ Plain(news) /\ ~restarting => screen = PhaseTold(at, displayed)

\* There is one permission to begin a sign-in: the screen has it, or a command took it along,
\* or the worker goes on with it, until it tells of its return.
Idle == screen = "phone" /\ progress = "none"
BegunOnce ==
    /\ BeginsOnce(sent) /\ BeginsOnce(pending) /\ BeginsOnce(queue)
    /\ Begins(sent) => ~Begins(pending) /\ ~Begins(queue)
    /\ Begins(pending) => ~Begins(queue)
OnePermission ==
    /\ at = "scanning" => displayed
    /\ Idle \/ SignInBegun => at = "phone" /\ news = <<>>
    /\ Idle => ~SignInBegun
    /\ BegunOnce
    /\ \A c \in {"phone", "qr"} : Underway(c) => progress \in {c, "restart"}
    /\ \A i \in 1..Len(news) : news[i] = "phone" => i = Len(news) /\ at = "phone"
    /\ at = "asking" => news = <<>> /\ progress \in {"phone", "restart"}
    /\ at \in Rounds /\ ~displayed => news = <<>> /\ progress \in {"qr", "restart"}

\* What the screen waits for comes: its command or the answer is on its way.
AnswerComes ==
    progress \in {"phone", "code", "password", "qr"} =>
        Underway(progress) \/ at \notin Prompts \/ news # <<>>

\* And the answer ends the wait for the phone number or the token.
AnswerFits ==
    progress \in {"phone", "qr"} /\ news # <<>> =>
        \/ news[1] \in Phases
        \/ progress = "qr" /\ Len(news) >= 2 /\ news[1] = "error" /\ news[2] = "phone"
        \/ progress = "phone" /\ news = <<"error">> /\ at = "phone"

Agreement == ScreenFits /\ ToldIsShown /\ OnePermission /\ AnswerComes /\ AnswerFits
AgreementInv == ScreenType /\ EndIsTold /\ (SigningIn => Agreement)

LEMMA CommandFacts ==
  ASSUME NEW q \in Seq(Commands)
  PROVE  /\ \A c \in Commands : \A d : Holds(Append(q, c), d) <=> Holds(q, d) \/ d = c
         /\ \A c \in Commands : \A d : Holds(<<c>> \o q, d) <=> Holds(q, d) \/ d = c
         /\ q # <<>> => \A d : Holds(q, d) <=> Holds(Tail(q), d) \/ d = Head(q)
         /\ \A d : Holds(AfterInterruption(q), d) => Holds(q, d)
<1>1. \A c \in Commands : \A d : Holds(Append(q, c), d) <=> Holds(q, d) \/ d = c
 <2> TAKE c \in Commands
 <2> TAKE d
 <2> DEFINE t == Append(q, c)
 <2>1. /\ Len(t) = Len(q) + 1 /\ t[Len(q) + 1] = c /\ Len(q) \in Nat
       /\ \A i \in 1..Len(q) : t[i] = q[i]
  OBVIOUS
 <2> HIDE DEF t
 <2>2. Holds(t, d) <=> Holds(q, d) \/ d = c
  BY <2>1 DEF Holds
 <2> QED BY <2>2 DEF t
<1>2. \A c \in Commands : \A d : Holds(<<c>> \o q, d) <=> Holds(q, d) \/ d = c
 <2> TAKE c \in Commands
 <2> TAKE d
 <2> DEFINE t == <<c>> \o q
 <2>0. <<c>> \in Seq(Commands) /\ Len(<<c>>) = 1 /\ <<c>>[1] = c
  OBVIOUS
 <2>1. /\ Len(t) = Len(q) + 1 /\ t[1] = c /\ Len(q) \in Nat
       /\ \A i \in 1..Len(q) : t[i + 1] = q[i]
  BY <2>0
 <2> HIDE DEF t
 <2>2. ASSUME Holds(t, d) PROVE Holds(q, d) \/ d = c
  <3>1. PICK i \in 1..Len(t) : t[i] = d
   BY <2>2 DEF Holds
  <3>2. CASE i = 1
   BY <2>1, <3>1, <3>2
  <3>3. CASE i # 1
   <4>1. i - 1 \in 1..Len(q) /\ t[(i - 1) + 1] = q[i - 1] /\ (i - 1) + 1 = i
    BY <2>1, <3>1, <3>3
   <4> QED BY <3>1, <4>1 DEF Holds
  <3> QED BY <3>2, <3>3
 <2>3. ASSUME Holds(q, d) PROVE Holds(t, d)
  <3>1. PICK i \in 1..Len(q) : q[i] = d
   BY <2>3 DEF Holds
  <3>2. i + 1 \in 1..Len(t) /\ t[i + 1] = d
   BY <2>1, <3>1
  <3> QED BY <3>2 DEF Holds
 <2>4. d = c => Holds(t, d)
  <3>1. 1 \in 1..Len(t)
   BY <2>1
  <3> QED BY <2>1, <3>1 DEF Holds
 <2> QED BY <2>2, <2>3, <2>4 DEF t
<1>3. ASSUME q # <<>> PROVE \A d : Holds(q, d) <=> Holds(Tail(q), d) \/ d = Head(q)
 <2> TAKE d
 <2> DEFINE t == Tail(q)
 <2>1. /\ Len(q) \in Nat /\ Len(q) = Len(t) + 1 /\ q[1] = Head(q) /\ Len(t) \in Nat
       /\ \A i \in 1..Len(t) : q[i + 1] = t[i]
  BY <1>3
 <2> HIDE DEF t
 <2>2. ASSUME Holds(q, d) PROVE Holds(t, d) \/ d = Head(q)
  <3>1. PICK i \in 1..Len(q) : q[i] = d
   BY <2>2 DEF Holds
  <3>2. CASE i = 1
   BY <2>1, <3>1, <3>2
  <3>3. CASE i # 1
   <4>1. i - 1 \in 1..Len(t) /\ q[(i - 1) + 1] = t[i - 1] /\ (i - 1) + 1 = i
    BY <2>1, <3>1, <3>3
   <4> QED BY <3>1, <4>1 DEF Holds
  <3> QED BY <3>2, <3>3
 <2>3. ASSUME Holds(t, d) PROVE Holds(q, d)
  <3>1. PICK i \in 1..Len(t) : t[i] = d
   BY <2>3 DEF Holds
  <3>2. i + 1 \in 1..Len(q) /\ q[i + 1] = d
   BY <2>1, <3>1
  <3> QED BY <3>2 DEF Holds
 <2>4. d = Head(q) => Holds(q, d)
  <3>1. 1 \in 1..Len(q)
   BY <2>1
  <3> QED BY <2>1, <3>1 DEF Holds
 <2> QED BY <2>2, <2>3, <2>4 DEF t
<1>4. \A d : Holds(AfterInterruption(q), d) => Holds(q, d)
 <2>1. CASE Found(q) = {}
  BY <2>1 DEF AfterInterruption, Holds
 <2>2. CASE Found(q) # {}
  <3> DEFINE n == First(q)
             t == SubSeq(q, n + 1, Len(q))
  <3>1. n \in 1..Len(q) /\ Len(q) \in Nat
   BY <2>2, FirstFound DEF Found
  <3> HIDE DEF n
  <3>2. Len(t) = Len(q) - n /\ \A i \in 1..Len(t) : t[i] = q[n + i]
   BY <3>1
  <3>3. AfterInterruption(q) = t
   BY <2>2 DEF AfterInterruption, n
  <3> HIDE DEF t
  <3> TAKE d
  <3>4. ASSUME NEW i \in 1..Len(t), t[i] = d PROVE Holds(q, d)
   <4>1. n + i \in 1..Len(q) /\ q[n + i] = d
    BY <3>1, <3>2, <3>4
   <4> QED BY <4>1 DEF Holds
  <3> QED BY <3>3, <3>4 DEF Holds
 <2> QED BY <2>1, <2>2
<1> QED BY <1>1, <1>2, <1>3, <1>4

LEMMA BeginningFacts ==
  ASSUME NEW q \in Seq(Commands), BeginsOnce(q)
  PROVE  /\ \A c \in Commands : c \notin {"phone", "qr"} \/ ~Begins(q) =>
              BeginsOnce(Append(q, c)) /\ BeginsOnce(<<c>> \o q)
         /\ q # <<>> => /\ BeginsOnce(Tail(q))
                        /\ Head(q) \in {"phone", "qr"} => ~Begins(Tail(q))
         /\ BeginsOnce(AfterInterruption(q))
<1>1. ASSUME NEW c \in Commands, c \notin {"phone", "qr"} \/ ~Begins(q)
      PROVE  BeginsOnce(Append(q, c))
 <2> DEFINE t == Append(q, c)
 <2>1. /\ Len(t) = Len(q) + 1 /\ t[Len(q) + 1] = c /\ Len(q) \in Nat
       /\ \A i \in 1..Len(q) : t[i] = q[i]
  OBVIOUS
 <2> HIDE DEF t
 <2>2. BeginsOnce(t)
  BY <1>1, <2>1 DEF BeginsOnce, Begins, Holds
 <2> QED BY <2>2 DEF t
<1>2. ASSUME NEW c \in Commands, c \notin {"phone", "qr"} \/ ~Begins(q)
      PROVE  BeginsOnce(<<c>> \o q)
 <2> DEFINE t == <<c>> \o q
 <2>0. <<c>> \in Seq(Commands) /\ Len(<<c>>) = 1 /\ <<c>>[1] = c
  OBVIOUS
 <2>1. /\ Len(t) = Len(q) + 1 /\ t[1] = c /\ Len(q) \in Nat
       /\ \A i \in 1..Len(q) : t[i + 1] = q[i]
  BY <2>0
 <2> HIDE DEF t
 <2>2. \A i \in 1..Len(t) : i = 1 \/ (i - 1 \in 1..Len(q) /\ t[i] = q[i - 1])
  <3> TAKE i \in 1..Len(t)
  <3>1. i # 1 => i - 1 \in 1..Len(q) /\ (i - 1) + 1 = i
   BY <2>1
  <3>2. i # 1 => t[i] = q[i - 1]
   BY <2>1, <3>1
  <3> QED BY <3>1, <3>2
 <2>3. SUFFICES ASSUME NEW i \in 1..Len(t), NEW j \in 1..Len(t),
                       {t[i], t[j]} \subseteq {"phone", "qr"}
                PROVE  i = j
  BY DEF t, BeginsOnce
 <2>4. i = 1 <=> j = 1
  BY <1>2, <2>1, <2>2, <2>3 DEF Begins, Holds
 <2>5. i # 1 => i - 1 = j - 1
  BY <2>2, <2>3, <2>4 DEF BeginsOnce
 <2> QED BY <2>1, <2>4, <2>5
<1>3. ASSUME q # <<>>
      PROVE  /\ BeginsOnce(Tail(q))
             /\ Head(q) \in {"phone", "qr"} => ~Begins(Tail(q))
 <2> DEFINE t == Tail(q)
 <2>1. /\ Len(q) \in Nat /\ Len(q) = Len(t) + 1 /\ q[1] = Head(q) /\ Len(t) \in Nat
       /\ \A i \in 1..Len(t) : q[i + 1] = t[i] /\ i + 1 \in 1..Len(q) /\ i + 1 # 1
  BY <1>3
 <2>2. 1 \in 1..Len(q)
  BY <2>1
 <2> HIDE DEF t
 <2>3. BeginsOnce(t)
  <3> SUFFICES ASSUME NEW i \in 1..Len(t), NEW j \in 1..Len(t),
                      {t[i], t[j]} \subseteq {"phone", "qr"}
               PROVE  i = j
   BY DEF BeginsOnce
  <3>1. i + 1 = j + 1
   BY <2>1 DEF BeginsOnce
  <3> QED BY <2>1, <3>1
 <2>4. ASSUME Head(q) \in {"phone", "qr"}, NEW i \in 1..Len(t), t[i] \in {"phone", "qr"}
       PROVE  FALSE
  BY <2>1, <2>2, <2>4 DEF BeginsOnce
 <2> QED BY <2>3, <2>4 DEF t, Begins, Holds
<1>4. BeginsOnce(AfterInterruption(q))
 <2>1. CASE Found(q) = {}
  BY <2>1 DEF AfterInterruption, BeginsOnce
 <2>2. CASE Found(q) # {}
  <3> DEFINE n == First(q)
             t == SubSeq(q, n + 1, Len(q))
  <3>1. n \in 1..Len(q) /\ Len(q) \in Nat
   BY <2>2, FirstFound DEF Found
  <3> HIDE DEF n
  <3>2. Len(t) = Len(q) - n /\ \A i \in 1..Len(t) : t[i] = q[n + i] /\ n + i \in 1..Len(q)
   BY <3>1
  <3>3. AfterInterruption(q) = t
   BY <2>2 DEF AfterInterruption, n
  <3> HIDE DEF t
  <3>4. ASSUME NEW i \in 1..Len(t), NEW j \in 1..Len(t),
               {t[i], t[j]} \subseteq {"phone", "qr"}
        PROVE  i = j
   <4>1. n + i = n + j
    BY <3>2, <3>4 DEF BeginsOnce
   <4> QED BY <3>1, <3>2, <4>1
  <3> QED BY <3>3, <3>4 DEF BeginsOnce
 <2> QED BY <2>1, <2>2
<1> QED BY <1>1, <1>2, <1>3, <1>4

LEMMA NewsFacts ==
  ASSUME NEW q \in Seq(News), NEW e \in News
  PROVE  /\ Append(q, e) \in Seq(News) /\ Append(q, e) # <<>>
         /\ \A d : Holds(Append(q, e), d) <=> Holds(q, d) \/ d = e
         /\ e \in Phases => ~Plain(Append(q, e)) /\ EndsWith(Append(q, e), e)
         /\ \A p : e \notin Phases /\ EndsWith(q, p) => EndsWith(Append(q, e), p)
         /\ e \notin Phases => (Plain(Append(q, e)) <=> Plain(q))
         /\ q # <<>> => Append(q, e)[1] = q[1]
<1> DEFINE t == Append(q, e)
<1>1. /\ Len(t) = Len(q) + 1 /\ t[Len(q) + 1] = e /\ Len(q) \in Nat /\ t \in Seq(News)
      /\ \A i \in 1..Len(q) : t[i] = q[i]
 OBVIOUS
<1> HIDE DEF t
<1>0. Len(q) + 1 \in 1..Len(t) /\ t # <<>>
 BY <1>1
<1>2. \A d : Holds(t, d) <=> Holds(q, d) \/ d = e
 BY <1>1 DEF Holds
<1>3. ASSUME e \in Phases PROVE ~Plain(t) /\ EndsWith(t, e)
 <2>1. ~Plain(t)
  BY <1>0, <1>1, <1>3 DEF Plain
 <2>2. ASSUME NEW i \in 1..Len(t), \A j \in (i + 1)..Len(t) : t[j] \notin Phases
       PROVE  t[i] = e
  <3>1. i = Len(t)
   <4>1. i # Len(t) => Len(t) \in (i + 1)..Len(t)
    BY <1>1
   <4> QED BY <1>1, <1>3, <2>2, <4>1
  <3> QED BY <1>1, <3>1
 <2> QED BY <2>1, <2>2 DEF EndsWith
<1>4. ASSUME NEW p, e \notin Phases, EndsWith(q, p) PROVE EndsWith(t, p)
 <2> SUFFICES ASSUME NEW i \in 1..Len(t), t[i] \in Phases,
                     \A j \in (i + 1)..Len(t) : t[j] \notin Phases
              PROVE  t[i] = p
  BY DEF EndsWith
 <2>1. i \in 1..Len(q)
  BY <1>1, <1>4
 <2>2. \A j \in (i + 1)..Len(q) : q[j] \notin Phases
  <3> TAKE j \in (i + 1)..Len(q)
  <3>1. j \in (i + 1)..Len(t) /\ j \in 1..Len(q)
   BY <1>1, <2>1
  <3> QED BY <1>1, <3>1
 <2>3. q[i] \in Phases /\ q[i] = t[i]
  BY <1>1, <2>1
 <2> QED BY <1>4, <2>1, <2>2, <2>3 DEF EndsWith
<1>5. e \notin Phases => (Plain(t) <=> Plain(q))
 BY <1>1 DEF Plain
<1>6. q # <<>> => t[1] = q[1]
 <2>1. q # <<>> => 1 \in 1..Len(q)
  BY <1>1
 <2> QED BY <1>1, <2>1
<1> QED BY <1>0, <1>1, <1>2, <1>3, <1>4, <1>5, <1>6 DEF t

LEMMA HeardFacts ==
  ASSUME NEW q \in Seq(News), q # <<>>
  PROVE  /\ Tail(q) \in Seq(News) /\ Head(q) \in News /\ Head(q) = q[1]
         /\ \A d : Holds(q, d) <=> Holds(Tail(q), d) \/ d = Head(q)
         /\ \A p : EndsWith(q, p) => EndsWith(Tail(q), p)
         /\ \A p : EndsWith(q, p) /\ Plain(Tail(q)) /\ Head(q) \in Phases => Head(q) = p
         /\ Head(q) \notin Phases => (Plain(Tail(q)) <=> Plain(q))
         /\ Len(q) = 1 => Tail(q) = <<>>
         /\ Len(q) >= 2 => Tail(q) # <<>> /\ Tail(q)[1] = q[2]
         /\ Len(q) = Len(Tail(q)) + 1 /\ Len(Tail(q)) \in Nat
         /\ \A i \in 1..Len(Tail(q)) : Tail(q)[i] = q[i + 1] /\ i + 1 \in 1..Len(q)
<1> DEFINE t == Tail(q)
<1>1. /\ Len(q) \in Nat /\ Len(q) = Len(t) + 1 /\ q[1] = Head(q) /\ Len(t) \in Nat
      /\ t \in Seq(News)
      /\ \A i \in 1..Len(t) : t[i] = q[i + 1] /\ i + 1 \in 1..Len(q) /\ i \in Nat
 OBVIOUS
<1>2. Head(q) \in News
 OBVIOUS
<1> HIDE DEF t
<1>9. Len(q) = 1 => t = <<>>
 BY <1>1
<1>3. \A i \in 1..Len(q) : i = 1 \/ (i - 1 \in 1..Len(t) /\ q[i] = t[i - 1])
 <2> TAKE i \in 1..Len(q)
 <2>1. i # 1 => i - 1 \in 1..Len(t) /\ (i - 1) + 1 = i
  BY <1>1
 <2>2. i # 1 => q[i] = t[i - 1]
  BY <1>1, <2>1
 <2> QED BY <2>1, <2>2
<1>0. 1 \in 1..Len(q)
 BY <1>1
<1>4. \A d : Holds(q, d) <=> Holds(t, d) \/ d = Head(q)
 <2>1. \A d : Holds(q, d) => Holds(t, d) \/ d = Head(q)
  BY <1>1, <1>3 DEF Holds
 <2>2. \A d : Holds(t, d) => Holds(q, d)
  BY <1>1 DEF Holds
 <2>3. Holds(q, Head(q))
  BY <1>0, <1>1 DEF Holds
 <2> QED BY <2>1, <2>2, <2>3
<1>5. ASSUME NEW p, EndsWith(q, p) PROVE EndsWith(t, p)
 <2> SUFFICES ASSUME NEW i \in 1..Len(t), t[i] \in Phases,
                     \A j \in (i + 1)..Len(t) : t[j] \notin Phases
              PROVE  t[i] = p
  BY DEF EndsWith
 <2>1. i + 1 \in 1..Len(q) /\ q[i + 1] = t[i]
  BY <1>1
 <2>2. \A j \in ((i + 1) + 1)..Len(q) : q[j] \notin Phases
  <3> TAKE j \in ((i + 1) + 1)..Len(q)
  <3>1. j - 1 \in (i + 1)..Len(t) /\ j \in 1..Len(q) /\ j # 1
   BY <1>1
  <3> QED BY <1>3, <3>1
 <2> QED BY <1>5, <2>1, <2>2 DEF EndsWith
<1>6. ASSUME NEW p, EndsWith(q, p), Plain(t), Head(q) \in Phases PROVE Head(q) = p
 <2>1. \A j \in (1 + 1)..Len(q) : q[j] \notin Phases
  <3> TAKE j \in (1 + 1)..Len(q)
  <3>1. j - 1 \in 1..Len(t) /\ j \in 1..Len(q) /\ j # 1
   BY <1>1
  <3> QED BY <1>3, <1>6, <3>1 DEF Plain
 <2> QED BY <1>0, <1>1, <1>6, <2>1 DEF EndsWith
<1>7. Head(q) \notin Phases => (Plain(t) <=> Plain(q))
 BY <1>1, <1>3 DEF Plain
<1>8. Len(q) >= 2 => t # <<>> /\ t[1] = q[2]
 BY <1>1
<1> QED BY <1>1, <1>2, <1>4, <1>5, <1>6, <1>7, <1>8, <1>9 DEF t

LEMMA ToldFacts ==
  ASSUME NEW q \in Seq(News)
  PROVE  /\ q \o <<>> = q
         /\ \A x \in News : q \o <<x>> = Append(q, x)
         /\ \A x, y \in News : q \o <<x, y>> = Append(Append(q, x), y)
         /\ \A x \in News : q \o (<<>> \o <<x>>) = Append(q, x)
<1>1. q \o <<>> = q
 OBVIOUS
<1>2. ASSUME NEW x \in News PROVE q \o <<x>> = Append(q, x)
 <2>1. <<x>> \in Seq(News) /\ Len(<<x>>) = 1 /\ <<x>>[1] = x
  OBVIOUS
 <2> QED BY <2>1
<1>3. ASSUME NEW x \in News, NEW y \in News PROVE q \o <<x, y>> = Append(Append(q, x), y)
 <2>1. <<x, y>> \in Seq(News) /\ Len(<<x, y>>) = 2 /\ <<x, y>>[1] = x /\ <<x, y>>[2] = y
  OBVIOUS
 <2> QED BY <2>1
<1>4. \A x \in News : <<>> \o <<x>> = <<x>>
 OBVIOUS
<1> QED BY <1>1, <1>2, <1>3, <1>4

(* What a step of the worker that reads no command may do with its place and with what it
   told. *)
Silent ==
    /\ news' = news
    /\ \/ at' = at /\ at \in Calls /\ displayed' = displayed
       \/ at \in Rounds \cup {"scanning"} /\ at' \in Rounds /\ displayed' = displayed
       \/ at \in Calls /\ at' \in {"naming", "cancelling", "completing", "loading"}
       \/ at \in {"exporting", "importing"} /\ at' = "scanning" /\ displayed /\ displayed'
Prompted ==
    /\ at \in Calls \cup {"connecting", "round"} /\ at' \in Prompts
    /\ news' = Append(news, PhaseOf(at')) /\ (at' = "scanning" => displayed')
Refused ==
    \/ /\ news' = Append(news, "error") /\ displayed' = displayed
       /\ \/ at = "asking" /\ at' = "phone"
          \/ at = "signing" /\ at' = "code"
          \/ at = "checking" /\ at' = "password"
    \/ /\ news' = Append(Append(news, "error"), "phone")
       /\ at \in {"exporting", "importing"} /\ at' = "phone"
Ended ==
    /\ at \in Calls \cup Prompts \cup {"connecting", "round"}
    /\ \/ at' = "stopped" /\ news' = Append(news, "fatal")
       \/ at' = "ready" /\ news' = Append(news, "ready")
WorkerTurns ==
    /\ UNCHANGED <<screen, progress, restarting, sent, pending>>
    /\ queue' \in {queue, AfterInterruption(queue)}
    /\ displayed' \in BOOLEAN
    /\ Silent \/ Prompted \/ Refused \/ Ended

LEMMA AnswersTurn ==
  ASSUME ScreenType,
         \/ Connect \/ CodeRequested \/ CodeChecked \/ PasswordLoaded \/ PasswordChecked
         \/ Cancelled \/ Named \/ QrCompleted \/ RenewToken \/ TelegramAnswers
  PROVE  WorkerTurns
<1> USE ToldFacts DEF ScreenType, News, Phases
<1>1. /\ news \o <<>> = news
      /\ \A x \in News : news \o <<x>> = Append(news, x)
      /\ \A x, y \in News : news \o <<x, y>> = Append(Append(news, x), y)
      /\ \A x \in News : news \o (<<>> \o <<x>>) = Append(news, x)
 OBVIOUS
<1> DEFINE from == \/ Connect \/ CodeRequested \/ CodeChecked \/ PasswordLoaded
                   \/ PasswordChecked \/ Cancelled \/ Named \/ QrCompleted
<1>2. ASSUME from
      PROVE  /\ UNCHANGED <<screen, progress, restarting, sent, pending>>
             /\ queue' \in {queue, AfterInterruption(queue)} /\ displayed' = displayed
 BY <1>2 DEF Connect, CodeRequested, CodeChecked, PasswordLoaded, PasswordChecked, Cancelled,
             Named, QrCompleted, Answered, AnsweredOnly, screenVars, bridgeVars, Interrupted,
             InterruptedAuthorized, FromTheStart, Stop, Await, Call, Stays, tokenVars
<1>3. ASSUME Connect PROVE Prompted \/ Ended
 BY <1>1, <1>3 DEF Connect, FromTheStart, Stop, Tell, Prompted, Ended, PhaseOf, Prompts
<1>4. ASSUME CodeRequested PROVE Prompted \/ Refused \/ Ended
 BY <1>1, <1>2, <1>4 DEF CodeRequested, Answered, Interrupted, FromTheStart, Stop, Await, Tell,
                   Prompted, Refused, Ended, PhaseOf, Prompts, Calls
<1>5. ASSUME CodeChecked PROVE Silent \/ Prompted \/ Refused \/ Ended
 BY <1>1, <1>2, <1>5 DEF CodeChecked, Answered, AnsweredOnly, Interrupted, InterruptedAuthorized,
                   FromTheStart, Stop, Await, Call, Tell, Silent, Prompted, Refused, Ended,
                   PhaseOf, Prompts, Calls
<1>6. ASSUME PasswordLoaded PROVE Prompted \/ Ended
 BY <1>1, <1>2, <1>6 DEF PasswordLoaded, Answered, AnsweredOnly, Interrupted, FromTheStart, Stop,
                   Await, Tell, Prompted, Ended, PhaseOf, Prompts, Calls
<1>7. ASSUME PasswordChecked PROVE Silent \/ Prompted \/ Refused \/ Ended
 BY <1>1, <1>2, <1>7 DEF PasswordChecked, Answered, Interrupted, InterruptedAuthorized,
                   FromTheStart, Stop, Call, Tell, Silent, Prompted, Refused, Ended,
                   PhaseOf, Prompts, Calls
<1>8. ASSUME Cancelled PROVE Prompted \/ Ended
 BY <1>1, <1>2, <1>8 DEF Cancelled, AnsweredOnly, FromTheStart, Stop, Tell, Prompted, Ended, PhaseOf,
                   Prompts, Calls
<1>9. ASSUME Named \/ QrCompleted PROVE Silent \/ Ended
 BY <1>1, <1>2, <1>9 DEF Named, QrCompleted, Answered, AnsweredOnly, InterruptedAuthorized, Stop,
                   Call, Tell, Silent, Ended, Calls
<1>10. ASSUME RenewToken \/ TelegramAnswers PROVE WorkerTurns
 BY <1>10 DEF RenewToken, TelegramAnswers, WorkerTurns, Silent, Rounds, screenVars, bridgeVars,
             workerVars, tokenVars
<1> QED BY <1>2, <1>3, <1>4, <1>5, <1>6, <1>7, <1>8, <1>9, <1>10 DEF WorkerTurns

LEMMA TokensTurn ==
  ASSUME ScreenType, queue \in Seq(Commands),
         \/ NextRound \/ TokenIssued \/ TokenAccepted \/ TokenNeedsPassword \/ TokenOutdated
         \/ TokenRefused \/ TokenMigrates \/ MigratesTooOften
  PROVE  WorkerTurns
<1> USE DEF ScreenType
<1>1. /\ news \o <<>> = news
      /\ \A x \in News : news \o <<x>> = Append(news, x)
      /\ news \o <<"phone">> = Append(news, "phone")
      /\ news \o <<"qr">> = Append(news, "qr")
      /\ news \o <<"fatal">> = Append(news, "fatal")
      /\ news \o <<"error", "phone">> = Append(Append(news, "error"), "phone")
      /\ news \o (<<>> \o <<"phone">>) = Append(news, "phone")
 BY ToldFacts DEF News, Phases
<1>2. Interruption(queue) \in {"none", "restart", "shutdown"}
 BY InterruptionFacts
<1>3. CASE NextRound
 BY <1>1, <1>3 DEF NextRound, Interrupted, FromTheStart, Stop, Call, Tell, Stays, WorkerTurns, Silent,
             Prompted, Ended, Rounds, PhaseOf, Prompts, Calls, screenVars, bridgeVars, tokenVars
<1>4. ASSUME NEW kinds, NEW place, NEW follows, NEW tidings, EndRound(kinds, place, follows, tidings)
      PROVE  /\ at \in {"exporting", "importing"} /\ answer \in kinds
             /\ at' = place /\ news' = news \o tidings
             /\ UNCHANGED <<screen, progress, restarting, sent, pending>>
 BY <1>4 DEF EndRound, Tell, screenVars, bridgeVars
<1>5. CASE TokenIssued
 <2> DEFINE repeated == displayed /\ answer = "same_token"
            turn == Leads("scanning", IF repeated THEN <<>> ELSE <<"qr">>)
 <2>1. /\ queue' = AfterInterruption(queue) /\ displayed' = (turn.to = "scanning")
       /\ EndRound({"same_token", "new_token"}, turn.to, TRUE, turn.told)
  BY <1>5 DEF TokenIssued
 <2>2. \/ turn.to = "scanning" /\ turn.told = IF repeated THEN <<>> ELSE <<"qr">>
       \/ turn.to = "phone" /\ turn.told = <<"phone">>
       \/ turn.to = "stopped" /\ turn.told = <<"fatal">>
  BY <1>2 DEF Leads
 <2> HIDE DEF turn
 <2>3. /\ at \in {"exporting", "importing"}
       /\ at' = turn.to /\ news' = news \o turn.told
       /\ UNCHANGED <<screen, progress, restarting, sent, pending>>
  BY <1>4, <2>1
 <2>4. CASE turn.to = "scanning"
  BY <1>1, <2>1, <2>2, <2>3, <2>4 DEF WorkerTurns, Silent, Prompted, PhaseOf, Prompts, Calls
 <2>5. CASE turn.to # "scanning"
  BY <1>1, <2>1, <2>2, <2>3, <2>5 DEF WorkerTurns, Prompted, Ended, PhaseOf, Prompts, Calls
 <2> QED BY <2>4, <2>5
<1>6. CASE TokenAccepted
 <2> DEFINE turn == Leads("completing", <<>>)
            to == IF turn.to = "phone" THEN "cancelling" ELSE turn.to
            told == IF to = "stopped" THEN <<"fatal">> ELSE <<>>
 <2>1. /\ queue' = AfterInterruption(queue) /\ displayed' = FALSE
       /\ EndRound({"success"}, to, TRUE, told)
  BY <1>6 DEF TokenAccepted
 <2>2. /\ to \in {"completing", "cancelling", "stopped"}
       /\ told = IF to = "stopped" THEN <<"fatal">> ELSE <<>>
  BY <1>2 DEF Leads
 <2> HIDE DEF to, told
 <2>3. /\ at \in {"exporting", "importing"}
       /\ at' = to /\ news' = news \o told
       /\ UNCHANGED <<screen, progress, restarting, sent, pending>>
  BY <1>4, <2>1
 <2> QED BY <1>1, <2>1, <2>2, <2>3 DEF WorkerTurns, Silent, Ended, Calls
<1>7. CASE TokenNeedsPassword
 <2>1. /\ at \in {"exporting", "importing"} /\ at' = "loading" /\ news' = news \o <<>>
       /\ UNCHANGED <<screen, progress, restarting, sent, pending>>
  BY <1>4, <1>7 DEF TokenNeedsPassword
 <2> QED BY <1>1, <1>7, <2>1 DEF TokenNeedsPassword, WorkerTurns, Silent, Calls
<1>8. CASE TokenOutdated
 <2>1. /\ at \in {"exporting", "importing"} /\ at' = "round" /\ news' = news \o <<>>
       /\ UNCHANGED <<screen, progress, restarting, sent, pending>>
  BY <1>4, <1>8 DEF TokenOutdated
 <2> QED BY <1>1, <1>8, <2>1 DEF TokenOutdated, WorkerTurns, Silent, Rounds
<1>9. CASE TokenRefused
 <2> DEFINE turn == Leads("phone", <<"error", "phone">>)
 <2>1. /\ queue' = AfterInterruption(queue) /\ displayed' = FALSE
       /\ EndRound({"refused"}, turn.to, FALSE, turn.told)
  BY <1>9 DEF TokenRefused
 <2>2. \/ turn.to = "phone" /\ turn.told \in {<<"error", "phone">>, <<"phone">>}
       \/ turn.to = "stopped" /\ turn.told = <<"fatal">>
  BY <1>2 DEF Leads
 <2> HIDE DEF turn
 <2>3. /\ at \in {"exporting", "importing"}
       /\ at' = turn.to /\ news' = news \o turn.told
       /\ UNCHANGED <<screen, progress, restarting, sent, pending>>
  BY <1>4, <2>1
 <2> QED BY <1>1, <2>1, <2>2, <2>3 DEF WorkerTurns, Prompted, Refused, Ended, PhaseOf, Prompts, Calls
<1>10. CASE TokenMigrates
 BY <1>10 DEF TokenMigrates, WorkerTurns, Silent, Rounds, screenVars, bridgeVars
<1>11. CASE MigratesTooOften
 <2>0. at = "importing" /\ UNCHANGED <<screen, progress, restarting, sent, pending>>
  BY <1>11 DEF MigratesTooOften, screenVars, bridgeVars
 <2>1. CASE answer \in {"needs_password", "outdated"}
  BY <1>11, <2>0, <2>1 DEF MigratesTooOften, WorkerTurns, Silent, Rounds, Calls
 <2>2. CASE answer \notin {"needs_password", "outdated"}
  <3> DEFINE turn == Leads("phone", <<"error", "phone">>)
  <3>1. /\ queue' = AfterInterruption(queue) /\ displayed' = FALSE
        /\ at' = turn.to /\ news' = news \o turn.told
   BY <1>11, <2>2 DEF MigratesTooOften, Tell
  <3>2. \/ turn.to = "phone" /\ turn.told \in {<<"error", "phone">>, <<"phone">>}
        \/ turn.to = "stopped" /\ turn.told = <<"fatal">>
   BY <1>2 DEF Leads
  <3> HIDE DEF turn
  <3> QED BY <1>1, <2>0, <3>1, <3>2 DEF WorkerTurns, Prompted, Refused, Ended, PhaseOf, Prompts, Calls
 <2> QED BY <2>1, <2>2
<1> QED BY <1>3, <1>5, <1>6, <1>7, <1>8, <1>9, <1>10, <1>11

LEMMA TurnKeepsType ==
  ASSUME ScreenType, EndIsTold, WorkerTurns
  PROVE  ScreenType' /\ EndIsTold'
<1> USE DEF ScreenType, WorkerTurns
<1>1. /\ at \in Calls \cup Prompts \cup {"connecting", "round"}
      /\ at \notin {"ready", "stopped"}
      /\ at' \in Prompts \cup Calls \cup {"connecting", "round", "ready", "stopped"}
 BY DEF Silent, Prompted, Refused, Ended, Prompts, Calls, Rounds
<1>2. \A x \in News : Append(news, x) \in Seq(News)
                      /\ \A d : Holds(Append(news, x), d) <=> Holds(news, d) \/ d = x
 BY NewsFacts
<1>3. Append(news, "error") \in Seq(News) /\ {"error", "phone", "fatal", "ready"} \subseteq News
      /\ \A p \in Prompts : PhaseOf(p) \in Phases /\ PhaseOf(p) \in News
      /\ "ready" \notin Phases /\ "fatal" \notin Phases
 BY <1>2 DEF News, Phases, Prompts, PhaseOf
<1>4. /\ Append(Append(news, "error"), "phone") \in Seq(News)
      /\ \A d : Holds(Append(Append(news, "error"), "phone"), d)
                    <=> Holds(news, d) \/ d \in {"error", "phone"}
 <2>1. \A d : Holds(Append(Append(news, "error"), "phone"), d)
                   <=> Holds(Append(news, "error"), d) \/ d = "phone"
  BY <1>3, NewsFacts
 <2> QED BY <1>2, <1>3, <2>1, NewsFacts
<1>5. news' \in Seq(News)
 BY <1>2, <1>3, <1>4 DEF Silent, Prompted, Refused, Ended
<1>6. ScreenType'
 BY <1>1, <1>5
<1>7. /\ Holds(news', "ready") => Holds(news, "ready") \/ at' = "ready"
      /\ Holds(news', "fatal") => Holds(news, "fatal") \/ at' = "stopped"
 <2>1. CASE Silent
  BY <2>1 DEF Silent
 <2>2. CASE Prompted
  <3>1. PICK p \in Phases : p \in News /\ news' = Append(news, p)
   BY <1>3, <2>2 DEF Prompted
  <3>2. \A d : Holds(Append(news, p), d) <=> Holds(news, d) \/ d = p
   BY <1>2, <3>1
  <3>3. p # "ready" /\ p # "fatal"
   BY <3>1 DEF Phases
  <3> HIDE DEF ScreenType, WorkerTurns
  <3> QED BY <3>1, <3>2, <3>3
 <2>0. /\ \A d : Holds(Append(news, "error"), d) <=> Holds(news, d) \/ d = "error"
       /\ \A d : Holds(Append(news, "fatal"), d) <=> Holds(news, d) \/ d = "fatal"
       /\ \A d : Holds(Append(news, "ready"), d) <=> Holds(news, d) \/ d = "ready"
  BY <1>2, <1>3
 <2>3. CASE Refused
  <3>1. \/ news' = Append(news, "error")
        \/ news' = Append(Append(news, "error"), "phone")
   BY <2>3 DEF Refused
  <3> HIDE DEF ScreenType, WorkerTurns
  <3> QED BY <1>4, <2>0, <3>1
 <2>4. CASE Ended
  <3>1. \/ at' = "stopped" /\ news' = Append(news, "fatal")
        \/ at' = "ready" /\ news' = Append(news, "ready")
   BY <2>4 DEF Ended
  <3> HIDE DEF ScreenType, WorkerTurns
  <3> QED BY <2>0, <3>1
 <2> QED BY <2>1, <2>2, <2>3, <2>4
<1>9. screen' = screen
 OBVIOUS
<1> QED BY <1>1, <1>6, <1>7, <1>9 DEF EndIsTold

LEMMA TypeKept ==
  ASSUME ScreenType, EndIsTold, queue \in Seq(Commands), [SessionNext]_sessionVars
  PROVE  ScreenType' /\ EndIsTold'
<1>1. CASE SubmitAuth \/ StartQr \/ Escape \/ QuitSignIn \/ TakeCommand \/ PassCommand
           \/ BridgeCloses
 <2>1. /\ news' = news /\ displayed' = displayed /\ at' \in {at, "stopped"}
  BY <1>1 DEF SubmitAuth, StartQr, Escape, QuitSignIn, TakeCommand, PassCommand, BridgeCloses,
              Give, workerVars, tokenVars
 <2>2. /\ screen' \in Phases \cup {"connecting", "main", "fatal", "exited"}
       /\ progress' \in {"none", "phone", "code", "password", "qr", "scan", "restart"}
       /\ restarting' \in BOOLEAN
       /\ restarting' => screen' \in {"phone", "fatal", "exited"} /\ progress' = "restart"
       /\ screen' \in {screen, "phone", "exited"}
  <3>1. CASE SubmitAuth \/ StartQr
   BY <1>1, <3>1 DEF ScreenType, SubmitAuth, StartQr
  <3>2. CASE Escape
   BY <3>2 DEF Escape, Phases
  <3>4. CASE QuitSignIn
   BY <3>4 DEF ScreenType, QuitSignIn
  <3>3. CASE TakeCommand \/ PassCommand \/ BridgeCloses
   BY <1>1, <3>3 DEF ScreenType, TakeCommand, PassCommand, BridgeCloses, screenVars
  <3> QED BY <1>1, <3>1, <3>2, <3>3, <3>4
 <2>3. at' \in Prompts \cup Calls \cup {"connecting", "round", "ready", "stopped"}
  BY <2>1 DEF ScreenType
 <2>4. ScreenType'
  BY <2>1, <2>2, <2>3 DEF ScreenType
 <2> QED BY <2>1, <2>2, <2>4 DEF EndIsTold
<1>2. CASE HandleNews
 <2> DEFINE e == Head(news)
 <2>1. /\ news # <<>> /\ Handle(e) /\ news' = Tail(news)
       /\ UNCHANGED <<at, displayed>>
  BY <1>2 DEF HandleNews, workerVars, tokenVars
 <2>2. /\ Tail(news) \in Seq(News) /\ e \in News
       /\ \A d : Holds(news, d) <=> Holds(Tail(news), d) \/ d = e
  BY <2>1, HeardFacts DEF ScreenType
 <2> HIDE DEF e
 <2>3. /\ screen' \in Phases \cup {"connecting", "main", "fatal", "exited"}
       /\ progress' \in {"none", "phone", "code", "password", "qr", "scan", "restart"}
       /\ restarting' \in BOOLEAN
       /\ restarting' => screen' \in {"phone", "fatal", "exited"} /\ progress' = "restart"
       /\ screen' = "main" => screen = "main" \/ e = "ready"
       /\ screen' = "fatal" => screen = "fatal" \/ e = "fatal"
  BY <2>1, <2>2 DEF ScreenType, Handle, News, Phases, screenVars
 <2>4. ScreenType'
  BY <2>1, <2>2, <2>3 DEF ScreenType
 <2> QED BY <2>1, <2>2, <2>3, <2>4 DEF EndIsTold
<1>3. CASE ReadCommand
 <2>0. at \in Prompts
  BY <1>3 DEF ReadCommand
 <2>1. \/ at' = at /\ news' = news /\ displayed' = displayed
       \/ at' = "stopped" /\ news' = news \o <<"fatal">> /\ displayed' = displayed
       \/ at' = "phone" /\ news' = news \o (<<>> \o <<"phone">>) /\ displayed' = displayed
       \/ at' = "round" /\ news' = news /\ displayed' = FALSE
       \/ at' \in {"asking", "signing", "checking"} /\ news' = news /\ displayed' = displayed
  BY <1>3 DEF ReadCommand, React, Understood, CallFor, Stop, FromTheStart, Call, Stays, Tell,
              Prompts, workerVars, tokenVars
 <2>2. /\ news \o <<"fatal">> = Append(news, "fatal")
       /\ news \o (<<>> \o <<"phone">>) = Append(news, "phone")
  BY ToldFacts DEF ScreenType, News, Phases
 <2>3. \A x \in {"fatal", "phone"} :
           /\ Append(news, x) \in Seq(News)
           /\ \A d : Holds(Append(news, x), d) <=> Holds(news, d) \/ d = x
  BY NewsFacts DEF ScreenType, News, Phases
 <2>4. UNCHANGED <<screen, progress, restarting>>
  BY <1>3 DEF ReadCommand, screenVars
 <2>5. ScreenType'
  BY <2>0, <2>1, <2>2, <2>3, <2>4 DEF ScreenType, Prompts, Calls
 <2>6. at \notin {"ready", "stopped"}
  BY <2>0 DEF Prompts
 <2>7. /\ ~Holds(news, "ready") /\ ~Holds(news, "fatal") /\ screen # "main" /\ screen # "fatal"
  BY <2>6 DEF EndIsTold
 <2>8. /\ ~Holds(news', "ready")
       /\ Holds(news', "fatal") => at' = "stopped"
  BY <2>1, <2>2, <2>3, <2>7
 <2> QED BY <2>4, <2>5, <2>7, <2>8 DEF EndIsTold
<1>4. CASE Launch
 <2>1. /\ screen' = "connecting" /\ progress' = "none" /\ restarting' = FALSE
       /\ at' = "connecting" /\ displayed' = FALSE /\ news' = <<>>
  BY <1>4 DEF Launch
 <2>2. news' \in Seq(News) /\ Len(news') = 0
  BY <2>1
 <2>3. \A d : ~Holds(news', d)
  BY <2>2 DEF Holds
 <2> QED BY <2>1, <2>2, <2>3 DEF ScreenType, EndIsTold
<1>5. CASE UNCHANGED sessionVars
 BY <1>5 DEF sessionVars, screenVars, workerVars, tokenVars, ScreenType, EndIsTold
<1> QED BY <1>1, <1>2, <1>3, <1>4, <1>5, AnswersTurn, TokensTurn, TurnKeepsType DEF SessionNext

LEMMA TurnKeepsAgreement ==
  ASSUME ScreenType, QueuesType, SigningIn => Agreement, WorkerTurns, SigningIn'
  PROVE  Agreement'
<1>1. /\ UNCHANGED <<screen, progress, restarting, sent, pending>>
      /\ queue' \in {queue, AfterInterruption(queue)} /\ displayed' \in BOOLEAN
      /\ news \in Seq(News) /\ queue \in Seq(Commands)
 BY DEF WorkerTurns, ScreenType, QueuesType
<1>2. Silent \/ Prompted \/ Refused
 BY DEF WorkerTurns, Ended, SigningIn
<1>3. at \notin {"ready", "stopped", "phone"}
 BY <1>2 DEF Silent, Prompted, Refused, Rounds, Calls
<1>4. SigningIn
 BY <1>1, <1>3 DEF SigningIn
<1>5. ScreenFits /\ ToldIsShown /\ OnePermission /\ AnswerComes /\ AnswerFits
 BY <1>4 DEF Agreement
<1>6. /\ BeginsOnce(queue) => BeginsOnce(queue')
      /\ \A c : Holds(queue', c) => Holds(queue, c)
 BY <1>1, CommandFacts, BeginningFacts
<1>7. ~Idle /\ ~SignInBegun
 BY <1>3, <1>5 DEF OnePermission
<1>8. ~SignInBegun' /\ ~Idle' /\ BegunOnce' /\ ScreenFits'
      /\ \A c \in {"phone", "qr"} : ~Underway(c)'
 <2>1. ~Begins(sent) /\ ~Begins(pending) /\ ~Begins(queue')
  BY <1>6, <1>7 DEF SignInBegun, Begins
 <2>2. BegunOnce'
  BY <1>1, <1>5, <1>6, <2>1 DEF OnePermission, BegunOnce
 <2>3. \A c : Holds(sent', c) \/ Holds(pending', c) \/ Holds(queue', c) => Underway(c)
  BY <1>1, <1>6 DEF Underway
 <2>4. ScreenFits'
  BY <1>1, <1>5, <2>3 DEF ScreenFits, Underway
 <2> QED BY <1>1, <1>7, <2>1, <2>2, <2>4 DEF SignInBegun, Idle, Underway, Begins
<1>9. ASSUME Prompted
      PROVE  /\ PhaseOf(at') \in Phases /\ PhaseOf(at') \in News
             /\ (PhaseOf(at') = "phone" <=> at' = "phone")
             /\ PhaseTold(at', displayed') = PhaseOf(at')
             /\ news' # <<>> /\ ~Plain(news') /\ EndsWith(news', PhaseOf(at'))
             /\ Len(news') = Len(news) + 1 /\ Len(news) \in Nat /\ news'[Len(news')] = PhaseOf(at')
             /\ \A i \in 1..Len(news) : news'[i] = news[i]
 <2>1. /\ PhaseOf(at') \in Phases /\ PhaseOf(at') \in News
       /\ (PhaseOf(at') = "phone" <=> at' = "phone")
       /\ PhaseTold(at', displayed') = PhaseOf(at')
  BY <1>9 DEF Prompted, Prompts, PhaseOf, PhaseTold, Phases, News, Rounds
 <2> DEFINE p == PhaseOf(at')
 <2>2. p \in Phases /\ p \in News /\ news' = Append(news, p)
  BY <1>9, <2>1 DEF Prompted
 <2> HIDE DEF p
 <2>3. /\ news' # <<>> /\ ~Plain(news') /\ EndsWith(news', p)
       /\ Len(news') = Len(news) + 1 /\ Len(news) \in Nat /\ news'[Len(news')] = p
       /\ \A i \in 1..Len(news) : news'[i] = news[i]
  BY <1>1, <2>2, NewsFacts
 <2> QED BY <2>1, <2>3 DEF p
<1>14. ASSUME NEW q \in Seq(News), q = Append(news, "error")
       PROVE  /\ q # <<>> /\ Len(q) = Len(news) + 1 /\ Len(news) \in Nat
              /\ \A p : EndsWith(news, p) => EndsWith(q, p)
              /\ Plain(q) <=> Plain(news)
              /\ q[Len(q)] = "error" /\ \A i \in 1..Len(news) : q[i] = news[i]
 <2>1. "error" \in News /\ "error" \notin Phases
  BY DEF News, Phases
 <2>2. /\ q # <<>> /\ Len(q) = Len(news) + 1 /\ Len(news) \in Nat
       /\ q[Len(q)] = "error" /\ \A i \in 1..Len(news) : q[i] = news[i]
  BY <1>1, <1>14
 <2> QED BY <1>1, <1>14, <2>1, <2>2, NewsFacts
<1>15. Append(news, "error") \in Seq(News) /\ "phone" \in News /\ "phone" \in Phases
 BY <1>1, NewsFacts DEF News, Phases
<1>16. ASSUME news' = Append(Append(news, "error"), "phone")
       PROVE  /\ news' # <<>> /\ ~Plain(news') /\ EndsWith(news', "phone")
              /\ Len(news') = Len(news) + 2 /\ Len(news) \in Nat
              /\ news'[Len(news) + 2] = "phone" /\ news'[Len(news) + 1] = "error"
              /\ \A i \in 1..Len(news) : news'[i] = news[i]
 <2> DEFINE q == Append(news, "error")
 <2>1. /\ q \in Seq(News) /\ Len(q) = Len(news) + 1 /\ Len(news) \in Nat
       /\ q[Len(q)] = "error" /\ \A i \in 1..Len(news) : q[i] = news[i]
  BY <1>14, <1>15
 <2>2. news' = Append(q, "phone")
  BY <1>16
 <2> HIDE DEF q
 <2>3. news' # <<>> /\ ~Plain(news') /\ EndsWith(news', "phone")
  BY <1>15, <2>1, <2>2, NewsFacts
 <2>4. /\ Len(news') = Len(q) + 1 /\ news'[Len(q) + 1] = "phone"
       /\ \A i \in 1..Len(q) : news'[i] = q[i]
  BY <2>1, <2>2
 <2> QED BY <2>1, <2>3, <2>4
<1>10. /\ at' = "scanning" => displayed'
       /\ \A i \in 1..Len(news') : news'[i] = "phone" => i = Len(news') /\ at' = "phone"
       /\ at' = "asking" => news' = <<>> /\ progress \in {"phone", "restart"}
       /\ at' \in Rounds /\ ~displayed' => news' = <<>> /\ progress \in {"qr", "restart"}
 <2>0. \A i \in 1..Len(news) : news[i] # "phone"
  BY <1>3, <1>5 DEF OnePermission
 <2>1. CASE Silent
  BY <1>3, <1>5, <2>0, <2>1 DEF Silent, OnePermission, Rounds, Calls
 <2>2. CASE Prompted
  <3>1. at' \in {"phone", "code", "password", "scanning"} /\ (at' = "scanning" => displayed')
   BY <2>2 DEF Prompted, Prompts
  <3>2. \A i \in 1..Len(news') : i \in 1..Len(news) \/ i = Len(news')
   BY <1>9, <2>2
  <3> QED BY <1>9, <2>0, <2>2, <3>1, <3>2 DEF Rounds
 <2>3. CASE Refused
  <3>1. at' \in {"phone", "code", "password"}
   BY <2>3 DEF Refused
  <3>2. CASE news' = Append(news, "error")
   <4>1. /\ Len(news') = Len(news) + 1 /\ Len(news) \in Nat
         /\ news'[Len(news')] = "error" /\ \A i \in 1..Len(news) : news'[i] = news[i]
    BY <1>14, <1>15, <3>2
   <4>2. \A i \in 1..Len(news') : i \in 1..Len(news) \/ i = Len(news')
    BY <4>1
   <4> QED BY <2>0, <3>1, <4>1, <4>2 DEF Rounds
  <3>3. CASE news' = Append(Append(news, "error"), "phone")
   <4>1. at' = "phone" \/ news' = Append(news, "error")
    BY <2>3 DEF Refused
   <4>2. \A i \in 1..Len(news') :
             i \in 1..Len(news) \/ i = Len(news) + 1 \/ i = Len(news')
    BY <1>16, <3>3
   <4> QED BY <1>16, <2>0, <3>1, <3>2, <3>3, <4>1, <4>2 DEF Rounds
  <3> QED BY <2>3, <3>2, <3>3 DEF Refused
 <2> QED BY <1>2, <2>1, <2>2, <2>3
<1>11. ToldIsShown'
 <2>1. CASE Silent
  <3>1. \/ PhaseTold(at', displayed') = "none"
        \/ PhaseTold(at', displayed') = PhaseTold(at, displayed)
   BY <1>5, <2>1 DEF Silent, PhaseTold, Rounds, Calls, OnePermission
  <3> QED BY <1>1, <1>5, <2>1, <3>1 DEF Silent, ToldIsShown
 <2>2. CASE Prompted
  BY <1>9, <2>2 DEF ToldIsShown
 <2>3. CASE Refused
  <3>1. CASE news' = Append(news, "error") /\ displayed' = displayed
             /\ PhaseTold(at', displayed') = PhaseTold(at, displayed)
   <4>1. /\ \A p : EndsWith(news, p) => EndsWith(news', p)
         /\ Plain(news') <=> Plain(news)
    BY <1>14, <1>15, <3>1
   <4> QED BY <1>1, <1>5, <3>1, <4>1 DEF ToldIsShown
  <3>2. CASE news' = Append(Append(news, "error"), "phone") /\ at' = "phone"
   BY <1>16, <3>2 DEF ToldIsShown, PhaseTold
  <3> QED BY <2>3, <3>1, <3>2 DEF Refused, PhaseTold, Rounds
 <2> QED BY <1>2, <2>1, <2>2, <2>3
<1>12. AnswerComes'
 <2>1. CASE Silent
  <3>1. SUFFICES ASSUME progress \in {"phone", "code", "password", "qr"},
                        at' \in Prompts, news = <<>>
                 PROVE  FALSE
   BY <1>1, <2>1 DEF AnswerComes, Silent
  <3>2. at \in {"exporting", "importing"} /\ displayed
   BY <2>1, <3>1 DEF Silent, Prompts, Calls, Rounds
  <3>3. PhaseTold(at, displayed) = "qr" /\ Plain(news)
   BY <3>1, <3>2 DEF PhaseTold, Rounds, Plain
  <3>4. ~restarting /\ screen # "qr"
   BY <1>5, <3>1 DEF ScreenFits
  <3> QED BY <1>5, <3>3, <3>4 DEF ToldIsShown
 <2>2. CASE Prompted
  BY <1>9, <2>2 DEF AnswerComes
 <2>3. CASE Refused
  BY <1>14, <1>15, <1>16, <2>3 DEF AnswerComes, Refused
 <2> QED BY <1>2, <2>1, <2>2, <2>3
<1>13. AnswerFits'
 <2> SUFFICES ASSUME progress \in {"phone", "qr"}, news' # <<>>
              PROVE  \/ news'[1] \in Phases
                     \/ /\ progress = "qr" /\ Len(news') >= 2
                        /\ news'[1] = "error" /\ news'[2] = "phone"
                     \/ progress = "phone" /\ news' = <<"error">> /\ at' = "phone"
  BY <1>1 DEF AnswerFits
 <2>1. ~restarting /\ screen = "phone"
  BY <1>5 DEF ScreenFits
 <2>2. /\ Len(news') >= Len(news) /\ Len(news) \in Nat
       /\ \A i \in 1..Len(news) : news'[i] = news[i]
  <3>1. CASE Silent
   BY <1>1, <3>1 DEF Silent
  <3> QED BY <1>2, <1>9, <1>14, <1>15, <1>16, <3>1 DEF Refused
 <2>3. CASE news # <<>>
  <3>1. Len(news) >= 1 /\ 1 \in 1..Len(news)
   BY <1>1, <2>2, <2>3
  <3>2. Len(news) >= 2 => 2 \in 1..Len(news)
   BY <2>2
  <3> QED BY <1>1, <1>3, <1>5, <2>2, <2>3, <3>1, <3>2 DEF AnswerFits
 <2>4. CASE news = <<>>
  <3>0. Plain(news) /\ Len(news) = 0
   BY <2>4 DEF Plain
  <3>1. ~Silent
   BY <2>4 DEF Silent
  <3>2. CASE Prompted
   <4>1. Len(news') = 1 /\ news'[Len(news')] \in Phases
    BY <1>9, <3>0, <3>2
   <4>2. news'[1] \in Phases
    BY <4>1
   <4> QED BY <4>2
  <3>3. CASE Refused
   <4>1. PhaseTold(at, displayed) \in {"none", "phone"}
    BY <1>5, <2>1, <3>0 DEF ToldIsShown
   <4>2. CASE at = "asking" /\ at' = "phone" /\ news' = Append(news, "error")
    BY <1>5, <2>4, <4>2 DEF OnePermission
   <4>3. CASE at \in {"exporting", "importing"}
              /\ news' = Append(Append(news, "error"), "phone")
    <5>1. ~displayed
     BY <4>1, <4>3 DEF PhaseTold, Rounds
    <5>2. progress = "qr"
     BY <1>5, <4>3, <5>1 DEF OnePermission, Rounds
    <5> QED BY <1>16, <3>0, <4>3, <5>2
   <4> QED BY <3>3, <4>1, <4>2, <4>3 DEF Refused, PhaseTold
  <3> QED BY <1>2, <3>1, <3>2, <3>3
 <2> QED BY <2>3, <2>4
<1> QED BY <1>1, <1>8, <1>10, <1>11, <1>12, <1>13 DEF Agreement, OnePermission

(* The user. *)
LEMMA UserKeepsAgreement ==
  ASSUME ScreenType, QueuesType, SigningIn => Agreement, SigningIn',
         SubmitAuth \/ StartQr \/ Escape \/ QuitSignIn
  PROVE  Agreement'
<1>1. ~QuitSignIn
 BY DEF QuitSignIn, SigningIn
<1>2. /\ UNCHANGED <<pending, queue, news, at, displayed>>
      /\ sent \in Seq(Commands)
 BY <1>1 DEF SubmitAuth, StartQr, Escape, Give, workerVars, tokenVars, QueuesType
<1>3. SigningIn
 BY <1>1, <1>2 DEF SigningIn, SubmitAuth, StartQr, Escape, Phases
<1>4. ScreenFits /\ ToldIsShown /\ OnePermission /\ AnswerComes /\ AnswerFits
 BY <1>3 DEF Agreement
<1>5. \A c \in Commands : \A d : Holds(Append(sent, c), d) <=> Holds(sent, d) \/ d = c
 BY <1>2, CommandFacts
<1>6. \A c \in Commands : c \notin {"phone", "qr"} \/ ~Begins(sent) => BeginsOnce(Append(sent, c))
 BY <1>2, <1>4, BeginningFacts DEF OnePermission, BegunOnce
<1>7. CASE SubmitAuth \/ StartQr
 <2>1. PICK c \in {"phone", "qr", "code", "password"} :
           /\ sent' = Append(sent, c) /\ progress' = c /\ progress = "none"
           /\ UNCHANGED <<screen, restarting>>
           /\ c \in {"phone", "qr"} => screen = "phone"
           /\ c \in {"code", "password"} => screen = c
  BY <1>7 DEF SubmitAuth, StartQr, Give
 <2>2. c \in Commands /\ \A d : Holds(sent', d) <=> Holds(sent, d) \/ d = c
  BY <1>5, <2>1 DEF Commands
 <2>3. ~restarting
  BY <1>4, <2>1 DEF ScreenFits
 <2>4. /\ \A d : Underway(d) \/ d = c <=> Holds(sent', d) \/ Holds(pending', d) \/ Holds(queue', d)
  BY <1>2, <2>2 DEF Underway
 <2>5. ScreenFits' /\ ToldIsShown' /\ AnswerComes'
  BY <1>2, <1>4, <2>1, <2>3, <2>4 DEF ScreenFits, ToldIsShown, AnswerComes, Underway
 <2>6. ~Underway("phone") /\ ~Underway("qr") /\ ~SignInBegun
  <3>1. ~Underway("phone") /\ ~Underway("qr")
   BY <1>4, <2>1 DEF OnePermission
  <3> QED BY <3>1 DEF Underway, SignInBegun, Begins
 <2>7. CASE c \in {"phone", "qr"}
  <3>1. Idle
   BY <2>1, <2>7 DEF Idle
  <3>2. at = "phone" /\ news = <<>> /\ ~Idle'
   BY <1>4, <2>1, <3>1 DEF OnePermission, Idle
  <3>3. BeginsOnce(sent') /\ ~Begins(pending') /\ ~Begins(queue')
   BY <1>2, <1>6, <2>1, <2>2, <2>6 DEF SignInBegun
  <3>4. BegunOnce'
   BY <1>2, <1>4, <3>3 DEF OnePermission, BegunOnce
  <3>5. OnePermission'
   BY <1>2, <1>4, <2>1, <2>4, <2>6, <3>2, <3>4 DEF OnePermission, Underway, Rounds
  <3>6. AnswerFits'
   BY <1>2, <3>2 DEF AnswerFits
  <3> QED BY <2>5, <3>5, <3>6 DEF Agreement
 <2>8. CASE c \in {"code", "password"}
  <3>1. BeginsOnce(sent') /\ ~Begins(sent') /\ ~Begins(pending') /\ ~Begins(queue')
   BY <1>2, <1>6, <2>1, <2>2, <2>6, <2>8 DEF SignInBegun, Begins
  <3>2. BegunOnce' /\ ~SignInBegun'
   BY <1>2, <1>4, <3>1 DEF OnePermission, BegunOnce, SignInBegun
  <3>3. ~Idle' /\ at # "asking" /\ (at \in Rounds => displayed)
   BY <1>4, <2>1, <2>8 DEF OnePermission, Idle
  <3>4. OnePermission'
   BY <1>2, <1>4, <2>4, <2>6, <2>8, <3>2, <3>3 DEF OnePermission, Underway
  <3>5. AnswerFits'
   BY <2>1, <2>8 DEF AnswerFits
  <3> QED BY <2>5, <3>4, <3>5 DEF Agreement
 <2> QED BY <2>7, <2>8
<1>8. CASE Escape
 <2>1. /\ sent' = Append(sent, "restart") /\ progress' = "restart" /\ restarting' /\ ~restarting
       /\ screen' = "phone" /\ ~Idle
  BY <1>8 DEF Escape, Give, Idle
 <2>2. "restart" \in Commands /\ \A d : Holds(sent', d) <=> Holds(sent, d) \/ d = "restart"
  BY <1>5, <2>1 DEF Commands
 <2>3. /\ \A d : Underway(d) \/ d = "restart"
                   <=> Holds(sent', d) \/ Holds(pending', d) \/ Holds(queue', d)
  BY <1>2, <2>2 DEF Underway
 <2>4. ScreenFits' /\ ToldIsShown' /\ AnswerComes' /\ AnswerFits' /\ ~Idle'
  BY <1>2, <1>4, <2>1, <2>3 DEF ScreenFits, ToldIsShown, AnswerComes, AnswerFits, Underway, Idle
 <2>5. (Begins(sent') <=> Begins(sent)) /\ BeginsOnce(sent')
  BY <1>6, <2>1, <2>2 DEF Begins
 <2>6. BegunOnce' /\ (SignInBegun' <=> SignInBegun)
  BY <1>2, <1>4, <2>5 DEF OnePermission, BegunOnce, SignInBegun
 <2>7. OnePermission'
  BY <1>2, <1>4, <2>1, <2>4, <2>6 DEF OnePermission
 <2> QED BY <2>4, <2>7 DEF Agreement
<1> QED BY <1>1, <1>7, <1>8

(* The bridge. *)
LEMMA BridgeKeepsAgreement ==
  ASSUME ScreenType, QueuesType, SigningIn => Agreement, SigningIn',
         TakeCommand \/ PassCommand \/ BridgeCloses
  PROVE  Agreement'
<1>1. /\ ~BridgeCloses
      /\ UNCHANGED <<screen, progress, restarting, news, at, displayed>>
 BY DEF TakeCommand, PassCommand, BridgeCloses, SigningIn, screenVars, workerVars, tokenVars
<1>3. SigningIn
 BY <1>1 DEF SigningIn
<1>4. ScreenFits /\ ToldIsShown /\ OnePermission /\ AnswerComes /\ AnswerFits
 BY <1>3 DEF Agreement
<1>5. BegunOnce
 BY <1>4 DEF OnePermission
<1>6. /\ \A d : Holds(sent', d) \/ Holds(pending', d) \/ Holds(queue', d) <=> Underway(d)
      /\ BegunOnce'
 <2>1. CASE TakeCommand
  <3> DEFINE c == Head(sent)
  <3>1. /\ sent # <<>> /\ c \in Commands
        /\ pending' = <<c>> \o pending /\ sent' = Tail(sent) /\ queue' = queue
   BY <2>1, SequenceFacts DEF TakeCommand, QueuesType
  <3> HIDE DEF c
  <3>2. /\ \A d : Holds(pending', d) <=> Holds(pending, d) \/ d = c
        /\ \A d : Holds(sent, d) <=> Holds(sent', d) \/ d = c
   BY <3>1, CommandFacts DEF QueuesType, c
  <3>3. /\ c \notin {"phone", "qr"} \/ ~Begins(pending) => BeginsOnce(pending')
        /\ BeginsOnce(sent') /\ (c \in {"phone", "qr"} => ~Begins(sent'))
   BY <1>5, <3>1, BeginningFacts DEF QueuesType, BegunOnce, c
  <3>4. /\ Begins(sent) <=> Begins(sent') \/ c \in {"phone", "qr"}
        /\ Begins(pending') <=> Begins(pending) \/ c \in {"phone", "qr"}
   BY <3>2 DEF Begins
  <3>5. BegunOnce'
   BY <1>5, <3>1, <3>3, <3>4 DEF BegunOnce
  <3> QED BY <3>1, <3>2, <3>5 DEF Underway
 <2>2. CASE PassCommand
  <3> DEFINE c == Head(pending)
  <3>1. /\ pending # <<>> /\ c \in Commands
        /\ queue' = Append(queue, c) /\ pending' = Tail(pending) /\ sent' = sent
   BY <2>2, SequenceFacts DEF PassCommand, QueuesType
  <3> HIDE DEF c
  <3>2. /\ \A d : Holds(queue', d) <=> Holds(queue, d) \/ d = c
        /\ \A d : Holds(pending, d) <=> Holds(pending', d) \/ d = c
   BY <3>1, CommandFacts DEF QueuesType, c
  <3>3. /\ c \notin {"phone", "qr"} \/ ~Begins(queue) => BeginsOnce(queue')
        /\ BeginsOnce(pending') /\ (c \in {"phone", "qr"} => ~Begins(pending'))
   BY <1>5, <3>1, BeginningFacts DEF QueuesType, BegunOnce, c
  <3>4. /\ Begins(pending) <=> Begins(pending') \/ c \in {"phone", "qr"}
        /\ Begins(queue') <=> Begins(queue) \/ c \in {"phone", "qr"}
   BY <3>2 DEF Begins
  <3>5. BegunOnce'
   BY <1>5, <3>1, <3>3, <3>4 DEF BegunOnce
  <3> QED BY <3>1, <3>2, <3>5 DEF Underway
 <2> QED BY <1>1, <2>1, <2>2
<1>7. SignInBegun' <=> SignInBegun
 <2>1. SignInBegun <=> Underway("phone") \/ Underway("qr")
  BY DEF SignInBegun, Begins, Underway
 <2>2. SignInBegun' <=> \E d \in {"phone", "qr"} :
                     Holds(sent', d) \/ Holds(pending', d) \/ Holds(queue', d)
  BY DEF SignInBegun, Begins
 <2> QED BY <1>6, <2>1, <2>2
<1>8. ScreenFits' /\ ToldIsShown' /\ AnswerComes' /\ AnswerFits'
 BY <1>1, <1>4, <1>6 DEF ScreenFits, ToldIsShown, AnswerComes, AnswerFits, Underway
<1>9. OnePermission'
 BY <1>1, <1>4, <1>6, <1>7 DEF OnePermission, Idle, Underway
<1> QED BY <1>8, <1>9 DEF Agreement

(* The screen hears what the worker told. *)
LEMMA HearingKeepsAgreement ==
  ASSUME ScreenType, EndIsTold, SigningIn => Agreement, SigningIn', HandleNews
  PROVE  Agreement'
<1> DEFINE e == Head(news)
<1>1. /\ news # <<>> /\ Handle(e) /\ news' = Tail(news)
      /\ UNCHANGED <<sent, pending, queue, at, displayed>>
 BY DEF HandleNews, workerVars, tokenVars, bridgeVars
<1>2. /\ e \in News /\ e = news[1] /\ news \in Seq(News)
      /\ \A d : Holds(news, d) <=> Holds(news', d) \/ d = e
      /\ \A p : EndsWith(news, p) => EndsWith(news', p)
      /\ \A p : EndsWith(news, p) /\ Plain(news') /\ e \in Phases => e = p
      /\ e \notin Phases => (Plain(news') <=> Plain(news))
      /\ Len(news) = 1 => news' = <<>>
      /\ Len(news) >= 2 => news' # <<>> /\ news'[1] = news[2]
      /\ Len(news) = Len(news') + 1 /\ Len(news') \in Nat
      /\ \A i \in 1..Len(news') : news'[i] = news[i + 1] /\ i + 1 \in 1..Len(news)
 BY <1>1, HeardFacts DEF ScreenType
<1> HIDE DEF e
<1>3. e \in Phases \cup {"error"}
 <2>1. e # "ready" /\ e # "fatal"
  BY <1>1, <1>2 DEF EndIsTold, SigningIn
 <2> QED BY <1>2, <2>1 DEF News
<1>4. SigningIn
 <2>1. at \notin {"ready", "stopped"}
  BY <1>1 DEF SigningIn
 <2>2. screen \notin {"main", "fatal"}
  BY <2>1 DEF EndIsTold
 <2>3. screen # "exited"
  BY DEF HandleNews
 <2> QED BY <2>1, <2>2, <2>3 DEF SigningIn
<1>5. ScreenFits /\ ToldIsShown /\ OnePermission /\ AnswerComes /\ AnswerFits
 BY <1>4 DEF Agreement
<1>6. /\ ~SignInBegun /\ ~Idle
      /\ at # "asking" /\ (at \in Rounds => displayed)
 BY <1>1, <1>5 DEF OnePermission
<1>7. /\ e \in Phases /\ restarting /\ e # "phone" => UNCHANGED <<screen, progress, restarting>>
      /\ e \in Phases /\ (~restarting \/ e = "phone") =>
            /\ screen' = e /\ restarting' = FALSE
            /\ progress' = IF e = "qr" THEN "scan" ELSE "none"
      /\ e = "error" => /\ UNCHANGED <<screen, restarting>>
                        /\ progress' = IF restarting \/ progress \in {"qr", "scan"} THEN progress
                                       ELSE "none"
 BY <1>1, <1>3 DEF Handle, Phases, screenVars, ScreenType
<1>8. ScreenFits'
 BY <1>1, <1>3, <1>5, <1>7 DEF ScreenFits, Underway, Phases
<1>9. ToldIsShown'
 <2> SUFFICES ASSUME PhaseTold(at, displayed) # "none"
              PROVE  /\ EndsWith(news', PhaseTold(at, displayed))
                     /\ Plain(news') /\ ~restarting' => screen' = PhaseTold(at, displayed)
  BY <1>1 DEF ToldIsShown
 <2>1. EndsWith(news, PhaseTold(at, displayed))
  BY <1>5 DEF ToldIsShown
 <2>2. CASE e \in Phases
  <3>1. Plain(news') => e = PhaseTold(at, displayed)
   BY <1>2, <2>1, <2>2
  <3>2. ~restarting' => screen' = e
   BY <1>7, <2>2
  <3> QED BY <1>2, <2>1, <3>1, <3>2
 <2>3. CASE e = "error"
  BY <1>2, <1>5, <1>7, <2>1, <2>3 DEF ToldIsShown, Phases
 <2> QED BY <1>3, <2>2, <2>3
<1>10. ~SignInBegun'
 BY <1>1, <1>6 DEF SignInBegun
<1>11. ASSUME Idle' PROVE at = "phone" /\ news' = <<>>
 <2>1. CASE e \in Phases
  <3>1. e = "phone"
   BY <1>5, <1>7, <1>11, <2>1 DEF Idle, ScreenFits
  <3>2. 1 \in 1..Len(news)
   BY <1>2
  <3>3. Len(news) = 1 /\ at = "phone"
   BY <1>2, <1>5, <3>1, <3>2 DEF OnePermission
  <3> QED BY <1>2, <3>3
 <2>2. CASE e = "error"
  <3>1. screen = "phone" /\ progress # "none" /\ progress \notin {"qr", "scan", "restart"}
   BY <1>5, <1>6, <1>7, <1>11, <2>2 DEF Idle, ScreenFits
  <3>2. progress = "phone"
   BY <1>5, <3>1 DEF ScreenFits, ScreenType
  <3>3. news = <<"error">> /\ at = "phone"
   BY <1>1, <1>2, <1>5, <2>2, <3>2 DEF AnswerFits, Phases
  <3>4. Len(news) = 1
   BY <3>3
  <3> QED BY <1>2, <3>3, <3>4
 <2> QED BY <1>3, <2>1, <2>2
<1>12. \A i \in 1..Len(news') : news'[i] = "phone" => i = Len(news') /\ at = "phone"
 <2> SUFFICES ASSUME NEW i \in 1..Len(news'), news'[i] = "phone"
              PROVE  i = Len(news') /\ at = "phone"
  OBVIOUS
 <2>1. i + 1 \in 1..Len(news) /\ news[i + 1] = "phone"
  BY <1>2
 <2>2. i + 1 = Len(news) /\ at = "phone"
  BY <1>5, <2>1 DEF OnePermission
 <2> QED BY <1>2, <2>2
<1>13. OnePermission'
 <2>1. BegunOnce'
  BY <1>1, <1>5 DEF OnePermission, BegunOnce
 <2>2. \A c \in {"phone", "qr"} : ~Underway(c)'
  BY <1>10 DEF SignInBegun, Begins, Underway
 <2> QED BY <1>1, <1>5, <1>6, <1>10, <1>11, <1>12, <2>1, <2>2 DEF OnePermission
<1>14. ASSUME progress' \in {"phone", "code", "password", "qr"}
       PROVE  progress = "qr" /\ progress' = "qr" /\ e = "error"
 <2>1. e = "error"
  BY <1>3, <1>5, <1>7, <1>14 DEF ScreenFits
 <2> QED BY <1>5, <1>7, <1>14, <2>1 DEF ScreenFits
<1>15. progress = "qr" /\ e = "error" => news' # <<>> /\ news'[1] = "phone"
 BY <1>1, <1>2, <1>5 DEF AnswerFits, Phases
<1>16. AnswerComes' /\ AnswerFits'
 BY <1>14, <1>15 DEF AnswerComes, AnswerFits, Phases
<1> QED BY <1>8, <1>9, <1>13, <1>16 DEF Agreement

(* The worker reads a command. *)
LEMMA ReadingKeepsAgreement ==
  ASSUME ScreenType, QueuesType, SigningIn => Agreement, SigningIn', ReadCommand
  PROVE  Agreement'
<1> DEFINE c == Head(queue)
<1>1. /\ at \in Prompts /\ queue # <<>> /\ React(c) /\ queue' = Tail(queue)
      /\ UNCHANGED <<screen, progress, restarting, sent, pending>>
 BY DEF ReadCommand, screenVars, bridgeVars
<1>2. /\ c \in Commands /\ queue \in Seq(Commands) /\ news \in Seq(News)
      /\ \A d : Holds(queue, d) <=> Holds(queue', d) \/ d = c
 BY <1>1, CommandFacts, SequenceFacts DEF QueuesType, ScreenType
<1>3. SigningIn
 BY <1>1 DEF SigningIn, Prompts
<1>5. ScreenFits /\ ToldIsShown /\ OnePermission /\ AnswerComes /\ AnswerFits
 BY <1>3 DEF Agreement
<1>6. BeginsOnce(queue') /\ (c \in {"phone", "qr"} => ~Begins(queue'))
 BY <1>1, <1>2, <1>5, BeginningFacts DEF OnePermission, BegunOnce
<1> HIDE DEF c
<1>7. Begins(queue) <=> Begins(queue') \/ c \in {"phone", "qr"}
 BY <1>2 DEF Begins
<1>8. BegunOnce' /\ (SignInBegun' => SignInBegun) /\ (c \in {"phone", "qr"} => SignInBegun /\ ~SignInBegun')
 BY <1>1, <1>5, <1>6, <1>7 DEF OnePermission, BegunOnce, SignInBegun
<1>9. c # "shutdown"
 BY <1>2, <1>5 DEF ScreenFits, Underway
<1>10. \A d : /\ Holds(sent', d) \/ Holds(pending', d) \/ Holds(queue', d) => Underway(d)
              /\ Underway(d) /\ d # c => Holds(sent', d) \/ Holds(pending', d) \/ Holds(queue', d)
 BY <1>1, <1>2 DEF Underway
<1>11. ScreenFits'
 BY <1>1, <1>5, <1>10 DEF ScreenFits, Underway
<1>12. \A d \in {"phone", "qr"} : Underway(d)' => progress \in {d, "restart"}
 BY <1>5, <1>10 DEF OnePermission, Underway
<1>13. news \o (<<>> \o <<"phone">>) = Append(news, "phone")
 BY <1>2, ToldFacts DEF News, Phases
<1>14. \/ c \notin Understood(at) /\ UNCHANGED <<at, news, displayed>>
       \/ /\ c = "restart" /\ at # "phone" /\ at' = "phone" /\ displayed' = displayed
          /\ news' = Append(news, "phone")
       \/ c = "qr" /\ at = "phone" /\ at' = "round" /\ displayed' = FALSE /\ news' = news
       \/ c = "phone" /\ at = "phone" /\ at' = "asking" /\ displayed' = displayed /\ news' = news
       \/ c = "code" /\ at = "code" /\ at' = "signing" /\ displayed' = displayed /\ news' = news
       \/ /\ c = "password" /\ at = "password" /\ at' = "checking" /\ displayed' = displayed
          /\ news' = news
 BY <1>1, <1>9, <1>13 DEF React, Understood, CallFor, FromTheStart, Call, Stays, Tell, Prompts,
                          workerVars, tokenVars
<1>15. CASE c \notin Understood(at) /\ UNCHANGED <<at, news, displayed>>
 <2>1. ToldIsShown' /\ AnswerFits'
  BY <1>1, <1>5, <1>15 DEF ToldIsShown, AnswerFits
 <2>2. OnePermission'
  BY <1>1, <1>5, <1>8, <1>12, <1>15 DEF OnePermission, Idle
 <2>3. AnswerComes'
  <3> SUFFICES ASSUME progress \in {"phone", "code", "password", "qr"}, c = progress,
                      news = <<>>
               PROVE  FALSE
   BY <1>1, <1>5, <1>10, <1>15 DEF AnswerComes, Underway
  <3>1. ~restarting /\ (progress \in {"code", "password"} => screen = progress)
        /\ (progress \in {"phone", "qr"} => screen = "phone")
   BY <1>5 DEF ScreenFits
  <3>2. Plain(news) /\ PhaseTold(at, displayed) = PhaseOf(at)
   BY <1>1 DEF Plain, PhaseTold, PhaseOf, Prompts
  <3>3. screen = PhaseOf(at)
   BY <1>1, <1>5, <3>1, <3>2 DEF ToldIsShown, PhaseOf, Prompts
  <3> QED BY <1>1, <1>15, <3>1, <3>3 DEF PhaseOf, Prompts, Understood
 <2> QED BY <1>11, <2>1, <2>2, <2>3 DEF Agreement
<1>16. CASE c = "restart" /\ at # "phone" /\ at' = "phone" /\ displayed' = displayed
            /\ news' = Append(news, "phone")
 <2>1. /\ news' # <<>> /\ ~Plain(news') /\ EndsWith(news', "phone")
       /\ Len(news') = Len(news) + 1 /\ Len(news) \in Nat
       /\ \A i \in 1..Len(news) : news'[i] = news[i]
  <3>1. "phone" \in News /\ "phone" \in Phases
   BY DEF News, Phases
  <3>2. news' # <<>> /\ ~Plain(news') /\ EndsWith(news', "phone")
   BY <1>2, <1>16, <3>1, NewsFacts
  <3> QED BY <1>2, <1>16, <3>2
 <2>2. ~Idle /\ ~SignInBegun /\ ~SignInBegun'
  BY <1>5, <1>8, <1>16 DEF OnePermission
 <2>3. \A i \in 1..Len(news') : news'[i] = "phone" => i = Len(news')
  BY <1>5, <1>16, <2>1 DEF OnePermission
 <2>4. ToldIsShown' /\ AnswerComes'
  BY <1>16, <2>1 DEF ToldIsShown, AnswerComes, PhaseTold
 <2>5. OnePermission'
  BY <1>1, <1>8, <1>12, <1>16, <2>2, <2>3 DEF OnePermission, Idle, Rounds
 <2>6. AnswerFits'
  <3>1. CASE news = <<>>
   <4>1. news'[1] = "phone"
    BY <1>16, <3>1
   <4> QED BY <4>1 DEF AnswerFits, Phases
  <3>2. CASE news # <<>>
   <4>1. Len(news) >= 1 /\ 1 \in 1..Len(news) /\ (Len(news) >= 2 => 2 \in 1..Len(news))
    BY <1>2, <3>2
   <4> QED BY <1>1, <1>5, <1>16, <2>1, <3>2, <4>1 DEF AnswerFits
  <3> QED BY <3>1, <3>2
 <2> QED BY <1>11, <2>4, <2>5, <2>6 DEF Agreement
<1>17. CASE \/ c = "qr" /\ at = "phone" /\ at' = "round" /\ displayed' = FALSE /\ news' = news
            \/ /\ c = "phone" /\ at = "phone" /\ at' = "asking" /\ displayed' = displayed
               /\ news' = news
 <2>1. SignInBegun /\ ~SignInBegun' /\ ~Idle /\ news = <<>> /\ progress \in {c, "restart"}
  BY <1>1, <1>2, <1>5, <1>8, <1>17 DEF OnePermission, Underway
 <2>2. ToldIsShown'
  BY <1>1, <1>5, <1>17 DEF ToldIsShown, PhaseTold, Rounds
 <2>3. OnePermission'
  <3>1. Len(news') = 0
   BY <1>17, <2>1
  <3> QED BY <1>1, <1>8, <1>12, <1>17, <2>1, <3>1 DEF OnePermission, Idle, Rounds
 <2>4. AnswerComes' /\ AnswerFits'
  BY <1>17, <2>1 DEF AnswerComes, AnswerFits, Prompts
 <2> QED BY <1>11, <2>2, <2>3, <2>4 DEF Agreement
<1>18. CASE \/ /\ c = "code" /\ at = "code" /\ at' = "signing" /\ displayed' = displayed
               /\ news' = news
            \/ /\ c = "password" /\ at = "password" /\ at' = "checking"
               /\ displayed' = displayed /\ news' = news
 <2>1. ~SignInBegun /\ ~SignInBegun' /\ ~Idle
  BY <1>5, <1>8, <1>18 DEF OnePermission
 <2>2. ToldIsShown'
  BY <1>1, <1>5, <1>18 DEF ToldIsShown, PhaseTold
 <2>3. OnePermission'
  BY <1>1, <1>5, <1>8, <1>12, <1>18, <2>1 DEF OnePermission, Idle, Rounds
 <2>4. AnswerComes' /\ AnswerFits'
  BY <1>1, <1>5, <1>18 DEF AnswerComes, AnswerFits, Prompts
 <2> QED BY <1>11, <2>2, <2>3, <2>4 DEF Agreement
<1> QED BY <1>14, <1>15, <1>16, <1>17, <1>18

LEMMA AgreementBegins == SessionInit => AgreementInv
<1> SUFFICES ASSUME SessionInit PROVE AgreementInv
 OBVIOUS
<1>1. /\ screen = "connecting" /\ progress = "none" /\ restarting = FALSE
      /\ at = "connecting" /\ displayed = FALSE
      /\ sent = <<>> /\ pending = <<>> /\ queue = <<>> /\ news = <<>>
 BY DEF SessionInit
<1>2. news \in Seq(News) /\ Len(<<>>) = 0
 BY <1>1
<1>3. \A c : ~Holds(<<>>, c)
 BY <1>2 DEF Holds
<1>4. ScreenType /\ EndIsTold
 BY <1>1, <1>2, <1>3 DEF ScreenType, EndIsTold
<1>5. BeginsOnce(<<>>) /\ ~Begins(<<>>) /\ ~SignInBegun /\ ~Idle
 BY <1>1, <1>2, <1>3 DEF BeginsOnce, Begins, SignInBegun, Idle
<1>6. ScreenFits /\ ToldIsShown /\ AnswerComes /\ AnswerFits
 BY <1>1, <1>3 DEF ScreenFits, ToldIsShown, AnswerComes, AnswerFits, Underway, PhaseTold, Rounds
<1>7. OnePermission
 BY <1>1, <1>2, <1>3, <1>5 DEF OnePermission, BegunOnce, Underway, Rounds
<1> QED BY <1>4, <1>6, <1>7 DEF AgreementInv, Agreement

LEMMA AgreementKept ==
  ASSUME AgreementInv, QueuesType, [SessionNext]_sessionVars
  PROVE  AgreementInv'
<1>1. ScreenType /\ EndIsTold /\ (SigningIn => Agreement) /\ queue \in Seq(Commands)
 BY DEF AgreementInv, QueuesType
<1>2. ScreenType' /\ EndIsTold'
 BY <1>1, TypeKept
<1>3. ASSUME SigningIn' PROVE Agreement'
 <2>1. CASE Launch
  <3>1. /\ screen' = "connecting" /\ progress' = "none" /\ restarting' = FALSE
        /\ at' = "connecting" /\ displayed' = FALSE
        /\ sent' = <<>> /\ pending' = <<>> /\ queue' = <<>> /\ news' = <<>>
   BY <2>1 DEF Launch
  <3>2. Len(<<>>) = 0 /\ \A c : ~Holds(<<>>, c)
   BY DEF Holds
  <3>3. BeginsOnce(<<>>) /\ ~Begins(<<>>) /\ ~SignInBegun' /\ ~Idle'
   BY <3>1, <3>2 DEF BeginsOnce, Begins, SignInBegun, Idle
  <3>4. ScreenFits' /\ ToldIsShown' /\ AnswerComes' /\ AnswerFits'
   BY <3>1, <3>2 DEF ScreenFits, ToldIsShown, AnswerComes, AnswerFits, Underway, PhaseTold,
                     Rounds
  <3>5. OnePermission'
   BY <3>1, <3>2, <3>3 DEF OnePermission, BegunOnce, Underway, Rounds
  <3> QED BY <3>4, <3>5 DEF Agreement
 <2>2. CASE UNCHANGED sessionVars
  <3>1. UNCHANGED <<screen, progress, restarting, sent, pending, queue, news, at, displayed>>
   BY <2>2 DEF sessionVars, screenVars, bridgeVars, workerVars, tokenVars
  <3>2. SigningIn
   BY <1>3, <3>1 DEF SigningIn
  <3>3. ScreenFits' /\ ToldIsShown' /\ AnswerComes' /\ AnswerFits'
   BY <1>1, <3>1, <3>2
      DEF Agreement, ScreenFits, ToldIsShown, AnswerComes, AnswerFits, Underway
  <3>4. OnePermission'
   BY <1>1, <3>1, <3>2 DEF Agreement, OnePermission, BegunOnce, Underway, SignInBegun, Idle
  <3> QED BY <3>3, <3>4 DEF Agreement
 <2>3. CASE HandleNews
  BY <1>1, <1>3, <2>3, HearingKeepsAgreement
 <2>4. CASE ReadCommand
  BY <1>1, <1>3, <2>4, ReadingKeepsAgreement
 <2>5. CASE SubmitAuth \/ StartQr \/ Escape \/ QuitSignIn
  BY <1>1, <1>3, <2>5, UserKeepsAgreement
 <2>6. CASE TakeCommand \/ PassCommand \/ BridgeCloses
  BY <1>1, <1>3, <2>6, BridgeKeepsAgreement
 <2>7. WorkerTurns => Agreement'
  BY <1>1, <1>3, TurnKeepsAgreement
 <2> QED BY <1>1, <2>1, <2>2, <2>3, <2>4, <2>5, <2>6, <2>7, AnswersTurn, TokensTurn
         DEF SessionNext
<1> QED BY <1>2, <1>3 DEF AgreementInv

LEMMA AgreementHolds == AgreementInv => PhasesAgree
<1> SUFFICES ASSUME AgreementInv, Delivered, screen \in Phases, ~restarting
             PROVE  /\ screen = PhaseOf(at)
                    /\ progress = IF at = "scanning" THEN "scan" ELSE "none"
 BY DEF PhasesAgree
<1>1. at \in Prompts /\ news = <<>> /\ sent = <<>> /\ pending = <<>> /\ queue = <<>>
 BY DEF Delivered
<1>2. SigningIn
 BY <1>1 DEF SigningIn, Phases, Prompts
<1>3. ScreenType /\ ScreenFits /\ ToldIsShown /\ AnswerComes
 BY <1>2 DEF AgreementInv, Agreement
<1>4. Len(<<>>) = 0 /\ Plain(news) /\ \A c : ~Holds(<<>>, c)
 BY <1>1 DEF Plain, Holds
<1>5. PhaseTold(at, displayed) = PhaseOf(at) /\ PhaseOf(at) # "none"
      /\ (PhaseOf(at) = "qr" <=> at = "scanning")
 BY <1>1 DEF PhaseTold, PhaseOf, Prompts
<1>6. screen = PhaseOf(at)
 BY <1>3, <1>4, <1>5 DEF ToldIsShown
<1>7. progress \notin {"phone", "code", "password", "qr"}
 BY <1>1, <1>3, <1>4 DEF AnswerComes, Underway
<1>8. progress # "restart" /\ (progress = "scan" <=> screen = "qr")
 BY <1>3 DEF ScreenFits
<1> QED BY <1>3, <1>5, <1>6, <1>7, <1>8 DEF ScreenType

(* Where the worker is with a token. *)
TokenType ==
    /\ (at = "importing") <=> (target # NoDc /\ at # "stopped")
    /\ hops \in 0..MaxHops
    /\ at \notin {"importing", "stopped"} => hops = 0
    /\ at = "importing" => hops >= 1

LEMMA TokenTypeKept ==
  ASSUME TokenType, TargetKnown, ScreenType, queue \in Seq(Commands), [SessionNext]_sessionVars
  PROVE  TokenType'
<1>1. CASE TokenMigrates
 <2>1. /\ at' = "importing" /\ hops' = hops + 1 /\ target' \in Dc
       /\ at \in {"exporting", "importing"}
       /\ at = "importing" => hops < MaxHops
  BY <1>1 DEF TokenMigrates
 <2>2. target' # NoDc
  BY <2>1, NoDcAssumption
 <2> QED BY <2>1, <2>2, HopsAssumption DEF TokenType
<1>2. Interruption(queue) \in {"none", "restart", "shutdown"}
 BY InterruptionFacts
<1>3. ASSUME NEW kinds, NEW place, NEW follows, NEW tidings, EndRound(kinds, place, follows, tidings)
      PROVE  at' = place /\ target' = NoDc /\ hops' = 0
 BY <1>3 DEF EndRound
<1>4. CASE TokenIssued \/ TokenAccepted \/ TokenNeedsPassword \/ TokenOutdated \/ TokenRefused
           \/ MigratesTooOften \/ Launch
 <2>1. \A place, tidings : Leads(place, tidings).to \in {place, "phone", "stopped"}
  BY <1>2 DEF Leads
 <2>2. ASSUME TokenIssued PROVE at' # "importing" /\ target' = NoDc /\ hops' = 0
  <3> DEFINE repeated == displayed /\ answer = "same_token"
             turn == Leads("scanning", IF repeated THEN <<>> ELSE <<"qr">>)
  <3>1. EndRound({"same_token", "new_token"}, turn.to, TRUE, turn.told)
   BY <2>2 DEF TokenIssued
  <3>2. turn.to \in {"scanning", "phone", "stopped"}
   BY <2>1
  <3> HIDE DEF turn
  <3> QED BY <3>1, <3>2, <1>3
 <2>3. ASSUME TokenAccepted PROVE at' # "importing" /\ target' = NoDc /\ hops' = 0
  <3> DEFINE turn == Leads("completing", <<>>)
             to == IF turn.to = "phone" THEN "cancelling" ELSE turn.to
             told == IF to = "stopped" THEN <<"fatal">> ELSE <<>>
  <3>1. EndRound({"success"}, to, TRUE, told)
   BY <2>3 DEF TokenAccepted
  <3>2. to \in {"completing", "cancelling", "stopped"}
   BY <2>1
  <3> HIDE DEF to, told
  <3> QED BY <3>1, <3>2, <1>3
 <2>4. ASSUME TokenNeedsPassword PROVE at' # "importing" /\ target' = NoDc /\ hops' = 0
  BY <2>4 DEF TokenNeedsPassword, EndRound
 <2>5. ASSUME TokenOutdated PROVE at' # "importing" /\ target' = NoDc /\ hops' = 0
  BY <2>5 DEF TokenOutdated, EndRound
 <2>6. ASSUME TokenRefused PROVE at' # "importing" /\ target' = NoDc /\ hops' = 0
  <3> DEFINE turn == Leads("phone", <<"error", "phone">>)
  <3>1. EndRound({"refused"}, turn.to, FALSE, turn.told)
   BY <2>6 DEF TokenRefused
  <3>2. turn.to \in {"phone", "stopped"}
   BY <2>1
  <3> HIDE DEF turn
  <3> QED BY <3>1, <3>2, <1>3
 <2>7. ASSUME MigratesTooOften PROVE at' # "importing" /\ target' = NoDc /\ hops' = 0
  <3> DEFINE turn == Leads("phone", <<"error", "phone">>)
  <3>1. /\ at' \in {"round", "loading", turn.to}
        /\ target' = NoDc /\ hops' = 0
   BY <2>7 DEF MigratesTooOften
  <3>2. turn.to \in {"phone", "stopped"}
   BY <2>1
  <3> HIDE DEF turn
  <3> QED BY <3>1, <3>2
 <2>8. ASSUME Launch PROVE at' # "importing" /\ target' = NoDc /\ hops' = 0
  BY <2>8 DEF Launch
 <2>9. at' # "importing" /\ target' = NoDc /\ hops' = 0
  BY <1>4, <2>2, <2>3, <2>4, <2>5, <2>6, <2>7, <2>8
 <2>10. 0 \in 0..MaxHops
  BY HopsAssumption
 <2> QED BY <2>9, <2>10 DEF TokenType
<1>5. CASE \/ SubmitAuth \/ StartQr \/ Escape \/ QuitSignIn \/ HandleNews
           \/ TakeCommand \/ PassCommand \/ TelegramAnswers \/ UNCHANGED sessionVars
 <2>1. UNCHANGED <<at, target, hops>>
  BY <1>5 DEF SubmitAuth, StartQr, Escape, QuitSignIn, HandleNews, TakeCommand, PassCommand,
              Give, TelegramAnswers, sessionVars, workerVars, tokenVars
 <2> QED BY <2>1 DEF TokenType
<1>6. CASE BridgeCloses
 BY <1>6 DEF BridgeCloses, TokenType, tokenVars
<1>7. CASE \/ Connect \/ CodeRequested \/ CodeChecked \/ PasswordLoaded \/ PasswordChecked
           \/ Cancelled \/ Named \/ QrCompleted \/ RenewToken \/ NextRound
 <2>1. UNCHANGED <<target, hops>> /\ at # "importing" /\ at # "stopped" /\ at' # "importing"
  BY <1>7 DEF Connect, CodeRequested, CodeChecked, PasswordLoaded, PasswordChecked, Cancelled,
              Named, QrCompleted, RenewToken, NextRound, Answered, AnsweredOnly, Interrupted,
              InterruptedAuthorized, FromTheStart, Stop, Await, Call, Stays, tokenVars
 <2> QED BY <2>1 DEF TokenType
<1>8. CASE ReadCommand
 <2>1. UNCHANGED <<target, hops>> /\ at # "importing" /\ at # "stopped" /\ at' # "importing"
  BY <1>8 DEF ReadCommand, React, Understood, CallFor, Stop, FromTheStart, Call, Stays, tokenVars,
              workerVars, Prompts
 <2> QED BY <2>1 DEF TokenType
<1> QED BY <1>1, <1>4, <1>5, <1>6, <1>7, <1>8 DEF SessionNext

(* The whole of a sign-in. *)
SignInHolds == SessionInv /\ AgreementInv /\ TokenType

LEMMA SignInBegins == SessionInit => SignInHolds
<1>1. SessionInit => TokenType
 BY HopsAssumption DEF SessionInit, TokenType
<1> QED BY <1>1, SessionInvInit, AgreementBegins DEF SignInHolds

LEMMA SignInKept ==
  ASSUME SignInHolds, [SessionNext]_sessionVars
  PROVE  SignInHolds'
<1>1. QueuesType /\ queue \in Seq(Commands) /\ TargetKnown /\ ScreenType
 BY DEF SignInHolds, SessionInv, QueuesType, SignInInv, AgreementInv
<1> QED BY <1>1, SessionInvKept, AgreementKept, TokenTypeKept DEF SignInHolds

LEMMA SignInTypes == SignInHolds => SessionType
BY DEF SignInHolds, SessionInv, SignInInv, AnswerOfACall, AgreementInv, ScreenType, TokenType,
       SessionType

\* The screen, the tokens and the requests of the sign-in keep their types.
THEOREM SessionTypeCorrect == SessionSpec => []SessionType
BY SignInBegins, SignInKept, SignInTypes, PTL DEF SessionSpec

(* Once everything has been delivered, the screen is that of the phase that the worker
   waits in and takes input for it, whatever restarts, refusals and tokens crossed, in
   whichever order the bridge passed the commands on. *)
THEOREM SessionPhasesAgree == SessionSpec => []PhasesAgree
<1>1. SignInHolds => PhasesAgree
 BY AgreementHolds DEF SignInHolds
<1> QED BY <1>1, SignInBegins, SignInKept, PTL DEF SessionSpec


-------------------------------------------------------------------------------
(* The online status. *)

LEMMA LesserOf ==
  ASSUME NEW a \in Nat, NEW b \in Nat
  PROVE  Min({a, b}) = IF a <= b THEN a ELSE b
<1> DEFINE least == IF a <= b THEN a ELSE b
<1>1. least \in {a, b} /\ \A y \in {a, b} : least <= y
 OBVIOUS
<1>2. \A x \in {a, b} : (\A y \in {a, b} : x <= y) => x = least
 OBVIOUS
<1> HIDE DEF least
<1>3. Min({a, b}) = CHOOSE x \in {a, b} : \A y \in {a, b} : x <= y
 BY DEF Min
<1>4. Min({a, b}) = least
 BY <1>1, <1>2, <1>3
<1> QED BY <1>4 DEF least

TimesType ==
    /\ focused \in BOOLEAN /\ ready \in BOOLEAN /\ reported \in BOOLEAN /\ awake \in BOOLEAN
    /\ sinceFocus \in 0..BlurTimeout /\ sinceInput \in 0..IdleTimeout /\ alarm \in 0..Never
    /\ reports \in Seq(BOOLEAN)

TaskType ==
    /\ stage \in {"running", "closing", "finishing", "stopped"}
    /\ task.at \in {"looking", "asking", "waiting"}
    /\ task \in [at : {"looking", "asking", "waiting"}, status : BOOLEAN]
    /\ asked.status \in BOOLEAN
    /\ call \in [status : BOOLEAN, phase : {"none", "sent", "done", "failed"}]
    /\ call.phase = "none" => ~call.status
    /\ stage = "running" => (task.at = "asking" <=> call.phase # "none")
    /\ retry \in {"never", "later", "now"} /\ refresh \in {"never", "later", "now"}

(* What was reported is what is wanted, and will be until the alarm goes off. *)
AlarmInTime ==
    ~awake /\ alarm > 0 => reported = (ready /\ Wanted(reported)) /\ alarm <= Deadline(reported)

PresenceInv == TimesType /\ TaskType /\ AlarmInTime

(* When the answer of wanted() changes. *)
Span(f, inFocus, ofInput) ==
    IF f \/ IdleTimeout - ofInput <= BlurTimeout - inFocus
    THEN IdleTimeout - ofInput ELSE BlurTimeout - inFocus

LEMMA SpanIs ==
  ASSUME NEW f \in BOOLEAN, NEW inFocus \in 0..BlurTimeout, NEW ofInput \in 0..IdleTimeout
  PROVE  /\ Span(f, inFocus, ofInput) =
               IF f THEN IdleTimeout - ofInput
               ELSE IF inFocus >= BlurTimeout \/ ofInput >= IdleTimeout THEN 0
               ELSE Min({IdleTimeout - ofInput, BlurTimeout - inFocus})
         /\ Span(f, inFocus, ofInput) \in 0..IdleTimeout
<1>1. IdleTimeout - ofInput \in Nat /\ BlurTimeout - inFocus \in Nat
      /\ IdleTimeout \in Nat /\ BlurTimeout \in Nat
 BY PresenceAssumption
<1>2. Min({IdleTimeout - ofInput, BlurTimeout - inFocus})
         = IF IdleTimeout - ofInput <= BlurTimeout - inFocus
           THEN IdleTimeout - ofInput ELSE BlurTimeout - inFocus
 BY <1>1, LesserOf
<1> QED BY <1>1, <1>2 DEF Span

LEMMA UntilIs ==
  ASSUME TimesType
  PROVE  Until = Span(focused, sinceFocus, sinceInput) /\ Until \in 0..IdleTimeout
<1>1. Until = Span(focused, sinceFocus, sinceInput)
 BY SpanIs DEF TimesType, Until
<1> QED BY <1>1, SpanIs DEF TimesType

(* A deadline is one of the limits, or never comes. *)
LEMMA DeadlineIs ==
  ASSUME TimesType, NEW r \in BOOLEAN
  PROVE  Never \in Nat /\ Deadline(r) \in 1..Never
<1>1. /\ FocusDelay \in Nat /\ BlurTimeout \in Nat /\ IdleTimeout \in Nat
      /\ FocusDelay <= BlurTimeout /\ BlurTimeout <= IdleTimeout /\ sinceFocus \in Nat
 BY PresenceAssumption DEF TimesType
<1>2. Until \in 0..IdleTimeout
 BY UntilIs
<1>3. Never \in Nat /\ Never = IdleTimeout + 1
 BY <1>1 DEF Never
<1> HIDE DEF Until, Never
<1> QED BY <1>1, <1>2, <1>3 DEF Deadline

(* A tick that does not make the alarm go off changes nothing that is wanted. *)
LEMMA TimeGoesOn ==
  ASSUME TimesType, AlarmInTime, Tick
  PROVE  TimesType' /\ AlarmInTime'
<1>1. /\ FocusDelay \in Nat /\ BlurTimeout \in Nat /\ IdleTimeout \in Nat
      /\ FocusDelay <= BlurTimeout /\ BlurTimeout <= IdleTimeout
      /\ sinceFocus \in Nat /\ sinceFocus <= BlurTimeout
      /\ sinceInput \in Nat /\ sinceInput <= IdleTimeout
 BY PresenceAssumption DEF TimesType
<1>2. UNCHANGED <<focused, ready, reported, awake, reports>>
 BY DEF Tick
<1>3. sinceFocus' = IF sinceFocus < BlurTimeout THEN sinceFocus + 1 ELSE BlurTimeout
 <2>1. sinceFocus' = Min({sinceFocus + 1, BlurTimeout})
  BY DEF Tick
 <2>2. Min({sinceFocus + 1, BlurTimeout})
          = IF sinceFocus + 1 <= BlurTimeout THEN sinceFocus + 1 ELSE BlurTimeout
  BY <1>1, LesserOf
 <2> QED BY <1>1, <2>1, <2>2
<1>4. sinceInput' = IF sinceInput < IdleTimeout THEN sinceInput + 1 ELSE IdleTimeout
 <2>1. sinceInput' = Min({sinceInput + 1, IdleTimeout})
  BY DEF Tick
 <2>2. Min({sinceInput + 1, IdleTimeout})
          = IF sinceInput + 1 <= IdleTimeout THEN sinceInput + 1 ELSE IdleTimeout
  BY <1>1, LesserOf
 <2> QED BY <1>1, <2>1, <2>2
<1>5. Never \in Nat /\ Never = IdleTimeout + 1 /\ alarm \in 0..Never
 BY <1>1 DEF TimesType, Never
<1> HIDE DEF Never
<1>6. alarm' = IF alarm \in {0, Never} THEN alarm ELSE alarm - 1
 BY DEF Tick
<1>7. TimesType'
 <2>1. alarm' \in 0..Never
  BY <1>5, <1>6
 <2>2. sinceFocus' \in 0..BlurTimeout /\ sinceInput' \in 0..IdleTimeout
  BY <1>1, <1>3, <1>4
 <2> QED BY <1>2, <2>1, <2>2 DEF TimesType, Never
<1>8. Until' = IF Until = 0 THEN 0 ELSE Until - 1
 <2>1. Until = Span(focused, sinceFocus, sinceInput)
  BY UntilIs
 <2>2. Until' = Span(focused, sinceFocus', sinceInput')
  <3>1. sinceFocus' \in 0..BlurTimeout /\ sinceInput' \in 0..IdleTimeout /\ focused \in BOOLEAN
   BY <1>2, <1>7 DEF TimesType
  <3> QED BY <1>2, <3>1, SpanIs DEF Until
 <2> HIDE DEF Until
 <2> QED BY <1>1, <1>3, <1>4, <2>1, <2>2 DEF Span
<1>9. Until \in 0..IdleTimeout /\ {focused, ready, reported} \subseteq BOOLEAN
 BY UntilIs DEF TimesType
<1>10. AlarmInTime'
 <2> SUFFICES ASSUME ~awake, alarm' > 0
              PROVE  /\ reported = (ready /\ Wanted(reported)')
                     /\ alarm' <= Deadline(reported)'
  BY <1>2 DEF AlarmInTime
 <2>1. /\ reported = (ready /\ Wanted(reported)) /\ alarm <= Deadline(reported) /\ alarm > 0
       /\ (alarm # Never => alarm' = alarm - 1) /\ (alarm = Never => alarm' = Never)
  BY <1>5, <1>6 DEF AlarmInTime
 <2> HIDE DEF Until
 <2>2. Wanted(reported)' = /\ Until' > 0
                           /\ IF focused THEN sinceFocus' >= FocusDelay ELSE reported
  BY <1>2 DEF Wanted
 <2>3. Deadline(reported)' =
          IF ~ready \/ Until' = 0 \/ (~focused /\ ~reported) THEN Never
          ELSE IF focused /\ sinceFocus' < FocusDelay THEN FocusDelay - sinceFocus'
          ELSE Until'
  BY <1>2 DEF Deadline, Never
 <2> QED BY <1>1, <1>3, <1>5, <1>8, <1>9, <2>1, <2>2, <2>3 DEF Wanted, Deadline
<1> QED BY <1>7, <1>10

(* An iteration of the main loop reports what is wanted and sets the alarm. *)
LEMMA IterationKeeps ==
  ASSUME TimesType, Iterate
  PROVE  TimesType' /\ AlarmInTime'
<1>1. /\ UNCHANGED <<focused, sinceFocus, sinceInput, ready>>
      /\ awake' = FALSE /\ reported' = (ready /\ Wanted(reported))
      /\ alarm' = Deadline(reported')
      /\ reports' = IF reported' = reported THEN reports ELSE Append(reports, reported')
 BY DEF Iterate
<1>2. reported' \in BOOLEAN /\ reported \in BOOLEAN
 <2>1. (ready /\ Wanted(reported)) \in BOOLEAN
  BY Zenon DEF TimesType
 <2> QED BY <1>1, <2>1, Zenon DEF TimesType
<1>3. PICK r \in BOOLEAN :
            /\ reported' = r /\ r = (ready /\ Wanted(reported)) /\ alarm' = Deadline(r)
 BY <1>1, <1>2 DEF Deadline
<1>4. Never \in Nat /\ Deadline(r) \in 1..Never
 BY DeadlineIs, Zenon
<1>5. reports' \in Seq(BOOLEAN)
 <2>1. Append(reports, r) \in Seq(BOOLEAN) /\ reports \in Seq(BOOLEAN)
  BY DEF TimesType
 <2> QED BY <1>1, <1>3, <2>1, Zenon
<1>6. TimesType'
 <2>1. alarm' \in 0..Never
  BY <1>3, <1>4
 <2>2. IdleTimeout' = IdleTimeout /\ Never' = Never
  BY DEF Never
 <2> QED BY <1>1, <1>2, <1>5, <2>1, <2>2, Zenon DEF TimesType
<1>7. (ready /\ Wanted(r)) = r
 BY <1>3 DEF Wanted
<1>8. Until' = Until
 BY <1>1 DEF Until
<1>9. Wanted(reported)' = Wanted(r) /\ Deadline(reported)' = Deadline(r)
 <2> HIDE DEF Until
 <2> QED BY <1>1, <1>3, <1>8 DEF Wanted, Deadline, Never
<1>10. AlarmInTime'
 <2>1. alarm' <= Deadline(r) /\ reported' = (ready' /\ Wanted(r))
  <3>1. Deadline(r) <= Deadline(r)
   BY <1>4
  <3> QED BY <1>1, <1>3, <1>7, <3>1, Zenon
 <2> QED BY <1>9, <2>1 DEF AlarmInTime
<1> QED BY <1>6, <1>10

(* An event is looked at before the alarm matters again. *)
LEMMA EventKeeps ==
  ASSUME TimesType, Input \/ Focus \/ Ready \/ Wake \/ Close
  PROVE  TimesType' /\ AlarmInTime'
<1>1. FocusDelay \in Nat /\ BlurTimeout \in Nat /\ IdleTimeout \in Nat
 BY PresenceAssumption
<1>2. awake' = TRUE /\ {focused', ready', reported'} \subseteq BOOLEAN
      /\ sinceFocus' \in {0, sinceFocus} /\ sinceInput' \in {0, sinceInput}
      /\ alarm' \in {alarm, Never} /\ reports' \in {reports, <<>>}
 BY DEF TimesType, Event, Input, Focus, Ready, Wake, Close
<1>3. Never \in 0..Never /\ <<>> \in Seq(BOOLEAN)
 BY <1>1 DEF Never
<1>4. sinceFocus' \in 0..BlurTimeout /\ sinceInput' \in 0..IdleTimeout
 BY <1>1, <1>2 DEF TimesType
<1>5. alarm' \in 0..Never /\ reports' \in Seq(BOOLEAN)
 BY <1>2, <1>3 DEF TimesType
<1> QED BY <1>2, <1>4, <1>5 DEF TimesType, AlarmInTime, Never

(* The worker and Telegram leave the terminal's times alone. *)
LEMMA OthersKeepTime ==
  ASSUME TimesType, AlarmInTime, UNCHANGED stateVars, reports' \in Seq(BOOLEAN)
  PROVE  TimesType' /\ AlarmInTime'
BY DEF TimesType, AlarmInTime, stateVars, Wanted, Deadline, Until, Never

LEMMA WorkerLeavesTime ==
  ASSUME TimesType, [PresenceNext]_presenceVars,
         ~(Iterate \/ Input \/ Focus \/ Ready \/ Wake \/ Tick \/ Close)
  PROVE  UNCHANGED stateVars /\ reports' \in Seq(BOOLEAN)
<1>1. reports \in Seq(BOOLEAN)
 BY DEF TimesType
<1>2. CASE ReadReport
 BY <1>1, <1>2 DEF ReadReport
<1>3. CASE ~ReadReport
 BY <1>1, <1>3 DEF PresenceNext, presenceVars, ReadOffline, Look, CallReturns, Returns,
    WantedChanged, OtherOffline, TimerFires, Awakes, TimePasses, CallServed, CallFails,
    Forgotten, OtherGoesOffline, Finish, Finished, Abort, StartWorker
<1> QED BY <1>2, <1>3

(* The task of the worker. *)
LEMMA TaskKeepsType ==
  ASSUME TaskType, reports \in Seq(BOOLEAN), [PresenceNext]_presenceVars
  PROVE  TaskType'
<1> USE DEF TaskType
<1>1. CASE Iterate \/ Input \/ Focus \/ Ready \/ Wake \/ Tick \/ Forgotten \/ OtherGoesOffline
           \/ ReadOffline \/ UNCHANGED presenceVars
 BY <1>1 DEF Iterate, Event, Input, Focus, Ready, Wake, Tick, Forgotten, OtherGoesOffline,
    ReadOffline, presenceVars, taskVars
<1>2. CASE ReadReport
 <2>1. Head(reports) \in BOOLEAN
  BY <1>2 DEF ReadReport
 <2> QED BY <1>2, <2>1 DEF ReadReport
<1>3. CASE Look
 <2>1. asked'.status = asked.status
  BY <1>3 DEF Look
 <2> DEFINE asks == Due(asked.status) /\ retry # "later"
 <2>2. /\ task' = [at |-> IF asks THEN "asking" ELSE "waiting", status |-> asked.status]
       /\ call' = IF asks THEN [status |-> asked.status, phase |-> "sent"] ELSE NoCall
       /\ UNCHANGED <<stage, retry, refresh>>
  BY <1>3 DEF Look
 <2> HIDE DEF asks
 <2> QED BY <2>1, <2>2 DEF NoCall
<1>4. CASE CallReturns
 <2>1. /\ task' = [task EXCEPT !.at = "looking"] /\ call' = NoCall
       /\ UNCHANGED <<stage, asked>>
       /\ retry' \in {"never", "later"} /\ refresh' \in {"later", refresh}
  BY <1>4 DEF CallReturns, Returns
 <2> QED BY <2>1 DEF NoCall
<1>5. CASE WantedChanged \/ OtherOffline \/ TimerFires
 BY <1>5 DEF WantedChanged, OtherOffline, TimerFires, Awakes
<1>6. CASE TimePasses
 BY <1>6 DEF TimePasses
<1>7. CASE CallServed \/ CallFails
 BY <1>7 DEF CallServed, CallFails, NoCall
<1>8. CASE Close \/ Finish \/ Finished \/ Abort
 <2>1. /\ UNCHANGED <<task, asked, retry, refresh>> /\ stage' \in {"closing", "finishing", "stopped"}
       /\ call' \in {call, NoCall, [status |-> FALSE, phase |-> "sent"]}
  BY <1>8 DEF Close, Finish, Finished, Abort, taskVars
 <2>2. /\ call' \in [status : BOOLEAN, phase : {"none", "sent", "done", "failed"}]
       /\ call'.phase = "none" => ~call'.status
  <3>1. CASE call' = call
   BY <3>1
  <3>2. CASE call' = NoCall
   BY <3>2 DEF NoCall
  <3>3. CASE call' = [status |-> FALSE, phase |-> "sent"]
   BY <3>3
  <3> QED BY <2>1, <3>1, <3>2, <3>3
 <2> QED BY <2>1, <2>2
<1>9. CASE StartWorker
 BY <1>9 DEF StartWorker, NoCall, Begun, Unasked
<1> QED BY <1>1, <1>2, <1>3, <1>4, <1>5, <1>6, <1>7, <1>8, <1>9 DEF PresenceNext

LEMMA PresenceBegins == PresenceInit => PresenceInv
<1> SUFFICES ASSUME PresenceInit PROVE PresenceInv
 OBVIOUS
<1>1. BlurTimeout \in Nat /\ IdleTimeout \in Nat
 BY PresenceAssumption
<1>2. TimesType
 <2>1. 0 \in 0..BlurTimeout /\ 0 \in 0..IdleTimeout /\ Never \in 0..Never
  BY <1>1 DEF Never
 <2>2. <<>> \in Seq(BOOLEAN)
  OBVIOUS
 <2> QED BY <2>1, <2>2 DEF PresenceInit, TimesType
<1> QED BY <1>2 DEF PresenceInit, PresenceInv, TaskType, AlarmInTime, Unasked, Begun, NoCall

LEMMA PresenceKept == PresenceInv /\ [PresenceNext]_presenceVars => PresenceInv'
<1> SUFFICES ASSUME PresenceInv, [PresenceNext]_presenceVars PROVE PresenceInv'
 OBVIOUS
<1>1. TimesType /\ TaskType /\ AlarmInTime /\ reports \in Seq(BOOLEAN)
 BY DEF PresenceInv, TimesType
<1>2. ASSUME Iterate PROVE TimesType' /\ AlarmInTime'
 BY <1>1, <1>2, IterationKeeps
<1>3. ASSUME Input \/ Focus \/ Ready \/ Wake \/ Close PROVE TimesType' /\ AlarmInTime'
 BY <1>1, <1>3, EventKeeps
<1>4. ASSUME Tick PROVE TimesType' /\ AlarmInTime'
 BY <1>1, <1>4, TimeGoesOn
<1>5. ASSUME ~(Iterate \/ Input \/ Focus \/ Ready \/ Wake \/ Tick \/ Close) PROVE TimesType' /\ AlarmInTime'
 BY <1>1, <1>5, WorkerLeavesTime, OthersKeepTime
<1> QED BY <1>1, <1>2, <1>3, <1>4, <1>5, TaskKeepsType DEF PresenceInv

LEMMA PresenceHolds == PresenceInv => PresenceType /\ ReportedInTime
<1>1. TaskType => (call.phase = "none" <=> call = NoCall)
 BY DEF TaskType, NoCall
<1> QED BY <1>1 DEF PresenceInv, TimesType, TaskType, AlarmInTime, PresenceType, ReportedInTime

(* ReportedInTime, for all three limits of presence.rs: between the terminal's events
   and before its alarm goes off, the status it last reported is the one its rules ask
   for now, however input, focus and the limits fell together (State::deadline). *)
THEOREM StatusReportedInTime == PresenceSpec => []ReportedInTime
BY PresenceBegins, PresenceKept, PresenceHolds, PTL DEF PresenceSpec
-------------------------------------------------------------------------------
(* The terminal: its parts step on their own. *)

TerminalInv == SignInHolds /\ SomeoneAsked /\ DraftsInv /\ PresenceInv

LEMMA TerminalBegins == Init => TerminalInv
<1>1. DraftsInit => SomeoneAsked
 BY DEF DraftsInit, SomeoneAsked
<1> QED BY <1>1, SignInBegins, DraftsBegin, PresenceBegins DEF Init, TerminalInv

LEMMA PartsStep ==
  [Next]_vars => /\ [SessionNext]_sessionVars
                 /\ [DraftsNext]_draftVars
                 /\ [PresenceNext]_presenceVars
BY DEF Next, vars

LEMMA TerminalKept == TerminalInv /\ [Next]_vars => TerminalInv'
<1> SUFFICES ASSUME TerminalInv, [Next]_vars PROVE TerminalInv'
 OBVIOUS
<1>1. SignInHolds /\ SomeoneAsked /\ DraftsInv /\ PresenceInv
 BY DEF TerminalInv
<1>2. [SessionNext]_sessionVars /\ [DraftsNext]_draftVars /\ [PresenceNext]_presenceVars
 BY PartsStep
<1> QED BY <1>1, <1>2, SignInKept, AskedStays, DraftsSteps, PresenceKept DEF TerminalInv

LEMMA DraftsTypeFollows == DraftsInv => DraftsType
<1> SUFFICES ASSUME DraftsInv PROVE DraftsType
 OBVIOUS
<1>1. DraftsShape /\ SnapshotsAreOfModified
 BY DEF DraftsInv, OnDisk
<1>2. writer.previous \in Snapshots
 BY <1>1 DEF DraftsShape
<1>3. DOMAIN writer.previous \subseteq Account
 BY <1>2, SnapshotFacts
<1>4. DOMAIN queued.snapshot \subseteq Account
 BY <1>1 DEF DraftsShape, SnapshotsAreOfModified
<1> QED BY <1>1, <1>3, <1>4 DEF DraftsShape, DraftsType, Rows

(* Every part of the terminal keeps its type, for any bounds. *)
THEOREM TerminalTypesHold == Spec => []TypeOK
<1>1. TerminalInv => TypeOK
 BY SignInTypes, DraftsTypeFollows, PresenceHolds DEF TerminalInv, TypeOK
<1> QED BY <1>1, TerminalBegins, TerminalKept, PTL DEF Spec

(* InStep, for any bounds: once everything has been delivered the screen is that of the
   phase that the worker waits in, a prompt is shown only while the session holds no
   account, and the status last reported is the one that is wanted (AuthPrompt and
   auth_progress, run, State::change and State::deadline). *)
THEOREM TerminalInStep == Spec => []InStep
<1>1. SignInHolds => PromptsSignedOut
 BY DEF SignInHolds, SessionInv, SignInInv, SignedOut, PromptsSignedOut
<1>2. TerminalInv => InStep
 BY <1>1, AgreementHolds, PresenceHolds DEF TerminalInv, InStep, SignInHolds
<1> QED BY <1>2, TerminalBegins, TerminalKept, PTL DEF Spec
====
