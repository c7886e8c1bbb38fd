----------------------------- MODULE WorkerProofs -----------------------------
(* Proofs about the loops of the workers: the pipeline of the updates never   *)
(* skips one, and its cache file is a durable stream.                          *)
EXTENDS MCWorker, WellFoundedInduction, FiniteSetTheorems, TLAPS

-------------------------------------------------------------------------------
(* Sets of updates and sequences of events. *)

Updating(evs) == {evs[i].at : i \in {j \in DOMAIN evs : evs[j].type = "update"}}
Segment(S) == \E n \in 0 .. Updates : S = 1 .. n

(* What the local worker has applied or is about to: the cache file as its answers
   show it. *)
Known == StoredWith(changes)

LEMMA StoredIsUnion == \A evs : StoredWith(evs) = stored \cup Updating(evs)
BY DEF StoredWith, Updating

LEMMA UpdatingFacts ==
  /\ Updating(<<>>) = {}
  /\ \A evs \in Seq(Event), e \in Event :
       Updating(Append(evs, e)) =
          Updating(evs) \cup (IF e.type = "update" THEN {e.at} ELSE {})
  /\ \A e \in Event : e.type = "page" => Updating(<<e>>) = {}
<1>1. Updating(<<>>) = {}
 BY DEF Updating
<1>2. ASSUME NEW evs \in Seq(Event), NEW e \in Event
      PROVE  Updating(Append(evs, e)) =
                Updating(evs) \cup (IF e.type = "update" THEN {e.at} ELSE {})
 <2> DEFINE n == Len(evs)
 <2>1. /\ DOMAIN Append(evs, e) = 1 .. n + 1 /\ DOMAIN evs = 1 .. n /\ n \in Nat
       /\ \A i \in 1 .. n : Append(evs, e)[i] = evs[i]
       /\ Append(evs, e)[n + 1] = e
  OBVIOUS
 <2>2. 1 .. n + 1 = 1 .. n \cup {n + 1}
  BY <2>1
 <2> HIDE DEF n
 <2> QED BY <2>1, <2>2 DEF Updating
<1>3. ASSUME NEW e \in Event, e.type = "page"
      PROVE  Updating(<<e>>) = {}
 BY <1>3 DEF Updating
<1> QED BY <1>1, <1>2, <1>3

LEMMA ShortSequences ==
  ASSUME NEW q \in Seq(Event), NEW a \in Event, NEW b \in Event
  PROVE  /\ q \o <<>> = q
         /\ Append(<<>>, a) = <<a>> /\ <<a>> \in Seq(Event) /\ Len(<<a>>) = 1
         /\ Append(<<a>>, b) \in Seq(Event) /\ Len(Append(<<a>>, b)) = 2
         /\ q \o <<a>> = Append(q, a)
         /\ q \o Append(<<a>>, b) = Append(Append(q, a), b)
<1>1. q \o <<>> = q
 OBVIOUS
<1>2. Append(<<>>, a) = <<a>> /\ <<a>> \in Seq(Event) /\ Len(<<a>>) = 1
 OBVIOUS
<1>3. Append(<<a>>, b) \in Seq(Event) /\ Len(Append(<<a>>, b)) = 2
 OBVIOUS
<1>4. q \o <<a>> = Append(q, a)
 OBVIOUS
<1>5. q \o Append(<<a>>, b) = Append(Append(q, a), b)
 OBVIOUS
<1> QED BY <1>1, <1>2, <1>3, <1>4, <1>5

(* A set of updates has a greatest one. *)
LEMMA TopIsGreatest ==
  ASSUME NEW S, S \subseteq 1 .. Updates, S # {}
  PROVE  Top(S) \in S /\ \A v \in S : v <= Top(S)
<1> DEFINE T == {Updates - v : v \in S}
<1>1. T \subseteq Nat /\ T # {}
 <2>1. \A v \in S : v \in Nat /\ Updates - v \in Nat
  BY PipelineAssumption
 <2> QED BY <2>1
<1>2. \E x \in T : \A y \in T : ~ (<<y, x>> \in OpToRel(<, Nat))
 BY <1>1, WFMin, NatLessThanWellFounded, Zenon
<1>3. \A x, y \in Nat : x <= y \/ <<y, x>> \in OpToRel(<, Nat)
 <2>1. \A x, y \in Nat : y < x => <<y, x>> \in OpToRel(<, Nat)
  BY Zenon DEF OpToRel
 <2>2. \A x, y \in Nat : x <= y \/ y < x
  OBVIOUS
 <2> QED BY <2>1, <2>2, Zenon
<1>4. PICK x \in T : \A y \in T : x <= y
 BY <1>1, <1>2, <1>3, Zenon
<1>5. \E u \in S : \A v \in S : v <= u
 <2>1. PICK u \in S : x = Updates - u
  OBVIOUS
 <2>2. \A v \in S : Updates - v \in T
  OBVIOUS
 <2>3. ASSUME NEW v \in S
       PROVE  v <= u
  <3>1. Updates - u <= Updates - v
   BY <1>4, <2>1, <2>2
  <3>2. u \in 1 .. Updates /\ v \in 1 .. Updates /\ Updates \in Nat
   BY PipelineAssumption
  <3> HIDE DEF T
  <3> QED BY <3>1, <3>2
 <2> QED BY <2>3
<1> QED BY <1>5 DEF Top

LEMMA TopOfSegment ==
  ASSUME NEW n \in 0 .. Updates
  PROVE  Top(1 .. n) = n
<1>1. CASE n = 0
 BY <1>1 DEF Top
<1>2. CASE n # 0
 <2>1. 1 .. n \subseteq 1 .. Updates /\ n \in 1 .. n
  BY <1>2, PipelineAssumption
 <2>2. Top(1 .. n) \in 1 .. n /\ n <= Top(1 .. n)
  BY <2>1, TopIsGreatest
 <2> QED BY <2>2
<1> QED BY <1>1, <1>2

LEMMA TopBounds ==
  ASSUME NEW S, Segment(S)
  PROVE  /\ Top(S) \in 0 .. Updates
         /\ S = 1 .. Top(S)
         /\ \A v \in S : v <= Top(S)
BY TopOfSegment DEF Segment

-------------------------------------------------------------------------------
(* The inductive invariant of the pipeline. *)

(* What the worker has covered, sent, taken and could take are one behind another,
   and the cursor on disk is behind them all. *)
InOrder ==
    /\ cursor <= covered /\ covered <= sent
    /\ sent <= batch /\ batch <= produced

(* The disk holds a segment of the updates, and so does it with what is about to be
   written; nothing that waits to be written moves the cursor. *)
DiskIsSegment ==
    /\ 1 .. cursor \subseteq stored
    /\ Segment(stored) /\ Segment(Known)
    /\ \A i \in DOMAIN changes : changes[i].type # "checkpoint"

(* An update is known, or is among the first i events. *)
Reached(known, events, u, i) == u \in known \/ \E j \in 1 .. i : events[j] = Update(u)

(* No event from the worker, and not the last it sent, leaves an update out. *)
NoneLeftOut ==
    /\ \A i \in DOMAIN net : net[i].type \in {"update", "checkpoint"} =>
          \A u \in 1 .. net[i].at : Reached(Known, net, u, i)
    /\ \A u \in 1 .. sent : Reached(Known, net, u, Len(net))

NumberedFromOne == \A i \in DOMAIN net : net[i].type = "update" => net[i].at # 0

(* The cursors on their way are ahead of the one on disk, in order. *)
CheckpointsInOrder ==
    \A i \in DOMAIN net : net[i].type = "checkpoint" =>
        /\ cursor <= net[i].at /\ net[i].at <= covered
        /\ \A j \in i .. Len(net) : net[j].type = "checkpoint" => net[i].at <= net[j].at

(* What the terminal shows or was handed is known, and the pages it was handed are
   not behind it. *)
AllKnown(known, events) ==
    \A i \in DOMAIN events : events[i].type = "update" => events[i].at \in known

PagesAhead(screen, events) ==
    \A j \in DOMAIN events : events[j].type = "page" =>
        /\ \A u \in screen : u <= events[j].at
        /\ \A i \in 1 .. j - 1 : events[i].type = "update" => events[i].at <= events[j].at

HandedInOrder ==
    shown \subseteq Known /\ AllKnown(Known, Handed) /\ PagesAhead(shown, Handed)

PipelineInv ==
    /\ TypeOK /\ InOrder /\ DiskIsSegment
    /\ NoneLeftOut /\ NumberedFromOne /\ CheckpointsInOrder
    /\ HandedInOrder

-------------------------------------------------------------------------------
(* What the local worker writes. *)

LEMMA EventFacts ==
  /\ \A u \in 0 .. Updates : /\ Update(u) \in Event /\ Checkpoint(u) \in Event
                             /\ Page(u) \in Event
  /\ Loading \in Event /\ Failed \in Event
BY PipelineAssumption DEF Event, Update, Checkpoint, Page, Loading, Failed

LEMMA KnownIsUnion ==
  /\ Known = stored \cup Updating(changes)
  /\ Known' = stored' \cup Updating(changes')
BY DEF Known, StoredWith, Updating

(* Writing the changes makes the disk what was known, and leaves its cursor. *)
LEMMA FlushWritesKnown ==
  ASSUME DiskIsSegment, Apply(changes)
  PROVE  stored' = Known /\ cursor' = cursor
<1>1. {i \in DOMAIN changes : changes[i].type = "checkpoint"} = {}
 BY DEF DiskIsSegment
<1> QED BY <1>1 DEF Apply, Known, CursorWith

(* A transaction that ends at an event writes that one too. *)
LEMMA EndOfTransaction ==
  ASSUME TypeOK, DiskIsSegment, NEW e \in Event, Apply(Append(changes, e))
  PROVE  /\ stored' = Known \cup (IF e.type = "update" THEN {e.at} ELSE {})
         /\ cursor' = IF e.type = "checkpoint" THEN e.at ELSE cursor
<1> DEFINE n == Len(changes)
           evs == Append(changes, e)
           marks == {i \in DOMAIN evs : evs[i].type = "checkpoint"}
<1>1. changes \in Seq(Event)
 BY DEF TypeOK
<1>2. stored' = stored \cup Updating(evs)
 BY StoredIsUnion DEF Apply
<1>3. Updating(evs) = Updating(changes) \cup (IF e.type = "update" THEN {e.at} ELSE {})
 BY <1>1, UpdatingFacts
<1>4. /\ DOMAIN evs = 1 .. n + 1 /\ n \in Nat
      /\ \A i \in 1 .. n : evs[i] = changes[i] /\ i \in DOMAIN changes
      /\ evs[n + 1] = e
 BY <1>1
<1>5. \A i \in marks : i = n + 1
 BY <1>4 DEF DiskIsSegment
<1>6. n + 1 \in DOMAIN evs
 BY <1>4
<1>7. marks = IF e.type = "checkpoint" THEN {n + 1} ELSE {}
 <2> HIDE DEF n, evs
 <2> QED BY <1>4, <1>5, <1>6
<1>8. Top({n + 1}) = n + 1
 <2>1. \E u \in {n + 1} : \A v \in {n + 1} : v <= u
  BY <1>4
 <2> QED BY <2>1 DEF Top
<1>9. cursor' = IF marks = {} THEN cursor ELSE evs[Top(marks)].at
 BY DEF Apply, CursorWith
<1>10. cursor' = IF e.type = "checkpoint" THEN e.at ELSE cursor
 <2> HIDE DEF n, evs, marks
 <2> QED BY <1>7, <1>8, <1>9, <1>4
<1> QED BY <1>2, <1>3, <1>10, KnownIsUnion

(* Learning an update whose predecessors are known. *)
LEMMA SegmentGrows ==
  ASSUME NEW S, Segment(S), NEW v \in 0 .. Updates, v # 0,
         \A u \in 1 .. v : u \in S \/ u = v
  PROVE  Segment(S \cup {v})
<1>1. PICK n \in 0 .. Updates : S = 1 .. n
 BY DEF Segment
<1>2. CASE v <= n
 <2>1. S \cup {v} = S
  BY <1>1, <1>2
 <2> QED BY <2>1
<1>3. CASE v > n
 <2>1. v = n + 1
  <3>1. CASE v > n + 1
   <4>1. n + 1 \in 1 .. v /\ n + 1 \notin S /\ n + 1 # v
    BY <1>1, <3>1
   <4> QED BY <4>1
  <3> QED BY <1>3, <3>1
 <2>2. S \cup {v} = 1 .. v
  BY <1>1, <2>1
 <2> QED BY <2>2 DEF Segment
<1> QED BY <1>1, <1>2, <1>3

-------------------------------------------------------------------------------
(* The events from the worker. *)

(* The worker sends the next update, the checkpoint of all it sent, or an event that
   is neither. *)
LEMMA SendingLeavesNoneOut ==
  ASSUME PipelineInv, NEW e \in Event, net' = Append(net, e),
         UNCHANGED <<disk, changes>>,
         \/ e = Update(sent + 1) /\ sent' = sent + 1 /\ covered' = covered
         \/ e = Checkpoint(sent) /\ sent' = sent /\ covered' = sent
         \/ e.type \notin {"update", "checkpoint"} /\ UNCHANGED <<sent, covered>>
  PROVE  NoneLeftOut' /\ CheckpointsInOrder'
<1> DEFINE n == Len(net)
<1>1. /\ n \in Nat /\ DOMAIN net = 1 .. n /\ DOMAIN net' = 1 .. n + 1 /\ Len(net') = n + 1
      /\ \A i \in 1 .. n : net'[i] = net[i] /\ net[i] \in Event
      /\ net'[n + 1] = e
 BY SMTT(20) DEF PipelineInv, TypeOK
<1>2. Known' = Known
 BY DEF Known, StoredWith, disk
<1>3. /\ {sent, covered, cursor} \subseteq Nat /\ cursor' = cursor
      /\ cursor <= covered /\ covered <= sent
 BY PipelineAssumption DEF PipelineInv, TypeOK, InOrder, disk
<1> HIDE DEF n
<1>4. \A u, i : i \in 1 .. n /\ Reached(Known, net, u, i) => Reached(Known', net', u, i)
 BY <1>1, <1>2 DEF Reached
<1>5. \A u \in 1 .. sent : Reached(Known', net', u, n + 1)
 <2>1. \A u \in 1 .. sent : Reached(Known, net, u, n)
  BY DEF PipelineInv, NoneLeftOut, n
 <2> QED BY <2>1, <1>1, <1>2 DEF Reached
<1>6. CASE e = Update(sent + 1) /\ sent' = sent + 1 /\ covered' = covered
 <2>1. e.type = "update" /\ e.at = sent + 1
  BY <1>6 DEF Update
 <2>2. Reached(Known', net', sent + 1, n + 1)
  BY <1>1, <1>6 DEF Reached
 <2>3. \A u \in 1 .. sent' : Reached(Known', net', u, n + 1)
  BY <1>3, <1>5, <1>6, <2>2
 <2>4. \A i \in DOMAIN net' : net'[i].type \in {"update", "checkpoint"} =>
           \A u \in 1 .. net'[i].at : Reached(Known', net', u, i)
  <3> SUFFICES ASSUME NEW i \in 1 .. n + 1, net'[i].type \in {"update", "checkpoint"},
                      NEW u \in 1 .. net'[i].at
               PROVE  Reached(Known', net', u, i)
   BY <1>1
  <3>1. CASE i = n + 1
   BY <3>1, <2>1, <2>3, <1>1, <1>6
  <3>2. CASE i # n + 1
   <4>1. i \in 1 .. n
    BY <3>2, <1>1
   <4>2. Reached(Known, net, u, i)
    BY <4>1, <1>1 DEF PipelineInv, NoneLeftOut
   <4> QED BY <4>1, <4>2, <1>4
  <3> QED BY <3>1, <3>2
 <2>5. CheckpointsInOrder'
  <3> SUFFICES ASSUME NEW i \in 1 .. n + 1, net'[i].type = "checkpoint"
               PROVE  /\ cursor <= net'[i].at /\ net'[i].at <= covered
                      /\ \A j \in i .. n + 1 : net'[j].type = "checkpoint" =>
                            net'[i].at <= net'[j].at
   BY <1>1, <1>3, <1>6 DEF CheckpointsInOrder
  <3>1. i \in 1 .. n /\ \A j \in i .. n + 1 : net'[j].type = "checkpoint" => j \in i .. n
   BY <1>1, <2>1
  <3> QED BY <3>1, <1>1 DEF PipelineInv, CheckpointsInOrder, n
 <2> QED BY <2>3, <2>4, <2>5, <1>1 DEF NoneLeftOut
<1>7. CASE e = Checkpoint(sent) /\ sent' = sent /\ covered' = sent
 <2>1. e.type = "checkpoint" /\ e.at = sent
  BY <1>7 DEF Checkpoint
 <2>2. \A i \in DOMAIN net' : net'[i].type \in {"update", "checkpoint"} =>
           \A u \in 1 .. net'[i].at : Reached(Known', net', u, i)
  <3> SUFFICES ASSUME NEW i \in 1 .. n + 1, net'[i].type \in {"update", "checkpoint"},
                      NEW u \in 1 .. net'[i].at
               PROVE  Reached(Known', net', u, i)
   BY <1>1
  <3>1. CASE i = n + 1
   BY <3>1, <2>1, <1>5, <1>1, <1>7
  <3>2. CASE i # n + 1
   <4>1. i \in 1 .. n
    BY <3>2, <1>1
   <4>2. Reached(Known, net, u, i)
    BY <4>1, <1>1 DEF PipelineInv, NoneLeftOut
   <4> QED BY <4>1, <4>2, <1>4
  <3> QED BY <3>1, <3>2
 <2>3. CheckpointsInOrder'
  <3> SUFFICES ASSUME NEW i \in 1 .. n + 1, net'[i].type = "checkpoint"
               PROVE  /\ cursor <= net'[i].at /\ net'[i].at <= sent
                      /\ \A j \in i .. n + 1 : net'[j].type = "checkpoint" =>
                            net'[i].at <= net'[j].at
   BY <1>1, <1>3, <1>7 DEF CheckpointsInOrder
  <3>1. CASE i = n + 1
   BY <3>1, <2>1, <1>1, <1>3
  <3>2. CASE i # n + 1
   <4>1. i \in 1 .. n
    BY <3>2, <1>1
   <4>2. /\ cursor <= net[i].at /\ net[i].at <= covered /\ net[i].at \in Int
         /\ \A j \in i .. n : net[j].type = "checkpoint" => net[i].at <= net[j].at
    BY <4>1, <1>1 DEF PipelineInv, CheckpointsInOrder, n, Event
   <4>3. \A j \in i .. n + 1 : j \in i .. n \/ j = n + 1
    BY <1>1
   <4> QED BY <4>1, <4>2, <4>3, <1>1, <1>3, <2>1
  <3> QED BY <3>1, <3>2
 <2> QED BY <2>2, <2>3, <1>1, <1>5, <1>7 DEF NoneLeftOut
<1>8. CASE e.type \notin {"update", "checkpoint"} /\ UNCHANGED <<sent, covered>>
 <2>1. \A i \in DOMAIN net' : net'[i].type \in {"update", "checkpoint"} =>
           i \in 1 .. n
  BY <1>1, <1>8
 <2>2. \A i \in DOMAIN net' : net'[i].type \in {"update", "checkpoint"} =>
           \A u \in 1 .. net'[i].at : Reached(Known', net', u, i)
  BY <2>1, <1>1, <1>4 DEF PipelineInv, NoneLeftOut
 <2>3. CheckpointsInOrder'
  <3> SUFFICES ASSUME NEW i \in 1 .. n + 1, net'[i].type = "checkpoint"
               PROVE  /\ cursor <= net'[i].at /\ net'[i].at <= covered
                      /\ \A j \in i .. n + 1 : net'[j].type = "checkpoint" =>
                            net'[i].at <= net'[j].at
   BY <1>1, <1>3, <1>8 DEF CheckpointsInOrder
  <3>1. i \in 1 .. n /\ \A j \in i .. n + 1 : net'[j].type = "checkpoint" => j \in i .. n
   BY <1>1, <2>1
  <3> QED BY <3>1, <1>1 DEF PipelineInv, CheckpointsInOrder, n
 <2> QED BY <2>2, <2>3, <1>1, <1>5, <1>8 DEF NoneLeftOut
<1> QED BY <1>6, <1>7, <1>8

(* The local worker takes the first event, learns it if it is an update, and moves
   the cursor if it is a checkpoint. *)
LEMMA ReceivingLeavesNoneOut ==
  ASSUME PipelineInv, net # <<>>, net' = Tail(net), UNCHANGED <<sent, covered>>,
         Known' = Known \cup (IF Head(net).type = "update" THEN {Head(net).at} ELSE {}),
         cursor' = IF Head(net).type = "checkpoint" THEN Head(net).at ELSE cursor
  PROVE  NoneLeftOut' /\ CheckpointsInOrder'
<1> DEFINE n == Len(net)
<1>1. /\ n \in Nat /\ n # 0 /\ DOMAIN net = 1 .. n
      /\ DOMAIN net' = 1 .. n - 1 /\ Len(net') = n - 1
      /\ \A i \in 1 .. n - 1 : net'[i] = net[i + 1]
      /\ \A i \in 1 .. n : net[i] \in Event
      /\ Head(net) = net[1]
 BY SMTT(20) DEF PipelineInv, TypeOK
<1> HIDE DEF n
<1>2. \A u, i : i \in 1 .. n /\ Reached(Known, net, u, i) => Reached(Known', net', u, i - 1)
 <2> SUFFICES ASSUME NEW u, NEW i \in 1 .. n, Reached(Known, net, u, i)
              PROVE  Reached(Known', net', u, i - 1)
  OBVIOUS
 <2>1. CASE u \in Known
  BY <2>1 DEF Reached
 <2>2. CASE net[1] = Update(u)
  <3>1. Head(net).type = "update" /\ Head(net).at = u
   BY <2>2, <1>1 DEF Update
  <3> QED BY <3>1 DEF Reached
 <2>3. ASSUME NEW j \in 2 .. i, net[j] = Update(u)
       PROVE  Reached(Known', net', u, i - 1)
  <3>1. j - 1 \in 1 .. i - 1 /\ j - 1 \in 1 .. n - 1 /\ (j - 1) + 1 = j
   BY <1>1
  <3>2. net'[j - 1] = Update(u)
   BY <3>1, <2>3, <1>1
  <3> QED BY <3>1, <3>2 DEF Reached
 <2>4. \A j \in 1 .. i : j = 1 \/ j \in 2 .. i
  BY <1>1
 <2> QED BY <2>1, <2>2, <2>3, <2>4 DEF Reached
<1>3. NoneLeftOut'
 <2>1. ASSUME NEW i \in 1 .. n - 1, net'[i].type \in {"update", "checkpoint"},
              NEW u \in 1 .. net'[i].at
       PROVE  Reached(Known', net', u, i)
  <3>1. i + 1 \in 1 .. n /\ (i + 1) - 1 = i /\ net'[i] = net[i + 1]
   BY <1>1
  <3>2. Reached(Known, net, u, i + 1)
   BY <3>1, <2>1, <1>1 DEF PipelineInv, NoneLeftOut
  <3>3. Reached(Known', net', u, (i + 1) - 1)
   BY <3>1, <3>2, <1>2
  <3> QED BY <3>1, <3>3
 <2>2. ASSUME NEW u \in 1 .. sent
       PROVE  Reached(Known', net', u, n - 1)
  <3>1. Reached(Known, net, u, n) /\ n \in 1 .. n
   BY <1>1 DEF PipelineInv, NoneLeftOut, n
  <3> QED BY <3>1, <1>2
 <2> QED BY <2>1, <2>2, <1>1 DEF NoneLeftOut
<1>4. CheckpointsInOrder'
 <2> SUFFICES ASSUME NEW i \in 1 .. n - 1, net'[i].type = "checkpoint"
              PROVE  /\ cursor' <= net'[i].at /\ net'[i].at <= covered
                     /\ \A j \in i .. n - 1 : net'[j].type = "checkpoint" =>
                           net'[i].at <= net'[j].at
  BY <1>1 DEF CheckpointsInOrder
 <2>1. i + 1 \in 1 .. n /\ i + 1 \in 1 .. Len(net) /\ net'[i] = net[i + 1]
  BY <1>1 DEF n
 <2>2. /\ cursor <= net[i + 1].at /\ net[i + 1].at <= covered
       /\ \A j \in i + 1 .. n : net[j].type = "checkpoint" => net[i + 1].at <= net[j].at
  BY <2>1, <1>1 DEF PipelineInv, CheckpointsInOrder, n
 <2>3. \A j \in i .. n - 1 : j + 1 \in i + 1 .. n /\ net'[j] = net[j + 1]
  BY <1>1
 <2>4. cursor' <= net[i + 1].at
  <3>1. CASE Head(net).type = "checkpoint"
   <4>1. 1 \in 1 .. n /\ i + 1 \in 1 .. n
    BY <1>1
   <4>2. net[1].at <= net[i + 1].at
    BY <4>1, <3>1, <2>1, <1>1 DEF PipelineInv, CheckpointsInOrder, n
   <4> QED BY <4>2, <3>1, <1>1
  <3>2. CASE Head(net).type # "checkpoint"
   BY <3>2, <2>2
  <3> QED BY <3>1, <3>2
 <2> QED BY <2>1, <2>2, <2>3, <2>4
<1> QED BY <1>3, <1>4

-------------------------------------------------------------------------------
(* The events to the terminal. *)

LEMMA HandingOneMore ==
  ASSUME NEW known, NEW screen, screen \subseteq known,
         NEW events \in Seq(Event), NEW e \in Event,
         AllKnown(known, events), PagesAhead(screen, events),
         e.type = "update" => e.at \in known,
         e.type = "page" => \A u \in known : u <= e.at
  PROVE  /\ Append(events, e) \in Seq(Event)
         /\ AllKnown(known, Append(events, e))
         /\ PagesAhead(screen, Append(events, e))
<1> DEFINE n == Len(events)
           more == Append(events, e)
<1>1. /\ n \in Nat /\ DOMAIN events = 1 .. n /\ DOMAIN more = 1 .. n + 1
      /\ \A i \in 1 .. n : more[i] = events[i]
      /\ more[n + 1] = e /\ more \in Seq(Event)
 OBVIOUS
<1> HIDE DEF n, more
<1>2. \A i \in 1 .. n + 1 : i \in 1 .. n \/ i = n + 1
 BY <1>1
<1>3. AllKnown(known, more)
 BY <1>1, <1>2 DEF AllKnown
<1>4. PagesAhead(screen, more)
 <2> SUFFICES ASSUME NEW j \in 1 .. n + 1, more[j].type = "page"
              PROVE  /\ \A u \in screen : u <= more[j].at
                     /\ \A i \in 1 .. j - 1 :
                           more[i].type = "update" => more[i].at <= more[j].at
  BY <1>1 DEF PagesAhead
 <2>1. \A i \in 1 .. j - 1 : i \in 1 .. n
  BY <1>1
 <2>2. CASE j = n + 1
  BY <2>1, <2>2, <1>1 DEF AllKnown
 <2>3. CASE j \in 1 .. n
  BY <2>1, <2>3, <1>1 DEF PagesAhead
 <2> QED BY <2>2, <2>3, <1>2
<1> QED BY <1>1, <1>3, <1>4 DEF more

(* The terminal shows the first event it was handed. *)
LEMMA ShowingTheFirst ==
  ASSUME NEW known, NEW screen, screen \subseteq known,
         NEW events \in Seq(Event), events # <<>>,
         AllKnown(known, events), PagesAhead(screen, events),
         NEW after,
         after = screen \cup (IF Head(events).type = "update" THEN {Head(events).at} ELSE {})
  PROVE  /\ after \subseteq known
         /\ AllKnown(known, Tail(events))
         /\ PagesAhead(after, Tail(events))
<1> DEFINE n == Len(events)
           rest == Tail(events)
<1>1. /\ n \in Nat /\ n # 0 /\ DOMAIN events = 1 .. n /\ DOMAIN rest = 1 .. n - 1
      /\ \A i \in 1 .. n - 1 : rest[i] = events[i + 1] /\ i + 1 \in 1 .. n
      /\ Head(events) = events[1] /\ 1 \in 1 .. n
 OBVIOUS
<1> HIDE DEF n, rest
<1>2. after \subseteq known
 BY <1>1 DEF AllKnown
<1>3. AllKnown(known, rest)
 BY <1>1 DEF AllKnown
<1>4. PagesAhead(after, rest)
 <2> SUFFICES ASSUME NEW j \in 1 .. n - 1, rest[j].type = "page"
              PROVE  /\ \A u \in after : u <= rest[j].at
                     /\ \A i \in 1 .. j - 1 :
                           rest[i].type = "update" => rest[i].at <= rest[j].at
  BY <1>1 DEF PagesAhead
 <2>1. /\ \A u \in screen : u <= rest[j].at
       /\ \A i \in 1 .. j : events[i].type = "update" => events[i].at <= rest[j].at
  BY <1>1 DEF PagesAhead
 <2>2. \A u \in after : u <= rest[j].at
  BY <2>1, <1>1
 <2>3. \A i \in 1 .. j - 1 : i + 1 \in 1 .. j /\ rest[i] = events[i + 1]
  BY <1>1
 <2> QED BY <2>1, <2>2, <2>3
<1> QED BY <1>2, <1>3, <1>4 DEF rest

(* A new session begins from the disk. *)
LEMMA SessionBegins ==
  ASSUME PipelineInv, NewSession, Segment(stored'), 1 .. cursor' \subseteq stored',
         cursor' \in 0 .. Updates, cursor' <= produced,
         restarts' \in 0 .. MaxRestarts
  PROVE  PipelineInv'
<1>1. /\ net' = <<>> /\ changes' = <<>> /\ forward' = <<>> /\ ui' = <<>>
      /\ shown' = stored' /\ produced' = produced
      /\ batch' = cursor' /\ sent' = cursor' /\ covered' = cursor'
 BY DEF NewSession
<1>2. Known' = stored'
 BY <1>1, UpdatingFacts, KnownIsUnion
<1>3. Handed' = <<>>
 BY <1>1 DEF Handed
<1>4. stored' \subseteq 1 .. Updates
 BY PipelineAssumption DEF Segment
<1>5. TypeOK'
 <2>1. flight' \in [Slot -> 0 .. Waiting] /\ alive' \in BOOLEAN
  <3>1. Free \in 0 .. Waiting
   BY PipelineAssumption DEF Free, Waiting
  <3> QED BY <3>1 DEF NewSession
 <2>2. {net, changes, forward, ui}' \subseteq Seq(Event)
  BY <1>1
 <2>3. /\ Len(net') <= NetCapacity /\ Len(ui') <= UiCapacity
       /\ Len(changes') < FlushSize /\ Len(forward') <= 2
  BY <1>1, PipelineAssumption
 <2>4. {netcmds, pending, inbox}' \subseteq 0 .. CommandCapacity /\ asked' \in 0 .. MaxLoads
  BY PipelineAssumption DEF NewSession, PipelineInv, TypeOK
 <2>5. {produced, batch, sent, covered, cursor}' \subseteq 0 .. Updates
  BY <1>1 DEF PipelineInv, TypeOK
 <2> QED BY <1>1, <1>4, <2>1, <2>2, <2>3, <2>4, <2>5 DEF TypeOK
<1>6. InOrder'
 BY <1>1, PipelineAssumption DEF InOrder, PipelineInv, TypeOK
<1>7. DiskIsSegment'
 BY <1>1, <1>2 DEF DiskIsSegment
<1>8. NoneLeftOut' /\ NumberedFromOne' /\ CheckpointsInOrder'
 BY <1>1, <1>2 DEF NoneLeftOut, NumberedFromOne, CheckpointsInOrder, Reached
<1>9. HandedInOrder'
 BY <1>1, <1>2, <1>3 DEF HandedInOrder, AllKnown, PagesAhead
<1> QED BY <1>5, <1>6, <1>7, <1>8, <1>9 DEF PipelineInv

-------------------------------------------------------------------------------
(* The steps.  What each needs of the invariant is taken apart first. *)

LEMMA PipelineFacts ==
  ASSUME PipelineInv
  PROVE  /\ {produced, batch, sent, covered, cursor} \subseteq 0 .. Updates
         /\ {net, changes, forward, ui} \subseteq Seq(Event)
         /\ Handed \in Seq(Event)
         /\ Segment(Known) /\ stored \subseteq Known /\ Known \subseteq 1 .. Updates
         /\ \A u \in Known : u <= Top(Known)
         /\ Top(Known) \in 0 .. Updates /\ Known = 1 .. Top(Known)
<1>1. Segment(Known) /\ stored \subseteq Known
 BY KnownIsUnion DEF PipelineInv, DiskIsSegment
<1>2. /\ {produced, batch, sent, covered, cursor} \subseteq 0 .. Updates
      /\ {net, changes, forward, ui} \subseteq Seq(Event)
 BY DEF PipelineInv, TypeOK
<1>3. Known \subseteq 1 .. Updates
 BY <1>1, PipelineAssumption DEF Segment
<1>4. Handed \in Seq(Event)
 BY <1>2 DEF Handed
<1> QED BY <1>1, <1>2, <1>3, <1>4, TopBounds

(* The worker sends an event. *)
LEMMA SendingKeepsInv ==
  ASSUME PipelineInv, NEW e \in Event, Room, net' = Append(net, e),
         UNCHANGED <<produced, batch, pending, inbox, changes, forward, ui, shown,
                     disk, limits>>,
         alive' \in BOOLEAN, flight' \in [Slot -> 0 .. Waiting],
         netcmds' \in 0 .. CommandCapacity,
         \/ e = Update(sent + 1) /\ sent' = sent + 1 /\ covered' = covered /\ sent < batch
         \/ e = Checkpoint(sent) /\ sent' = sent /\ covered' = sent
         \/ e.type \notin {"update", "checkpoint"} /\ UNCHANGED <<sent, covered>>
  PROVE  PipelineInv'
<1>1. NoneLeftOut' /\ CheckpointsInOrder'
 BY SendingLeavesNoneOut
<1>2. Known' = Known /\ Handed' = Handed /\ cursor' = cursor /\ stored' = stored
 BY DEF Known, StoredWith, Handed, disk
<1>3. InOrder' /\ {produced, batch, sent, covered, cursor}' \subseteq 0 .. Updates
 <2>1. /\ {produced, batch, sent, covered, cursor} \subseteq 0 .. Updates
       /\ cursor <= covered /\ covered <= sent /\ sent <= batch /\ batch <= produced
  BY DEF PipelineInv, TypeOK, InOrder
 <2>2. produced' = produced /\ batch' = batch
  OBVIOUS
 <2>3. /\ sent' \in 0 .. Updates /\ covered' \in 0 .. Updates
       /\ covered <= covered' /\ covered' <= sent' /\ sent' <= batch
  BY SMTT(20), <2>1, PipelineAssumption
 <2> QED BY SMTT(20), <1>2, <2>1, <2>2, <2>3, PipelineAssumption DEF InOrder
<1>4. DiskIsSegment' /\ HandedInOrder'
 BY <1>2 DEF DiskIsSegment, HandedInOrder, PipelineInv
<1>5. TypeOK'
 <2>1. net' \in Seq(Event) /\ Len(net') <= NetCapacity
  BY SMTT(20), PipelineFacts, PipelineAssumption DEF Room
 <2> QED BY <1>2, <1>3, <2>1 DEF PipelineInv, TypeOK, limits
<1>6. NumberedFromOne'
 <2>1. /\ DOMAIN net' = 1 .. Len(net) + 1 /\ DOMAIN net = 1 .. Len(net) /\ Len(net) \in Nat
       /\ \A i \in 1 .. Len(net) : net'[i] = net[i]
       /\ net'[Len(net) + 1] = e
  BY SMTT(20) DEF PipelineInv, TypeOK
 <2>2. e.type = "update" => e.at # 0
  <3>1. sent \in Nat
   BY PipelineAssumption DEF PipelineInv, TypeOK
  <3> QED BY <3>1 DEF Update, Checkpoint
 <2>3. \A i \in 1 .. Len(net) + 1 : i \in 1 .. Len(net) \/ i = Len(net) + 1
  BY <2>1
 <2> QED BY <2>1, <2>2, <2>3 DEF NumberedFromOne, PipelineInv
<1> QED BY <1>1, <1>3, <1>4, <1>5, <1>6 DEF PipelineInv

(* Steps that leave alone what the invariant relates. *)
LEMMA OtherStepsKeepInv ==
  ASSUME PipelineInv, UNCHANGED <<net, changes, sent, covered, shown, disk>>,
         Handed' = Handed, TypeOK', batch <= batch', batch' <= produced'
  PROVE  PipelineInv'
<1>1. Known' = Known /\ cursor' = cursor /\ stored' = stored
 BY DEF Known, StoredWith, disk
<1>2. InOrder'
 <2>1. /\ {batch, sent, covered, cursor} \subseteq Int /\ {batch, produced}' \subseteq Int
       /\ cursor <= covered /\ covered <= sent /\ sent <= batch
  BY DEF PipelineInv, TypeOK, InOrder
 <2> QED BY <1>1, <2>1 DEF InOrder
<1> QED BY <1>1, <1>2 DEF PipelineInv, DiskIsSegment, NoneLeftOut, NumberedFromOne,
                          CheckpointsInOrder, HandedInOrder

(* The local worker writes the changes. *)
LEMMA FlushingKeepsInv ==
  ASSUME PipelineInv, Apply(changes), changes' = <<>>,
         UNCHANGED <<produced, worker, net, shown>>,
         TypeOK', AllKnown(Known, Handed'), PagesAhead(shown, Handed')
  PROVE  PipelineInv'
<1>1. stored' = Known /\ cursor' = cursor
 BY FlushWritesKnown DEF PipelineInv
<1>2. Known' = Known
 BY <1>1, UpdatingFacts, KnownIsUnion
<1>3. DiskIsSegment'
 BY <1>1, <1>2, PipelineFacts DEF PipelineInv, DiskIsSegment
<1> QED BY <1>1, <1>2, <1>3 DEF PipelineInv, InOrder, NoneLeftOut, NumberedFromOne,
                                CheckpointsInOrder, HandedInOrder, worker

(* What a command of the terminal is answered with at once. *)
LEMMA AnswersFromTheCache ==
  ASSUME PipelineInv, stored' = Known, forward = <<>>, ui' = ui,
         forward' = CachedPage \/ forward' = Append(CachedPage, Failed)
  PROVE  /\ forward' \in Seq(Event) /\ Len(forward') <= 2
         /\ AllKnown(Known, Handed') /\ PagesAhead(shown, Handed')
<1> DEFINE page == Page(Top(Known))
<1>1. page \in Event /\ page.type = "page" /\ \A u \in Known : u <= page.at
 BY PipelineFacts, EventFacts DEF Page
<1>2. Failed \in Event /\ Failed.type = "failed"
 BY EventFacts DEF Failed
<1>3. /\ Handed = ui /\ Handed \in Seq(Event) /\ ui \in Seq(Event)
      /\ shown \subseteq Known /\ AllKnown(Known, ui) /\ PagesAhead(shown, ui)
 BY PipelineFacts DEF Handed, PipelineInv, HandedInOrder
<1> HIDE DEF page
<1>4. /\ ui \o <<>> = ui /\ Append(<<>>, Failed) = <<Failed>>
      /\ ui \o <<Failed>> = Append(ui, Failed) /\ ui \o <<page>> = Append(ui, page)
      /\ ui \o Append(<<page>>, Failed) = Append(Append(ui, page), Failed)
      /\ \A q \in {<<>>, <<Failed>>, <<page>>, Append(<<page>>, Failed)} :
            q \in Seq(Event) /\ Len(q) <= 2
 BY <1>1, <1>2, <1>3, ShortSequences
<1>5. /\ Append(ui, page) \in Seq(Event)
      /\ AllKnown(Known, Append(ui, page)) /\ PagesAhead(shown, Append(ui, page))
 BY <1>1, <1>3, HandingOneMore
<1>6. \A q \in Seq(Event) : AllKnown(Known, q) /\ PagesAhead(shown, q) =>
         AllKnown(Known, Append(q, Failed)) /\ PagesAhead(shown, Append(q, Failed))
 BY <1>2, <1>3, HandingOneMore
<1>7. CASE CachedPage = <<>>
 <2>1. forward' = <<>> \/ forward' = <<Failed>>
  BY <1>7, <1>4
 <2>2. Handed' = ui \/ Handed' = Append(ui, Failed)
  BY <2>1, <1>3, <1>4 DEF Handed
 <2>3. forward' \in Seq(Event) /\ Len(forward') <= 2
  BY <2>1, <1>3, <1>4
 <2> QED BY <2>2, <2>3, <1>3, <1>6
<1>8. CASE CachedPage = <<page>>
 <2>1. forward' = <<page>> \/ forward' = Append(<<page>>, Failed)
  BY <1>8
 <2>2. Handed' = Append(ui, page) \/ Handed' = Append(Append(ui, page), Failed)
  BY <2>1, <1>3, <1>4 DEF Handed
 <2>3. forward' \in Seq(Event) /\ Len(forward') <= 2
  BY <2>1, <1>3, <1>4
 <2> QED BY <2>2, <2>3, <1>5, <1>6
<1>9. CachedPage = <<>> \/ CachedPage = <<page>>
 BY DEF CachedPage, page
<1> QED BY <1>7, <1>8, <1>9

(* An event of the worker, learnt and handed on. *)
LEMMA ReceivingKeepsInv ==
  ASSUME PipelineInv, ReceiveEvent
  PROVE  PipelineInv' /\ stored \subseteq stored' /\ cursor <= cursor'
<1> DEFINE e == Head(net)
           new == IF e.type = "update" THEN {e.at} ELSE {}
<1>1. /\ net # <<>> /\ forward = <<>> /\ net' = Tail(net) /\ forward' = <<Received(e)>>
      /\ UNCHANGED <<produced, worker, queues, ui, shown, limits>>
 BY DEF ReceiveEvent
<1>2. /\ e \in Event /\ changes \in Seq(Event) /\ net' \in Seq(Event)
      /\ Len(net') <= NetCapacity /\ DOMAIN net = 1 .. Len(net) /\ 1 \in DOMAIN net
      /\ e = net[1]
 <2>1. net \in Seq(Event) /\ changes \in Seq(Event) /\ Len(net) <= NetCapacity
  BY DEF PipelineInv, TypeOK
 <2>2. /\ e \in Event /\ e = net[1] /\ Tail(net) \in Seq(Event) /\ 1 \in DOMAIN net
       /\ DOMAIN net = 1 .. Len(net) /\ Len(Tail(net)) = Len(net) - 1 /\ Len(net) \in Nat
  BY <1>1, <2>1
 <2> HIDE DEF e
 <2> QED BY <1>1, <2>1, <2>2, PipelineAssumption
<1>3. /\ Received(e) \in Event /\ Received(e).type = e.type
      /\ e.type = "page" => \A u \in Known : u <= Received(e).at
      /\ e.type # "page" => Received(e) = e
 <2>1. CASE e.type = "page"
  <3>1. Received(e) = Page(Larger(e.at, Top(Known)))
   BY <2>1 DEF Received, Known
  <3>2. Larger(e.at, Top(Known)) \in 0 .. Updates /\ Top(Known) <= Larger(e.at, Top(Known))
   <4>1. e.at \in 0 .. Updates /\ Top(Known) \in 0 .. Updates
    BY <1>2, PipelineFacts DEF Event
   <4> QED BY <4>1, PipelineAssumption DEF Larger
  <3>3. Received(e) \in Event /\ Received(e).at = Larger(e.at, Top(Known))
        /\ Received(e).type = "page"
   BY <3>1, <3>2, EventFacts DEF Page
  <3>4. \A u \in Known : u <= Larger(e.at, Top(Known))
   <4>1. \A u \in Known : u <= Top(Known) /\ u \in Int
    BY PipelineFacts, PipelineAssumption
   <4>2. Top(Known) \in Int /\ Larger(e.at, Top(Known)) \in Int
    BY <3>2, PipelineFacts, PipelineAssumption
   <4> QED BY <4>1, <4>2, <3>2
  <3> QED BY <2>1, <3>3, <3>4
 <2>2. CASE e.type # "page"
  BY <2>2, <1>2 DEF Received
 <2> QED BY <2>1, <2>2
<1> HIDE DEF e, new
(* What is written and what waits to be. *)
<1>4. /\ Known' = Known \cup new
      /\ stored' = stored \/ stored' = Known \cup new
      /\ cursor' = IF e.type = "checkpoint" THEN e.at ELSE cursor
      /\ e.type = "checkpoint" => stored' = Known
      /\ changes' \in Seq(Event) /\ Len(changes') < FlushSize
      /\ \A i \in DOMAIN changes' : changes'[i].type # "checkpoint"
 <2>1. CASE Flushes(e)
  <3>1. Apply(Append(changes, e)) /\ changes' = <<>>
   BY <2>1 DEF ReceiveEvent, e
  <3>2. /\ stored' = Known \cup new
        /\ cursor' = IF e.type = "checkpoint" THEN e.at ELSE cursor
   BY <3>1, <1>2, EndOfTransaction DEF PipelineInv, new
  <3>3. Known' = stored'
   BY <3>1, UpdatingFacts, KnownIsUnion
  <3> QED BY <3>1, <3>2, <3>3, PipelineAssumption DEF new
 <2>2. CASE ~Flushes(e) /\ e.type = "page"
  <3>1. Apply(changes) /\ changes' = Append(<<>>, Received(e))
   BY <2>2 DEF ReceiveEvent, Kept, e
  <3>2. stored' = Known /\ cursor' = cursor
   BY <3>1, FlushWritesKnown DEF PipelineInv
  <3>3. changes' = <<Received(e)>> /\ changes' \in Seq(Event) /\ Len(changes') = 1
   BY <3>1, <1>2, <1>3, ShortSequences
  <3>4. Known' = Known
   BY <3>2, <3>3, <1>3, <2>2, UpdatingFacts, KnownIsUnion
  <3>5. Len(changes') < FlushSize
   BY <2>2, <3>1, <3>3, PipelineAssumption DEF Flushes, Kept
  <3>6. \A i \in DOMAIN changes' : changes'[i].type # "checkpoint"
   BY <3>3, <1>3, <2>2
  <3> QED BY <3>2, <3>3, <3>4, <3>5, <3>6, <2>2 DEF new
 <2>3. CASE ~Flushes(e) /\ e.type # "page"
  <3>1. UNCHANGED disk /\ changes' = Append(changes, e)
   BY <2>3, <1>3 DEF ReceiveEvent, Kept, e
  <3>2. stored' = stored /\ cursor' = cursor
   BY <3>1 DEF disk
  <3>3. Known' = Known \cup new
   BY <3>1, <3>2, <1>2, UpdatingFacts, KnownIsUnion DEF new
  <3>4. changes' \in Seq(Event) /\ Len(changes') < FlushSize
   <4>1. Len(changes') \in Nat /\ changes' \in Seq(Event)
    BY <3>1, <1>2
   <4> QED BY <4>1, <2>3, <3>1, <1>3, PipelineAssumption DEF Flushes, Kept
  <3>5. \A i \in DOMAIN changes' : changes'[i].type # "checkpoint"
   <4>1. \A i \in DOMAIN changes : changes[i].type # "checkpoint"
    BY DEF PipelineInv, DiskIsSegment
   <4> QED BY <4>1, <2>3, <3>1, <1>2 DEF Flushes
  <3> QED BY <3>2, <3>3, <3>4, <3>5, <2>3 DEF Flushes
 <2> QED BY <2>1, <2>2, <2>3
<1>5. e.type \in {"update", "checkpoint"} => \A u \in 1 .. e.at : u \in Known \cup new
 <2> SUFFICES ASSUME e.type \in {"update", "checkpoint"}, NEW u \in 1 .. e.at
              PROVE  u \in Known \cup new
  OBVIOUS
 <2>1. Reached(Known, net, u, 1)
  BY <1>2 DEF PipelineInv, NoneLeftOut
 <2>2. u \in Known \/ e = Update(u)
  BY <2>1, <1>2 DEF Reached
 <2>3. e = Update(u) => e.type = "update" /\ e.at = u
  BY DEF Update
 <2> QED BY <2>2, <2>3 DEF new
<1>6. Segment(Known \cup new)
 <2>1. CASE new = {}
  <3>1. Known \cup new = Known
   BY <2>1
  <3> QED BY <3>1, PipelineFacts
 <2>2. CASE e.type = "update" /\ e.at # 0
  <3>1. e.at \in 0 .. Updates /\ new = {e.at} /\ Segment(Known)
   BY <2>2, <1>2, PipelineFacts DEF Event, new
  <3> QED BY <2>2, <3>1, <1>5, SegmentGrows
 <2>3. e.type = "update" => e.at # 0
  BY <1>2 DEF PipelineInv, NumberedFromOne
 <2> QED BY <2>1, <2>2, <2>3 DEF new
<1>7. NoneLeftOut' /\ CheckpointsInOrder'
 BY <1>1, <1>4, ReceivingLeavesNoneOut DEF worker, e, new
<1>8. NumberedFromOne'
 <2>1. \A i \in DOMAIN net' : net'[i] = net[i + 1] /\ i + 1 \in DOMAIN net
  BY <1>1 DEF PipelineInv, TypeOK
 <2> QED BY <2>1 DEF NumberedFromOne, PipelineInv
<1>9. cursor <= cursor' /\ cursor' <= covered /\ cursor' \in 0 .. Updates
 <2>1. e.type = "checkpoint" => cursor <= e.at /\ e.at <= covered /\ e.at \in 0 .. Updates
  BY <1>2 DEF PipelineInv, CheckpointsInOrder, Event
 <2>2. cursor <= cursor /\ cursor <= covered /\ cursor \in 0 .. Updates
  BY PipelineFacts, PipelineAssumption DEF PipelineInv, InOrder
 <2> QED BY <1>4, <2>1, <2>2
<1>10. InOrder'
 BY <1>1, <1>9 DEF PipelineInv, InOrder, worker
<1>11. DiskIsSegment'
 <2>1. 1 .. cursor \subseteq stored /\ Segment(stored)
  BY DEF PipelineInv, DiskIsSegment
 <2>2. 1 .. cursor' \subseteq stored'
  <3>1. CASE e.type = "checkpoint"
   BY <3>1, <1>4, <1>5 DEF new
  <3>2. CASE e.type # "checkpoint"
   BY <3>2, <1>4, <2>1, PipelineFacts
  <3> QED BY <3>1, <3>2
 <2>3. Segment(stored')
  BY <2>1, <1>4, <1>6
 <2>4. Segment(Known')
  BY <1>4, <1>6
 <2> QED BY <2>2, <2>3, <2>4, <1>4 DEF DiskIsSegment
<1>12. HandedInOrder'
 <2>1. Handed = ui /\ Handed' = Append(ui, Received(e)) /\ ui \in Seq(Event)
  BY <1>1, <1>3, PipelineFacts, ShortSequences DEF Handed
 <2>2. /\ shown \subseteq Known' /\ AllKnown(Known', ui) /\ PagesAhead(shown, ui)
  BY <2>1, <1>4 DEF PipelineInv, HandedInOrder, AllKnown
 <2>3. Received(e).type = "update" => Received(e).at \in Known'
  BY <1>3, <1>4 DEF new
 <2>4. Received(e).type = "page" => \A u \in Known' : u <= Received(e).at
  BY <1>3, <1>4 DEF new
 <2> QED BY <1>1, <1>3, <2>1, <2>2, <2>3, <2>4, HandingOneMore DEF HandedInOrder
<1>13. TypeOK'
 <2>1. forward' \in Seq(Event) /\ Len(forward') <= 2
  BY <1>1, <1>3, <1>2, ShortSequences
 <2>2. {stored, shown}' \subseteq SUBSET (1 .. Updates)
  <3>1. Known \cup new \subseteq 1 .. Updates
   BY <1>6, PipelineAssumption DEF Segment
  <3> QED BY <3>1, <1>1, <1>4 DEF PipelineInv, TypeOK
 <2> QED BY <1>1, <1>2, <1>4, <1>9, <2>1, <2>2
         DEF PipelineInv, TypeOK, worker, queues, limits
<1>14. stored \subseteq stored'
 BY <1>4, PipelineFacts
<1> QED BY <1>7, <1>8, <1>9, <1>10, <1>11, <1>12, <1>13, <1>14 DEF PipelineInv

-------------------------------------------------------------------------------
(* The pipeline. *)

LEMMA PipelineBegins ==
  ASSUME Init
  PROVE  PipelineInv
<1>1. /\ net = <<>> /\ changes = <<>> /\ forward = <<>> /\ ui = <<>>
      /\ produced = 0 /\ batch = 0 /\ sent = 0 /\ covered = 0 /\ cursor = 0
      /\ stored = {} /\ shown = {}
 BY DEF Init
<1>2. Known = {} /\ Handed = <<>>
 BY <1>1, UpdatingFacts, KnownIsUnion DEF Handed
<1>3. Segment({})
 BY PipelineAssumption DEF Segment
<1>4. TypeOK
 <2>1. flight \in [Slot -> 0 .. Waiting]
  <3>1. Free \in 0 .. Waiting
   BY PipelineAssumption DEF Free, Waiting
  <3> QED BY <3>1 DEF Init
 <2>2. {net, changes, forward, ui} \subseteq Seq(Event)
  BY <1>1
 <2>3. /\ Len(net) <= NetCapacity /\ Len(ui) <= UiCapacity
       /\ Len(changes) < FlushSize /\ Len(forward) <= 2
  BY <1>1, PipelineAssumption
 <2>4. /\ {netcmds, pending, inbox} \subseteq 0 .. CommandCapacity /\ asked \in 0 .. MaxLoads
       /\ restarts \in 0 .. MaxRestarts /\ alive \in BOOLEAN
  BY PipelineAssumption DEF Init
 <2>5. {produced, batch, sent, covered, cursor} \subseteq 0 .. Updates
  BY <1>1, PipelineAssumption
 <2> QED BY <1>1, <2>1, <2>2, <2>3, <2>4, <2>5 DEF TypeOK
<1>5. InOrder /\ DiskIsSegment
 BY <1>1, <1>2, <1>3 DEF InOrder, DiskIsSegment
<1>6. NoneLeftOut /\ NumberedFromOne /\ CheckpointsInOrder /\ HandedInOrder
 BY <1>1, <1>2 DEF NoneLeftOut, NumberedFromOne, CheckpointsInOrder, HandedInOrder,
                   AllKnown, PagesAhead
<1> QED BY <1>4, <1>5, <1>6 DEF PipelineInv

LEMMA PipelineSteps ==
  ASSUME PipelineInv, [Next]_vars
  PROVE  PipelineInv'
<1> USE DEF limits
<1>1. /\ {produced, batch, sent, covered, cursor} \subseteq 0 .. Updates
      /\ cursor <= covered /\ covered <= sent /\ sent <= batch /\ batch <= produced
      /\ {netcmds, pending, inbox} \subseteq 0 .. CommandCapacity
      /\ alive \in BOOLEAN /\ asked \in 0 .. MaxLoads /\ restarts \in 0 .. MaxRestarts
      /\ TypeOK
 BY DEF PipelineInv, TypeOK, InOrder
<1>2. Updates \in Nat /\ {CommandCapacity, MaxLoads, MaxRestarts} \subseteq Nat
 BY PipelineAssumption
<1>3. CASE ServerProduces
 <2>1. produced' = produced + 1 /\ produced' \in 0 .. Updates
  BY <1>1, <1>2, <1>3 DEF ServerProduces
 <2>2. Handed' = Handed
  BY <1>3 DEF ServerProduces, Handed
 <2>3. TypeOK'
  BY <1>1, <1>3, <2>1 DEF ServerProduces, TypeOK, worker, queues, disk
 <2> QED BY <1>1, <1>2, <1>3, <2>1, <2>2, <2>3, OtherStepsKeepInv DEF ServerProduces, worker
<1>4. CASE TakeBatch
 <2>1. batch' \in 0 .. Updates /\ batch <= batch' /\ batch' <= produced
  BY <1>1, <1>2, <1>4 DEF TakeBatch
 <2>2. Handed' = Handed
  BY <1>4 DEF TakeBatch, Handed
 <2>3. TypeOK'
  BY <1>1, <1>4, <2>1 DEF TakeBatch, TypeOK, queues, disk
 <2> QED BY <1>4, <2>1, <2>2, <2>3, OtherStepsKeepInv DEF TakeBatch
<1>5. CASE SendUpdate
 <2>1. sent + 1 \in 0 .. Updates /\ sent < batch
  BY SMTT(20), <1>1, <1>2, <1>5 DEF SendUpdate
 <2>2. Update(sent + 1) \in Event
  BY <2>1, EventFacts
 <2>3. /\ alive' \in BOOLEAN /\ flight' \in [Slot -> 0 .. Waiting]
       /\ netcmds' \in 0 .. CommandCapacity
  BY <1>1, <1>5 DEF SendUpdate, TypeOK, queues
 <2> QED BY <1>5, <2>1, <2>2, <2>3, SendingKeepsInv DEF SendUpdate, queues
<1>6. CASE SendCheckpoint
 <2>1. sent = batch /\ Checkpoint(sent) \in Event
  BY <1>1, <1>6, EventFacts DEF SendCheckpoint
 <2>2. /\ alive' \in BOOLEAN /\ flight' \in [Slot -> 0 .. Waiting]
       /\ netcmds' \in 0 .. CommandCapacity
  BY <1>1, <1>6 DEF SendCheckpoint, TypeOK, queues
 <2> QED BY <1>6, <2>1, <2>2, SendingKeepsInv DEF SendCheckpoint, queues
<1>7. ASSUME NEW s \in Slot, TakeCommand(s)
      PROVE  PipelineInv'
 <2>1. Loading \in Event /\ Loading.type \notin {"update", "checkpoint"}
  BY EventFacts DEF Loading
 <2>2. flight' \in [Slot -> 0 .. Waiting]
  <3>1. Waiting \in 0 .. Waiting
   BY <1>2 DEF Waiting
  <3> QED BY <3>1, <1>1, <1>7 DEF TakeCommand, TypeOK
 <2>3. alive' \in BOOLEAN /\ netcmds' \in 0 .. CommandCapacity
  BY SMTT(20), <1>1, <1>2, <1>7 DEF TakeCommand
 <2> QED BY <1>7, <2>1, <2>2, <2>3, SendingKeepsInv DEF TakeCommand
<1>8. ASSUME NEW s \in Slot, CompleteRequest(s)
      PROVE  PipelineInv'
 <2>1. Page(flight[s]) \in Event /\ Page(flight[s]).type \notin {"update", "checkpoint"}
  BY <1>8, EventFacts DEF CompleteRequest, Page
 <2>2. flight' \in [Slot -> 0 .. Waiting]
  <3>1. Free \in 0 .. Waiting
   BY <1>2 DEF Free, Waiting
  <3> QED BY <3>1, <1>1, <1>8 DEF CompleteRequest, TypeOK
 <2>3. alive' \in BOOLEAN /\ netcmds' \in 0 .. CommandCapacity
  BY <1>1, <1>8 DEF CompleteRequest, TypeOK, queues
 <2> QED BY <1>8, <2>1, <2>2, <2>3, SendingKeepsInv DEF CompleteRequest, queues
<1>9. ASSUME NEW s \in Slot, ServerAnswers(s)
      PROVE  PipelineInv'
 <2>1. flight' \in [Slot -> 0 .. Waiting]
  <3>1. produced \in 0 .. Waiting
   BY <1>1, <1>2 DEF Waiting
  <3> QED BY <3>1, <1>1, <1>9 DEF ServerAnswers, TypeOK
 <2>2. Handed' = Handed
  BY <1>9 DEF ServerAnswers, Handed
 <2>3. TypeOK'
  BY <1>1, <1>9, <2>1 DEF ServerAnswers, TypeOK, queues, disk
 <2> QED BY <1>1, <1>2, <1>9, <2>2, <2>3, OtherStepsKeepInv DEF ServerAnswers
<1>10. CASE WorkerFails
 <2>1. flight' \in [Slot -> 0 .. Waiting]
  <3>1. Free \in 0 .. Waiting
   BY <1>2 DEF Free, Waiting
  <3> QED BY <3>1, <1>10 DEF WorkerFails
 <2>2. Handed' = Handed
  BY <1>10 DEF WorkerFails, Handed
 <2>3. restarts' \in 0 .. MaxRestarts /\ netcmds' \in 0 .. CommandCapacity /\ alive' = FALSE
  BY <1>1, <1>2, <1>10 DEF WorkerFails
 <2>4. TypeOK'
  BY <1>1, <1>10, <2>1, <2>3 DEF WorkerFails, TypeOK, disk
 <2> QED BY <1>1, <1>2, <1>10, <2>2, <2>4, OtherStepsKeepInv DEF WorkerFails
<1>11. CASE ReceiveEvent
 BY <1>11, ReceivingKeepsInv
<1>12. CASE HandOn
 <2>1. /\ ui \in Seq(Event) /\ forward \in Seq(Event) /\ forward # <<>>
       /\ Len(ui) < UiCapacity /\ Len(forward) <= 2
       /\ ui' = Append(ui, Head(forward)) /\ forward' = Tail(forward)
  BY <1>1, <1>12 DEF HandOn, TypeOK
 <2>2. ui' \o forward' = ui \o forward
  BY <2>1
 <2>3. /\ ui' \in Seq(Event) /\ forward' \in Seq(Event)
       /\ Len(ui') <= UiCapacity /\ Len(forward') <= 2
  BY <2>1, PipelineAssumption
 <2>4. TypeOK'
  BY <1>1, <1>12, <2>3 DEF HandOn, TypeOK, worker, queues, disk
 <2>5. Handed' = Handed
  BY <2>2 DEF Handed
 <2> QED BY <1>1, <1>2, <1>12, <2>4, <2>5, OtherStepsKeepInv DEF HandOn, worker
<1>13. CASE FlushTick
 <2>1. stored' = Known /\ cursor' = cursor
  BY <1>13, FlushWritesKnown DEF FlushTick, PipelineInv
 <2>2. Handed' = Handed
  BY <1>13 DEF FlushTick, Handed
 <2>3. changes' = <<>> /\ changes' \in Seq(Event) /\ Len(changes') < FlushSize
  BY <1>13, PipelineAssumption DEF FlushTick
 <2>4. TypeOK'
  <3>1. Known \subseteq 1 .. Updates
   BY PipelineFacts
  <3> QED BY <3>1, <1>1, <1>13, <2>1, <2>3 DEF FlushTick, TypeOK, worker, queues
 <2> QED BY <1>13, <2>2, <2>4, FlushingKeepsInv DEF FlushTick, PipelineInv, HandedInOrder
<1>14. CASE ServeCommand
 <2>1. stored' = Known /\ cursor' = cursor
  BY <1>14, FlushWritesKnown DEF ServeCommand, PipelineInv
 <2>2. forward' = CachedPage \/ forward' = Append(CachedPage, Failed)
  BY <1>14 DEF ServeCommand
 <2>3. /\ forward' \in Seq(Event) /\ Len(forward') <= 2
       /\ AllKnown(Known, Handed') /\ PagesAhead(shown, Handed')
  BY <1>14, <2>1, <2>2, AnswersFromTheCache DEF ServeCommand
 <2>4. changes' = <<>> /\ changes' \in Seq(Event) /\ Len(changes') < FlushSize
  BY <1>14, PipelineAssumption DEF ServeCommand
 <2>5. {netcmds, pending, inbox}' \subseteq 0 .. CommandCapacity
  <3>1. inbox' \in 0 .. CommandCapacity /\ netcmds' = netcmds
   BY SMTT(20), <1>1, <1>2, <1>14 DEF ServeCommand
  <3>2. CASE pending < CommandCapacity
   <4>1. pending' = pending + 1
    BY <3>2, <1>14 DEF ServeCommand
   <4> QED BY <4>1, <3>1, <3>2, <1>1, <1>2
  <3>3. CASE ~(pending < CommandCapacity)
   <4>1. pending' = pending
    BY <3>3, <1>14 DEF ServeCommand
   <4> QED BY <4>1, <3>1, <1>1, <1>2
  <3> QED BY <3>2, <3>3
 <2>6. TypeOK'
  <3>1. Known \subseteq 1 .. Updates
   BY PipelineFacts
  <3> QED BY <3>1, <1>1, <1>14, <2>1, <2>3, <2>4, <2>5 DEF ServeCommand, TypeOK, worker
 <2> QED BY <1>14, <2>3, <2>6, FlushingKeepsInv DEF ServeCommand
<1>15. CASE PassCommand
 <2>1. Handed' = Handed
  BY <1>15 DEF PassCommand, Handed
 <2>2. {netcmds, pending, inbox}' \subseteq 0 .. CommandCapacity
  <3>1. /\ pending > 0 /\ pending' = pending - 1
        /\ netcmds < CommandCapacity /\ netcmds' = netcmds + 1 /\ inbox' = inbox
   BY <1>15 DEF PassCommand
  <3> QED BY <3>1, <1>1, <1>2
 <2>3. TypeOK'
  BY <1>1, <1>15, <2>2 DEF PassCommand, TypeOK, worker, disk
 <2> QED BY <1>1, <1>2, <1>15, <2>1, <2>3, OtherStepsKeepInv DEF PassCommand, worker
<1>16. CASE Ask
 <2>1. Handed' = Handed
  BY <1>16 DEF Ask, Handed
 <2>2. {netcmds, pending, inbox}' \subseteq 0 .. CommandCapacity /\ asked' \in 0 .. MaxLoads
  BY <1>1, <1>2, <1>16 DEF Ask
 <2>3. TypeOK'
  BY <1>1, <1>16, <2>2 DEF Ask, TypeOK, worker, disk
 <2> QED BY <1>1, <1>2, <1>16, <2>1, <2>3, OtherStepsKeepInv DEF Ask, worker
<1>17. CASE Show
 <2>1. ui \in Seq(Event) /\ ui # <<>> /\ forward \in Seq(Event)
  BY <1>1, <1>17 DEF Show, TypeOK
 <2>2. /\ Handed # <<>> /\ Head(Handed) = Head(ui) /\ Handed' = Tail(Handed)
       /\ Handed \in Seq(Event)
  BY <1>17, <2>1 DEF Show, Handed
 <2>3. Known' = Known /\ cursor' = cursor /\ stored' = stored
  BY <1>17 DEF Show, Known, StoredWith, disk
 <2>4. /\ shown' \subseteq Known /\ AllKnown(Known, Handed') /\ PagesAhead(shown', Handed')
  <3>1. /\ shown \subseteq Known /\ AllKnown(Known, Handed) /\ PagesAhead(shown, Handed)
   BY DEF PipelineInv, HandedInOrder
  <3>2. shown' = shown \cup (IF Head(Handed).type = "update" THEN {Head(Handed).at} ELSE {})
   BY <1>17, <2>2 DEF Show
  <3>3. \A after :
           after = shown \cup (IF Head(Handed).type = "update" THEN {Head(Handed).at} ELSE {}) =>
              /\ after \subseteq Known
              /\ AllKnown(Known, Tail(Handed)) /\ PagesAhead(after, Tail(Handed))
   BY <2>2, <3>1, ShowingTheFirst
  <3>4. shown' \subseteq Known /\ AllKnown(Known, Tail(Handed))
        /\ PagesAhead(shown', Tail(Handed))
   BY <3>2, <3>3
  <3> QED BY <2>2, <3>4
 <2>5. TypeOK'
  <3>1. ui' \in Seq(Event) /\ Len(ui') <= UiCapacity
   <4>1. Len(Tail(ui)) <= Len(ui) /\ Len(ui) <= UiCapacity /\ Tail(ui) \in Seq(Event)
         /\ Len(Tail(ui)) \in Nat /\ Len(ui) \in Nat
    BY <1>1, <2>1 DEF TypeOK
   <4> QED BY <4>1, <1>17, PipelineAssumption DEF Show
  <3>2. shown' \subseteq 1 .. Updates
   BY <2>4, PipelineFacts
  <3> QED BY <3>1, <3>2, <1>1, <1>17, <2>3 DEF Show, TypeOK, worker, queues
 <2> QED BY <1>17, <2>3, <2>4, <2>5
         DEF Show, PipelineInv, InOrder, DiskIsSegment, NoneLeftOut, NumberedFromOne,
             CheckpointsInOrder, HandedInOrder, worker
<1>18. CASE Crash
 <2>1. /\ NewSession /\ stored' = stored /\ cursor' = cursor
       /\ restarts' \in 0 .. MaxRestarts
  BY <1>1, <1>2, <1>18 DEF Crash, disk
 <2>2. Segment(stored') /\ 1 .. cursor' \subseteq stored'
  BY <2>1 DEF PipelineInv, DiskIsSegment
 <2> QED BY <1>1, <1>2, <2>1, <2>2, SessionBegins
<1>19. CASE Quit \/ LocalEnds
 <2>1. /\ NewSession /\ Apply(changes)
       /\ restarts' \in 0 .. MaxRestarts
  BY <1>1, <1>2, <1>19 DEF Quit, LocalEnds
 <2>2. stored' = Known /\ cursor' = cursor
  BY <2>1, FlushWritesKnown DEF PipelineInv
 <2>3. Segment(stored') /\ 1 .. cursor' \subseteq stored'
  BY <2>2, PipelineFacts DEF PipelineInv, DiskIsSegment
 <2> QED BY <1>1, <1>2, <2>1, <2>2, <2>3, SessionBegins
<1>20. CASE UNCHANGED vars
 BY <1>20 DEF vars, worker, disk, queues, PipelineInv, TypeOK, InOrder, DiskIsSegment,
              Known, StoredWith, NoneLeftOut, NumberedFromOne, CheckpointsInOrder,
              HandedInOrder, Handed
<1> QED BY <1>3, <1>4, <1>5, <1>6, <1>7, <1>8, <1>9, <1>10, <1>11, <1>12, <1>13, <1>14,
   <1>15, <1>16, <1>17, <1>18, <1>19, <1>20
DEF Next, WorkerStep, LocalStep

(* The disk never loses an update, and its cursor never goes back. *)
LEMMA DiskGrows ==
  ASSUME PipelineInv, [Next]_vars
  PROVE  stored \subseteq stored' /\ cursor <= cursor'
<1>1. cursor \in Int
 BY DEF PipelineInv, TypeOK
<1>2. CASE ReceiveEvent
 BY <1>2, ReceivingKeepsInv
<1>3. CASE Apply(changes)
 BY <1>1, <1>3, FlushWritesKnown, PipelineFacts DEF PipelineInv
<1>4. CASE UNCHANGED disk
 BY <1>1, <1>4 DEF disk
<1>5. [Next]_vars => ReceiveEvent \/ Apply(changes) \/ UNCHANGED disk
 BY DEF Next, WorkerStep, LocalStep, vars, ServerProduces, ServerAnswers, TakeBatch,
        SendUpdate, SendCheckpoint, TakeCommand, CompleteRequest, WorkerFails, FlushTick,
        ServeCommand, PassCommand, LocalEnds, HandOn, Ask, Show, Crash, Quit
<1> QED BY <1>2, <1>3, <1>4, <1>5

(***************************************************************************)
(* The invariant of the pipeline, which gives the types, the order of what *)
(* the worker sent, and that no update is left out of the way to the disk. *)
(***************************************************************************)
THEOREM PipelineIsInvariant == Spec => []PipelineInv
<1>1. Init => PipelineInv
 BY PipelineBegins
<1>2. PipelineInv /\ [Next]_vars => PipelineInv'
 BY PipelineSteps
<1> QED BY <1>1, <1>2, PTL DEF Spec

(* The types of the pipeline, and the bounds of its queues and transactions. *)
THEOREM PipelineTypeOK == Spec => []TypeOK
<1>1. PipelineInv => TypeOK
 BY DEF PipelineInv
<1> QED BY <1>1, PipelineIsInvariant, PTL

(***************************************************************************)
(* Whatever is sent, written and lost, and whenever the program ends: the  *)
(* cursor on disk covers only updates that are on disk with it, the disk   *)
(* has every update up to its last, and no page handed to the terminal is  *)
(* behind an update that was handed to it before.                          *)
(***************************************************************************)
THEOREM PipelineSkipsNothing == Spec => []NothingIsSkipped
<1>1. PipelineInv => CursorCovered
 BY TopBounds DEF PipelineInv, DiskIsSegment, CursorCovered
<1>2. PipelineInv => PagesNotBehind
 <2> SUFFICES ASSUME PipelineInv, NEW j \in DOMAIN Handed, Handed[j].type = "page"
              PROVE  /\ Handed[j].at >= Top(shown)
                     /\ \A i \in 1 .. j - 1 :
                           Handed[i].type = "update" => Handed[i].at <= Handed[j].at
  BY DEF PagesNotBehind
 <2>1. PagesAhead(shown, Handed) /\ shown \subseteq 1 .. Updates
  BY PipelineFacts DEF PipelineInv, HandedInOrder
 <2>2. Handed[j] \in Event
  <3>1. Handed \in Seq(Event)
   BY PipelineFacts
  <3> QED BY <3>1
 <2>3. Handed[j].at \in Nat
  BY <2>2, PipelineAssumption DEF Event
 <2>4. CASE shown = {}
  BY <2>1, <2>3, <2>4 DEF PagesAhead, Top
 <2>5. CASE shown # {}
  <3>1. Top(shown) \in shown
   BY <2>1, <2>5, TopIsGreatest
  <3>2. Top(shown) \in Int
   BY <3>1, <2>1, PipelineAssumption
  <3> QED BY <2>1, <2>3, <3>1, <3>2 DEF PagesAhead
 <2> QED BY <2>4, <2>5
<1> QED BY <1>1, <1>2, PipelineIsInvariant, PTL DEF NothingIsSkipped

(***************************************************************************)
(* The cache file implements the durable stream: every step of the workers *)
(* either leaves it alone or extends it, in order, with its cursor behind  *)
(* it.                                                                     *)
(***************************************************************************)
THEOREM PipelineIsDurable ==
  Spec => Durable!Init /\ [][Durable!Extend]_<<stored, cursor>>
<1>1. Init => Durable!Init
 BY DEF Init, Durable!Init
<1>2. PipelineInv /\ PipelineInv' /\ [Next]_vars => [Durable!Extend]_<<stored, cursor>>
 <2> SUFFICES ASSUME PipelineInv, PipelineInv', [Next]_vars,
                     <<stored, cursor>>' # <<stored, cursor>>
              PROVE  Durable!Extend
  OBVIOUS
 <2>1. PICK n \in 0 .. Updates : stored' = 1 .. n
  BY DEF PipelineInv, DiskIsSegment, Segment
 <2>2. stored \subseteq 1 .. n /\ cursor <= cursor'
  BY <2>1, DiskGrows
 <2>3. cursor' \in 0 .. Updates /\ cursor \in 0 .. Updates /\ 1 .. cursor' \subseteq 1 .. n
  BY <2>1 DEF PipelineInv, TypeOK, DiskIsSegment
 <2>4. cursor' \in cursor .. n
  BY <2>1, <2>2, <2>3, PipelineAssumption
 <2> QED BY <2>1, <2>2, <2>4 DEF Durable!Extend
<1> QED BY <1>1, <1>2, PipelineIsInvariant, PTL DEF Spec

-------------------------------------------------------------------------------
(* The lists of the account. *)

(* No command has changed the list and failed since its last refresh began. *)
Whole(l) == l \notin torn

Arrived(k) == InFlight(k) /\ answer[k] \notin {Unanswered, Failure} /\ ~dirty[k]

(* No list is ahead of the server, and no change of the bound is used twice. *)
ListsBehind ==
    \A l \in List :
        /\ listed[l] <= version[l]
        /\ version[l] + left.changes <= MaxChanges
        /\ \A v \in news[l] : v <= version[l]

(* A refresh asks for one list, and for the one that is wanted unless that changed,
   which makes it dirty. *)
AsksAreWanted ==
    \A k \in Refresh : InFlight(k) =>
        /\ k # Pins => asks[k] = k
        /\ k = Pins => asks[k] \in Chat
        /\ asks[k] = Wanted(k) \/ dirty[k]

(* An answer that will be accepted is not behind what the terminal has, nor ahead of
   the server, and it is what the server has unless a change is on its way. *)
AnswersAreCurrent ==
    \A k \in Refresh : Arrived(k) =>
        /\ listed[asks[k]] <= answer[k] /\ answer[k] <= version[asks[k]]
        /\ Whole(asks[k]) => answer[k] = version[asks[k]] \/ OnItsWay(asks[k])

(* SettledIsCurrent, spelled out. *)
WholeSettle ==
    \A k \in Refresh :
        \/ dirty[k] \/ InFlight(k) \/ failed[k]
        \/ Wanted(k) = NoChat \/ ~Whole(Wanted(k)) \/ OnItsWay(Wanted(k))
        \/ listed[Wanted(k)] = version[Wanted(k)]

ListsInv ==
    ListsType /\ ListsBehind /\ AsksAreWanted /\ AnswersAreCurrent /\ WholeSettle

LEMMA ListsBegin ==
  ASSUME ListsInit
  PROVE  ListsInv
<1> USE DEF ListsInit
<1>1. MaxChanges \in Nat /\ MaxTasks \in Nat \ {0} /\ {MaxFailures, MaxCommands, MaxSwitches} \subseteq Nat
 BY RefreshAssumption
<1>2. \A k \in Refresh : ~InFlight(k)
 BY DEF InFlight
<1>3. Requests = 0
 <2>1. {k \in Refresh : InFlight(k)} = {} /\ DOMAIN busy = {}
  BY <1>2
 <2>2. Cardinality({k \in Refresh : InFlight(k)}) = 0 /\ Cardinality(DOMAIN busy) = 0
  BY <2>1, FS_EmptySet
 <2> QED BY <2>2 DEF Requests
<1>4. ListsType
 BY <1>1, <1>3 DEF ListsType, Failure, Unanswered
<1>5. ListsBehind
 BY <1>1 DEF ListsBehind
<1>6. AsksAreWanted /\ AnswersAreCurrent /\ WholeSettle
 BY <1>2 DEF AsksAreWanted, AnswersAreCurrent, Arrived, WholeSettle
<1> QED BY <1>4, <1>5, <1>6 DEF ListsInv

(* What the steps need of the invariant and of the constants. *)
LEMMA ListsFacts ==
  ASSUME ListsInv
  PROVE  /\ MaxChanges \in Nat /\ MaxTasks \in Nat \ {0}
         /\ {MaxFailures, MaxCommands, MaxSwitches} \subseteq Nat
         /\ version \in [List -> Nat] /\ listed \in [List -> Nat]
         /\ dirty \in [Refresh -> BOOLEAN] /\ failed \in [Refresh -> BOOLEAN]
         /\ asks \in [Refresh -> List \cup {None}] /\ answer \in [Refresh -> Int]
         /\ news \in [List -> SUBSET Nat]
         /\ left.changes \in Nat /\ left.failures \in Nat
         /\ left.commands \in Nat /\ left.switches \in Nat
         /\ Pins \in Refresh /\ (\A k \in Refresh : k # Pins => k \in Topic /\ k \in List)
         /\ \A k \in Refresh : Wanted(k) = NoChat \/ Wanted(k) \in List
         /\ \A k \in Refresh : InFlight(k) => asks[k] \in List
         /\ IsFiniteSet(DOMAIN busy) /\ IsFiniteSet({k \in Refresh : InFlight(k)})
<1>1. /\ MaxChanges \in Nat /\ MaxTasks \in Nat \ {0}
      /\ {MaxFailures, MaxCommands, MaxSwitches} \subseteq Nat
 BY RefreshAssumption
<1>2. /\ version \in [List -> Nat] /\ listed \in [List -> Nat]
      /\ dirty \in [Refresh -> BOOLEAN] /\ failed \in [Refresh -> BOOLEAN]
      /\ asks \in [Refresh -> List \cup {None}] /\ answer \in [Refresh -> Int]
      /\ news \in [List -> SUBSET Nat]
 <2>1. 0 .. MaxChanges \subseteq Nat /\ 1 .. MaxChanges \subseteq Nat
       /\ Failure .. MaxChanges \subseteq Int
  BY <1>1 DEF Failure
 <2> QED BY <2>1 DEF ListsInv, ListsType
<1>3. /\ left.changes \in Nat /\ left.failures \in Nat
      /\ left.commands \in Nat /\ left.switches \in Nat
 BY <1>1 DEF ListsInv, ListsType
<1>4. Pins \in Refresh /\ \A k \in Refresh : k # Pins => k \in Topic /\ k \in List
 BY DEF Refresh, List
<1>5. \A k \in Refresh : Wanted(k) = NoChat \/ Wanted(k) \in List
 BY <1>4 DEF Wanted, ListsInv, ListsType, List
<1>6. \A k \in Refresh : InFlight(k) => asks[k] \in List
 BY <1>2 DEF InFlight
<1>7. IsFiniteSet(DOMAIN busy)
 <2>1. DOMAIN busy \subseteq 1 .. MaxTasks
  BY DEF ListsInv, ListsType
 <2>2. IsFiniteSet(1 .. MaxTasks)
  BY <1>1, FS_Interval
 <2> QED BY <2>1, <2>2, FS_Subset
<1>8. IsFiniteSet({k \in Refresh : InFlight(k)})
 <2>1. IsFiniteSet(Refresh)
  BY RefreshAssumption, FS_AddElement DEF Refresh
 <2>2. {k \in Refresh : InFlight(k)} \subseteq Refresh
  OBVIOUS
 <2> QED BY <2>1, <2>2, FS_Subset
<1> QED BY <1>1, <1>2, <1>3, <1>4, <1>5, <1>6, <1>7, <1>8

(* Two refreshes never ask for the same list. *)
LEMMA AsksDiffer ==
  ASSUME ListsInv, NEW j \in Refresh, NEW k \in Refresh, j # k, InFlight(j), InFlight(k)
  PROVE  asks[j] # asks[k]
BY ListsFacts, RefreshAssumption DEF ListsInv, AsksAreWanted

(* Nor does one that begins ask for what another has asked for. *)
LEMMA WantsDiffer ==
  ASSUME ListsInv, NEW j \in Refresh, NEW k \in Refresh, j # k, InFlight(j), Wanted(k) # NoChat
  PROVE  asks[j] # Wanted(k)
BY ListsFacts, RefreshAssumption DEF ListsInv, ListsType, AsksAreWanted, Wanted

(* Steps of the server and of the terminal, which leave the refreshes alone. *)
LEMMA RequestsStay ==
  ASSUME UNCHANGED asks, DOMAIN busy' = DOMAIN busy
  PROVE  Requests' = Requests
BY DEF Requests, InFlight

(* The server changes a list, and one way or another says so later. *)
LEMMA ServerChangesKeeps ==
  ASSUME ListsInv, NEW l \in List, ServerChanges(l)
  PROVE  ListsInv'
<1>1. /\ version' = [version EXCEPT ![l] = @ + 1] /\ version'[l] = version[l] + 1
      /\ news' = [news EXCEPT ![l] = @ \cup {version'[l]}]
      /\ left' = [left EXCEPT !.changes = @ - 1] /\ left.changes > 0
      /\ UNCHANGED <<dirty, asks, answer, busy, target, active, listed, failed, torn>>
 BY ListsFacts DEF ServerChanges
<1>2. /\ version[l] + 1 <= MaxChanges /\ left'.changes = left.changes - 1
      /\ left'.changes \in 0 .. MaxChanges
      /\ left' \in [changes : 0 .. MaxChanges, failures : 0 .. MaxFailures,
                    commands : 0 .. MaxCommands, switches : 0 .. MaxSwitches]
 BY <1>1, ListsFacts DEF ListsInv, ListsBehind, ListsType
<1>3. ListsType'
 <2>1. version' \in [List -> 0 .. MaxChanges]
  BY <1>1, <1>2, ListsFacts DEF ListsInv, ListsType
 <2>2. news' \in [List -> SUBSET (1 .. MaxChanges)]
  <3>1. version'[l] \in 1 .. MaxChanges
   BY <1>1, <1>2, ListsFacts
  <3> QED BY <1>1, <3>1 DEF ListsInv, ListsType
 <2>3. Requests' = Requests
  BY <1>1, RequestsStay
 <2> QED BY <1>1, <1>2, <2>1, <2>2, <2>3 DEF ListsInv, ListsType
<1>4. \A m \in List : /\ version'[m] = IF m = l THEN version[m] + 1 ELSE version[m]
                      /\ m # l => news'[m] = news[m]
                      /\ OnItsWay(m) => OnItsWay(m)'
 BY <1>1, ListsFacts DEF OnItsWay
<1>5. OnItsWay(l)'
 BY <1>1, ListsFacts DEF OnItsWay
<1>6. ListsBehind'
 <2> SUFFICES ASSUME NEW m \in List
              PROVE  /\ listed[m] <= version'[m]
                     /\ version'[m] + left'.changes <= MaxChanges
                     /\ \A v \in news'[m] : v <= version'[m]
  BY <1>1 DEF ListsBehind
 <2>1. /\ listed[m] <= version[m] /\ version[m] + left.changes <= MaxChanges
       /\ \A v \in news[m] : v <= version[m]
  BY DEF ListsInv, ListsBehind
 <2>2. /\ version[m] \in Nat /\ listed[m] \in Nat /\ left.changes \in Nat /\ MaxChanges \in Nat
       /\ news[m] \subseteq Nat
  BY ListsFacts
 <2>3. \A v \in news'[m] : v \in news[m] \/ v = version'[m]
  BY <1>1, <1>4, ListsFacts
 <2> QED BY <2>1, <2>2, <2>3, <1>2, <1>4
<1>7. AsksAreWanted'
 BY <1>1 DEF ListsInv, AsksAreWanted, InFlight, Wanted
<1>8. AnswersAreCurrent'
 <2> SUFFICES ASSUME NEW k \in Refresh, Arrived(k)
              PROVE  /\ listed[asks[k]] <= answer[k] /\ answer[k] <= version'[asks[k]]
                     /\ Whole(asks[k]) => answer[k] = version'[asks[k]] \/ OnItsWay(asks[k])'
  BY <1>1 DEF AnswersAreCurrent, Arrived, InFlight, Whole
 <2>1. asks[k] \in List
  BY ListsFacts DEF Arrived
 <2>2. asks' = asks /\ \A m \in List : m # l => version'[m] = version[m]
  BY <1>1, <1>4
 <2>3. /\ listed[asks[k]] <= answer[k] /\ answer[k] <= version[asks[k]]
       /\ Whole(asks[k]) => answer[k] = version[asks[k]] \/ OnItsWay(asks[k])
  BY DEF ListsInv, AnswersAreCurrent
 <2>4. answer[k] <= version'[asks[k]]
  BY <2>1, <2>3, <1>4, ListsFacts
 <2> QED BY <2>1, <2>2, <2>3, <2>4, <1>4, <1>5
<1>9. WholeSettle'
 <2> SUFFICES ASSUME NEW k \in Refresh, ~dirty[k], ~InFlight(k), ~failed[k],
                     Wanted(k) # NoChat, Whole(Wanted(k)), ~OnItsWay(Wanted(k))'
              PROVE  listed[Wanted(k)] = version'[Wanted(k)]
  BY <1>1 DEF WholeSettle, InFlight, Wanted, Whole
 <2>1. Wanted(k) \in List /\ Wanted(k)' = Wanted(k)
  BY <1>1, ListsFacts DEF Wanted
 <2>2. Wanted(k) # l /\ ~OnItsWay(Wanted(k))
  BY <2>1, <1>4, <1>5
 <2> QED BY <2>1, <2>2, <1>4 DEF ListsInv, WholeSettle
<1> QED BY <1>3, <1>6, <1>7, <1>8, <1>9 DEF ListsInv

(* The server answers a refresh with what the list is, or refuses it. *)
LEMMA ServerAnswersKeeps ==
  ASSUME ListsInv, NEW k \in Refresh, ListAnswered(k) \/ ListRefused(k)
  PROVE  ListsInv'
<1>1. /\ InFlight(k) /\ asks[k] \in List
      /\ answer' = [answer EXCEPT ![k] = answer'[k]]
      /\ answer'[k] = version[asks[k]] \/ answer'[k] = Failure
      /\ UNCHANGED <<version, news, dirty, asks, busy, target, active, listed, failed, torn>>
      /\ left'.changes = left.changes
      /\ left' \in [changes : 0 .. MaxChanges, failures : 0 .. MaxFailures,
                    commands : 0 .. MaxCommands, switches : 0 .. MaxSwitches]
 BY ListsFacts DEF ListAnswered, ListRefused, ListsInv, ListsType
<1>2. ListsType'
 <2>1. answer' \in [Refresh -> Failure .. MaxChanges]
  <3>1. version[asks[k]] \in Failure .. MaxChanges /\ Failure \in Failure .. MaxChanges
   BY <1>1, ListsFacts DEF Failure, ListsInv, ListsType
  <3> QED BY <1>1, <3>1 DEF ListsInv, ListsType
 <2>2. Requests' = Requests
  BY <1>1, RequestsStay
 <2> QED BY <1>1, <2>1, <2>2 DEF ListsInv, ListsType
<1>3. ListsBehind' /\ AsksAreWanted' /\ WholeSettle'
 BY <1>1 DEF ListsInv, ListsBehind, AsksAreWanted, WholeSettle, InFlight, Wanted,
             Whole, OnItsWay
<1>4. AnswersAreCurrent'
 <2> SUFFICES ASSUME NEW j \in Refresh, Arrived(j)'
              PROVE  /\ listed[asks[j]] <= answer'[j] /\ answer'[j] <= version[asks[j]]
                     /\ Whole(asks[j]) => answer'[j] = version[asks[j]] \/ OnItsWay(asks[j])
  BY <1>1 DEF AnswersAreCurrent, OnItsWay, Whole
 <2>1. CASE j = k
  <3>1. answer'[k] = version[asks[k]]
   BY <1>1, <2>1 DEF Arrived
  <3> QED BY <1>1, <2>1, <3>1, ListsFacts DEF ListsInv, ListsBehind
 <2>2. CASE j # k
  <3>1. answer'[j] = answer[j] /\ Arrived(j)
   BY <1>1, <2>2, ListsFacts DEF Arrived, InFlight
  <3> QED BY <3>1 DEF ListsInv, AnswersAreCurrent
 <2> QED BY <2>1, <2>2
<1> QED BY <1>2, <1>3, <1>4 DEF ListsInv

(* An update of a list makes the refresh dirty that is about it. *)
LEMMA UpdateArrivesKeeps ==
  ASSUME ListsInv, NEW l \in List, UpdateArrives(l)
  PROVE  ListsInv'
<1>1. PICK v \in news[l] :
        /\ news' = [news EXCEPT ![l] = @ \ {v}]
        /\ listed' = IF Changed(l, v) THEN [listed EXCEPT ![l] = v] ELSE listed
        /\ dirty' = [k \in Refresh |-> dirty[k] \/ Concerns(k, l)]
        /\ UNCHANGED <<version, asks, answer, busy, target, active, failed, torn, left>>
 BY DEF UpdateArrives
<1>2. v \in Nat /\ v <= version[l] /\ v \in 0 .. MaxChanges
 BY ListsFacts DEF ListsInv, ListsBehind, ListsType
<1>3. ListsType'
 <2>1. listed' \in [List -> 0 .. MaxChanges]
  BY <1>1, <1>2 DEF ListsInv, ListsType
 <2>2. news' \in [List -> SUBSET (1 .. MaxChanges)]
  BY <1>1 DEF ListsInv, ListsType
 <2>3. dirty' \in [Refresh -> BOOLEAN]
  <3>1. \A k \in Refresh : (dirty[k] \/ Concerns(k, l)) \in BOOLEAN
   OBVIOUS
  <3> QED BY <1>1, <3>1
 <2>4. Requests' = Requests
  BY <1>1, RequestsStay
 <2> QED BY <1>1, <2>1, <2>2, <2>3, <2>4 DEF ListsInv, ListsType
<1>4. \A m \in List : /\ m # l => listed'[m] = listed[m] /\ news'[m] = news[m]
                      /\ listed'[m] <= version[m]
                      /\ news'[m] \subseteq news[m]
                      /\ m # l => (OnItsWay(m)' <=> OnItsWay(m))
 <2>1. \A m \in List : listed[m] <= version[m]
  BY DEF ListsInv, ListsBehind
 <2> QED BY <1>1, <1>2, <2>1, ListsFacts DEF OnItsWay
<1>5. \A k \in Refresh : /\ dirty[k] => dirty'[k]
                         /\ Wanted(k) = l => dirty'[k]
 BY <1>1, ListsFacts DEF Concerns
<1>6. ListsBehind'
 BY <1>1, <1>4 DEF ListsInv, ListsBehind
<1>7. AsksAreWanted'
 BY <1>1, <1>5 DEF ListsInv, AsksAreWanted, InFlight, Wanted
<1>8. AnswersAreCurrent'
 <2> SUFFICES ASSUME NEW k \in Refresh, InFlight(k),
                     answer[k] \notin {Unanswered, Failure}, ~dirty'[k]
              PROVE  /\ listed'[asks[k]] <= answer[k] /\ answer[k] <= version[asks[k]]
                     /\ Whole(asks[k]) =>
                           answer[k] = version[asks[k]] \/ OnItsWay(asks[k])'
  BY <1>1 DEF AnswersAreCurrent, Arrived, InFlight, Whole
 <2>1. Arrived(k) /\ asks[k] \in List /\ asks[k] # l /\ asks' = asks
  BY <1>1, <1>5, ListsFacts DEF ListsInv, AsksAreWanted, Arrived
 <2>2. /\ listed[asks[k]] <= answer[k] /\ answer[k] <= version[asks[k]]
       /\ Whole(asks[k]) => answer[k] = version[asks[k]] \/ OnItsWay(asks[k])
  BY <2>1 DEF ListsInv, AnswersAreCurrent
 <2> QED BY <2>1, <2>2, <1>4
<1>9. WholeSettle'
 <2> SUFFICES ASSUME NEW k \in Refresh, ~dirty'[k], ~InFlight(k), ~failed[k],
                     Wanted(k) # NoChat, Whole(Wanted(k)), ~OnItsWay(Wanted(k))'
              PROVE  listed'[Wanted(k)] = version[Wanted(k)]
  BY <1>1 DEF WholeSettle, InFlight, Wanted, Whole
 <2>1. Wanted(k) \in List /\ Wanted(k)' = Wanted(k) /\ Wanted(k) # l /\ ~dirty[k]
  BY <1>1, <1>5, ListsFacts DEF Wanted
 <2>2. ~OnItsWay(Wanted(k))
  BY <2>1, <1>4
 <2> QED BY <2>1, <2>2, <1>4 DEF ListsInv, WholeSettle
<1> QED BY <1>3, <1>6, <1>7, <1>8, <1>9 DEF ListsInv

(* A refresh begins, clean, and asks for the list that is wanted. *)
LEMMA StartRefreshKeeps ==
  ASSUME ListsInv, NEW k \in Refresh, StartRefresh(k)
  PROVE  ListsInv'
<1>1. /\ dirty[k] /\ ~InFlight(k) /\ SlotFree /\ Wanted(k) # NoChat
      /\ dirty' = [dirty EXCEPT ![k] = FALSE]
      /\ asks' = [asks EXCEPT ![k] = Wanted(k)]
      /\ answer' = [answer EXCEPT ![k] = Unanswered]
      /\ failed' = [failed EXCEPT ![k] = FALSE]
      /\ torn' = torn \ {Wanted(k)}
      /\ UNCHANGED <<version, news, busy, target, active, listed, left>>
 BY DEF StartRefresh, Pending
<1>2. Wanted(k) \in List /\ Wanted(k) # None
 BY <1>1, ListsFacts, RefreshAssumption DEF List
<1>3. /\ \A j \in Refresh : j # k => /\ dirty'[j] = dirty[j] /\ asks'[j] = asks[j]
                                      /\ answer'[j] = answer[j] /\ failed'[j] = failed[j]
      /\ asks'[k] = Wanted(k) /\ answer'[k] = Unanswered
 BY <1>1, ListsFacts
<1>4. ListsType'
 <2>1. Unanswered \in Failure .. MaxChanges
  BY ListsFacts DEF Unanswered, Failure
 <2>2. Requests' <= MaxTasks
  <3> DEFINE F == {j \in Refresh : InFlight(j)}
             D == DOMAIN busy
  <3>1. {j \in Refresh : InFlight(j)}' = F \cup {k} /\ k \notin F
   BY <1>1, <1>2, <1>3 DEF InFlight
  <3>2. Cardinality(F \cup {k}) = Cardinality(F) + 1
   BY <3>1, ListsFacts, FS_AddElement
  <3>3. Cardinality(F) \in Nat /\ Cardinality(D) \in Nat
   BY ListsFacts, FS_CardinalityType
  <3>4. Cardinality(F) + Cardinality(D) < MaxTasks
   BY <1>1 DEF SlotFree, Requests
  <3>5. Requests' = Cardinality(F \cup {k}) + Cardinality(D)
   BY <1>1, <3>1 DEF Requests
  <3>6. MaxTasks \in Nat
   BY RefreshAssumption
  <3> HIDE DEF F, D
  <3> QED BY <3>2, <3>3, <3>4, <3>5, <3>6
 <2> QED BY <1>1, <1>2, <2>1, <2>2 DEF ListsInv, ListsType
<1>5. ListsBehind'
 BY <1>1 DEF ListsInv, ListsBehind
<1>6. AsksAreWanted'
 <2> SUFFICES ASSUME NEW j \in Refresh, InFlight(j)'
              PROVE  /\ j # Pins => asks'[j] = j
                     /\ j = Pins => asks'[j] \in Chat
                     /\ asks'[j] = Wanted(j) \/ dirty'[j]
  BY <1>1 DEF AsksAreWanted, Wanted
 <2>1. CASE j = k
  BY <2>1, <1>1, <1>3 DEF Wanted, ListsInv, ListsType
 <2>2. CASE j # k
  BY <2>2, <1>3 DEF ListsInv, AsksAreWanted, InFlight
 <2> QED BY <2>1, <2>2
<1>7. AnswersAreCurrent'
 <2> SUFFICES ASSUME NEW j \in Refresh, Arrived(j)'
              PROVE  /\ listed[asks'[j]] <= answer'[j] /\ answer'[j] <= version[asks'[j]]
                     /\ Whole(asks[j])' =>
                           answer'[j] = version[asks'[j]] \/ OnItsWay(asks'[j])
  BY <1>1 DEF AnswersAreCurrent, OnItsWay, Whole
 <2>1. j # k
  BY <1>3 DEF Arrived
 <2>2. Arrived(j) /\ asks'[j] = asks[j] /\ answer'[j] = answer[j]
  BY <1>3, <2>1 DEF Arrived, InFlight
 <2>3. Whole(asks[j])' => Whole(asks[j])
  <3>1. asks[j] # Wanted(k)
   BY <1>1, <2>1, <2>2, WantsDiffer DEF Arrived
  <3> QED BY <1>1, <1>3, <2>2, <3>1 DEF Whole
 <2> QED BY <2>2, <2>3 DEF ListsInv, AnswersAreCurrent
<1>8. WholeSettle'
 <2> SUFFICES ASSUME NEW j \in Refresh, ~InFlight(j)'
              PROVE  \/ dirty'[j] \/ failed'[j]
                     \/ Wanted(j) = NoChat \/ ~Whole(Wanted(j))' \/ OnItsWay(Wanted(j))
                     \/ listed[Wanted(j)] = version[Wanted(j)]
  BY <1>1 DEF WholeSettle, OnItsWay, Whole, Wanted
 <2>1. j # k
  BY <1>2, <1>3 DEF InFlight
 <2>2. Whole(Wanted(j))' => Whole(Wanted(j))
  <3>1. Wanted(j) = Wanted(k) => Wanted(j) = NoChat
   BY <2>1, ListsFacts, RefreshAssumption DEF Wanted, ListsInv, ListsType
  <3> QED BY <1>1, <3>1 DEF Whole, Wanted
 <2> QED BY <2>1, <2>2, <1>3 DEF ListsInv, WholeSettle, InFlight
<1> QED BY <1>4, <1>5, <1>6, <1>7, <1>8 DEF ListsInv

(* The answer to a refresh is accepted unless it failed or is dirty. *)
LEMMA RefreshArrivesKeeps ==
  ASSUME ListsInv, NEW k \in Refresh, RefreshArrives(k)
  PROVE  ListsInv' /\ \A l \in List : listed'[l] >= listed[l]
<1>1. /\ InFlight(k) /\ answer[k] # Unanswered
      /\ asks' = [asks EXCEPT ![k] = None]
      /\ answer' = [answer EXCEPT ![k] = Unanswered]
      /\ listed' = IF Accepted(k) THEN [listed EXCEPT ![asks[k]] = answer[k]] ELSE listed
      /\ failed' = [failed EXCEPT ![k] = answer[k] = Failure]
      /\ UNCHANGED <<version, news, dirty, busy, target, active, torn, left>>
 BY DEF RefreshArrives
<1>2. asks[k] \in List /\ answer[k] \in Failure .. MaxChanges
 BY <1>1, ListsFacts DEF ListsInv, ListsType
<1>3. /\ \A j \in Refresh : j # k => /\ asks'[j] = asks[j] /\ answer'[j] = answer[j]
                                      /\ failed'[j] = failed[j]
      /\ ~InFlight(k)' /\ asks'[k] = None
      /\ failed'[k] = (answer[k] = Failure)
 BY <1>1, ListsFacts DEF InFlight
<1>4. Accepted(k) => /\ Arrived(k) /\ listed[asks[k]] <= answer[k] /\ answer[k] \in 0 .. MaxChanges
                     /\ answer[k] <= version[asks[k]]
                     /\ asks[k] = Wanted(k)
 BY <1>1, <1>2, ListsFacts
    DEF Accepted, Arrived, ListsInv, AnswersAreCurrent, AsksAreWanted, Unanswered, Failure
<1>5. \A l \in List : /\ l # asks[k] => listed'[l] = listed[l]
                      /\ Accepted(k) => listed'[asks[k]] = answer[k]
                      /\ listed'[l] <= version[l] /\ listed'[l] >= listed[l]
 <2>1. \A l \in List : listed[l] <= version[l] /\ listed[l] \in Nat
  BY ListsFacts DEF ListsInv, ListsBehind
 <2> QED BY <1>1, <1>2, <1>4, <2>1, ListsFacts
<1>6. ListsType'
 <2>1. Unanswered \in Failure .. MaxChanges
  BY ListsFacts DEF Unanswered, Failure
 <2>2. listed' \in [List -> 0 .. MaxChanges]
  BY <1>1, <1>2, <1>4 DEF ListsInv, ListsType
 <2>3. Requests' <= MaxTasks
  <3> DEFINE F == {j \in Refresh : InFlight(j)}
             G == {j \in Refresh : InFlight(j)}'
  <3>1. G \subseteq F
   BY <1>3 DEF InFlight
  <3>2. Cardinality(G) \in Nat /\ Cardinality(F) \in Nat /\ Cardinality(G) <= Cardinality(F)
   BY <3>1, ListsFacts, FS_Subset, FS_CardinalityType
  <3>3. Requests' = Cardinality(G) + Cardinality(DOMAIN busy)
   BY <1>1 DEF Requests
  <3>4. Cardinality(F) + Cardinality(DOMAIN busy) <= MaxTasks
   BY DEF ListsInv, ListsType, Requests
  <3>5. Cardinality(DOMAIN busy) \in Nat /\ MaxTasks \in Nat
   BY ListsFacts, FS_CardinalityType
  <3> HIDE DEF F, G
  <3> QED BY <3>2, <3>3, <3>4, <3>5
 <2> QED BY <1>1, <2>1, <2>2, <2>3 DEF ListsInv, ListsType
<1>7. ListsBehind'
 BY <1>1, <1>5 DEF ListsInv, ListsBehind
<1>8. AsksAreWanted'
 BY <1>1, <1>3 DEF ListsInv, AsksAreWanted, InFlight, Wanted
<1>9. AnswersAreCurrent'
 <2> SUFFICES ASSUME NEW j \in Refresh, Arrived(j)'
              PROVE  /\ listed'[asks'[j]] <= answer'[j] /\ answer'[j] <= version[asks'[j]]
                     /\ Whole(asks'[j]) =>
                           answer'[j] = version[asks'[j]] \/ OnItsWay(asks'[j])
  BY <1>1 DEF AnswersAreCurrent, OnItsWay, Whole
 <2>1. j # k
  BY <1>3 DEF Arrived
 <2>2. Arrived(j) /\ InFlight(j) /\ asks'[j] = asks[j] /\ answer'[j] = answer[j]
  BY <1>1, <1>3, <2>1 DEF Arrived, InFlight
 <2>3. asks[j] # asks[k] /\ asks[j] \in List
  BY <1>1, <2>1, <2>2, AsksDiffer, ListsFacts
 <2> QED BY <2>2, <2>3, <1>5 DEF ListsInv, AnswersAreCurrent
<1>10. WholeSettle'
 <2> SUFFICES ASSUME NEW j \in Refresh, ~dirty[j], ~InFlight(j)', ~failed'[j],
                     Wanted(j) # NoChat, Whole(Wanted(j)), ~OnItsWay(Wanted(j))
              PROVE  listed'[Wanted(j)] = version[Wanted(j)]
  BY <1>1 DEF WholeSettle, OnItsWay, Whole, Wanted
 <2>1. CASE j = k
  <3>1. Accepted(k)
   BY <2>1, <1>3 DEF Accepted
  <3>2. answer[k] = version[asks[k]]
   BY <3>1, <1>4, <2>1 DEF ListsInv, AnswersAreCurrent
  <3> QED BY <3>1, <3>2, <1>2, <1>4, <1>5, <2>1
 <2>2. CASE j # k
  <3>1. listed[Wanted(j)] = version[Wanted(j)] /\ Wanted(j) \in List
   BY <2>2, <1>3, ListsFacts DEF ListsInv, WholeSettle, InFlight
  <3> QED BY <3>1, <1>5, <1>4, <1>1, ListsFacts DEF ListsInv, ListsBehind
 <2> QED BY <2>1, <2>2
<1> QED BY <1>5, <1>6, <1>7, <1>8, <1>9, <1>10 DEF ListsInv

(* A refresh is asked for, or another chat is looked at. *)
LEMMA AskingKeeps ==
  ASSUME ListsInv,
         UNCHANGED <<version, news, asks, answer, busy, listed, failed, torn>>,
         dirty' \in [Refresh -> BOOLEAN], \A k \in Refresh : dirty[k] => dirty'[k],
         {target, active}' \subseteq Chat \cup {NoChat},
         active' = active \/ dirty'[Pins],
         left'.changes = left.changes,
         left' \in [changes : 0 .. MaxChanges, failures : 0 .. MaxFailures,
                    commands : 0 .. MaxCommands, switches : 0 .. MaxSwitches]
  PROVE  ListsInv'
<1>1. Requests' = Requests
 BY RequestsStay
<1>2. ListsType' /\ ListsBehind'
 BY <1>1 DEF ListsInv, ListsType, ListsBehind
<1>3. \A k \in Refresh : Wanted(k)' = Wanted(k) \/ dirty'[k]
 BY DEF Wanted
<1>4. AsksAreWanted' /\ AnswersAreCurrent'
 BY <1>3 DEF ListsInv, AsksAreWanted, AnswersAreCurrent, Arrived, InFlight, Whole, OnItsWay
<1>5. WholeSettle'
 BY <1>3 DEF ListsInv, WholeSettle, InFlight, Whole, OnItsWay
<1> QED BY <1>2, <1>4, <1>5 DEF ListsInv

(* A command begins in a free slot. *)
LEMMA StartCommandKeeps ==
  ASSUME ListsInv, NEW l \in List, NEW rechecked \in BOOLEAN, StartCommand(l, rechecked)
  PROVE  ListsInv'
<1> DEFINE i == CHOOSE i \in 1 .. MaxTasks : i \notin DOMAIN busy
           D == DOMAIN busy
<1>1. /\ SlotFree /\ left.commands > 0
      /\ left' = [left EXCEPT !.commands = @ - 1]
      /\ busy' = [j \in D \cup {i} |->
                    IF j = i THEN [list |-> l, applied |-> FALSE, rechecked |-> rechecked]
                             ELSE busy[j]]
      /\ UNCHANGED <<version, news, dirty, asks, answer, target, active, listed, failed, torn>>
 BY DEF StartCommand, MayTake
<1>2. /\ D \subseteq 1 .. MaxTasks /\ \A j \in D : busy[j] \in [list : List, applied : BOOLEAN, rechecked : BOOLEAN]
      /\ IsFiniteSet(D) /\ Cardinality(D) \in Nat /\ MaxTasks \in Nat
 BY ListsFacts, FS_CardinalityType DEF ListsInv, ListsType
<1>3. Cardinality({k \in Refresh : InFlight(k)}) + Cardinality(D) < MaxTasks
      /\ Cardinality({k \in Refresh : InFlight(k)}) \in Nat
 BY <1>1, ListsFacts, FS_CardinalityType DEF SlotFree, Requests
<1>4. i \in 1 .. MaxTasks /\ i \notin D
 <2>1. CASE 1 .. MaxTasks \subseteq D
  <3>0. MaxTasks \in Nat /\ MaxTasks # 0
   BY RefreshAssumption
  <3>1. IsFiniteSet(1 .. MaxTasks) /\ Cardinality(1 .. MaxTasks) = MaxTasks
   BY <3>0, FS_Interval
  <3>2. Cardinality(1 .. MaxTasks) <= Cardinality(D)
   BY <1>2, <2>1, FS_Subset
  <3> HIDE DEF D
  <3> QED BY <3>1, <3>2, <1>2, <1>3
 <2>2. CASE \E j \in 1 .. MaxTasks : j \notin D
  BY <2>2
 <2> QED BY <2>1, <2>2
<1> HIDE DEF i
<1>5. /\ DOMAIN busy' = D \cup {i} /\ \A j \in D : busy'[j] = busy[j] /\ j # i
      /\ busy'[i] = [list |-> l, applied |-> FALSE, rechecked |-> rechecked]
 BY <1>1, <1>4
<1>6. Cardinality(D \cup {i}) = Cardinality(D) + 1
 BY <1>2, <1>4, FS_AddElement
<1>7. Requests' <= MaxTasks
 <2>1. Requests' = Cardinality({k \in Refresh : InFlight(k)}) + Cardinality(D \cup {i})
  BY <1>1, <1>5 DEF Requests, InFlight
 <2> HIDE DEF D
 <2> QED BY <2>1, <1>2, <1>3, <1>6
<1>8. ListsType'
 <2>1. left' \in [changes : 0 .. MaxChanges, failures : 0 .. MaxFailures,
                  commands : 0 .. MaxCommands, switches : 0 .. MaxSwitches]
  BY <1>1, ListsFacts DEF ListsInv, ListsType
 <2>2. /\ DOMAIN busy' \subseteq 1 .. MaxTasks
       /\ \A j \in DOMAIN busy' : busy'[j] \in [list : List, applied : BOOLEAN, rechecked : BOOLEAN]
  <3>1. [list |-> l, applied |-> FALSE, rechecked |-> rechecked]
            \in [list : List, applied : BOOLEAN, rechecked : BOOLEAN]
   OBVIOUS
  <3> HIDE DEF D
  <3> QED BY <3>1, <1>2, <1>4, <1>5
 <2> QED BY <1>1, <1>7, <2>1, <2>2 DEF ListsInv, ListsType
<1>9. \A m : OnItsWay(m) => OnItsWay(m)'
 BY <1>1, <1>5 DEF OnItsWay
<1>10. ListsBehind'
 BY <1>1, ListsFacts DEF ListsInv, ListsBehind, ListsType
<1>11. AsksAreWanted'
 BY <1>1 DEF ListsInv, AsksAreWanted, InFlight, Wanted
<1>12. AnswersAreCurrent'
 <2> SUFFICES ASSUME NEW k \in Refresh, Arrived(k)
              PROVE  /\ listed[asks[k]] <= answer[k] /\ answer[k] <= version[asks[k]]
                     /\ Whole(asks[k]) => answer[k] = version[asks[k]] \/ OnItsWay(asks[k])'
  BY <1>1 DEF AnswersAreCurrent, Arrived, InFlight, Whole
 <2>1. asks' = asks
  BY <1>1
 <2> QED BY <2>1, <1>9 DEF ListsInv, AnswersAreCurrent
<1>13. WholeSettle'
 <2> SUFFICES ASSUME NEW k \in Refresh, ~dirty[k], ~InFlight(k), ~failed[k],
                     Wanted(k) # NoChat, Whole(Wanted(k)), ~OnItsWay(Wanted(k))'
              PROVE  listed[Wanted(k)] = version[Wanted(k)]
  BY <1>1 DEF WholeSettle, InFlight, Wanted, Whole
 <2>1. Wanted(k)' = Wanted(k)
  BY <1>1 DEF Wanted
 <2> QED BY <2>1, <1>9 DEF ListsInv, WholeSettle
<1> QED BY <1>8, <1>10, <1>11, <1>12, <1>13 DEF ListsInv

(* The server carries a command out: the list has changed, and the command is not
   answered yet. *)
LEMMA CommandAppliesKeeps ==
  ASSUME ListsInv, NEW i \in 1 .. MaxTasks, CommandApplies(i)
  PROVE  ListsInv'
<1>1. i \in DOMAIN busy /\ busy[i] \in [list : List, applied : BOOLEAN, rechecked : BOOLEAN]
 BY DEF CommandApplies, ListsInv, ListsType
<1> PICK l \in List : l = busy[i].list
 BY <1>1
<1>2. /\ i \in DOMAIN busy /\ left.changes > 0
      /\ left' = [left EXCEPT !.changes = @ - 1]
      /\ version' = [version EXCEPT ![l] = @ + 1]
      /\ busy' = [busy EXCEPT ![i].applied = TRUE]
      /\ UNCHANGED <<news, dirty, asks, answer, target, active, listed, failed, torn>>
 BY DEF CommandApplies
<1>3. /\ DOMAIN busy' = DOMAIN busy
      /\ busy'[i] = [list |-> l, applied |-> TRUE, rechecked |-> busy[i].rechecked]
      /\ \A j \in DOMAIN busy : j # i => busy'[j] = busy[j]
 BY <1>1, <1>2
<1>4. /\ version[l] + 1 <= MaxChanges /\ left'.changes = left.changes - 1
      /\ left'.changes \in 0 .. MaxChanges
      /\ left' \in [changes : 0 .. MaxChanges, failures : 0 .. MaxFailures,
                    commands : 0 .. MaxCommands, switches : 0 .. MaxSwitches]
 BY SMTT(20), <1>2, <1>3, ListsFacts DEF ListsInv, ListsBehind, ListsType
<1>5. ListsType'
 <2>1. version' \in [List -> 0 .. MaxChanges]
  BY <1>2, <1>3, <1>4, ListsFacts DEF ListsInv, ListsType
 <2>2. Requests' = Requests
  BY <1>2, <1>3, RequestsStay
 <2>3. \A j \in DOMAIN busy' : busy'[j] \in [list : List, applied : BOOLEAN, rechecked : BOOLEAN]
  <3>1. [list |-> l, applied |-> TRUE, rechecked |-> busy[i].rechecked]
            \in [list : List, applied : BOOLEAN, rechecked : BOOLEAN]
   BY <1>1
  <3>2. \A j \in DOMAIN busy : busy[j] \in [list : List, applied : BOOLEAN, rechecked : BOOLEAN]
   BY DEF ListsInv, ListsType
  <3> QED BY <3>1, <3>2, <1>3
 <2> QED BY <1>2, <1>3, <1>4, <2>1, <2>2, <2>3 DEF ListsInv, ListsType
<1>6. \A m \in List : /\ version'[m] = IF m = l THEN version[m] + 1 ELSE version[m]
                      /\ OnItsWay(m) => OnItsWay(m)'
 BY ZenonT(30), <1>2, <1>3, ListsFacts DEF OnItsWay
<1>7. OnItsWay(l)'
 BY <1>2, <1>3 DEF OnItsWay
<1>8. ListsBehind'
 <2> SUFFICES ASSUME NEW m \in List
              PROVE  /\ listed[m] <= version'[m]
                     /\ version'[m] + left'.changes <= MaxChanges
                     /\ \A v \in news[m] : v <= version'[m]
  BY <1>2 DEF ListsBehind
 <2>1. /\ listed[m] <= version[m] /\ version[m] + left.changes <= MaxChanges
       /\ \A v \in news[m] : v <= version[m]
  BY DEF ListsInv, ListsBehind
 <2>2. /\ version[m] \in Nat /\ listed[m] \in Nat /\ left.changes \in Nat /\ MaxChanges \in Nat
       /\ news[m] \subseteq Nat
  BY ListsFacts
 <2> QED BY <2>1, <2>2, <1>4, <1>6
<1>9. AsksAreWanted'
 BY <1>2 DEF ListsInv, AsksAreWanted, InFlight, Wanted
<1>10. AnswersAreCurrent'
 <2> SUFFICES ASSUME NEW k \in Refresh, Arrived(k)
              PROVE  /\ listed[asks[k]] <= answer[k] /\ answer[k] <= version'[asks[k]]
                     /\ Whole(asks[k]) => answer[k] = version'[asks[k]] \/ OnItsWay(asks[k])'
  BY <1>2 DEF AnswersAreCurrent, Arrived, InFlight, Whole
 <2>1. asks[k] \in List /\ asks' = asks
  BY <1>2, ListsFacts DEF Arrived
 <2>2. /\ listed[asks[k]] <= answer[k] /\ answer[k] <= version[asks[k]]
       /\ Whole(asks[k]) => answer[k] = version[asks[k]] \/ OnItsWay(asks[k])
  BY DEF ListsInv, AnswersAreCurrent
 <2>3. answer[k] <= version'[asks[k]]
  BY <2>1, <2>2, <1>6, ListsFacts
 <2> QED BY <2>1, <2>2, <2>3, <1>6, <1>7
<1>11. WholeSettle'
 <2> SUFFICES ASSUME NEW k \in Refresh, ~dirty[k], ~InFlight(k), ~failed[k],
                     Wanted(k) # NoChat, Whole(Wanted(k)), ~OnItsWay(Wanted(k))'
              PROVE  listed[Wanted(k)] = version'[Wanted(k)]
  BY <1>2 DEF WholeSettle, InFlight, Wanted, Whole
 <2>1. Wanted(k) \in List /\ Wanted(k)' = Wanted(k)
  BY <1>2, ListsFacts DEF Wanted
 <2>2. Wanted(k) # l /\ ~OnItsWay(Wanted(k))
  BY <2>1, <1>6, <1>7
 <2> QED BY <2>1, <2>2, <1>6 DEF ListsInv, WholeSettle
<1> QED BY <1>5, <1>8, <1>9, <1>10, <1>11 DEF ListsInv

(* A command is answered, or fails: nothing is under way any more, but the list is
   dirty, unless it failed after its first RPC and is not rechecked. *)
LEMMA CommandEndsKeeps ==
  ASSUME ListsInv, NEW i \in 1 .. MaxTasks, CommandArrives(i) \/ CommandFails(i)
  PROVE  ListsInv'
<1>1. i \in DOMAIN busy /\ busy[i] \in [list : List, applied : BOOLEAN, rechecked : BOOLEAN]
 BY DEF CommandArrives, CommandFails, ListsInv, ListsType
<1> PICK l \in List : l = busy[i].list
 BY <1>1
<1>2. /\ busy' = [j \in DOMAIN busy \ {i} |-> busy[j]]
      /\ UNCHANGED <<version, news, asks, answer, target, active, listed, failed>>
      /\ left'.changes = left.changes
      /\ left' \in [changes : 0 .. MaxChanges, failures : 0 .. MaxFailures,
                    commands : 0 .. MaxCommands, switches : 0 .. MaxSwitches]
      /\ dirty' \in [Refresh -> BOOLEAN]
      /\ \A k \in Refresh : dirty[k] => dirty'[k]
      /\ torn \subseteq torn' /\ torn' \subseteq Topic
 <2>1. /\ busy' = [j \in DOMAIN busy \ {i} |-> busy[j]]
       /\ UNCHANGED <<version, news, asks, answer, target, active, listed, failed>>
  BY DEF CommandArrives, CommandFails, Done
 <2>2. \/ left' = left
       \/ left' = [left EXCEPT !.failures = @ - 1] /\ left.failures > 0
  BY DEF CommandArrives, CommandFails
 <2>3. \/ dirty' = [k \in Refresh |-> dirty[k] \/ Concerns(k, l)]
       \/ dirty' = [k \in Refresh |-> dirty[k] \/ (busy[i].rechecked /\ Concerns(k, l))]
  BY DEF CommandArrives, CommandFails
 <2>4. dirty' \in [Refresh -> BOOLEAN] /\ \A k \in Refresh : dirty[k] => dirty'[k]
  <3>1. \A k \in Refresh : /\ (dirty[k] \/ Concerns(k, l)) \in BOOLEAN
                           /\ (dirty[k] \/ (busy[i].rechecked /\ Concerns(k, l))) \in BOOLEAN
   OBVIOUS
  <3> QED BY <2>3, <3>1
 <2>5. /\ left'.changes = left.changes
       /\ left' \in [changes : 0 .. MaxChanges, failures : 0 .. MaxFailures,
                     commands : 0 .. MaxCommands, switches : 0 .. MaxSwitches]
  BY <2>2, ListsFacts DEF ListsInv, ListsType
 <2>6. torn \subseteq torn' /\ torn' \subseteq Topic
  BY DEF CommandArrives, CommandFails, ListsInv, ListsType
 <2> QED BY <2>1, <2>4, <2>5, <2>6
<1>3. /\ DOMAIN busy' = DOMAIN busy \ {i}
      /\ \A j \in DOMAIN busy \ {i} : busy'[j] = busy[j]
 BY <1>2
<1>4. busy[i].applied /\ Whole(l)' => \A k \in Refresh : Wanted(k) = l => dirty'[k]
 BY ListsFacts DEF CommandArrives, CommandFails, Concerns, Whole
<1>5. \A m \in List : OnItsWay(m) /\ Whole(m)' =>
          OnItsWay(m)' \/ \A k \in Refresh : Wanted(k) = m => dirty'[k]
 BY <1>2, <1>3, <1>4 DEF OnItsWay
<1>6. ListsType'
 <2>1. Requests' <= MaxTasks
  <3> DEFINE F == {k \in Refresh : InFlight(k)}
             D == DOMAIN busy
  <3>1. /\ Cardinality(D \ {i}) <= Cardinality(D)
        /\ Cardinality(D \ {i}) \in Nat /\ Cardinality(D) \in Nat /\ Cardinality(F) \in Nat
   <4>1. IsFiniteSet(D) /\ IsFiniteSet(F)
    BY ListsFacts
   <4>2. D \ {i} \in SUBSET D
    OBVIOUS
   <4>3. IsFiniteSet(D \ {i}) /\ Cardinality(D \ {i}) <= Cardinality(D)
    BY <4>1, <4>2, FS_Subset
   <4> QED BY <4>1, <4>3, FS_CardinalityType
  <3>2. Requests' = Cardinality(F) + Cardinality(D \ {i})
   BY <1>2, <1>3 DEF Requests, InFlight
  <3>3. Cardinality(F) + Cardinality(D) <= MaxTasks /\ MaxTasks \in Nat
   BY RefreshAssumption DEF ListsInv, ListsType, Requests
  <3> HIDE DEF F, D
  <3> QED BY <3>1, <3>2, <3>3
 <2>2. /\ DOMAIN busy' \subseteq 1 .. MaxTasks
       /\ \A j \in DOMAIN busy' : busy'[j] \in [list : List, applied : BOOLEAN, rechecked : BOOLEAN]
  BY <1>3 DEF ListsInv, ListsType
 <2> QED BY <1>2, <2>1, <2>2 DEF ListsInv, ListsType
<1>7. ListsBehind'
 BY <1>2 DEF ListsInv, ListsBehind
<1>8. AsksAreWanted'
 BY <1>2 DEF ListsInv, AsksAreWanted, InFlight, Wanted
<1>9. AnswersAreCurrent'
 <2> SUFFICES ASSUME NEW k \in Refresh, InFlight(k),
                     answer[k] \notin {Unanswered, Failure}, ~dirty'[k]
              PROVE  /\ listed[asks[k]] <= answer[k] /\ answer[k] <= version[asks[k]]
                     /\ Whole(asks[k])' => answer[k] = version[asks[k]] \/ OnItsWay(asks[k])'
  BY <1>2 DEF AnswersAreCurrent, Arrived, InFlight, Whole
 <2>1. Arrived(k) /\ asks[k] \in List /\ asks[k] = Wanted(k) /\ asks' = asks
  BY <1>2, ListsFacts DEF ListsInv, AsksAreWanted, Arrived
 <2>2. /\ listed[asks[k]] <= answer[k] /\ answer[k] <= version[asks[k]]
       /\ Whole(asks[k]) => answer[k] = version[asks[k]] \/ OnItsWay(asks[k])
  BY <2>1 DEF ListsInv, AnswersAreCurrent
 <2>3. Whole(asks[k])' => Whole(asks[k])
  BY <1>2, <2>1 DEF Whole
 <2> QED BY <2>1, <2>2, <2>3, <1>5
<1>10. WholeSettle'
 <2> SUFFICES ASSUME NEW k \in Refresh, ~dirty'[k], ~InFlight(k), ~failed[k],
                     Wanted(k) # NoChat, Whole(Wanted(k))', ~OnItsWay(Wanted(k))'
              PROVE  listed[Wanted(k)] = version[Wanted(k)]
  BY <1>2 DEF WholeSettle, InFlight, Wanted, Whole
 <2>1. Wanted(k) \in List /\ Wanted(k)' = Wanted(k) /\ ~dirty[k]
  BY <1>2, ListsFacts DEF Wanted
 <2>2. ~OnItsWay(Wanted(k))
  BY <2>1, <1>5
 <2>3. Whole(Wanted(k))
  BY <1>2, <2>1 DEF Whole, Wanted
 <2> QED BY <2>1, <2>2, <2>3 DEF ListsInv, WholeSettle
<1> QED BY <1>6, <1>7, <1>8, <1>9, <1>10 DEF ListsInv

LEMMA ListsStep ==
  ASSUME ListsInv, [ListsNext]_listVars
  PROVE  ListsInv'
<1>1. CASE \/ \E l \in List : ServerChanges(l) \/ UpdateArrives(l)
           \/ \E l \in List, rechecked \in BOOLEAN : StartCommand(l, rechecked)
 BY <1>1, ServerChangesKeeps, UpdateArrivesKeeps, StartCommandKeeps
<1>2. CASE \E k \in Refresh : \/ StartRefresh(k) \/ ListAnswered(k) \/ ListRefused(k)
                              \/ RefreshArrives(k)
 BY <1>2, StartRefreshKeeps, ServerAnswersKeeps, RefreshArrivesKeeps
<1>3. CASE \E K \in SUBSET Refresh : AskRefresh(K)
 <2>1. PICK K \in SUBSET Refresh : AskRefresh(K)
  BY <1>3
 <2>2. dirty' \in [Refresh -> BOOLEAN] /\ \A k \in Refresh : dirty[k] => dirty'[k]
  <3>1. \A k \in Refresh : (dirty[k] \/ k \in K) \in BOOLEAN
   OBVIOUS
  <3> QED BY <2>1, <3>1 DEF AskRefresh
 <2>3. /\ left'.changes = left.changes
       /\ left' \in [changes : 0 .. MaxChanges, failures : 0 .. MaxFailures,
                     commands : 0 .. MaxCommands, switches : 0 .. MaxSwitches]
  BY <2>1, ListsFacts DEF AskRefresh, ListsInv, ListsType
 <2> QED BY <2>1, <2>2, <2>3, AskingKeeps DEF AskRefresh, ListsInv, ListsType
<1>4. CASE \E i \in 1 .. MaxTasks : CommandApplies(i) \/ CommandArrives(i) \/ CommandFails(i)
 BY <1>4, CommandAppliesKeeps, CommandEndsKeeps
<1>5. CASE \E c \in Chat \cup {NoChat} : OpenChat(c)
 <2>1. PICK c \in Chat \cup {NoChat} : OpenChat(c)
  BY <1>5
 <2>2. /\ left'.changes = left.changes
       /\ left' \in [changes : 0 .. MaxChanges, failures : 0 .. MaxFailures,
                     commands : 0 .. MaxCommands, switches : 0 .. MaxSwitches]
  BY <2>1, ListsFacts DEF OpenChat, ListsInv, ListsType
 <2> QED BY <2>1, <2>2, AskingKeeps DEF OpenChat, ListsInv, ListsType
<1>6. CASE ActiveChanged
 <2>1. /\ dirty' \in [Refresh -> BOOLEAN] /\ dirty'[Pins]
       /\ \A k \in Refresh : dirty[k] => dirty'[k]
  BY <1>6, ListsFacts DEF ActiveChanged
 <2> QED BY <1>6, <2>1, AskingKeeps DEF ActiveChanged, ListsInv, ListsType
<1>7. CASE UNCHANGED listVars
 <2>1. Requests' = Requests
  BY <1>7, RequestsStay DEF listVars
 <2> QED BY <1>7, <2>1
         DEF listVars, ListsInv, ListsType, ListsBehind, AsksAreWanted, AnswersAreCurrent,
             WholeSettle, Arrived, InFlight, Wanted, Whole, OnItsWay
<1> QED BY <1>1, <1>2, <1>3, <1>4, <1>5, <1>6, <1>7 DEF ListsNext

(* The invariant of the refreshes. *)
THEOREM ListsAreInvariant == ListsSpec => []ListsInv
<1> QED BY ListsBegin, ListsStep, PTL DEF ListsSpec

(* The types of the refreshes: they share MaxTasks slots with the commands. *)
THEOREM ListsTypeOK == ListsSpec => []ListsType
<1>1. ListsInv => ListsType
 BY DEF ListsInv
<1> QED BY <1>1, ListsAreInvariant, PTL

(***************************************************************************)
(* A list the worker neither refreshes nor means to refresh is the one the *)
(* server has, whatever changes overtake its refreshes and however many    *)
(* lists, commands and failures there are, unless its refresh failed, or a *)
(* command that complete does not recheck changed it and failed, and no    *)
(* refresh of it has begun since.                                          *)
(***************************************************************************)
THEOREM ListsSettleCurrent == ListsSpec => []SettledIsCurrent
<1>1. ListsInv => SettledIsCurrent
 BY DEF ListsInv, WholeSettle, SettledIsCurrent, Settled, Whole
<1> QED BY <1>1, ListsAreInvariant, PTL

(***************************************************************************)
(* The pinned messages of the open chat need no exception: their command   *)
(* makes one RPC, so that no failure of it is halfway.                     *)
(***************************************************************************)
THEOREM PinsSettleCurrent ==
  ListsSpec => [](Settled(Pins) => listed[active] = version[active])
<1>1. ListsInv => (Settled(Pins) => listed[active] = version[active])
 <2> SUFFICES ASSUME ListsInv, Settled(Pins) PROVE listed[active] = version[active]
  OBVIOUS
 <2>1. Pins \in Refresh /\ Wanted(Pins) = active
  BY DEF Refresh, Wanted
 <2>2. active \in Chat /\ active \notin torn
  BY <2>1, RefreshAssumption DEF ListsInv, ListsType, Settled
 <2> QED BY <2>1, <2>2 DEF ListsInv, WholeSettle, Settled, Whole
<1> QED BY <1>1, ListsAreInvariant, PTL

(* The answer to a refresh never undoes a change the terminal already shows. *)
THEOREM ListsAnswersNeverUndo == ListsSpec => AnswersNeverUndo
<1>1. ListsInv /\ [ListsNext]_listVars =>
         [\A k \in Refresh : RefreshArrives(k) => \A l \in List : listed'[l] >= listed[l]]_listVars
 BY RefreshArrivesKeeps
<1> QED BY <1>1, ListsAreInvariant, PTL DEF ListsSpec, AnswersNeverUndo

(***************************************************************************)
(* Both loops side by side: the types, with the bounds of the queues, the  *)
(* slots and the transactions, hold whichever of the two moves, as a step  *)
(* of one leaves the state of the other alone.                             *)
(***************************************************************************)
THEOREM WorkerTypesHold == WorkerSpec => []WorkerTypeOK
<1>1. WorkerInit => PipelineInv /\ ListsInv
 BY PipelineBegins, ListsBegin DEF WorkerInit
<1>2. WorkerNext => [Next]_vars /\ [ListsNext]_listVars
 BY DEF WorkerNext
<1>3. UNCHANGED <<vars, listVars, part>> => [Next]_vars /\ [ListsNext]_listVars
 OBVIOUS
<1>4. PipelineInv /\ ListsInv /\ [WorkerNext]_<<vars, listVars, part>> => (PipelineInv /\ ListsInv)'
 BY <1>2, <1>3, PipelineSteps, ListsStep
<1>5. PipelineInv /\ ListsInv => WorkerTypeOK
 BY DEF PipelineInv, ListsInv, WorkerTypeOK
<1> QED BY <1>1, <1>4, <1>5, PTL DEF WorkerSpec
===============================================================================
