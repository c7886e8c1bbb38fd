------------------------------ MODULE StoreProofs ------------------------------
(* Proofs about the store: the unread count of a chat is sound, whatever is        *)
(* replayed, refreshed or answered late; and the polls and reactions that it keeps *)
(* and passes on are current or marked stale.                                      *)
EXTENDS UnreadCount, ContentJournal, WellFoundedInduction, FiniteSetTheorems, TLAPS

-------------------------------------------------------------------------------
(* Numbers. *)

LEMMA FirstOf ==
  ASSUME NEW S \in SUBSET Nat, S # {}
  PROVE  \E x \in S : \A y \in S : x <= y
<1>1. \E x \in S : \A y \in S : ~ (<<y, x>> \in OpToRel(<, Nat))
 BY WFMin, NatLessThanWellFounded, Zenon
<1>2. \A x, y \in Nat : x <= y \/ <<y, x>> \in OpToRel(<, Nat)
 <2>1. \A x, y \in Nat : y < x => <<y, x>> \in OpToRel(<, Nat)
  BY Zenon DEF OpToRel
 <2>2. \A x, y \in Nat : x <= y \/ y < x
  OBVIOUS
 <2> QED BY <2>1, <2>2, Zenon
<1> QED BY <1>1, <1>2, Zenon

LEMMA LastOf ==
  ASSUME NEW n \in Nat, NEW S \in SUBSET (0..n), S # {}
  PROVE  \E x \in S : \A y \in S : y <= x
<1> DEFINE fromEnd == {n - x : x \in S}
<1>0. \A x \in S : n - x \in Nat
 OBVIOUS
<1>1. fromEnd \in SUBSET Nat /\ fromEnd # {}
 BY <1>0
<1> HIDE DEF fromEnd
<1>2. PICK d \in fromEnd : \A e \in fromEnd : d <= e
 BY <1>1, FirstOf
<1> USE DEF fromEnd
<1>3. PICK x \in S : d = n - x
 OBVIOUS
<1>4. \A y \in S : d <= n - y
 BY <1>2
<1>5. \A y \in S : y <= x
 BY <1>3, <1>4
<1> QED BY <1>5

(* A set of numbers that has 0 and, with each number, the next up to n, has n. *)
LEMMA Climbs ==
  ASSUME NEW n \in Nat, NEW S, 0 \in S, \A i \in 0..n : i < n /\ i \in S => i + 1 \in S
  PROVE  \A i \in 0..n : i \in S
<1> DEFINE missing == {i \in 0..n : i \notin S}
<1> SUFFICES ASSUME missing # {} PROVE FALSE
 OBVIOUS
<1>1. missing \in SUBSET Nat
 OBVIOUS
<1>2. PICK m \in missing : \A y \in missing : m <= y
 <2> HIDE DEF missing
 <2> QED BY <1>1, FirstOf
<1>3. m # 0 /\ m - 1 \in 0..n /\ m - 1 < n
 OBVIOUS
<1>4. m - 1 \in S
 BY <1>2, <1>3
<1>5. (m - 1) + 1 \in S
 BY <1>3, <1>4
<1> QED BY <1>3, <1>5

-------------------------------------------------------------------------------
(* The unread count: the inductive invariant. *)

(* The update stream tells what the server did, each message before its deletion and
   the messages in order. *)
LogIsTrue ==
    \A i \in 1 .. Len(log) :
        /\ log[i].type = "new" => log[i].id \in 1 .. top
        /\ log[i].type = "deleted" => log[i].id \in gone
        /\ log[i].type = "read" => log[i].id <= seen

LogInOrder ==
    \A i, j \in 1 .. Len(log) : i < j /\ log[j].type = "new" =>
        /\ log[i].type = "new" => log[i].id < log[j].id
        /\ log[i].type = "deleted" => log[i].id # log[j].id

(* What is still to be delivered. *)
Coming == {i \in pos + 1 .. Len(log) : log[i].type = "new"}

(* A message that was counted has a row or was deleted, and is not told again once it
   was deleted. *)
RowsHaveArrived ==
    /\ cached \subseteq 1 .. top /\ removed \subseteq gone
    /\ counted \subseteq cached \cup removed
    /\ \A i \in Coming : log[i].id \notin removed

(* An answer of the server knows of every message up to its moment that is not deleted
   since. *)
AnswerIsTrue(s) ==
    s # NoSnapshot =>
        /\ s.max <= seen /\ s.at <= top
        /\ \A m \in (1 .. s.at) \ gone : m <= s.top

(* The read boundaries that are told or on their way are behind the server's, and a
   refresh that may replace the row knows all that the row knows. *)
BoundariesAreServed ==
    /\ chat.seen <= seen
    /\ receipt.state \in {"read", "answered"} => receipt.max <= seen
    /\ AnswerIsTrue(receipt.answer) /\ AnswerIsTrue(refresh.answer)
    /\ refresh.answer # NoSnapshot => refresh.inFlight
    /\ refresh.answer # NoSnapshot /\ ~changed =>
         /\ chat.seen <= refresh.answer.max
         /\ \A m \in cached \ gone : m <= refresh.answer.at

(* While the answer to a receipt is on its way, the row is at the messages that arrived
   since, or has lost its last one; none of them comes again. *)
NewestIsShown ==
    receipt.answer # NoSnapshot =>
        \A m \in cached \ gone : m > receipt.answer.at =>
            /\ chat.last = 0 \/ m <= chat.last
            /\ \A i \in Coming : m < log[i].id

CountInv ==
    /\ CountType /\ LogIsTrue /\ LogInOrder
    /\ RowsHaveArrived /\ BoundariesAreServed /\ NewestIsShown

-------------------------------------------------------------------------------
(* Sets of messages and logs. *)

(* A set of messages has a highest one. *)
LEMMA HighestIsHighest ==
  ASSUME NEW S, S \subseteq MessageId
  PROVE  /\ Highest(S) \in 0 .. MaxId
         /\ \A m \in S : m <= Highest(S)
<1>1. CASE S = {}
 BY <1>1, UnreadAssumption DEF Highest
<1>2. CASE S # {}
 <2>1. MaxId \in Nat /\ MessageId = 1 .. MaxId
  BY UnreadAssumption DEF MessageId
 <2>2. S \in SUBSET (0 .. MaxId)
  BY <2>1
 <2>3. \E m \in S : \A v \in S : v <= m
  BY <1>2, <2>1, <2>2, LastOf
 <2>4. Highest(S) \in S /\ \A v \in S : v <= Highest(S)
  BY <1>2, <2>3 DEF Highest
 <2> QED BY <2>2, <2>4
<1> QED BY <1>1, <1>2

(* The server's answer is one, and true. *)
LEMMA SnapshotFacts ==
  ASSUME CountType
  PROVE  /\ Snapshot \in SnapshotType /\ Snapshot # NoSnapshot
         /\ Snapshot.max = seen /\ Snapshot.at = top
         /\ \A m \in (1 .. top) \ gone : m <= Snapshot.top
<1>1. MaxId \in Nat /\ top \in 0 .. MaxId /\ seen \in 0 .. MaxId
 BY UnreadAssumption DEF CountType
<1>2. (1 .. top) \ gone \subseteq MessageId
 BY <1>1 DEF MessageId
<1>3. Cardinality(Unseen(seen)) \in 0 .. MaxId
 <2>1. Unseen(seen) \subseteq 1 .. top
  BY DEF Unseen
 <2>2. IsFiniteSet(1 .. top) /\ Cardinality(1 .. top) = top
  BY <1>1, FS_Interval
 <2>3. Cardinality(Unseen(seen)) \in Nat /\ Cardinality(Unseen(seen)) <= top
  BY <2>1, <2>2, FS_Subset, FS_CardinalityType
 <2> QED BY <2>3, <1>1
<1>4. /\ Highest((1 .. top) \ gone) \in 0 .. MaxId
      /\ \A m \in (1 .. top) \ gone : m <= Highest((1 .. top) \ gone)
 BY <1>2, HighestIsHighest
<1>5. top \in -1 .. MaxId /\ top # -1
 BY <1>1
<1> QED BY <1>1, <1>3, <1>4, <1>5 DEF Snapshot, SnapshotType, NoSnapshot

LEMMA NoSnapshotType == NoSnapshot \in SnapshotType
<1>1. MaxId \in Nat
 BY UnreadAssumption
<1>2. 0 \in 0 .. MaxId /\ -1 \in -1 .. MaxId
 BY <1>1
<1> QED BY <1>2 DEF NoSnapshot, SnapshotType

LEMMA EntryFacts ==
  ASSUME CountType
  PROVE  /\ \A m \in 0 .. MaxId : New(m) \in Update /\ Deleted(m) \in Update /\ Read(m) \in Update
         /\ Gap \in Update /\ LeftOut \in Update
<1>1. MaxId \in Nat /\ top \in 0 .. MaxId /\ 0 \in 0 .. MaxId
 BY UnreadAssumption DEF CountType
<1>2. \A m : Cardinality(Unseen(m)) \in 0 .. MaxId
 <2>1. \A m : Unseen(m) \subseteq 1 .. top
  BY DEF Unseen
 <2>2. IsFiniteSet(1 .. top) /\ Cardinality(1 .. top) = top
  BY <1>1, FS_Interval
 <2>3. \A m : Cardinality(Unseen(m)) \in Nat /\ Cardinality(Unseen(m)) <= top
  BY <2>1, <2>2, FS_Subset, FS_CardinalityType
 <2> QED BY <2>3, <1>1
<1> QED BY <1>1, <1>2 DEF New, Deleted, Read, Gap, LeftOut, Update

LEMMA LogGrows ==
  ASSUME NEW q \in Seq(Update), NEW e \in Update
  PROVE  /\ Append(q, e) \in Seq(Update) /\ Len(Append(q, e)) = Len(q) + 1
         /\ \A i \in 1 .. Len(q) : Append(q, e)[i] = q[i]
         /\ Append(q, e)[Len(q) + 1] = e
OBVIOUS

LEMMA LogIsCut ==
  ASSUME NEW q \in Seq(Update), NEW e \in Update, NEW n \in 0 .. Len(q)
  PROVE  /\ Append(SubSeq(q, 1, n), e) \in Seq(Update)
         /\ Len(Append(SubSeq(q, 1, n), e)) = n + 1
         /\ \A i \in 1 .. n : Append(SubSeq(q, 1, n), e)[i] = q[i]
         /\ Append(SubSeq(q, 1, n), e)[n + 1] = e
<1>1. /\ SubSeq(q, 1, n) \in Seq(Update) /\ Len(SubSeq(q, 1, n)) = n
      /\ \A i \in 1 .. n : SubSeq(q, 1, n)[i] = q[i]
 OBVIOUS
<1> QED BY <1>1

LEMMA LogIsAnswered ==
  ASSUME CountType
  PROVE  /\ Difference \in Seq(Update) /\ Len(Difference) = Len(log)
         /\ \A i \in 1 .. Len(log) :
              /\ Difference[i] \in {log[i], LeftOut}
              /\ i > cursor /\ log[i].type = "new" /\ log[i].id \in gone
                   => Difference[i] = LeftOut
<1>1. log \in Seq(Update) /\ DOMAIN log = 1 .. Len(log) /\ Len(log) \in Nat
 BY DEF CountType
<1>2. LeftOut \in Update
 BY EntryFacts
<1>3. \A i \in 1 .. Len(log) : log[i] \in Update
 BY <1>1
<1>4. Difference = [i \in 1 .. Len(log) |-> IF i > cursor /\ Lost(i) THEN LeftOut ELSE log[i]]
 BY <1>1 DEF Difference
<1>5. \A i \in 1 .. Len(log) :
        Difference[i] = IF i > cursor /\ Lost(i) THEN LeftOut ELSE log[i]
 BY <1>4
<1>6. Difference \in [1 .. Len(log) -> Update]
 BY <1>2, <1>3, <1>4
<1>7. Difference \in Seq(Update) /\ Len(Difference) = Len(log)
 BY <1>1, <1>6
<1> QED BY <1>5, <1>7 DEF Lost

-------------------------------------------------------------------------------
(* The steps. *)

LEMMA CountFacts ==
  ASSUME CountType
  PROVE  /\ MaxId \in Nat /\ log \in Seq(Update) /\ Len(log) \in Nat
         /\ \A i \in 1 .. Len(log) : log[i] \in Update
         /\ top \in 0 .. MaxId /\ seen \in 0 .. MaxId /\ mark \in 0 .. MaxId
         /\ gone \subseteq 1 .. top /\ gone \subseteq MessageId
         /\ pos \in 0 .. Len(log) /\ cursor \in 0 .. pos
         /\ chat.last \in 0 .. MaxId /\ chat.date \in 0 .. MaxId /\ chat.unread \in Nat
         /\ chat.seen \in 0 .. MaxId
         /\ receipt.max \in 0 .. MaxId
         /\ receipt.answer \in SnapshotType /\ refresh.answer \in SnapshotType
         /\ refresh.inFlight \in BOOLEAN /\ refresh.dirty \in BOOLEAN
<1>1. MaxId \in Nat
 BY UnreadAssumption
<1>2. \A i \in 1 .. Len(log) : log[i] \in Update
 BY DEF CountType
<1>3. gone \subseteq MessageId
 BY <1>1 DEF CountType, MessageId
<1> QED BY <1>1, <1>2, <1>3 DEF CountType

LEMMA AnswerFacts ==
  ASSUME NEW s \in SnapshotType
  PROVE  /\ s.top \in 0 .. MaxId /\ s.unread \in 0 .. MaxId /\ s.max \in 0 .. MaxId
         /\ s.at \in -1 .. MaxId
BY DEF SnapshotType

LEMMA CountBegins == CountInit => CountInv
<1> SUFFICES ASSUME CountInit PROVE CountInv
 OBVIOUS
<1> USE DEF CountInit
<1>0. MaxId \in Nat /\ MaxReads \in Nat /\ MaxRestarts \in Nat /\ 0 \in 0 .. MaxId
 BY UnreadAssumption
<1>1. CountType
 <2>1. log \in Seq(Update) /\ Len(log) = 0
  OBVIOUS
 <2>2. /\ refresh \in [inFlight : BOOLEAN, dirty : BOOLEAN, answer : SnapshotType]
       /\ receipt \in [state : {"none", "sent", "read", "answered"}, max : 0 .. MaxId,
                       answer : SnapshotType]
       /\ chat \in [last : 0 .. MaxId, date : 0 .. MaxId, unread : Nat, seen : 0 .. MaxId]
  BY <1>0, NoSnapshotType
 <2>3. {top, seen, mark} \subseteq 0 .. MaxId /\ gone \subseteq 1 .. top
  BY <1>0
 <2>4. pos \in 0 .. Len(log) /\ cursor \in 0 .. pos
  BY <2>1
 <2>5. reads \in 0 .. MaxReads /\ restarts \in 0 .. MaxRestarts
  BY <1>0
 <2>7. changed \in BOOLEAN
  OBVIOUS
 <2>6. /\ cached \subseteq MessageId /\ removed \subseteq MessageId
       /\ counted \subseteq MessageId /\ covered \subseteq MessageId
  OBVIOUS
 <2> QED BY <2>1, <2>2, <2>3, <2>4, <2>5, <2>6, <2>7 DEF CountType
<1>2. LogIsTrue /\ LogInOrder
 BY DEF LogIsTrue, LogInOrder
<1>3. RowsHaveArrived
 BY DEF RowsHaveArrived, Coming
<1>4. BoundariesAreServed /\ NewestIsShown
 BY DEF BoundariesAreServed, NewestIsShown, AnswerIsTrue
<1> QED BY <1>1, <1>2, <1>3, <1>4 DEF CountInv

(* What the server does is told at the end of the stream. *)
LEMMA ServerKeeps ==
  ASSUME CountInv,
         ServerSends \/ \E m \in MessageId : ServerRemoves(m) \/ ReadElsewhere(m)
  PROVE  CountInv'
<1> DEFINE n == Len(log)
<1>0. /\ UNCHANGED <<worker, cache>>
      /\ log \in Seq(Update) /\ n \in Nat /\ pos \in 0 .. n /\ MaxId \in Nat
      /\ top \in 0 .. MaxId /\ seen \in 0 .. MaxId /\ gone \subseteq 1 .. top
      /\ CountType
 BY CountFacts DEF CountInv, ServerSends, ServerRemoves, ReadElsewhere
<1>1. PICK e \in Update :
        /\ log' = Append(log, e)
        /\ e.type \in {"new", "deleted", "read"}
        /\ e.type = "new" => e.id \in 1 .. top' /\ e.id > top
        /\ e.type = "deleted" => e.id \in gone'
        /\ e.type = "read" => e.id <= seen'
 <2>1. CASE ServerSends
  <3>1. top + 1 \in 0 .. MaxId /\ New(top + 1) \in Update
   BY <1>0, <2>1, EntryFacts DEF ServerSends
  <3> QED BY <1>0, <2>1, <3>1 DEF ServerSends, New
 <2>2. ASSUME NEW m \in MessageId, ServerRemoves(m)
       PROVE  \E e \in Update :
                /\ log' = Append(log, e)
                /\ e.type \in {"new", "deleted", "read"}
                /\ e.type = "new" => e.id \in 1 .. top' /\ e.id > top
                /\ e.type = "deleted" => e.id \in gone'
                /\ e.type = "read" => e.id <= seen'
  <3>1. m \in 0 .. MaxId /\ Deleted(m) \in Update
   BY <1>0, EntryFacts DEF MessageId
  <3> QED BY <2>2, <3>1 DEF ServerRemoves, Deleted
 <2>3. ASSUME NEW m \in MessageId, ReadElsewhere(m)
       PROVE  \E e \in Update :
                /\ log' = Append(log, e)
                /\ e.type \in {"new", "deleted", "read"}
                /\ e.type = "new" => e.id \in 1 .. top' /\ e.id > top
                /\ e.type = "deleted" => e.id \in gone'
                /\ e.type = "read" => e.id <= seen'
  <3>1. m \in 0 .. MaxId /\ Read(m) \in Update
   BY <1>0, EntryFacts DEF MessageId
  <3> QED BY <2>3, <3>1 DEF ReadElsewhere, Read
 <2> QED BY <2>1, <2>2, <2>3
<1>2. /\ top <= top' /\ top' \in 0 .. MaxId /\ seen <= seen' /\ seen' \in 0 .. MaxId
      /\ gone \subseteq gone' /\ gone' \subseteq 1 .. top'
      /\ reads' \in 0 .. MaxReads /\ restarts' = restarts
 <2>1. reads \in 0 .. MaxReads /\ MaxReads \in Nat
  BY <1>0, UnreadAssumption DEF CountType
 <2>2. CASE ServerSends
  <3>1. top' = top + 1 /\ top < MaxId /\ UNCHANGED <<gone, seen, reads, restarts>>
   BY <2>2 DEF ServerSends
  <3>2. 1 .. top \subseteq 1 .. top'
   BY <1>0, <3>1
  <3> QED BY <1>0, <2>1, <3>1, <3>2
 <2>3. CASE \E m \in MessageId : ServerRemoves(m)
  BY <1>0, <2>1, <2>3 DEF ServerRemoves
 <2>4. CASE \E m \in MessageId : ReadElsewhere(m)
  BY <1>0, <2>1, <2>4 DEF ReadElsewhere
 <2> QED BY <2>2, <2>3, <2>4
<1>3. /\ log' \in Seq(Update) /\ Len(log') = n + 1
      /\ \A i \in 1 .. n : log'[i] = log[i]
      /\ log'[n + 1] = e
 BY <1>0, <1>1, LogGrows
<1>4. \A i \in 1 .. Len(log') : i \in 1 .. n \/ i = n + 1
 BY <1>0, <1>3
<1> HIDE DEF n
<1>5. CountType'
 <2>1. pos' \in 0 .. Len(log') /\ cursor' \in 0 .. pos'
  BY SMTT(20), <1>0, <1>3 DEF CountType, worker
 <2> QED BY <1>0, <1>2, <1>3, <2>1 DEF CountType, worker, cache
<1>6. LogIsTrue'
 <2>1. ASSUME NEW i \in 1 .. n
       PROVE  /\ log'[i].type = "new" => log'[i].id \in 1 .. top'
              /\ log'[i].type = "deleted" => log'[i].id \in gone'
              /\ log'[i].type = "read" => log'[i].id <= seen'
  <3>1. log[i] \in Update /\ log[i].id \in 0 .. MaxId
   BY CountFacts DEF CountInv, n, Update
  <3>2. /\ log[i].type = "new" => log[i].id \in 1 .. top
        /\ log[i].type = "deleted" => log[i].id \in gone
        /\ log[i].type = "read" => log[i].id <= seen
   BY DEF CountInv, LogIsTrue, n
  <3>3. log'[i] = log[i]
   BY <1>3
  <3>4. 1 .. top \subseteq 1 .. top' /\ seen \in Int /\ seen' \in Int
   BY <1>0, <1>2
  <3>5. log[i].id <= seen => log[i].id <= seen'
   BY <1>2, <3>1, <3>4
  <3> QED BY <1>2, <3>2, <3>3, <3>4, <3>5
 <2> QED BY <1>1, <1>3, <1>4, <2>1 DEF LogIsTrue
<1>7. LogInOrder'
 <2> SUFFICES ASSUME NEW i \in 1 .. Len(log'), NEW j \in 1 .. Len(log'), i < j,
                     log'[j].type = "new"
              PROVE  /\ log'[i].type = "new" => log'[i].id < log'[j].id
                     /\ log'[i].type = "deleted" => log'[i].id # log'[j].id
  BY DEF LogInOrder
 <2>1. i \in 1 .. n
  BY <1>0, <1>3
 <2>2. CASE j \in 1 .. n
  BY <1>3, <2>1, <2>2 DEF CountInv, LogInOrder, n
 <2>3. CASE j = n + 1
  <3>1. e.id > top
   BY <1>1, <1>3, <2>3
  <3>2. /\ log[i].type = "new" => log[i].id \in 1 .. top
        /\ log[i].type = "deleted" => log[i].id \in 1 .. top
   BY <1>0, <2>1 DEF CountInv, LogIsTrue, n
  <3>3. e.id \in 0 .. MaxId
   BY <1>1 DEF Update
  <3> QED BY SMTT(20), <1>0, <1>3, <2>1, <2>3, <3>1, <3>2, <3>3
 <2> QED BY <1>4, <2>2, <2>3
<1>8. \A i \in Coming' : i \in Coming \/ (i = n + 1 /\ e.type = "new" /\ e.id > top)
 BY <1>0, <1>1, <1>3, <1>4 DEF Coming, worker, n
<1>9. RowsHaveArrived'
 <2>1. /\ cached' \subseteq 1 .. top' /\ removed' \subseteq gone'
       /\ counted' \subseteq cached' \cup removed'
  <3>1. 1 .. top \subseteq 1 .. top'
   BY <1>0, <1>2
  <3> QED BY <1>0, <1>2, <3>1 DEF CountInv, RowsHaveArrived, cache
 <2>2. ASSUME NEW i \in Coming'
       PROVE  log'[i].id \notin removed'
  <3>1. CASE i \in Coming
   <4>1. i \in 1 .. n
    BY <1>0, <3>1 DEF Coming, n
   <4> QED BY <1>0, <1>3, <3>1, <4>1 DEF CountInv, RowsHaveArrived, cache
  <3>2. CASE i = n + 1 /\ e.id > top
   <4>0. removed \subseteq 1 .. top
    BY <1>0 DEF CountInv, RowsHaveArrived
   <4>1. \A m \in removed : m <= top
    BY <4>0, <1>0
   <4>2. e.id \in 0 .. MaxId /\ e.id \notin removed
    BY <1>0, <1>1, <3>2, <4>1 DEF Update
   <4> QED BY <1>0, <1>3, <3>2, <4>2 DEF cache
  <3> QED BY <1>8, <3>1, <3>2
 <2> QED BY <2>1, <2>2 DEF RowsHaveArrived
<1>10. \A s \in SnapshotType : AnswerIsTrue(s) /\ s # NoSnapshot =>
            /\ s.max <= seen' /\ s.at <= top'
            /\ \A m \in (1 .. s.at) \ gone' : m <= s.top
 <2>1. ASSUME NEW s \in SnapshotType
       PROVE  /\ s.max <= seen => s.max <= seen'
              /\ s.at <= top => s.at <= top'
  BY <1>0, <1>2, AnswerFacts
 <2> QED BY <1>2, <2>1 DEF AnswerIsTrue
<1>11. BoundariesAreServed'
 <2>1. receipt.answer \in SnapshotType /\ refresh.answer \in SnapshotType
       /\ chat.seen \in 0 .. MaxId /\ receipt.max \in 0 .. MaxId
  BY <1>0, CountFacts
 <2>2. AnswerIsTrue(receipt.answer)' /\ AnswerIsTrue(refresh.answer)'
  BY <1>0, <1>10, <2>1 DEF CountInv, BoundariesAreServed, AnswerIsTrue, worker
 <2>3. /\ chat'.seen <= seen'
       /\ receipt'.state \in {"read", "answered"} => receipt'.max <= seen'
  BY <1>0, <1>2, <2>1 DEF CountInv, BoundariesAreServed, worker, cache
 <2>4. /\ refresh'.answer # NoSnapshot => refresh'.inFlight
       /\ refresh'.answer # NoSnapshot /\ ~changed' =>
            /\ chat'.seen <= refresh'.answer.max
            /\ \A m \in cached' \ gone' : m <= refresh'.answer.at
  BY <1>0, <1>2 DEF CountInv, BoundariesAreServed, worker, cache
 <2> QED BY <2>2, <2>3, <2>4 DEF BoundariesAreServed
<1>12. NewestIsShown'
 <2> SUFFICES ASSUME receipt'.answer # NoSnapshot, NEW m \in cached' \ gone',
                     m > receipt'.answer.at
              PROVE  /\ chat'.last = 0 \/ m <= chat'.last
                     /\ \A i \in Coming' : m < log'[i].id
  BY DEF NewestIsShown
 <2>1. receipt' = receipt /\ chat' = chat /\ m \in cached \ gone
  BY <1>0, <1>2 DEF worker, cache
 <2>2. /\ chat.last = 0 \/ m <= chat.last
       /\ \A i \in Coming : m < log[i].id
  BY <2>1 DEF CountInv, NewestIsShown
 <2>3. ASSUME NEW i \in Coming'
       PROVE  m < log'[i].id
  <3>1. CASE i \in Coming
   <4>1. i \in 1 .. n
    BY <1>0, <3>1 DEF Coming, n
   <4> QED BY <1>3, <2>2, <3>1, <4>1
  <3>2. CASE i = n + 1 /\ e.id > top
   <4>1. m \in 1 .. top
    BY <2>1 DEF CountInv, RowsHaveArrived
   <4>2. e.id \in 0 .. MaxId
    BY <1>1 DEF Update
   <4> QED BY <1>0, <1>3, <3>2, <4>1, <4>2
  <3> QED BY <1>8, <3>1, <3>2
 <2> QED BY <2>1, <2>2, <2>3
<1> QED BY <1>5, <1>6, <1>7, <1>9, <1>11, <1>12 DEF CountInv

(* A gap takes the place of what was not delivered. *)
LEMMA SkipKeeps ==
  ASSUME CountInv, ServerSkips
  PROVE  CountInv'
<1>0. /\ UNCHANGED <<top, gone, seen, worker, cache, reads, restarts>>
      /\ log' = Append(SubSeq(log, 1, pos), Gap)
 BY DEF ServerSkips
<1>1. CountType /\ log \in Seq(Update) /\ pos \in 0 .. Len(log) /\ Gap \in Update
      /\ Len(log) \in Nat /\ cursor \in 0 .. pos
 BY CountFacts, EntryFacts DEF CountInv
<1>2. /\ log' \in Seq(Update) /\ Len(log') = pos + 1
      /\ \A i \in 1 .. pos : log'[i] = log[i]
      /\ log'[pos + 1] = Gap
 BY <1>0, <1>1, LogIsCut
<1>3. \A i \in 1 .. Len(log') : \/ i \in 1 .. pos /\ i \in 1 .. Len(log) /\ log'[i] = log[i]
                                \/ i = pos + 1 /\ log'[i].type = "gap"
 BY <1>1, <1>2 DEF Gap
<1>4. CountType'
 <2>1. pos' \in 0 .. Len(log') /\ cursor' \in 0 .. pos'
  BY <1>0, <1>1, <1>2 DEF worker
 <2> QED BY <1>0, <1>1, <1>2, <2>1 DEF CountType, worker, cache
<1>5. LogIsTrue' /\ LogInOrder'
 <2>1. LogIsTrue'
  BY <1>0, <1>3 DEF CountInv, LogIsTrue
 <2>2. ASSUME NEW i \in 1 .. Len(log'), NEW j \in 1 .. Len(log'), i < j,
              log'[j].type = "new"
       PROVE  /\ i \in 1 .. Len(log) /\ j \in 1 .. Len(log)
              /\ log'[i] = log[i] /\ log'[j] = log[j]
  <3>1. j \in 1 .. pos /\ i \in 1 .. pos
   BY <1>1, <1>2, <1>3, <2>2
  <3> QED BY <1>1, <1>2, <3>1
 <2>3. LogInOrder'
  BY <2>2 DEF CountInv, LogInOrder
 <2> QED BY <2>1, <2>3
<1>6. Coming' = {}
 BY <1>0, <1>1, <1>2, <1>3 DEF Coming, worker
<1>7. RowsHaveArrived'
 BY <1>0, <1>6 DEF CountInv, RowsHaveArrived, cache
<1>8. BoundariesAreServed'
 BY <1>0 DEF CountInv, BoundariesAreServed, AnswerIsTrue, worker, cache
<1>9. NewestIsShown'
 BY <1>0, <1>6 DEF CountInv, NewestIsShown, worker, cache
<1> QED BY <1>4, <1>5, <1>7, <1>8, <1>9 DEF CountInv

(* Steps that neither tell nor deliver anything. *)
LEMMA LogStays ==
  ASSUME CountInv, UNCHANGED <<log, top, gone, pos, cached, removed, counted>>,
         seen <= seen', seen' \in 0 .. MaxId
  PROVE  LogIsTrue' /\ LogInOrder' /\ RowsHaveArrived' /\ Coming' = Coming
<1>1. ASSUME NEW i \in 1 .. Len(log), log[i].type = "read"
      PROVE  log[i].id <= seen'
 <2>1. log[i].id \in 0 .. MaxId /\ seen \in 0 .. MaxId
  BY CountFacts DEF CountInv, Update
 <2> QED BY <1>1, <2>1, UnreadAssumption DEF CountInv, LogIsTrue
<1>2. LogIsTrue'
 BY <1>1 DEF CountInv, LogIsTrue
<1>3. Coming' = Coming
 BY DEF Coming
<1> QED BY <1>2, <1>3 DEF CountInv, LogInOrder, RowsHaveArrived

LEMMA DateFacts == \A m \in 0 .. MaxId : Date(m) \in 0 .. MaxId
<1> SUFFICES ASSUME NEW m \in 1 .. MaxId
             PROVE  (m - 1) \div PerSecond + 1 \in 0 .. MaxId
 BY UnreadAssumption DEF Date
<1> DEFINE q == (m - 1) \div PerSecond
<1>1. PerSecond \in Nat /\ PerSecond >= 1 /\ MaxId \in Nat /\ m - 1 \in Nat
 BY UnreadAssumption
<1>2. q \in Nat /\ PerSecond * q <= m - 1
 BY <1>1
<1>3. q <= PerSecond * q
 <2> HIDE DEF q
 <2> QED BY <1>1, <1>2
<1>4. PerSecond * q \in Nat
 <2> HIDE DEF q
 <2> QED BY <1>1, <1>2
<1> HIDE DEF q
<1>5. q + 1 \in 0 .. MaxId
 BY <1>1, <1>2, <1>3, <1>4
<1> QED BY <1>5 DEF q

(* The refresh of the dialogs. *)
LEMMA RefreshKeeps ==
  ASSUME CountInv,
         AskRefresh \/ StartRefresh \/ AnswerRefresh \/ DialogsArrive \/ RefreshFails
  PROVE  CountInv'
<1> DEFINE s == refresh.answer
<1>0. /\ UNCHANGED <<account, pos, cursor, receipt, cached, removed, counted, reads, restarts>>
      /\ CountType
 BY DEF CountInv, AskRefresh, StartRefresh, AnswerRefresh, DialogsArrive, RefreshFails, cache
<1>1. LogIsTrue' /\ LogInOrder' /\ RowsHaveArrived' /\ Coming' = Coming
 <2>1. seen' = seen /\ seen \in 0 .. MaxId /\ seen <= seen
  BY <1>0, CountFacts DEF account
 <2> QED BY <1>0, <2>1, LogStays DEF account
<1>2. AnswerIsTrue(receipt.answer)'
 BY <1>0 DEF CountInv, BoundariesAreServed, AnswerIsTrue, account
<1>3. receipt'.state \in {"read", "answered"} => receipt'.max <= seen'
 BY <1>0 DEF CountInv, BoundariesAreServed, account
<1>f. /\ chat.last \in 0 .. MaxId /\ chat.seen \in 0 .. MaxId /\ seen \in 0 .. MaxId
      /\ chat.date \in 0 .. MaxId /\ chat.unread \in Nat
      /\ s \in SnapshotType /\ refresh.inFlight \in BOOLEAN /\ refresh.dirty \in BOOLEAN
      /\ MaxId \in Nat /\ mark \in 0 .. MaxId
 BY <1>0, CountFacts
<1>4. CASE AskRefresh
 <2>1. /\ refresh' = [refresh EXCEPT !.dirty = TRUE] /\ UNCHANGED <<mark, chat, changed, covered>>
  BY <1>4 DEF AskRefresh, cache
 <2>2. CountType'
  BY <1>0, <2>1 DEF CountType, account
 <2>3. BoundariesAreServed'
  BY <1>0, <1>2, <2>1 DEF CountType, CountInv, BoundariesAreServed, AnswerIsTrue, account
 <2>4. NewestIsShown'
  BY <1>0, <1>1, <2>1 DEF CountInv, NewestIsShown, account
 <2> QED BY <1>1, <2>2, <2>3, <2>4 DEF CountInv
<1>5. CASE StartRefresh
 <2>1. /\ refresh' = [inFlight |-> TRUE, dirty |-> FALSE, answer |-> NoSnapshot]
       /\ UNCHANGED <<mark, chat, covered>> /\ changed' = FALSE
  BY <1>5 DEF StartRefresh
 <2>2. CountType'
  BY <1>0, <2>1, NoSnapshotType DEF CountType, account
 <2>3. BoundariesAreServed'
  BY <1>0, <1>2, <2>1 DEF CountInv, BoundariesAreServed, AnswerIsTrue, account
 <2>4. NewestIsShown'
  BY <1>0, <1>1, <2>1 DEF CountInv, NewestIsShown, account
 <2> QED BY <1>1, <2>2, <2>3, <2>4 DEF CountInv
<1>6. CASE AnswerRefresh
 <2>1. /\ refresh' = [refresh EXCEPT !.answer = Snapshot]
       /\ UNCHANGED <<mark, chat, changed, covered>>
       /\ refresh.inFlight
  BY <1>6 DEF AnswerRefresh, cache
 <2>2. /\ Snapshot \in SnapshotType /\ Snapshot # NoSnapshot
       /\ Snapshot.max = seen /\ Snapshot.at = top
       /\ \A m \in (1 .. top) \ gone : m <= Snapshot.top
  BY <1>0, SnapshotFacts
 <2>3. refresh'.answer = Snapshot /\ refresh'.inFlight
  BY <1>0, <2>1 DEF CountType
 <2>4. CountType'
  <3>1. refresh' \in [inFlight : BOOLEAN, dirty : BOOLEAN, answer : SnapshotType]
   BY <1>0, <2>1, <2>2 DEF CountType
  <3> QED BY <1>0, <2>1, <3>1 DEF CountType, account
 <2>5. AnswerIsTrue(refresh.answer)'
  <3>1. seen <= seen /\ top <= top
   BY <1>f, CountFacts, <1>0
  <3> QED BY <1>0, <2>2, <2>3, <3>1 DEF AnswerIsTrue, account
 <2>6. /\ chat'.seen <= refresh'.answer.max
       /\ \A m \in cached' \ gone' : m <= refresh'.answer.at
  <3>1. chat.seen <= seen /\ cached \subseteq 1 .. top
   BY DEF CountInv, BoundariesAreServed, RowsHaveArrived
  <3>2. \A m \in cached : m <= top
   BY <3>1, <1>0, CountFacts
  <3> QED BY <1>0, <2>1, <2>2, <2>3, <3>1, <3>2
 <2>7. chat'.seen <= seen'
  BY <1>0, <2>1 DEF CountInv, BoundariesAreServed, account
 <2>8. BoundariesAreServed'
  BY <1>2, <1>3, <2>3, <2>5, <2>6, <2>7 DEF BoundariesAreServed
 <2>9. NewestIsShown'
  BY <1>0, <1>1, <2>1 DEF CountInv, NewestIsShown, account
 <2> QED BY <1>1, <2>4, <2>8, <2>9 DEF CountInv
<1>7. CASE RefreshFails
 <2>1. /\ refresh' = [refresh EXCEPT !.inFlight = FALSE, !.answer = NoSnapshot]
       /\ UNCHANGED <<mark, chat, changed, covered>>
  BY <1>7 DEF RefreshFails, cache
 <2>2. refresh' \in [inFlight : BOOLEAN, dirty : BOOLEAN, answer : SnapshotType]
       /\ refresh'.answer = NoSnapshot
  BY <1>0, <2>1, NoSnapshotType DEF CountType
 <2>3. CountType'
  BY <1>0, <2>1, <2>2 DEF CountType, account
 <2>4. BoundariesAreServed'
  BY <1>0, <1>2, <2>1, <2>2 DEF CountInv, BoundariesAreServed, AnswerIsTrue, account
 <2>5. NewestIsShown'
  BY <1>0, <1>1, <2>1 DEF CountInv, NewestIsShown, account
 <2> QED BY <1>1, <2>3, <2>4, <2>5 DEF CountInv
<1>8. CASE DialogsArrive
 <2>1. /\ refresh' = [refresh EXCEPT !.inFlight = FALSE, !.answer = NoSnapshot]
       /\ s # NoSnapshot
       /\ \/ UNCHANGED <<mark, chat, changed, covered>>
          \/ /\ mark' = Larger(mark, s.top) /\ chat' = Replaced(s) /\ changed' = TRUE
             /\ covered' = IF changed THEN covered ELSE 1 .. s.at
  BY <1>8 DEF DialogsArrive, cache
 <2>2. refresh' \in [inFlight : BOOLEAN, dirty : BOOLEAN, answer : SnapshotType]
       /\ refresh'.answer = NoSnapshot
  BY <1>0, <2>1, NoSnapshotType DEF CountType
 <2>3. /\ s.top \in 0 .. MaxId /\ s.unread \in 0 .. MaxId /\ s.max \in 0 .. MaxId
       /\ s.at \in -1 .. MaxId /\ Date(s.top) \in 0 .. MaxId
       /\ s.max <= seen /\ s.at <= top
       /\ \A m \in (1 .. s.at) \ gone : m <= s.top
  BY <1>f, <2>1, AnswerFacts, DateFacts DEF CountInv, BoundariesAreServed, AnswerIsTrue
 <2>4. chat' \in [last : 0 .. MaxId, date : 0 .. MaxId, unread : Nat, seen : 0 .. MaxId]
  <3>1. CASE chat' = chat
   BY <1>0, <3>1 DEF CountType
  <3>2. CASE chat' = Replaced(s)
   <4>1. CASE changed
    <5>1. Larger(s.max, chat.seen) \in 0 .. MaxId
     BY <1>f, <2>3 DEF Larger
    <5> QED BY <1>0, <3>2, <4>1, <5>1 DEF CountType, Replaced
   <4>2. CASE ~changed
    <5>1. s.unread \in Nat
     BY <1>f, <2>3
    <5> QED BY <2>3, <3>2, <4>2, <5>1 DEF Replaced
   <4> QED BY <4>1, <4>2
  <3> QED BY <2>1, <3>1, <3>2
 <2>5. CountType'
  <3>1. mark' \in 0 .. MaxId
   BY <1>f, <2>1, <2>3 DEF Larger
  <3>2. covered' \subseteq MessageId
   <4>1. 1 .. s.at \subseteq MessageId
    BY <1>f, <2>3 DEF MessageId
   <4> QED BY <1>0, <2>1, <4>1 DEF CountType
  <3>3. changed' \in BOOLEAN
   BY <1>0, <2>1 DEF CountType
  <3> QED BY <1>0, <2>2, <2>4, <3>1, <3>2, <3>3 DEF CountType, account
 <2>6. chat'.seen <= seen'
  <3>1. chat.seen <= seen
   BY DEF CountInv, BoundariesAreServed
  <3>2. CASE chat' = chat
   BY <1>0, <3>1, <3>2 DEF account
  <3>3. CASE chat' = Replaced(s)
   <4>1. chat'.seen \in {s.max, Larger(s.max, chat.seen)}
    BY <1>0, <3>3 DEF Replaced, CountType
   <4> QED BY <1>0, <1>f, <2>3, <3>1, <4>1 DEF Larger, account
  <3> QED BY <2>1, <3>2, <3>3
 <2>7. BoundariesAreServed'
  BY <1>2, <1>3, <2>2, <2>6 DEF BoundariesAreServed, AnswerIsTrue
 <2>8. NewestIsShown'
  <3> SUFFICES ASSUME receipt'.answer # NoSnapshot, NEW m \in cached' \ gone',
                      m > receipt'.answer.at
               PROVE  /\ chat'.last = 0 \/ m <= chat'.last
                      /\ \A i \in Coming' : m < log'[i].id
   BY DEF NewestIsShown
  <3>1. receipt' = receipt /\ m \in cached \ gone /\ log' = log
   BY <1>0 DEF account
  <3>2. /\ chat.last = 0 \/ m <= chat.last
        /\ \A i \in Coming : m < log[i].id
   BY <3>1 DEF CountInv, NewestIsShown
  <3>3. CASE chat'.last = chat.last
   BY <1>1, <3>1, <3>2, <3>3
  <3>4. CASE chat' = Replaced(s) /\ ~changed
   <4>1. m <= s.at
    BY <2>1, <3>1, <3>4 DEF CountInv, BoundariesAreServed
   <4>2. m \in 1 .. s.at
    <5>1. m \in 1 .. top
     BY <3>1 DEF CountInv, RowsHaveArrived
    <5> QED BY <1>f, <2>3, <4>1, <5>1, CountFacts, <1>0
   <4>3. m <= s.top /\ chat'.last = s.top
    BY <2>3, <3>1, <3>4, <4>2 DEF Replaced
   <4> QED BY <1>1, <3>1, <3>2, <4>3
  <3>5. chat'.last = chat.last \/ (chat' = Replaced(s) /\ ~changed)
   <4>1. CASE changed /\ chat' = Replaced(s)
    BY <1>0, <4>1 DEF Replaced, CountType
   <4> QED BY <2>1, <4>1
  <3> QED BY <3>3, <3>4, <3>5
 <2> QED BY <1>1, <2>5, <2>7, <2>8 DEF CountInv
<1> QED BY <1>4, <1>5, <1>6, <1>7, <1>8

(* The read receipt, and the checkpoint. *)
LEMMA ReceiptKeeps ==
  ASSUME CountInv,
         \/ Checkpoint \/ ServerReads \/ CountAnswers \/ ReadMarked \/ ReadFails
         \/ \E m \in MessageId : MarkRead(m)
  PROVE  CountInv'
<1> DEFINE s == receipt.answer
<1>0. /\ UNCHANGED <<log, top, gone, pos, mark, refresh, cached, removed, counted, restarts>>
      /\ CountType
 BY DEF CountInv, Checkpoint, ServerReads, CountAnswers, ReadMarked, ReadFails, MarkRead,
        account, cache
<1>f. /\ chat.last \in 0 .. MaxId /\ chat.seen \in 0 .. MaxId /\ seen \in 0 .. MaxId
      /\ top \in 0 .. MaxId /\ receipt.max \in 0 .. MaxId
      /\ chat.date \in 0 .. MaxId /\ chat.unread \in Nat
      /\ s \in SnapshotType /\ MaxId \in Nat /\ cursor \in 0 .. pos /\ pos \in Nat
      /\ pos \in 0 .. Len(log) /\ log \in Seq(Update)
 BY <1>0, CountFacts
<1>s. /\ s.top \in 0 .. MaxId /\ s.unread \in 0 .. MaxId /\ s.max \in 0 .. MaxId
      /\ s.at \in -1 .. MaxId
      /\ refresh.answer.max \in 0 .. MaxId
 BY <1>0, <1>f, AnswerFacts, CountFacts
<1>1. CASE Checkpoint
 <2>1. UNCHANGED <<account, receipt, cache, reads>> /\ cursor' = pos
  BY <1>1 DEF Checkpoint
 <2>2. CountType'
  BY <1>0, <1>f, <2>1 DEF CountType, account, cache
 <2>3. LogIsTrue' /\ LogInOrder' /\ RowsHaveArrived' /\ Coming' = Coming
  <3>1. seen' = seen /\ seen <= seen
   BY <1>f, <2>1 DEF account
  <3> QED BY <1>0, <1>f, <3>1, LogStays
 <2>4. BoundariesAreServed'
  BY <1>0, <2>1 DEF CountInv, BoundariesAreServed, AnswerIsTrue, account, cache
 <2>5. NewestIsShown'
  BY <1>0, <2>1, <2>3 DEF CountInv, NewestIsShown, account, cache
 <2> QED BY <2>2, <2>3, <2>4, <2>5 DEF CountInv
<1>2. CASE ServerReads
 <2>1. /\ UNCHANGED <<cursor, cache, reads>>
       /\ receipt.state = "sent" /\ receipt' = [receipt EXCEPT !.state = "read"]
       /\ seen' = Larger(seen, receipt.max)
  BY <1>2 DEF ServerReads
 <2>2. seen' \in 0 .. MaxId /\ seen <= seen' /\ receipt.max <= seen'
  BY <1>f, <2>1 DEF Larger
 <2>3. CountType'
  BY <1>0, <2>1, <2>2 DEF CountType, cache
 <2>4. LogIsTrue' /\ LogInOrder' /\ RowsHaveArrived' /\ Coming' = Coming
  BY <1>0, <2>2, LogStays
 <2>5. AnswerIsTrue(receipt.answer)' /\ AnswerIsTrue(refresh.answer)'
  <3>1. receipt'.answer = receipt.answer
   BY <1>0, <2>1 DEF CountType
  <3>2. /\ s.max <= seen => s.max <= seen'
        /\ refresh.answer.max <= seen => refresh.answer.max <= seen'
   <4>1. \A x \in 0 .. MaxId : x <= seen => x <= seen'
    BY <1>f, <2>2
   <4> QED BY <1>s, <4>1
  <3> QED BY <1>0, <3>1, <3>2 DEF CountInv, BoundariesAreServed, AnswerIsTrue
 <2>6. chat'.seen <= seen' /\ receipt'.max <= seen'
  <3>1. chat.seen <= seen
   BY DEF CountInv, BoundariesAreServed
  <3>2. receipt'.max = receipt.max /\ chat' = chat
   BY <1>0, <2>1 DEF CountType, cache
  <3> QED BY <1>f, <2>2, <3>1, <3>2
 <2>7. BoundariesAreServed'
  BY <1>0, <2>1, <2>5, <2>6 DEF CountInv, BoundariesAreServed, cache
 <2>8. NewestIsShown'
  <3>1. receipt'.answer = receipt.answer
   BY <1>0, <2>1 DEF CountType
  <3> QED BY <1>0, <2>1, <2>4, <3>1 DEF CountInv, NewestIsShown, cache
 <2> QED BY <2>3, <2>4, <2>7, <2>8 DEF CountInv
<1> DEFINE Same == UNCHANGED <<seen, cursor>>
<1>3. ASSUME Same
      PROVE  LogIsTrue' /\ LogInOrder' /\ RowsHaveArrived' /\ Coming' = Coming
 <2>1. seen' = seen /\ seen <= seen
  BY <1>3, <1>f
 <2> QED BY <1>0, <1>f, <2>1, LogStays
<1>4. CASE CountAnswers
 <2>1. /\ UNCHANGED <<account, cursor, cache, reads>>
       /\ receipt.state = "read"
       /\ \/ receipt' = [receipt EXCEPT !.state = "answered", !.answer = Snapshot]
          \/ receipt' = [receipt EXCEPT !.state = "answered", !.answer = NoSnapshot]
  BY <1>4 DEF CountAnswers
 <2>2. /\ Snapshot \in SnapshotType /\ NoSnapshot \in SnapshotType
       /\ Snapshot.max = seen /\ Snapshot.at = top
       /\ \A m \in (1 .. top) \ gone : m <= Snapshot.top
  BY <1>0, SnapshotFacts, NoSnapshotType
 <2>3. /\ receipt'.answer \in {Snapshot, NoSnapshot} /\ receipt'.max = receipt.max
       /\ receipt' \in [state : {"none", "sent", "read", "answered"}, max : 0 .. MaxId,
                        answer : SnapshotType]
  BY <1>0, <2>1, <2>2 DEF CountType
 <2>4. CountType'
  BY <1>0, <2>1, <2>3 DEF CountType, account, cache
 <2>5. AnswerIsTrue(receipt.answer)' /\ AnswerIsTrue(refresh.answer)'
  <3>1. seen <= seen /\ top <= top
   BY <1>f
  <3>2. AnswerIsTrue(refresh.answer)'
   BY <1>0, <2>1 DEF CountInv, BoundariesAreServed, AnswerIsTrue, account
  <3>3. AnswerIsTrue(receipt.answer)'
   BY <1>0, <2>1, <2>2, <2>3, <3>1 DEF AnswerIsTrue, account
  <3> QED BY <3>2, <3>3
 <2>6. BoundariesAreServed'
  BY <1>0, <2>1, <2>3, <2>5 DEF CountInv, BoundariesAreServed, account, cache
 <2>7. NewestIsShown'
  <3> SUFFICES ASSUME receipt'.answer # NoSnapshot, NEW m \in cached' \ gone',
                      m > receipt'.answer.at
               PROVE  FALSE
   BY DEF NewestIsShown
  <3>1. m > top
   BY <2>2, <2>3
  <3>2. m \in 1 .. top
   BY <1>0 DEF CountInv, RowsHaveArrived
  <3> QED BY <1>f, <3>1, <3>2
 <2> QED BY <1>3, <2>1, <2>4, <2>6, <2>7 DEF CountInv, account
<1>5. CASE ReadFails \/ \E m \in MessageId : MarkRead(m)
 <2>1. /\ UNCHANGED <<account, cursor, cache>>
       /\ receipt' \in [state : {"none", "sent"}, max : 0 .. MaxId, answer : {NoSnapshot}]
       /\ reads' \in 0 .. MaxReads
  <3>1. MaxReads \in Nat /\ reads \in 0 .. MaxReads /\ 0 \in 0 .. MaxId
   BY <1>0, <1>f, UnreadAssumption DEF CountType
  <3>2. CASE ReadFails
   BY <3>1, <3>2 DEF ReadFails, NoReceipt
  <3>3. ASSUME NEW m \in MessageId, MarkRead(m)
        PROVE  /\ UNCHANGED <<account, cursor, cache>>
               /\ receipt' \in [state : {"none", "sent"}, max : 0 .. MaxId, answer : {NoSnapshot}]
               /\ reads' \in 0 .. MaxReads
   <4>1. m \in 0 .. MaxId
    BY <1>f DEF MessageId
   <4> QED BY <3>1, <3>3, <4>1 DEF MarkRead
  <3> QED BY <1>5, <3>2, <3>3
 <2>2. CountType'
  <3>1. receipt' \in [state : {"none", "sent", "read", "answered"}, max : 0 .. MaxId,
                      answer : SnapshotType]
   BY <2>1, NoSnapshotType
  <3> QED BY <1>0, <2>1, <3>1 DEF CountType, account, cache
 <2>3. receipt'.answer = NoSnapshot /\ receipt'.state \notin {"read", "answered"}
  BY <2>1
 <2>4. BoundariesAreServed'
  BY <1>0, <2>1, <2>3 DEF CountInv, BoundariesAreServed, AnswerIsTrue, account, cache
 <2>5. NewestIsShown'
  BY <2>3 DEF NewestIsShown
 <2> QED BY <1>3, <2>1, <2>2, <2>4, <2>5 DEF CountInv, account
<1>6. CASE ReadMarked
 <2>1. /\ UNCHANGED <<account, cursor, reads>>
       /\ receipt.state = "answered" /\ receipt' = NoReceipt /\ changed' = TRUE
       /\ chat' = Acknowledge(chat, receipt.max, s)
       /\ covered' = IF Fresh(chat, receipt.max, s) THEN 1 .. s.at ELSE covered
  BY <1>6 DEF ReadMarked
 <2>2. receipt'.answer = NoSnapshot /\ receipt'.state = "none"
       /\ receipt' \in [state : {"none", "sent", "read", "answered"}, max : 0 .. MaxId,
                        answer : SnapshotType]
  BY <1>f, <2>1, NoSnapshotType DEF NoReceipt
 <2>3. /\ chat' \in [last : 0 .. MaxId, date : 0 .. MaxId, unread : Nat, seen : 0 .. MaxId]
       /\ chat'.seen <= seen
  <3>1. receipt.max <= seen /\ chat.seen <= seen
   BY <2>1 DEF CountInv, BoundariesAreServed
  <3>2. s # NoSnapshot => s.max <= seen
   BY DEF CountInv, BoundariesAreServed, AnswerIsTrue
  <3>3. /\ Larger(chat.seen, receipt.max) \in 0 .. MaxId
        /\ Larger(chat.seen, receipt.max) <= seen
   BY <1>f, <3>1 DEF Larger
  <3> DEFINE c2 == [chat EXCEPT !.seen = Larger(chat.seen, receipt.max)]
  <3>4. /\ c2 \in [last : 0 .. MaxId, date : 0 .. MaxId, unread : Nat, seen : 0 .. MaxId]
        /\ c2.seen <= seen
   BY <1>0, <3>3 DEF CountType
  <3>5. s.unread \in Nat /\ 0 \in Nat
   BY <1>f, <1>s
  <3>6. \/ chat' = c2 \/ chat' = [c2 EXCEPT !.unread = 0]
        \/ s # NoSnapshot /\ chat' = [c2 EXCEPT !.seen = s.max, !.unread = s.unread]
   BY <2>1 DEF Acknowledge, Fresh, InboxUpdate
  <3> HIDE DEF c2
  <3> QED BY <1>s, <3>2, <3>4, <3>5, <3>6
 <2>4. CountType'
  <3>1. covered' \subseteq MessageId
   <4>1. 1 .. s.at \subseteq MessageId
    BY SMTT(20), <1>f, <1>s DEF MessageId
   <4> QED BY <1>0, <2>1, <4>1 DEF CountType
  <3> QED BY <1>0, <2>1, <2>2, <2>3, <3>1 DEF CountType, account
 <2>5. BoundariesAreServed'
  BY <1>0, <2>1, <2>2, <2>3 DEF CountInv, BoundariesAreServed, AnswerIsTrue, account
 <2>6. NewestIsShown'
  BY <2>2 DEF NewestIsShown
 <2> QED BY <1>3, <2>1, <2>4, <2>5, <2>6 DEF CountInv, account
<1> QED BY <1>1, <1>2, <1>4, <1>5, <1>6

(* An update is delivered. *)
LEMMA DeliveryKeeps ==
  ASSUME CountInv, Deliver
  PROVE  CountInv'
<1> DEFINE e == log[pos + 1]
<1>0. /\ UNCHANGED <<account, cursor, receipt, reads, restarts>>
      /\ pos < Len(log) /\ pos' = pos + 1 /\ CountType
      /\ \/ e.type = "new" /\ Received(e.id)
         \/ e.type = "deleted" /\ Removed(e.id)
         \/ e.type = "read" /\ ReadTo(e)
         \/ e.type = "gap" /\ CountInvalidated
         \/ e.type = "none" /\ UNCHANGED <<mark, refresh, cache>>
 BY DEF CountInv, Deliver
<1>f. /\ chat.last \in 0 .. MaxId /\ chat.seen \in 0 .. MaxId /\ seen \in 0 .. MaxId
      /\ top \in 0 .. MaxId /\ mark \in 0 .. MaxId /\ MaxId \in Nat
      /\ chat.date \in 0 .. MaxId /\ chat.unread \in Nat
      /\ cursor \in 0 .. pos /\ pos \in Nat /\ Len(log) \in Nat
      /\ pos + 1 \in 1 .. Len(log)
      /\ \A m \in cached : m \in 1 .. top
 BY SMTT(20), <1>0, CountFacts DEF CountInv, RowsHaveArrived
<1>e. e \in Update /\ e.id \in 0 .. MaxId /\ e.unread \in 0 .. MaxId /\ e.at \in 0 .. MaxId
 <2>1. e \in Update
  BY <1>0, <1>f, CountFacts
 <2> QED BY <2>1 DEF Update
<1>1. LogIsTrue' /\ LogInOrder'
 BY <1>0 DEF CountInv, LogIsTrue, LogInOrder, account
<1>2. pos' \in 0 .. Len(log') /\ cursor' \in 0 .. pos'
 BY <1>0, <1>f DEF account
<1>3. Coming' \subseteq Coming /\ \A i \in Coming' : i > pos + 1 /\ i \in 1 .. Len(log)
 BY <1>0, <1>f DEF Coming, account
<1>4. /\ AnswerIsTrue(receipt.answer)'
      /\ receipt'.state \in {"read", "answered"} => receipt'.max <= seen'
 BY <1>0 DEF CountInv, BoundariesAreServed, AnswerIsTrue, account
<1> HIDE DEF e
<1>5. CASE e.type = "new" /\ Received(e.id)
 <2> DEFINE m == e.id
 <2>1. m \in 1 .. top /\ m \in MessageId /\ Date(m) \in 0 .. MaxId
  <3>1. m \in 1 .. top
   BY <1>f, <1>5 DEF e, CountInv, LogIsTrue
  <3>2. m \in MessageId
   BY <1>f, <3>1 DEF MessageId
  <3>3. Date(m) \in 0 .. MaxId
   BY <1>e, DateFacts
  <3> QED BY <3>1, <3>2, <3>3
 <2>2. m \notin removed /\ \A i \in Coming' : m < log[i].id
  <3>1. pos + 1 \in Coming
   BY <1>f, <1>5 DEF Coming, e
  <3>2. m \notin removed
   BY <3>1 DEF CountInv, RowsHaveArrived, e
  <3>3. ASSUME NEW i \in Coming'
        PROVE  m < log[i].id
   <4>1. i > pos + 1 /\ i \in 1 .. Len(log) /\ log[i].type = "new"
    BY <1>3 DEF Coming
   <4> QED BY <1>f, <1>5, <4>1 DEF CountInv, LogInOrder, e
  <3> QED BY <3>2, <3>3
 <2>3. /\ mark' = Larger(mark, m) /\ changed' = TRUE /\ cached' = cached \cup {m}
       /\ refresh' = refresh /\ removed' = removed
       /\ counted' \subseteq counted \cup {m} /\ covered' \subseteq covered \cup {m}
  BY <1>5, <2>2 DEF Received
 <2>4. /\ chat' \in [last : 0 .. MaxId, date : 0 .. MaxId, unread : Nat, seen : 0 .. MaxId]
       /\ chat'.seen = chat.seen
       /\ \/ Latest(m) /\ chat'.last = m
          \/ ~Latest(m) /\ chat'.last = chat.last
  <3> DEFINE c == IF Raises(m) THEN [chat EXCEPT !.unread = @ + 1] ELSE chat
  <3>1. /\ c \in [last : 0 .. MaxId, date : 0 .. MaxId, unread : Nat, seen : 0 .. MaxId]
        /\ c.seen = chat.seen /\ c.last = chat.last
   <4>1. chat.unread + 1 \in Nat
    BY <1>f
   <4> QED BY <1>0, <4>1 DEF CountType
  <3>2. chat' = IF Latest(m) THEN [c EXCEPT !.last = m, !.date = Date(m)] ELSE c
   BY <1>5 DEF Received
  <3> HIDE DEF c
  <3>3. m \in 0 .. MaxId
   BY <1>e
  <3> QED BY <2>1, <3>1, <3>2, <3>3
 <2>5. CountType'
  <3>1. mark' \in 0 .. MaxId
   BY <1>f, <1>e, <2>3 DEF Larger
  <3>2. /\ cached' \subseteq MessageId /\ counted' \subseteq MessageId
        /\ covered' \subseteq MessageId /\ removed' \subseteq MessageId
   BY <1>0, <2>1, <2>3 DEF CountType
  <3>3. changed' \in BOOLEAN
   BY <2>3
  <3> QED BY SMTT(20), <1>0, <1>2, <2>3, <2>4, <3>1, <3>2, <3>3 DEF CountType, account
 <2>6. RowsHaveArrived'
  <3>1. cached' \subseteq 1 .. top' /\ removed' \subseteq gone'
        /\ counted' \subseteq cached' \cup removed'
   BY <1>0, <2>1, <2>3 DEF CountInv, RowsHaveArrived, account
  <3>2. \A i \in Coming' : log'[i].id \notin removed'
   BY <1>0, <1>3, <2>3 DEF CountInv, RowsHaveArrived, account
  <3> QED BY <3>1, <3>2 DEF RowsHaveArrived
 <2>7. BoundariesAreServed'
  BY <1>0, <1>4, <2>3, <2>4 DEF CountInv, BoundariesAreServed, AnswerIsTrue, account
 <2>8. NewestIsShown'
  <3> SUFFICES ASSUME receipt'.answer # NoSnapshot, NEW k \in cached' \ gone',
                      k > receipt'.answer.at
               PROVE  /\ chat'.last = 0 \/ k <= chat'.last
                      /\ \A i \in Coming' : k < log'[i].id
   BY DEF NewestIsShown
  <3>0. receipt' = receipt /\ log' = log /\ gone' = gone
   BY <1>0 DEF account
  <3>1. CASE k = m
   <4>1. chat'.last = 0 \/ m <= chat'.last
    <5>1. CASE Latest(m)
     BY <1>f, <1>e, <2>4, <5>1
    <5>2. CASE ~Latest(m)
     BY <1>f, <1>e, <2>4, <5>2 DEF Latest
    <5> QED BY <5>1, <5>2
   <4> QED BY <2>2, <3>0, <3>1, <4>1
  <3>2. CASE k \in cached
   <4>1. /\ chat.last = 0 \/ k <= chat.last
         /\ \A i \in Coming : k < log[i].id
    BY <3>0, <3>2 DEF CountInv, NewestIsShown
   <4>2. pos + 1 \in Coming
    BY <1>f, <1>5 DEF Coming, e
   <4>3. k < m
    BY <4>1, <4>2 DEF e
   <4>4. k <= m
    BY <1>e, <1>f, <3>2, <4>3
   <4> QED BY <1>3, <2>4, <3>0, <4>1, <4>4
  <3> QED BY <2>3, <3>1, <3>2
 <2> QED BY <1>1, <2>5, <2>6, <2>7, <2>8 DEF CountInv
<1>6. CASE e.type = "deleted" /\ Removed(e.id)
 <2> DEFINE m == e.id
 <2>1. m \in gone /\ m \in 1 .. top /\ m \in MessageId
  <3>1. m \in gone
   BY <1>f, <1>6 DEF e, CountInv, LogIsTrue
  <3> QED BY <1>0, <3>1, CountFacts
 <2>2. \A i \in Coming' : log[i].id # m
  <3> SUFFICES ASSUME NEW i \in Coming' PROVE log[i].id # m
   OBVIOUS
  <3>1. i > pos + 1 /\ i \in 1 .. Len(log) /\ log[i].type = "new"
   BY <1>3 DEF Coming
  <3> QED BY <1>f, <1>6, <3>1 DEF CountInv, LogInOrder, e
 <2>3. /\ chat' = IF chat.last = m THEN [chat EXCEPT !.last = 0] ELSE chat
       /\ changed' = (changed \/ chat.last = m)
       /\ cached \subseteq cached' /\ cached' \subseteq cached \cup {m}
       /\ removed \subseteq removed' /\ removed' \subseteq removed \cup {m}
       /\ refresh' = [refresh EXCEPT !.dirty = TRUE]
       /\ UNCHANGED <<mark, counted, covered>>
  BY <1>6 DEF Removed
 <2>4. /\ chat' \in [last : 0 .. MaxId, date : 0 .. MaxId, unread : Nat, seen : 0 .. MaxId]
       /\ chat'.seen = chat.seen /\ chat'.last \in {0, chat.last}
  <3>1. chat \in [last : 0 .. MaxId, date : 0 .. MaxId, unread : Nat, seen : 0 .. MaxId]
   BY <1>0 DEF CountType
  <3>2. 0 \in 0 .. MaxId
   BY <1>f
  <3>3. CASE chat.last = m
   BY <2>3, <3>1, <3>2, <3>3
  <3>4. CASE chat.last # m
   BY <2>3, <3>1, <3>4
  <3> QED BY <3>3, <3>4
 <2>5. refresh'.answer = refresh.answer /\ refresh'.inFlight = refresh.inFlight
       /\ refresh' \in [inFlight : BOOLEAN, dirty : BOOLEAN, answer : SnapshotType]
  BY <1>0, <2>3 DEF CountType
 <2>6. CountType'
  <3>1. cached' \subseteq MessageId /\ removed' \subseteq MessageId
   BY <1>0, <2>1, <2>3 DEF CountType
  <3>2. changed' \in BOOLEAN
   BY <1>0, <2>3 DEF CountType
  <3> QED BY <1>0, <1>2, <2>3, <2>4, <2>5, <3>1, <3>2 DEF CountType, account
 <2>7. RowsHaveArrived'
  <3>1. cached' \subseteq 1 .. top' /\ removed' \subseteq gone'
        /\ counted' \subseteq cached' \cup removed'
   BY <1>0, <2>1, <2>3 DEF CountInv, RowsHaveArrived, account
  <3>2. \A i \in Coming' : log'[i].id \notin removed'
   BY <1>0, <1>3, <2>2, <2>3 DEF CountInv, RowsHaveArrived, account
  <3> QED BY <3>1, <3>2 DEF RowsHaveArrived
 <2>8. gone' = gone /\ cached' \ gone' \subseteq cached \ gone
  BY <1>0, <2>1, <2>3 DEF account
 <2>9. BoundariesAreServed'
  <3>1. ~changed' => ~changed
   BY <2>3
  <3>2. chat'.seen <= seen' /\ AnswerIsTrue(refresh.answer)'
   BY <1>0, <2>4, <2>5 DEF CountInv, BoundariesAreServed, AnswerIsTrue, account
  <3>3. /\ refresh'.answer # NoSnapshot => refresh'.inFlight
        /\ refresh'.answer # NoSnapshot /\ ~changed' =>
             /\ chat'.seen <= refresh'.answer.max
             /\ \A k \in cached' \ gone' : k <= refresh'.answer.at
   BY <2>4, <2>5, <2>8, <3>1 DEF CountInv, BoundariesAreServed
  <3> QED BY <1>4, <3>2, <3>3 DEF BoundariesAreServed
 <2>10. NewestIsShown'
  BY <1>0, <1>3, <2>4, <2>8 DEF CountInv, NewestIsShown, account
 <2> QED BY <1>1, <2>6, <2>7, <2>9, <2>10 DEF CountInv
<1>7. CASE e.type = "read" /\ ReadTo(e)
 <2>1. /\ chat' = InboxUpdate(chat, e.id, e.unread) /\ changed' = TRUE
       /\ covered' = IF e.id < chat.seen THEN covered ELSE 1 .. e.at
       /\ UNCHANGED <<mark, refresh, cached, removed, counted>>
  BY <1>7 DEF ReadTo
 <2>2. /\ chat' \in [last : 0 .. MaxId, date : 0 .. MaxId, unread : Nat, seen : 0 .. MaxId]
       /\ chat'.seen <= seen /\ chat'.last = chat.last
  <3>1. e.id <= seen
   BY <1>f, <1>7 DEF e, CountInv, LogIsTrue
  <3>2. chat.seen <= seen
   BY DEF CountInv, BoundariesAreServed
  <3>3. e.unread \in Nat
   BY <1>e, <1>f
  <3> QED BY <1>0, <1>e, <2>1, <3>1, <3>2, <3>3 DEF CountType, InboxUpdate
 <2>3. CountType'
  <3>1. covered' \subseteq MessageId
   <4>1. 1 .. e.at \subseteq MessageId
    BY <1>e, <1>f DEF MessageId
   <4> QED BY <1>0, <2>1, <4>1 DEF CountType
  <3> QED BY <1>0, <1>2, <2>1, <2>2, <3>1 DEF CountType, account
 <2>4. RowsHaveArrived'
  BY <1>0, <1>3, <2>1 DEF CountInv, RowsHaveArrived, account
 <2>5. BoundariesAreServed'
  BY <1>0, <1>4, <2>1, <2>2 DEF CountInv, BoundariesAreServed, AnswerIsTrue, account
 <2>6. NewestIsShown'
  BY <1>0, <1>3, <2>1, <2>2 DEF CountInv, NewestIsShown, account
 <2> QED BY <1>1, <2>3, <2>4, <2>5, <2>6 DEF CountInv
<1>8. CASE e.type = "gap" /\ CountInvalidated
 <2>1. /\ cached' = {} /\ counted' = {} /\ refresh' = [refresh EXCEPT !.dirty = TRUE]
       /\ UNCHANGED <<mark, chat, changed, removed, covered>>
  BY <1>8 DEF CountInvalidated
 <2>2. refresh'.answer = refresh.answer /\ refresh'.inFlight = refresh.inFlight
       /\ refresh' \in [inFlight : BOOLEAN, dirty : BOOLEAN, answer : SnapshotType]
  BY <1>0, <2>1 DEF CountType
 <2>3. CountType'
  BY <1>0, <1>2, <2>1, <2>2 DEF CountType, account
 <2>4. RowsHaveArrived'
  BY <1>0, <1>3, <2>1 DEF CountInv, RowsHaveArrived, account
 <2>5. BoundariesAreServed'
  BY <1>0, <1>4, <2>1, <2>2 DEF CountInv, BoundariesAreServed, AnswerIsTrue, account
 <2>6. NewestIsShown'
  BY <2>1 DEF NewestIsShown
 <2> QED BY <1>1, <2>3, <2>4, <2>5, <2>6 DEF CountInv
<1>9. CASE e.type = "none" /\ UNCHANGED <<mark, refresh, cache>>
 <2>1. CountType'
  BY <1>0, <1>2, <1>9 DEF CountType, account, cache
 <2>2. RowsHaveArrived'
  BY <1>0, <1>3, <1>9 DEF CountInv, RowsHaveArrived, account, cache
 <2>3. BoundariesAreServed'
  BY <1>0, <1>4, <1>9 DEF CountInv, BoundariesAreServed, AnswerIsTrue, account, cache
 <2>4. NewestIsShown'
  BY <1>0, <1>3, <1>9 DEF CountInv, NewestIsShown, account, cache
 <2> QED BY <1>1, <2>1, <2>2, <2>3, <2>4 DEF CountInv
<1> QED BY <1>0, <1>5, <1>6, <1>7, <1>8, <1>9

(* The program ends and starts again at the cursor. *)
LEMMA RestartKeeps ==
  ASSUME CountInv, CountRestart
  PROVE  CountInv'
<1>0. /\ UNCHANGED <<top, gone, seen, cursor, chat, cached, removed, counted, covered, reads>>
      /\ restarts < MaxRestarts /\ restarts' = restarts + 1
      /\ pos' = cursor /\ mark' = chat.last /\ log' = Difference
      /\ refresh' = [inFlight |-> FALSE, dirty |-> TRUE, answer |-> NoSnapshot]
      /\ receipt' = NoReceipt /\ changed' = FALSE
      /\ CountType
 BY DEF CountInv, CountRestart
<1>f. /\ chat.last \in 0 .. MaxId /\ cursor \in 0 .. pos /\ pos \in 0 .. Len(log)
      /\ Len(log) \in Nat /\ MaxId \in Nat
 BY <1>0, CountFacts
<1>1. /\ log' \in Seq(Update) /\ Len(log') = Len(log)
      /\ \A i \in 1 .. Len(log) :
           /\ log'[i] \in {log[i], LeftOut}
           /\ i > cursor /\ log[i].type = "new" /\ log[i].id \in gone => log'[i] = LeftOut
 BY <1>0, LogIsAnswered
<1>2. \A i \in 1 .. Len(log) : log'[i].type # "none" => log'[i] = log[i]
 BY <1>1 DEF LeftOut
<1>3. receipt'.answer = NoSnapshot /\ receipt'.state = "none" /\ refresh'.answer = NoSnapshot
 BY <1>0 DEF NoReceipt
<1>4. CountType'
 <2>1. restarts' \in 0 .. MaxRestarts
  BY SMTT(20), <1>0, UnreadAssumption DEF CountType
 <2>2. pos' \in 0 .. Len(log') /\ cursor' \in 0 .. pos'
  BY <1>0, <1>1, <1>f
 <2>3. receipt' \in [state : {"none", "sent", "read", "answered"}, max : 0 .. MaxId,
                     answer : SnapshotType]
  BY <1>0, <1>f, NoSnapshotType DEF NoReceipt
 <2>4. refresh' \in [inFlight : BOOLEAN, dirty : BOOLEAN, answer : SnapshotType]
  BY <1>0, NoSnapshotType
 <2>5. changed' \in BOOLEAN
  BY <1>0
 <2>6. {top', seen', mark'} \subseteq 0 .. MaxId
  BY <1>0, <1>f DEF CountType
 <2> QED BY <1>0, <1>1, <2>1, <2>2, <2>3, <2>4, <2>5, <2>6 DEF CountType
<1>5. LogIsTrue'
 BY <1>0, <1>1, <1>2 DEF CountInv, LogIsTrue
<1>6. LogInOrder'
 <2> SUFFICES ASSUME NEW i \in 1 .. Len(log'), NEW j \in 1 .. Len(log'), i < j,
                     log'[j].type = "new"
              PROVE  /\ log'[i].type = "new" => log'[i].id < log'[j].id
                     /\ log'[i].type = "deleted" => log'[i].id # log'[j].id
  BY DEF LogInOrder
 <2>1. log'[j] = log[j] /\ (log'[i].type \in {"new", "deleted"} => log'[i] = log[i])
  BY <1>1, <1>2
 <2> QED BY <1>1, <2>1 DEF CountInv, LogInOrder
<1>7. RowsHaveArrived'
 <2>1. ASSUME NEW i \in Coming'
       PROVE  log'[i].id \notin removed'
  <3>1. i \in 1 .. Len(log) /\ i > cursor /\ log'[i].type = "new"
   BY <1>0, <1>1, <1>f DEF Coming
  <3>2. log'[i] = log[i] /\ log[i].id \notin gone
   BY <1>1, <1>2, <3>1 DEF LeftOut
  <3> QED BY <1>0, <3>2 DEF CountInv, RowsHaveArrived
 <2> QED BY <1>0, <2>1 DEF CountInv, RowsHaveArrived
<1>8. BoundariesAreServed' /\ NewestIsShown'
 BY <1>0, <1>3 DEF CountInv, BoundariesAreServed, NewestIsShown, AnswerIsTrue
<1> QED BY <1>4, <1>5, <1>6, <1>7, <1>8 DEF CountInv

LEMMA CountSteps == CountInv /\ [CountNext]_countVars => CountInv'
<1> SUFFICES ASSUME CountInv, [CountNext]_countVars PROVE CountInv'
 OBVIOUS
<1>1. CASE UNCHANGED countVars
 <2>1. /\ UNCHANGED <<log, top, gone, seen, pos, cursor, mark, refresh, receipt>>
       /\ UNCHANGED <<chat, changed, cached, removed, counted, covered, reads, restarts>>
  BY <1>1 DEF countVars, account, worker, cache
 <2>2. CountType'
  BY <2>1 DEF CountInv, CountType
 <2>3. LogIsTrue' /\ LogInOrder'
  BY <2>1 DEF CountInv, LogIsTrue, LogInOrder
 <2>4. Coming' = Coming
  BY <2>1 DEF Coming
 <2>5. RowsHaveArrived' /\ NewestIsShown'
  BY <2>1, <2>4 DEF CountInv, RowsHaveArrived, NewestIsShown
 <2>6. BoundariesAreServed'
  BY <2>1 DEF CountInv, BoundariesAreServed, AnswerIsTrue
 <2> QED BY <2>2, <2>3, <2>5, <2>6 DEF CountInv
<1>2. CASE ServerSends \/ \E m \in MessageId : ServerRemoves(m) \/ ReadElsewhere(m)
 BY <1>2, ServerKeeps
<1>3. CASE ServerSkips
 BY <1>3, SkipKeeps
<1>4. CASE Deliver
 BY <1>4, DeliveryKeeps
<1>5. CASE AskRefresh \/ StartRefresh \/ AnswerRefresh \/ DialogsArrive \/ RefreshFails
 BY <1>5, RefreshKeeps
<1>6. CASE \/ Checkpoint \/ ServerReads \/ CountAnswers \/ ReadMarked \/ ReadFails
           \/ \E m \in MessageId : MarkRead(m)
 BY <1>6, ReceiptKeeps
<1>7. CASE CountRestart
 BY <1>7, RestartKeeps
<1> QED BY <1>1, <1>2, <1>3, <1>4, <1>5, <1>6, <1>7 DEF CountNext

(* The rows of the store, the answers under way and the update stream fit together at
   every moment (see CountInv). *)
THEOREM CountIsInvariant == CountSpec => []CountInv
<1>1. CountInit => CountInv
 BY CountBegins
<1>2. CountInv /\ [CountNext]_countVars => CountInv'
 BY CountSteps
<1> QED BY <1>1, <1>2, PTL DEF CountSpec

-------------------------------------------------------------------------------
(* What follows of a step. *)

LEMMA BoundaryStep ==
  ASSUME CountInv, [CountNext]_countVars
  PROVE  chat'.seen >= chat.seen
<1>0. chat.seen \in 0 .. MaxId /\ MaxId \in Nat /\ CountType
 BY CountFacts DEF CountInv
<1>1. CASE chat' = chat
 BY <1>0, <1>1
<1>2. CASE Deliver
 <2> DEFINE e == log[pos + 1]
 <2>1. \/ Received(e.id) \/ Removed(e.id) \/ ReadTo(e)
       \/ CountInvalidated \/ UNCHANGED cache
  BY <1>2 DEF Deliver
 <2> HIDE DEF e
 <2>2. CASE Received(e.id)
  <3>1. chat'.seen = chat.seen
   BY <1>0, <2>2 DEF Received, CountType
  <3> QED BY <1>0, <3>1
 <2>3. CASE Removed(e.id)
  <3>1. chat'.seen = chat.seen
   BY <1>0, <2>3 DEF Removed, CountType
  <3> QED BY <1>0, <3>1
 <2>4. CASE ReadTo(e)
  <3>1. e \in Update /\ e.id \in 0 .. MaxId
   <4>1. pos + 1 \in 1 .. Len(log) /\ \A i \in 1 .. Len(log) : log[i] \in Update
    BY <1>0, <1>2, CountFacts DEF Deliver
   <4>2. e \in Update
    BY <4>1 DEF e
   <4> QED BY <4>2 DEF Update
  <3>2. chat' = IF e.id < chat.seen THEN chat
                ELSE [chat EXCEPT !.seen = e.id, !.unread = e.unread]
   BY <2>4 DEF ReadTo, InboxUpdate
  <3>3. CASE e.id < chat.seen
   BY <1>0, <3>2, <3>3
  <3>4. CASE ~(e.id < chat.seen)
   <4>1. chat'.seen = e.id
    BY <1>0, <3>2, <3>4 DEF CountType
   <4> QED BY <1>0, <3>1, <3>4, <4>1
  <3> QED BY <3>3, <3>4
 <2>5. CASE CountInvalidated \/ UNCHANGED cache
  BY <1>1, <2>5 DEF CountInvalidated, cache
 <2> QED BY <2>1, <2>2, <2>3, <2>4, <2>5
<1>3. CASE DialogsArrive
 <2> DEFINE s == refresh.answer
 <2>1. chat' = chat \/ chat' = Replaced(s)
  BY <1>3 DEF DialogsArrive, cache
 <2>2. s \in SnapshotType /\ s.max \in 0 .. MaxId /\ s # NoSnapshot
  BY <1>0, <1>3, CountFacts, AnswerFacts DEF DialogsArrive
 <2>3. CASE chat' = Replaced(s) /\ changed
  <3>1. chat'.seen = Larger(s.max, chat.seen)
   BY <1>0, <2>3 DEF Replaced, CountType
  <3> QED BY <1>0, <2>2, <3>1 DEF Larger
 <2>4. CASE chat' = Replaced(s) /\ ~changed
  <3>1. chat'.seen = s.max
   BY <2>4 DEF Replaced
  <3>2. chat.seen <= s.max
   BY <2>2, <2>4 DEF CountInv, BoundariesAreServed
  <3> QED BY <1>0, <2>2, <3>1, <3>2
 <2> QED BY <1>1, <2>1, <2>3, <2>4
<1>4. CASE ReadMarked
 <2> DEFINE s == receipt.answer
            c2 == [chat EXCEPT !.seen = Larger(chat.seen, receipt.max)]
 <2>1. \/ chat' = c2 \/ chat' = [c2 EXCEPT !.unread = 0]
       \/ /\ s.max >= Larger(chat.seen, receipt.max)
          /\ chat' = [c2 EXCEPT !.seen = s.max, !.unread = s.unread]
  BY <1>4 DEF ReadMarked, Acknowledge, Fresh, InboxUpdate
 <2>2. s.max \in 0 .. MaxId /\ receipt.max \in 0 .. MaxId
  BY <1>0, CountFacts, AnswerFacts
 <2>3. Larger(chat.seen, receipt.max) \in 0 .. MaxId /\ chat.seen <= Larger(chat.seen, receipt.max)
  BY <1>0, <2>2 DEF Larger
 <2>4. c2.seen = Larger(chat.seen, receipt.max)
       /\ c2 \in [last : 0 .. MaxId, date : 0 .. MaxId, unread : Nat, seen : 0 .. MaxId]
  BY <1>0, <2>3 DEF CountType
 <2> HIDE DEF c2, s
 <2>5. \/ chat'.seen = Larger(chat.seen, receipt.max)
       \/ chat'.seen = s.max /\ s.max >= Larger(chat.seen, receipt.max)
  BY <2>1, <2>4
 <2> QED BY <1>0, <2>2, <2>3, <2>5
<1>5. \/ chat' = chat \/ Deliver \/ DialogsArrive \/ ReadMarked
 BY DEF CountNext, countVars, cache, ServerSends, ServerSkips, ServerRemoves, ReadElsewhere,
        MarkRead, Checkpoint, AskRefresh, StartRefresh, AnswerRefresh, RefreshFails,
        ServerReads, CountAnswers, ReadFails, CountRestart
<1> QED BY <1>1, <1>2, <1>3, <1>4, <1>5

LEMMA CountedOnceStep ==
  ASSUME CountInv, NEW m \in MessageId, Delivered(m), Raises(m)
  PROVE  m \notin counted
<1>1. pos < Len(log) /\ log[pos + 1] = New(m) /\ m \notin cached
 BY DEF Delivered, Raises
<1>2. pos + 1 \in pos + 1 .. Len(log)
 BY <1>1, CountFacts DEF CountInv
<1>3. pos + 1 \in Coming /\ log[pos + 1].id = m
 BY <1>1, <1>2 DEF Coming, New
<1> QED BY <1>1, <1>3 DEF CountInv, RowsHaveArrived

LEMMA ArrivalsKeptStep ==
  ASSUME CountInv, [CountNext]_countVars, NEW t, t = receipt.answer.top,
         Fills(receipt), receipt'.state = "none", chat.last # 0,
         chat'.unread < chat.unread
  PROVE  chat'.unread >= Cardinality(Beyond(t)')
<1> DEFINE s == receipt.answer
<1>0. /\ chat.last \in 0 .. MaxId /\ chat.seen \in 0 .. MaxId /\ receipt.max \in 0 .. MaxId
      /\ s \in SnapshotType /\ s.top \in 0 .. MaxId /\ s.max \in 0 .. MaxId
      /\ s.unread \in 0 .. MaxId /\ s.at \in -1 .. MaxId /\ MaxId \in Nat
      /\ chat.unread \in Nat /\ CountType /\ top \in 0 .. MaxId
 BY CountFacts, AnswerFacts DEF CountInv
<1>1. receipt.state = "answered" /\ s # NoSnapshot
 BY DEF Fills
<1>2. chat' # chat
 BY <1>0
<1>3. ReadMarked
 <2>1. \/ chat' = chat \/ receipt' = receipt \/ ReadMarked
  BY DEF CountNext, countVars, cache, worker, ServerSends, ServerSkips, ServerRemoves,
         ReadElsewhere, MarkRead, Checkpoint, AskRefresh, StartRefresh, AnswerRefresh,
         RefreshFails, ServerReads, CountAnswers, ReadFails, CountRestart, Deliver,
         DialogsArrive
 <2> QED BY <1>1, <1>2, <2>1
<1>4. /\ UNCHANGED <<log, top, gone, seen, cached>>
      /\ chat' = Acknowledge(chat, receipt.max, s)
 BY <1>3 DEF ReadMarked, account
<1> DEFINE c2 == [chat EXCEPT !.seen = Larger(chat.seen, receipt.max)]
<1>5. \/ chat.last <= s.top /\ chat' = [c2 EXCEPT !.seen = s.max, !.unread = s.unread]
      \/ chat.last <= receipt.max /\ chat' = [c2 EXCEPT !.unread = 0]
      \/ chat' = c2
 BY <1>4 DEF Acknowledge, Fresh, InboxUpdate
<1>6. /\ Larger(chat.seen, receipt.max) \in 0 .. MaxId
      /\ receipt.max <= Larger(chat.seen, receipt.max)
 BY <1>0 DEF Larger
<1>7. /\ c2 \in [last : 0 .. MaxId, date : 0 .. MaxId, unread : Nat, seen : 0 .. MaxId]
      /\ c2.unread = chat.unread /\ c2.seen = Larger(chat.seen, receipt.max)
 BY <1>0, <1>6 DEF CountType
<1> HIDE DEF c2
<1>8. /\ chat'.unread \in Nat
      /\ chat.last <= s.top \/ (chat.last <= receipt.max /\ receipt.max <= chat'.seen)
 <2>1. CASE chat.last <= s.top /\ chat' = [c2 EXCEPT !.seen = s.max, !.unread = s.unread]
  BY <1>0, <1>7, <2>1
 <2>2. CASE chat.last <= receipt.max /\ chat' = [c2 EXCEPT !.unread = 0]
  BY <1>0, <1>6, <1>7, <2>2
 <2>3. CASE chat' = c2
  BY <1>0, <1>7, <2>3
 <2> QED BY <1>5, <2>1, <2>2, <2>3
<1>9. Beyond(t)' = {}
 <2> SUFFICES ASSUME NEW m \in cached' \ gone', m > t, m > chat'.seen PROVE FALSE
  BY DEF Beyond
 <2>1. m \in cached \ gone /\ m \in 1 .. top
  BY <1>4 DEF CountInv, RowsHaveArrived
 <2>2. m > s.at
  <3> SUFFICES ASSUME ~(m > s.at) PROVE FALSE
   OBVIOUS
  <3>1. m \in (1 .. s.at) \ gone
   BY <1>0, <2>1
  <3>2. m <= s.top
   BY <1>1, <3>1 DEF CountInv, BoundariesAreServed, AnswerIsTrue
  <3> QED BY <1>0, <2>1, <3>2
 <2>3. m <= chat.last
  BY <1>1, <2>1, <2>2 DEF CountInv, NewestIsShown
 <2>4. chat'.seen \in 0 .. MaxId
  <3>1. CountType'
   BY CountSteps DEF CountInv
  <3> QED BY <3>1, <1>0 DEF CountType
 <2> QED BY <1>0, <1>8, <2>1, <2>3, <2>4
<1> QED BY <1>8, <1>9, FS_EmptySet

(* CountIsSound, for any number of messages, deletions, reads, gaps and restarts: the
   read boundary of a chat never moves back (read_state.rs: "Incoming read boundaries
   are monotonic"), a replayed message is not counted twice while the cache keeps its
   row, and the answer to a receipt never erases an arrival it does not know of. *)
THEOREM UnreadCountIsSound == CountSpec => CountIsSound
<1>1. CountInv /\ [CountNext]_countVars => [chat'.seen >= chat.seen]_countVars
 BY BoundaryStep
<1>2. CountInv /\ [CountNext]_countVars =>
        [\A m \in MessageId : Delivered(m) /\ Raises(m) => m \notin counted]_countVars
 BY CountedOnceStep
<1>3. CountInv /\ [CountNext]_countVars =>
        [\A t \in {receipt.answer.top} :
           Fills(receipt) /\ receipt'.state = "none" /\ chat.last # 0
             /\ chat'.unread < chat.unread
           => chat'.unread >= Cardinality(Beyond(t)')]_countVars
 <2> SUFFICES ASSUME CountInv, [CountNext]_countVars,
                     NEW t \in {receipt.answer.top},
                     Fills(receipt), receipt'.state = "none", chat.last # 0,
                     chat'.unread < chat.unread
              PROVE  chat'.unread >= Cardinality(Beyond(t)')
  OBVIOUS
 <2>1. t = receipt.answer.top
  OBVIOUS
 <2> QED BY <2>1, ArrivalsKeptStep
<1> QED BY <1>1, <1>2, <1>3, CountIsInvariant, PTL
       DEF CountSpec, CountIsSound, BoundaryMonotonic, CountedOnce, ArrivalsKept

-------------------------------------------------------------------------------
(* The poll or the reactions of a message, and the journal of their changes. What an      *)
(* answer is lifted over is in the journal, unless the answer is marked stale; the last   *)
(* entries of the journal are current themselves.                                        *)

Contents == [shared : Nat, own : Nat, known : BOOLEAN, stale : BOOLEAN, there : BOOLEAN]
Updates == [shared : Nat, own : Nat, known : BOOLEAN, stale : BOOLEAN, whole : BOOLEAN]
Entries == [revision : Nat, update : Updates]

InOrder(es) ==
    \A i, j \in 1..Len(es) : i < j => es[i].revision < es[j].revision

(* The journal is in order and within its bound, and what was dropped is older. *)
Kept(es, over, rev) ==
    /\ es \in Seq(Entries) /\ InOrder(es) /\ Len(es) <= JournalLimit
    /\ over \in Nat /\ over <= rev
    /\ \A i \in 1..Len(es) : over < es[i].revision /\ es[i].revision <= rev

Starts(starts, rev) ==
    /\ DOMAIN starts \subseteq Request
    /\ \A r \in DOMAIN starts : starts[r] \in Nat /\ starts[r] <= rev

JournalShape ==
    /\ kind \in {"poll", "reactions"}
    /\ changes \in Seq(Change) /\ passed \in 0..Len(changes)
    /\ request \in [Request -> [at : {"idle", "asked", "answered"}, answer : Contents]]
    /\ revision \in Nat
    /\ Starts(started, revision)
    /\ Kept(journal, overflow, revision)
    /\ row \in [content : Contents, revision : Nat] /\ row.revision <= revision
    /\ passedOn \in Contents

(* What was told is past, and the choice told is one of the account's. *)
HeardIsPast ==
    /\ heard \in [shared : Nat, own : Nat]
    /\ heard.shared <= passed /\ heard.own <= passed
    /\ heard.own = 0 \/ changes[heard.own].own

(* The last entry, and the last that tells the choice, are current or stale. *)
EndsCurrent(es, shared) ==
    es # <<>> => es[Len(es)].update.stale \/ es[Len(es)].update.shared >= shared

ChoiceEnds(es, own) ==
    \A k \in 1..Len(es) :
        (/\ es[k].update.known /\ ~es[k].update.stale
         /\ \A j \in k + 1..Len(es) : ~es[j].update.known /\ ~es[j].update.stale)
            => es[k].update.own >= own

(* An answer on its way is no older than what was told before its request, and what was
   told since is in the journal. *)
AnswerFits(r) ==
    (request[r].at = "answered" /\ r \in DOMAIN started /\ started[r] >= overflow) =>
        /\ request[r].answer.there /\ ~request[r].answer.stale
        /\ (\A i \in 1..Len(journal) : journal[i].revision <= started[r])
              => request[r].answer.shared >= heard.shared
        /\ (/\ request[r].answer.known
            /\ \A i \in 1..Len(journal) :
                  journal[i].revision > started[r] => ~journal[i].update.known)
              => request[r].answer.own >= heard.own

JournalInv ==
    /\ JournalShape /\ HeardIsPast
    /\ EndsCurrent(journal, heard.shared)
    /\ kind = "reactions" => ChoiceEnds(journal, heard.own)
    /\ \A r \in Request : AnswerFits(r)
    /\ CountsAreCurrent /\ (kind = "reactions" => ChoiceIsCurrent)

-------------------------------------------------------------------------------
(* What the operators of the journal do. *)

LEMMA OwnFacts ==
  ASSUME changes \in Seq(Change), NEW n \in 0..Len(changes)
  PROVE  /\ OwnAt(n) \in Nat /\ OwnAt(n) <= n
         /\ \A j \in 1..n : changes[j].own => j <= OwnAt(n)
         /\ OwnAt(n) = 0 \/ changes[OwnAt(n)].own
<1> DEFINE own == {i \in 1..n : changes[i].own}
<1>1. CASE own = {}
 <2>1. OwnAt(n) = 0
  BY <1>1 DEF OwnAt
 <2> QED BY <1>1, <2>1
<1>2. CASE own # {}
 <2>1. OwnAt(n) = CHOOSE i \in own : \A j \in own : j <= i
  BY <1>2 DEF OwnAt
 <2>2. n \in Nat /\ own \in SUBSET (0..n)
  OBVIOUS
 <2>3. \E i \in own : \A j \in own : j <= i
  <3> HIDE DEF own
  <3> QED BY <1>2, <2>2, LastOf
 <2>4. OwnAt(n) \in own /\ \A j \in own : j <= OwnAt(n)
  <3> HIDE DEF own
  <3> QED BY <2>1, <2>3
 <2> QED BY <2>4
<1> QED BY <1>1, <1>2

LEMMA AppliedFacts ==
  ASSUME NEW c \in Contents, NEW u \in Updates
  PROVE  /\ Applied(c, u) \in Contents
         /\ Applied(c, u).shared = u.shared /\ Applied(c, u).there = c.there
         /\ Applied(c, u).own = IF u.known THEN u.own ELSE c.own
         /\ Applied(c, u).known <=> c.known \/ u.known
         /\ u.stale => Applied(c, u).stale
         /\ kind # "poll" => (Applied(c, u).stale <=> u.stale \/ (~u.known /\ c.stale))
  BY DEF Applied, Contents, Updates

LEMMA MergedContents ==
  ASSUME row \in [content : Contents, revision : Nat], NEW c \in Contents
  PROVE  MergeCached(c) \in Contents
<1>1. AsUpdate(c) \in Updates /\ row.content \in Contents
 BY DEF AsUpdate, Contents, Updates
<1> QED BY <1>1, AppliedFacts DEF MergeCached

LEMMA MergeFacts ==
  ASSUME row \in [content : Contents, revision : Nat], NEW c \in Contents, ~c.stale
  PROVE  /\ MergeCached(c) \in Contents
         /\ MergeCached(c).shared = c.shared
         /\ c.there => MergeCached(c).there
         /\ c.known /\ kind # "poll" => MergeCached(c) = c
         /\ (~c.known /\ kind # "poll" /\ MergeCached(c).known /\ ~MergeCached(c).stale) =>
               /\ row.content.there /\ row.content.known /\ ~row.content.stale
               /\ MergeCached(c).own = row.content.own
<1>1. AsUpdate(c) \in Updates /\ AsUpdate(c).shared = c.shared /\ AsUpdate(c).own = c.own
      /\ AsUpdate(c).known = c.known /\ AsUpdate(c).stale = c.stale
 BY DEF AsUpdate, Contents, Updates
<1>2. row.content \in Contents
 OBVIOUS
<1>3. CASE row.content.there /\ (kind = "poll" \/ ~c.known)
 <2>1. MergeCached(c) = Applied(row.content, AsUpdate(c))
  BY <1>3 DEF MergeCached
 <2> QED BY <1>1, <1>2, <1>3, <2>1, AppliedFacts
<1>4. CASE ~(row.content.there /\ (kind = "poll" \/ ~c.known))
 <2>1. MergeCached(c) = c
  BY <1>4 DEF MergeCached
 <2> QED BY <2>1
<1> QED BY <1>3, <1>4

LEMMA UpToFacts ==
  ASSUME NEW es \in Seq(Entries), InOrder(es), NEW rev \in Nat
  PROVE  /\ UpTo(es, rev) \in 0..Len(es)
         /\ \A i \in 1..Len(es) : es[i].revision > rev <=> i > UpTo(es, rev)
<1> DEFINE old == {i \in 1..Len(es) : ~(es[i].revision > rev)}
           Splits(n) == \A i \in 1..Len(es) : es[i].revision > rev <=> i > n
<1>0. \A i \in 1..Len(es) : es[i].revision \in Nat
 <2>1. \A i \in 1..Len(es) : es[i] \in Entries
  OBVIOUS
 <2> QED BY <2>1 DEF Entries
<1>1. \E n \in 0..Len(es) : Splits(n)
 <2>1. CASE old = {}
  <3>1. Splits(0) /\ 0 \in 0..Len(es)
   BY <2>1
  <3> QED BY <3>1
 <2>2. CASE old # {}
  <3>1. Len(es) \in Nat /\ old \in SUBSET (0..Len(es))
   OBVIOUS
  <3>2. PICK n \in old : \A j \in old : j <= n
   <4> HIDE DEF old
   <4> QED BY <2>2, <3>1, LastOf
  <3>3. ASSUME NEW i \in 1..Len(es) PROVE es[i].revision > rev <=> i > n
   <4>1. CASE i > n
    BY <3>2, <4>1
   <4>2. CASE i = n
    BY <4>2
   <4>3. CASE i < n
    <5>1. es[i].revision < es[n].revision
     BY <4>3 DEF InOrder
    <5> QED BY <1>0, <4>3, <5>1
   <4> QED BY <4>1, <4>2, <4>3
  <3>4. Splits(n) /\ n \in 0..Len(es)
   BY <3>3
  <3> QED BY <3>4
 <2> QED BY <2>1, <2>2
<1>2. UpTo(es, rev) = CHOOSE n \in 0..Len(es) : Splits(n)
 BY DEF UpTo
<1>3. UpTo(es, rev) \in 0..Len(es) /\ Splits(UpTo(es, rev))
 <2> HIDE DEF Splits
 <2> QED BY <1>1, <1>2
<1> QED BY <1>3

(* What is left of a journal that loses its first entries. *)
LEMMA EndOf ==
  ASSUME NEW es \in Seq(Entries), NEW n \in 0..Len(es), NEW fs, fs = SubSeq(es, n + 1, Len(es))
  PROVE  /\ fs \in Seq(Entries) /\ Len(fs) = Len(es) - n
         /\ \A i \in 1..Len(fs) : n + i \in 1..Len(es) /\ fs[i] = es[n + i]
         /\ \A i \in 1..Len(es) : i > n => i - n \in 1..Len(fs) /\ fs[i - n] = es[i]
<1>1. Len(es) \in Nat /\ \A i \in 1..Len(es) : es[i] \in Entries
 OBVIOUS
<1>2. Len(fs) = Len(es) - n /\ \A i \in 1..Len(fs) : fs[i] = es[n + i]
 BY <1>1
<1>3. fs \in Seq(Entries)
 BY <1>1
<1> QED BY <1>1, <1>2, <1>3

LEMMA EndStays ==
  ASSUME NEW es \in Seq(Entries), NEW n \in 0..Len(es), NEW fs, fs = SubSeq(es, n + 1, Len(es)),
         NEW shared, NEW own
  PROVE  /\ InOrder(es) => InOrder(fs)
         /\ EndsCurrent(es, shared) => EndsCurrent(fs, shared)
         /\ ChoiceEnds(es, own) => ChoiceEnds(fs, own)
<1>1. /\ Len(fs) = Len(es) - n /\ Len(es) \in Nat /\ n \in Nat
      /\ \A i \in 1..Len(fs) : n + i \in 1..Len(es) /\ fs[i] = es[n + i]
      /\ \A i \in 1..Len(es) : i > n => i - n \in 1..Len(fs) /\ fs[i - n] = es[i]
 BY EndOf
<1>2. InOrder(es) => InOrder(fs)
 BY <1>1 DEF InOrder
<1>3. EndsCurrent(es, shared) => EndsCurrent(fs, shared)
 <2> SUFFICES ASSUME EndsCurrent(es, shared), fs # <<>>
              PROVE  fs[Len(fs)].update.stale \/ fs[Len(fs)].update.shared >= shared
  BY DEF EndsCurrent
 <2>1. Len(fs) # 0
  BY EndOf
 <2>2. Len(fs) \in 1..Len(fs) /\ n + Len(fs) = Len(es)
  BY <1>1, <2>1
 <2>3. fs[Len(fs)] = es[n + Len(fs)] /\ Len(es) \in 1..Len(es)
  BY <1>1, <2>2
 <2>4. es # <<>>
  <3>1. es = <<>> => Len(es) = 0
   OBVIOUS
  <3> QED BY <2>3, <3>1
 <2> QED BY <2>2, <2>3, <2>4 DEF EndsCurrent
<1>4. ChoiceEnds(es, own) => ChoiceEnds(fs, own)
 <2> SUFFICES ASSUME ChoiceEnds(es, own), NEW k \in 1..Len(fs),
                     fs[k].update.known, ~fs[k].update.stale,
                     \A j \in k + 1..Len(fs) : ~fs[j].update.known /\ ~fs[j].update.stale
              PROVE  fs[k].update.own >= own
  BY DEF ChoiceEnds
 <2>1. n + k \in 1..Len(es) /\ fs[k] = es[n + k]
  BY <1>1
 <2>2. ASSUME NEW j \in n + k + 1..Len(es) PROVE ~es[j].update.known /\ ~es[j].update.stale
  <3>1. j \in 1..Len(es) /\ j > n /\ j - n \in k + 1..Len(fs)
   BY <1>1
  <3>2. fs[j - n] = es[j]
   BY <1>1, <3>1
  <3> QED BY <3>1, <3>2
 <2> QED BY <2>1, <2>2 DEF ChoiceEnds
<1> QED BY <1>2, <1>3, <1>4

(* The changes one after the other: `f` is the content after each of them. *)
Replay(c, es, m, f) ==
    f = [n \in 0..m |-> IF n = 0 THEN c ELSE Applied(f[n - 1], es[n].update)]

LEMMA ReplayGoesOn ==
  ASSUME NEW c, NEW es, NEW m \in Nat, NEW g, Replay(c, es, m, g)
  PROVE  \E f : Replay(c, es, m + 1, f)
<1> DEFINE f == [n \in 0..m + 1 |-> IF n = m + 1 THEN Applied(g[m], es[m + 1].update) ELSE g[n]]
<1>1. /\ g[0] = c
      /\ \A n \in 0..m : n # 0 => g[n] = Applied(g[n - 1], es[n].update)
 BY DEF Replay
<1>2. \A n \in 0..m + 1 : f[n] = IF n = 0 THEN c ELSE Applied(f[n - 1], es[n].update)
 <2> TAKE n \in 0..m + 1
 <2>1. CASE n = 0
  BY <1>1, <2>1
 <2>2. CASE n = m + 1
  <3>1. f[n] = Applied(g[m], es[m + 1].update) /\ f[n - 1] = g[m]
   BY <2>2
  <3> QED BY <2>2, <3>1
 <2>3. CASE n # 0 /\ n # m + 1
  <3>1. n \in 0..m /\ n - 1 \in 0..m + 1 /\ n - 1 # m + 1
   BY <2>3
  <3>2. f[n] = g[n] /\ f[n - 1] = g[n - 1]
   BY <2>3, <3>1
  <3> QED BY <1>1, <2>3, <3>1, <3>2
 <2> QED BY <2>1, <2>2, <2>3
<1>3. f = [n \in 0..m + 1 |-> f[n]]
 OBVIOUS
<1>4. f = [n \in 0..m + 1 |-> IF n = 0 THEN c ELSE Applied(f[n - 1], es[n].update)]
 <2> HIDE DEF f
 <2> QED BY <1>2, <1>3
<1>5. Replay(c, es, m + 1, f)
 <2> HIDE DEF f
 <2> QED BY <1>4 DEF Replay
<1> QED BY <1>5

LEMMA ReplayIs ==
  ASSUME NEW c \in Contents, NEW es \in Seq(Entries)
  PROVE  \E f : /\ f[0] = c /\ Replayed(c, es) = f[Len(es)]
                /\ \A n \in 1..Len(es) : f[n] = Applied(f[n - 1], es[n].update)
                /\ \A n \in 0..Len(es) : f[n] \in Contents
<1> DEFINE last == Len(es)
           begun == {m \in 0..last : \E f : Replay(c, es, m, f)}
           Typed(f) == {m \in 0..last : f[m] \in Contents}
<1>0. last \in Nat /\ \A n \in 1..last : es[n].update \in Updates
 <2>1. \A n \in 1..last : es[n] \in Entries
  OBVIOUS
 <2> QED BY <2>1 DEF Entries
<1>1. \E f : Replay(c, es, last, f)
 <2>1. 0 \in begun
  <3>1. Replay(c, es, 0, [n \in 0..0 |-> c])
   BY DEF Replay
  <3> QED BY <1>0, <3>1
 <2>2. \A m \in 0..last : m < last /\ m \in begun => m + 1 \in begun
  <3> HIDE DEF last
  <3> QED BY <1>0, ReplayGoesOn
 <2>3. \A m \in 0..last : m \in begun
  <3> HIDE DEF last, begun
  <3> QED BY <1>0, <2>1, <2>2, Climbs
 <2>4. last \in 0..last
  BY <1>0
 <2> QED BY <2>3, <2>4
<1>2. PICK f : Replay(c, es, last, f) /\ Replayed(c, es) = f[last]
 <2>1. Replay(c, es, last, CHOOSE f : Replay(c, es, last, f))
  BY <1>1, Zenon
 <2>2. Replayed(c, es) = (CHOOSE f : Replay(c, es, last, f))[last]
  BY DEF Replayed, Replay
 <2> QED BY <2>1, <2>2
<1>3. /\ f[0] = c
      /\ \A n \in 1..last : f[n] = Applied(f[n - 1], es[n].update)
 <2> HIDE DEF last
 <2> QED BY <1>0, <1>2 DEF Replay
<1>4. \A n \in 0..last : n \in Typed(f)
 <2>1. \A n \in 0..last : n < last /\ f[n] \in Contents => f[n + 1] \in Contents
  <3> SUFFICES ASSUME NEW n \in 0..last, n < last, f[n] \in Contents
               PROVE  f[n + 1] \in Contents
   OBVIOUS
  <3>1. n + 1 \in 1..last /\ (n + 1) - 1 = n
   BY <1>0
  <3>2. f[n + 1] = Applied(f[n], es[n + 1].update)
   BY <1>3, <3>1
  <3> QED BY <1>0, <3>1, <3>2, AppliedFacts
 <2>2. 0 \in Typed(f) /\ \A n \in 0..last : n < last /\ n \in Typed(f) => n + 1 \in Typed(f)
  <3> HIDE DEF last
  <3> QED BY <1>0, <1>3, <2>1
 <2> HIDE DEF last, Typed
 <2> QED BY <1>0, <2>2, Climbs
<1> QED BY <1>2, <1>3, <1>4

LEMMA ReplayedFacts ==
  ASSUME NEW c \in Contents, NEW es \in Seq(Entries)
  PROVE  /\ Replayed(c, es) \in Contents
         /\ es = <<>> => Replayed(c, es) = c
         /\ es # <<>> => /\ Replayed(c, es).shared = es[Len(es)].update.shared
                         /\ es[Len(es)].update.stale => Replayed(c, es).stale
<1>1. PICK f : /\ f[0] = c /\ Replayed(c, es) = f[Len(es)]
               /\ \A n \in 1..Len(es) : f[n] = Applied(f[n - 1], es[n].update)
               /\ \A n \in 0..Len(es) : f[n] \in Contents
 BY ReplayIs
<1>2. Len(es) \in 0..Len(es) /\ (es = <<>> => Len(es) = 0)
 OBVIOUS
<1>3. ASSUME es # <<>>
      PROVE  /\ f[Len(es)].shared = es[Len(es)].update.shared
             /\ es[Len(es)].update.stale => f[Len(es)].stale
 <2>1. Len(es) \in 1..Len(es) /\ Len(es) - 1 \in 0..Len(es) /\ es[Len(es)] \in Entries
  BY <1>3
 <2>2. f[Len(es) - 1] \in Contents /\ es[Len(es)].update \in Updates
  BY <1>1, <2>1 DEF Entries
 <2> QED BY <1>1, <2>1, <2>2, AppliedFacts
<1> QED BY <1>1, <1>2, <1>3

(* The choice is the one of the last entry that tells it, and fresh only if that entry
   and those after it are. *)
LEMMA ReplayedChoice ==
  ASSUME NEW c \in Contents, NEW es \in Seq(Entries), kind # "poll",
         NEW k \in 0..Len(es), k # 0 => es[k].update.known,
         \A j \in k + 1..Len(es) : ~es[j].update.known
  PROVE  /\ Replayed(c, es).own = IF k = 0 THEN c.own ELSE es[k].update.own
         /\ k = 0 => (Replayed(c, es).known <=> c.known)
         /\ ~Replayed(c, es).stale =>
               /\ IF k = 0 THEN ~c.stale ELSE ~es[k].update.stale
               /\ \A j \in k + 1..Len(es) : ~es[j].update.stale
<1>1. PICK f : /\ f[0] = c /\ Replayed(c, es) = f[Len(es)]
               /\ \A n \in 1..Len(es) : f[n] = Applied(f[n - 1], es[n].update)
               /\ \A n \in 0..Len(es) : f[n] \in Contents
 BY ReplayIs
<1> DEFINE last == Len(es)
           Fits(n) == /\ f[n].own = IF k = 0 THEN c.own ELSE es[k].update.own
                      /\ k = 0 => (f[n].known <=> c.known)
                      /\ ~f[n].stale =>
                            /\ IF k = 0 THEN ~c.stale ELSE ~es[k].update.stale
                            /\ \A j \in k + 1..n : ~es[j].update.stale
           S == {n \in 0..last : n >= k => Fits(n)}
<1>2. last \in Nat /\ k \in Nat
 OBVIOUS
<1>3. \A n \in 1..last : es[n].update \in Updates /\ n - 1 \in 0..last
 <2>1. \A n \in 1..last : es[n] \in Entries
  OBVIOUS
 <2> QED BY <2>1 DEF Entries
<1>4. Fits(k)
 <2>1. CASE k = 0
  BY <1>1, <2>1
 <2>2. CASE k # 0
  <3>1. k \in 1..last /\ es[k].update.known
   BY <2>2
  <3>2. f[k] = Applied(f[k - 1], es[k].update) /\ f[k - 1] \in Contents
   BY <1>1, <1>3, <3>1
  <3>3. /\ f[k].own = es[k].update.own
        /\ es[k].update.stale => f[k].stale
   BY <1>3, <3>1, <3>2, AppliedFacts
  <3>4. \A j \in k + 1..k : FALSE
   BY <1>2
  <3> QED BY <2>2, <3>3, <3>4
 <2> QED BY <2>1, <2>2
<1>5. ASSUME NEW n \in 0..last, n < last, n >= k, Fits(n) PROVE Fits(n + 1)
 <2>1. n + 1 \in 1..last /\ (n + 1) - 1 = n /\ n + 1 \in k + 1..last
  BY <1>2, <1>5
 <2>2. f[n + 1] = Applied(f[n], es[n + 1].update) /\ f[n] \in Contents
  BY <1>1, <2>1
 <2>3. ~es[n + 1].update.known
  BY <2>1
 <2>4. /\ f[n + 1].own = f[n].own /\ (f[n + 1].known <=> f[n].known)
       /\ f[n + 1].stale <=> es[n + 1].update.stale \/ f[n].stale
  BY <1>3, <2>1, <2>2, <2>3, AppliedFacts
 <2>5. \A j \in k + 1..n + 1 : j = n + 1 \/ j \in k + 1..n
  BY <1>2
 <2> QED BY <1>5, <2>4, <2>5
<1>6. \A n \in 0..last : n \in S
 <2>1. 0 \in S
  <3>1. 0 >= k => k = 0
   BY <1>2
  <3> HIDE DEF Fits
  <3> QED BY <1>2, <1>4, <3>1
 <2>2. \A n \in 0..last : n < last /\ n \in S => n + 1 \in S
  <3> SUFFICES ASSUME NEW n \in 0..last, n < last, n \in S, n + 1 >= k PROVE Fits(n + 1)
   BY <1>2
  <3>1. n >= k \/ n + 1 = k
   BY <1>2
  <3> HIDE DEF Fits
  <3> QED BY <1>4, <1>5, <3>1
 <2> HIDE DEF S, last
 <2> QED BY <1>2, <2>1, <2>2, Climbs
<1>7. Fits(last)
 <2> HIDE DEF Fits
 <2> QED BY <1>2, <1>6
<1> QED BY <1>1, <1>7

-------------------------------------------------------------------------------
(* An answer that is lifted over the journal is current, or stale. *)

LEMMA AfterFacts ==
  ASSUME NEW es \in Seq(Entries), InOrder(es), NEW rev \in Nat
  PROVE  \E n \in 0..Len(es) :
            /\ After(es, rev) = SubSeq(es, n + 1, Len(es))
            /\ \A i \in 1..Len(es) : es[i].revision > rev <=> i > n
<1>1. PICK n \in 0..Len(es) : /\ n = UpTo(es, rev)
                             /\ \A i \in 1..Len(es) : es[i].revision > rev <=> i > n
 BY UpToFacts
<1>2. After(es, rev) = SubSeq(es, n + 1, Len(es))
 BY <1>1 DEF After
<1> QED BY <1>1, <1>2

LEMMA AnswerIsCurrent ==
  ASSUME JournalInv, NEW r \in Request, request[r].at = "answered", r \in DOMAIN started
  PROVE  /\ Answered(r) \in Contents
         /\ ~Answered(r).stale => Answered(r).shared >= heard.shared
         /\ (kind = "reactions" /\ ~Answered(r).stale /\ Answered(r).known)
               => Answered(r).own >= heard.own
<1> DEFINE answer == request[r].answer
           merged == MergeCached(answer)
           since == After(journal, started[r])
           lifted == Replayed(merged, since)
<1>0. /\ answer \in Contents /\ started[r] \in Nat /\ overflow \in Nat
      /\ journal \in Seq(Entries) /\ InOrder(journal)
      /\ row \in [content : Contents, revision : Nat]
      /\ EndsCurrent(journal, heard.shared)
      /\ kind = "reactions" => ChoiceEnds(journal, heard.own)
      /\ AnswerFits(r) /\ kind \in {"poll", "reactions"}
      /\ heard.shared \in Nat /\ heard.own \in Nat
      /\ kind = "reactions" => OwnChoice(row.content)
 BY DEF JournalInv, JournalShape, Starts, Kept, HeardIsPast, ChoiceIsCurrent
<1>1. Answered(r) = [lifted EXCEPT !.stale = @ \/ started[r] < overflow]
 BY DEF Answered, Reconciled
<1>2. PICK n \in 0..Len(journal) :
          /\ since = SubSeq(journal, n + 1, Len(journal))
          /\ \A i \in 1..Len(journal) : journal[i].revision > started[r] <=> i > n
 BY <1>0, AfterFacts
<1>3. /\ since \in Seq(Entries) /\ Len(since) = Len(journal) - n
      /\ \A i \in 1..Len(since) : n + i \in 1..Len(journal) /\ since[i] = journal[n + i]
      /\ \A i \in 1..Len(journal) : i > n => i - n \in 1..Len(since) /\ since[i - n] = journal[i]
      /\ EndsCurrent(since, heard.shared)
      /\ kind = "reactions" => ChoiceEnds(since, heard.own)
 <2> HIDE DEF since
 <2>1. /\ since \in Seq(Entries) /\ Len(since) = Len(journal) - n
       /\ \A i \in 1..Len(since) : n + i \in 1..Len(journal) /\ since[i] = journal[n + i]
       /\ \A i \in 1..Len(journal) :
             i > n => i - n \in 1..Len(since) /\ since[i - n] = journal[i]
  BY <1>0, <1>2, EndOf
 <2>2. ASSUME NEW number
       PROVE  /\ EndsCurrent(journal, number) => EndsCurrent(since, number)
              /\ ChoiceEnds(journal, number) => ChoiceEnds(since, number)
  <3>1. journal \in Seq(Entries)
   BY <1>0
  <3> QED BY <1>2, <3>1, EndStays
 <2>3. EndsCurrent(since, heard.shared) /\ (kind = "reactions" => ChoiceEnds(since, heard.own))
  BY <1>0, <2>2
 <2> QED BY <2>1, <2>3
<1>9. merged \in Contents
 BY <1>0, MergedContents
<1> HIDE DEF merged, since, answer
<1>4. /\ lifted \in Contents
      /\ since = <<>> => lifted = merged
      /\ since # <<>> => /\ lifted.shared = since[Len(since)].update.shared
                         /\ since[Len(since)].update.stale => lifted.stale
 BY <1>3, <1>9, ReplayedFacts
<1> HIDE DEF lifted
<1>5. /\ Answered(r) \in Contents
      /\ Answered(r).shared = lifted.shared /\ Answered(r).own = lifted.own
      /\ Answered(r).known = lifted.known /\ Answered(r).there = lifted.there
      /\ ~Answered(r).stale => ~lifted.stale /\ started[r] >= overflow
 <2>1. PICK b \in BOOLEAN : b <=> lifted.stale \/ started[r] < overflow
  OBVIOUS
 <2>2. Answered(r) = [lifted EXCEPT !.stale = b]
  <3>1. b = (lifted.stale \/ started[r] < overflow)
   BY <1>4, <2>1 DEF Contents
  <3> QED BY <1>1, <3>1
 <2>3. ~b => ~lifted.stale /\ started[r] >= overflow
  BY <1>0, <2>1
 <2> QED BY <1>4, <2>2, <2>3 DEF Contents
<1>6. started[r] >= overflow =>
          /\ answer.there /\ ~answer.stale
          /\ (\A i \in 1..Len(journal) : journal[i].revision <= started[r])
                => answer.shared >= heard.shared
          /\ (/\ answer.known
              /\ \A i \in 1..Len(journal) :
                    journal[i].revision > started[r] => ~journal[i].update.known)
                => answer.own >= heard.own
 BY <1>0 DEF AnswerFits, answer
<1>7. ASSUME ~lifted.stale, started[r] >= overflow PROVE lifted.shared >= heard.shared
 <2>1. CASE since = <<>>
  <3>1. \A i \in 1..Len(journal) : journal[i].revision <= started[r]
   <4>1. \A i \in 1..Len(journal) : ~(i > n)
    BY <1>3, <2>1
   <4>2. \A i \in 1..Len(journal) : journal[i].revision \in Nat
    <5>1. \A i \in 1..Len(journal) : journal[i] \in Entries
     BY <1>0
    <5> QED BY <5>1 DEF Entries
   <4> QED BY <1>0, <1>2, <4>1, <4>2
  <3>2. answer.shared >= heard.shared /\ ~answer.stale
   BY <1>6, <1>7, <3>1
  <3>3. lifted.shared = answer.shared
   BY <1>0, <1>4, <2>1, <3>2, MergeFacts DEF merged, answer
  <3> QED BY <3>2, <3>3
 <2>2. CASE since # <<>>
  BY <1>3, <1>4, <1>7, <2>2 DEF EndsCurrent
 <2> QED BY <2>1, <2>2
<1>8. ASSUME kind = "reactions", ~lifted.stale, lifted.known, started[r] >= overflow
      PROVE  lifted.own >= heard.own
 <2> DEFINE telling == {i \in 1..Len(since) : since[i].update.known}
 <2>1. CASE telling = {}
  <3>1. \A j \in 0 + 1..Len(since) : ~since[j].update.known
   BY <2>1
  <3>2. /\ lifted.own = merged.own /\ merged.known /\ ~merged.stale
   <4>1. 0 \in 0..Len(since) /\ kind # "poll"
    BY <1>3, <1>8
   <4> QED BY <1>3, <1>8, <1>9, <3>1, <4>1, ReplayedChoice DEF lifted
  <3>3. \A i \in 1..Len(journal) :
            journal[i].revision > started[r] => ~journal[i].update.known
   BY <1>2, <1>3, <2>1
  <3>4. CASE answer.known
   <4>1. merged = answer
    BY <1>0, <1>6, <1>8, <3>4, MergeFacts DEF merged, answer
   <4> QED BY <1>6, <1>8, <3>2, <3>3, <3>4, <4>1
  <3>5. CASE ~answer.known
   <4>1. /\ row.content.there /\ row.content.known /\ ~row.content.stale
         /\ merged.own = row.content.own
    BY <1>0, <1>6, <1>8, <3>2, <3>5, MergeFacts DEF merged, answer
   <4>2. row.content.own >= heard.own
    BY <1>0, <1>8, <4>1 DEF OwnChoice
   <4> QED BY <3>2, <4>1, <4>2
  <3> QED BY <3>4, <3>5
 <2>2. CASE telling # {}
  <3>1. Len(since) \in Nat /\ telling \in SUBSET (0..Len(since))
   BY <1>3
  <3>2. PICK k \in telling : \A j \in telling : j <= k
   <4> HIDE DEF telling
   <4> QED BY <2>2, <3>1, LastOf
  <3>3. k \in 1..Len(since) /\ since[k].update.known
   OBVIOUS
  <3>4. \A j \in k + 1..Len(since) : ~since[j].update.known
   BY <3>1, <3>2, <3>3
  <3>5. /\ lifted.own = since[k].update.own /\ ~since[k].update.stale
        /\ \A j \in k + 1..Len(since) : ~since[j].update.stale
   <4>1. k \in 0..Len(since) /\ k # 0 /\ kind # "poll"
    BY <1>8, <3>3
   <4> QED BY <1>3, <1>8, <1>9, <3>3, <3>4, <4>1, ReplayedChoice DEF lifted
  <3> QED BY <1>3, <1>8, <3>3, <3>4, <3>5 DEF ChoiceEnds
 <2> QED BY <2>1, <2>2
<1> QED BY <1>5, <1>7, <1>8

-------------------------------------------------------------------------------
(* The end of an event. *)

LEMMA OldestFacts ==
  ASSUME NEW rev \in Nat, NEW starts, Starts(starts, rev)
  PROVE  /\ OldestInFlight(starts, rev) \in Nat
         /\ \A r \in DOMAIN starts : OldestInFlight(starts, rev) <= starts[r]
<1> DEFINE all == {starts[r] : r \in DOMAIN starts} \cup {rev}
<1>1. all \in SUBSET Nat /\ all # {}
 BY DEF Starts
<1>2. OldestInFlight(starts, rev) = CHOOSE n \in all : \A m \in all : n <= m
 BY DEF OldestInFlight
<1>3. \E n \in all : \A m \in all : n <= m
 <2> HIDE DEF all
 <2> QED BY <1>1, FirstOf
<1>4. OldestInFlight(starts, rev) \in all
      /\ \A m \in all : OldestInFlight(starts, rev) <= m
 <2> HIDE DEF all
 <2> QED BY <1>2, <1>3
<1> QED BY <1>1, <1>4

Dropped(dropped) == IF dropped = 0 THEN overflow ELSE dropped

(* The journal loses first entries that no request in flight needs. *)
LEMMA AppliesFacts ==
  ASSUME revision \in Nat, NEW es, NEW dropped, NEW starts,
         Kept(es, Dropped(dropped), revision + 1), Starts(starts, revision + 1),
         Applies(es, dropped, starts)
  PROVE  /\ revision' = revision + 1 /\ started' = starts
         /\ Kept(journal', overflow', revision')
         /\ \A r \in DOMAIN starts : starts[r] >= overflow' => starts[r] >= Dropped(dropped)
         /\ \E n \in 0..Len(es) :
               /\ journal' = SubSeq(es, n + 1, Len(es))
               /\ \A i \in 1..n : \A r \in DOMAIN starts : es[i].revision <= starts[r]
<1> DEFINE over == Dropped(dropped)
<1>0. /\ es \in Seq(Entries) /\ InOrder(es) /\ over \in Nat /\ Len(es) \in Nat
      /\ Len(es) <= JournalLimit /\ over <= revision + 1
      /\ \A i \in 1..Len(es) : es[i].revision \in Nat
      /\ \A i \in 1..Len(es) : over < es[i].revision /\ es[i].revision <= revision + 1
      /\ \A r \in DOMAIN starts : starts[r] \in Nat
 <2>1. es \in Seq(Entries)
  BY DEF Kept
 <2>2. \A i \in 1..Len(es) : es[i] \in Entries
  BY <2>1
 <2> QED BY <2>1, <2>2 DEF Kept, Starts, Entries
<1>1. revision' = revision + 1 /\ started' = starts
 BY DEF Applies
<1>2. CASE Prune(es, over, starts, revision + 1)
 <2>1. PICK oldest \in Nat : /\ oldest = OldestInFlight(starts, revision + 1)
                            /\ \A r \in DOMAIN starts : oldest <= starts[r]
  BY OldestFacts
 <2>2. journal' = After(es, oldest) /\ overflow' = IF oldest >= over THEN 0 ELSE over
  BY <1>2, <2>1 DEF Prune
 <2>3. PICK n \in 0..Len(es) :
           /\ journal' = SubSeq(es, n + 1, Len(es))
           /\ \A i \in 1..Len(es) : es[i].revision > oldest <=> i > n
  BY <1>0, <2>2, AfterFacts
 <2>4. /\ journal' \in Seq(Entries) /\ Len(journal') = Len(es) - n
       /\ \A i \in 1..Len(journal') : n + i \in 1..Len(es) /\ journal'[i] = es[n + i]
  BY <1>0, <2>3, EndOf
 <2>5. InOrder(journal')
  BY <1>0, <2>3, EndStays
 <2>6. overflow' \in Nat /\ overflow' <= over
  BY <1>0, <2>2
 <2>7. Kept(journal', overflow', revision')
  <3>1. ASSUME NEW i \in 1..Len(journal')
        PROVE  overflow' < journal'[i].revision /\ journal'[i].revision <= revision'
   <4>1. n + i \in 1..Len(es) /\ journal'[i] = es[n + i]
    BY <2>4
   <4>2. /\ es[n + i].revision \in Nat /\ over < es[n + i].revision
         /\ es[n + i].revision <= revision + 1
    BY <1>0, <4>1
   <4> HIDE DEF over
   <4> QED BY <1>0, <1>1, <2>6, <4>1, <4>2
  <3>2. Len(journal') <= JournalLimit
   BY <1>0, <2>3, <2>4, JournalAssumption
  <3>3. overflow' <= revision'
   BY <1>0, <1>1, <2>6
  <3> QED BY <2>4, <2>5, <2>6, <3>1, <3>2, <3>3 DEF Kept
 <2>8. \A r \in DOMAIN starts : starts[r] >= overflow' => starts[r] >= over
  BY <1>0, <2>1, <2>2
 <2>9. \A i \in 1..n : \A r \in DOMAIN starts : es[i].revision <= starts[r]
  <3> TAKE i \in 1..n
  <3> TAKE r \in DOMAIN starts
  <3>1. i \in 1..Len(es) /\ ~(i > n)
   BY <1>0
  <3> QED BY <1>0, <2>1, <2>3, <3>1
 <2> QED BY <1>1, <2>3, <2>7, <2>8, <2>9
<1>3. CASE journal' = es /\ overflow' = over
 <2>1. es = SubSeq(es, 0 + 1, Len(es)) /\ 0 \in 0..Len(es)
  BY <1>0
 <2>2. \A i \in 1..0 : FALSE
  OBVIOUS
 <2>3. Kept(journal', overflow', revision')
  BY <1>1, <1>3
 <2> QED BY <1>1, <1>3, <2>1, <2>2, <2>3
<1> QED BY <1>2, <1>3 DEF Applies, Dropped

Entry(update) == [revision |-> revision + 1, update |-> update]

LEMMA RecordFacts ==
  ASSUME revision \in Nat, Kept(journal, overflow, revision), NEW u \in Updates,
         NEW k, k = Record(journal, Entry(u))
  PROVE  /\ Dropped(k.dropped) >= overflow
         /\ Kept(k.kept, Dropped(k.dropped), revision + 1)
         /\ \E m \in {0, 1} :
               /\ m <= Len(journal) /\ Len(k.kept) = Len(journal) - m + 1
               /\ k.kept[Len(k.kept)] = Entry(u)
               /\ \A i \in 1..Len(journal) - m : k.kept[i] = journal[m + i]
               /\ m = 1 => Dropped(k.dropped) = journal[1].revision
<1>0. /\ journal \in Seq(Entries) /\ InOrder(journal) /\ overflow \in Nat
      /\ Len(journal) \in Nat /\ Len(journal) <= JournalLimit
      /\ \A i \in 1..Len(journal) : journal[i] \in Entries /\ journal[i].revision \in Nat
      /\ \A i \in 1..Len(journal) : overflow < journal[i].revision
                                   /\ journal[i].revision <= revision
      /\ overflow <= revision
 <2>1. journal \in Seq(Entries)
  BY DEF Kept
 <2>2. \A i \in 1..Len(journal) : journal[i] \in Entries
  BY <2>1
 <2> QED BY <2>1, <2>2 DEF Kept, Entries
<1> DEFINE e == Entry(u)
<1>1. e \in Entries /\ e.revision = revision + 1
 BY DEF Entry, Entries
<1> HIDE DEF e
<1>2. CASE Len(journal) < JournalLimit
 <2>1. k.kept = Append(journal, e) /\ k.dropped = 0
  BY <1>2 DEF Record, e
 <2>2. /\ k.kept \in Seq(Entries) /\ Len(k.kept) = Len(journal) + 1
       /\ k.kept[Len(k.kept)] = e /\ \A i \in 1..Len(journal) : k.kept[i] = journal[i]
  BY <1>0, <1>1, <2>1
 <2>3. InOrder(k.kept)
  <3> SUFFICES ASSUME NEW i \in 1..Len(k.kept), NEW j \in 1..Len(k.kept), i < j
               PROVE  k.kept[i].revision < k.kept[j].revision
   BY DEF InOrder
  <3>1. i \in 1..Len(journal) /\ k.kept[i] = journal[i]
   BY <1>0, <2>2
  <3>2. CASE j = Len(k.kept)
   <4>1. k.kept[j].revision = revision + 1 /\ journal[i].revision <= revision
    BY <1>0, <1>1, <2>2, <3>1, <3>2
   <4> QED BY <1>0, <3>1, <4>1
  <3>3. CASE j # Len(k.kept)
   <4>1. j \in 1..Len(journal) /\ k.kept[j] = journal[j]
    BY <1>0, <2>2, <3>3
   <4> QED BY <1>0, <3>1, <4>1 DEF InOrder
  <3> QED BY <3>2, <3>3
 <2>4. Dropped(k.dropped) = overflow
  BY <2>1 DEF Dropped
 <2>5. Kept(k.kept, overflow, revision + 1)
  <3>1. Len(k.kept) <= JournalLimit
   BY <1>0, <1>2, <2>2, JournalAssumption
  <3>2. ASSUME NEW i \in 1..Len(k.kept)
        PROVE  overflow < k.kept[i].revision /\ k.kept[i].revision <= revision + 1
   <4>1. CASE i = Len(k.kept)
    <5> QED BY <1>0, <1>1, <2>2, <4>1
   <4>2. CASE i # Len(k.kept)
    <5>1. i \in 1..Len(journal) /\ k.kept[i] = journal[i]
     BY <1>0, <2>2, <4>2
    <5> QED BY <1>0, <5>1
   <4> QED BY <4>1, <4>2
  <3> QED BY <1>0, <2>2, <2>3, <3>1, <3>2 DEF Kept
 <2>6. \A i \in 1..Len(journal) - 0 : k.kept[i] = journal[0 + i]
  BY <1>0, <2>2
 <2> QED BY <1>0, <2>2, <2>4, <2>5, <2>6 DEF e
<1>3. CASE ~(Len(journal) < JournalLimit)
 <2>0. Len(journal) = JournalLimit /\ Len(journal) >= 1 /\ journal # <<>>
  BY <1>0, <1>3, JournalAssumption
 <2>1. k.kept = Append(Tail(journal), e) /\ k.dropped = journal[1].revision
  BY <1>0, <1>3, <2>0 DEF Record, e
 <2>2. /\ Tail(journal) \in Seq(Entries) /\ Len(Tail(journal)) = Len(journal) - 1
       /\ \A i \in 1..Len(journal) - 1 : Tail(journal)[i] = journal[1 + i]
  BY <1>0, <2>0
 <2>3. /\ k.kept \in Seq(Entries) /\ Len(k.kept) = Len(journal)
       /\ k.kept[Len(k.kept)] = e
       /\ \A i \in 1..Len(journal) - 1 : k.kept[i] = journal[1 + i]
  BY <1>0, <1>1, <2>0, <2>1, <2>2
 <2>4. InOrder(k.kept)
  <3> SUFFICES ASSUME NEW i \in 1..Len(k.kept), NEW j \in 1..Len(k.kept), i < j
               PROVE  k.kept[i].revision < k.kept[j].revision
   BY DEF InOrder
  <3>1. 1 + i \in 1..Len(journal) /\ k.kept[i] = journal[1 + i]
   <4>1. i \in 1..Len(journal) - 1
    BY <1>0, <2>3
   <4> QED BY <1>0, <2>3, <4>1
  <3>2. CASE j = Len(k.kept)
   <4>1. k.kept[j].revision = revision + 1 /\ journal[1 + i].revision <= revision
    BY <1>0, <1>1, <2>3, <3>1, <3>2
   <4> QED BY <1>0, <3>1, <4>1
  <3>3. CASE j # Len(k.kept)
   <4>1. j \in 1..Len(journal) - 1
    BY <1>0, <2>3, <3>3
   <4>2. 1 + j \in 1..Len(journal) /\ k.kept[j] = journal[1 + j] /\ 1 + i < 1 + j
    BY <1>0, <2>3, <4>1
   <4> QED BY <1>0, <3>1, <4>2 DEF InOrder
  <3> QED BY <3>2, <3>3
 <2>5. /\ Dropped(k.dropped) = journal[1].revision /\ journal[1].revision \in Nat
       /\ journal[1].revision > overflow /\ journal[1].revision <= revision
  BY <1>0, <2>0, <2>1 DEF Dropped
 <2>6. Kept(k.kept, journal[1].revision, revision + 1)
  <3>1. ASSUME NEW i \in 1..Len(k.kept)
        PROVE  journal[1].revision < k.kept[i].revision /\ k.kept[i].revision <= revision + 1
   <4>1. CASE i = Len(journal)
    BY <1>1, <2>3, <2>5, <4>1
   <4>2. CASE i < Len(journal)
    <5>1. i \in 1..Len(journal) - 1 /\ 1 + i \in 1..Len(journal) /\ 1 < 1 + i
     BY <1>0, <2>3, <4>2
    <5>2. k.kept[i] = journal[1 + i] /\ journal[1].revision < journal[1 + i].revision
     BY <1>0, <2>0, <2>3, <5>1 DEF InOrder
    <5> QED BY <1>0, <5>1, <5>2
   <4> QED BY <1>0, <2>3, <4>1, <4>2
  <3> QED BY <1>0, <2>0, <2>3, <2>4, <2>5, <3>1 DEF Kept
 <2> QED BY <1>0, <2>0, <2>3, <2>5, <2>6 DEF e
<1> QED BY <1>2, <1>3

-------------------------------------------------------------------------------
(* What every event keeps. *)

JournalKept ==
    /\ Kept(journal, overflow, revision) /\ Starts(started, revision) /\ revision \in Nat
    /\ EndsCurrent(journal, heard.shared)
    /\ kind = "reactions" => ChoiceEnds(journal, heard.own)
    /\ \A r \in Request : AnswerFits(r)

(* The answers that stay on their way are those of requests that were. *)
AnswersStay(starts) ==
    \A r \in Request : (request'[r].at = "answered" /\ r \in DOMAIN starts) =>
        /\ request'[r] = request[r]
        /\ r \in DOMAIN started /\ starts[r] = started[r]

LEMMA AppliesKeeps ==
  ASSUME JournalInv, NEW starts, Starts(starts, revision + 1), AnswersStay(starts),
         Applies(journal, 0, starts), UNCHANGED <<kind, heard>>
  PROVE  JournalKept' /\ revision' = revision + 1
<1>0. /\ revision \in Nat /\ Kept(journal, overflow, revision)
      /\ journal \in Seq(Entries) /\ Len(journal) \in Nat /\ overflow \in Nat
      /\ Dropped(0) = overflow
 BY DEF JournalInv, JournalShape, Kept, Dropped
<1>1. Kept(journal, Dropped(0), revision + 1)
 <2>1. \A i \in 1..Len(journal) : journal[i].revision <= revision + 1
  <3>1. \A i \in 1..Len(journal) : journal[i] \in Entries
   BY <1>0
  <3>2. \A i \in 1..Len(journal) : journal[i].revision \in Nat
   BY <3>1 DEF Entries
  <3> QED BY <1>0, <3>2 DEF Kept
 <2>2. overflow <= revision + 1
  BY <1>0 DEF Kept
 <2> QED BY <1>0, <2>1, <2>2 DEF Kept
<1>2. /\ revision' = revision + 1 /\ started' = starts
      /\ Kept(journal', overflow', revision')
      /\ \A r \in DOMAIN starts : starts[r] >= overflow' => starts[r] >= overflow
 BY <1>0, <1>1, AppliesFacts
<1>3. PICK n \in 0..Len(journal) :
          /\ journal' = SubSeq(journal, n + 1, Len(journal))
          /\ \A i \in 1..n : \A r \in DOMAIN starts : journal[i].revision <= starts[r]
 BY <1>0, <1>1, AppliesFacts
<1>4. /\ \A i \in 1..Len(journal') : n + i \in 1..Len(journal) /\ journal'[i] = journal[n + i]
      /\ \A i \in 1..Len(journal) :
            i > n => i - n \in 1..Len(journal') /\ journal'[i - n] = journal[i]
 BY <1>0, <1>3, EndOf
<1>5. ASSUME NEW number
      PROVE  /\ EndsCurrent(journal, number) => EndsCurrent(journal', number)
             /\ ChoiceEnds(journal, number) => ChoiceEnds(journal', number)
 BY <1>0, <1>3, EndStays
<1>6. /\ EndsCurrent(journal', heard'.shared)
      /\ kind' = "reactions" => ChoiceEnds(journal', heard'.own)
 BY <1>5 DEF JournalInv
<1>7. ASSUME NEW r \in Request, request'[r].at = "answered", r \in DOMAIN started',
             started'[r] >= overflow'
      PROVE  /\ request'[r].answer.there /\ ~request'[r].answer.stale
             /\ (\A i \in 1..Len(journal') : journal'[i].revision <= started'[r])
                   => request'[r].answer.shared >= heard'.shared
             /\ (/\ request'[r].answer.known
                 /\ \A i \in 1..Len(journal') :
                       journal'[i].revision > started'[r] => ~journal'[i].update.known)
                   => request'[r].answer.own >= heard'.own
 <2>1. /\ request'[r] = request[r] /\ r \in DOMAIN started /\ started'[r] = started[r]
       /\ started[r] >= overflow /\ r \in DOMAIN starts /\ starts[r] = started[r]
  BY <1>2, <1>7 DEF AnswersStay
 <2>2. \A i \in 1..Len(journal) : ~(i > n) => i \in 1..n
  BY <1>0
 <2>3. \A i \in 1..Len(journal) : i > n \/ journal[i].revision <= started[r]
  BY <1>3, <2>1, <2>2
 <2>4. \A i \in 1..Len(journal) : journal[i].revision \in Nat
  <3>1. \A i \in 1..Len(journal) : journal[i] \in Entries
   BY <1>0
  <3> QED BY <3>1 DEF Entries
 <2>5. started[r] \in Nat
  BY <2>1 DEF JournalInv, JournalShape, Starts
 <2>6. AnswerFits(r)
  BY DEF JournalInv
 <2>7. (\A i \in 1..Len(journal') : journal'[i].revision <= started'[r])
          => \A i \in 1..Len(journal) : journal[i].revision <= started[r]
  BY <1>4, <2>1, <2>3
 <2>8. (\A i \in 1..Len(journal') : journal'[i].revision > started'[r] => ~journal'[i].update.known)
          => \A i \in 1..Len(journal) : journal[i].revision > started[r] => ~journal[i].update.known
  <3> SUFFICES ASSUME \A i \in 1..Len(journal') :
                          journal'[i].revision > started'[r] => ~journal'[i].update.known,
                      NEW i \in 1..Len(journal), journal[i].revision > started[r]
               PROVE  ~journal[i].update.known
   OBVIOUS
  <3>1. i > n
   BY <2>3, <2>4, <2>5
  <3>2. i - n \in 1..Len(journal') /\ journal'[i - n] = journal[i]
   BY <1>4, <3>1
  <3> QED BY <2>1, <3>2
 <2> QED BY <1>7, <2>1, <2>6, <2>7, <2>8 DEF AnswerFits
<1>8. \A r \in Request : AnswerFits(r)'
 BY <1>7 DEF AnswerFits
<1>9. Starts(started', revision') /\ revision' \in Nat
 BY <1>0, <1>2
<1> QED BY <1>2, <1>6, <1>8, <1>9 DEF JournalKept

(* What is recorded is current, or stale; it tells the choice told last, or none. *)
LEMMA RecordKeeps ==
  ASSUME JournalInv, NEW starts, Starts(starts, revision + 1), AnswersStay(starts),
         NEW u \in Updates, NEW k, k = Record(journal, Entry(u)),
         Applies(k.kept, k.dropped, starts), kind' = kind,
         heard'.shared \in Nat, heard'.own \in Nat,
         u.stale \/ u.shared >= heard'.shared,
         kind = "reactions" /\ u.known /\ ~u.stale => u.own >= heard'.own,
         ~u.known => heard'.own = heard.own
  PROVE  JournalKept' /\ revision' = revision + 1
<1>0. /\ revision \in Nat /\ Kept(journal, overflow, revision)
      /\ journal \in Seq(Entries) /\ Len(journal) \in Nat /\ overflow \in Nat
      /\ \A i \in 1..Len(journal) : journal[i].revision \in Nat
      /\ InOrder(journal)
 <2>1. /\ revision \in Nat /\ Kept(journal, overflow, revision)
       /\ journal \in Seq(Entries) /\ overflow \in Nat /\ InOrder(journal)
  BY DEF JournalInv, JournalShape, Kept
 <2>2. \A i \in 1..Len(journal) : journal[i] \in Entries
  BY <2>1
 <2> QED BY <2>1, <2>2 DEF Entries
<1> DEFINE kept == k.kept
           over == Dropped(k.dropped)
<1>1. over >= overflow /\ Kept(kept, over, revision + 1)
 BY <1>0, RecordFacts
<1>2. PICK m \in {0, 1} :
          /\ m <= Len(journal) /\ Len(kept) = Len(journal) - m + 1
          /\ kept[Len(kept)] = Entry(u)
          /\ \A i \in 1..Len(journal) - m : kept[i] = journal[m + i]
          /\ m = 1 => over = journal[1].revision
 BY <1>0, RecordFacts
<1>3. /\ revision' = revision + 1 /\ started' = starts
      /\ Kept(journal', overflow', revision')
      /\ \A r \in DOMAIN starts : starts[r] >= overflow' => starts[r] >= over
 BY <1>0, <1>1, AppliesFacts
<1>4. PICK n \in 0..Len(kept) :
          /\ journal' = SubSeq(kept, n + 1, Len(kept))
          /\ \A i \in 1..n : \A r \in DOMAIN starts : kept[i].revision <= starts[r]
 BY <1>0, <1>1, AppliesFacts
<1>5. kept \in Seq(Entries) /\ over \in Nat /\ Len(kept) \in 1..Len(kept) /\ Len(kept) \in Nat
 <2>1. kept \in Seq(Entries) /\ over \in Nat
  BY <1>1 DEF Kept
 <2> QED BY <1>0, <1>2, <2>1
<1> HIDE DEF kept, over
<1>6. /\ \A i \in 1..Len(journal') : n + i \in 1..Len(kept) /\ journal'[i] = kept[n + i]
      /\ \A i \in 1..Len(kept) :
            i > n => i - n \in 1..Len(journal') /\ journal'[i - n] = kept[i]
 BY <1>4, <1>5, EndOf
<1>7. ASSUME NEW number
      PROVE  /\ EndsCurrent(kept, number) => EndsCurrent(journal', number)
             /\ ChoiceEnds(kept, number) => ChoiceEnds(journal', number)
 BY <1>4, <1>5, EndStays
<1>8. Entry(u).revision = revision + 1 /\ Entry(u).update = u
 BY DEF Entry
<1>9. EndsCurrent(journal', heard'.shared)
 <2>1. EndsCurrent(kept, heard'.shared)
  BY <1>2, <1>8 DEF EndsCurrent
 <2> QED BY <1>7, <2>1
<1>10. ASSUME kind' = "reactions" PROVE ChoiceEnds(journal', heard'.own)
 <2> SUFFICES ASSUME NEW i \in 1..Len(kept), kept[i].update.known, ~kept[i].update.stale,
                     \A j \in i + 1..Len(kept) : ~kept[j].update.known /\ ~kept[j].update.stale
              PROVE  kept[i].update.own >= heard'.own
  BY <1>7 DEF ChoiceEnds
 <2>1. CASE i = Len(kept)
  BY <1>2, <1>8, <1>10, <2>1
 <2>2. CASE i # Len(kept)
  <3>1. Len(kept) \in i + 1..Len(kept) /\ i \in 1..Len(journal) - m /\ m \in Nat
   BY <1>0, <1>2, <1>5, <2>2
  <3>2. ~u.known /\ ~u.stale /\ heard'.own = heard.own
   BY <1>2, <1>8, <3>1
  <3>3. m + i \in 1..Len(journal) /\ kept[i] = journal[m + i]
   BY <1>0, <1>2, <3>1
  <3>4. ASSUME NEW j \in m + i + 1..Len(journal)
        PROVE  ~journal[j].update.known /\ ~journal[j].update.stale
   <4>1. j - m \in 1..Len(journal) - m /\ m + (j - m) = j /\ j - m \in i + 1..Len(kept)
    BY <1>0, <1>2, <3>1
   <4>2. kept[j - m] = journal[j]
    BY <1>2, <4>1
   <4> QED BY <4>1, <4>2
  <3>5. ChoiceEnds(journal, heard.own)
   BY <1>10 DEF JournalInv
  <3> QED BY <3>2, <3>3, <3>4, <3>5 DEF ChoiceEnds
 <2> QED BY <2>1, <2>2
<1>11. ASSUME NEW r \in Request, request'[r].at = "answered", r \in DOMAIN started',
             started'[r] >= overflow'
      PROVE  /\ request'[r].answer.there /\ ~request'[r].answer.stale
             /\ (\A i \in 1..Len(journal') : journal'[i].revision <= started'[r])
                   => request'[r].answer.shared >= heard'.shared
             /\ (/\ request'[r].answer.known
                 /\ \A i \in 1..Len(journal') :
                       journal'[i].revision > started'[r] => ~journal'[i].update.known)
                   => request'[r].answer.own >= heard'.own
 <2>1. /\ request'[r] = request[r] /\ r \in DOMAIN started /\ started'[r] = started[r]
       /\ r \in DOMAIN starts /\ starts[r] = started[r]
  BY <1>3, <1>11 DEF AnswersStay
 <2>2. started[r] \in Nat /\ started[r] <= revision /\ started[r] >= over
  <3>1. started[r] \in Nat /\ started[r] <= revision
   BY <2>1 DEF JournalInv, JournalShape, Starts
  <3> QED BY <1>3, <1>11, <2>1, <3>1
 <2>3. started[r] >= overflow
  BY <1>0, <1>1, <1>5, <2>2
 <2>4. /\ Len(kept) - n \in 1..Len(journal') /\ journal'[Len(kept) - n] = Entry(u)
  <3>1. Len(kept) > n
   <4>1. CASE Len(kept) \in 1..n
    <5>1. kept[Len(kept)].revision <= starts[r]
     BY <1>4, <2>1, <4>1
    <5> QED BY <1>0, <1>2, <1>8, <2>1, <2>2, <5>1
   <4>2. CASE Len(kept) \notin 1..n
    BY <1>5, <4>2
   <4> QED BY <4>1, <4>2
  <3> QED BY <1>2, <1>5, <1>6, <3>1
 <2>5. ~(\A i \in 1..Len(journal') : journal'[i].revision <= started'[r])
  <3>1. ~(revision + 1 <= started[r])
   BY <1>0, <2>2
  <3> QED BY <1>8, <2>1, <2>4, <3>1
 <2>6. AnswerFits(r)
  BY DEF JournalInv
 <2>7. request'[r].answer.there /\ ~request'[r].answer.stale
  BY <1>11, <2>1, <2>3, <2>6 DEF AnswerFits
 <2>8. ASSUME request'[r].answer.known,
              \A i \in 1..Len(journal') :
                  journal'[i].revision > started'[r] => ~journal'[i].update.known
       PROVE  request'[r].answer.own >= heard'.own
  <3>1. ~u.known /\ heard'.own = heard.own
   <4>1. revision + 1 > started[r]
    BY <1>0, <2>2
   <4> QED BY <1>8, <2>1, <2>4, <2>8, <4>1
  <3>2. ASSUME NEW i \in 1..Len(journal), journal[i].revision > started[r]
        PROVE  ~journal[i].update.known
   <4>1. i > m
    <5>1. CASE m = 1 /\ i = 1
     BY <1>0, <1>2, <1>5, <2>2, <3>2, <5>1
    <5> QED BY <1>0, <1>2, <5>1
   <4>2. i - m \in 1..Len(journal) - m /\ m + (i - m) = i /\ i - m \in 1..Len(kept)
    BY <1>0, <1>2, <4>1
   <4>3. kept[i - m] = journal[i]
    BY <1>2, <4>2
   <4>4. i - m > n
    <5>1. CASE i - m \in 1..n
     <6>1. journal[i].revision <= started[r]
      BY <1>4, <2>1, <4>3, <5>1
     <6> QED BY <1>0, <2>2, <3>2, <6>1
    <5>2. CASE i - m \notin 1..n
     BY <1>5, <4>2, <5>2
    <5> QED BY <5>1, <5>2
   <4>5. (i - m) - n \in 1..Len(journal') /\ journal'[(i - m) - n] = journal[i]
    BY <1>6, <4>2, <4>3, <4>4
   <4> QED BY <2>1, <2>8, <3>2, <4>5
  <3> QED BY <1>11, <2>1, <2>3, <2>6, <2>8, <3>1, <3>2 DEF AnswerFits
 <2> QED BY <2>5, <2>7, <2>8
<1>12. \A r \in Request : AnswerFits(r)'
 BY <1>11 DEF AnswerFits
<1>13. Starts(started', revision') /\ revision' \in Nat
 BY <1>0, <1>3
<1> QED BY <1>3, <1>9, <1>10, <1>12, <1>13 DEF JournalKept

-------------------------------------------------------------------------------
(* The steps of the journal. *)

LEMMA JournalBegins == JournalInit => JournalInv
<1> SUFFICES ASSUME JournalInit PROVE JournalInv
 OBVIOUS
<1>1. NoContent \in Contents /\ Content(0, 0, TRUE) \in Contents
 BY DEF NoContent, Content, Contents
<1>9. PICK c \in {NoContent, Content(0, 0, TRUE)} : row = [content |-> c, revision |-> 0]
 BY DEF JournalInit
<1>2. JournalShape
 <2>1. Starts(started, revision)
  BY DEF JournalInit, Starts
 <2>2. Kept(journal, overflow, revision)
  BY JournalAssumption DEF JournalInit, Kept, InOrder
 <2>3. changes \in Seq(Change) /\ passed \in 0..Len(changes)
  BY DEF JournalInit
 <2>4. row \in [content : Contents, revision : Nat] /\ row.revision <= revision
  <3>1. c \in Contents /\ revision = 0
   BY <1>1 DEF JournalInit
  <3> QED BY <1>9, <3>1
 <2>5. request \in [Request -> [at : {"idle", "asked", "answered"}, answer : Contents]]
  BY <1>1 DEF JournalInit
 <2> QED BY <1>1, <2>1, <2>2, <2>3, <2>4, <2>5 DEF JournalInit, JournalShape
<1>3. HeardIsPast
 BY DEF JournalInit, HeardIsPast
<1>4. EndsCurrent(journal, heard.shared) /\ ChoiceEnds(journal, heard.own)
 BY DEF JournalInit, EndsCurrent, ChoiceEnds
<1>5. \A r \in Request : AnswerFits(r)
 BY DEF JournalInit, AnswerFits
<1>6. CountsAreCurrent /\ ChoiceIsCurrent
 <2>1. heard.shared = 0 /\ heard.own = 0 /\ passedOn = NoContent
       /\ row.content \in {NoContent, Content(0, 0, TRUE)}
  BY <1>9 DEF JournalInit
 <2> QED BY <2>1 DEF CountsAreCurrent, ChoiceIsCurrent, Counts, OwnChoice, NoContent, Content
<1> QED BY <1>2, <1>3, <1>4, <1>5, <1>6 DEF JournalInv

(* What is said of the rows, in each step. *)
RowKept ==
    /\ row \in [content : Contents, revision : Nat] /\ row.revision <= revision
    /\ passedOn \in Contents
    /\ CountsAreCurrent /\ (kind = "reactions" => ChoiceIsCurrent)

LEMMA TogetherKept ==
  ASSUME JournalKept', RowKept', kind' \in {"poll", "reactions"}, HeardIsPast',
         changes' \in Seq(Change), passed' \in 0..Len(changes'),
         request' \in [Request -> [at : {"idle", "asked", "answered"}, answer : Contents]]
  PROVE  JournalInv'
  BY DEF JournalKept, RowKept, JournalInv, JournalShape

(* An event that leaves the content as it is, or forgets it. *)
LEMMA RowStays ==
  ASSUME JournalInv, UNCHANGED <<kind, heard>>, revision' = revision + 1,
         row' = row \/ row' = [content |-> NoContent, revision |-> 0],
         passedOn' \in {passedOn, NoContent}
  PROVE  RowKept'
<1>1. NoContent \in Contents /\ Counts(NoContent) /\ OwnChoice(NoContent)
 BY DEF NoContent, Contents, Counts, OwnChoice
<1>2. /\ row \in [content : Contents, revision : Nat] /\ row.revision <= revision
      /\ passedOn \in Contents /\ revision \in Nat
      /\ CountsAreCurrent /\ (kind = "reactions" => ChoiceIsCurrent)
 BY DEF JournalInv, JournalShape
<1>3. row' \in [content : Contents, revision : Nat] /\ row'.revision <= revision'
 BY <1>1, <1>2
<1>4. passedOn' \in Contents /\ row'.content \in {row.content, NoContent}
 BY <1>1, <1>2
<1>5. CountsAreCurrent' /\ (kind' = "reactions" => ChoiceIsCurrent')
 BY <1>1, <1>2, <1>4 DEF CountsAreCurrent, ChoiceIsCurrent, Counts, OwnChoice
<1> QED BY <1>3, <1>4, <1>5 DEF RowKept

LEMMA RequestsReset ==
  ASSUME JournalInv,
         NEW r \in Request, request' = [request EXCEPT ![r] = [at |-> "idle", answer |-> NoContent]]
  PROVE  /\ request' \in [Request -> [at : {"idle", "asked", "answered"}, answer : Contents]]
         /\ AnswersStay(Without(r)) /\ Starts(Without(r), revision + 1)
<1>1. NoContent \in Contents
 BY DEF NoContent, Contents
<1>2. request \in [Request -> [at : {"idle", "asked", "answered"}, answer : Contents]]
      /\ revision \in Nat /\ Starts(started, revision)
 BY DEF JournalInv, JournalShape
<1>3. DOMAIN Without(r) = DOMAIN started \ {r}
      /\ \A q \in DOMAIN started \ {r} : Without(r)[q] = started[q]
 BY DEF Without
<1>4. AnswersStay(Without(r))
 <2>1. \A q \in Request : request'[q] = IF q = r THEN [at |-> "idle", answer |-> NoContent]
                                        ELSE request[q]
  BY <1>2
 <2>2. [at |-> "idle", answer |-> NoContent].at = "idle"
  OBVIOUS
 <2> QED BY <1>3, <2>1, <2>2 DEF AnswersStay
<1>5. Starts(Without(r), revision + 1)
 <2>1. DOMAIN Without(r) \subseteq Request
  BY <1>2, <1>3 DEF Starts
 <2>2. \A q \in DOMAIN Without(r) : Without(r)[q] \in Nat /\ Without(r)[q] <= revision + 1
  <3> TAKE q \in DOMAIN Without(r)
  <3>1. q \in DOMAIN started /\ Without(r)[q] = started[q]
   BY <1>3
  <3>2. started[q] \in Nat /\ started[q] <= revision
   BY <1>2, <3>1 DEF Starts
  <3> QED BY <1>2, <3>1, <3>2
 <2> QED BY <2>1, <2>2 DEF Starts
<1> QED BY <1>1, <1>2, <1>4, <1>5

LEMMA ContentChangesKeeps == ASSUME JournalInv, ContentChanges, UNCHANGED kind PROVE JournalInv'
<1>1. PICK change \in Change : changes' = Append(changes, change)
 BY DEF ContentChanges
<1>2. UNCHANGED <<passed, request, revision, started, journal, overflow, row, passedOn, heard>>
 BY DEF ContentChanges
<1>3. changes \in Seq(Change) /\ passed \in 0..Len(changes)
 BY DEF JournalInv, JournalShape
<1>4. /\ changes' \in Seq(Change) /\ passed' \in 0..Len(changes')
      /\ \A i \in 1..Len(changes) : changes'[i] = changes[i]
 BY <1>1, <1>2, <1>3
<1>5. HeardIsPast'
 <2>1. HeardIsPast
  BY DEF JournalInv
 <2>2. heard.own # 0 => heard.own \in 1..Len(changes)
  BY <1>3, <2>1 DEF HeardIsPast
 <2> QED BY <1>2, <1>4, <2>1, <2>2 DEF HeardIsPast
<1>6. JournalShape'
 BY <1>2, <1>4 DEF JournalInv, JournalShape
<1>7. \A r \in Request : AnswerFits(r)'
 BY <1>2 DEF JournalInv, AnswerFits
<1> QED BY <1>2, <1>5, <1>6, <1>7
        DEF JournalInv, CountsAreCurrent, ChoiceIsCurrent, Counts, OwnChoice

LEMMA ContentAnswersKeeps ==
  ASSUME JournalInv, NEW r \in Request, ContentAnswers(r), UNCHANGED kind PROVE JournalInv'
<1> DEFINE n == Len(changes)
<1>0. /\ changes \in Seq(Change) /\ n \in Nat /\ passed \in 0..n
      /\ request \in [Request -> [at : {"idle", "asked", "answered"}, answer : Contents]]
      /\ HeardIsPast
 BY DEF JournalInv, JournalShape
<1>1. PICK known \in BOOLEAN :
          request' = [request EXCEPT ![r] =
                        [at |-> "answered", answer |-> Content(n, OwnAt(n), known)]]
 BY DEF ContentAnswers
<1>2. UNCHANGED <<changes, passed, revision, started, journal, overflow, row, passedOn, heard>>
 BY DEF ContentAnswers
<1>3. /\ OwnAt(n) \in Nat
      /\ \A j \in 1..n : changes[j].own => j <= OwnAt(n)
 BY <1>0, OwnFacts
<1>4. Content(n, OwnAt(n), known) \in Contents
 BY <1>0, <1>3 DEF Content, Contents
<1>5. n >= heard.shared /\ OwnAt(n) >= heard.own
 <2>1. heard.own = 0 \/ heard.own \in 1..n
  BY <1>0 DEF HeardIsPast
 <2> QED BY <1>0, <1>3, <2>1 DEF HeardIsPast
<1> HIDE DEF n
<1>6. request' \in [Request -> [at : {"idle", "asked", "answered"}, answer : Contents]]
 BY <1>0, <1>1, <1>4
<1>7. ASSUME NEW q \in Request PROVE AnswerFits(q)'
 <2>1. CASE q = r
  <3>1. /\ request'[q].answer.shared = n /\ request'[q].answer.own = OwnAt(n)
        /\ request'[q].answer.there /\ ~request'[q].answer.stale
   BY <1>0, <1>1, <2>1 DEF Content
  <3> QED BY <1>2, <1>5, <3>1 DEF AnswerFits
 <2>2. CASE q # r
  <3>1. request'[q] = request[q] /\ AnswerFits(q)
   BY <1>0, <1>1, <2>2 DEF JournalInv
  <3> QED BY <1>2, <3>1 DEF AnswerFits
 <2> QED BY <2>1, <2>2
<1>8. JournalShape'
 BY <1>2, <1>6 DEF JournalInv, JournalShape
<1>9. HeardIsPast'
 BY <1>0, <1>2 DEF HeardIsPast
<1> QED BY <1>2, <1>7, <1>8, <1>9
        DEF JournalInv, CountsAreCurrent, ChoiceIsCurrent, Counts, OwnChoice

LEMMA LoadingKeeps ==
  ASSUME JournalInv, NEW r \in Request, Loading(r), UNCHANGED kind PROVE JournalInv'
<1> DEFINE starts == [q \in DOMAIN started \cup {r} |-> IF q = r THEN revision + 1 ELSE started[q]]
<1>0. /\ request \in [Request -> [at : {"idle", "asked", "answered"}, answer : Contents]]
      /\ revision \in Nat /\ Starts(started, revision) /\ kind \in {"poll", "reactions"}
      /\ changes \in Seq(Change) /\ passed \in 0..Len(changes) /\ HeardIsPast
 BY DEF JournalInv, JournalShape
<1>1. /\ request' = [request EXCEPT ![r].at = "asked"] /\ Applies(journal, 0, starts)
      /\ UNCHANGED <<changes, passed, row, passedOn, heard>>
 BY DEF Loading
<1>2. Starts(starts, revision + 1)
 BY <1>0 DEF Starts
<1>3. /\ request' \in [Request -> [at : {"idle", "asked", "answered"}, answer : Contents]]
      /\ request'[r].at = "asked"
      /\ \A q \in Request : q # r => request'[q] = request[q]
 BY <1>0, <1>1
<1>4. AnswersStay(starts)
 <2> SUFFICES ASSUME NEW q \in Request, request'[q].at = "answered", q \in DOMAIN starts
              PROVE  request'[q] = request[q] /\ q \in DOMAIN started /\ starts[q] = started[q]
  BY DEF AnswersStay
 <2>1. q # r
  BY <1>3
 <2>2. q \in DOMAIN started /\ starts[q] = started[q]
  BY <2>1
 <2> QED BY <1>3, <2>1, <2>2
<1> HIDE DEF starts
<1>5. JournalKept' /\ revision' = revision + 1
 BY <1>1, <1>2, <1>4, AppliesKeeps
<1>6. RowKept'
 BY <1>1, <1>5, RowStays
<1>7. HeardIsPast'
 BY <1>0, <1>1 DEF HeardIsPast
<1> QED BY <1>0, <1>1, <1>3, <1>5, <1>6, <1>7, TogetherKept

LEMMA FailsKeeps ==
  ASSUME JournalInv, NEW r \in Request, Fails(r), UNCHANGED kind PROVE JournalInv'
<1>0. /\ kind \in {"poll", "reactions"}
      /\ changes \in Seq(Change) /\ passed \in 0..Len(changes) /\ HeardIsPast
 BY DEF JournalInv, JournalShape
<1>1. /\ request' = [request EXCEPT ![r] = [at |-> "idle", answer |-> NoContent]]
      /\ Applies(journal, 0, Without(r))
      /\ UNCHANGED <<changes, passed, row, passedOn, heard>>
 BY DEF Fails
<1>2. /\ request' \in [Request -> [at : {"idle", "asked", "answered"}, answer : Contents]]
      /\ AnswersStay(Without(r)) /\ Starts(Without(r), revision + 1)
 BY <1>1, RequestsReset
<1>3. JournalKept' /\ revision' = revision + 1
 BY <1>1, <1>2, AppliesKeeps
<1>4. RowKept'
 BY <1>1, <1>3, RowStays
<1>5. HeardIsPast'
 BY <1>0, <1>1 DEF HeardIsPast
<1> QED BY <1>0, <1>1, <1>2, <1>3, <1>4, <1>5, TogetherKept

LEMMA InvalidatedKeeps == ASSUME JournalInv, ContentInvalidated, UNCHANGED kind PROVE JournalInv'
<1> DEFINE none == [r \in {} |-> 0]
<1>0. /\ kind \in {"poll", "reactions"} /\ NoContent \in Contents
      /\ changes \in Seq(Change) /\ passed \in 0..Len(changes) /\ HeardIsPast
 BY DEF JournalInv, JournalShape, NoContent, Contents
<1>1. /\ request' = [r \in Request |-> [at |-> "idle", answer |-> NoContent]]
      /\ Applies(journal, 0, none) /\ passed' \in passed..Len(changes)
      /\ row' = [content |-> NoContent, revision |-> 0] /\ passedOn' = NoContent
      /\ UNCHANGED <<changes, heard>>
 BY DEF ContentInvalidated
<1>2. Starts(none, revision + 1) /\ AnswersStay(none)
 BY DEF Starts, AnswersStay
<1> HIDE DEF none
<1>3. JournalKept' /\ revision' = revision + 1
 BY <1>1, <1>2, AppliesKeeps
<1>4. RowKept'
 BY <1>1, <1>3, RowStays
<1>5. HeardIsPast' /\ passed' \in 0..Len(changes')
 BY <1>0, <1>1 DEF HeardIsPast
<1>6. request' \in [Request -> [at : {"idle", "asked", "answered"}, answer : Contents]]
 BY <1>0, <1>1
<1> QED BY <1>0, <1>1, <1>3, <1>4, <1>5, <1>6, TogetherKept

-------------------------------------------------------------------------------
(* The steps that write the contents. *)

LEMMA ChangedKeeps == ASSUME JournalInv, Changed, UNCHANGED kind PROVE JournalInv'
<1> DEFINE u == UpdateOf(passed + 1)
           k == Record(journal, [revision |-> revision + 1, update |-> u])
<1>0. /\ kind \in {"poll", "reactions"} /\ NoContent \in Contents
      /\ changes \in Seq(Change) /\ passed \in 0..Len(changes) /\ HeardIsPast
      /\ request \in [Request -> [at : {"idle", "asked", "answered"}, answer : Contents]]
      /\ row \in [content : Contents, revision : Nat] /\ row.revision <= revision
      /\ revision \in Nat /\ Starts(started, revision)
      /\ CountsAreCurrent /\ (kind = "reactions" => ChoiceIsCurrent)
 BY DEF JournalInv, JournalShape, NoContent, Contents
<1>1. /\ passed < Len(changes) /\ passed' = passed + 1
      /\ Applies(k.kept, k.dropped, started)
      /\ row' = IF row.content.there
                THEN [content |-> Applied(row.content, u), revision |-> revision + 1]
                ELSE row
      /\ heard' = [shared |-> u.shared, own |-> IF u.known THEN u.own ELSE heard.own]
      /\ passedOn' = NoContent /\ UNCHANGED <<changes, request>>
 BY DEF Changed
<1>2. passed + 1 \in 1..Len(changes) /\ passed + 1 \in 0..Len(changes)
 BY <1>0, <1>1
<1>3. /\ changes[passed + 1].own \in BOOLEAN /\ changes[passed + 1].whole \in BOOLEAN
 <2>1. changes[passed + 1] \in Change
  BY <1>0, <1>2
 <2> QED BY <2>1, JournalAssumption
<1>4. /\ OwnAt(passed + 1) \in Nat /\ OwnAt(passed + 1) <= passed + 1
      /\ OwnAt(passed + 1) = 0 \/ changes[OwnAt(passed + 1)].own
 BY <1>0, <1>2, OwnFacts
<1>5. /\ u \in Updates /\ u.shared = passed + 1 /\ u.own = OwnAt(passed + 1)
      /\ ~u.stale
 BY <1>0, <1>3, <1>4 DEF UpdateOf, Updates
<1>6. k = Record(journal, Entry(u))
 BY DEF Entry
<1> HIDE DEF u, k
<1>7. /\ heard'.shared = u.shared /\ heard'.own = IF u.known THEN u.own ELSE heard.own
      /\ heard' \in [shared : Nat, own : Nat]
 BY <1>0, <1>1, <1>5 DEF HeardIsPast, Updates
<1>8. Starts(started, revision + 1) /\ AnswersStay(started)
 BY <1>0, <1>1 DEF Starts, AnswersStay
<1>9. JournalKept' /\ revision' = revision + 1
 <2>1. u.shared >= heard'.shared /\ heard'.shared \in Nat /\ heard'.own \in Nat
  BY <1>5, <1>7
 <2>2. u.known => u.own >= heard'.own
  BY <1>7, <2>1
 <2>3. ~u.known => heard'.own = heard.own
  BY <1>7
 <2> QED BY <1>1, <1>5, <1>6, <1>8, <2>1, <2>2, <2>3, RecordKeeps
<1>10. HeardIsPast'
 <2>1. heard'.shared <= passed' /\ heard'.own <= passed'
  BY <1>0, <1>1, <1>4, <1>5, <1>7 DEF HeardIsPast
 <2>2. heard'.own = 0 \/ changes'[heard'.own].own
  BY <1>0, <1>1, <1>4, <1>5, <1>7 DEF HeardIsPast
 <2> QED BY <1>7, <2>1, <2>2 DEF HeardIsPast
<1>11. RowKept'
 <2>1. /\ Applied(row.content, u) \in Contents
       /\ Applied(row.content, u).shared = u.shared
       /\ Applied(row.content, u).own = IF u.known THEN u.own ELSE row.content.own
       /\ Applied(row.content, u).known <=> row.content.known \/ u.known
       /\ kind # "poll" =>
             (Applied(row.content, u).stale <=> u.stale \/ (~u.known /\ row.content.stale))
  BY <1>0, <1>5, AppliedFacts
 <2>2. /\ row' \in [content : Contents, revision : Nat] /\ row'.revision <= revision'
  BY <1>0, <1>1, <1>9, <2>1
 <2>3. passedOn' \in Contents /\ ~passedOn'.there
  BY <1>0, <1>1 DEF NoContent
 <2>4. CountsAreCurrent'
  <3>1. CASE row.content.there
   <4>1. row'.content = Applied(row.content, u)
    BY <1>1, <3>1
   <4>2. row'.content.shared >= heard'.shared
    BY <1>7, <2>1, <4>1
   <4> QED BY <2>3, <4>2 DEF CountsAreCurrent, Counts
  <3>2. CASE ~row.content.there
   <4>1. row' = row
    BY <1>1, <3>2
   <4> QED BY <2>3, <3>2, <4>1 DEF CountsAreCurrent, Counts
  <3> QED BY <3>1, <3>2
 <2>5. ASSUME kind' = "reactions" PROVE ChoiceIsCurrent'
  <3>1. CASE row.content.there
   <4>1. row'.content = Applied(row.content, u) /\ kind # "poll"
    BY <1>1, <2>5, <3>1
   <4>2. CASE u.known
    <5>1. row'.content.own = u.own /\ heard'.own = u.own /\ u.own \in Nat
     BY <1>5, <1>7, <2>1, <4>1, <4>2 DEF Updates
    <5> QED BY <2>3, <5>1 DEF ChoiceIsCurrent, OwnChoice
   <4>3. CASE ~u.known
    <5>1. /\ row'.content.own = row.content.own /\ heard'.own = heard.own
          /\ row'.content.known <=> row.content.known
          /\ row'.content.stale <=> row.content.stale
     BY <1>5, <1>7, <2>1, <4>1, <4>3
    <5> QED BY <1>0, <2>3, <2>5, <3>1, <5>1 DEF ChoiceIsCurrent, OwnChoice
   <4> QED BY <4>2, <4>3
  <3>2. CASE ~row.content.there
   <4>1. row' = row
    BY <1>1, <3>2
   <4> QED BY <2>3, <3>2, <4>1 DEF ChoiceIsCurrent, OwnChoice
  <3> QED BY <3>1, <3>2
 <2> QED BY <2>2, <2>3, <2>4, <2>5 DEF RowKept
<1>12. passed' \in 0..Len(changes')
 BY <1>1, <1>2
<1> QED BY <1>0, <1>1, <1>9, <1>10, <1>11, <1>12, TogetherKept

LEMMA EditedKeeps == ASSUME JournalInv, Edited, UNCHANGED kind PROVE JournalInv'
<1> DEFINE message == Content(passed + 1, OwnAt(passed + 1), changes[passed + 1].own)
<1>0. /\ kind \in {"poll", "reactions"} /\ NoContent \in Contents
      /\ changes \in Seq(Change) /\ passed \in 0..Len(changes) /\ HeardIsPast
      /\ request \in [Request -> [at : {"idle", "asked", "answered"}, answer : Contents]]
      /\ row \in [content : Contents, revision : Nat]
      /\ revision \in Nat /\ Starts(started, revision)
      /\ kind = "reactions" => ChoiceIsCurrent
 BY DEF JournalInv, JournalShape, NoContent, Contents
<1>1. /\ passed < Len(changes) /\ passed' = passed + 1 /\ Applies(journal, 0, started)
      /\ row' = [content |-> MergeCached(message), revision |-> revision + 1]
      /\ passedOn' = NoContent /\ UNCHANGED <<changes, request, heard>>
 BY DEF Edited
<1>2. passed + 1 \in 1..Len(changes) /\ passed + 1 \in 0..Len(changes)
 BY <1>0, <1>1
<1>3. changes[passed + 1].own \in BOOLEAN
 <2>1. changes[passed + 1] \in Change
  BY <1>0, <1>2
 <2> QED BY <2>1, JournalAssumption
<1>4. /\ OwnAt(passed + 1) \in Nat
      /\ \A j \in 1..passed + 1 : changes[j].own => j <= OwnAt(passed + 1)
 BY <1>0, <1>2, OwnFacts
<1>5. /\ message \in Contents /\ message.shared = passed + 1 /\ ~message.stale
      /\ message.there /\ message.own = OwnAt(passed + 1)
 BY <1>0, <1>3, <1>4 DEF Content, Contents
<1> HIDE DEF message
<1>6. passed + 1 >= heard.shared /\ OwnAt(passed + 1) >= heard.own
 <2>1. heard.own = 0 \/ heard.own \in 1..passed + 1
  BY <1>0 DEF HeardIsPast
 <2> QED BY <1>0, <1>4, <2>1 DEF HeardIsPast
<1>7. Starts(started, revision + 1) /\ AnswersStay(started)
 BY <1>0, <1>1 DEF Starts, AnswersStay
<1>8. JournalKept' /\ revision' = revision + 1
 BY <1>1, <1>7, AppliesKeeps
<1>9. HeardIsPast' /\ passed' \in 0..Len(changes')
 BY <1>0, <1>1, <1>2 DEF HeardIsPast
<1>10. RowKept'
 <2>1. /\ MergeCached(message) \in Contents /\ MergeCached(message).shared = message.shared
       /\ message.known /\ kind # "poll" => MergeCached(message) = message
       /\ (~message.known /\ kind # "poll" /\ MergeCached(message).known
           /\ ~MergeCached(message).stale) =>
             /\ row.content.there /\ row.content.known /\ ~row.content.stale
             /\ MergeCached(message).own = row.content.own
  BY <1>0, <1>5, MergeFacts
 <2>2. /\ row' \in [content : Contents, revision : Nat] /\ row'.revision <= revision'
       /\ row'.content = MergeCached(message)
  BY <1>0, <1>1, <1>8, <2>1
 <2>3. passedOn' \in Contents /\ ~passedOn'.there
  BY <1>0, <1>1 DEF NoContent
 <2>4. CountsAreCurrent'
  BY <1>1, <1>5, <1>6, <2>1, <2>2, <2>3 DEF CountsAreCurrent, Counts
 <2>5. ASSUME kind' = "reactions" PROVE ChoiceIsCurrent'
  <3>1. kind # "poll" /\ OwnChoice(row.content)
   BY <1>0, <2>5 DEF ChoiceIsCurrent
  <3>2. CASE message.known
   <4>1. row'.content = message
    BY <2>1, <2>2, <3>1, <3>2
   <4> QED BY <1>1, <1>5, <1>6, <2>3, <4>1 DEF ChoiceIsCurrent, OwnChoice
  <3>3. CASE ~message.known
   <4> HIDE DEF message
   <4> QED BY <1>1, <2>1, <2>2, <2>3, <3>1, <3>3 DEF ChoiceIsCurrent, OwnChoice
  <3> QED BY <3>2, <3>3
 <2> QED BY <2>2, <2>3, <2>4, <2>5 DEF RowKept
<1> QED BY <1>0, <1>1, <1>8, <1>9, <1>10, TogetherKept

LEMMA LoadedKeeps ==
  ASSUME JournalInv, NEW r \in Request, Loaded(r), UNCHANGED kind PROVE JournalInv'
<1> DEFINE answer == Answered(r)
           u == AsUpdate(answer)
           k == Record(journal, [revision |-> revision + 1, update |-> u])
<1>0. /\ kind \in {"poll", "reactions"}
      /\ changes \in Seq(Change) /\ passed \in 0..Len(changes) /\ HeardIsPast
      /\ row \in [content : Contents, revision : Nat] /\ row.revision <= revision
      /\ revision \in Nat
      /\ CountsAreCurrent /\ (kind = "reactions" => ChoiceIsCurrent)
 BY DEF JournalInv, JournalShape
<1>1. /\ request[r].at = "answered" /\ r \in DOMAIN started
      /\ request' = [request EXCEPT ![r] = [at |-> "idle", answer |-> NoContent]]
      /\ Applies(k.kept, k.dropped, Without(r))
      /\ row' = IF row.content.there
                THEN [content |-> Applied(row.content, u), revision |-> revision + 1]
                ELSE row
      /\ passedOn' = answer /\ UNCHANGED <<changes, passed, heard>>
 BY DEF Loaded
<1>2. /\ answer \in Contents
      /\ ~answer.stale => answer.shared >= heard.shared
      /\ (kind = "reactions" /\ ~answer.stale /\ answer.known) => answer.own >= heard.own
 BY <1>1, AnswerIsCurrent
<1> HIDE DEF answer
<1>3. /\ u \in Updates /\ u.shared = answer.shared /\ u.own = answer.own
      /\ u.known = answer.known /\ u.stale = answer.stale
 BY <1>2 DEF AsUpdate, Updates, Contents
<1>4. k = Record(journal, Entry(u))
 BY DEF Entry
<1> HIDE DEF u, k
<1>5. /\ request' \in [Request -> [at : {"idle", "asked", "answered"}, answer : Contents]]
      /\ AnswersStay(Without(r)) /\ Starts(Without(r), revision + 1)
 BY <1>1, RequestsReset
<1>6. JournalKept' /\ revision' = revision + 1
 <2>1. heard'.shared \in Nat /\ heard'.own \in Nat /\ heard'.own = heard.own
  BY <1>0, <1>1 DEF HeardIsPast
 <2>2. u.stale \/ u.shared >= heard'.shared
  BY <1>1, <1>2, <1>3
 <2>3. kind = "reactions" /\ u.known /\ ~u.stale => u.own >= heard'.own
  BY <1>1, <1>2, <1>3
 <2> QED BY <1>1, <1>3, <1>4, <1>5, <2>1, <2>2, <2>3, RecordKeeps
<1>7. HeardIsPast'
 BY <1>0, <1>1 DEF HeardIsPast
<1>8. RowKept'
 <2>1. /\ Applied(row.content, u) \in Contents
       /\ Applied(row.content, u).shared = u.shared
       /\ Applied(row.content, u).own = IF u.known THEN u.own ELSE row.content.own
       /\ Applied(row.content, u).known <=> row.content.known \/ u.known
       /\ u.stale => Applied(row.content, u).stale
       /\ kind # "poll" =>
             (Applied(row.content, u).stale <=> u.stale \/ (~u.known /\ row.content.stale))
  BY <1>0, <1>3, AppliedFacts
 <2>2. /\ row' \in [content : Contents, revision : Nat] /\ row'.revision <= revision'
  BY <1>0, <1>1, <1>6, <2>1
 <2>3. passedOn' \in Contents /\ Counts(passedOn)' /\ (kind = "reactions" => OwnChoice(passedOn)')
  BY <1>1, <1>2 DEF Counts, OwnChoice
 <2>4. CountsAreCurrent'
  <3>1. CASE row.content.there
   <4>1. row'.content = Applied(row.content, u)
    BY <1>1, <3>1
   <4>2. ~row'.content.stale => row'.content.shared >= heard'.shared
    BY <1>1, <1>2, <1>3, <2>1, <4>1
   <4> QED BY <2>3, <4>2 DEF CountsAreCurrent, Counts
  <3>2. CASE ~row.content.there
   <4>1. row' = row
    BY <1>1, <3>2
   <4> QED BY <2>3, <3>2, <4>1 DEF CountsAreCurrent, Counts
  <3> QED BY <3>1, <3>2
 <2>5. ASSUME kind' = "reactions" PROVE ChoiceIsCurrent'
  <3>0. kind = "reactions" /\ kind # "poll"
   BY <2>5
  <3>1. CASE row.content.there
   <4>1. row'.content = Applied(row.content, u)
    BY <1>1, <3>1
   <4>2. CASE u.known
    <5>1. ~row'.content.stale => row'.content.own >= heard'.own
     BY <1>1, <1>2, <1>3, <2>1, <3>0, <4>1, <4>2
    <5> QED BY <2>3, <3>0, <5>1 DEF ChoiceIsCurrent, OwnChoice
   <4>3. CASE ~u.known
    <5>1. /\ row'.content.own = row.content.own
          /\ row'.content.known <=> row.content.known
          /\ ~row'.content.stale => ~row.content.stale
     BY <2>1, <3>0, <4>1, <4>3
    <5>2. OwnChoice(row.content) /\ heard' = heard
     BY <1>0, <1>1, <3>0 DEF ChoiceIsCurrent
    <5> QED BY <2>3, <3>0, <3>1, <5>1, <5>2 DEF ChoiceIsCurrent, OwnChoice
   <4> QED BY <4>2, <4>3
  <3>2. CASE ~row.content.there
   <4>1. row' = row
    BY <1>1, <3>2
   <4> QED BY <2>3, <3>0, <3>2, <4>1 DEF ChoiceIsCurrent, OwnChoice
  <3> QED BY <3>1, <3>2
 <2> QED BY <2>2, <2>3, <2>4, <2>5 DEF RowKept
<1>9. passed' \in 0..Len(changes') /\ changes' \in Seq(Change) /\ kind' \in {"poll", "reactions"}
 BY <1>0, <1>1
<1> QED BY <1>5, <1>6, <1>7, <1>8, <1>9, TogetherKept

LEMMA MessagesLoadedKeeps ==
  ASSUME JournalInv, NEW r \in Request, MessagesLoaded(r), UNCHANGED kind PROVE JournalInv'
<1> DEFINE answer == Answered(r)
<1>0. /\ kind \in {"poll", "reactions"}
      /\ changes \in Seq(Change) /\ passed \in 0..Len(changes) /\ HeardIsPast
      /\ row \in [content : Contents, revision : Nat] /\ row.revision <= revision
      /\ revision \in Nat
      /\ CountsAreCurrent /\ (kind = "reactions" => ChoiceIsCurrent)
 BY DEF JournalInv, JournalShape
<1>1. /\ request[r].at = "answered" /\ r \in DOMAIN started
      /\ request' = [request EXCEPT ![r] = [at |-> "idle", answer |-> NoContent]]
      /\ Applies(journal, 0, Without(r))
      /\ row' \in {row, [content |-> answer, revision |-> revision + 1]}
      /\ passedOn' = answer /\ UNCHANGED <<changes, passed, heard>>
 BY DEF MessagesLoaded
<1>2. /\ answer \in Contents
      /\ ~answer.stale => answer.shared >= heard.shared
      /\ (kind = "reactions" /\ ~answer.stale /\ answer.known) => answer.own >= heard.own
 BY <1>1, AnswerIsCurrent
<1> HIDE DEF answer
<1>3. /\ request' \in [Request -> [at : {"idle", "asked", "answered"}, answer : Contents]]
      /\ AnswersStay(Without(r)) /\ Starts(Without(r), revision + 1)
 BY <1>1, RequestsReset
<1>4. JournalKept' /\ revision' = revision + 1
 BY <1>1, <1>3, AppliesKeeps
<1>5. HeardIsPast'
 BY <1>0, <1>1 DEF HeardIsPast
<1>6. RowKept'
 <2>1. row' \in [content : Contents, revision : Nat] /\ row'.revision <= revision'
  BY <1>0, <1>1, <1>2, <1>4
 <2>2. row'.content \in {row.content, answer} /\ passedOn' = answer /\ heard' = heard
  BY <1>1
 <2>3. CountsAreCurrent'
  BY <1>0, <1>2, <2>2 DEF CountsAreCurrent, Counts
 <2>4. kind' = "reactions" => ChoiceIsCurrent'
  BY <1>0, <1>2, <2>2 DEF ChoiceIsCurrent, OwnChoice
 <2> QED BY <1>1, <1>2, <2>1, <2>3, <2>4 DEF RowKept
<1>7. passed' \in 0..Len(changes') /\ changes' \in Seq(Change) /\ kind' \in {"poll", "reactions"}
 BY <1>0, <1>1
<1> QED BY <1>3, <1>4, <1>5, <1>6, <1>7, TogetherKept

LEMMA JournalStays == ASSUME JournalInv, UNCHANGED journalVars PROVE JournalInv'
<1>1. UNCHANGED <<kind, changes, passed, request, revision, started, journal, overflow, row,
                 passedOn, heard>>
 BY DEF journalVars
<1> QED BY <1>1
        DEF JournalInv, JournalShape, HeardIsPast, AnswerFits, CountsAreCurrent, ChoiceIsCurrent,
            Counts, OwnChoice

LEMMA JournalSteps == JournalInv /\ [JournalNext]_journalVars => JournalInv'
<1> SUFFICES ASSUME JournalInv, [JournalNext]_journalVars PROVE JournalInv'
 OBVIOUS
<1>1. CASE UNCHANGED journalVars
 BY <1>1, JournalStays
<1>2. CASE JournalNext
 <2>1. UNCHANGED kind
  BY <1>2 DEF JournalNext
 <2>2. CASE ContentChanges \/ Changed \/ Edited \/ ContentInvalidated
  BY <2>1, <2>2, ContentChangesKeeps, ChangedKeeps, EditedKeeps, InvalidatedKeeps
 <2>3. CASE \E r \in Request : ContentAnswers(r) \/ Loading(r) \/ Fails(r)
  BY <2>1, <2>3, ContentAnswersKeeps, LoadingKeeps, FailsKeeps
 <2>4. CASE \E r \in Review : Loaded(r)
  BY <2>1, <2>4, LoadedKeeps DEF Request
 <2>5. CASE \E r \in History : MessagesLoaded(r)
  BY <2>1, <2>5, MessagesLoadedKeeps DEF Request
 <2> QED BY <1>2, <2>2, <2>3, <2>4, <2>5 DEF JournalNext
<1> QED BY <1>1, <1>2

LEMMA InvIsCurrent == JournalInv => ContentsAreCurrent
<1> SUFFICES ASSUME JournalInv PROVE JournalType
 BY DEF ContentsAreCurrent, JournalInv
<1> QED BY DEF JournalInv, JournalShape, Kept, Starts, InOrder, JournalType

(* ContentsAreCurrent, for a journal of any length and any number of changes, requests and
   gaps: an answer that was on its way while changes were told is lifted over those that the
   journal kept (Journal::since, cache/journal.rs), and where it had to drop one the answer
   is stale (Journal::stale), so that neither the store nor the terminal takes counts, or
   the own choice of a reaction, for current that are older than what was told. *)
THEOREM StoredContentsAreCurrent == JournalSpec => []ContentsAreCurrent
  BY JournalBegins, JournalSteps, InvIsCurrent, PTL DEF JournalSpec
===============================================================================
