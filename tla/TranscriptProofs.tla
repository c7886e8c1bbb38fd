--------------------------- MODULE TranscriptProofs ---------------------------
(****************************************************************************)
(* Proofs about what the user has before them and steers, for any number of   *)
(* everything. What the user sent is shown, once. The pages of a chat's        *)
(* history fit the updates: what a page does not know of is in                 *)
(* history_changes for as long as its request lasts. The composer and the      *)
(* command line belong to an open chat, the cursor stays on its own however    *)
(* the list of chats moves, keys do what was typed, and the picture that was   *)
(* pasted exists for as long as it is needed.                                  *)
(****************************************************************************)
EXTENDS Outbox, Transcript, Navigation, Keys, Assets, FiniteSetTheorems, WellFoundedInduction, TLAPS

-------------------------------------------------------------------------------
(* Numbers. *)

\* Any natural numbers have a least one.
LEMMA LeastFound ==
  ASSUME NEW S \in SUBSET Nat, S # {}
  PROVE  \E x \in S : \A y \in S : x <= y
<1>1. \E x \in S : \A y \in S : ~ (<<y, x>> \in OpToRel(<, Nat))
 BY WFMin, NatLessThanWellFounded, Zenon
<1>2. \A x, y \in Nat : x <= y \/ <<y, x>> \in OpToRel(<, Nat)
 <2>1. \A x, y \in Nat : y < x => <<y, x>> \in OpToRel(<, Nat)
  BY Zenon DEF OpToRel
 <2>2. \A x, y \in Nat : x <= y \/ y < x
  OBVIOUS
 <2> QED BY <2>1, <2>2, Zenon
<1> QED BY <1>1, <1>2, Zenon

-------------------------------------------------------------------------------
(* The outbox. *)

Sent == [contents : Texts \cup Files, at : {"asked", "carried", "answered"}]

OutboxShape ==
    /\ composer \in Texts \cup {NoText}
    /\ sends \in Seq(Sent)
    /\ DOMAIN entries \subseteq DOMAIN sends
    /\ \A n \in DOMAIN entries : entries[n] \in {"pending", "sent", "failed"}
    /\ delivered \in Seq(Nat) /\ \A m \in DOMAIN delivered : delivered[m] \in DOMAIN sends
    /\ shown \subseteq DOMAIN delivered
    /\ heard \in 0 .. Len(delivered)

Arrived(n) == \E m \in DOMAIN delivered : delivered[m] = n
LooksArrived(n) == \E m \in DOMAIN delivered : Contents(delivered[m]) = Contents(n)

\* An answer is no longer awaited once it came, and tells what the server did.
EntriesAreSettled ==
    /\ \A n \in DOMAIN sends : sends[n].at = "carried" => Arrived(n)
    /\ \A n \in DOMAIN entries :
          /\ entries[n] = "pending" => sends[n].at # "answered"
          /\ entries[n] = "sent" => Arrived(n)

\* Whatever left the transcript did so for a reason.
NoneVanishes ==
    \A n \in DOMAIN sends :
        n \in DOMAIN entries \/ n \in replaced \cup dropped \/ LooksArrived(n)

\* A local message whose contents are its own is gone when the message is shown.
ShownOnce == \A n \in DOMAIN entries : Once(n) => \A m \in shown : delivered[m] # n

OutboxInv == OutboxShape /\ EntriesAreSettled /\ NoneVanishes /\ ShownOnce

LEMMA SendsAreNumbered ==
  ASSUME OutboxShape
  PROVE  /\ DOMAIN sends = 1 .. Len(sends) /\ Len(sends) \in Nat
         /\ DOMAIN delivered = 1 .. Len(delivered) /\ Len(delivered) \in Nat
         /\ 0 \notin DOMAIN entries /\ DOMAIN entries \subseteq Nat
         /\ \A n \in DOMAIN sends : sends[n] \in Sent
  BY DEF OutboxShape

\* Steps that touch neither the messages nor what is known of them.
LEMMA QuietStep ==
  ASSUME OutboxInv, UNCHANGED <<entries, sends, delivered, shown, replaced, dropped>>,
         composer' \in Texts \cup {NoText}, heard' \in 0 .. Len(delivered)
  PROVE  OutboxInv'
<1>1. OutboxShape'
 BY DEF OutboxInv, OutboxShape
<1>2. EntriesAreSettled' /\ NoneVanishes' /\ ShownOnce'
 BY DEF OutboxInv, EntriesAreSettled, NoneVanishes, ShownOnce, Arrived, LooksArrived,
        Once, Contents
<1> QED BY <1>1, <1>2 DEF OutboxInv

\* A new message stands in the place of another, or of none.
LEMMA AddStep ==
  ASSUME OutboxInv, NEW c \in Texts \cup Files, NEW r,
         sends' = Append(sends, [contents |-> c, at |-> "asked"]),
         DOMAIN entries' = (DOMAIN entries \ {r}) \cup {Len(sends) + 1},
         \A k \in DOMAIN entries' :
             entries'[k] = IF k = Len(sends) + 1 THEN "pending" ELSE entries[k],
         replaced \cup ({r} \cap DOMAIN entries) \subseteq replaced',
         composer' \in Texts \cup {NoText},
         UNCHANGED <<delivered, shown, heard, dropped>>
  PROVE  OutboxInv'
<1> DEFINE n == Len(sends) + 1
<1>0. OutboxShape /\ EntriesAreSettled /\ NoneVanishes /\ ShownOnce
 BY DEF OutboxInv
<1>1. /\ sends' \in Seq(Sent) /\ DOMAIN sends' = DOMAIN sends \cup {n} /\ n \notin DOMAIN sends
      /\ \A k \in DOMAIN sends : sends'[k] = sends[k]
      /\ sends'[n] = [contents |-> c, at |-> "asked"]
 BY <1>0 DEF OutboxShape, Sent
<1>2. \A k \in DOMAIN entries' : k = n \/ (k \in DOMAIN entries /\ entries'[k] = entries[k])
 OBVIOUS
<1>3. \A m \in DOMAIN delivered : delivered[m] \in DOMAIN sends /\ delivered[m] # n
 BY <1>0, <1>1 DEF OutboxShape
<1> HIDE DEF n
<1>4. OutboxShape'
 <2>1. DOMAIN entries' \subseteq DOMAIN sends'
  BY <1>0, <1>1, <1>2 DEF OutboxShape
 <2>2. \A k \in DOMAIN entries' : entries'[k] \in {"pending", "sent", "failed"}
  BY <1>0, <1>2 DEF OutboxShape, n
 <2> QED BY <1>0, <1>1, <1>3, <2>1, <2>2 DEF OutboxShape
<1>5. \A k : Arrived(k)' <=> Arrived(k)
 BY DEF Arrived
<1>6. EntriesAreSettled'
 <2>1. \A k \in DOMAIN sends' : sends'[k].at = "carried" => Arrived(k)'
  BY <1>0, <1>1, <1>5 DEF EntriesAreSettled
 <2>2. entries'[n] = "pending" /\ sends'[n].at = "asked"
  BY <1>1 DEF n
 <2>3. \A k \in DOMAIN entries' : k = n \/ k \in DOMAIN sends
  BY <1>0, <1>2 DEF OutboxShape
 <2> QED BY <1>0, <1>1, <1>2, <1>5, <2>1, <2>2, <2>3 DEF EntriesAreSettled
<1>7. NoneVanishes'
 <2>1. \A k \in DOMAIN sends : LooksArrived(k) => LooksArrived(k)'
  BY <1>1, <1>3 DEF LooksArrived, Contents
 <2>2. n \in DOMAIN entries'
  BY DEF n
 <2>3. ASSUME NEW k \in DOMAIN sends
       PROVE  k \in DOMAIN entries' \/ k \in replaced' \cup dropped' \/ LooksArrived(k)'
  BY <1>0, <2>1 DEF NoneVanishes
 <2> QED BY <1>1, <2>2, <2>3 DEF NoneVanishes
<1>8. ShownOnce'
 <2>1. ASSUME NEW k \in DOMAIN sends, Once(k)' PROVE Once(k)
  BY <1>1, <2>1 DEF Once, Contents
 <2>2. shown \subseteq DOMAIN delivered
  BY <1>0 DEF OutboxShape
 <2> QED BY <1>0, <1>2, <1>3, <2>1, <2>2 DEF ShownOnce, OutboxShape
<1> QED BY <1>4, <1>6, <1>7, <1>8 DEF OutboxInv

\* What changes of the n-th message is how it is sent, and how it looks.
LEMMA AtFacts ==
  ASSUME OutboxShape, NEW n \in DOMAIN sends, NEW a \in {"asked", "carried", "answered"},
         sends' = [sends EXCEPT ![n].at = a]
  PROVE  /\ sends' \in Seq(Sent) /\ DOMAIN sends' = DOMAIN sends /\ Len(sends') = Len(sends)
         /\ \A k \in DOMAIN sends : /\ Contents(k)' = Contents(k)
                                    /\ sends'[k].at = IF k = n THEN a ELSE sends[k].at
         /\ \A k \in DOMAIN sends : Once(k)' <=> Once(k)
<1>1. sends \in Seq(Sent) /\ [sends[n] EXCEPT !.at = a] \in Sent
 <2>1. sends[n] \in Sent
  BY SendsAreNumbered
 <2> QED BY <2>1 DEF OutboxShape, Sent
<1>2. sends' = [sends EXCEPT ![n] = [sends[n] EXCEPT !.at = a]]
 OBVIOUS
<1>3. sends' \in Seq(Sent) /\ DOMAIN sends' = DOMAIN sends /\ Len(sends') = Len(sends)
 BY <1>1, <1>2
<1>4. \A k \in DOMAIN sends : /\ Contents(k)' = Contents(k)
                              /\ sends'[k].at = IF k = n THEN a ELSE sends[k].at
 BY <1>1, <1>2 DEF Contents, Sent
<1>5. \A k \in DOMAIN sends : Once(k)' <=> Once(k)
 BY <1>3, <1>4 DEF Once
<1> QED BY <1>3, <1>4, <1>5

LEMMA StatusStep ==
  ASSUME OutboxInv, NEW n \in DOMAIN sends, NEW a \in {"asked", "answered"},
         NEW d \in {"pending", "sent", "failed"},
         d = "pending" => a # "answered", d = "sent" => Arrived(n),
         sends' = [sends EXCEPT ![n].at = a],
         entries' = IF n \in DOMAIN entries THEN With(entries, n, d) ELSE entries,
         composer' \in Texts \cup {NoText},
         UNCHANGED <<delivered, shown, heard, replaced, dropped>>
  PROVE  OutboxInv'
<1>0. OutboxShape /\ EntriesAreSettled /\ NoneVanishes /\ ShownOnce
 BY DEF OutboxInv
<1>1. /\ sends' \in Seq(Sent) /\ DOMAIN sends' = DOMAIN sends
      /\ \A k \in DOMAIN sends : /\ Contents(k)' = Contents(k)
                                 /\ sends'[k].at = IF k = n THEN a ELSE sends[k].at
      /\ \A k \in DOMAIN sends : Once(k)' <=> Once(k)
 BY <1>0, AtFacts
<1>2. /\ DOMAIN entries' = DOMAIN entries
      /\ \A k \in DOMAIN entries : entries'[k] = IF k = n THEN d ELSE entries[k]
 BY DEF With
<1>3. OutboxShape'
 BY <1>0, <1>1, <1>2 DEF OutboxShape
<1>4. \A k : Arrived(k)' <=> Arrived(k)
 BY DEF Arrived
<1>5. EntriesAreSettled'
 <2>1. \A k \in DOMAIN sends' : sends'[k].at = "carried" => Arrived(k)'
  BY <1>0, <1>1, <1>4 DEF EntriesAreSettled
 <2>2. DOMAIN entries \subseteq DOMAIN sends
  BY <1>0 DEF OutboxShape
 <2> QED BY <1>0, <1>1, <1>2, <1>4, <2>1, <2>2 DEF EntriesAreSettled
<1>6. NoneVanishes'
 <2>1. \A k \in DOMAIN sends : LooksArrived(k)' <=> LooksArrived(k)
  BY <1>0, <1>1 DEF LooksArrived, OutboxShape
 <2> QED BY <1>0, <1>1, <1>2, <2>1 DEF NoneVanishes
<1>7. ShownOnce'
 BY <1>0, <1>1, <1>2 DEF ShownOnce, OutboxShape
<1> QED BY <1>3, <1>5, <1>6, <1>7 DEF OutboxInv

LEMMA CarryStep ==
  ASSUME OutboxInv, NEW n \in DOMAIN sends, CarryOut(n)
  PROVE  OutboxInv'
<1>0. OutboxShape /\ EntriesAreSettled /\ NoneVanishes /\ ShownOnce
 BY DEF OutboxInv
<1>1. /\ sends' \in Seq(Sent) /\ DOMAIN sends' = DOMAIN sends
      /\ \A k \in DOMAIN sends : /\ Contents(k)' = Contents(k)
                                 /\ sends'[k].at = IF k = n THEN "carried" ELSE sends[k].at
      /\ \A k \in DOMAIN sends : Once(k)' <=> Once(k)
 BY <1>0, AtFacts DEF CarryOut
<1>2. /\ delivered' \in Seq(Nat) /\ Len(delivered') = Len(delivered) + 1
      /\ DOMAIN delivered' = DOMAIN delivered \cup {Len(delivered) + 1}
      /\ \A m \in DOMAIN delivered : delivered'[m] = delivered[m]
      /\ delivered'[Len(delivered) + 1] = n
 <2>1. delivered' = Append(delivered, n) /\ delivered \in Seq(Nat) /\ n \in Nat
  BY <1>0, SendsAreNumbered DEF CarryOut, OutboxShape
 <2> QED BY <2>1
<1>3. UNCHANGED <<composer, retry, entries, retries, shown, heard, replaced, dropped>>
 BY DEF CarryOut, outboxTerminal, outboxGhosts
<1>4. OutboxShape'
 <2>1. heard' \in 0 .. Len(delivered')
  BY <1>0, <1>2, <1>3, SendsAreNumbered DEF OutboxShape
 <2> QED BY <1>0, <1>1, <1>2, <1>3, <2>1 DEF OutboxShape
<1>5. Arrived(n)' /\ \A k : Arrived(k) => Arrived(k)'
 BY <1>2 DEF Arrived
<1>6. EntriesAreSettled'
 <2>1. DOMAIN entries \subseteq DOMAIN sends
  BY <1>0 DEF OutboxShape
 <2> QED BY <1>0, <1>1, <1>3, <1>5, <2>1 DEF EntriesAreSettled
<1>7. NoneVanishes'
 <2>1. \A k \in DOMAIN sends : LooksArrived(k) => LooksArrived(k)'
  BY <1>0, <1>1, <1>2 DEF LooksArrived, OutboxShape
 <2> QED BY <1>0, <1>1, <1>3, <2>1 DEF NoneVanishes
<1>8. ShownOnce'
 <2>1. shown \subseteq DOMAIN delivered /\ DOMAIN entries \subseteq DOMAIN sends
  BY <1>0 DEF OutboxShape
 <2> QED BY <1>0, <1>1, <1>2, <1>3, <2>1 DEF ShownOnce
<1> QED BY <1>4, <1>6, <1>7, <1>8 DEF OutboxInv

\* The last of the messages that an entry became is one of them.
LEMMA MessageFound ==
  ASSUME OutboxShape, NEW n, Arrived(n)
  PROVE  MessageOf(n) \in DOMAIN delivered /\ delivered[MessageOf(n)] = n
<1> DEFINE of == {m \in DOMAIN delivered : delivered[m] = n}
           fromEnd == {Len(delivered) - m : m \in of}
<1>1. /\ of # {} /\ of \subseteq 1 .. Len(delivered) /\ Len(delivered) \in Nat
 BY SendsAreNumbered DEF Arrived
<1>2. fromEnd \subseteq Nat /\ fromEnd # {}
 <2>1. \A m \in of : Len(delivered) - m \in Nat
  BY <1>1
 <2> QED BY <1>1, <2>1
<1>3. PICK d \in fromEnd : \A e \in fromEnd : d <= e
 BY <1>2, LeastFound
<1>4. PICK m \in of : d = Len(delivered) - m
 BY <1>3
<1>5. ASSUME NEW k \in of PROVE k <= m
 <2>1. Len(delivered) - k \in fromEnd
  OBVIOUS
 <2>2. d <= Len(delivered) - k
  BY <1>3, <2>1
 <2> QED BY <1>1, <1>4, <2>2
<1>6. /\ m \in DOMAIN delivered /\ delivered[m] = n
      /\ \A k \in DOMAIN delivered : delivered[k] = n => k <= m
 BY <1>4, <1>5
<1> QED BY <1>6 DEF MessageOf

LEMMA ConfirmStep ==
  ASSUME OutboxInv, NEW n \in DOMAIN sends, MessageSent(n)
  PROVE  OutboxInv'
<1>0. OutboxShape /\ EntriesAreSettled /\ NoneVanishes /\ ShownOnce
 BY DEF OutboxInv
<1>1. /\ sends' \in Seq(Sent) /\ DOMAIN sends' = DOMAIN sends
      /\ \A k \in DOMAIN sends : /\ Contents(k)' = Contents(k)
                                 /\ sends'[k].at = IF k = n THEN "answered" ELSE sends[k].at
      /\ \A k \in DOMAIN sends : Once(k)' <=> Once(k)
 BY <1>0, AtFacts DEF MessageSent, Answered
<1>2. /\ DOMAIN entries' = DOMAIN entries \ {n}
      /\ \A k \in DOMAIN entries' : entries'[k] = entries[k]
      /\ shown' = shown \cup {MessageOf(n)}
      /\ UNCHANGED <<composer, delivered, heard, replaced, dropped>>
 BY DEF MessageSent, Without, outboxGhosts
<1>3. Arrived(n)
 BY <1>0 DEF MessageSent, EntriesAreSettled
<1>4. MessageOf(n) \in DOMAIN delivered /\ delivered[MessageOf(n)] = n
 BY <1>0, <1>3, MessageFound
<1>5. OutboxShape'
 BY <1>0, <1>1, <1>2, <1>4 DEF OutboxShape
<1>6. \A k : Arrived(k)' <=> Arrived(k)
 BY <1>2 DEF Arrived
<1>7. EntriesAreSettled'
 <2>1. DOMAIN entries \subseteq DOMAIN sends
  BY <1>0 DEF OutboxShape
 <2> QED BY <1>0, <1>1, <1>2, <1>6, <2>1 DEF EntriesAreSettled
<1>8. NoneVanishes'
 <2>1. \A k \in DOMAIN sends : LooksArrived(k)' <=> LooksArrived(k)
  BY <1>0, <1>1, <1>2 DEF LooksArrived, OutboxShape
 <2>2. LooksArrived(n)
  BY <1>3 DEF Arrived, LooksArrived
 <2> QED BY <1>0, <1>1, <1>2, <2>1, <2>2 DEF NoneVanishes
<1>9. ShownOnce'
 <2>1. DOMAIN entries \subseteq DOMAIN sends
  BY <1>0 DEF OutboxShape
 <2> QED BY <1>0, <1>1, <1>2, <1>4, <2>1 DEF ShownOnce
<1> QED BY <1>5, <1>7, <1>8, <1>9 DEF OutboxInv

\* Messages of the server take the place of local ones.
LEMMA OutboxClearStep ==
  ASSUME OutboxInv, DOMAIN entries' \subseteq DOMAIN entries,
         \A k \in DOMAIN entries' : entries'[k] = entries[k],
         \A k \in DOMAIN entries : k \in DOMAIN entries' \/ LooksArrived(k),
         composer' \in {composer, NoText},
         shown' \subseteq DOMAIN delivered, heard' \in 0 .. Len(delivered),
         \A m \in shown' : m \in shown \/ ~Once(delivered[m]) \/ delivered[m] \notin DOMAIN entries',
         UNCHANGED <<sends, delivered, replaced, dropped>>
  PROVE  OutboxInv'
<1>0. OutboxShape /\ EntriesAreSettled /\ NoneVanishes /\ ShownOnce
 BY DEF OutboxInv
<1>1. OutboxShape'
 BY <1>0 DEF OutboxShape
<1>2. \A k : /\ Arrived(k)' <=> Arrived(k)
             /\ LooksArrived(k)' <=> LooksArrived(k)
             /\ Once(k)' <=> Once(k)
 BY DEF Arrived, LooksArrived, Once, Contents
<1>3. EntriesAreSettled'
 BY <1>0, <1>2 DEF EntriesAreSettled
<1>4. NoneVanishes'
 BY <1>0, <1>2 DEF NoneVanishes
<1>5. ShownOnce'
 BY <1>0, <1>2 DEF ShownOnce
<1> QED BY <1>1, <1>3, <1>4, <1>5 DEF OutboxInv

LEMMA OutboxGapStep ==
  ASSUME OutboxInv, OutboxGap
  PROVE  OutboxInv'
<1>0. OutboxShape /\ EntriesAreSettled /\ NoneVanishes /\ ShownOnce
 BY DEF OutboxInv
<1>1. /\ DOMAIN entries' = {} /\ shown' = {} /\ dropped' = dropped \cup DOMAIN entries
      /\ UNCHANGED <<composer, sends, delivered, heard, replaced>>
 BY DEF OutboxGap
<1>2. OutboxShape'
 BY <1>0, <1>1 DEF OutboxShape
<1>3. \A k : (Arrived(k)' <=> Arrived(k)) /\ (LooksArrived(k)' <=> LooksArrived(k))
 BY <1>1 DEF Arrived, LooksArrived, Contents
<1>4. EntriesAreSettled' /\ NoneVanishes' /\ ShownOnce'
 BY <1>0, <1>1, <1>3 DEF EntriesAreSettled, NoneVanishes, ShownOnce
<1> QED BY <1>2, <1>4 DEF OutboxInv

-------------------------------------------------------------------------------
(* The server's messages are compared with the local ones, one or a page. *)

\* What a comparison with messages of the server makes of what is shown locally.
ClearedFrom(l, were) ==
    /\ DOMAIN l.entries \subseteq DOMAIN were.entries
    /\ \A k \in DOMAIN l.entries : l.entries[k] = were.entries[k]
    /\ \A k \in DOMAIN were.entries : k \in DOMAIN l.entries \/ LooksArrived(k)
    /\ l.composer \in {were.composer, NoText}

LEMMA ReconcileClears ==
  ASSUME OutboxShape, NEW m \in DOMAIN delivered, NEW l,
         DOMAIN l.entries \subseteq DOMAIN sends
  PROVE  /\ ClearedFrom(Reconcile(l, Contents(delivered[m])), l)
         /\ Once(delivered[m]) =>
              delivered[m] \notin DOMAIN Reconcile(l, Contents(delivered[m])).entries
<1> DEFINE c == Contents(delivered[m])
           same == {n \in DOMAIN l.entries : Contents(n) = c}
<1>0. same \subseteq Nat /\ delivered[m] \in DOMAIN sends /\ 0 \notin DOMAIN sends
 BY SendsAreNumbered DEF OutboxShape
<1>1. CASE same = {}
 <2>1. Reconcile(l, c) = l
  BY <1>1 DEF Reconcile, Matching
 <2>2. delivered[m] \notin DOMAIN l.entries
  BY <1>1
 <2> HIDE DEF c
 <2> QED BY <2>1, <2>2 DEF ClearedFrom, c
<1>2. CASE same # {}
 <2>1. \E n \in same : \A k \in same : n <= k
  BY <1>0, <1>2, LeastFound
 <2>2. Matching(l, c) \in same
  BY <1>2, <2>1 DEF Matching
 <2>3. PICK n \in same : n = Matching(l, c)
  BY <2>2
 <2>4. n # 0
  BY <1>0
 <2> DEFINE r == Reconciled(l, n, c)
 <2>5. Reconcile(l, c) = r
  BY <2>3, <2>4 DEF Reconcile
 <2>6. /\ DOMAIN r.entries = DOMAIN l.entries \ {n}
       /\ \A k \in DOMAIN r.entries : r.entries[k] = l.entries[k]
       /\ r.composer \in {l.composer, NoText}
  BY DEF Reconciled
 <2>7. LooksArrived(n)
  BY <2>3 DEF LooksArrived
 <2>8. Once(delivered[m]) => n = delivered[m]
  BY <1>0, <2>3 DEF Once
 <2> HIDE DEF r, c
 <2>9. ClearedFrom(r, l)
  BY <2>6, <2>7 DEF ClearedFrom
 <2> QED BY <2>5, <2>6, <2>8, <2>9 DEF c
<1> QED BY <1>1, <1>2

LEMMA OutboxToldStep ==
  ASSUME OutboxInv, Told
  PROVE  OutboxInv'
<1>0. OutboxShape
 BY DEF OutboxInv
<1>1. /\ heard' = heard + 1 /\ heard' \in DOMAIN delivered /\ heard' \in 0 .. Len(delivered)
      /\ shown' = shown \cup {heard'} /\ UNCHANGED <<sends, delivered, replaced, dropped>>
 BY <1>0, SendsAreNumbered DEF Told, OutboxShape, outboxGhosts
<1>2. shown \subseteq DOMAIN delivered /\ DOMAIN entries \subseteq DOMAIN sends
 BY <1>0 DEF OutboxShape
<1>3. CASE heard' \in shown
 <2>1. entries' = entries /\ composer' = composer
  BY <1>3 DEF Told, LocalBecomes, Local
 <2> QED BY <1>1, <1>2, <1>3, <2>1, OutboxClearStep
<1>4. CASE heard' \notin shown
 <2> DEFINE l == Reconcile(Local, Contents(delivered[heard']))
 <2>1. LocalBecomes(l)
  BY <1>4 DEF Told
 <2>2. Local.entries = entries /\ Local.composer = composer
  BY DEF Local
 <2>3. ClearedFrom(l, Local) /\ (Once(delivered[heard']) => delivered[heard'] \notin DOMAIN l.entries)
  BY <1>0, <1>1, <1>2, <2>2, ReconcileClears
 <2>4. entries' = l.entries /\ composer' = l.composer
  BY <2>1 DEF LocalBecomes
 <2> HIDE DEF l
 <2> QED BY <1>1, <1>2, <2>2, <2>3, <2>4, OutboxClearStep DEF ClearedFrom
<1> QED BY <1>3, <1>4

\* merge_history, by the pages it has compared so far.
Merges(f, last) ==
    f = [m \in 0 .. last |-> IF m = 0 THEN Local
                                      ELSE Reconcile(f[m - 1], Contents(delivered[m]))]

LEMMA MergeExists ==
  ASSUME NEW last \in Nat
  PROVE  \E f : Merges(f, last)
<1> DEFINE Stuck == {n \in Nat : ~ \E f : Merges(f, n)}
<1> SUFFICES Stuck = {}
 OBVIOUS
<1> SUFFICES ASSUME Stuck # {} PROVE FALSE
 OBVIOUS
<1>1. PICK n \in Stuck : \A k \in Stuck : n <= k
 <2>1. Stuck \subseteq Nat
  OBVIOUS
 <2> HIDE DEF Stuck
 <2> QED BY <2>1, LeastFound
<1>2. n \in Nat /\ ~ \E f : Merges(f, n)
 OBVIOUS
<1>3. n # 0
 <2>1. Merges([m \in 0 .. 0 |-> Local], 0)
  BY DEF Merges
 <2> QED BY <1>2, <2>1
<1>4. n - 1 \in Nat /\ n - 1 \notin Stuck
 BY <1>1, <1>2, <1>3
<1>5. PICK f : Merges(f, n - 1)
 BY <1>4
<1> HIDE DEF Stuck
<1> DEFINE next == Reconcile(f[n - 1], Contents(delivered[n]))
           g == [m \in 0 .. n |-> IF m = n THEN next ELSE f[m]]
<1>6. \A m \in 0 .. n - 1 :
        f[m] = IF m = 0 THEN Local ELSE Reconcile(f[m - 1], Contents(delivered[m]))
 BY <1>5 DEF Merges
<1>7. \A m \in 0 .. n : m = n \/ m \in 0 .. n - 1
 BY <1>2
<1>8. \A m \in 0 .. n : m # 0 => g[m - 1] = f[m - 1]
 BY <1>2
<1>9. \A m \in 0 .. n :
        g[m] = IF m = 0 THEN Local ELSE Reconcile(g[m - 1], Contents(delivered[m]))
 <2> SUFFICES ASSUME NEW m \in 0 .. n
              PROVE  g[m] = IF m = 0 THEN Local
                                     ELSE Reconcile(g[m - 1], Contents(delivered[m]))
  OBVIOUS
 <2>1. CASE m = n
  <3>1. g[m] = next /\ g[m - 1] = f[n - 1]
   BY <1>3, <1>8, <2>1
  <3> HIDE DEF g
  <3> QED BY <1>3, <2>1, <3>1
 <2>2. CASE m # n
  <3>1. m \in 0 .. n - 1 /\ g[m] = f[m]
   BY <1>7, <2>2
  <3>2. m # 0 => g[m - 1] = f[m - 1]
   BY <1>8
  <3> HIDE DEF g
  <3> QED BY <1>6, <3>1, <3>2
 <2> QED BY <2>1, <2>2
<1>10. g = [m \in 0 .. n |-> g[m]]
 OBVIOUS
<1> HIDE DEF g
<1>11. Merges(g, n)
 BY <1>9, <1>10 DEF Merges
<1> QED BY <1>2, <1>11

LEMMA MergeClears ==
  ASSUME OutboxShape, NEW last \in 0 .. Len(delivered), NEW f, Merges(f, last)
  PROVE  /\ ClearedFrom(f[last], Local)
         /\ \A k \in 1 .. last : Once(delivered[k]) => delivered[k] \notin DOMAIN f[last].entries
<1> DEFINE Right(m) ==
             /\ ClearedFrom(f[m], Local)
             /\ \A k \in 1 .. m : Once(delivered[k]) => delivered[k] \notin DOMAIN f[m].entries
           Wrong == {m \in 0 .. last : ~Right(m)}
<1>0. last \in Nat /\ Len(delivered) \in Nat /\ last <= Len(delivered)
 BY SendsAreNumbered
<1>1. \A m \in 0 .. last :
        f[m] = IF m = 0 THEN Local ELSE Reconcile(f[m - 1], Contents(delivered[m]))
 BY DEF Merges
<1>2. Right(0)
 <2>1. f[0] = Local
  BY <1>0, <1>1
 <2> QED BY <2>1 DEF ClearedFrom
<1>3. ASSUME NEW m \in 1 .. last, Right(m - 1) PROVE Right(m)
 <2> DEFINE l == f[m - 1]
 <2>1. m \in DOMAIN delivered /\ f[m] = Reconcile(l, Contents(delivered[m]))
  BY <1>0, <1>1, SendsAreNumbered
 <2>2. Local.entries = entries
  BY DEF Local
 <2>3. DOMAIN l.entries \subseteq DOMAIN sends
  BY <1>3, <2>2 DEF ClearedFrom, OutboxShape
 <2> HIDE DEF l
 <2>4. ClearedFrom(f[m], l) /\ (Once(delivered[m]) => delivered[m] \notin DOMAIN f[m].entries)
  BY <2>1, <2>3, ReconcileClears
 <2>5. ClearedFrom(l, Local)
  BY <1>3 DEF l
 <2>6. ClearedFrom(f[m], Local)
  BY <2>4, <2>5 DEF ClearedFrom
 <2>7. \A k \in 1 .. m : k = m \/ k \in 1 .. m - 1
  OBVIOUS
 <2>8. \A k \in 1 .. m - 1 : Once(delivered[k]) => delivered[k] \notin DOMAIN l.entries
  BY <1>3 DEF l
 <2> QED BY <2>4, <2>6, <2>7, <2>8 DEF ClearedFrom
<1> SUFFICES Wrong = {}
 BY <1>0
<1> SUFFICES ASSUME Wrong # {} PROVE FALSE
 OBVIOUS
<1>4. PICK m \in Wrong : \A k \in Wrong : m <= k
 <2>1. Wrong \subseteq Nat
  BY <1>0
 <2> HIDE DEF Wrong
 <2> QED BY <2>1, LeastFound
<1>5. m \in 0 .. last /\ ~Right(m)
 OBVIOUS
<1> HIDE DEF Right
<1>6. m # 0
 BY <1>2, <1>5
<1>7. m \in 1 .. last /\ m - 1 \in 0 .. last /\ ~(m <= m - 1)
 BY <1>0, <1>5, <1>6
<1>8. Right(m - 1)
 BY <1>4, <1>7
<1> QED BY <1>3, <1>5, <1>7, <1>8

LEMMA OutboxHistoryStep ==
  ASSUME OutboxInv, NEW last \in 0 .. Len(delivered), HistoryArrives(last)
  PROVE  OutboxInv'
<1>0. OutboxShape /\ last \in Nat /\ last <= Len(delivered) /\ DOMAIN delivered = 1 .. Len(delivered)
 BY SendsAreNumbered DEF OutboxInv
<1>1. \E f : Merges(f, last) /\ LocalBecomes(f[last])
 <2>1. \E f : Merges(f, last)
  BY <1>0, MergeExists
 <2> QED BY <2>1, Zenon DEF HistoryArrives, Merges
<1>2. PICK f : Merges(f, last) /\ LocalBecomes(f[last])
 BY <1>1
<1>3. /\ ClearedFrom(f[last], Local)
      /\ \A k \in 1 .. last : Once(delivered[k]) => delivered[k] \notin DOMAIN f[last].entries
 BY <1>0, <1>2, MergeClears
<1>4. /\ shown' = 1 .. last /\ shown' \subseteq DOMAIN delivered
      /\ heard' \in 0 .. Len(delivered) /\ UNCHANGED <<sends, delivered, replaced, dropped>>
 BY <1>0 DEF HistoryArrives, outboxGhosts, OutboxShape
<1>5. entries' = f[last].entries /\ composer' = f[last].composer
 BY <1>2 DEF LocalBecomes
<1>6. Local.entries = entries /\ Local.composer = composer
 BY DEF Local
<1> QED BY <1>3, <1>4, <1>5, <1>6, OutboxClearStep DEF ClearedFrom

-------------------------------------------------------------------------------
LEMMA OutboxStep ==
  ASSUME OutboxInv, [OutboxNext]_outboxVars
  PROVE  OutboxInv'
<1>0. OutboxShape /\ EntriesAreSettled
 BY DEF OutboxInv
<1>a. /\ composer \in Texts \cup {NoText} /\ heard \in 0 .. Len(delivered)
      /\ 0 \notin DOMAIN entries /\ DOMAIN entries \subseteq DOMAIN sends
      /\ Len(sends) + 1 \notin DOMAIN sends
 BY <1>0, SendsAreNumbered DEF OutboxShape
<1>1. ASSUME NEW text \in Texts \cup {NoText}, Types(text) PROVE OutboxInv'
 BY <1>a, <1>1, QuietStep DEF Types, outboxGhosts
<1>2. CASE SendDraft
 <2>1. /\ composer \in Texts
       /\ sends' = Append(sends, [contents |-> composer, at |-> "asked"])
       /\ composer' = NoText /\ replaced' = replaced \cup ({retry} \cap DOMAIN entries)
       /\ UNCHANGED <<delivered, shown, heard, dropped>>
  BY <1>a, <1>2 DEF SendDraft
 <2>2. /\ DOMAIN entries' = (DOMAIN entries \ {retry}) \cup {Len(sends) + 1}
       /\ \A k \in DOMAIN entries' :
             entries'[k] = IF k = Len(sends) + 1 THEN "pending" ELSE entries[k]
  BY <1>2 DEF SendDraft, With, Without
 <2> QED BY <2>1, <2>2, AddStep
<1>3. ASSUME NEW staged \in Files, SendStaged(staged) PROVE OutboxInv'
 <2>1. /\ sends' = Append(sends, [contents |-> staged, at |-> "asked"])
       /\ composer' = NoText
       /\ UNCHANGED <<delivered, shown, heard, replaced, dropped>>
  BY <1>3 DEF SendStaged, outboxGhosts
 <2>2. /\ DOMAIN entries' = (DOMAIN entries \ {0}) \cup {Len(sends) + 1}
       /\ \A k \in DOMAIN entries' :
             entries'[k] = IF k = Len(sends) + 1 THEN "pending" ELSE entries[k]
  BY <1>3, <1>a DEF SendStaged, With
 <2>3. replaced \cup ({0} \cap DOMAIN entries) \subseteq replaced'
  BY <1>a, <2>1
 <2> QED BY <2>1, <2>2, <2>3, AddStep
<1>4. ASSUME NEW n \in DOMAIN sends, RetryAttachment(n) PROVE OutboxInv'
 <2>1. /\ n \in DOMAIN entries /\ entries' = With(entries, n, "pending")
       /\ sends' = [sends EXCEPT ![n].at = "asked"]
       /\ UNCHANGED <<composer, delivered, shown, heard, replaced, dropped>>
  BY <1>4 DEF RetryAttachment, outboxGhosts
 <2> QED BY <1>a, <2>1, StatusStep
<1>5. ASSUME NEW n \in DOMAIN sends, MessageAccepted(n) PROVE OutboxInv'
 <2>1. /\ entries' = IF n \in DOMAIN entries THEN With(entries, n, "sent") ELSE entries
       /\ sends' = [sends EXCEPT ![n].at = "answered"]
       /\ UNCHANGED <<composer, delivered, shown, heard, replaced, dropped>>
  BY <1>5 DEF MessageAccepted, Answered, outboxGhosts
 <2>2. Arrived(n)
  BY <1>0, <1>5 DEF MessageAccepted, EntriesAreSettled
 <2> QED BY <1>a, <2>1, <2>2, StatusStep
<1>6. ASSUME NEW n \in DOMAIN sends, SendFails(n) \/ AttachmentSendFails(n) PROVE OutboxInv'
 <2>1. /\ entries' = IF n \in DOMAIN entries THEN With(entries, n, "failed") ELSE entries
       /\ sends' = [sends EXCEPT ![n].at = "answered"]
       /\ composer' \in Texts \cup {NoText}
       /\ UNCHANGED <<delivered, shown, heard, replaced, dropped>>
  BY <1>a, <1>6 DEF SendFails, AttachmentSendFails, Answered, outboxGhosts
 <2> QED BY <2>1, StatusStep
<1>7. CASE NotTold
 <2>1. heard' \in 0 .. Len(delivered)
  BY <1>0, <1>7, SendsAreNumbered DEF NotTold, OutboxShape
 <2> QED BY <1>a, <1>7, <2>1, QuietStep DEF NotTold, outboxTerminal, outboxGhosts
<1>8. CASE UNCHANGED outboxVars
 BY <1>a, <1>8, QuietStep DEF outboxVars, outboxTerminal, outboxGhosts
<1> QED BY <1>1, <1>2, <1>3, <1>4, <1>5, <1>6, <1>7, <1>8, CarryStep, ConfirmStep, OutboxToldStep,
        OutboxHistoryStep, OutboxGapStep DEF OutboxNext

LEMMA OutboxBegins == OutboxInit => OutboxInv
<1> SUFFICES ASSUME OutboxInit PROVE OutboxInv
 OBVIOUS
<1>1. /\ composer = NoText /\ DOMAIN entries = {} /\ shown = {} /\ sends = <<>>
      /\ delivered = <<>> /\ heard = 0
 BY DEF OutboxInit
<1>2. DOMAIN sends = {} /\ DOMAIN delivered = {} /\ sends \in Seq(Sent) /\ delivered \in Seq(Nat)
      /\ Len(delivered) = 0
 BY <1>1
<1> QED BY <1>1, <1>2 DEF OutboxInv, OutboxShape, EntriesAreSettled, NoneVanishes, ShownOnce

(* SentIsShown, for any texts, files, sends, retries and gaps: a message the user sent and
   Telegram refused stays on the screen as failed, unless the user replaced it or the
   terminal could not tell it from one that arrived, and what arrived is not shown beside
   its local copy (app.rs, remove_matching_optimistic). *)
THEOREM SentMessagesAreShown == OutboxSpec => []SentIsShown
<1>1. OutboxInv => SentIsShown
 <2> SUFFICES ASSUME OutboxInv PROVE SentIsShown
  OBVIOUS
 <2>0. OutboxShape /\ EntriesAreSettled /\ NoneVanishes /\ ShownOnce
  BY DEF OutboxInv
 <2>1. RefusedStays
  <3> SUFFICES ASSUME NEW n \in DOMAIN sends, Failed(n), n \notin replaced \cup dropped,
                      ~LooksArrived(n)
               PROVE  n \in DOMAIN entries /\ entries[n] = "failed"
   BY DEF RefusedStays, LooksArrived
  <3>1. n \in DOMAIN entries /\ sends[n].at = "answered" /\ ~Arrived(n)
   BY <2>0 DEF NoneVanishes, Failed, Arrived
  <3> QED BY <2>0, <3>1 DEF OutboxShape, EntriesAreSettled
 <2>2. AnsweredIsShownOnce
  BY <2>0 DEF ShownOnce, AnsweredIsShownOnce
 <2> QED BY <2>1, <2>2 DEF SentIsShown
<1> QED BY <1>1, OutboxBegins, OutboxStep, PTL DEF OutboxSpec

-------------------------------------------------------------------------------
(* The transcript: numbers, and the log of a chat. *)

LEMMA GreatestFound ==
  ASSUME NEW n \in Nat, NEW S \in SUBSET (0 .. n), S # {}
  PROVE  Max(S) \in S /\ \A y \in S : y <= Max(S)
<1> DEFINE rest == {n - x : x \in S}
<1>1. rest \subseteq Nat /\ rest # {}
 <2>1. \A x \in S : n - x \in Nat
  OBVIOUS
 <2> QED BY <2>1
<1>2. PICK d \in rest : \A e \in rest : d <= e
 BY <1>1, LeastFound
<1>3. PICK x \in S : d = n - x
 BY <1>2
<1>4. ASSUME NEW y \in S PROVE x >= y
 <2>1. n - y \in rest
  OBVIOUS
 <2>2. d <= n - y
  BY <1>2, <2>1
 <2> QED BY <1>3, <2>2
<1>5. \E g \in S : \A y \in S : g >= y
 BY <1>4
<1>6. Max(S) \in S /\ \A y \in S : Max(S) >= y
 BY <1>5 DEF Max
<1> QED BY <1>6

\* What is smallest: the members with fewer than size members below them.
LowerPart(S, size) == {m \in S : Cardinality({k \in S : k < m}) < size}

LEMMA LowerIsLower ==
  ASSUME NEW n \in Nat, NEW S \in SUBSET (0 .. n), NEW size \in Nat,
         NEW m \in LowerPart(S, size), NEW k \in S \ LowerPart(S, size)
  PROVE  m < k
<1> SUFFICES ASSUME ~(m < k) PROVE FALSE
 OBVIOUS
<1>0. m \in 0 .. n /\ k \in 0 .. n /\ k <= m
 BY DEF LowerPart
<1> DEFINE low == {j \in S : j < k}
           high == {j \in S : j < m}
<1>1. low \subseteq high
 <2> SUFFICES ASSUME NEW j \in S, j < k PROVE j < m
  OBVIOUS
 <2>1. j \in 0 .. n
  OBVIOUS
 <2> QED BY <1>0, <2>1
<1>2. IsFiniteSet(0 .. n)
 BY FS_Interval
<1>3. IsFiniteSet(high)
 <2>1. high \subseteq 0 .. n
  OBVIOUS
 <2> HIDE DEF high
 <2> QED BY <1>2, <2>1, FS_Subset
<1>4. IsFiniteSet(low) /\ Cardinality(low) <= Cardinality(high)
 <2> HIDE DEF low, high
 <2> QED BY <1>1, <1>3, FS_Subset
<1>5. Cardinality(low) \in Nat /\ Cardinality(high) \in Nat
 BY <1>3, <1>4, FS_CardinalityType
<1>6. Cardinality(high) < size
 BY DEF LowerPart
<1>7. ~(Cardinality(low) < size)
 BY DEF LowerPart
<1> HIDE DEF low, high
<1> QED BY <1>4, <1>5, <1>6, <1>7

\* The smallest member has none below it.
LEMMA LowerNotEmpty ==
  ASSUME NEW n \in Nat, NEW S \in SUBSET (0 .. n), S # {}, NEW size \in Nat \ {0}
  PROVE  LowerPart(S, size) # {}
<1>1. PICK x \in S : \A y \in S : x <= y
 <2>1. S \subseteq Nat
  OBVIOUS
 <2> QED BY <2>1, LeastFound
<1>2. {k \in S : k < x} = {}
 <2> SUFFICES ASSUME NEW k \in S, k < x PROVE FALSE
  OBVIOUS
 <2>1. k \in 0 .. n /\ x \in 0 .. n /\ x <= k
  BY <1>1
 <2> QED BY <2>1
<1>3. Cardinality({k \in S : k < x}) = 0
 BY <1>2, FS_EmptySet
<1>4. x \in LowerPart(S, size)
 BY <1>3 DEF LowerPart
<1> QED BY <1>4

\* If not all fits, the part is full.
LEMMA LowerIsFull ==
  ASSUME NEW n \in Nat, NEW S \in SUBSET (0 .. n), NEW size \in Nat,
         LowerPart(S, size) # S
  PROVE  Cardinality(LowerPart(S, size)) >= size
<1> DEFINE Left == S \ LowerPart(S, size)
<1>1. Left # {} /\ Left \subseteq Nat
 <2>1. Left # {}
  BY DEF LowerPart
 <2>2. Left \subseteq S /\ S \subseteq Nat
  OBVIOUS
 <2> HIDE DEF Left
 <2> QED BY <2>1, <2>2
<1>2. PICK k \in Left : \A j \in Left : k <= j
 <2> HIDE DEF Left
 <2> QED BY <1>1, LeastFound
<1> DEFINE low == {j \in S : j < k}
<1>3. low \subseteq LowerPart(S, size)
 <2> SUFFICES ASSUME NEW j \in S, j < k, j \notin LowerPart(S, size) PROVE FALSE
  OBVIOUS
 <2>1. j \in Left /\ k \in S
  OBVIOUS
 <2>2. k <= j /\ j \in 0 .. n /\ k \in 0 .. n
  BY <1>2, <2>1
 <2> QED BY <2>2
<1>4. IsFiniteSet(LowerPart(S, size))
 <2>1. LowerPart(S, size) \subseteq 0 .. n
  BY DEF LowerPart
 <2>2. IsFiniteSet(0 .. n)
  BY FS_Interval
 <2> QED BY <2>1, <2>2, FS_Subset
<1>5. ~(Cardinality(low) < size)
 BY DEF LowerPart
<1> HIDE DEF low
<1>6. IsFiniteSet(low) /\ Cardinality(low) <= Cardinality(LowerPart(S, size))
 BY <1>3, <1>4, FS_Subset
<1>7. Cardinality(low) \in Nat /\ Cardinality(LowerPart(S, size)) \in Nat
 BY <1>4, <1>6, FS_CardinalityType
<1> QED BY <1>5, <1>6, <1>7

-------------------------------------------------------------------------------
(* What happened in the chat, and how much of it was told. *)

Happening == Message \X (1 .. 3)

LogIsSound ==
    /\ log \in Seq(Happening)
    /\ \A i \in DOMAIN log : log[i][1] <= Posted
    /\ \A i, j \in DOMAIN log : i < j /\ log[i][1] = log[j][1] => log[i][2] < log[j][2]

EventsOf(m, p) == {i \in 1 .. p : log[i][1] = m}

LEMMA LogFacts ==
  ASSUME LogIsSound
  PROVE  /\ Len(log) \in Nat /\ DOMAIN log = 1 .. Len(log) /\ MaxPosts \in Nat
         /\ \A i \in 1 .. Len(log) : log[i][1] \in Message /\ log[i][2] \in 1 .. 3
         /\ Posted \in Nat
<1>1. Len(log) \in Nat /\ DOMAIN log = 1 .. Len(log) /\ MaxPosts \in Nat
 BY TranscriptAssumption DEF LogIsSound
<1>2. \A i \in 1 .. Len(log) : log[i] \in Happening
 BY <1>1 DEF LogIsSound
<1>3. {i \in DOMAIN log : log[i][2] = 1} \subseteq 1 .. Len(log)
 BY <1>1
<1>4. Posted \in Nat
 <2> DEFINE posts == {i \in DOMAIN log : log[i][2] = 1}
 <2>1. IsFiniteSet(1 .. Len(log))
  BY <1>1, FS_Interval
 <2>2. posts \subseteq 1 .. Len(log)
  BY <1>3
 <2> HIDE DEF posts
 <2>3. Cardinality(posts) \in Nat
  BY <2>1, <2>2, FS_Subset, FS_CardinalityType
 <2> QED BY <2>3 DEF Posted, posts
<1> QED BY <1>1, <1>2, <1>4 DEF Happening

\* A message has the version of the last event of it.
LEMMA AtLast ==
  ASSUME LogIsSound, NEW p \in 0 .. Len(log), NEW m \in Message
  PROVE  /\ EventsOf(m, p) = {} => At(p)[m] = 0
         /\ EventsOf(m, p) # {} => /\ Max(EventsOf(m, p)) \in EventsOf(m, p)
                             /\ \A i \in EventsOf(m, p) : i <= Max(EventsOf(m, p))
                             /\ At(p)[m] = log[Max(EventsOf(m, p))][2]
         /\ At(p)[m] \in 0 .. 3
<1>0. Len(log) \in Nat /\ p \in Nat /\ \A i \in 1 .. p : log[i][2] \in 1 .. 3
 BY LogFacts
<1>1. At(p)[m] = IF EventsOf(m, p) = {} THEN 0 ELSE log[Max(EventsOf(m, p))][2]
 BY DEF At, EventsOf
<1>2. ASSUME EventsOf(m, p) # {}
      PROVE  Max(EventsOf(m, p)) \in EventsOf(m, p) /\ \A i \in EventsOf(m, p) : i <= Max(EventsOf(m, p))
 <2>1. EventsOf(m, p) \subseteq 0 .. p
  BY <1>0 DEF EventsOf
 <2> QED BY <1>0, <1>2, <2>1, GreatestFound
<1>3. EventsOf(m, p) \subseteq 1 .. p
 BY DEF EventsOf
<1> QED BY <1>0, <1>1, <1>2, <1>3

LEMMA AtGrows ==
  ASSUME LogIsSound, NEW p \in 0 .. Len(log), NEW q \in 0 .. Len(log), p <= q,
         NEW m \in Message
  PROVE  At(p)[m] <= At(q)[m]
<1>0. Len(log) \in Nat /\ DOMAIN log = 1 .. Len(log) /\ p \in Nat /\ q \in Nat
      /\ \A i \in 1 .. Len(log) : log[i][2] \in 1 .. 3
 BY LogFacts
<1>1. EventsOf(m, p) \subseteq EventsOf(m, q) /\ EventsOf(m, q) \subseteq 1 .. Len(log)
 BY <1>0 DEF EventsOf
<1>2. CASE EventsOf(m, p) = {}
 BY <1>2, AtLast
<1>3. CASE EventsOf(m, p) # {}
 <2> DEFINE i == Max(EventsOf(m, p))
            j == Max(EventsOf(m, q))
 <2>1. i \in EventsOf(m, p) /\ j \in EventsOf(m, q) /\ i <= j
  BY <1>1, <1>3, AtLast
 <2>2. At(p)[m] = log[i][2] /\ At(q)[m] = log[j][2]
  BY <1>1, <1>3, AtLast
 <2>3. i \in DOMAIN log /\ j \in DOMAIN log /\ log[i][1] = m /\ log[j][1] = m
  BY <1>0, <1>1, <2>1 DEF EventsOf
 <2> HIDE DEF i, j
 <2>4. i # j => log[i][2] < log[j][2]
  BY <1>0, <2>1, <2>3 DEF LogIsSound
 <2>5. log[i][2] \in 1 .. 3 /\ log[j][2] \in 1 .. 3
  BY <1>0, <2>3
 <2> QED BY <2>2, <2>4, <2>5
<1> QED BY <1>2, <1>3

LEMMA AtGrowsEver ==
  LogIsSound => \A p, q \in 0 .. Len(log), m \in Message : p <= q => At(p)[m] <= At(q)[m]
BY AtGrows

LEMMA AtGrowsNext ==
  (LogIsSound => \A p, q \in 0 .. Len(log), m \in Message : p <= q => At(p)[m] <= At(q)[m])'
BY AtGrowsEver, PTL

\* The next event changes the version of its message.
LEMMA AtNext ==
  ASSUME LogIsSound, NEW p \in 0 .. Len(log) - 1, NEW m \in Message
  PROVE  At(p + 1)[m] = IF m = log[p + 1][1] THEN log[p + 1][2] ELSE At(p)[m]
<1>0. Len(log) \in Nat /\ p \in Nat /\ p + 1 \in 0 .. Len(log) /\ p \in 0 .. Len(log)
      /\ 1 .. p + 1 = (1 .. p) \cup {p + 1}
 BY LogFacts
<1>1. CASE m = log[p + 1][1]
 <2>1. p + 1 \in EventsOf(m, p + 1)
  BY <1>0, <1>1 DEF EventsOf
 <2>2. Max(EventsOf(m, p + 1)) = p + 1
  <3>1. Max(EventsOf(m, p + 1)) \in EventsOf(m, p + 1) /\ p + 1 <= Max(EventsOf(m, p + 1))
   BY <1>0, <2>1, AtLast
  <3>2. Max(EventsOf(m, p + 1)) \in 1 .. p + 1
   BY <3>1 DEF EventsOf
  <3> QED BY <1>0, <3>1, <3>2
 <2> QED BY <1>0, <1>1, <2>1, <2>2, AtLast
<1>2. CASE m # log[p + 1][1]
 <2>1. EventsOf(m, p + 1) = EventsOf(m, p)
  BY <1>0, <1>2 DEF EventsOf
 <2>2. At(p + 1)[m] = At(p)[m]
  BY <2>1 DEF At, EventsOf
 <2> QED BY <1>2, <2>2
<1> QED BY <1>1, <1>2

\* What happens later does not change what was.
LEMMA AtStays ==
  ASSUME LogIsSound, NEW e, log' = Append(log, e), NEW p \in 0 .. Len(log), NEW m \in Message
  PROVE  At(p)'[m] = At(p)[m]
<1>1. \A i \in 1 .. p : log'[i] = log[i]
 BY LogFacts DEF LogIsSound
<1>2. EventsOf(m, p)' = EventsOf(m, p) /\ EventsOf(m, p) \subseteq 1 .. p
 BY <1>1 DEF EventsOf
<1>3. EventsOf(m, p) # {} => Max(EventsOf(m, p)) \in 1 .. p
 BY <1>2, AtLast
<1> QED BY <1>1, <1>2, <1>3 DEF At, EventsOf

\* What the next event says of a message comes after what the log said of it before.
LEMMA LogGrows ==
  ASSUME LogIsSound, NEW e \in Happening, log' = Append(log, e),
         \/ e[2] = 1 /\ Posted < MaxPosts /\ e[1] = Posted + 1
         \/ e[2] # 1 /\ At(Len(log))[e[1]] \in 1 .. e[2] - 1
  PROVE  LogIsSound'
<1>0. /\ Len(log) \in Nat /\ DOMAIN log = 1 .. Len(log) /\ Posted \in Nat
      /\ Len(log') = Len(log) + 1 /\ DOMAIN log' = (1 .. Len(log)) \cup {Len(log) + 1}
      /\ \A i \in 1 .. Len(log) : log'[i] = log[i]
      /\ log'[Len(log) + 1] = e /\ log' \in Seq(Happening)
 BY LogFacts DEF LogIsSound
<1> DEFINE L == Len(log)
           posts == {i \in 1 .. L : log[i][2] = 1}
<1>1. IsFiniteSet(posts) /\ L + 1 \notin posts /\ Posted = Cardinality(posts)
 <2>1. IsFiniteSet(1 .. L)
  BY <1>0, FS_Interval
 <2>2. posts \subseteq 1 .. L
  OBVIOUS
 <2>3. L + 1 \notin posts
  BY <1>0
 <2>4. Posted = Cardinality(posts)
  BY <1>0 DEF Posted
 <2> HIDE DEF posts
 <2> QED BY <2>1, <2>2, <2>3, <2>4, FS_Subset
<1>2. Posted' = IF e[2] = 1 THEN Posted + 1 ELSE Posted
 <2>1. {i \in DOMAIN log' : log'[i][2] = 1} = IF e[2] = 1 THEN posts \cup {L + 1} ELSE posts
  BY <1>0
 <2> HIDE DEF posts
 <2>2. Cardinality(posts \cup {L + 1}) = Cardinality(posts) + 1
  BY <1>1, FS_AddElement
 <2> QED BY <1>1, <2>1, <2>2 DEF Posted
<1>3. \A i \in 1 .. L : log[i][1] \in Message /\ log[i][1] <= Posted /\ log[i][2] \in 1 .. 3
 BY <1>0, LogFacts DEF LogIsSound
<1>4. e[1] \in Message /\ e[2] \in 1 .. 3
 BY DEF Happening
<1>5. \A i \in 1 .. L : log[i][1] = e[1] => log[i][2] < e[2]
 <2> SUFFICES ASSUME NEW i \in 1 .. L, log[i][1] = e[1] PROVE log[i][2] < e[2]
  OBVIOUS
 <2>1. CASE e[2] = 1
  BY <1>0, <1>3, <2>1
 <2>2. CASE e[2] # 1
  <3> DEFINE j == Max(EventsOf(e[1], L))
  <3>1. i \in EventsOf(e[1], L) /\ L \in 0 .. L
   BY <1>0 DEF EventsOf
  <3>2. j \in EventsOf(e[1], L) /\ i <= j /\ At(L)[e[1]] = log[j][2]
   BY <1>4, <3>1, AtLast
  <3> HIDE DEF j
  <3>3. j \in 1 .. L /\ log[j][1] = e[1] /\ log[j][2] < e[2]
   BY <1>3, <1>4, <2>2, <3>2 DEF EventsOf
  <3>4. i # j => log[i][2] < log[j][2]
   <4>1. i # j => i < j
    BY <1>0, <3>2, <3>3
   <4>2. i \in DOMAIN log /\ j \in DOMAIN log /\ log[i][1] = log[j][1]
    BY <1>0, <3>3
   <4> QED BY <4>1, <4>2 DEF LogIsSound
  <3>5. log[i][2] \in Int /\ log[j][2] \in Int /\ e[2] \in Int
   BY <1>3, <1>4, <3>3
  <3>6. i = j \/ log[i][2] < log[j][2]
   BY <3>4
  <3> QED BY <3>3, <3>5, <3>6
 <2> QED BY <2>1, <2>2
<1>6. e[1] <= Posted'
 <2>1. CASE e[2] = 1
  BY <1>0, <1>2, <2>1
 <2>2. CASE e[2] # 1
  <3>1. L \in 0 .. L /\ At(L)[e[1]] # 0
   BY <1>0, <1>4, <2>2
  <3>2. EventsOf(e[1], L) # {}
   BY <1>4, <3>1, AtLast
  <3>3. PICK i \in 1 .. L : log[i][1] = e[1]
   BY <3>2 DEF EventsOf
  <3> QED BY <1>2, <1>3, <2>2, <3>3
 <2> QED BY <2>1, <2>2
<1>7. \A i \in DOMAIN log' : log'[i][1] <= Posted'
 <2>1. Posted <= Posted' /\ Posted' \in Nat
  BY <1>0, <1>2
 <2>2. \A i \in 1 .. L : log'[i][1] \in Nat /\ log'[i][1] <= Posted
  BY <1>0, <1>3 DEF Message
 <2>3. \A i \in 1 .. L : log'[i][1] <= Posted'
  BY <1>0, <2>1, <2>2
 <2> QED BY <1>0, <1>6, <2>3
<1>8. \A i, j \in DOMAIN log' : i < j /\ log'[i][1] = log'[j][1] => log'[i][2] < log'[j][2]
 <2> SUFFICES ASSUME NEW i \in DOMAIN log', NEW j \in DOMAIN log', i < j,
                     log'[i][1] = log'[j][1]
              PROVE  log'[i][2] < log'[j][2]
  OBVIOUS
 <2>1. i \in 1 .. L
  BY <1>0
 <2>2. CASE j \in 1 .. L
  BY <1>0, <2>1, <2>2 DEF LogIsSound
 <2>3. CASE j = L + 1
  BY <1>0, <1>5, <2>1, <2>3
 <2> QED BY <1>0, <2>2, <2>3
<1> QED BY <1>0, <1>7, <1>8 DEF LogIsSound

-------------------------------------------------------------------------------
(* The invariant. *)

(* Nothing was missed since the chat was opened, or nothing that matters. *)
Sound == ~crossed \/ ~blind

TranscriptShape ==
    /\ LogIsSound /\ seen \in 0 .. Len(log)
    /\ DOMAIN messages \subseteq Message /\ messages \in [DOMAIN messages -> {1, 2}]
    /\ DOMAIN changes \subseteq Message /\ changes \in [DOMAIN changes -> 1 .. 3]
    /\ lastId \in Nat /\ readUpTo \in Nat /\ forward \in Nat
    /\ open \in BOOLEAN /\ paging \in BOOLEAN /\ blind \in BOOLEAN /\ crossed \in BOOLEAN
    /\ entry \in [boundary : Int, confirmed : BOOLEAN]
    /\ history \in [kind : {"none", "latest", "after"}, of : Nat, from : Nat, cached : BOOLEAN]
    /\ history # NoRequest => history.kind # "none"
    /\ older \in [kind : {"none", "older"}, of : Nat, from : Nat, cached : BOOLEAN]
    /\ older # NoRequest => older.kind = "older"

\* What a request that began after so many events does not know is in changes.
Tracked(from) ==
    /\ from <= seen
    /\ \A m \in Message : IF m \in DOMAIN changes THEN changes[m] = At(seen)[m]
                                                  ELSE At(from)[m] = At(seen)[m]

ChangesAreTracked ==
    /\ history # NoRequest => Tracked(history.from)
    /\ Sound /\ older # NoRequest => Tracked(older.from)

OneRequest ==
    /\ ~open => history = NoRequest /\ older = NoRequest /\ forward = 0
    /\ Sound => history = NoRequest \/ older = NoRequest

WindowHolds ==
    Sound /\ forward # 0 =>
        /\ \A m \in DOMAIN messages : m <= forward
        /\ older # NoRequest => older.of <= forward

PagesGoForward ==
    /\ paging => forward # 0
    /\ Sound /\ history # NoRequest =>
          IF paging THEN history.kind = "after" /\ history.of = forward ELSE forward = 0
    /\ ~blind /\ history # NoRequest /\ ~paging /\ entry # NoUnreadEntry =>
          ~entry.confirmed /\ history.kind = "after" /\ history.of = entry.boundary

UnreadIsKept ==
    open /\ entry.confirmed /\ ~blind =>
        \A m \in Alive(At(seen)) \cap Alive(At(Len(log))) :
            m > entry.boundary => m \in DOMAIN messages \/ Outside(m) \/ m \in gaveWay

TranscriptInv ==
    /\ TranscriptShape /\ ChangesAreTracked /\ OneRequest /\ WindowHolds /\ PagesGoForward
    /\ UnreadIsKept /\ PagesNeverUndo

LEMMA TranscriptInvHolds == TranscriptInv => PagesFit
BY DEF TranscriptInv, UnreadIsKept, PagesFit, NothingUnreadSkipped

LEMMA TranscriptStarts == TranscriptInit => TranscriptInv
<1> SUFFICES ASSUME TranscriptInit PROVE TranscriptInv
 OBVIOUS
<1>1. PICK k \in 0 .. MaxPosts : log = [i \in 1 .. k |-> <<i, 1>>]
 BY DEF TranscriptInit
<1>2. k \in Nat /\ k <= MaxPosts /\ MaxPosts \in Nat
 BY <1>1, TranscriptAssumption
<1>3. log \in Seq(Happening) /\ Len(log) = k /\ DOMAIN log = 1 .. k
 <2>1. \A i \in 1 .. k : <<i, 1>> \in Happening
  BY <1>2 DEF Happening, Message
 <2> QED BY <1>1, <1>2, <2>1
<1>4. Posted = k
 <2>1. {i \in DOMAIN log : log[i][2] = 1} = 1 .. k
  BY <1>1, <1>3
 <2>2. Cardinality(1 .. k) = k
  BY <1>2, FS_Interval
 <2> QED BY <2>1, <2>2 DEF Posted
<1>5. LogIsSound
 BY <1>1, <1>2, <1>3, <1>4 DEF LogIsSound
<1>6. TranscriptShape
 <2>1. seen \in 0 .. Len(log) /\ lastId \in Nat /\ readUpTo \in Nat /\ forward \in Nat
  BY <1>2, <1>3 DEF TranscriptInit
 <2>2. NoMessages \in [{} -> {1, 2}] /\ NoMessages \in [{} -> 1 .. 3] /\ DOMAIN NoMessages = {}
  BY DEF NoMessages
 <2>3. /\ history \in [kind : {"none", "latest", "after"}, of : Nat, from : Nat,
                        cached : BOOLEAN]
       /\ older \in [kind : {"none", "older"}, of : Nat, from : Nat, cached : BOOLEAN]
       /\ entry \in [boundary : Int, confirmed : BOOLEAN]
       /\ history = NoRequest /\ older = NoRequest
  BY DEF TranscriptInit, NoRequest, NoUnreadEntry
 <2>4. DOMAIN messages \subseteq Message /\ messages \in [DOMAIN messages -> {1, 2}]
       /\ DOMAIN changes \subseteq Message /\ changes \in [DOMAIN changes -> 1 .. 3]
  BY <2>2 DEF TranscriptInit
 <2>5. open \in BOOLEAN /\ paging \in BOOLEAN /\ blind \in BOOLEAN /\ crossed \in BOOLEAN
  BY DEF TranscriptInit
 <2> QED BY <1>5, <2>1, <2>3, <2>4, <2>5 DEF TranscriptShape
<1>7. ChangesAreTracked /\ OneRequest /\ WindowHolds /\ PagesGoForward /\ UnreadIsKept
      /\ PagesNeverUndo
 BY DEF TranscriptInit, ChangesAreTracked, OneRequest, WindowHolds, PagesGoForward,
        UnreadIsKept, PagesNeverUndo, NoMessages, NoUnreadEntry
<1> QED BY <1>6, <1>7 DEF TranscriptInv

\* What is capped keeps what it shows.
LEMMA CappedKeeps ==
  ASSUME NEW f
  PROVE  DOMAIN Capped(f) \subseteq DOMAIN f /\ \A m \in DOMAIN Capped(f) : Capped(f)[m] = f[m]
BY DEF Capped, Restrict

LEMMA AliveIs == \A p : Alive(At(p)) = {m \in Message : At(p)[m] \in {1, 2}}
BY DEF Alive, At

\* The chat at Telegram.
LEMMA LogStep ==
  ASSUME TranscriptInv, NEW e \in Happening, log' = Append(log, e), LogIsSound',
         UNCHANGED <<seen, messages, lastId, readUpTo, open, requestVars, readsVars,
                     browsing, losses, ghosts>>
  PROVE  TranscriptInv'
<1> USE DEF TranscriptInv, requestVars, readsVars, ghosts
<1>0. Len(log) \in Nat /\ Len(log') = Len(log) + 1 /\ LogIsSound /\ seen \in 0 .. Len(log)
      /\ MaxPosts \in Nat
 BY LogFacts DEF TranscriptShape, LogIsSound
<1>1. \A p \in 0 .. Len(log), m \in Message : At(p)'[m] = At(p)[m]
 BY <1>0, AtStays
<1>2. \A m \in Message : At(seen)'[m] = At(seen)[m]
 BY <1>0, <1>1
<1>3. \A from : Tracked(from) /\ from \in Nat => Tracked(from)'
 BY <1>0, <1>1, <1>2 DEF Tracked
<1>4. TranscriptShape'
 BY <1>0 DEF TranscriptShape
<1>5. ChangesAreTracked' /\ OneRequest' /\ WindowHolds' /\ PagesGoForward'
 BY <1>3 DEF TranscriptShape, ChangesAreTracked, OneRequest, WindowHolds, PagesGoForward, Sound
<1>6. PagesNeverUndo'
 BY <1>2 DEF PagesNeverUndo, TranscriptShape
<1>7. UnreadIsKept'
 <2> SUFFICES ASSUME open', entry'.confirmed, ~blind', NEW m \in Message,
                     At(seen)'[m] \in {1, 2}, At(Len(log))'[m] \in {1, 2}, m > entry'.boundary
              PROVE  (m \in DOMAIN messages \/ Outside(m) \/ m \in gaveWay)'
  BY DEF UnreadIsKept, Alive, At
 <2>1. At(seen)[m] \in {1, 2}
  BY <1>2
 <2>2. At(Len(log))[m] \in {1, 2}
  <3>1. (\A p, q \in 0 .. Len(log), k \in Message : p <= q => At(p)[k] <= At(q)[k])'
   BY AtGrowsNext
  <3>2. PICK n \in Nat : n = Len(log)
   BY <1>0
  <3>3. PICK q \in Nat : q = Len(log')
   BY <1>0
  <3>4. At(q)'[m] = At(Len(log))'[m]
   BY <3>3 DEF At
  <3>5. At(n)'[m] <= At(q)'[m]
   BY <1>0, <3>1, <3>2, <3>3
  <3>6. At(seen)[m] <= At(n)[m] /\ At(n)[m] \in 0 .. 3
   BY <1>0, <3>2, AtGrows, AtLast
  <3>7. At(n)'[m] = At(n)[m]
   BY <1>0, <1>1, <3>2
  <3>8. At(n)[m] \in {1, 2}
   BY <2>1, <3>4, <3>5, <3>6, <3>7
  <3> QED BY <3>2, <3>8
 <2>3. m \in Alive(At(seen)) \cap Alive(At(Len(log)))
  BY <2>1, <2>2 DEF Alive, At
 <2> QED BY <2>3 DEF UnreadIsKept, Outside
<1> QED BY <1>4, <1>5, <1>6, <1>7

\* The terminal is told of the next event.
LEMMA TellsStep ==
  ASSUME TranscriptInv, TellsNext
  PROVE  TranscriptInv'
<1> USE DEF TranscriptInv, requestVars, readsVars, ghosts
<1> DEFINE t == log[seen'][1]
           version == log[seen'][2]
<1>0. /\ Len(log) \in Nat /\ LogIsSound /\ seen \in Nat /\ seen' = seen + 1
      /\ seen' \in 0 .. Len(log) /\ seen \in 0 .. Len(log) - 1 /\ seen \in 0 .. Len(log)
      /\ t \in Message /\ version \in 1 .. 3 /\ MaxPosts \in Nat /\ log' = log
 <2>1. LogIsSound /\ seen \in 0 .. Len(log)
  BY DEF TranscriptShape
 <2>2. seen < Len(log) /\ seen' = seen + 1 /\ log' = log
  BY DEF TellsNext
 <2>3. /\ Len(log) \in Nat /\ MaxPosts \in Nat
       /\ \A i \in 1 .. Len(log) : log[i][1] \in Message /\ log[i][2] \in 1 .. 3
  BY <2>1, LogFacts
 <2>4. seen' \in 1 .. Len(log) /\ seen \in Nat /\ seen \in 0 .. Len(log) - 1
  BY <2>1, <2>2, <2>3
 <2> QED BY <2>1, <2>2, <2>3, <2>4
<1>1. /\ UNCHANGED <<log, readUpTo, open, history, older, loading, entry, forward, paging,
                     browsing, losses, blind, crossed>>
      /\ TracksChange(t, version)
      /\ version = 1 => Receives(t)
      /\ version = 2 => Updates(t)
      /\ version = 3 => Removes(t)
      /\ GiveWay(DOMAIN messages \cup (IF Outside(t) THEN {} ELSE {t}))
 BY DEF TellsNext, Gone
<1> HIDE DEF t, version
<1>2. \A m \in Message : At(seen)'[m] = IF m = t THEN version ELSE At(seen)[m]
 <2>1. \A m \in Message : At(seen + 1)[m] = IF m = t THEN version ELSE At(seen)[m]
  BY <1>0, AtNext DEF t, version
 <2>2. At(seen)' = At(seen + 1)
  BY <1>0 DEF At
 <2> QED BY <2>1, <2>2
\* What is shown afterwards.
<1>3. /\ messages' \in [DOMAIN messages' -> {1, 2}]
      /\ DOMAIN messages' \subseteq DOMAIN messages \cup (IF version = 3 \/ Outside(t) THEN {} ELSE {t})
      /\ \A m \in DOMAIN messages' \ {t} : messages'[m] = messages[m]
      /\ version = 3 => t \notin DOMAIN messages'
      /\ ~Outside(t) /\ t \in DOMAIN messages' => messages'[t] = version
      /\ lastId' \in Nat
 <2>0. messages \in [DOMAIN messages -> {1, 2}] /\ lastId \in Nat /\ t \in Nat
  <3>1. messages \in [DOMAIN messages -> {1, 2}] /\ lastId \in Nat
   BY <1>0 DEF TranscriptShape
  <3>2. t \in Nat
   BY <1>0 DEF Message
  <3> QED BY <3>1, <3>2
 <2>1. ASSUME NEW v \in {1, 2}, messages' = Upsert(messages, t, v)
       PROVE  /\ messages' \in [DOMAIN messages' -> {1, 2}]
              /\ DOMAIN messages' \subseteq DOMAIN messages \cup {t}
              /\ \A m \in DOMAIN messages' \ {t} : messages'[m] = messages[m]
              /\ t \in DOMAIN messages' => messages'[t] = v
  BY <2>0, <2>1 DEF Upsert, Capped, Restrict
 <2>2. CASE version = 1
  <3>1. CASE messages' = messages /\ Outside(t)
   BY <2>0, <3>1, <2>2, <1>1 DEF Receives
  <3>2. CASE messages' = Upsert(messages, t, 1) /\ ~Outside(t)
   <4>1. lastId' \in Nat
    BY <2>0, <2>2, <1>1 DEF Receives
   <4> QED BY <2>1, <3>2, <2>2, <4>1
  <3> QED BY <3>1, <3>2, <2>2, <1>1 DEF Receives, OneRequest, Outside
 <2>3. CASE version = 2
  <3>1. CASE messages' = messages /\ Outside(t)
   BY <2>0, <3>1, <2>3, <1>1 DEF Updates
  <3>2. CASE messages' = Upsert(messages, t, 2) /\ ~Outside(t)
   BY <2>0, <2>1, <3>2, <2>3, <1>1 DEF Updates
  <3> QED BY <3>1, <3>2, <2>3, <1>1 DEF Updates
 <2>4. CASE version = 3
  BY <2>0, <2>4, <1>1 DEF Removes, Restrict
 <2> QED BY <2>2, <2>3, <2>4, <1>0
<1>4. /\ DOMAIN changes' \subseteq DOMAIN changes \cup {t}
      /\ changes' \in [DOMAIN changes' -> 1 .. 3]
      /\ history # NoRequest \/ older # NoRequest =>
            /\ DOMAIN changes' = DOMAIN changes \cup {t}
            /\ changes'[t] = version
            /\ \A m \in DOMAIN changes' \ {t} : changes'[m] = changes[m]
 BY <1>0, <1>1 DEF TracksChange, TranscriptShape
<1>5. TranscriptShape'
 <2>1. DOMAIN messages' \subseteq Message /\ DOMAIN changes' \subseteq Message
  BY <1>0, <1>3, <1>4 DEF TranscriptShape
 <2>2. LogIsSound'
  BY <1>0 DEF LogIsSound, Posted
 <2>3. /\ messages' \in [DOMAIN messages' -> {1, 2}]
       /\ changes' \in [DOMAIN changes' -> 1 .. 3]
       /\ seen' \in 0 .. Len(log') /\ lastId' \in Nat
  BY <1>0, <1>3, <1>4
 <2> QED BY <1>1, <2>1, <2>2, <2>3 DEF TranscriptShape
<1>6. ASSUME NEW from \in Nat, Tracked(from), history # NoRequest \/ older # NoRequest
      PROVE  Tracked(from)'
 <2>1. \A m \in Message : At(from)'[m] = At(from)[m]
  BY <1>0 DEF At
 <2> QED BY <1>0, <1>2, <1>4, <1>6, <2>1 DEF Tracked
<1>7. ChangesAreTracked'
 <2>1. history.from \in Nat /\ older.from \in Nat
  BY DEF TranscriptShape
 <2> QED BY <1>1, <1>6, <2>1 DEF ChangesAreTracked, Sound
<1>8. OneRequest' /\ PagesGoForward'
 BY <1>1 DEF OneRequest, PagesGoForward, Sound
<1>9. WindowHolds'
 <2> SUFFICES ASSUME Sound, forward # 0
              PROVE  /\ \A m \in DOMAIN messages' : m <= forward
                     /\ older # NoRequest => older.of <= forward
  BY <1>1 DEF WindowHolds, Sound
 <2>1. /\ \A m \in DOMAIN messages : m <= forward
       /\ older # NoRequest => older.of <= forward
  BY DEF WindowHolds
 <2>2. ~Outside(t) => t <= forward
  BY <1>0 DEF Outside, Message, TranscriptShape
 <2> QED BY <1>3, <2>1, <2>2
<1>10. UnreadIsKept'
 <2> SUFFICES ASSUME open', entry'.confirmed, ~blind', NEW m \in Message,
                     At(seen)'[m] \in {1, 2}, At(Len(log))'[m] \in {1, 2}, m > entry'.boundary
              PROVE  (m \in DOMAIN messages \/ Outside(m) \/ m \in gaveWay)'
  BY DEF UnreadIsKept, Alive, At
 <2>1. At(Len(log))[m] \in {1, 2} /\ Outside(m)' = Outside(m) /\ entry' = entry
  BY <1>0, <1>1 DEF At, Outside
 <2>2. m \in DOMAIN messages \cup (IF Outside(t) THEN {} ELSE {t}) => m \in DOMAIN messages' \cup gaveWay'
  BY <1>1 DEF GiveWay
 <2>3. gaveWay \subseteq gaveWay'
  BY <1>1 DEF GiveWay
 <2>4. CASE m = t
  BY <2>1, <2>2, <2>4
 <2>5. CASE m # t
  <3>1. m \in Alive(At(seen)) \cap Alive(At(Len(log)))
   BY <1>2, <2>1, <2>5, AliveIs
  <3>2. m \in DOMAIN messages \/ Outside(m) \/ m \in gaveWay
   BY <1>1, <3>1 DEF UnreadIsKept
  <3> QED BY <2>1, <2>2, <2>3, <3>2
 <2> QED BY <2>4, <2>5
<1>11. PagesNeverUndo'
 <2> SUFFICES ASSUME ~crossed, NEW m \in DOMAIN messages'
              PROVE  At(seen)'[m] <= messages'[m] /\ messages'[m] # 3
  BY <1>1 DEF PagesNeverUndo, Gone
 <2>1. m \in Message /\ messages'[m] \in {1, 2}
  BY <1>3, <1>5 DEF TranscriptShape
 <2>2. CASE m # t
  BY <1>2, <1>3, <2>1, <2>2 DEF PagesNeverUndo, Gone
 <2>3. CASE m = t
  <3>1. ~Outside(t)
   <4> SUFFICES ASSUME forward # 0, t > forward PROVE FALSE
    BY DEF Outside
   <4>1. t \in DOMAIN messages
    BY <1>3, <2>3 DEF Outside
   <4>2. t <= forward
    BY <4>1 DEF WindowHolds, Sound
   <4> QED BY <1>0, <4>2 DEF Message, TranscriptShape
  <3> QED BY <1>2, <1>3, <2>1, <2>3, <3>1
 <2> QED BY <2>2, <2>3
<1> QED BY <1>5, <1>7, <1>8, <1>9, <1>10, <1>11

\* What stays as long as nothing is told and nothing new is shown.
LEMMA Steady ==
  ASSUME UNCHANGED <<log, seen>>
  PROVE  /\ \A p : At(p)' = At(p)
         /\ At(seen)' = At(seen) /\ At(Len(log))' = At(Len(log))
         /\ LogIsSound => LogIsSound'
         /\ \A from : changes' = changes /\ Tracked(from) => Tracked(from)'
         /\ changes' = NoMessages /\ seen \in Nat => Tracked(seen)'
<1>1. \A p : At(p)' = At(p)
 BY DEF At
<1>2. At(seen)' = At(seen) /\ At(Len(log))' = At(Len(log))
 BY DEF At
<1>3. LogIsSound => LogIsSound'
 BY DEF LogIsSound, Posted
<1>4. \A from : changes' = changes /\ Tracked(from) => Tracked(from)'
 BY <1>1, <1>2 DEF Tracked
<1>5. changes' = NoMessages /\ seen \in Nat => Tracked(seen)'
 BY <1>1, <1>2 DEF Tracked, NoMessages
<1> QED BY <1>1, <1>2, <1>3, <1>4, <1>5

\* A request is made, given up, or fails.
LEMMA RequestStep ==
  ASSUME TranscriptInv,
         \/ OpenChat \/ OpenAnother \/ FirstUnread \/ NextUnreadPage \/ MoveAbove
         \/ KeyCancelsOlder \/ HistoryFailed \/ OlderFailed
  PROVE  TranscriptInv'
<1> USE DEF TranscriptInv, requestVars, readsVars, ghosts
<1>1. UNCHANGED <<log, seen, messages, lastId, readUpTo, crossed>>
 BY DEF OpenChat, OpenAnother, FirstUnread, NextUnreadPage, MoveAbove, KeyCancelsOlder,
        HistoryFailed, OlderFailed
<1>2. /\ At(seen)' = At(seen) /\ At(Len(log))' = At(Len(log)) /\ LogIsSound'
      /\ \A from : changes' = changes /\ Tracked(from) => Tracked(from)'
      /\ changes' = NoMessages => Tracked(seen)'
 BY <1>1, Steady, LogFacts DEF TranscriptShape
<1>3. /\ NoMessages \in [DOMAIN NoMessages -> 1 .. 3] /\ DOMAIN NoMessages = {}
      /\ NoRequest \in [kind : {"none", "latest", "after"}, of : Nat, from : Nat, cached : BOOLEAN]
      /\ NoRequest \in [kind : {"none", "older"}, of : Nat, from : Nat, cached : BOOLEAN]
      /\ NoUnreadEntry \in [boundary : Int, confirmed : BOOLEAN] /\ ~NoUnreadEntry.confirmed
      /\ seen \in Nat
 BY LogFacts DEF NoMessages, NoRequest, NoUnreadEntry, TranscriptShape
<1>4. PagesNeverUndo'
 BY <1>1, <1>2 DEF PagesNeverUndo
<1>5. CASE OpenChat
 <2>1. TranscriptShape'
  BY <1>1, <1>2, <1>3, <1>5 DEF OpenChat, TranscriptShape, NoRequest
 <2>2. ChangesAreTracked' /\ OneRequest' /\ WindowHolds' /\ PagesGoForward' /\ UnreadIsKept'
  BY <1>1, <1>2, <1>3, <1>5 DEF OpenChat, ChangesAreTracked, OneRequest, WindowHolds, PagesGoForward,
     UnreadIsKept
 <2> QED BY <1>4, <2>1, <2>2
<1>6. CASE OpenAnother
 <2>1. TranscriptShape'
  BY <1>1, <1>2, <1>3, <1>6 DEF OpenAnother, TranscriptShape
 <2>2. ChangesAreTracked' /\ OneRequest' /\ WindowHolds' /\ PagesGoForward' /\ UnreadIsKept'
  BY <1>1, <1>2, <1>3, <1>6 DEF OpenAnother, ChangesAreTracked, OneRequest, WindowHolds, PagesGoForward,
     UnreadIsKept
 <2> QED BY <1>4, <2>1, <2>2
<1>7. CASE FirstUnread
 <2>0. /\ history' = [kind |-> "after", of |-> readUpTo, from |-> seen, cached |-> FALSE]
       /\ older' = NoRequest /\ paging' = FALSE /\ changes' = NoMessages /\ forward' = 0
       /\ entry' = [boundary |-> readUpTo, confirmed |-> FALSE]
       /\ blind' = FALSE /\ open' = open
  BY <1>7 DEF FirstUnread
 <2>1. TranscriptShape'
  <3>1. /\ history' \in [kind : {"none", "latest", "after"}, of : Nat, from : Nat,
                          cached : BOOLEAN]
        /\ history'.kind = "after"
        /\ entry' \in [boundary : Int, confirmed : BOOLEAN]
   BY <1>3, <2>0 DEF TranscriptShape
  <3> QED BY <1>1, <1>2, <1>3, <2>0, <3>1 DEF TranscriptShape
 <2>2. ChangesAreTracked' /\ OneRequest' /\ WindowHolds' /\ PagesGoForward' /\ UnreadIsKept'
  BY <1>1, <1>2, <1>3, <1>7 DEF FirstUnread, ChangesAreTracked, OneRequest, WindowHolds, PagesGoForward,
     UnreadIsKept
 <2> QED BY <1>4, <2>1, <2>2
<1>8. CASE NextUnreadPage
 <2>0. /\ history' = [kind |-> "after", of |-> forward, from |-> seen, cached |-> FALSE]
       /\ older' = NoRequest /\ paging' = TRUE /\ changes' = NoMessages
       /\ UNCHANGED <<open, entry, forward, blind, gaveWay>>
  BY <1>8 DEF NextUnreadPage
 <2>1. TranscriptShape'
  <3>1. history' \in [kind : {"none", "latest", "after"}, of : Nat, from : Nat,
                      cached : BOOLEAN] /\ history'.kind = "after"
   BY <1>3, <2>0 DEF TranscriptShape
  <3> QED BY <1>1, <1>2, <1>3, <2>0, <3>1 DEF TranscriptShape
 <2>2. ChangesAreTracked' /\ OneRequest' /\ WindowHolds' /\ PagesGoForward'
  BY <1>1, <1>2, <1>3, <1>8 DEF NextUnreadPage, ChangesAreTracked, OneRequest, WindowHolds, PagesGoForward,
     Sound
 <2>3. UnreadIsKept'
  BY <1>1, <1>2, <1>8 DEF NextUnreadPage, UnreadIsKept, Alive, Outside
 <2> QED BY <1>4, <2>1, <2>2, <2>3
<1>9. CASE MoveAbove
 <2>1. /\ open /\ messages # NoMessages /\ history' = NoRequest /\ changes' = NoMessages
       /\ older' = [kind |-> "older", of |-> Min(DOMAIN messages), from |-> seen, cached |-> FALSE]
       /\ UNCHANGED <<open, entry, forward, paging, blind, gaveWay>>
  BY <1>9 DEF MoveAbove
 <2>2. Min(DOMAIN messages) \in DOMAIN messages /\ Min(DOMAIN messages) \in Nat
  <3>1. DOMAIN messages # {} /\ DOMAIN messages \subseteq Nat
   <4>1. DOMAIN messages \subseteq Nat /\ messages = [m \in DOMAIN messages |-> messages[m]]
    BY DEF TranscriptShape, Message
   <4>2. DOMAIN messages = {} => messages = NoMessages
    BY <4>1, Zenon DEF NoMessages
   <4> QED BY <2>1, <4>1, <4>2
  <3>2. \E x \in DOMAIN messages : \A y \in DOMAIN messages : x <= y
   BY <3>1, LeastFound
  <3> QED BY <3>1, <3>2 DEF Min
 <2>3. TranscriptShape'
  BY <1>1, <1>2, <1>3, <2>1, <2>2 DEF TranscriptShape
 <2>4. ChangesAreTracked' /\ OneRequest' /\ PagesGoForward'
  <3>1. older'.from = seen /\ Tracked(seen)'
   BY <1>2, <2>1
  <3>2. Tracked(older.from)'
   BY <1>1, <3>1
  <3>3. ChangesAreTracked'
   BY <2>1, <3>2 DEF ChangesAreTracked
  <3> QED BY <2>1, <3>3 DEF OneRequest, PagesGoForward, Sound
 <2>5. WindowHolds'
  BY <1>1, <2>1, <2>2 DEF WindowHolds, Sound
 <2>6. UnreadIsKept'
  BY <1>1, <1>2, <2>1 DEF UnreadIsKept, Alive, Outside
 <2> QED BY <1>4, <2>3, <2>4, <2>5, <2>6
<1>10. CASE KeyCancelsOlder \/ OlderFailed
 <2>1. older' = NoRequest /\ UNCHANGED <<open, history, changes, entry, forward, paging, blind, gaveWay>>
  BY <1>10 DEF KeyCancelsOlder, OlderFailed
 <2>2. TranscriptShape'
  BY <1>1, <1>2, <1>3, <2>1 DEF TranscriptShape
 <2>3. ChangesAreTracked' /\ OneRequest' /\ PagesGoForward' /\ WindowHolds'
  BY <1>1, <1>2, <2>1 DEF ChangesAreTracked, OneRequest, PagesGoForward, Sound, WindowHolds
 <2>4. UnreadIsKept'
  BY <1>1, <1>2, <2>1 DEF UnreadIsKept, Alive, Outside
 <2> QED BY <1>4, <2>2, <2>3, <2>4
<1>11. CASE HistoryFailed
 <2>1. /\ history # NoRequest /\ history' = NoRequest /\ changes' = NoMessages /\ paging' = FALSE
       /\ UNCHANGED <<open, older, entry, forward, blind, gaveWay>>
  BY <1>11 DEF HistoryFailed
 <2>2. TranscriptShape'
  BY <1>1, <1>2, <1>3, <2>1 DEF TranscriptShape
 <2>3. ChangesAreTracked' /\ OneRequest' /\ PagesGoForward' /\ WindowHolds'
  BY <1>1, <1>2, <2>1 DEF ChangesAreTracked, OneRequest, PagesGoForward, Sound, WindowHolds
 <2>4. UnreadIsKept'
  BY <1>1, <1>2, <2>1 DEF UnreadIsKept, Alive, Outside
 <2> QED BY <1>4, <2>2, <2>3, <2>4
<1> QED BY <1>5, <1>6, <1>7, <1>8, <1>9, <1>10, <1>11

\* A gap clears the chat.
LEMMA GapStep ==
  ASSUME TranscriptInv, GapClears
  PROVE  TranscriptInv'
<1> USE DEF TranscriptInv, requestVars, readsVars, ghosts
<1>1. /\ seen' = Len(log) /\ messages' = NoMessages /\ blind' = TRUE /\ gaveWay' = {}
      /\ crossed' = (crossed \/ older # NoRequest \/ forward # 0)
      /\ UNCHANGED <<log, lastId, readUpTo, open, older, entry, forward, paging>>
      /\ IF open
         THEN /\ history' = [kind |-> "latest", of |-> 0, from |-> Len(log), cached |-> FALSE]
              /\ changes' = NoMessages
         ELSE UNCHANGED <<history, changes>>
 BY DEF GapClears
<1>2. /\ Len(log) \in Nat /\ LogIsSound' /\ seen' \in 0 .. Len(log')
      /\ NoMessages \in [DOMAIN NoMessages -> {1, 2}]
      /\ NoMessages \in [DOMAIN NoMessages -> 1 .. 3] /\ DOMAIN NoMessages = {}
 <2>1. LogIsSound /\ Len(log) \in Nat
  BY LogFacts DEF TranscriptShape
 <2>2. LogIsSound'
  BY <1>1, <2>1 DEF LogIsSound, Posted
 <2>3. /\ NoMessages \in [DOMAIN NoMessages -> {1, 2}]
       /\ NoMessages \in [DOMAIN NoMessages -> 1 .. 3] /\ DOMAIN NoMessages = {}
  BY DEF NoMessages
 <2> QED BY <1>1, <2>1, <2>2, <2>3
<1>3. TranscriptShape'
 <2>1. /\ history' \in [kind : {"none", "latest", "after"}, of : Nat, from : Nat,
                         cached : BOOLEAN]
       /\ history' # NoRequest => history'.kind # "none"
       /\ DOMAIN changes' \subseteq Message /\ changes' \in [DOMAIN changes' -> 1 .. 3]
  <3>1. CASE open
   <4>1. history' = [kind |-> "latest", of |-> 0, from |-> Len(log), cached |-> FALSE]
         /\ changes' = NoMessages
    BY <1>1, <3>1
   <4>2. history'.kind = "latest"
         /\ history' \in [kind : {"none", "latest", "after"}, of : Nat, from : Nat,
                          cached : BOOLEAN]
    BY <1>2, <4>1
   <4>3. DOMAIN changes' \subseteq Message /\ changes' \in [DOMAIN changes' -> 1 .. 3]
    BY <1>2, <4>1
   <4> QED BY <4>2, <4>3
  <3>2. CASE ~open
   BY <1>1, <3>2 DEF TranscriptShape
  <3> QED BY <3>1, <3>2
 <2>2. DOMAIN messages' \subseteq Message /\ messages' \in [DOMAIN messages' -> {1, 2}]
       /\ blind' \in BOOLEAN /\ crossed' \in BOOLEAN
  BY <1>1, <1>2 DEF TranscriptShape
 <2> QED BY <1>1, <1>2, <2>1, <2>2 DEF TranscriptShape
<1>4. changes' = NoMessages => Tracked(Len(log))'
 BY <1>1, <1>2 DEF Tracked
<1>5. Sound' => ~crossed /\ older' = NoRequest /\ forward' = 0
 BY <1>1 DEF Sound, TranscriptShape
<1>6. ChangesAreTracked'
 <2>1. CASE open
  <3>1. history'.from = Len(log)' /\ Tracked(Len(log))'
   BY <1>1, <1>4, <2>1
  <3>2. Tracked(history.from)'
   BY <3>1
  <3> QED BY <1>5, <3>2 DEF ChangesAreTracked
 <2>2. CASE ~open
  BY <1>1, <1>5, <2>2 DEF ChangesAreTracked, OneRequest
 <2> QED BY <2>1, <2>2
<1>7. OneRequest' /\ WindowHolds' /\ PagesGoForward' /\ UnreadIsKept' /\ PagesNeverUndo'
 BY <1>1, <1>2, <1>5 DEF OneRequest, WindowHolds, PagesGoForward, UnreadIsKept, PagesNeverUndo
<1> QED BY <1>3, <1>6, <1>7

\* A page holds messages that stood when it was made.
LEMMA PageHolds ==
  ASSUME LogIsSound, NEW p \in 0 .. Len(log), NEW request,
         request.kind \in {"latest", "after", "older"}, NEW rows \in SUBSET Alive(At(p))
  PROVE  LET page == Restrict(At(p), Chosen(request, rows)) IN
         /\ DOMAIN page = Chosen(request, rows) /\ DOMAIN page \subseteq rows
         /\ \A m \in DOMAIN page : m \in Message /\ page[m] = At(p)[m] /\ page[m] \in {1, 2}
         /\ request.kind = "after" => \A m \in DOMAIN page : m > request.of
         /\ request.kind = "older" => \A m \in DOMAIN page : m < request.of
<1>1. rows \subseteq {m \in Message : At(p)[m] \in {1, 2}}
 BY AliveIs
<1>2. Chosen(request, rows) \subseteq rows
 <2>1. CASE request.kind = "latest"
  BY <2>1 DEF Chosen, Newest
 <2>2. CASE request.kind = "after"
  BY <2>2 DEF Chosen, Oldest
 <2>3. CASE request.kind = "older"
  BY <2>3 DEF Chosen, Newest
 <2> QED BY <2>1, <2>2, <2>3
<1>3. request.kind = "after" => \A m \in Chosen(request, rows) : m > request.of
 BY DEF Chosen, Oldest
<1>4. request.kind = "older" => \A m \in Chosen(request, rows) : m < request.of
 BY DEF Chosen, Newest
<1> DEFINE page == Restrict(At(p), Chosen(request, rows))
<1>5. DOMAIN page = Chosen(request, rows) /\ \A m \in DOMAIN page : page[m] = At(p)[m]
 BY DEF Restrict
<1> HIDE DEF page
<1>6. \A m \in DOMAIN page : m \in Message /\ page[m] = At(p)[m] /\ page[m] \in {1, 2}
 BY <1>1, <1>2, <1>5
<1> QED BY <1>2, <1>3, <1>4, <1>5, <1>6 DEF page

\* The page of the cache.
LEMMA CachedStep ==
  ASSUME TranscriptInv, NEW p \in 0 .. Len(log), NEW rows, CachedHistoryArrives(p, rows)
  PROVE  TranscriptInv'
<1> USE DEF TranscriptInv, requestVars, readsVars, ghosts
<1>1. /\ history # NoRequest /\ ~paging /\ p >= seen /\ rows \subseteq Alive(At(p))
      /\ messages' = Restrict(At(p), Chosen(history, rows))
      /\ history' = [history EXCEPT !.cached = TRUE]
      /\ UNCHANGED <<log, seen, lastId, readUpTo, open, older, changes, entry, forward, paging,
                     blind, crossed, gaveWay>>
 BY DEF CachedHistoryArrives
<1>2. /\ At(seen)' = At(seen) /\ LogIsSound' /\ LogIsSound
      /\ \A from : Tracked(from) => Tracked(from)'
      /\ Len(log) \in Nat /\ seen \in 0 .. Len(log) /\ p \in Nat
 BY <1>1, Steady, LogFacts DEF TranscriptShape
<1>3. history.kind \in {"latest", "after"}
 BY <1>1 DEF TranscriptShape
<1>4. \A m \in DOMAIN messages' : m \in Message /\ messages'[m] = At(p)[m] /\ messages'[m] \in {1, 2}
 BY <1>1, <1>2, <1>3, PageHolds
<1>5. messages' \in [DOMAIN messages' -> {1, 2}] /\ DOMAIN messages' \subseteq Message
 <2>1. messages' = [m \in DOMAIN messages' |-> messages'[m]]
  BY <1>1 DEF Restrict
 <2> QED BY <1>4, <2>1
<1>6. /\ history' \in [kind : {"none", "latest", "after"}, of : Nat, from : Nat, cached : BOOLEAN]
      /\ history'.kind = history.kind /\ history'.of = history.of /\ history'.from = history.from
 BY <1>1 DEF TranscriptShape
<1>7. TranscriptShape'
 BY <1>1, <1>2, <1>3, <1>5, <1>6 DEF TranscriptShape
<1>8. ChangesAreTracked'
 <2>1. Tracked(history.from)'
  <3>1. Tracked(history.from)
   BY <1>1 DEF ChangesAreTracked
  <3>2. PICK from : from = history.from /\ Tracked(from)
   BY <3>1
  <3>3. Tracked(from)' /\ history'.from = from
   BY <1>2, <1>6, <3>2
  <3> QED BY <3>3
 <2>2. Sound' /\ older' # NoRequest => Tracked(older.from)'
  <3> SUFFICES ASSUME Sound, older # NoRequest PROVE Tracked(older.from)'
   BY <1>1 DEF Sound
  <3>1. PICK from : from = older.from /\ Tracked(from)
   BY DEF ChangesAreTracked
  <3>2. Tracked(from)' /\ older'.from = from
   BY <1>1, <1>2, <3>1
  <3> QED BY <3>2
 <2> QED BY <2>1, <2>2 DEF ChangesAreTracked
<1>9. OneRequest' /\ PagesGoForward'
 BY <1>1, <1>3, <1>6 DEF OneRequest, PagesGoForward, Sound, NoRequest
<1>10. WindowHolds'
 BY <1>1 DEF WindowHolds, PagesGoForward, Sound
<1>11. UnreadIsKept'
 BY <1>1 DEF UnreadIsKept, PagesGoForward, NoUnreadEntry
<1>12. PagesNeverUndo'
 <2> SUFFICES ASSUME NEW m \in DOMAIN messages'
              PROVE  At(seen)'[m] <= messages'[m] /\ messages'[m] # 3
  BY DEF PagesNeverUndo, Gone
 <2>1. At(seen)[m] <= At(p)[m]
  BY <1>1, <1>2, <1>4, AtGrows
 <2> QED BY <1>2, <1>4, <2>1
<1> QED BY <1>7, <1>8, <1>9, <1>10, <1>11, <1>12

LEMMA EmptyIsNone == \A f : f = [m \in DOMAIN f |-> f[m]] /\ DOMAIN f = {} => f = NoMessages
BY Zenon DEF NoMessages

\* The page that answers a request of the history.
LEMMA HistoryStep ==
  ASSUME TranscriptInv, NEW p \in 0 .. Len(log), HistoryPage(p)
  PROVE  TranscriptInv'
<1> USE DEF TranscriptInv, requestVars, readsVars, ghosts
<1> DEFINE page == PageAt(history, p)
           last == IF page = NoMessages THEN 0 ELSE Max(DOMAIN page)
           isForward == paging \/ (entry # NoUnreadEntry /\ ~entry.confirmed)
           end == IF ~isForward THEN forward
                  ELSE IF last = 0 THEN 0 ELSE WindowEnd(page, last)
           live == {m \in Alive(changes) : end = 0 \/ m <= end}
           lifted == Overlaid(Restrict(page, DOMAIN page \ DOMAIN changes),
                              Restrict(changes, live))
           kept == Restrict(messages, {m \in DOMAIN messages :
                                        ~(m \in DOMAIN changes /\ changes[m] = Gone)})
           capped == IF paging THEN Overlaid(kept, lifted) ELSE lifted
<1>1. /\ history # NoRequest /\ p >= history.from
      /\ forward' = end
      /\ blind' = (blind \/ (isForward /\ lastId # Max(Alive(At(seen)) \cup {0})))
      /\ messages' = Capped(capped)
      /\ IF paging THEN UNCHANGED entry ELSE Positioned(TRUE)
      /\ GiveWay(DOMAIN lifted \cup (IF paging THEN DOMAIN kept ELSE {}))
      /\ history' = NoRequest /\ changes' = NoMessages /\ paging' = FALSE
      /\ UNCHANGED <<log, seen, lastId, readUpTo, open, older, crossed>>
 BY DEF HistoryPage
<1>2. /\ At(seen)' = At(seen) /\ At(Len(log))' = At(Len(log)) /\ LogIsSound' /\ LogIsSound
      /\ Len(log) \in Nat /\ seen \in 0 .. Len(log) /\ p \in Nat /\ MaxPosts \in Nat
      /\ forward \in Nat /\ lastId \in Nat /\ history.of \in Nat /\ history.from \in Nat
      /\ DOMAIN messages \subseteq Message /\ \A m \in DOMAIN messages : messages[m] \in {1, 2}
      /\ DOMAIN changes \subseteq Message /\ \A m \in DOMAIN changes : changes[m] \in 1 .. 3
      /\ paging \in BOOLEAN
 BY <1>1, Steady, LogFacts DEF TranscriptShape
<1>3. Tracked(history.from) /\ history.kind \in {"latest", "after"}
 BY <1>1 DEF ChangesAreTracked, TranscriptShape
\* The page.
<1>4. /\ DOMAIN page = Chosen(history, Alive(At(p)))
      /\ \A m \in DOMAIN page : m \in Message /\ page[m] = At(p)[m] /\ page[m] \in {1, 2}
      /\ history.kind = "after" => \A m \in DOMAIN page : m > history.of
      /\ page = [m \in DOMAIN page |-> page[m]]
 <2>1. page = Restrict(At(p), Chosen(history, Alive(At(p))))
  BY DEF PageAt
 <2>2. page = [m \in DOMAIN page |-> page[m]]
  BY <2>1 DEF Restrict
 <2> HIDE DEF page
 <2> QED BY <1>2, <1>3, <2>1, <2>2, PageHolds
<1>5. last \in Nat /\ (DOMAIN page = {} => last = 0)
      /\ (DOMAIN page # {} => last \in DOMAIN page /\ last # 0 /\ \A m \in DOMAIN page : m <= last)
 <2> HIDE DEF page
 <2>1. DOMAIN page = {} => page = NoMessages
  BY <1>4, EmptyIsNone
 <2>2. page = NoMessages => DOMAIN page = {}
  BY DEF NoMessages
 <2>3. DOMAIN page \subseteq 0 .. MaxPosts
  BY <1>2, <1>4 DEF Message
 <2>4. DOMAIN page # {} => Max(DOMAIN page) \in DOMAIN page /\ \A m \in DOMAIN page : m <= Max(DOMAIN page)
  BY <1>2, <2>3, GreatestFound
 <2>5. \A m \in DOMAIN page : m \in Nat /\ m # 0
  BY <1>2, <1>4 DEF Message
 <2> QED BY <2>1, <2>2, <2>4, <2>5
<1> HIDE DEF page, last
<1>6. /\ end \in Nat
      /\ isForward => end = 0 \/ (end = last /\ last # 0)
      /\ isForward /\ last # 0 /\ lastId > last /\ Cardinality(DOMAIN page) >= PageSize => end = last
      /\ ~isForward => end = forward
 BY <1>2, <1>5 DEF WindowEnd
<1>7. /\ DOMAIN lifted = (DOMAIN page \ DOMAIN changes) \cup live
      /\ \A m \in live : m \in DOMAIN changes /\ changes[m] \in {1, 2} /\ (end = 0 \/ m <= end)
      /\ \A m \in DOMAIN lifted : lifted[m] = IF m \in live THEN changes[m] ELSE page[m]
      /\ \A m \in DOMAIN changes : changes[m] \in {1, 2} /\ (end = 0 \/ m <= end) => m \in live
 <2> HIDE DEF end
 <2> QED BY DEF Overlaid, Restrict, Alive
<1>8. /\ DOMAIN kept = {m \in DOMAIN messages : ~(m \in DOMAIN changes /\ changes[m] = 3)}
      /\ \A m \in DOMAIN kept : kept[m] = messages[m]
 BY DEF Restrict, Gone
<1> HIDE DEF isForward, end, live, lifted, kept
<1>9. \A m \in DOMAIN messages' :
         \/ m \in DOMAIN lifted /\ messages'[m] = lifted[m]
         \/ paging /\ m \in DOMAIN kept /\ messages'[m] = messages[m]
 <2>1. DOMAIN messages' \subseteq DOMAIN capped /\ \A m \in DOMAIN messages' : messages'[m] = capped[m]
  <3> HIDE DEF capped
  <3> QED BY <1>1, CappedKeeps
 <2>2. CASE paging
  BY <1>8, <2>1, <2>2 DEF Overlaid
 <2>3. CASE ~paging
  BY <2>1, <2>3
 <2> QED BY <2>2, <2>3
<1>10. \A m \in DOMAIN messages' : m \in Message /\ messages'[m] \in {1, 2}
 BY <1>2, <1>4, <1>7, <1>8, <1>9
<1>11. TranscriptShape'
 <2>1. messages' = [m \in DOMAIN messages' |-> messages'[m]]
  <3> HIDE DEF capped
  <3> QED BY <1>1 DEF Capped, Restrict
 <2>2. messages' \in [DOMAIN messages' -> {1, 2}] /\ DOMAIN messages' \subseteq Message
  BY <1>10, <2>1
 <2>3. changes' \in [DOMAIN changes' -> 1 .. 3] /\ DOMAIN changes' \subseteq Message
  BY <1>1 DEF NoMessages
 <2>4. entry' \in [boundary : Int, confirmed : BOOLEAN]
  BY <1>1 DEF TranscriptShape, Positioned
 <2>5. blind' \in BOOLEAN
  BY <1>1 DEF TranscriptShape
 <2>6. history' \in [kind : {"none", "latest", "after"}, of : Nat, from : Nat, cached : BOOLEAN]
       /\ history' = NoRequest
  BY <1>1 DEF NoRequest
 <2>7. open' \in BOOLEAN /\ crossed' \in BOOLEAN /\ paging' \in BOOLEAN /\ readUpTo' \in Nat
       /\ older' \in [kind : {"none", "older"}, of : Nat, from : Nat, cached : BOOLEAN]
       /\ (older' # NoRequest => older'.kind = "older")
  BY <1>1 DEF TranscriptShape
 <2> QED BY <1>1, <1>2, <1>6, <2>2, <2>3, <2>4, <2>5, <2>6, <2>7 DEF TranscriptShape
<1>12. Sound' => Sound /\ older' = NoRequest
 BY <1>1 DEF Sound, OneRequest
<1>13. ChangesAreTracked' /\ OneRequest' /\ PagesGoForward'
 BY <1>1, <1>12 DEF ChangesAreTracked, OneRequest, PagesGoForward
<1>14. WindowHolds'
 <2> SUFFICES ASSUME Sound, older' = NoRequest, end # 0, NEW m \in DOMAIN messages'
              PROVE  m <= end
  BY <1>1, <1>12 DEF WindowHolds
 <2>1. isForward
  BY <1>1, <1>6 DEF isForward, PagesGoForward
 <2>2. end = last /\ last # 0 /\ DOMAIN page # {} /\ last \in DOMAIN page
  BY <1>5, <1>6, <2>1
 <2>3. CASE m \in DOMAIN lifted
  BY <1>5, <1>7, <2>2, <2>3
 <2>4. CASE paging /\ m \in DOMAIN kept
  <3>1. m <= forward /\ history.of = forward /\ history.kind = "after"
   BY <1>1, <1>8, <2>4 DEF WindowHolds, PagesGoForward
  <3>2. last > forward
   BY <1>4, <2>2, <3>1
  <3>3. m \in Nat
   BY <1>10 DEF Message
  <3> QED BY <1>2, <1>5, <2>2, <3>1, <3>2, <3>3
 <2> QED BY <1>9, <2>3, <2>4
<1>15. PagesNeverUndo'
 <2> SUFFICES ASSUME ~crossed, NEW m \in DOMAIN messages'
              PROVE  At(seen)[m] <= messages'[m] /\ messages'[m] # 3
  BY <1>1, <1>2 DEF PagesNeverUndo, Gone
 <2>0. m \in Message /\ At(seen)[m] \in 0 .. 3
  BY <1>2, <1>10, AtLast
 <2>1. CASE m \in DOMAIN lifted /\ messages'[m] = lifted[m]
  <3>1. CASE m \in live
   <4>1. messages'[m] = changes[m] /\ m \in DOMAIN changes
    BY <1>7, <2>1, <3>1
   <4>2. changes[m] = At(seen)[m]
    BY <1>3, <2>0, <4>1 DEF Tracked
   <4> QED BY <1>10, <2>0, <4>1, <4>2
  <3>2. CASE m \notin live
   <4>1. m \in DOMAIN page /\ m \notin DOMAIN changes /\ messages'[m] = At(p)[m]
    BY <1>4, <1>7, <2>1, <3>2
   <4>2. At(history.from)[m] = At(seen)[m] /\ history.from <= seen
    BY <1>3, <2>0, <4>1 DEF Tracked
   <4>3. At(history.from)[m] <= At(p)[m]
    BY <1>1, <1>2, <2>0, <4>2, AtGrows
   <4> QED BY <1>10, <4>1, <4>2, <4>3
  <3> QED BY <3>1, <3>2
 <2>2. CASE m \in DOMAIN kept /\ messages'[m] = messages[m]
  BY <1>8, <1>10, <2>2 DEF PagesNeverUndo, Gone
 <2> QED BY <1>9, <2>1, <2>2
\* Nothing after the boundary is left out but what is after the end.
<1>16. ASSUME isForward, history.kind = "after", lastId = Max(Alive(At(seen)) \cup {0}),
              NEW m \in Alive(At(seen)) \cap Alive(At(Len(log))), m > history.of
       PROVE  m \in DOMAIN lifted \/ (end # 0 /\ m > end)
 <2>1. m \in Message /\ At(seen)[m] \in {1, 2} /\ At(Len(log))[m] \in {1, 2} /\ m \in Nat
  BY AliveIs DEF Message
 <2>2. CASE m \in DOMAIN changes
  <3>1. changes[m] \in {1, 2}
   BY <1>3, <2>1, <2>2 DEF Tracked
  <3>2. m \in live \/ ~(end = 0 \/ m <= end)
   BY <1>7, <2>2, <3>1
  <3> QED BY <1>6, <1>7, <2>1, <3>2
 <2>3. CASE m \notin DOMAIN changes
  <3>1. At(history.from)[m] = At(seen)[m] /\ history.from <= seen
   BY <1>3, <2>1, <2>3 DEF Tracked
  <3>2. At(p)[m] \in {1, 2}
   <4>1. At(history.from)[m] <= At(p)[m]
    BY <1>1, <1>2, <2>1, <3>1, AtGrows
   <4>2. At(p)[m] <= At(Len(log))[m]
    <5>1. PICK n \in Nat : n = Len(log)
     BY <1>2
    <5>2. At(p)[m] <= At(n)[m]
     BY <1>2, <2>1, <5>1, AtGrows
    <5> QED BY <5>1, <5>2
   <4>3. At(p)[m] \in 0 .. 3
    BY <1>2, <2>1, AtLast
   <4> QED BY <2>1, <3>1, <4>1, <4>2, <4>3
  <3> DEFINE after == {k \in Alive(At(p)) : k > history.of}
  <3>3. m \in after /\ after \subseteq 0 .. MaxPosts
   <4>1. Alive(At(p)) \subseteq Message /\ m \in Alive(At(p))
    BY <2>1, <3>2, AliveIs
   <4> QED BY <1>2, <1>16, <4>1 DEF Message
  <3>4. DOMAIN page = LowerPart(after, PageSize)
   BY <1>4, <1>16 DEF Chosen, Oldest, LowerPart
  <3> HIDE DEF after
  <3>5. CASE m \in DOMAIN page
   BY <1>7, <2>3, <3>5
  <3>6. CASE m \notin DOMAIN page
   <4>0. PageSize \in Nat \ {0}
    BY TranscriptAssumption
   <4>1. DOMAIN page # {} /\ Cardinality(DOMAIN page) >= PageSize
    BY <1>2, <3>3, <3>4, <3>6, <4>0, LowerNotEmpty, LowerIsFull
   <4>2. last \in DOMAIN page /\ last # 0
    BY <1>5, <4>1
   <4>3. last < m
    BY <1>2, <3>3, <3>4, <3>6, <4>0, <4>2, LowerIsLower
   <4>4. m <= lastId
    <5> DEFINE all == Alive(At(seen)) \cup {0}
    <5>1. all \subseteq 0 .. MaxPosts /\ m \in all
     BY <1>2, AliveIs DEF Message
    <5> HIDE DEF all
    <5>2. m <= Max(all)
     BY <1>2, <5>1, GreatestFound
    <5> QED BY <1>16, <5>2 DEF all
   <4>5. lastId > last
    BY <1>2, <1>5, <2>1, <4>3, <4>4
   <4>6. end = last
    BY <1>6, <1>16, <4>1, <4>2, <4>5
   <4> QED BY <4>2, <4>3, <4>6
  <3> QED BY <3>5, <3>6
 <2> QED BY <2>2, <2>3
<1>17. UnreadIsKept'
 <2> SUFFICES ASSUME open, entry'.confirmed, ~blind',
                     NEW m \in Alive(At(seen)) \cap Alive(At(Len(log))), m > entry'.boundary
              PROVE  m \in DOMAIN messages' \/ (end # 0 /\ m > end) \/ m \in gaveWay'
  <3>1. Alive(At(seen))' = Alive(At(seen)) /\ Alive(At(Len(log)))' = Alive(At(Len(log)))
   BY <1>2 DEF Alive
  <3>2. \A m : Outside(m)' = (end # 0 /\ m > end)
   BY <1>1 DEF Outside
  <3> QED BY <1>1, <3>1 DEF UnreadIsKept, Outside
 <2>1. ~blind /\ Sound /\ (isForward => lastId = Max(Alive(At(seen)) \cup {0}))
  BY <1>1 DEF Sound
 <2>2. \A k \in DOMAIN lifted \cup (IF paging THEN DOMAIN kept ELSE {}) :
          k > entry'.boundary => k \in DOMAIN messages' \cup gaveWay'
  <3>1. entry'.boundary = entry.boundary
   BY <1>1 DEF Positioned, TranscriptShape
  <3> QED BY <1>1, <3>1 DEF GiveWay
 <2>3. CASE paging
  <3>1. entry' = entry /\ isForward /\ history.kind = "after" /\ history.of = forward /\ forward # 0
   BY <1>1, <2>1, <2>3 DEF PagesGoForward, isForward
  <3>2. m \in DOMAIN messages \/ m > forward \/ m \in gaveWay
   BY <2>1, <3>1 DEF UnreadIsKept, Outside
  <3>3. CASE m > forward
   BY <1>16, <2>1, <2>2, <2>3, <3>1, <3>3
  <3>4. CASE m \in gaveWay
   BY <1>1, <3>4 DEF GiveWay
  <3>5. CASE m \in DOMAIN messages
   <4>1. m \in Message /\ At(seen)[m] \in {1, 2}
    BY AliveIs
   <4>2. m \in DOMAIN changes => changes[m] # 3
    BY <1>3, <4>1 DEF Tracked
   <4>3. m \in DOMAIN kept
    BY <1>8, <3>5, <4>2
   <4> QED BY <2>2, <2>3, <4>3
  <3> QED BY <3>2, <3>3, <3>4, <3>5
 <2>4. CASE ~paging
  <3>1. entry # NoUnreadEntry
   BY <1>1, <2>4 DEF Positioned, NoUnreadEntry
  <3>2. isForward /\ history.kind = "after" /\ history.of = entry.boundary /\ entry'.boundary = entry.boundary
   BY <1>1, <2>1, <2>4, <3>1 DEF PagesGoForward, isForward, Positioned, TranscriptShape
  <3> QED BY <1>16, <2>1, <2>2, <3>2
 <2> QED BY <2>3, <2>4
<1> QED BY <1>11, <1>13, <1>14, <1>15, <1>17

\* The older page.
LEMMA OlderStep ==
  ASSUME TranscriptInv, NEW p \in 0 .. Len(log), OlderPage(p)
  PROVE  TranscriptInv'
<1> USE DEF TranscriptInv, requestVars, readsVars, ghosts
<1> DEFINE page == PageAt(older, p)
           here == {m \in DOMAIN page : ~(m \in DOMAIN changes /\ changes[m] = Gone)}
           lifted == Overlaid(Restrict(page, here),
                              Restrict(changes, here \cap DOMAIN changes))
           both == Overlaid(messages, lifted)
           combined == Restrict(both, {m \in DOMAIN both :
                            Cardinality({k \in DOMAIN both : k < m}) < Capacity})
<1>1. /\ older # NoRequest /\ p >= older.from /\ older' = NoRequest
      /\ IF here = {}
         THEN UNCHANGED <<messages, forward>>
         ELSE /\ messages' = combined
              /\ forward' = IF entry # NoUnreadEntry \/ forward # 0 THEN Max(DOMAIN combined)
                            ELSE forward
      /\ UNCHANGED <<log, seen, lastId, readUpTo, open, history, changes, entry, paging,
                     blind, crossed, gaveWay>>
 BY DEF OlderPage
<1>2. /\ At(seen)' = At(seen) /\ At(Len(log))' = At(Len(log)) /\ LogIsSound' /\ LogIsSound
      /\ \A from : Tracked(from) => Tracked(from)'
      /\ Len(log) \in Nat /\ seen \in 0 .. Len(log) /\ p \in Nat /\ MaxPosts \in Nat
      /\ forward \in Nat /\ older.of \in Nat /\ older.from \in Nat /\ older.kind = "older"
      /\ DOMAIN messages \subseteq Message /\ \A m \in DOMAIN messages : messages[m] \in {1, 2}
      /\ DOMAIN changes \subseteq Message /\ \A m \in DOMAIN changes : changes[m] \in 1 .. 3
 BY <1>1, Steady, LogFacts DEF TranscriptShape
<1>3. \A m \in DOMAIN page : m \in Message /\ page[m] = At(p)[m] /\ page[m] \in {1, 2} /\ m < older.of
 <2>1. page = Restrict(At(p), Chosen(older, Alive(At(p))))
  BY DEF PageAt
 <2> HIDE DEF page
 <2> QED BY <1>2, <2>1, PageHolds
<1> HIDE DEF page
<1>4. /\ DOMAIN lifted = here /\ here \subseteq DOMAIN page
      /\ \A m \in here : lifted[m] = IF m \in DOMAIN changes THEN changes[m] ELSE page[m]
      /\ \A m \in here : m \in DOMAIN changes => changes[m] # 3
 BY DEF Overlaid, Restrict, Gone
<1> HIDE DEF lifted, here
<1>5. /\ DOMAIN both = DOMAIN messages \cup here
      /\ \A m \in DOMAIN both : both[m] = IF m \in here THEN lifted[m] ELSE messages[m]
 BY <1>4 DEF Overlaid
<1> HIDE DEF both
<1>6. /\ DOMAIN combined = LowerPart(DOMAIN both, Capacity)
      /\ combined = [m \in DOMAIN combined |-> both[m]]
 BY DEF Restrict, LowerPart
<1>7. DOMAIN both \subseteq Message /\ DOMAIN both \subseteq 0 .. MaxPosts
      /\ \A m \in DOMAIN both : both[m] \in {1, 2}
 <2>1. \A m \in here : lifted[m] \in {1, 2} /\ m \in Message
  BY <1>2, <1>3, <1>4
 <2> QED BY <1>2, <1>5, <2>1 DEF Message
<1> HIDE DEF combined
<1>8. Capacity \in Nat \ {0}
 BY TranscriptAssumption
<1>9. here # {} => /\ Max(DOMAIN combined) \in DOMAIN combined
                   /\ \A m \in DOMAIN combined : m <= Max(DOMAIN combined)
                   /\ \A m \in DOMAIN both \ DOMAIN combined : m > Max(DOMAIN combined)
                   /\ DOMAIN combined \subseteq DOMAIN both
 <2> SUFFICES ASSUME here # {}
              PROVE  /\ Max(DOMAIN combined) \in DOMAIN combined
                     /\ \A m \in DOMAIN combined : m <= Max(DOMAIN combined)
                     /\ \A m \in DOMAIN both \ DOMAIN combined : m > Max(DOMAIN combined)
                     /\ DOMAIN combined \subseteq DOMAIN both
  OBVIOUS
 <2>1. DOMAIN combined # {} /\ DOMAIN combined \subseteq DOMAIN both
  <3>1. DOMAIN both # {}
   BY <1>5
  <3>2. LowerPart(DOMAIN both, Capacity) # {}
   BY <1>2, <1>7, <1>8, <3>1, LowerNotEmpty
  <3>3. LowerPart(DOMAIN both, Capacity) \subseteq DOMAIN both
   BY DEF LowerPart
  <3> QED BY <1>6, <3>2, <3>3
 <2>2. Max(DOMAIN combined) \in DOMAIN combined /\ \A m \in DOMAIN combined : m <= Max(DOMAIN combined)
  BY <1>2, <1>7, <2>1, GreatestFound
 <2>3. \A m \in DOMAIN both \ DOMAIN combined : Max(DOMAIN combined) < m
  BY <1>2, <1>6, <1>7, <1>8, <2>2, LowerIsLower
 <2>4. \A m \in DOMAIN both : m \in Nat
  BY <1>2, <1>7 DEF Message
 <2> QED BY <2>1, <2>2, <2>3, <2>4
<1>10. \A m \in DOMAIN both : m \in Nat /\ m # 0
 BY <1>2, <1>7 DEF Message
<1>11. TranscriptShape'
 <2>1. messages' \in [DOMAIN messages' -> {1, 2}] /\ DOMAIN messages' \subseteq Message
  BY <1>1, <1>6, <1>7, <1>9 DEF TranscriptShape
 <2>2. forward' \in Nat
  BY <1>1, <1>2, <1>9, <1>10
 <2>3. older' \in [kind : {"none", "older"}, of : Nat, from : Nat, cached : BOOLEAN]
  BY <1>1 DEF NoRequest
 <2> QED BY <1>1, <1>2, <2>1, <2>2, <2>3 DEF TranscriptShape
<1>12. forward # 0 => forward' # 0
 BY <1>1, <1>9, <1>10
<1>13. Sound => history = NoRequest
 BY <1>1 DEF OneRequest
<1>14. ChangesAreTracked' /\ OneRequest' /\ PagesGoForward'
 <2>1. history # NoRequest => Tracked(history.from)'
  <3>1. PICK from : from = history.from
   OBVIOUS
  <3> QED BY <1>1, <1>2, <3>1 DEF ChangesAreTracked
 <2>2. ChangesAreTracked'
  BY <1>1, <2>1 DEF ChangesAreTracked
 <2>3. ~open' => forward' = 0
  BY <1>1 DEF OneRequest
 <2> QED BY <1>1, <1>12, <1>13, <2>2, <2>3 DEF OneRequest, PagesGoForward, Sound
<1>15. WindowHolds'
 BY <1>1, <1>9 DEF WindowHolds, Sound
<1>16. PagesNeverUndo'
 <2> SUFFICES ASSUME ~crossed, NEW m \in DOMAIN messages'
              PROVE  At(seen)[m] <= messages'[m] /\ messages'[m] # 3
  BY <1>1, <1>2 DEF PagesNeverUndo, Gone
 <2>1. CASE here = {}
  BY <1>1, <2>1 DEF PagesNeverUndo, Gone
 <2>2. CASE here # {}
  <3>1. m \in DOMAIN both /\ messages'[m] = both[m] /\ m \in Message
   BY <1>1, <1>6, <1>7, <1>9, <2>2
  <3>2. At(seen)[m] \in 0 .. 3
   BY <1>2, <3>1, AtLast
  <3>3. Tracked(older.from)
   BY <1>1 DEF ChangesAreTracked, Sound
  <3>4. CASE m \notin here
   BY <1>5, <1>7, <3>1, <3>4 DEF PagesNeverUndo, Gone
  <3>5. CASE m \in here /\ m \in DOMAIN changes
   BY <1>4, <1>5, <3>1, <3>2, <3>3, <3>5 DEF Tracked
  <3>6. CASE m \in here /\ m \notin DOMAIN changes
   <4>1. messages'[m] = At(p)[m] /\ messages'[m] \in {1, 2}
    BY <1>3, <1>4, <1>5, <3>1, <3>6
   <4>2. At(older.from)[m] = At(seen)[m] /\ older.from <= seen
    BY <3>1, <3>3, <3>6 DEF Tracked
   <4>3. At(older.from)[m] <= At(p)[m]
    BY <1>1, <1>2, <3>1, <4>2, AtGrows
   <4> QED BY <4>1, <4>2, <4>3
  <3> QED BY <3>4, <3>5, <3>6
 <2> QED BY <2>1, <2>2
<1>17. UnreadIsKept'
 <2> SUFFICES ASSUME open, entry.confirmed, ~blind,
                     NEW m \in Alive(At(seen)) \cap Alive(At(Len(log))), m > entry.boundary
              PROVE  m \in DOMAIN messages' \/ (forward' # 0 /\ m > forward') \/ m \in gaveWay
  <3>1. Alive(At(seen))' = Alive(At(seen)) /\ Alive(At(Len(log)))' = Alive(At(Len(log)))
   BY <1>2 DEF Alive
  <3>2. \A m : Outside(m)' = (forward' # 0 /\ m > forward')
   BY DEF Outside
  <3> QED BY <1>1, <3>1, <3>2 DEF UnreadIsKept
 <2>1. m \in DOMAIN messages \/ Outside(m) \/ m \in gaveWay
  BY DEF UnreadIsKept
 <2>2. CASE here = {}
  BY <1>1, <2>1, <2>2 DEF Outside
 <2>3. CASE here # {}
  <3>1. entry # NoUnreadEntry
   BY DEF NoUnreadEntry
  <3>2. messages' = combined /\ forward' = Max(DOMAIN combined)
   BY <1>1, <2>3, <3>1
  <3>3. CASE m \in DOMAIN messages
   BY <1>5, <1>9, <1>10, <2>3, <3>2, <3>3
  <3>4. CASE Outside(m)
   <4>1. forward # 0 /\ m > forward /\ older.of <= forward /\ \A k \in DOMAIN messages : k <= forward
    BY <1>1, <3>4 DEF Outside, WindowHolds, Sound
   <4>2. forward' \in DOMAIN both
    BY <1>9, <2>3, <3>2
   <4>3. forward' <= forward
    BY <1>2, <1>3, <1>4, <1>5, <1>10, <4>1, <4>2
   <4>4. m \in Nat
    BY AliveIs DEF Message
   <4> QED BY <1>2, <1>10, <4>1, <4>2, <4>3, <4>4
  <3> QED BY <2>1, <3>3, <3>4
 <2> QED BY <2>2, <2>3
<1> QED BY <1>11, <1>14, <1>15, <1>16, <1>17

LEMMA TranscriptIsKept == TranscriptInv /\ [TranscriptNext]_transcriptVars => TranscriptInv'
<1> SUFFICES ASSUME TranscriptInv, [TranscriptNext]_transcriptVars PROVE TranscriptInv'
 OBVIOUS
<1>1. CASE Posts
 <2> DEFINE e == <<Posted + 1, 1>>
 <2>1. Posted \in Nat /\ MaxPosts \in Nat
  BY LogFacts DEF TranscriptInv, TranscriptShape
 <2>2. e \in Happening /\ log' = Append(log, e) /\ Posted < MaxPosts /\ e[1] = Posted + 1 /\ e[2] = 1
  BY <1>1, <2>1 DEF Posts, Happening, Message
 <2>3. UNCHANGED <<seen, messages, lastId, readUpTo, open, requestVars, readsVars, browsing,
                   losses, ghosts>>
  BY <1>1 DEF Posts
 <2>4. LogIsSound'
  <3> HIDE DEF e
  <3> QED BY <2>2, LogGrows DEF TranscriptInv, TranscriptShape
 <2> HIDE DEF e
 <2> QED BY <2>2, <2>3, <2>4, LogStep
<1>2. ASSUME NEW m \in Message, NEW version \in {2, Gone}, ChatChanges(m, version)
      PROVE  TranscriptInv'
 <2> DEFINE e == <<m, version>>
 <2>1. e \in Happening /\ log' = Append(log, e) /\ At(Len(log))[e[1]] \in 1 .. e[2] - 1 /\ e[2] # 1
  BY <1>2 DEF ChatChanges, Happening, Gone
 <2>2. UNCHANGED <<seen, messages, lastId, readUpTo, open, requestVars, readsVars, browsing,
                   losses, ghosts>>
  BY <1>2 DEF ChatChanges
 <2> HIDE DEF e
 <2>3. LogIsSound'
  BY <2>1, LogGrows DEF TranscriptInv, TranscriptShape
 <2> QED BY <2>1, <2>2, <2>3, LogStep
<1>3. CASE UNCHANGED transcriptVars
 <2>1. UNCHANGED <<log, seen, messages, lastId, readUpTo, open, history, older, changes, loading,
                   entry, forward, paging, browsing, losses, blind, crossed, gaveWay>>
  BY <1>3 DEF transcriptVars, requestVars, readsVars, ghosts
 <2>2. /\ At(seen)' = At(seen) /\ At(Len(log))' = At(Len(log)) /\ (LogIsSound => LogIsSound')
       /\ \A from : Tracked(from) => Tracked(from)'
  BY <2>1, Steady
 <2>3. TranscriptShape' /\ OneRequest' /\ WindowHolds' /\ PagesGoForward'
  BY <2>1, <2>2 DEF TranscriptInv, TranscriptShape, OneRequest, WindowHolds, PagesGoForward, Sound
 <2>4. ChangesAreTracked'
  <3>1. PICK from, above : from = history.from /\ above = older.from
   OBVIOUS
  <3> QED BY <2>1, <2>2, <3>1 DEF TranscriptInv, ChangesAreTracked, Sound
 <2>5. UnreadIsKept' /\ PagesNeverUndo'
  BY <2>1, <2>2 DEF TranscriptInv, UnreadIsKept, PagesNeverUndo, Alive, Outside
 <2> QED BY <2>3, <2>4, <2>5 DEF TranscriptInv
<1> QED BY <1>1, <1>2, <1>3, TellsStep, GapStep, RequestStep, CachedStep, HistoryStep, OlderStep
        DEF TranscriptNext

(* What the terminal shows of a chat is never behind what the updates told it, and reading
   forward from the first unread message skips nothing, for histories, pages and windows of
   any length, any number of edits, deletions and gaps, and any answer of the cache. *)
THEOREM PagesFitTheUpdates == TranscriptSpec => []PagesFit
<1>1. TranscriptInit => TranscriptInv
 BY TranscriptStarts
<1>2. TranscriptInv /\ [TranscriptNext]_transcriptVars => TranscriptInv'
 BY TranscriptIsKept
<1>3. TranscriptInv => PagesFit
 BY TranscriptInvHolds
<1> QED BY <1>1, <1>2, <1>3, PTL DEF TranscriptSpec
-------------------------------------------------------------------------------
(* The types of both. *)

\* What a retry refers to has been sent.
RetriesAreSent == retry \in 0 .. Len(sends) /\ retries \subseteq DOMAIN sends

\* A comparison with a message of the server only takes retries away.
LEMMA ReconcileRetries ==
  ASSUME NEW l, NEW contents
  PROVE  /\ Reconcile(l, contents).retry \in {l.retry, 0}
         /\ Reconcile(l, contents).retries \subseteq l.retries
BY DEF Reconcile, Reconciled

LEMMA MergeRetries ==
  ASSUME NEW last \in Nat, NEW f, Merges(f, last)
  PROVE  f[last].retry \in {retry, 0} /\ f[last].retries \subseteq retries
<1> DEFINE Right(m) == f[m].retry \in {retry, 0} /\ f[m].retries \subseteq retries
           Wrong == {m \in 0 .. last : ~Right(m)}
<1>1. \A m \in 0 .. last :
        f[m] = IF m = 0 THEN Local ELSE Reconcile(f[m - 1], Contents(delivered[m]))
 BY DEF Merges
<1>2. Right(0)
 BY <1>1 DEF Local
<1>3. ASSUME NEW m \in 1 .. last, Right(m - 1) PROVE Right(m)
 <2>1. f[m] = Reconcile(f[m - 1], Contents(delivered[m]))
  BY <1>1
 <2>2. /\ Reconcile(f[m - 1], Contents(delivered[m])).retry \in {f[m - 1].retry, 0}
       /\ Reconcile(f[m - 1], Contents(delivered[m])).retries \subseteq f[m - 1].retries
  BY ReconcileRetries
 <2>3. f[m].retry \in {f[m - 1].retry, 0} /\ f[m].retries \subseteq f[m - 1].retries
  BY <2>1, <2>2, Zenon
 <2> QED BY <1>3, <2>3
<1> SUFFICES ASSUME Wrong # {} PROVE FALSE
 OBVIOUS
<1>4. PICK m \in Wrong : \A k \in Wrong : m <= k
 <2>1. Wrong \subseteq Nat
  OBVIOUS
 <2> HIDE DEF Wrong
 <2> QED BY <2>1, LeastFound
<1>5. m \in 0 .. last /\ ~Right(m)
 OBVIOUS
<1> HIDE DEF Right
<1>6. m \in 1 .. last /\ m - 1 \in 0 .. last /\ ~(m <= m - 1)
 BY <1>2, <1>5
<1>7. Right(m - 1)
 BY <1>4, <1>6
<1> QED BY <1>3, <1>5, <1>6, <1>7

LEMMA RetriesStep ==
  ASSUME OutboxShape, RetriesAreSent, [OutboxNext]_outboxVars
  PROVE  RetriesAreSent'
<1>0. /\ Len(sends) \in Nat /\ DOMAIN sends = 1 .. Len(sends) /\ DOMAIN entries \subseteq DOMAIN sends
      /\ sends \in Seq(Sent) /\ Len(delivered) \in Nat
      /\ retry \in 0 .. Len(sends) /\ retries \subseteq DOMAIN sends
 BY SendsAreNumbered DEF OutboxShape, RetriesAreSent
<1>1. ASSUME retry' \in {retry, 0} \cup DOMAIN sends, retries' \subseteq DOMAIN sends,
             Len(sends') \in {Len(sends), Len(sends) + 1}, DOMAIN sends' = 1 .. Len(sends')
      PROVE  RetriesAreSent'
 <2>1. PICK a, b : a = Len(sends) /\ b = Len(sends')
  OBVIOUS
 <2>2. a \in Nat /\ b \in {a, a + 1} /\ DOMAIN sends = 1 .. a /\ DOMAIN sends' = 1 .. b
  BY <1>0, <1>1, <2>1, Zenon
 <2>3. 1 .. a \subseteq 1 .. b /\ 0 .. a \subseteq 0 .. b /\ 1 .. a \subseteq 0 .. b /\ 0 \in 0 .. b
  BY <2>2
 <2>4. retry' \in 0 .. b /\ retries' \subseteq 1 .. b
  BY <1>0, <1>1, <2>1, <2>2, <2>3, Zenon
 <2> QED BY <2>1, <2>2, <2>4, Zenon DEF RetriesAreSent
<1>2. ASSUME NEW c, sends' = Append(sends, c)
      PROVE  Len(sends') = Len(sends) + 1 /\ DOMAIN sends' = 1 .. Len(sends')
 BY <1>0, <1>2
<1>3. ASSUME NEW n \in DOMAIN sends, NEW at, sends' = [sends EXCEPT ![n].at = at]
      PROVE  Len(sends') = Len(sends) /\ DOMAIN sends' = 1 .. Len(sends')
 BY <1>0, <1>3
<1>4. ASSUME NEW l, LocalBecomes(l), l.retry \in {retry, 0}, l.retries \subseteq retries,
             sends' = sends
      PROVE  RetriesAreSent'
 <2>1. retry' \in {retry, 0} /\ retries' \subseteq retries
  BY <1>4 DEF LocalBecomes
 <2> QED BY <1>0, <1>1, <1>4, <2>1
<1>5. ASSUME NEW text, Types(text) PROVE RetriesAreSent'
 BY <1>5, <1>0, <1>1 DEF Types
<1>6. CASE SendDraft
 <2>1. PICK c : sends' = Append(sends, c)
  BY <1>6 DEF SendDraft
 <2> QED BY <1>6, <1>0, <1>1, <1>2, <2>1 DEF SendDraft
<1>7. ASSUME NEW staged, SendStaged(staged) PROVE RetriesAreSent'
 <2>1. PICK c : sends' = Append(sends, c)
  BY <1>7 DEF SendStaged
 <2> QED BY <1>7, <1>0, <1>1, <1>2, <2>1 DEF SendStaged
<1>8. ASSUME NEW n \in DOMAIN sends, RetryAttachment(n) PROVE RetriesAreSent'
 <2>1. sends' = [sends EXCEPT ![n].at = "asked"] /\ retry' = retry /\ retries' \subseteq retries
  BY <1>8 DEF RetryAttachment
 <2> QED BY <1>0, <1>1, <1>3, <2>1
<1>9. ASSUME NEW n \in DOMAIN sends, CarryOut(n) PROVE RetriesAreSent'
 <2>1. sends' = [sends EXCEPT ![n].at = "carried"] /\ retry' = retry /\ retries' = retries
  BY <1>9 DEF CarryOut, outboxTerminal
 <2> QED BY <1>0, <1>1, <1>3, <2>1
<1>10. ASSUME NEW n \in DOMAIN sends, MessageSent(n) \/ MessageAccepted(n) PROVE RetriesAreSent'
 <2>1. sends' = [sends EXCEPT ![n].at = "answered"] /\ retry' = retry /\ retries' \subseteq retries
  BY <1>10 DEF MessageSent, MessageAccepted, Answered
 <2> QED BY <1>0, <1>1, <1>3, <2>1
<1>11. ASSUME NEW n \in DOMAIN sends, SendFails(n) \/ AttachmentSendFails(n)
       PROVE  RetriesAreSent'
 <2>1. sends' = [sends EXCEPT ![n].at = "answered"]
  BY <1>11 DEF SendFails, AttachmentSendFails, Answered
 <2>2. retry' \in {retry, n} /\ retries' \subseteq retries \cup {n}
  BY <1>11 DEF SendFails, AttachmentSendFails
 <2> QED BY <1>0, <1>1, <1>3, <2>1, <2>2
<1>12. CASE Told
 <2>0. sends' = sends /\ Local.retry = retry /\ Local.retries = retries
  BY <1>12 DEF Told, Local
 <2>1. CASE heard' \in shown
  <3>1. LocalBecomes(Local)
   BY <1>12, <2>1 DEF Told
  <3> QED BY <1>4, <2>0, <3>1
 <2>2. CASE heard' \notin shown
  <3> DEFINE l == Reconcile(Local, Contents(delivered[heard']))
  <3>1. LocalBecomes(l)
   BY <1>12, <2>2 DEF Told
  <3>2. l.retry \in {retry, 0} /\ l.retries \subseteq retries
   BY <2>0, ReconcileRetries
  <3> HIDE DEF l
  <3> QED BY <1>4, <2>0, <3>1, <3>2
 <2> QED BY <2>1, <2>2
<1>13. CASE NotTold
 BY <1>13, <1>0, <1>1 DEF NotTold, outboxTerminal
<1>14. ASSUME NEW last \in 0 .. Len(delivered), HistoryArrives(last) PROVE RetriesAreSent'
 <2>1. last \in Nat
  BY <1>0
 <2>2. \E f : Merges(f, last) /\ LocalBecomes(f[last])
  <3>1. \E f : Merges(f, last)
   BY <2>1, MergeExists
  <3> QED BY <1>14, <3>1, Zenon DEF HistoryArrives, Merges
 <2>3. PICK f : Merges(f, last) /\ LocalBecomes(f[last])
  BY <2>2
 <2>4. f[last].retry \in {retry, 0} /\ f[last].retries \subseteq retries
  BY <2>1, <2>3, MergeRetries
 <2>5. sends' = sends
  BY <1>14 DEF HistoryArrives
 <2> QED BY <1>4, <2>3, <2>4, <2>5
<1>15. CASE OutboxGap
 BY <1>15, <1>0, <1>1 DEF OutboxGap
<1>16. CASE UNCHANGED outboxVars
 BY <1>16, <1>0, <1>1 DEF outboxVars, outboxTerminal
<1> QED BY <1>5, <1>6, <1>7, <1>8, <1>9, <1>10, <1>11, <1>12, <1>13, <1>14, <1>15, <1>16
        DEF OutboxNext

OutboxFullInv == OutboxInv /\ RetriesAreSent

LEMMA OutboxFullBegins == OutboxInit => OutboxFullInv
<1>1. OutboxInit => RetriesAreSent
 BY DEF OutboxInit, RetriesAreSent
<1> QED BY <1>1, OutboxBegins DEF OutboxFullInv

LEMMA OutboxFullKept == OutboxFullInv /\ [OutboxNext]_outboxVars => OutboxFullInv'
BY OutboxStep, RetriesStep DEF OutboxFullInv, OutboxInv

LEMMA OutboxTypeFollows == OutboxFullInv => OutboxType
BY DEF OutboxFullInv, OutboxInv, OutboxShape, RetriesAreSent, OutboxType

(* What the composer, the local messages and the retries refer to was sent, and what is
   shown was delivered, for any bounds. *)
THEOREM OutboxTypeCorrect == OutboxSpec => []OutboxType
BY OutboxFullBegins, OutboxFullKept, OutboxTypeFollows, PTL DEF OutboxSpec

-------------------------------------------------------------------------------
\* What is greatest: the members with fewer than size members above them.
UpperPart(S, size) == {m \in S : Cardinality({k \in S : k > m}) < size}

LEMMA AddedIsSmall ==
  ASSUME NEW S, IsFiniteSet(S), NEW m, NEW part, part \subseteq S \cup {m},
         NEW size \in Nat, Cardinality(S) < size
  PROVE  Cardinality(part) <= size
<1>1. IsFiniteSet(S \cup {m}) /\ Cardinality(S \cup {m}) <= Cardinality(S) + 1
 <2>1. /\ IsFiniteSet(S \cup {m})
       /\ Cardinality(S \cup {m}) = IF m \in S THEN Cardinality(S) ELSE Cardinality(S) + 1
  BY FS_AddElement
 <2>2. Cardinality(S) \in Nat
  BY FS_CardinalityType
 <2> QED BY <2>1, <2>2
<1>2. Cardinality(part) <= Cardinality(S \cup {m})
 BY <1>1, FS_Subset
<1>3. Cardinality(S) \in Nat /\ Cardinality(S \cup {m}) \in Nat /\ Cardinality(part) \in Nat
 BY <1>1, FS_CardinalityType, FS_Subset
<1> QED BY <1>1, <1>2, <1>3

LEMMA FiniteBelow ==
  ASSUME NEW n \in Nat, NEW S \in SUBSET (0 .. n)
  PROVE  IsFiniteSet(S) /\ Cardinality(S) \in Nat
<1>1. IsFiniteSet(0 .. n)
 BY FS_Interval
<1> QED BY <1>1, FS_Subset, FS_CardinalityType

LEMMA LowerIsSmall ==
  ASSUME NEW n \in Nat, NEW S \in SUBSET (0 .. n), NEW size \in Nat
  PROVE  Cardinality(LowerPart(S, size)) <= size
<1>1. CASE LowerPart(S, size) = {}
 BY <1>1, FS_EmptySet
<1>2. CASE LowerPart(S, size) # {}
 <2> DEFINE part == LowerPart(S, size)
            below == {k \in S : k < Max(part)}
 <2>1. part \subseteq S /\ part \in SUBSET (0 .. n)
  BY DEF LowerPart
 <2>2. Max(part) \in part /\ \A y \in part : y <= Max(part)
  <3> HIDE DEF part
  <3> QED BY <1>2, <2>1, GreatestFound DEF part
 <2>3. Cardinality(below) < size
  BY <2>2 DEF LowerPart
 <2>4. below \in SUBSET (0 .. n)
  OBVIOUS
 <2>5. part \subseteq below \cup {Max(part)}
  <3> SUFFICES ASSUME NEW k \in part PROVE k \in S /\ (k < Max(part) \/ k = Max(part))
   OBVIOUS
  <3> HIDE DEF part
  <3>1. k <= Max(part) /\ k \in 0 .. n /\ Max(part) \in 0 .. n
   BY <2>1, <2>2
  <3> QED BY <2>1, <3>1
 <2>6. IsFiniteSet(below)
  <3> HIDE DEF below
  <3> QED BY <2>4, FiniteBelow
 <2> HIDE DEF part, below
 <2>7. Cardinality(part) <= size
  BY <2>3, <2>5, <2>6, AddedIsSmall
 <2> QED BY <2>7 DEF part
<1> QED BY <1>1, <1>2

LEMMA UpperIsSmall ==
  ASSUME NEW n \in Nat, NEW S \in SUBSET (0 .. n), NEW size \in Nat
  PROVE  Cardinality(UpperPart(S, size)) <= size
<1>1. CASE UpperPart(S, size) = {}
 BY <1>1, FS_EmptySet
<1>2. CASE UpperPart(S, size) # {}
 <2> DEFINE part == UpperPart(S, size)
 <2>0. part \subseteq S
  BY DEF UpperPart
 <2>1. part \subseteq S /\ part \in SUBSET (0 .. n) /\ part \in SUBSET Nat
  <3> HIDE DEF part
  <3> QED BY <2>0
 <2>2. PICK m \in part : \A y \in part : m <= y
  <3> HIDE DEF part
  <3> QED BY <1>2, <2>1, LeastFound DEF part
 <2> DEFINE above == {k \in S : k > m}
 <2>3. Cardinality(above) < size
  BY DEF UpperPart
 <2>4. above \in SUBSET (0 .. n)
  OBVIOUS
 <2>5. part \subseteq above \cup {m}
  <3> SUFFICES ASSUME NEW k \in part PROVE k \in S /\ (k > m \/ k = m)
   OBVIOUS
  <3> HIDE DEF part
  <3>1. m <= k /\ k \in 0 .. n /\ m \in 0 .. n
   BY <2>1, <2>2
  <3> QED BY <2>1, <3>1
 <2>6. IsFiniteSet(above)
  <3> HIDE DEF above
  <3> QED BY <2>4, FiniteBelow
 <2> HIDE DEF part, above
 <2>7. Cardinality(part) <= size
  BY <2>3, <2>5, <2>6, AddedIsSmall
 <2> QED BY <2>7 DEF part
<1> QED BY <1>1, <1>2

\* The transcript is within its bounds.
WithinBounds ==
    /\ Cardinality(DOMAIN messages) <= Capacity
    /\ lastId \in 0 .. MaxPosts /\ forward \in 0 .. MaxPosts

LEMMA ShownIsFinite ==
  ASSUME NEW S \in SUBSET Message
  PROVE  S \in SUBSET (0 .. MaxPosts) /\ IsFiniteSet(S) /\ Cardinality(S) \in Nat
<1>1. MaxPosts \in Nat /\ S \in SUBSET (0 .. MaxPosts)
 BY TranscriptAssumption DEF Message
<1> QED BY <1>1, FiniteBelow

LEMMA CappedIsSmall ==
  ASSUME NEW f, DOMAIN f \subseteq Message
  PROVE  Cardinality(DOMAIN Capped(f)) <= Capacity
<1>1. DOMAIN Capped(f) = UpperPart(DOMAIN f, Capacity)
 BY DEF Capped, Restrict, UpperPart
<1>2. MaxPosts \in Nat /\ Capacity \in Nat /\ DOMAIN f \in SUBSET (0 .. MaxPosts)
 BY TranscriptAssumption DEF Message
<1> QED BY <1>1, <1>2, UpperIsSmall

LEMMA PageIsSmall ==
  ASSUME NEW request, request.kind \in {"latest", "after", "older"},
         NEW rows \in SUBSET Message
  PROVE  Cardinality(Chosen(request, rows)) <= PageSize
<1>1. MaxPosts \in Nat /\ PageSize \in Nat /\ rows \in SUBSET (0 .. MaxPosts)
 BY TranscriptAssumption DEF Message
<1>2. ASSUME NEW S \in SUBSET rows PROVE Cardinality(Newest(S)) <= PageSize
 <2>1. Newest(S) = UpperPart(S, PageSize)
  BY DEF Newest, UpperPart
 <2> QED BY <1>1, <2>1, UpperIsSmall
<1>3. ASSUME NEW S \in SUBSET rows PROVE Cardinality(Oldest(S)) <= PageSize
 <2>1. Oldest(S) = LowerPart(S, PageSize)
  BY DEF Oldest, LowerPart
 <2> QED BY <1>1, <2>1, LowerIsSmall
<1>4. CASE request.kind = "latest"
 BY <1>2, <1>4 DEF Chosen
<1>5. CASE request.kind = "after"
 <2>1. Chosen(request, rows) = Oldest({m \in rows : m > request.of})
  BY <1>5 DEF Chosen
 <2>2. {m \in rows : m > request.of} \in SUBSET rows
  OBVIOUS
 <2> QED BY <1>3, <2>1, <2>2
<1>6. CASE request.kind = "older"
 <2>1. Chosen(request, rows) = Newest({m \in rows : m < request.of})
  BY <1>6 DEF Chosen
 <2>2. {m \in rows : m < request.of} \in SUBSET rows
  OBVIOUS
 <2> QED BY <1>2, <2>1, <2>2
<1> QED BY <1>4, <1>5, <1>6

LEMMA BoundsTells ==
  ASSUME TranscriptShape, WithinBounds, TellsNext
  PROVE  WithinBounds'
<1> DEFINE t == log[seen'][1]
           version == log[seen'][2]
<1>0. /\ t \in Message /\ version \in 1 .. 3 /\ MaxPosts \in Nat /\ DOMAIN messages \subseteq Message
 <2>1. LogIsSound /\ seen \in 0 .. Len(log) /\ DOMAIN messages \subseteq Message
  BY DEF TranscriptShape
 <2>2. seen < Len(log) /\ seen' = seen + 1
  BY DEF TellsNext
 <2>3. /\ Len(log) \in Nat /\ MaxPosts \in Nat
       /\ \A i \in 1 .. Len(log) : log[i][1] \in Message /\ log[i][2] \in 1 .. 3
  BY <2>1, LogFacts
 <2>4. seen' \in 1 .. Len(log)
  BY <2>1, <2>2, <2>3
 <2> QED BY <2>1, <2>3, <2>4
<1>1. /\ forward' = forward
      /\ version = 1 => Receives(t)
      /\ version = 2 => Updates(t)
      /\ version = 3 => Removes(t)
 BY DEF TellsNext, Gone, readsVars
<1> HIDE DEF t, version
<1>2. ASSUME NEW v, messages' = Upsert(messages, t, v)
      PROVE  Cardinality(DOMAIN messages') <= Capacity
 <2> DEFINE f == [k \in DOMAIN messages \cup {t} |-> IF k = t THEN v ELSE messages[k]]
 <2>1. messages' = Capped(f) /\ DOMAIN f \subseteq Message
  BY <1>0, <1>2 DEF Upsert
 <2> HIDE DEF f
 <2> QED BY <2>1, CappedIsSmall
<1>3. Cardinality(DOMAIN messages') <= Capacity
 <2>1. CASE messages' = messages
  BY <2>1 DEF WithinBounds
 <2>2. CASE version = 3
  <3>1. DOMAIN messages' \subseteq DOMAIN messages
   BY <1>1, <2>2 DEF Removes, Restrict
  <3>2. IsFiniteSet(DOMAIN messages) /\ Cardinality(DOMAIN messages) \in Nat
        /\ Cardinality(DOMAIN messages') \in Nat
   BY <1>0, <3>1, ShownIsFinite
  <3>3. Cardinality(DOMAIN messages') <= Cardinality(DOMAIN messages)
   BY <3>1, <3>2, FS_Subset
  <3>4. Capacity \in Nat /\ Cardinality(DOMAIN messages) <= Capacity
   BY TranscriptAssumption DEF WithinBounds
  <3> QED BY <3>2, <3>3, <3>4
 <2> QED BY <1>0, <1>1, <1>2, <2>1, <2>2 DEF Receives, Updates
<1>4. lastId' \in 0 .. MaxPosts
 BY <1>0, <1>1 DEF Receives, Updates, Removes, WithinBounds, Message
<1> QED BY <1>1, <1>3, <1>4 DEF WithinBounds

LEMMA BoundsPages ==
  ASSUME TranscriptShape, WithinBounds, NEW p \in 0 .. Len(log),
         HistoryPage(p) \/ OlderPage(p) \/ \E rows : CachedHistoryArrives(p, rows)
  PROVE  WithinBounds'
<1>0. /\ MaxPosts \in Nat /\ PageSize \in Nat \ {0} /\ Capacity \in Nat \ {0} /\ PageSize <= Capacity
      /\ LogIsSound /\ DOMAIN messages \subseteq Message /\ DOMAIN changes \subseteq Message
      /\ Alive(At(p)) \in SUBSET Message
      /\ Cardinality(DOMAIN messages) <= Capacity
      /\ lastId \in 0 .. MaxPosts /\ forward \in 0 .. MaxPosts
 BY TranscriptAssumption, AliveIs DEF TranscriptShape, WithinBounds
<1>1. ASSUME NEW request, request.kind \in {"latest", "after", "older"},
             NEW rows \in SUBSET Alive(At(p))
      PROVE  LET page == Restrict(At(p), Chosen(request, rows)) IN
             /\ DOMAIN page \subseteq Message
             /\ Cardinality(DOMAIN page) <= PageSize
             /\ page = [m \in DOMAIN page |-> page[m]]
 <2> DEFINE page == Restrict(At(p), Chosen(request, rows))
 <2>1. DOMAIN page = Chosen(request, rows) /\ page = [m \in DOMAIN page |-> page[m]]
  BY DEF Restrict
 <2> HIDE DEF page
 <2>2. DOMAIN page \subseteq rows
  BY <1>0, <1>1, PageHolds DEF page
 <2>3. rows \in SUBSET Message
  BY <1>0
 <2>4. Cardinality(Chosen(request, rows)) <= PageSize
  BY <1>1, <2>3, PageIsSmall
 <2>5. Cardinality(DOMAIN page) <= PageSize /\ DOMAIN page \subseteq Message
  BY <2>1, <2>2, <2>3, <2>4
 <2> QED BY <2>1, <2>5 DEF page
<1>2. ASSUME NEW rows, CachedHistoryArrives(p, rows) PROVE WithinBounds'
 <2>1. /\ rows \in SUBSET Alive(At(p)) /\ history.kind \in {"latest", "after"}
       /\ messages' = Restrict(At(p), Chosen(history, rows))
       /\ lastId' = lastId /\ forward' = forward
  BY <1>2 DEF CachedHistoryArrives, TranscriptShape, readsVars
 <2>2. Cardinality(DOMAIN messages') <= PageSize /\ DOMAIN messages' \subseteq Message
  BY <1>1, <2>1
 <2>3. Cardinality(DOMAIN messages') \in Nat
  BY <2>2, ShownIsFinite
 <2> QED BY <1>0, <2>1, <2>2, <2>3 DEF WithinBounds
<1>3. CASE HistoryPage(p)
 <2> DEFINE page == PageAt(history, p)
            last == IF page = NoMessages THEN 0 ELSE Max(DOMAIN page)
            isForward == paging \/ (entry # NoUnreadEntry /\ ~entry.confirmed)
            end == IF ~isForward THEN forward
                   ELSE IF last = 0 THEN 0 ELSE WindowEnd(page, last)
            live == {m \in Alive(changes) : end = 0 \/ m <= end}
            lifted == Overlaid(Restrict(page, DOMAIN page \ DOMAIN changes),
                               Restrict(changes, live))
            kept == Restrict(messages, {m \in DOMAIN messages :
                                         ~(m \in DOMAIN changes /\ changes[m] = Gone)})
            capped == IF paging THEN Overlaid(kept, lifted) ELSE lifted
 <2>1. forward' = end /\ messages' = Capped(capped) /\ lastId' = lastId /\ history # NoRequest
  BY <1>3 DEF HistoryPage
 <2>2. history.kind \in {"latest", "after"}
  BY <2>1 DEF TranscriptShape
 <2>3. DOMAIN page \subseteq Message /\ page = [m \in DOMAIN page |-> page[m]]
  <3>1. page = Restrict(At(p), Chosen(history, Alive(At(p))))
   BY DEF PageAt
  <3> HIDE DEF page
  <3> QED BY <1>1, <2>2, <3>1
 <2> HIDE DEF page
 <2>4. last \in 0 .. MaxPosts
  <3>1. DOMAIN page \subseteq 0 .. MaxPosts
   BY <1>0, <2>3 DEF Message
  <3>2. DOMAIN page # {} => Max(DOMAIN page) \in DOMAIN page
   BY <1>0, <3>1, GreatestFound
  <3>3. page # NoMessages => Max(DOMAIN page) \in 0 .. MaxPosts
   BY <2>3, <3>1, <3>2, EmptyIsNone
  <3> QED BY <1>0, <3>3
 <2> HIDE DEF last
 <2>5. end \in 0 .. MaxPosts
  BY <1>0, <2>4 DEF WindowEnd
 <2> HIDE DEF isForward, end
 <2>6. DOMAIN lifted \subseteq Message
  BY <1>0, <2>3 DEF Overlaid, Restrict, Alive
 <2>7. DOMAIN kept \subseteq Message
  BY <1>0 DEF Restrict
 <2> HIDE DEF live, lifted, kept
 <2>8. DOMAIN capped \subseteq Message
  BY <2>6, <2>7 DEF Overlaid
 <2> HIDE DEF capped
 <2>9. Cardinality(DOMAIN messages') <= Capacity
  BY <2>1, <2>8, CappedIsSmall
 <2> QED BY <1>0, <2>1, <2>5, <2>9 DEF WithinBounds
<1>4. CASE OlderPage(p)
 <2> DEFINE page == PageAt(older, p)
            here == {m \in DOMAIN page : ~(m \in DOMAIN changes /\ changes[m] = Gone)}
            lifted == Overlaid(Restrict(page, here),
                               Restrict(changes, here \cap DOMAIN changes))
            both == Overlaid(messages, lifted)
            combined == Restrict(both, {m \in DOMAIN both :
                             Cardinality({k \in DOMAIN both : k < m}) < Capacity})
 <2>1. /\ lastId' = lastId /\ older # NoRequest
       /\ IF here = {}
          THEN UNCHANGED <<messages, forward>>
          ELSE /\ messages' = combined
               /\ forward' = IF entry # NoUnreadEntry \/ forward # 0 THEN Max(DOMAIN combined)
                             ELSE forward
  BY <1>4 DEF OlderPage
 <2>2. older.kind = "older"
  BY <2>1 DEF TranscriptShape
 <2>3. DOMAIN page \subseteq Message
  <3>1. page = Restrict(At(p), Chosen(older, Alive(At(p))))
   BY DEF PageAt
  <3> HIDE DEF page
  <3> QED BY <1>1, <2>2, <3>1
 <2> HIDE DEF page
 <2>4. DOMAIN lifted = here /\ here \subseteq Message
  BY <2>3 DEF Overlaid, Restrict
 <2> HIDE DEF here, lifted
 <2>5. DOMAIN both = DOMAIN messages \cup here
  BY <2>4 DEF Overlaid
 <2> HIDE DEF both
 <2>6. DOMAIN combined = LowerPart(DOMAIN both, Capacity)
  BY DEF Restrict, LowerPart
 <2> HIDE DEF combined
 <2>7. DOMAIN both \in SUBSET (0 .. MaxPosts)
  BY <1>0, <2>4, <2>5 DEF Message
 <2>8. Cardinality(DOMAIN combined) <= Capacity
  BY <1>0, <2>6, <2>7, LowerIsSmall
 <2>9. here # {} => Max(DOMAIN combined) \in 0 .. MaxPosts
  <3> SUFFICES ASSUME here # {} PROVE Max(DOMAIN combined) \in 0 .. MaxPosts
   OBVIOUS
  <3>1. DOMAIN both # {}
   BY <2>5
  <3>2. DOMAIN combined # {}
   BY <1>0, <2>6, <2>7, <3>1, LowerNotEmpty
  <3>3. DOMAIN combined \in SUBSET (0 .. MaxPosts)
   BY <2>6, <2>7 DEF LowerPart
  <3>4. Max(DOMAIN combined) \in DOMAIN combined
   BY <1>0, <3>2, <3>3, GreatestFound
  <3> QED BY <3>3, <3>4
 <2> QED BY <1>0, <2>1, <2>8, <2>9 DEF WithinBounds
<1> QED BY <1>2, <1>3, <1>4

LEMMA BoundsStep ==
  ASSUME TranscriptShape, WithinBounds, [TranscriptNext]_transcriptVars
  PROVE  WithinBounds'
<1>1. CASE UNCHANGED <<messages, lastId, forward>>
 BY <1>1 DEF WithinBounds
<1>2. CASE UNCHANGED transcriptVars
 BY <1>1, <1>2 DEF transcriptVars, readsVars
<1>3. MaxPosts \in Nat /\ Capacity \in Nat
 BY TranscriptAssumption
<1>4. CASE GapClears
 <2>1. DOMAIN messages' = {} /\ lastId' = lastId /\ forward' = forward
  BY <1>4 DEF GapClears, NoMessages, readsVars
 <2>2. Cardinality(DOMAIN messages') = 0
  BY <2>1, FS_EmptySet
 <2> QED BY <1>3, <2>1, <2>2 DEF WithinBounds
<1>5. CASE OpenChat \/ OpenAnother \/ FirstUnread
 <2>1. messages' = messages /\ lastId' = lastId /\ forward' = 0
  BY <1>5 DEF OpenChat, OpenAnother, FirstUnread
 <2> QED BY <1>3, <2>1 DEF WithinBounds
<1>6. CASE \/ Posts \/ NextUnreadPage \/ MoveAbove \/ KeyCancelsOlder \/ HistoryFailed \/ OlderFailed
           \/ \E m \in Message, version \in {2, Gone} : ChatChanges(m, version)
 BY <1>1, <1>6 DEF Posts, NextUnreadPage, MoveAbove, KeyCancelsOlder, HistoryFailed, OlderFailed,
                   ChatChanges, readsVars
<1> QED BY <1>2, <1>4, <1>5, <1>6, BoundsTells, BoundsPages DEF TranscriptNext

TranscriptFullInv == TranscriptInv /\ WithinBounds

LEMMA TranscriptFullBegins == TranscriptInit => TranscriptFullInv
<1> SUFFICES ASSUME TranscriptInit PROVE WithinBounds
 BY TranscriptStarts DEF TranscriptFullInv
<1>1. PICK k \in 0 .. MaxPosts : log = [i \in 1 .. k |-> <<i, 1>>]
 BY DEF TranscriptInit
<1>2. Len(log) = k /\ MaxPosts \in Nat /\ Capacity \in Nat
 BY <1>1, TranscriptAssumption
<1>3. DOMAIN messages = {} /\ lastId = Len(log) /\ forward = 0
 BY DEF TranscriptInit, NoMessages
<1>4. Cardinality(DOMAIN messages) = 0
 BY <1>3, FS_EmptySet
<1> QED BY <1>2, <1>3, <1>4 DEF WithinBounds

LEMMA TranscriptFullKept ==
  TranscriptFullInv /\ [TranscriptNext]_transcriptVars => TranscriptFullInv'
BY TranscriptIsKept, BoundsStep DEF TranscriptFullInv, TranscriptInv

LEMMA TranscriptTypeFollows == TranscriptFullInv => TranscriptType
BY DEF TranscriptFullInv, TranscriptInv, TranscriptShape, WithinBounds, TranscriptType

(* The transcript of a chat never holds more than its capacity, whatever pages and updates
   are put together (sort_and_cap_messages, finish_older), and the window ends at one of
   its messages. *)
THEOREM TranscriptTypeCorrect == TranscriptSpec => []TranscriptType
BY TranscriptFullBegins, TranscriptFullKept, TranscriptTypeFollows, PTL DEF TranscriptSpec

-------------------------------------------------------------------------------
(* The chat list: positions. *)

Ahead(pin, at, c, d) ==
    \/ pin[c] < pin[d]
    \/ pin[c] = pin[d] /\ (at[c] > at[d] \/ (at[c] = at[d] /\ c < d))

Place(pin, at, S, c) == Cardinality({d \in S : Ahead(pin, at, d, c)})

LEMMA DialogFacts ==
  /\ \A S \in SUBSET Dialog : IsFiniteSet(S) /\ Cardinality(S) \in Nat
  /\ NoDialog \notin Dialog /\ Dialog \subseteq Nat /\ Dialogs \in Nat
<1>1. Dialogs \in Nat
 BY NavigationAssumption
<1>2. IsFiniteSet(Dialog)
 BY <1>1, FS_Interval DEF Dialog
<1>3. \A S \in SUBSET Dialog : IsFiniteSet(S)
 BY <1>2, FS_Subset
<1> QED BY <1>1, <1>3, FS_CardinalityType DEF NoDialog, Dialog

\* Who is ahead has the lower place.
LEMMA AheadIsLower ==
  ASSUME NEW pin \in [Dialog -> Nat], NEW at \in [Dialog -> Nat], NEW S \in SUBSET Dialog,
         NEW c \in S, NEW d \in S, Ahead(pin, at, c, d)
  PROVE  Place(pin, at, S, c) < Place(pin, at, S, d)
<1> DEFINE below(x) == {e \in S : Ahead(pin, at, e, x)}
<1>1. \A e \in S : pin[e] \in Nat /\ at[e] \in Nat /\ e \in Nat
 BY DialogFacts
<1>2. \A e \in S : Ahead(pin, at, e, c) => Ahead(pin, at, e, d)
 BY <1>1 DEF Ahead
<1>3. ~Ahead(pin, at, c, c)
 BY <1>1 DEF Ahead
<1>4. below(c) \cup {c} \subseteq below(d) /\ c \notin below(c)
 BY <1>2, <1>3
<1>5. below(c) \subseteq Dialog /\ below(d) \subseteq Dialog
 OBVIOUS
<1> HIDE DEF below
<1>6. IsFiniteSet(below(c)) /\ IsFiniteSet(below(d)) /\ Cardinality(below(c)) \in Nat
      /\ Cardinality(below(d)) \in Nat
 BY <1>5, DialogFacts
<1>7. Cardinality(below(c) \cup {c}) = Cardinality(below(c)) + 1
 BY <1>4, <1>6, FS_AddElement
<1>8. Cardinality(below(c) \cup {c}) <= Cardinality(below(d))
 BY <1>4, <1>6, FS_Subset
<1>9. Cardinality(below(c)) < Cardinality(below(d))
 BY <1>6, <1>7, <1>8
<1> QED BY <1>9 DEF below, Place

LEMMA PlacesDiffer ==
  ASSUME NEW pin \in [Dialog -> Nat], NEW at \in [Dialog -> Nat], NEW S \in SUBSET Dialog,
         NEW c \in S, NEW d \in S, Place(pin, at, S, c) = Place(pin, at, S, d)
  PROVE  c = d
<1>1. pin[c] \in Nat /\ at[c] \in Nat /\ c \in Nat /\ pin[d] \in Nat /\ at[d] \in Nat /\ d \in Nat
 BY DialogFacts
<1>2. c = d \/ Ahead(pin, at, c, d) \/ Ahead(pin, at, d, c)
 BY <1>1 DEF Ahead
<1>3. Place(pin, at, S, c) \in Nat
 BY DialogFacts DEF Place
<1> QED BY <1>2, <1>3, AheadIsLower

LEMMA PinFacts == \A p \in [Folder -> Pinning], f \in Folder : p[f] \in [Dialog -> Nat]
<1>1. 0..Pinnable \subseteq Nat
 BY NavigationAssumption
<1> QED BY <1>1 DEF Pinning

ListTyped ==
    /\ pins \in [Folder -> Pinning] /\ folder \in Folder /\ activity \in [Dialog -> Nat]
    /\ chats \subseteq Dialog

\* The cursor is on one chat of the list or on none.
CursorIsOn ==
    /\ Shown \subseteq chats /\ Entry \in Shown \cup {NoDialog}
    /\ \A c \in Shown : Position(c) \in Nat /\ (selected = Position(c) => Entry = c)

LEMMA EntryFacts == ListTyped => CursorIsOn
<1> SUFFICES ASSUME ListTyped PROVE CursorIsOn
 OBVIOUS
<1>1. Shown \subseteq chats
 BY DEF Shown
<1>2. pins[folder] \in [Dialog -> Nat] /\ Shown \in SUBSET Dialog
 BY <1>1, PinFacts DEF ListTyped
<1>3. \A c \in Shown : Position(c) = Place(pins[folder], activity, Shown, c)
 BY DEF Position, Place, Precedes, Ahead
<1>4. \A c \in Shown : Position(c) \in Nat
 BY <1>2, DialogFacts DEF Position
<1>5. \A c, d \in Shown : UnderCursor(c) /\ UnderCursor(d) => c = d
 BY <1>2, <1>3, PlacesDiffer DEF UnderCursor, ListTyped
<1>6. Entry \in Shown \cup {NoDialog}
 BY DEF Entry
<1>7. ASSUME NEW c \in Shown, selected = Position(c) PROVE Entry = c
 <2>1. UnderCursor(c)
  BY <1>7 DEF UnderCursor
 <2>2. Entry \in Shown /\ UnderCursor(Entry)
  BY <2>1 DEF Entry
 <2> QED BY <1>5, <2>1, <2>2
<1> QED BY <1>1, <1>4, <1>6, <1>7 DEF CursorIsOn

LEMMA EntryFactsNext == ListTyped' => CursorIsOn'
BY EntryFacts, PTL

LEMMA EntrySame ==
  ASSUME UNCHANGED <<chats, activity, archived, custom, pins, folders, folder, matched>>
  PROVE  /\ Shown' = Shown /\ \A c : Position(c)' = Position(c)
         /\ UNCHANGED selected => Entry' = Entry
<1>1. Shown' = Shown
 BY DEF Shown, FolderHas
<1>2. \A c : Position(c)' = Position(c)
 BY <1>1 DEF Position, Precedes
<1>3. UNCHANGED selected => \A c : UnderCursor(c)' = UnderCursor(c)
 BY <1>1, <1>2 DEF UnderCursor
<1>4. UNCHANGED selected => Entry' = Entry
 BY <1>1, <1>3 DEF Entry
<1> QED BY <1>1, <1>2, <1>4

-------------------------------------------------------------------------------
(* The panes. *)

Focus == {"chats", "conversation"}
Leading == Mode \ {"command"}
AnyDialog == Dialog \cup {NoDialog}

ListShape ==
    /\ chats \subseteq Dialog /\ archived \subseteq chats /\ linked \subseteq chats
    /\ custom \subseteq Dialog /\ folders \subseteq Folder
    /\ activity \in [Dialog -> Nat] /\ pins \in [Folder -> Pinning]

ViewShape ==
    /\ folder \in Folder /\ matched \subseteq Dialog /\ selected \in Nat
    /\ resolves \subseteq Dialog /\ {active, remembered, link} \subseteq AnyDialog
    /\ focus \in Focus /\ mode \in Mode /\ before \in [Overlay -> Leading]
    /\ origin.focus \in Focus

HeldShape ==
    /\ held \subseteq Dialog /\ posted \in [Dialog -> Nat] /\ changed \subseteq Dialog
    /\ load \in [at : {"start", "idle", "loading", "read"}, chats : SUBSET Dialog,
                 activity : [Dialog -> Nat], archived : SUBSET Dialog]
    /\ inArchive \subseteq Dialog /\ happened \in Nat

\* Nothing in the list is newer than what was posted; and a refresh that has read the
\* dialogs knows the newest message of every chat, but of those that had one since.
KnownInTime ==
    /\ \A c \in Dialog : activity[c] <= posted[c] /\ posted[c] <= Dialogs + happened
    /\ load.at \in {"loading", "read"} => refreshing
    /\ load.at = "read" =>
        \A c \in Dialog : load.activity[c] <= posted[c]
                         /\ (c \notin changed => activity[c] <= load.activity[c])
    /\ load.at = "start" => chats = {}

NavInv == ListShape /\ ViewShape /\ HeldShape /\ KnownInTime /\ StaysInItsChat

\* With three overlays, Escape comes back to where it was after at most three.
LEMMA BeneathClosed ==
  ASSUME before \in [Overlay -> Leading], NEW m \in Mode
  PROVE  Beneath(EscapesTo(m)) \subseteq Beneath(m)
<1>1. Overlay \subseteq {"help", "settings", "accounts"}
 BY NavigationAssumption
<1> DEFINE e1 == EscapesTo(m)
           e2 == EscapesTo(e1)
           e3 == EscapesTo(e2)
           e4 == EscapesTo(e3)
<1>2. e4 \in {m, e1, e2, e3}
 <2>1. \A x : x \notin Overlay => EscapesTo(x) = x
  BY DEF EscapesTo
 <2>2. \A x, y : x = y => EscapesTo(x) = EscapesTo(y)
  OBVIOUS
 <2>3. CASE m \in Overlay /\ e1 \in Overlay /\ e2 \in Overlay /\ e3 \in Overlay
  <3>1. m = e1 \/ m = e2 \/ m = e3 \/ e1 = e2 \/ e1 = e3 \/ e2 = e3
   <4> HIDE DEF e1, e2, e3
   <4> QED BY <1>1, <2>3
  <3> QED BY <2>2, <3>1
 <2> QED BY <2>1, <2>3
<1> QED BY <1>2 DEF Beneath

\* What a key, a command or a click leaves behind.
LeavesWell ==
    /\ folders' \subseteq Folder /\ folder' \in Folder /\ matched' \subseteq Dialog /\ selected' \in Nat
    /\ resolves' \subseteq Dialog /\ {active', remembered', link'} \subseteq AnyDialog
    /\ focus' \in Focus /\ mode' \in Leading /\ before' \in [Overlay -> Leading]
    /\ active' # NoDialog => active' \in chats'
    /\ "compose" \in Beneath(mode)' => active' # NoDialog

\* What is opened is under the cursor.
OpensEntry == active' \notin {active, NoDialog} => Entry' = active'

LEMMA ModeFacts ==
  /\ {"navigate", "compose", "filter", "status"} \cup Overlay \subseteq Leading
  /\ Leading \subseteq Mode /\ "compose" \notin Overlay /\ "navigate" \notin Overlay
  /\ "filter" \notin Overlay /\ "status" \notin Overlay /\ "command" \notin Overlay
BY NavigationAssumption DEF Mode, Leading

LEMMA BeneathPlain ==
  \A m : m \notin Overlay => Beneath(m) = {m} /\ Beneath(m)' = {m}
BY DEF Beneath, EscapesTo

SameList == UNCHANGED <<chats, activity, archived, custom, pins>>

LEMMA OverlayKeeps ==
  ASSUME before \in [Overlay -> Leading], NEW m \in Leading, NEW o \in Overlay, NEW f,
         ShowOverlay(o, m, f)
  PROVE  /\ mode' \in Leading /\ before' \in [Overlay -> Leading]
         /\ "compose" \in Beneath(mode)' => "compose" \in Beneath(m)
<1>0. m \in Mode /\ o \in Leading /\ "compose" # o
 BY ModeFacts
<1>1. CASE o = m
 <2>1. mode' = EscapesTo(m) /\ UNCHANGED before
  BY <1>1 DEF ShowOverlay, EscapesTo
 <2>2. Beneath(mode)' = Beneath(EscapesTo(m))
  BY <2>1 DEF Beneath, EscapesTo
 <2>3. EscapesTo(m) \in Leading
  BY DEF EscapesTo
 <2> QED BY <1>0, <2>1, <2>2, <2>3, BeneathClosed
<1>2. CASE o # m
 <2>1. mode' = o /\ before' = [before EXCEPT ![o] = m]
  BY <1>2 DEF ShowOverlay
 <2>2. \A x : EscapesTo(x)' = IF x = o THEN m ELSE EscapesTo(x)
  BY <2>1 DEF EscapesTo
 <2> DEFINE e1 == EscapesTo(m)
            e2 == EscapesTo(e1)
 <2>3. Beneath(mode)' = {o, EscapesTo(o)', EscapesTo(EscapesTo(o))', EscapesTo(EscapesTo(EscapesTo(o)))'}
  BY <2>1 DEF Beneath, EscapesTo
 <2>4. EscapesTo(o)' = m
  BY <2>2
 <2>5. EscapesTo(EscapesTo(o))' = e1
  BY <1>2, <2>1, <2>4 DEF EscapesTo
 <2>6. EscapesTo(EscapesTo(EscapesTo(o)))' \in {m, e2}
  BY <1>2, <2>1, <2>4, <2>5 DEF EscapesTo
 <2>7. {m, e1, e2} \subseteq Beneath(m)
  BY DEF Beneath
 <2>8. Beneath(mode)' \subseteq {o} \cup Beneath(m)
  <3> HIDE DEF e1, e2
  <3> QED BY <2>3, <2>4, <2>5, <2>6, <2>7
 <2> QED BY <1>0, <2>1, <2>8
<1> QED BY <1>1, <1>2

LEMMA NowFacts ==
  ASSUME NavInv
  PROVE  /\ Shown \subseteq chats /\ Shown \subseteq Dialog /\ Entry \in Shown \cup {NoDialog}
         /\ \A c \in Shown : Position(c) \in Nat /\ (selected = Position(c) => Entry = c)
         /\ LastPosition \in Nat
<1>1. /\ Shown \subseteq chats /\ Entry \in Shown \cup {NoDialog}
      /\ \A c \in Shown : Position(c) \in Nat /\ (selected = Position(c) => Entry = c)
 BY EntryFacts DEF ListTyped, CursorIsOn, NavInv, ListShape, ViewShape
<1>2. Shown \subseteq Dialog
 BY <1>1 DEF NavInv, ListShape
<1>3. IsFiniteSet(Shown) /\ Cardinality(Shown) \in Nat
 BY <1>2, DialogFacts
<1>4. Shown # {} => Cardinality(Shown) # 0
 BY <1>3, FS_EmptySet
<1> QED BY <1>1, <1>2, <1>3, <1>4 DEF LastPosition

\* In its folder, and unfiltered, a chat of the list is shown, and found by the cursor.
LEMMA RevealKeeps ==
  ASSUME NavInv, NEW c \in chats, SameList, Reveal(c)
  PROVE  /\ folders' \subseteq Folder /\ folder' \in Folder /\ matched' \subseteq Dialog
         /\ selected' \in Nat /\ Entry' = c
<1>1. folder' \in Folder /\ folders' \subseteq Folder /\ matched' = Dialog
 BY DEF Reveal, NavInv, ListShape, Folder
<1>2. c \in Shown'
 BY DEF Reveal, NavInv, ListShape, SameList, Shown, FolderHas
<1>3. selected' = Position(c)'
 BY <1>2 DEF Reveal, Follows
<1>4. pins' \in [Folder -> Pinning] /\ activity' \in [Dialog -> Nat] /\ chats' \subseteq Dialog
 BY DEF SameList, NavInv, ListShape
<1> QED BY <1>1, <1>2, <1>3, <1>4, EntryFactsNext DEF ListTyped, CursorIsOn

LEMMA OpensKeeps ==
  ASSUME NavInv, SameList, NEW c \in chats, Opens(c)
  PROVE  /\ {active', remembered', link'} \subseteq AnyDialog /\ focus' \in Focus
         /\ active' \in chats' /\ active' # NoDialog
BY DialogFacts DEF Opens, NavInv, ListShape, SameList, AnyDialog, Focus

LEMMA RestKeeps ==
  ASSUME NavInv, SameList, UNCHANGED restVars
  PROVE  /\ folders' \subseteq Folder /\ folder' \in Folder /\ matched' \subseteq Dialog
         /\ selected' \in Nat /\ resolves' \subseteq Dialog /\ before' \in [Overlay -> Leading]
         /\ Entry' = Entry /\ \A m : Beneath(m)' = Beneath(m)
<1>1. /\ UNCHANGED <<folders, folder, matched, selected, before, resolves>>
      /\ UNCHANGED <<chats, activity, archived, custom, pins>>
 BY DEF restVars, viewVars, SameList
<1>2. \A m : Beneath(m)' = Beneath(m)
 BY <1>1 DEF Beneath, EscapesTo
<1>3. Entry' = Entry
 BY <1>1, EntrySame
<1> QED BY <1>1, <1>2, <1>3 DEF NavInv, ListShape, ViewShape

\* The pane stays on its chat.
LEMMA PaneKeeps ==
  ASSUME NavInv, SameList, UNCHANGED <<active, remembered>>
  PROVE  /\ {active', remembered'} \subseteq AnyDialog
         /\ active' # NoDialog => active' \in chats'
         /\ OpensEntry
BY DEF NavInv, ViewShape, StaysInItsChat, ComposesInAChat, SameList, OpensEntry

LEMMA OpenSelectedKeeps ==
  ASSUME NavInv, SameList, NEW m \in Leading, NEW f \in Focus, OpenSelected(m, f),
         "compose" \in Beneath(m) => active # NoDialog
  PROVE  LeavesWell /\ OpensEntry
<1>1. UNCHANGED restVars /\ mode' = m
 BY DEF OpenSelected
<1>2. CASE Entry = NoDialog
 <2>1. UNCHANGED <<active, remembered, link>> /\ focus' = f
  BY <1>2 DEF OpenSelected
 <2>2. link' \in AnyDialog
  BY <2>1 DEF NavInv, ViewShape
 <2>3. Beneath(mode)' = Beneath(m)
  BY <1>1, RestKeeps
 <2> QED BY <1>1, <2>1, <2>2, <2>3, RestKeeps, PaneKeeps DEF LeavesWell
<1>3. CASE Entry # NoDialog
 <2>1. Opens(Entry) /\ Entry \in chats
  BY <1>3, NowFacts DEF OpenSelected
 <2>2. active' = Entry
  BY <2>1 DEF Opens
 <2> QED BY <1>1, <2>1, <2>2, RestKeeps, OpensKeeps DEF LeavesWell, OpensEntry
<1> QED BY <1>2, <1>3

LEMMA JumpKeeps ==
  ASSUME NavInv, SameList, NEW c \in Dialog, JumpTo(c)
  PROVE  LeavesWell /\ OpensEntry
<1>1. c \in chats /\ Reveal(c) /\ Opens(Entry') /\ mode' = "navigate"
      /\ UNCHANGED <<before, resolves, changing>>
 BY DEF JumpTo
<1>2. Entry' = c
 BY <1>1, RevealKeeps
<1>3. Opens(c) /\ active' = c
 BY <1>1, <1>2 DEF Opens
<1>4. Beneath(mode)' = {"navigate"}
 BY <1>1, BeneathPlain, ModeFacts DEF Beneath, EscapesTo
<1>5. before' \in [Overlay -> Leading] /\ resolves' \subseteq Dialog
 BY <1>1 DEF NavInv, ViewShape
<1> QED BY <1>1, <1>2, <1>3, <1>4, <1>5, RevealKeeps, OpensKeeps, ModeFacts DEF LeavesWell, OpensEntry

LEMMA StartComposingKeeps ==
  ASSUME NavInv, SameList, NEW m \in Leading, NEW f \in Focus, StartComposing(m, f),
         "compose" \in Beneath(m) => active # NoDialog
  PROVE  LeavesWell /\ OpensEntry
<1>1. link' = NoDialog /\ UNCHANGED <<before, resolves, changing>>
 BY DEF StartComposing
<1>2. before' \in [Overlay -> Leading] /\ resolves' \subseteq Dialog /\ link' \in AnyDialog
 BY <1>1 DEF NavInv, ViewShape, AnyDialog
<1>3. \A x : Beneath(x)' = Beneath(x)
 BY <1>1 DEF Beneath, EscapesTo
<1>4. Composes => mode' \in Leading /\ focus' \in Focus
 BY ModeFacts DEF Composes, Focus
<1>5. CASE active # NoDialog /\ Composes /\ UNCHANGED <<folders, viewVars, active, remembered>>
 <2>1. UNCHANGED restVars
  BY <1>1, <1>5 DEF restVars
 <2> QED BY <1>2, <1>4, <1>5, <2>1, RestKeeps, PaneKeeps DEF LeavesWell
<1>6. CASE /\ active = NoDialog
           /\ \E c \in chats \cap {remembered} : Reveal(c)
           /\ Opens(Entry') /\ Composes
 <2>1. PICK c \in chats : Reveal(c)
  BY <1>6
 <2>2. Entry' = c
  BY <2>1, RevealKeeps
 <2>3. Opens(c) /\ active' = c
  BY <1>6, <2>2 DEF Opens
 <2> QED BY <1>2, <1>4, <1>6, <2>1, <2>2, <2>3, RevealKeeps, OpensKeeps DEF LeavesWell, OpensEntry
<1>7. CASE /\ Entry # NoDialog
           /\ Opens(Entry) /\ Composes /\ UNCHANGED <<folders, viewVars>>
 <2>1. UNCHANGED restVars
  BY <1>1, <1>7 DEF restVars
 <2>2. Entry \in chats
  BY <1>7, NowFacts
 <2>3. active' = Entry
  BY <1>7 DEF Opens
 <2> QED BY <1>2, <1>4, <1>7, <2>1, <2>2, <2>3, RestKeeps, OpensKeeps DEF LeavesWell, OpensEntry
<1>8. CASE mode' = m /\ focus' = f /\ UNCHANGED <<folders, viewVars, active, remembered>>
 <2>1. UNCHANGED restVars
  BY <1>1, <1>8 DEF restVars
 <2>2. Beneath(mode)' = Beneath(m)
  BY <1>3, <1>8 DEF Beneath, EscapesTo
 <2> QED BY <1>2, <1>8, <2>1, <2>2, RestKeeps, PaneKeeps DEF LeavesWell
<1> QED BY <1>5, <1>6, <1>7, <1>8 DEF StartComposing

LEMMA MovesCursorKeeps ==
  ASSUME NavInv, MovesCursor
  PROVE  selected' \in Nat
<1>1. selected \in Nat /\ LastPosition \in Nat
 BY NowFacts DEF NavInv, ViewShape
<1>2. PICK n \in 1..Dialogs : \/ selected' = IF selected > n THEN selected - n ELSE 0
                             \/ selected' = Lower(selected + n, LastPosition)
 BY DEF MovesCursor
<1>3. n \in Nat
 BY DialogFacts
<1> QED BY <1>1, <1>2, <1>3 DEF Lower

LEMMA FollowKeeps ==
  ASSUME NavInv, SameList, NEW m \in Leading, NEW f \in Focus, NEW c \in Dialog, FollowLink(c, m, f),
         "compose" \in Beneath(m) => active # NoDialog
  PROVE  LeavesWell /\ OpensEntry
<1>1. /\ link' = c /\ resolves' = resolves \cup {c} /\ mode' = m /\ focus' = f
      /\ UNCHANGED <<folders, viewVars, before, active, remembered>>
 BY DEF FollowLink
<1>2. Beneath(mode)' = Beneath(m)
 BY <1>1 DEF Beneath, EscapesTo
<1>3. resolves' \subseteq Dialog /\ link' \in AnyDialog
 BY <1>1 DEF NavInv, ViewShape, AnyDialog
<1> QED BY <1>1, <1>2, <1>3, PaneKeeps DEF LeavesWell, NavInv, ListShape, ViewShape, viewVars

LEMMA AskChangeKeeps ==
  ASSUME NavInv, SameList, NEW m \in Leading, NEW f \in Focus, NEW c, AskChange(c, m, f),
         "compose" \in Beneath(m) => active # NoDialog
  PROVE  LeavesWell /\ OpensEntry
<1>1. /\ mode' = m /\ focus' = f
      /\ UNCHANGED <<folders, viewVars, before, resolves, active, remembered, link>>
 BY DEF AskChange
<1>2. Beneath(mode)' = Beneath(m)
 BY <1>1 DEF Beneath, EscapesTo
<1> QED BY <1>1, <1>2, PaneKeeps DEF LeavesWell, NavInv, ListShape, ViewShape, viewVars

LEMMA ActionKeeps ==
  ASSUME NavInv, SameList, NEW m \in Leading, NEW f \in Focus, Runs(m, f),
         "compose" \in Beneath(m) => active # NoDialog
  PROVE  LeavesWell /\ OpensEntry
<1>0. /\ folders \subseteq Folder /\ folder \in Folder /\ matched \subseteq Dialog /\ selected \in Nat
      /\ resolves \subseteq Dialog /\ link \in AnyDialog /\ before \in [Overlay -> Leading]
 BY DEF NavInv, ListShape, ViewShape
<1>a. UNCHANGED before => \A x : Beneath(x)' = Beneath(x)
 BY DEF Beneath, EscapesTo
<1>b. mode' = "navigate" => mode' \in Leading /\ "compose" \notin Beneath(mode)'
 BY BeneathPlain, ModeFacts DEF Beneath, EscapesTo
<1>1. CASE \E c \in Dialog : JumpTo(c)
 BY <1>1, JumpKeeps
<1>2. CASE StartComposing(m, f)
 BY <1>2, StartComposingKeeps
<1>3. CASE StartReplying
 <2>1. active # NoDialog /\ UNCHANGED <<restVars, active, remembered, link>>
       /\ mode' \in Leading /\ focus' \in Focus
  BY <1>3, ModeFacts DEF StartReplying, Composes, Focus
 <2> QED BY <1>0, <2>1, RestKeeps, PaneKeeps DEF LeavesWell
<1>4. CASE NextFolder
 <2>1. folder' \in folders /\ selected' = 0 /\ focus' = "chats" /\ mode' = "navigate"
       /\ UNCHANGED <<folders, matched, before, resolves, active, remembered, link>>
  BY <1>4 DEF NextFolder
 <2>2. focus' \in Focus /\ selected' \in Nat
  BY <2>1 DEF Focus
 <2> QED BY <1>0, <1>b, <2>1, <2>2, PaneKeeps DEF LeavesWell
<1>5. ASSUME NEW o \in Overlay, ShowOverlay(o, m, f) PROVE LeavesWell /\ OpensEntry
 <2>1. focus' = f /\ UNCHANGED <<folders, viewVars, resolves, active, remembered, link>>
  BY <1>5 DEF ShowOverlay
 <2>2. mode' \in Leading /\ before' \in [Overlay -> Leading]
       /\ ("compose" \in Beneath(mode)' => "compose" \in Beneath(m))
  BY <1>0, <1>5, OverlayKeeps
 <2> QED BY <1>0, <2>1, <2>2, PaneKeeps DEF LeavesWell, viewVars
<1>6. CASE ToggleSidebar(m, f)
 <2>1. active # NoDialog /\ UNCHANGED <<restVars, active, remembered, link>>
       /\ mode' \in {m, "navigate"}
  BY <1>6 DEF ToggleSidebar
 <2>2. mode' \in Leading
  BY <2>1, ModeFacts
 <2>3. focus' \in Focus
  BY <1>6 DEF ToggleSidebar, Focus
 <2> QED BY <1>0, <2>1, <2>2, <2>3, RestKeeps, PaneKeeps DEF LeavesWell
<1>7. CASE MoveCursor(m, f)
 <2>1. MovesCursor /\ mode' = m /\ focus' = f
       /\ UNCHANGED <<folder, matched, folders, before, resolves, active, remembered, link>>
  BY <1>7 DEF MoveCursor
 <2>2. Beneath(mode)' = Beneath(m)
  BY <1>a, <2>1 DEF Beneath, EscapesTo
 <2> QED BY <1>0, <2>1, <2>2, MovesCursorKeeps, PaneKeeps DEF LeavesWell
<1>8. ASSUME NEW c \in Dialog, FollowLink(c, m, f) PROVE LeavesWell /\ OpensEntry
 BY <1>8, FollowKeeps
<1>9. CASE m = "navigate" /\ f = "chats" /\ AskChange(Entry, m, f)
 BY <1>9, AskChangeKeeps
<1>10. CASE ShowFilter
 <2>1. focus' = "chats" /\ mode' = "filter" /\ UNCHANGED <<restVars, active, remembered, link>>
  BY <1>10 DEF ShowFilter
 <2>2. focus' \in Focus /\ mode' \in Leading /\ "compose" \notin Beneath(mode)'
  BY <2>1, BeneathPlain, ModeFacts DEF Focus, Beneath, EscapesTo
 <2> QED BY <1>0, <2>1, <2>2, RestKeeps, PaneKeeps DEF LeavesWell
<1> QED BY <1>1, <1>2, <1>3, <1>4, <1>5, <1>6, <1>7, <1>8, <1>9, <1>10 DEF Runs

SteersWell ==
    /\ ViewShape' /\ folders' \subseteq Folder /\ StaysInItsChat'
    /\ OpensEntry \/ FilterEnter

LEMMA LeavesWellSteers ==
  ASSUME LeavesWell, origin'.focus \in Focus, OpensEntry \/ FilterEnter
  PROVE  SteersWell
<1>1. mode' # "command"
 BY DEF LeavesWell, Leading
<1>2. StaysInItsChat'
 BY <1>1 DEF LeavesWell, StaysInItsChat, ComposesInAChat, CommandStaysOnItsChat
<1> QED BY <1>2, ModeFacts DEF LeavesWell, SteersWell, ViewShape

LEMMA KeyKeeps ==
  ASSUME NavInv, SameList, KeyActs
  PROVE  SteersWell
<1>0. /\ mode \in Leading /\ focus \in Focus /\ origin' = origin /\ origin'.focus \in Focus
      /\ "compose" \in Beneath(mode) => active # NoDialog
 BY DEF KeyActs, NavInv, ViewShape, Leading, StaysInItsChat, ComposesInAChat
<1>1. CASE Runs(mode, focus)
 BY <1>0, <1>1, ActionKeeps, LeavesWellSteers
<1>2. CASE mode = "navigate" /\ Navigate(focus)
 <2>1. CASE OpenSelected("navigate", focus)
  BY <1>0, <1>2, <2>1, OpenSelectedKeeps, LeavesWellSteers
 <2>2. CASE StartComposing("navigate", focus)
  BY <1>0, <1>2, <2>2, StartComposingKeeps, LeavesWellSteers
 <2>3. CASE /\ focus' \in {"chats"} \cup (IF active # NoDialog THEN {"conversation"} ELSE {})
            /\ mode' = "navigate" /\ UNCHANGED <<restVars, active, remembered, link>>
  <3>1. focus' \in Focus /\ mode' \in Leading /\ "compose" \notin Beneath(mode)' /\ link' \in AnyDialog
   BY <2>3, BeneathPlain, ModeFacts DEF Focus, Beneath, EscapesTo, NavInv, ViewShape
  <3>2. LeavesWell /\ OpensEntry
   BY <2>3, <3>1, RestKeeps, PaneKeeps DEF LeavesWell
  <3> QED BY <1>0, <3>2, LeavesWellSteers
 <2> QED BY <1>2, <2>1, <2>2, <2>3 DEF Navigate
<1>3. CASE EscapeFrom(mode)
 <2>1. mode' = (IF mode \in Overlay THEN before[mode] ELSE "navigate")
       /\ UNCHANGED <<restVars, focus, active, remembered, link>>
  BY <1>3 DEF EscapeFrom
 <2>2. before \in [Overlay -> Leading]
  BY DEF NavInv, ViewShape
 <2>3. mode' \in Leading
  BY <2>1, <2>2, ModeFacts
 <2>4. "compose" \in Beneath(mode)' => active' # NoDialog
  <3>1. CASE mode \in Overlay
   <4>1. mode' = EscapesTo(mode) /\ UNCHANGED before /\ mode \in Mode
    BY <1>0, <2>1, <3>1, ModeFacts DEF EscapesTo, restVars
   <4>2. Beneath(mode)' = Beneath(EscapesTo(mode))
    BY <4>1 DEF Beneath, EscapesTo
   <4> QED BY <1>0, <2>1, <2>2, <4>1, <4>2, BeneathClosed
  <3>2. CASE mode \notin Overlay
   BY <2>1, <3>2, ModeFacts DEF Beneath, EscapesTo
  <3> QED BY <3>1, <3>2
 <2>5. focus' \in Focus /\ link' \in AnyDialog
  BY <2>1 DEF NavInv, ViewShape
 <2>6. LeavesWell /\ OpensEntry
  BY <2>1, <2>3, <2>4, <2>5, RestKeeps, PaneKeeps DEF LeavesWell
 <2> QED BY <1>0, <2>6, LeavesWellSteers
<1>4. CASE FilterEnter
 <2>1. Opens(Entry) /\ Entry \in chats /\ mode' = "navigate" /\ matched' = Dialog
       /\ UNCHANGED <<folder, folders, before, resolves, changing>>
  BY <1>4, NowFacts DEF FilterEnter
 <2>2. selected' \in Nat
  BY <1>4 DEF FilterEnter
 <2>3. mode' \in Leading /\ "compose" \notin Beneath(mode)'
  BY <2>1, BeneathPlain, ModeFacts DEF Beneath, EscapesTo
 <2>4. LeavesWell
  BY <2>1, <2>2, <2>3, OpensKeeps DEF LeavesWell, NavInv, ListShape, ViewShape
 <2> QED BY <1>0, <1>4, <2>4, LeavesWellSteers
<1>5. CASE FilterEdit
 <2>1. /\ UNCHANGED <<folder, folders, before, resolves, active, focus, remembered, link>>
       /\ matched' \in SUBSET Dialog /\ (selected' = 0 \/ Clamps) /\ mode' \in {"filter", "navigate"}
  BY <1>5 DEF FilterEdit
 <2>2. mode' \in Leading /\ "compose" \notin Beneath(mode)'
  BY <2>1, BeneathPlain, ModeFacts DEF Beneath, EscapesTo
 <2>3. LastPosition' \in Nat
  <3>1. Shown' \in SUBSET Dialog
   BY DEF Shown, SameList, NavInv, ListShape
  <3>2. IsFiniteSet(Shown') /\ Cardinality(Shown') \in Nat
   BY <3>1, DialogFacts
  <3>3. Shown' # {} => Cardinality(Shown') # 0
   BY <3>2, FS_EmptySet
  <3> QED BY <3>2, <3>3 DEF LastPosition
 <2>4. selected' \in Nat
  BY <2>1, <2>3 DEF Clamps, Lower, NavInv, ViewShape
 <2>5. LeavesWell /\ OpensEntry
  BY <2>1, <2>2, <2>4, PaneKeeps DEF LeavesWell, NavInv, ListShape, ViewShape
 <2> QED BY <1>0, <2>5, LeavesWellSteers
<1> QED BY <1>1, <1>2, <1>3, <1>4, <1>5 DEF KeyActs

LEMMA CommandsKeep ==
  ASSUME NavInv, SameList, Commands
  PROVE  SteersWell
<1>0. /\ origin.focus \in Focus /\ link \in AnyDialog /\ NoOrigin.focus \in Focus
      /\ "navigate" \in Leading /\ "status" \in Leading
      /\ Beneath("navigate") = {"navigate"}
 BY BeneathPlain, ModeFacts DEF NavInv, ViewShape, NoOrigin, Focus
<1>a. mode' \in {"navigate", "status"} => mode' \in Leading /\ "compose" \notin Beneath(mode)'
 BY BeneathPlain, ModeFacts DEF Beneath, EscapesTo
<1>1. CASE BeginCommand
 <2>1. /\ mode' = "command" /\ origin'.focus = focus /\ origin'.conversation = active
       /\ UNCHANGED <<restVars, focus, active, remembered, link>>
  BY <1>1 DEF BeginCommand
 <2>2. "compose" \notin Beneath(mode)' /\ mode' \in Mode
  BY <2>1, BeneathPlain, ModeFacts DEF Beneath, EscapesTo, Mode
 <2>3. StaysInItsChat'
  BY <2>1, <2>2, PaneKeeps DEF StaysInItsChat, ComposesInAChat, CommandStaysOnItsChat
 <2>4. ViewShape'
  BY <1>0, <2>1, <2>2, RestKeeps, PaneKeeps DEF ViewShape, NavInv
 <2> QED BY <2>1, <2>3, <2>4, RestKeeps, PaneKeeps DEF SteersWell
<1>2. ASSUME mode = "command", origin' = NoOrigin,
             \/ CancelCommand
             \/ SubmitFolder
             \/ SubmitChange
             \/ SubmitAction
             \/ SubmitStatus
             \/ \E c \in Dialog : FollowLink(c, "navigate", origin.focus)
      PROVE  LeavesWell /\ OpensEntry
 <2>1. CASE CancelCommand \/ SubmitStatus
  <3>1. mode' \in {"navigate", "status"} /\ focus' = origin.focus
        /\ UNCHANGED <<restVars, active, remembered, link>>
   BY <2>1 DEF CancelCommand, SubmitStatus
  <3> QED BY <1>0, <1>a, <3>1, RestKeeps, PaneKeeps DEF LeavesWell
 <2>2. CASE SubmitFolder
  <3>1. folder' \in folders /\ matched' = Dialog /\ selected' = 0 /\ focus' = "chats"
        /\ mode' = "navigate"
        /\ UNCHANGED <<folders, before, resolves, active, remembered, link>>
   BY <2>2 DEF SubmitFolder
  <3>2. focus' \in Focus /\ selected' \in Nat
   BY <3>1 DEF Focus
  <3> QED BY <1>0, <1>a, <3>1, <3>2, PaneKeeps DEF LeavesWell, NavInv, ListShape, ViewShape
 <2>3. CASE SubmitChange
  BY <1>0, <2>3, AskChangeKeeps DEF SubmitChange
 <2>4. CASE SubmitAction
  <3>1. "conversation" \in Focus
   BY DEF Focus
  <3> QED BY <1>0, <2>4, <3>1, ActionKeeps DEF SubmitAction
 <2>5. ASSUME NEW c \in Dialog, FollowLink(c, "navigate", origin.focus)
       PROVE  LeavesWell /\ OpensEntry
  BY <1>0, <2>5, FollowKeeps
 <2> QED BY <1>2, <2>1, <2>2, <2>3, <2>4, <2>5
<1> QED BY <1>0, <1>1, <1>2, LeavesWellSteers DEF Commands

LEMMA MouseKeeps ==
  ASSUME NavInv, SameList, Mouse
  PROVE  SteersWell
<1>0. /\ mode \in Leading /\ mode \notin Overlay /\ focus \in Focus /\ origin'.focus \in Focus
      /\ "compose" \in Beneath(mode) => active # NoDialog
      /\ link \in AnyDialog /\ before \in [Overlay -> Leading] /\ resolves \subseteq Dialog
 BY ModeFacts DEF Mouse, NavInv, ViewShape, StaysInItsChat, ComposesInAChat
<1>a. UNCHANGED before => Beneath(mode') = Beneath(mode)'
 BY DEF Beneath, EscapesTo
<1>b. Beneath(mode) = {mode} /\ Beneath("navigate") = {"navigate"} /\ "navigate" \in Leading
 BY <1>0, BeneathPlain, ModeFacts
<1>1. ASSUME NEW c \in Dialog, ClickChat(c) PROVE LeavesWell /\ OpensEntry
 <2>1. c \in Shown /\ c \in chats /\ selected' = Position(c) /\ Opens(c) /\ mode' = "navigate"
       /\ UNCHANGED <<folder, matched, folders, before, resolves, changing>>
  BY <1>1, NowFacts DEF ClickChat
 <2>2. Shown' = Shown /\ Position(c)' = Position(c)
  BY <2>1, EntrySame DEF SameList
 <2>3. Entry' = c
  <3>1. pins' \in [Folder -> Pinning] /\ activity' \in [Dialog -> Nat] /\ chats' \subseteq Dialog
        /\ folder' \in Folder
   BY <2>1 DEF SameList, NavInv, ListShape, ViewShape
  <3> QED BY <2>1, <2>2, <3>1, EntryFactsNext DEF ListTyped, CursorIsOn
 <2>4. active' = c
  BY <2>1 DEF Opens
 <2>5. selected' \in Nat
  BY <2>1, NowFacts
 <2>6. "compose" \notin Beneath(mode)'
  BY <1>a, <1>b, <2>1
 <2> QED BY <1>0, <1>b, <2>1, <2>3, <2>4, <2>5, <2>6, OpensKeeps
      DEF LeavesWell, OpensEntry, NavInv, ListShape, ViewShape
<1>2. CASE StartComposing(mode, focus)
 BY <1>0, <1>2, StartComposingKeeps, LeavesWellSteers
<1>3. CASE StartReplying
 <2>1. "conversation" \in Focus /\ Runs(mode, "conversation")
  BY <1>3 DEF Focus, Runs
 <2> QED BY <1>0, <2>1, ActionKeeps, LeavesWellSteers
<1>4. CASE /\ focus' = "conversation" /\ mode' \in {mode, "navigate"}
           /\ UNCHANGED <<restVars, active, remembered, link>>
 <2>1. focus' \in Focus /\ UNCHANGED before /\ mode' \in Leading
  BY <1>0, <1>4, ModeFacts DEF Focus, restVars
 <2>2. "compose" \in Beneath(mode)' => active' # NoDialog
  BY <1>0, <1>a, <1>b, <1>4, <2>1
 <2>3. LeavesWell /\ OpensEntry
  BY <1>0, <1>4, <2>1, <2>2, RestKeeps, PaneKeeps DEF LeavesWell
 <2> QED BY <1>0, <2>3, LeavesWellSteers
<1>5. CASE /\ focus' = (IF mode = "compose" THEN focus ELSE "chats") /\ MovesCursor
           /\ UNCHANGED <<folder, matched, folders, before, resolves, changing,
                          active, mode, remembered, link>>
 <2>1. focus' \in Focus /\ mode' = mode
  BY <1>0, <1>5 DEF Focus
 <2>2. "compose" \in Beneath(mode)' => active' # NoDialog
  BY <1>0, <1>a, <1>5
 <2>3. LeavesWell /\ OpensEntry
  BY <1>0, <1>5, <2>1, <2>2, MovesCursorKeeps, PaneKeeps
     DEF LeavesWell, NavInv, ListShape, ViewShape
 <2> QED BY <1>0, <2>3, LeavesWellSteers
<1> QED BY <1>0, <1>1, <1>2, <1>3, <1>4, <1>5, LeavesWellSteers DEF Mouse

-------------------------------------------------------------------------------
(* The steps. *)

LEMMA CursorIsSomewhere ==
  ASSUME ListTyped', selected \in Nat,
         CursorStays \/ StaysOrTop \/ Clamps \/ (\E c \in Dialog : Follows(c)) \/ UNCHANGED selected
  PROVE  selected' \in Nat
<1>1. \A c \in Shown' : Position(c)' \in Nat
 BY EntryFactsNext DEF CursorIsOn
<1>2. LastPosition' \in Nat
 <2>1. Shown' \in SUBSET Dialog
  BY DEF Shown, ListTyped
 <2>2. IsFiniteSet(Shown') /\ Cardinality(Shown') \in Nat
  BY <2>1, DialogFacts
 <2>3. Shown' # {} => Cardinality(Shown') # 0
  BY <2>2, FS_EmptySet
 <2> QED BY <2>2, <2>3 DEF LastPosition
<1>3. Clamps => selected' \in Nat
 BY <1>2 DEF Clamps, Lower
<1>4. \A c : Follows(c) => selected' \in Nat
 BY <1>1, <1>3 DEF Follows
<1>5. StaysOrTop => selected' \in Nat
 BY <1>1 DEF StaysOrTop
<1> QED BY <1>3, <1>4, <1>5 DEF CursorStays

\* The cursor goes on being on its chat, if that is shown.
LEMMA CursorStaysOn ==
  ASSUME NavInv, ListTyped', CursorStays \/ StaysOrTop
  PROVE  Entry' = Entry \/ Entry \notin Shown'
<1>1. \A c \in Shown' : selected' = Position(c)' => Entry' = c
 BY EntryFactsNext DEF CursorIsOn
<1> QED BY <1>1 DEF CursorStays, StaysOrTop, Follows

StepsWell == NavInv' /\ OpensEntry /\ ListNeverGoesBack

LEMMA StillPane ==
  ASSUME NavInv, UNCHANGED <<active, focus, mode, before, remembered, origin>>, chats \subseteq chats'
  PROVE  /\ StaysInItsChat' /\ OpensEntry
         /\ focus' \in Focus /\ mode' \in Mode /\ before' \in [Overlay -> Leading]
         /\ origin'.focus \in Focus /\ {active', remembered'} \subseteq AnyDialog
<1>1. Beneath(mode)' = Beneath(mode)
 BY DEF Beneath, EscapesTo
<1>2. StaysInItsChat'
 BY <1>1 DEF NavInv, StaysInItsChat, ComposesInAChat, CommandStaysOnItsChat
<1> QED BY <1>2 DEF NavInv, ViewShape, OpensEntry

LEMMA UserActsStep ==
  ASSUME NavInv, UserActs
  PROVE  NavInv' /\ (OpensEntry \/ FilterEnter) /\ ListNeverGoesBack
<1>1. SameList /\ UNCHANGED <<refreshing, changed, linked, due, load, held, posted, inArchive, happened>>
 BY DEF UserActs, SameList, refreshVars, heldVars
<1>2. SteersWell
 BY <1>1, KeyKeeps, CommandsKeep, MouseKeeps DEF UserActs
<1>3. ListShape' /\ HeldShape' /\ KnownInTime'
 BY <1>1, <1>2 DEF SteersWell, SameList, NavInv, ListShape, HeldShape, KnownInTime
<1>4. ListNeverGoesBack
 BY <1>1 DEF SameList, ListNeverGoesBack, NavInv, ListShape
<1> QED BY <1>2, <1>3, <1>4 DEF SteersWell, NavInv

LEMMA AskRefreshStep ==
  ASSUME NavInv, AskRefresh
  PROVE  StepsWell
<1>1. /\ UNCHANGED <<chats, activity, archived, custom, pins, folders, folder, matched, selected>>
      /\ UNCHANGED <<active, before, remembered, link, resolves, changed, linked, load,
                     held, posted, inArchive, happened>>
      /\ refreshing'
 BY DEF AskRefresh, listVars, viewVars, heldVars
<1>2. ListShape' /\ HeldShape' /\ KnownInTime' /\ ListNeverGoesBack /\ OpensEntry
 BY <1>1 DEF NavInv, ListShape, HeldShape, KnownInTime, ListNeverGoesBack, OpensEntry
<1>3. CASE mode # "command" /\ UNCHANGED <<focus, mode, origin>>
 BY <1>1, <1>2, <1>3, StillPane DEF StepsWell, NavInv, ViewShape
<1>4. CASE mode' = "navigate" /\ focus' = origin.focus /\ origin' = NoOrigin
 <2>1. Beneath(mode)' = {"navigate"} /\ mode' \in Mode /\ focus' \in Focus /\ origin'.focus \in Focus
  BY <1>4, ModeFacts DEF Beneath, EscapesTo, NoOrigin, NavInv, ViewShape, Focus
 <2>2. StaysInItsChat'
  BY <1>1, <1>4, <2>1 DEF NavInv, StaysInItsChat, ComposesInAChat, CommandStaysOnItsChat
 <2> QED BY <1>1, <1>2, <2>1, <2>2 DEF StepsWell, NavInv, ViewShape
<1> QED BY <1>3, <1>4 DEF AskRefresh

\* What an account begins with.
Fresh ==
    /\ chats = {} /\ archived = {} /\ custom = {}
    /\ activity = [c \in Dialog |-> 0]
    /\ pins = [f \in Folder |-> [c \in Dialog |-> Pinnable]]
    /\ folders = {"main"} /\ folder = "main" /\ matched = Dialog /\ selected = 0
    /\ active = NoDialog /\ focus = "chats" /\ mode = "navigate"
    /\ before = [o \in Overlay |-> "navigate"]
    /\ remembered = NoDialog /\ origin = NoOrigin
    /\ link = NoDialog /\ resolves = {} /\ changed = {} /\ linked = {}
    /\ load = [at |-> "start", chats |-> {}, activity |-> activity, archived |-> {}]

HeldTyped ==
    /\ held \subseteq Dialog /\ posted \in [Dialog -> Nat] /\ inArchive \subseteq Dialog
    /\ happened \in Nat /\ \A c \in Dialog : posted[c] <= Dialogs + happened

LEMMA FreshFacts == Fresh /\ HeldTyped => NavInv
<1> SUFFICES ASSUME Fresh, HeldTyped PROVE NavInv
 OBVIOUS
<1>1. [c \in Dialog |-> Pinnable] \in Pinning
 BY NavigationAssumption DEF Pinning
<1>2. ListShape
 BY <1>1 DEF Fresh, ListShape, Folder
<1>3. ViewShape
 BY ModeFacts DEF Fresh, ViewShape, Folder, AnyDialog, Focus, NoOrigin
<1>4. HeldShape
 BY DEF Fresh, HeldTyped, HeldShape
<1>5. KnownInTime
 BY DEF Fresh, HeldTyped, KnownInTime
<1>6. Beneath(mode) = {"navigate"}
 BY ModeFacts, BeneathPlain DEF Fresh
<1>7. StaysInItsChat
 BY <1>6 DEF Fresh, StaysInItsChat, ComposesInAChat, CommandStaysOnItsChat
<1> QED BY <1>2, <1>3, <1>4, <1>5, <1>7 DEF NavInv

LEMMA FreshFactsNext == Fresh' /\ HeldTyped' => NavInv'
BY FreshFacts, PTL

LEMMA NavigationBegins == NavigationInit => NavInv
<1> SUFFICES ASSUME NavigationInit PROVE NavInv
 OBVIOUS
<1>1. Fresh
 BY DEF NavigationInit, Fresh
<1>2. held \subseteq Dialog /\ posted = [c \in Dialog |-> IF c \in held THEN c ELSE 0]
      /\ inArchive = {} /\ happened = 0
 BY DEF NavigationInit
<1>3. posted \in [Dialog -> Nat] /\ \A c \in Dialog : posted[c] <= Dialogs + happened
 BY <1>2, DialogFacts DEF Dialog
<1> QED BY <1>1, <1>2, <1>3, FreshFacts DEF HeldTyped

LEMMA LeaveAccountStep ==
  ASSUME NavInv, LeaveAccount
  PROVE  StepsWell
<1>1. Fresh' /\ UNCHANGED <<held, posted, inArchive, happened>>
 BY DEF LeaveAccount, Fresh, heldVars
<1>2. NavInv'
 BY <1>1, FreshFactsNext DEF HeldTyped, NavInv, HeldShape, KnownInTime
<1>3. active' = NoDialog /\ chats' = {}
 BY <1>1 DEF Fresh
<1> QED BY <1>2, <1>3 DEF StepsWell, OpensEntry, ListNeverGoesBack

\* A step that leaves the pane alone, whatever it does to the list.
LEMMA PaneStaysWell ==
  ASSUME NavInv, UNCHANGED <<active, focus, mode, before, remembered, origin>>, chats \subseteq chats',
         ListShape', HeldShape', KnownInTime', folder' \in Folder, matched' \subseteq Dialog,
         selected' \in Nat, resolves' \subseteq Dialog, link' \in AnyDialog, ListNeverGoesBack
  PROVE  StepsWell
<1>1. ViewShape' /\ StaysInItsChat' /\ OpensEntry
 BY StillPane DEF ViewShape
<1> QED BY <1>1 DEF StepsWell, NavInv

LEMMA RulesKeep ==
  ASSUME custom \subseteq Dialog, NEW cs \in SUBSET Dialog, Rules(cs)
  PROVE  custom' \subseteq Dialog
BY DEF Rules

LEMMA StillFacts ==
  ASSUME NavInv, UNCHANGED stillVars
  PROVE  /\ UNCHANGED <<active, focus, mode, before, remembered, origin, link, resolves,
                        refreshing, linked, load>>
         /\ resolves' \subseteq Dialog /\ link' \in AnyDialog
BY DEF stillVars, NavInv, ViewShape

LEMMA MessageArrivesStep ==
  ASSUME NavInv, NEW c \in Dialog, MessageArrives(c)
  PROVE  StepsWell
<1>1. /\ UNCHANGED <<chats, archived, pins, folders, folder, active, focus, mode, before, remembered>>
      /\ UNCHANGED <<origin, link, resolves, linked, load, held, posted, inArchive, happened>>
      /\ activity' = [activity EXCEPT ![c] = posted[c]] /\ posted[c] > activity[c]
      /\ changed' = IF refreshing THEN changed \cup {c} ELSE changed
      /\ refreshing => refreshing'
 BY DEF MessageArrives, Arrives, paneVars, heldVars
<1>2. custom' \subseteq Dialog
 BY RulesKeep DEF MessageArrives, NavInv, ListShape
<1>3. matched' \subseteq Dialog
 BY DEF MessageArrives, HitsChange, NavInv, ViewShape
<1>4. posted[c] \in Nat /\ \A d \in Dialog : activity[d] \in Nat
 BY DEF NavInv, HeldShape, ListShape
<1>5. ListShape'
 BY <1>1, <1>2, <1>4 DEF NavInv, ListShape
<1>6. HeldShape'
 BY <1>1 DEF NavInv, HeldShape
<1>7. \A d \in Dialog : activity'[d] = IF d = c THEN posted[c] ELSE activity[d]
 BY <1>1 DEF NavInv, ListShape
<1>8. KnownInTime'
 BY <1>1, <1>4, <1>7 DEF NavInv, KnownInTime
<1>9. ListNeverGoesBack
 BY <1>1, <1>4, <1>7 DEF ListNeverGoesBack, NavInv, ListShape
<1>10. selected' \in Nat
 <2>1. ListTyped' /\ selected \in Nat /\ (StaysOrTop \/ UNCHANGED selected)
  BY <1>1, <1>5 DEF ListTyped, ListShape, NavInv, ViewShape, MessageArrives
 <2> QED BY <2>1, CursorIsSomewhere
<1> QED BY <1>1, <1>3, <1>5, <1>6, <1>8, <1>9, <1>10, PaneStaysWell DEF NavInv, ViewShape

\* A step of the refresh, or at Telegram, that shows nothing.
LEMMA UnseenStep ==
  ASSUME NavInv, UNCHANGED <<listVars, viewVars, paneVars, origin, linked>>,
         HeldShape', KnownInTime', resolves' \subseteq Dialog, link' \in AnyDialog
  PROVE  StepsWell
<1>1. /\ UNCHANGED <<chats, activity, archived, custom, pins, folders, folder, matched, selected>>
      /\ UNCHANGED <<active, focus, mode, before, remembered, origin, linked>>
 BY DEF listVars, viewVars, paneVars
<1>2. ListShape' /\ folder' \in Folder /\ matched' \subseteq Dialog /\ selected' \in Nat
 BY <1>1 DEF NavInv, ListShape, ViewShape
<1>3. ListNeverGoesBack
 BY <1>1 DEF NavInv, ListShape, ListNeverGoesBack
<1> QED BY <1>1, <1>2, <1>3, PaneStaysWell

LEMMA DialogsLoadingStep ==
  ASSUME NavInv, DialogsLoading
  PROVE  StepsWell
<1>1. /\ UNCHANGED <<listVars, viewVars, paneVars, origin, link, resolves, linked, heldVars, happened>>
      /\ load' = [load EXCEPT !.at = "loading"] /\ refreshing' = TRUE /\ changed' = {}
 BY DEF DialogsLoading
<1>2. HeldShape' /\ KnownInTime'
 BY <1>1 DEF NavInv, HeldShape, KnownInTime, listVars, heldVars
<1> QED BY <1>1, <1>2, UnseenStep DEF NavInv, ViewShape

LEMMA ReadDialogsStep ==
  ASSUME NavInv, ReadDialogs
  PROVE  StepsWell
<1>1. /\ UNCHANGED <<listVars, viewVars, paneVars, origin, link, resolves, linked, heldVars, happened>>
      /\ load' = [at |-> "read", chats |-> held, activity |-> posted, archived |-> inArchive]
      /\ UNCHANGED <<refreshing, changed>> /\ load.at = "loading"
 BY DEF ReadDialogs
<1>2. HeldShape'
 BY <1>1 DEF NavInv, HeldShape, heldVars
<1>3. \A c \in Dialog : posted[c] \in Nat
 BY DEF NavInv, HeldShape
<1>4. KnownInTime'
 BY <1>1, <1>3 DEF NavInv, KnownInTime, listVars, heldVars
<1> QED BY <1>1, <1>2, <1>4, UnseenStep DEF NavInv, ViewShape

LEMMA DialogsFailedStep ==
  ASSUME NavInv, DialogsFailed
  PROVE  StepsWell
<1>1. /\ UNCHANGED <<listVars, viewVars, paneVars, origin, link, resolves, linked, heldVars, happened>>
      /\ load' = [load EXCEPT !.at = "idle"] /\ UNCHANGED changed
 BY DEF DialogsFailed
<1>2. HeldShape' /\ KnownInTime'
 BY <1>1 DEF NavInv, HeldShape, KnownInTime, listVars, heldVars
<1> QED BY <1>1, <1>2, UnseenStep DEF NavInv, ViewShape

LEMMA DialogPinFinishedStep ==
  ASSUME NavInv, DialogPinFinished
  PROVE  StepsWell
<1>1. UNCHANGED <<listVars, viewVars, changed, heldVars, happened, stillVars>>
 BY DEF DialogPinFinished
<1>2. UNCHANGED paneVars
 BY <1>1 DEF stillVars, paneVars
<1>3. HeldShape' /\ KnownInTime'
 BY <1>1, StillFacts DEF NavInv, HeldShape, KnownInTime, listVars, heldVars
<1> QED BY <1>1, <1>2, <1>3, StillFacts, UnseenStep

LEMMA LinkStep ==
  ASSUME NavInv, NEW c \in Dialog, LinkFailed(c) \/ ButtonActivated(c)
  PROVE  StepsWell
<1>1. /\ UNCHANGED <<listVars, viewVars, paneVars, origin, refreshVars, heldVars>>
      /\ happened' \in {happened, happened + 1}
      /\ resolves' \in {resolves \cup {c}, resolves \ {c}} /\ link' \in {c, NoDialog, link}
 BY DEF LinkFailed, ButtonActivated
<1>2. HeldShape'
 BY <1>1 DEF NavInv, HeldShape, heldVars, refreshVars
<1>3. \A d \in Dialog : posted[d] \in Nat
 BY DEF NavInv, HeldShape
<1>4. KnownInTime'
 <2>1. Dialogs + happened <= Dialogs + happened' /\ Dialogs + happened \in Nat /\ Dialogs + happened' \in Nat
  <3>1. happened \in Nat /\ Dialogs \in Nat
   BY DialogFacts DEF NavInv, HeldShape
  <3>2. happened' = happened \/ happened' = happened + 1
   BY <1>1
  <3> QED BY <3>1, <3>2
 <2> QED BY <1>1, <1>3, <2>1 DEF NavInv, KnownInTime, listVars, heldVars, refreshVars
<1>5. resolves' \subseteq Dialog /\ link' \in AnyDialog
 BY <1>1 DEF NavInv, ViewShape, AnyDialog
<1> QED BY <1>1, <1>2, <1>4, <1>5, UnseenStep DEF refreshVars

LEMMA AtTelegramStep ==
  ASSUME NavInv, AtTelegram
  PROVE  StepsWell
<1>1. /\ UNCHANGED <<listVars, viewVars, paneVars, origin, link, resolves, refreshVars>>
      /\ happened' = happened + 1
 BY DEF AtTelegram
<1>2. PICK c \in Dialog :
        \/ held' = held \cup {c} /\ UNCHANGED inArchive
           /\ posted' = [posted EXCEPT ![c] = Dialogs + happened']
        \/ c \in held /\ held' = held \ {c} /\ UNCHANGED <<posted, inArchive>>
        \/ /\ c \in held /\ UNCHANGED <<held, posted>>
           /\ inArchive' = IF c \in inArchive THEN inArchive \ {c} ELSE inArchive \cup {c}
 BY DEF AtTelegram
<1>3. happened' \in Nat /\ Dialogs + happened' \in Nat /\ Dialogs + happened \in Nat
      /\ Dialogs + happened <= Dialogs + happened'
 BY <1>1, DialogFacts DEF NavInv, HeldShape
<1>4. HeldShape'
 BY <1>1, <1>2, <1>3 DEF NavInv, HeldShape, refreshVars
<1>5. \A d \in Dialog : posted[d] \in Nat /\ posted[d] <= posted'[d] /\ posted'[d] <= Dialogs + happened'
                       /\ posted'[d] \in Nat
 BY <1>2, <1>3 DEF NavInv, HeldShape, KnownInTime
<1>6. \A d \in Dialog : activity[d] \in Nat /\ load.activity[d] \in Nat
 BY DEF NavInv, ListShape, HeldShape
<1>7. KnownInTime'
 BY <1>1, <1>5, <1>6 DEF NavInv, KnownInTime, listVars, refreshVars
<1> QED BY <1>1, <1>4, <1>7, UnseenStep DEF refreshVars, NavInv, ViewShape

LEMMA StutterStep ==
  ASSUME NavInv, UNCHANGED navigationVars
  PROVE  StepsWell
<1>1. UNCHANGED <<listVars, viewVars, paneVars, origin, link, resolves, refreshVars, heldVars, happened>>
 BY DEF navigationVars
<1>2. HeldShape' /\ KnownInTime'
 BY <1>1 DEF NavInv, HeldShape, KnownInTime, listVars, heldVars, refreshVars
<1> QED BY <1>1, <1>2, UnseenStep DEF refreshVars, NavInv, ViewShape

\* A refresh, or the cache, replaces the list.
LEMMA ReplaceKeeps ==
  ASSUME NavInv, NEW list \in SUBSET Dialog, NEW at \in [Dialog -> Nat], NEW archive,
         ReplaceDialogs(list, at, archive), load' = [load EXCEPT !.at = "idle"],
         \A c \in Dialog : at[c] <= posted[c],
         \A c \in chats \cap list : c \notin changed => activity[c] <= at[c]
  PROVE  StepsWell
<1>1. /\ UNCHANGED <<pins, folders, folder, matched, before, remembered, origin, link, resolves>>
      /\ UNCHANGED <<held, posted, inArchive, happened>>
      /\ chats' = list \cup (chats \cap (linked \cup changed))
      /\ activity' = [c \in Dialog |-> IF c \in list THEN NewestKnown(c, at) ELSE activity[c]]
      /\ archived' = (archive \cap list) \cup (archived \cap (chats' \ list))
      /\ changed' = {} /\ linked' = linked \cap chats'
 BY DEF ReplaceDialogs, heldVars
<1>2. \A c \in Dialog : activity[c] \in Nat /\ at[c] \in Nat /\ NewestKnown(c, at) \in {activity[c], at[c]}
 BY DEF NavInv, ListShape, NewestKnown
<1>3. \A c \in Dialog : activity'[c] \in {activity[c], at[c]} /\ activity'[c] \in Nat
 BY <1>1, <1>2
<1>4. custom' \subseteq Dialog
 BY RulesKeep DEF ReplaceDialogs, NavInv, ListShape
<1>5. ListShape'
 <2>1. activity' \in [Dialog -> Nat]
  BY <1>1, <1>3
 <2>2. chats' \subseteq Dialog /\ archived' \subseteq chats' /\ linked' \subseteq chats'
  BY <1>1 DEF NavInv, ListShape
 <2> QED BY <1>1, <1>4, <2>1, <2>2 DEF NavInv, ListShape
<1>6. HeldShape'
 BY <1>1 DEF NavInv, HeldShape
<1>7. KnownInTime'
 BY <1>1, <1>3 DEF NavInv, KnownInTime, HeldShape
<1>8. ListNeverGoesBack
 <2>1. ASSUME NEW c \in chats \cap chats' PROVE activity'[c] >= activity[c]
  <3>0. c \in Dialog
   BY DEF NavInv, ListShape
  <3>1. CASE c \in list /\ c \in changed
   BY <1>1, <1>2, <3>0, <3>1 DEF NewestKnown
  <3>2. CASE c \in list /\ c \notin changed
   BY <1>1, <1>2, <3>0, <3>2 DEF NewestKnown
  <3>3. CASE c \notin list
   BY <1>1, <1>2, <3>0, <3>3
  <3> QED BY <3>1, <3>2, <3>3
 <2> QED BY <2>1 DEF ListNeverGoesBack
<1>9. selected' \in Nat
 <2>1. ListTyped' /\ selected \in Nat /\ StaysOrTop
  BY <1>1, <1>5 DEF ListTyped, ListShape, NavInv, ViewShape, ReplaceDialogs
 <2> QED BY <2>1, CursorIsSomewhere
<1>10. StaysInItsChat' /\ OpensEntry /\ focus' \in Focus /\ mode' \in Mode /\ active' \in AnyDialog
 <2>1. CASE active \in chats' \cup {NoDialog}
  <3>1. UNCHANGED <<active, focus, mode>>
   BY <2>1 DEF ReplaceDialogs, ClosesMissing
  <3>2. Beneath(mode)' = Beneath(mode)
   BY <1>1, <3>1 DEF Beneath, EscapesTo
  <3> QED BY <1>1, <2>1, <3>1, <3>2
       DEF NavInv, ViewShape, OpensEntry, StaysInItsChat, ComposesInAChat, CommandStaysOnItsChat
 <2>2. CASE active \notin chats' \cup {NoDialog}
  <3>1. active' = NoDialog /\ focus' = "chats" /\ mode' = "navigate"
   BY <2>2 DEF ReplaceDialogs, ClosesMissing
  <3>2. Beneath(mode)' = {"navigate"} /\ mode' \in Mode
   BY <3>1, ModeFacts DEF Beneath, EscapesTo
  <3> QED BY <3>1, <3>2
       DEF OpensEntry, StaysInItsChat, ComposesInAChat, CommandStaysOnItsChat, Focus, AnyDialog
 <2> QED BY <2>1, <2>2
<1>11. ViewShape'
 BY <1>1, <1>9, <1>10 DEF NavInv, ViewShape
<1> QED BY <1>5, <1>6, <1>7, <1>8, <1>10, <1>11 DEF StepsWell, NavInv

LEMMA DialogsArriveStep ==
  ASSUME NavInv, DialogsArrive
  PROVE  StepsWell
<1>1. /\ load.at = "read" /\ load' = [load EXCEPT !.at = "idle"]
      /\ ReplaceDialogs(load.chats, load.activity, load.archived)
 BY DEF DialogsArrive
<1>2. load.chats \in SUBSET Dialog /\ load.activity \in [Dialog -> Nat]
 BY DEF NavInv, HeldShape
<1>3. /\ \A c \in Dialog : load.activity[c] <= posted[c]
      /\ \A c \in chats \cap load.chats : c \notin changed => activity[c] <= load.activity[c]
 BY <1>1, <1>2 DEF NavInv, KnownInTime
<1> QED BY <1>1, <1>2, <1>3, ReplaceKeeps

LEMMA CachedSnapshotStep ==
  ASSUME NavInv, CachedSnapshot
  PROVE  StepsWell
<1> DEFINE at == [c \in Dialog |-> Lower(c, posted[c])]
<1>1. load.at = "start" /\ load' = [load EXCEPT !.at = "idle"] /\ chats = {}
 BY DEF CachedSnapshot, NavInv, KnownInTime
<1>2. PICK list \in SUBSET held, archive \in {{}, inArchive} : ReplaceDialogs(list, at, archive)
 BY DEF CachedSnapshot
<1>3. list \in SUBSET Dialog
 BY DEF NavInv, HeldShape
<1>4. at \in [Dialog -> Nat] /\ \A c \in Dialog : at[c] <= posted[c]
 BY DialogFacts DEF NavInv, HeldShape, Lower
<1> HIDE DEF at
<1> QED BY <1>1, <1>2, <1>3, <1>4, ReplaceKeeps

\* What moves the list, in whatever way, and leaves its chats and the pane alone.
LEMMA ListMovedStep ==
  ASSUME NavInv, UNCHANGED <<chats, activity, stillVars, heldVars, matched>>,
         CursorStays \/ Clamps \/ UNCHANGED selected,
         archived' \subseteq chats, custom' \subseteq Dialog, folders' \subseteq Folder,
         pins' \in [Folder -> Pinning], folder' \in Folder,
         changed \subseteq changed', changed' \subseteq Dialog, happened' \in {happened, happened + 1}
  PROVE  StepsWell
<1>1. /\ UNCHANGED <<chats, activity, active, focus, mode, before, remembered, origin, link,
                     resolves, refreshing, linked, load, held, posted, inArchive, matched>>
      /\ resolves' \subseteq Dialog /\ link' \in AnyDialog
 BY StillFacts DEF heldVars
<1>2. ListShape'
 BY <1>1 DEF NavInv, ListShape
<1>3. happened \in Nat /\ happened' \in Nat /\ happened <= happened' /\ Dialogs \in Nat
 <2>1. happened \in Nat /\ (happened' = happened \/ happened' = happened + 1)
  BY DEF NavInv, HeldShape
 <2> QED BY <2>1, DialogFacts
<1>4. HeldShape'
 BY <1>1, <1>3 DEF NavInv, HeldShape
<1>5. \A c \in Dialog : posted[c] \in Nat /\ posted[c] <= Dialogs + happened'
 BY <1>3 DEF NavInv, HeldShape, KnownInTime
<1>6. KnownInTime'
 BY <1>1, <1>5 DEF NavInv, KnownInTime
<1>7. selected' \in Nat
 <2>1. ListTyped' /\ selected \in Nat
  BY <1>2 DEF ListTyped, ListShape, NavInv, ViewShape
 <2> QED BY <2>1, CursorIsSomewhere
<1>8. ListNeverGoesBack
 BY <1>1 DEF NavInv, ListShape, ListNeverGoesBack
<1>9. matched' \subseteq Dialog
 BY <1>1 DEF NavInv, ViewShape
<1> QED BY <1>1, <1>2, <1>4, <1>6, <1>7, <1>8, <1>9, PaneStaysWell

LEMMA ArchiveChangedStep ==
  ASSUME NavInv, NEW c \in Dialog, ArchiveChanged(c)
  PROVE  StepsWell
<1>1. /\ c \in chats /\ archived' \in {archived \cup {c}, archived \ {c}} /\ Rules({c})
      /\ UNCHANGED <<chats, activity, pins, folders, folder, matched, changed, stillVars, heldVars, happened>>
      /\ CursorStays
 BY DEF ArchiveChanged
<1>2. custom' \subseteq Dialog
 BY <1>1, RulesKeep DEF NavInv, ListShape
<1>3. archived' \subseteq chats
 BY <1>1 DEF NavInv, ListShape
<1> QED BY <1>1, <1>2, <1>3, ListMovedStep DEF NavInv, ListShape, ViewShape, HeldShape

LEMMA DialogPinsStep ==
  ASSUME NavInv, DialogPins
  PROVE  StepsWell
<1>1. PICK p \in Orders, f \in {"main", "archive"} : pins' = [pins EXCEPT ![f] = p]
 BY DEF DialogPins
<1>2. /\ UNCHANGED <<chats, activity, archived, custom, folders, folder, matched, changed, stillVars, heldVars>>
      /\ CursorStays /\ happened' = happened + 1
 BY DEF DialogPins
<1>3. pins' \in [Folder -> Pinning]
 BY <1>1 DEF NavInv, ListShape, Orders
<1> QED BY <1>2, <1>3, ListMovedStep DEF NavInv, ListShape, ViewShape, HeldShape

LEMMA FoldersStep ==
  ASSUME NavInv, Folders
  PROVE  StepsWell
<1>1. PICK p \in Orders : pins' = [pins EXCEPT !["custom"] = p]
 BY DEF Folders
<1>2. /\ folders' \in {{"main", "archive"}, Folder} /\ custom' \in SUBSET Dialog
      /\ folder' = (IF folder \in folders' THEN folder ELSE "main")
      /\ UNCHANGED <<chats, activity, archived, matched, changed, stillVars, heldVars>>
      /\ CursorStays /\ happened' = happened + 1
 BY DEF Folders
<1>3. pins' \in [Folder -> Pinning]
 BY <1>1 DEF NavInv, ListShape, Orders
<1>4. folders' \subseteq Folder /\ folder' \in Folder
 BY <1>2 DEF Folder
<1> QED BY <1>2, <1>3, <1>4, ListMovedStep DEF NavInv, ListShape, ViewShape, HeldShape

LEMMA MembershipStep ==
  ASSUME NavInv, NEW c \in Dialog, Membership(c)
  PROVE  StepsWell
<1>1. /\ custom' \in {custom \cup {c}, custom \ {c}} /\ changed' \in {changed, changed \cup {c}}
      /\ UNCHANGED <<chats, activity, archived, pins, folders, folder, matched, stillVars, heldVars>>
      /\ Clamps \/ UNCHANGED selected
      /\ happened' = happened + 1
 BY DEF Membership
<1>2. custom' \subseteq Dialog /\ changed \subseteq changed' /\ changed' \subseteq Dialog
 BY <1>1 DEF NavInv, ListShape, HeldShape
<1> QED BY <1>1, <1>2, ListMovedStep DEF NavInv, ListShape, ViewShape

\* The link that is still waited for opens its chat, and the cursor is on it.
LEMMA LinkResolvedStep ==
  ASSUME NavInv, NEW c \in Dialog, load.at # "start", LinkResolved(c)
  PROVE  StepsWell
<1>1. /\ UNCHANGED <<archived, custom, pins, folders, before, origin, changed, load, refreshing>>
      /\ UNCHANGED <<held, posted, inArchive, happened>>
      /\ chats' = chats \cup {c} /\ linked' = linked \cup ({c} \ chats)
      /\ activity' = [activity EXCEPT ![c] = IF c \in chats THEN @ ELSE 0]
      /\ folder' = (IF c \in archived THEN "archive" ELSE "main") /\ matched' = Dialog
      /\ Opens(c) /\ mode' = "navigate" /\ resolves' = resolves \ {c} /\ Follows(c)
 BY DEF LinkResolved, heldVars
<1>2. \A d \in Dialog : activity[d] \in Nat /\ posted[d] \in Nat /\ load.activity[d] \in Nat
 BY DEF NavInv, ListShape, HeldShape
<1>3. \A d \in Dialog : activity'[d] = IF d = c /\ c \notin chats THEN 0 ELSE activity[d]
 BY <1>1 DEF NavInv, ListShape
<1>4. ListShape'
 BY <1>1, <1>2 DEF NavInv, ListShape
<1>5. HeldShape'
 BY <1>1 DEF NavInv, HeldShape
<1>6. KnownInTime'
 BY <1>1, <1>2, <1>3 DEF NavInv, KnownInTime
<1>7. ListNeverGoesBack
 BY <1>1, <1>2, <1>3 DEF NavInv, ListShape, ListNeverGoesBack
<1>8. c \in Shown'
 BY <1>1 DEF Shown, FolderHas
<1>9. folder' \in Folder /\ ListTyped'
 BY <1>1, <1>4 DEF Folder, ListTyped, ListShape
<1>10. selected' = Position(c)'
 BY <1>1, <1>8 DEF Follows
<1>11. Entry' = c /\ selected' \in Nat
 BY <1>8, <1>9, <1>10, EntryFactsNext DEF CursorIsOn
<1>12. active' = c /\ remembered' = c /\ focus' = "conversation" /\ link' = NoDialog
 BY <1>1 DEF Opens
<1>13. Beneath(mode)' = {"navigate"} /\ mode' \in Mode
 BY <1>1, ModeFacts DEF Beneath, EscapesTo
<1>14. StaysInItsChat'
 BY <1>1, <1>12, <1>13, DialogFacts DEF StaysInItsChat, ComposesInAChat, CommandStaysOnItsChat
<1>15. ViewShape'
 BY <1>1, <1>9, <1>11, <1>12, <1>13 DEF NavInv, ViewShape, AnyDialog, Focus
<1> QED BY <1>4, <1>5, <1>6, <1>7, <1>11, <1>12, <1>14, <1>15 DEF StepsWell, NavInv, OpensEntry

LEMMA NavKept ==
  ASSUME NavInv, [NavigationNext]_navigationVars
  PROVE  NavInv' /\ ListNeverGoesBack /\ (OpensEntry \/ FilterEnter)
<1>1. CASE UserActs
 BY <1>1, UserActsStep
<1>2. CASE AskRefresh
 BY <1>2, AskRefreshStep DEF StepsWell
<1>3. CASE LeaveAccount
 BY <1>3, LeaveAccountStep DEF StepsWell
<1>4. CASE load.at # "start" /\ ListMoves
 BY <1>4, MessageArrivesStep, DialogsArriveStep, ArchiveChangedStep, DialogPinsStep, FoldersStep
    DEF StepsWell, ListMoves
<1>5. CASE load.at # "start" /\ WorkerTells
 BY <1>5, DialogsLoadingStep, ReadDialogsStep, DialogsFailedStep, MembershipStep,
    DialogPinFinishedStep, LinkResolvedStep, LinkStep DEF StepsWell, WorkerTells
<1>6. CASE CachedSnapshot
 BY <1>6, CachedSnapshotStep DEF StepsWell
<1>7. CASE AtTelegram
 BY <1>7, AtTelegramStep DEF StepsWell
<1>8. CASE UNCHANGED navigationVars
 BY <1>8, StutterStep DEF StepsWell
<1> QED BY <1>1, <1>2, <1>3, <1>4, <1>5, <1>6, <1>7, <1>8 DEF NavigationNext

LEMMA NavAlways == NavigationSpec => []NavInv
<1>1. NavInv /\ [NavigationNext]_navigationVars => NavInv'
 BY NavKept
<1> QED BY NavigationBegins, <1>1, PTL DEF NavigationSpec

\* A message of a chat that is not listed moves nothing in the list.
LEMMA UnlistedMovesNothing ==
  ASSUME NavInv, NavInv', NEW c \in Dialog, MessageArrives(c), c \notin chats
  PROVE  Entry' = Entry \/ Entry \notin Shown'
<1>1. /\ UNCHANGED <<chats, archived, pins, folders, folder, selected>>
      /\ activity' = [activity EXCEPT ![c] = posted[c]]
 BY DEF MessageArrives, Arrives
<1>2. \A d \in chats : d # c /\ activity'[d] = activity[d]
 BY <1>1 DEF NavInv, ListShape
<1>3. \A d \in chats : (d \in matched' <=> d \in matched) /\ (d \in custom' <=> d \in custom)
 BY <1>2 DEF MessageArrives, HitsChange, Rules
<1>4. \A d \in chats : FolderHas(folder, d)' = FolderHas(folder, d)
 BY <1>1, <1>3 DEF FolderHas
<1>5. Shown' = Shown
 BY <1>1, <1>3, <1>4 DEF Shown
<1>6. \A d, e \in Shown : Precedes(d, e)' = Precedes(d, e)
 BY <1>1, <1>2, NowFacts DEF Precedes
<1>7. \A d \in Shown : Position(d)' = Position(d)
 BY <1>5, <1>6 DEF Position
<1>8. ListTyped'
 BY DEF NavInv, ListShape, ViewShape, ListTyped
<1>9. CASE Entry \in Shown
 <2>1. PICK d \in Shown : d = Entry
  BY <1>9
 <2>2. selected = Position(d)
  BY <1>9, <2>1, NowFacts, DialogFacts DEF Entry, UnderCursor
 <2>3. selected' = Position(d)' /\ d \in Shown'
  BY <1>1, <1>5, <1>7, <2>2
 <2>4. Entry' = d
  BY <1>8, <2>3, EntryFactsNext DEF CursorIsOn
 <2> QED BY <2>1, <2>4
<1> QED BY <1>5, <1>9

LEMMA CursorKept ==
  ASSUME NavInv, NavInv'
  PROVE  CursorFollows
<1>0. ListTyped'
 BY DEF NavInv, ListShape, ViewShape, ListTyped
<1>1. ASSUME NEW c \in Dialog, MessageArrives(c) PROVE Entry' = Entry \/ Entry \notin Shown'
 <2>1. CASE c \in chats
  BY <1>0, <1>1, <2>1, CursorStaysOn DEF MessageArrives
 <2>2. CASE c \notin chats
  BY <1>1, <2>2, UnlistedMovesNothing
 <2> QED BY <2>1, <2>2
<1>2. DialogsArrive \/ CachedSnapshot => StaysOrTop
 BY DEF DialogsArrive, CachedSnapshot, ReplaceDialogs
<1>3. (\E c \in Dialog : ArchiveChanged(c)) \/ DialogPins \/ Folders => CursorStays
 BY DEF ArchiveChanged, DialogPins, Folders
<1> QED BY <1>0, <1>1, <1>2, <1>3, CursorStaysOn DEF CursorFollows, ListMoves

\* Only the user's own steps count as such.
LEMMA WhoActs ==
  ASSUME [NavigationNext]_navigationVars, acts' # acts
  PROVE  UserActs \/ AskRefresh \/ LeaveAccount
<1>1. CASE ListMoves
 BY <1>1 DEF ListMoves, MessageArrives, DialogsArrive, ReplaceDialogs, ArchiveChanged, DialogPins,
    Folders, stillVars
<1>2. CASE WorkerTells
 BY <1>2 DEF WorkerTells, DialogsLoading, ReadDialogs, DialogsFailed, Membership, DialogPinFinished,
    LinkResolved, LinkFailed, ButtonActivated, stillVars
<1>3. CASE CachedSnapshot \/ AtTelegram \/ UNCHANGED navigationVars
 BY <1>3 DEF CachedSnapshot, ReplaceDialogs, AtTelegram, navigationVars
<1> QED BY <1>1, <1>2, <1>3 DEF NavigationNext

LEMMA SteeredKept ==
  ASSUME NavInv, NavInv', [NavigationNext]_navigationVars
  PROVE  StepsAsSteered
<1>1. CursorFollows
 BY CursorKept
<1>2. ListNeverGoesBack /\ (OpensEntry \/ FilterEnter)
 BY NavKept
<1>3. ASSUME NEW c \in Dialog, acts' # acts, JumpTo(c) PROVE active' = c
 <2>1. c \in chats /\ Reveal(c) /\ active' = Entry' /\ focus' = "conversation"
  BY <1>3 DEF JumpTo, Opens
 <2>2. ~LeaveAccount
  BY <2>1 DEF LeaveAccount
 <2>3. SameList
  BY <1>3, <2>2, WhoActs DEF UserActs, AskRefresh, listVars, SameList
 <2> QED BY <2>1, <2>3, RevealKeeps
<1>4. OpensWhatIsNamed
 BY <1>2, <1>3 DEF OpensWhatIsNamed, OpensEntry
<1> QED BY <1>1, <1>2, <1>4 DEF StepsAsSteered

\* Whatever is typed, clicked and told, a composer and what Escape comes back to have an
\* open chat, which is listed, and a command acts on what it was begun on.
THEOREM NavigationStaysInItsChat == NavigationSpec => []StaysInItsChat
<1>1. NavInv => StaysInItsChat
 BY DEF NavInv
<1> QED BY <1>1, NavAlways, PTL

\* The list, the cursor and the panes have their shape.
THEOREM NavigationTypeCorrect == NavigationSpec => []NavigationType
<1>1. NavInv => NavigationType
 BY ModeFacts DEF NavInv, ListShape, ViewShape, NavigationType, AnyDialog, Focus
<1> QED BY <1>1, NavAlways, PTL

\* The cursor stays on its chat when the list moves, what is named is what is opened, and
\* no refresh takes a chat back.
THEOREM NavigationIsSteered == NavigationSpec => [][StepsAsSteered]_navigationVars
<1>1. NavInv /\ NavInv' /\ [NavigationNext]_navigationVars => [StepsAsSteered]_navigationVars
 BY SteeredKept
<1> QED BY <1>1, NavAlways, PTL DEF NavigationSpec

-------------------------------------------------------------------------------
(* The keys. *)

\* What the keymap holds once it is loaded.
BoundSpec == {s \in BindingSpec : Len(s.keys) > 0 /\ s.times > 0}
SoundKeys(bs) == bs \subseteq BoundSpec /\ Clear(bs)

LEMMA PrefixFacts ==
  ASSUME NEW S, NEW a \in Seq(S), NEW b \in Seq(S)
  PROVE  /\ IsPrefix(a, b) <=> Len(a) <= Len(b) /\ \A i \in 1..Len(a) : a[i] = b[i]
         /\ IsPrefix(a, a)
<1>1. IsPrefix(a, b) => Len(a) <= Len(b) /\ \A i \in 1..Len(a) : a[i] = b[i]
 <2> SUFFICES ASSUME IsPrefix(a, b) PROVE Len(a) <= Len(b) /\ \A i \in 1..Len(a) : a[i] = b[i]
  OBVIOUS
 <2>1. Len(a) <= Len(b) /\ SubSeq(a, 1, Len(a)) = SubSeq(b, 1, Len(a))
  BY DEF IsPrefix
 <2>2. \A i \in 1..Len(a) : SubSeq(a, 1, Len(a))[i] = a[i] /\ SubSeq(b, 1, Len(a))[i] = b[i]
  BY <2>1
 <2> QED BY <2>1, <2>2
<1>2. (Len(a) <= Len(b) /\ \A i \in 1..Len(a) : a[i] = b[i]) => IsPrefix(a, b)
 BY DEF IsPrefix
<1>3. IsPrefix(a, a)
 BY DEF IsPrefix
<1> QED BY <1>1, <1>2, <1>3

LEMMA BuiltInFacts ==
  /\ \A b \in BuiltIn : b \in BoundSpec
  /\ \A b \in BuiltIn : Len(b.keys) = 1 \/ Len(b.keys) = 2
  /\ \A b \in BuiltIn :
      \/ Len(b.keys) = 1 /\ b.context = "global"
      \/ Len(b.keys) = 1 /\ b.context = "conversation" /\ b.keys[1] = "j"
         /\ b.run = "message_down" /\ b.times = 1
      \/ Len(b.keys) = 1 /\ b.context = "conversation" /\ b.keys[1] = "Esc"
      \/ Len(b.keys) = 1 /\ b.context = "compose"
      \/ Len(b.keys) = 2 /\ b.context \in Counted /\ b.keys[1] = "g" /\ b.keys[2] \in {"g", "m"}
<1>1. ASSUME NEW b \in BuiltIn
      PROVE  \/ b = Binding("global", <<"F2">>, "next_account", 1)
             \/ b = Binding("conversation", <<"j">>, "message_down", 1)
             \/ b = Binding("conversation", <<"Esc">>, "cancel", 1)
             \/ b = Binding("compose", <<"Esc">>, "cancel", 1)
             \/ \E c \in Counted, k \in {"g", "m"} :
                   b = Binding(c, <<"g", k>>, IF k = "g" THEN "oldest" ELSE "mentions", 1)
 BY DEF BuiltIn
<1>2. ASSUME NEW b \in BuiltIn, NEW i \in 1..Len(b.keys) PROVE b.keys[i] \in Key
 BY DEF Key
<1>3. ASSUME NEW b \in BuiltIn PROVE b.keys \in Seq(Key) /\ Len(b.keys) > 0
 <2>1. CASE \E k : b.keys = <<k>>
  BY <1>2, <2>1
 <2>2. CASE \E k, l : b.keys = <<k, l>>
  BY <1>2, <2>2
 <2> QED BY <1>1, <2>1, <2>2 DEF Binding
<1>4. ASSUME NEW b \in BuiltIn PROVE b \in BoundSpec
 <2>1. b.context \in Context /\ b.run \in Run /\ b.times = 1
       /\ b = Binding(b.context, b.keys, b.run, b.times)
  BY <1>1 DEF Binding, Context, Counted, Run
 <2> QED BY <1>3, <2>1 DEF Binding, BoundSpec, BindingSpec
<1>5. ASSUME NEW b \in BuiltIn
      PROVE  /\ Len(b.keys) = 1 \/ Len(b.keys) = 2
             /\ \/ Len(b.keys) = 1 /\ b.context = "global"
                \/ Len(b.keys) = 1 /\ b.context = "conversation" /\ b.keys[1] = "j"
                   /\ b.run = "message_down" /\ b.times = 1
                \/ Len(b.keys) = 1 /\ b.context = "conversation" /\ b.keys[1] = "Esc"
                \/ Len(b.keys) = 1 /\ b.context = "compose"
                \/ Len(b.keys) = 2 /\ b.context \in Counted /\ b.keys[1] = "g" /\ b.keys[2] \in {"g", "m"}
 BY <1>1 DEF Binding
<1> QED BY <1>4, <1>5

LEMMA BuiltInSound == SoundKeys(BuiltIn)
<1>1. ASSUME NEW a \in BuiltIn, NEW b \in BuiltIn, a # b, a.context = b.context
      PROVE  \/ Len(b.keys) < Len(a.keys)
             \/ \E i \in 1..Len(a.keys) : a.keys[i] # b.keys[i]
 <2>1. 1 \in 1..Len(a.keys)
  BY BuiltInFacts
 <2>2. CASE a.keys[1] # b.keys[1]
  BY <2>1, <2>2
 <2>3. CASE a.keys[1] = b.keys[1] /\ Len(a.keys) = 1
  BY <1>1, <2>3 DEF BuiltIn, Binding, Counted
 <2>4. CASE a.keys[1] = b.keys[1] /\ Len(a.keys) = 2
  <3>1. Len(b.keys) = 2 \/ Len(b.keys) < 2
   BY BuiltInFacts
  <3>2. CASE Len(b.keys) = 2
   <4>1. a.keys[2] # b.keys[2]
    BY <1>1, <2>4, <3>2 DEF BuiltIn, Binding, Counted
   <4> QED BY <2>4, <4>1
  <3> QED BY <2>4, <3>1, <3>2
 <2> QED BY <2>2, <2>3, <2>4, BuiltInFacts
<1>2. ASSUME NEW a \in BuiltIn, NEW b \in BuiltIn, a # b, a.context = b.context
      PROVE  ~IsPrefix(a.keys, b.keys)
 <2>1. a.keys \in Seq(Key) /\ b.keys \in Seq(Key)
  BY BuiltInFacts DEF BoundSpec, BindingSpec
 <2> QED BY <1>1, <1>2, <2>1, PrefixFacts
<1> QED BY <1>2, BuiltInFacts DEF SoundKeys, Clear

LEMMA TimesFacts == (\A n \in 1..MaxCount : n > 0) /\ \A n \in 1..4 : n > 0
BY DEF MaxCount

LEMMA ParsedSound ==
  ASSUME NEW specs \in Configs, Parses(specs)
  PROVE  SoundKeys(Overridden(specs))
<1>1. specs \in Seq(BindingSpec)
 BY KeysAssumption
<1>2. ASSUME NEW i \in DOMAIN specs PROVE specs[i] \in BoundSpec
 <2>1. specs[i] \in BindingSpec
  BY <1>1
 <2>2. Len(specs[i].keys) \in 1..4
  BY DEF Parses, Acceptable
 <2>3. specs[i].times \in 1..MaxCount
  BY DEF Parses, Acceptable
 <2>4. Len(specs[i].keys) > 0
  BY <2>2, TimesFacts, Zenon
 <2>5. specs[i].times > 0
  BY <2>3, TimesFacts, Zenon
 <2> QED BY <2>1, <2>4, <2>5 DEF BoundSpec
<1>3. Overridden(specs) \subseteq BoundSpec
 BY <1>2, BuiltInFacts DEF Overridden
<1> QED BY <1>3 DEF SoundKeys, Parses

LEMMA LoadedSound ==
  ASSUME NEW specs \in Configs
  PROVE  SoundKeys(Loaded(specs))
BY ParsedSound, BuiltInSound DEF Loaded

-------------------------------------------------------------------------------
Typed == [keys : Seq(Key), said : Nat]

KeysShape ==
    /\ SoundKeys(bound) /\ file \in Configs
    /\ chord \in Seq(Key) /\ times \in 0..MaxCount /\ keyContext \in Context
    /\ requested \in BOOLEAN /\ reloading \in BOOLEAN
    /\ reading.at \in {"none", "reading", "done"}
    /\ reading.parses => SoundKeys(reading.bindings)
    /\ typed \in Typed

\* What is pending is what was typed.
PendsAsTyped == typed.keys = chord /\ times = Lesser(typed.said, MaxCount)

KeysInv == KeysShape /\ PendsAsTyped /\ RunsAsTyped /\ ChordsCanEnd /\ ReloadIsUnderWay

LEMMA ResetsKeeps ==
  ASSUME Resets
  PROVE  /\ PendsAsTyped' /\ ChordsCanEnd'
         /\ chord' \in Seq(Key) /\ times' \in 0..MaxCount /\ typed' \in Typed
BY DEF Resets, PendsAsTyped, ChordsCanEnd, NothingTyped, Typed, Lesser, MaxCount

\* A number is kept as what was said, up to the highest.
LEMMA CountGrows ==
  ASSUME NEW s \in Nat, NEW d \in 0..9
  PROVE  /\ Lesser(Lesser(s, MaxCount) * 10 + d, MaxCount) = Lesser(s * 10 + d, MaxCount)
         /\ Lesser(Lesser(s, MaxCount) * 10 + d, MaxCount) \in 0..MaxCount
BY DEF Lesser, MaxCount

LEMMA CountRuns ==
  ASSUME NEW s \in Nat, NEW t \in Nat, t > 0
  PROVE  Lesser(Greater(Lesser(s, MaxCount), 1) * t, MaxCount)
           = Lesser(Greater(s, 1) * t, MaxCount)
<1>1. CASE s <= MaxCount
 <2>1. Lesser(s, MaxCount) = s
  BY <1>1 DEF Lesser, MaxCount
 <2> QED BY <2>1
<1>2. CASE ~(s <= MaxCount)
 <2>1. \A n \in Nat : n * t >= n
  OBVIOUS
 <2>2. MaxCount * t >= MaxCount /\ s * t >= s /\ MaxCount * t \in Nat /\ s * t \in Nat
  BY <2>1 DEF MaxCount
 <2>3. Lesser(s, MaxCount) = MaxCount /\ Greater(MaxCount, 1) = MaxCount /\ Greater(s, 1) = s
  BY <1>2 DEF Lesser, Greater, MaxCount
 <2> HIDE DEF MaxCount
 <2>4. MaxCount \in Nat
  BY DEF MaxCount
 <2> QED BY <1>2, <2>2, <2>3, <2>4 DEF Lesser
<1> QED BY <1>1, <1>2

\* A key does with the chord and the number before it what is said of them.
LEMMA FeedsKeeps ==
  ASSUME NEW c \in Context \ {"global"}, NEW k \in Key, NEW keys \in Seq(Key), NEW n \in 0..MaxCount,
         NEW former \in Typed, former.keys = keys, n = Lesser(former.said, MaxCount),
         keys # <<>> => Candidates(c, keys) # {},
         SoundKeys(bound), UNCHANGED bound, keyContext' = c, Feeds(c, k, keys, n, former)
  PROVE  /\ PendsAsTyped' /\ ChordsCanEnd' /\ RunsAsTyped'
         /\ chord' \in Seq(Key) /\ times' \in 0..MaxCount /\ typed' \in Typed
<1> DEFINE more == Append(keys, k)
<1>0. more \in Seq(Key) /\ former.said \in Nat
 BY DEF Typed
<1>1. CASE k = "Esc" /\ (keys # <<>> \/ n # 0)
 BY <1>1, ResetsKeeps DEF Feeds, RunsAsTyped
<1>2. CASE ~(k = "Esc" /\ (keys # <<>> \/ n # 0)) /\ keys = <<>> /\ IsDigit(c, k, n)
 <2>1. /\ times' = Lesser(n * 10 + Digit[k], MaxCount) /\ chord' = keys
       /\ typed' = [former EXCEPT !.said = @ * 10 + Digit[k]]
       /\ ran' = NothingRan
  BY <1>2 DEF Feeds
 <2>2. Digit[k] \in 0..9
  BY <1>2 DEF IsDigit, Digit
 <2>3. /\ times' = Lesser(former.said * 10 + Digit[k], MaxCount) /\ times' \in 0..MaxCount
  BY <1>0, <2>1, <2>2, CountGrows
 <2>4. typed'.keys = keys /\ typed'.said = former.said * 10 + Digit[k] /\ typed' \in Typed
  BY <1>0, <2>1, <2>2 DEF Typed
 <2> QED BY <1>2, <2>1, <2>3, <2>4 DEF PendsAsTyped, ChordsCanEnd, RunsAsTyped
<1>3. CASE ~(k = "Esc" /\ (keys # <<>> \/ n # 0)) /\ ~(keys = <<>> /\ IsDigit(c, k, n))
 <2>1. CASE \E b \in Candidates(c, more) :
               /\ b.keys = more
               /\ Resets
               /\ ran' = [run |-> b.run, times |-> Lesser(Greater(n, 1) * b.times, MaxCount),
                          context |-> c, typed |-> [former EXCEPT !.keys = Append(@, k)]]
  <3>1. PICK b \in Candidates(c, more) :
              /\ b.keys = more
              /\ Resets
              /\ ran' = [run |-> b.run, times |-> Lesser(Greater(n, 1) * b.times, MaxCount),
                         context |-> c, typed |-> [former EXCEPT !.keys = Append(@, k)]]
   BY <2>1
  <3>2. b \in bound /\ b \in BoundSpec
   BY DEF Candidates, Beginning, SoundKeys
  <3>3. \/ b.context = c
        \/ b.context = "global" /\ Beginning(c, more) = {}
   BY DEF Candidates, Beginning
  <3>4. ASSUME NEW d \in bound, d.context = c, d.keys = more
        PROVE  d \in Beginning(c, more)
   BY <1>0, <3>4, PrefixFacts DEF Beginning
  <3>5. /\ ran'.typed.keys = more /\ ran'.typed.said = former.said
        /\ ran'.run = b.run /\ ran'.context = c
        /\ ran'.times = Lesser(Greater(n, 1) * b.times, MaxCount)
   BY <3>1 DEF Typed
  <3>6. ran'.times = Lesser(Greater(ran'.typed.said, 1) * b.times, MaxCount)
   BY <1>0, <3>2, <3>5, CountRuns DEF BoundSpec, BindingSpec
  <3>7. RunsAsTyped'
   BY <3>1, <3>2, <3>3, <3>4, <3>5, <3>6 DEF RunsAsTyped
  <3> QED BY <3>1, <3>7, ResetsKeeps
 <2>2. CASE \A b \in Candidates(c, more) : b.keys # more
  <3>1. ran' = NothingRan
   BY <1>3, <2>2 DEF Feeds
  <3>2. CASE Candidates(c, more) = {}
   <4>1. Resets
    BY <1>3, <2>2, <3>2 DEF Feeds
   <4> QED BY <3>1, <4>1, ResetsKeeps DEF RunsAsTyped
  <3>3. CASE Candidates(c, more) # {}
   <4>1. /\ chord' = more /\ times' = n
         /\ typed' = [former EXCEPT !.keys = Append(@, k)]
    BY <1>3, <2>2, <3>3 DEF Feeds
   <4>2. typed'.keys = more /\ typed'.said = former.said /\ typed' \in Typed
    BY <1>0, <4>1 DEF Typed
   <4>3. Candidates(c, more)' = Candidates(c, more)
    BY <4>1 DEF Candidates, Beginning
   <4> QED BY <1>0, <3>1, <3>3, <4>1, <4>2, <4>3 DEF PendsAsTyped, ChordsCanEnd, RunsAsTyped
  <3> QED BY <3>2, <3>3
 <2> QED BY <1>3, <2>1, <2>2 DEF Feeds
<1> QED BY <1>1, <1>2, <1>3

LEMMA KeysBegin == KeysInit => KeysInv
<1> SUFFICES ASSUME KeysInit PROVE KeysInv
 OBVIOUS
<1>1. SoundKeys(bound) /\ file \in Configs
 BY LoadedSound DEF KeysInit
<1>2. chord = <<>> /\ times = 0 /\ typed = NothingTyped /\ ran = NothingRan
 BY DEF KeysInit
<1>3. PendsAsTyped /\ ChordsCanEnd /\ RunsAsTyped /\ typed \in Typed
      /\ chord \in Seq(Key) /\ times \in 0..MaxCount
 BY <1>2 DEF PendsAsTyped, ChordsCanEnd, RunsAsTyped, NothingTyped, Typed, Lesser, MaxCount
<1>4. /\ ~requested /\ ~reloading /\ reading = NotReading /\ keyContext = "global"
      /\ requested \in BOOLEAN /\ reloading \in BOOLEAN
 BY DEF KeysInit
<1>5. ReloadIsUnderWay /\ reading.at = "none" /\ ~reading.parses /\ keyContext \in Context
 BY <1>4 DEF ReloadIsUnderWay, NotReading, Context
<1> QED BY <1>1, <1>3, <1>4, <1>5 DEF KeysInv, KeysShape

LEMMA PressKeeps ==
  ASSUME KeysInv, PressKey
  PROVE  KeysInv'
<1>1. PICK c \in Context \ {"global"}, k \in Key :
        /\ keyContext' = c
        /\ IF c = keyContext THEN Feeds(c, k, chord, times, typed)
                             ELSE Feeds(c, k, <<>>, 0, NothingTyped)
 BY DEF PressKey
<1>2. UNCHANGED <<bound, reloadVars>>
 BY DEF PressKey
<1>3. NothingTyped \in Typed /\ NothingTyped.keys = <<>> /\ 0 = Lesser(NothingTyped.said, MaxCount)
      /\ 0 \in 0..MaxCount /\ <<>> \in Seq(Key)
 BY DEF NothingTyped, Typed, Lesser, MaxCount
<1>4. /\ PendsAsTyped' /\ ChordsCanEnd' /\ RunsAsTyped'
      /\ chord' \in Seq(Key) /\ times' \in 0..MaxCount /\ typed' \in Typed
 <2>1. CASE c = keyContext
  BY <1>1, <1>2, <2>1, FeedsKeeps DEF KeysInv, KeysShape, PendsAsTyped, ChordsCanEnd
 <2>2. CASE c # keyContext
  <3>1. Feeds(c, k, <<>>, 0, NothingTyped)
   BY <1>1, <2>2
  <3> QED BY <1>1, <1>2, <1>3, <3>1, FeedsKeeps DEF KeysInv, KeysShape
 <2> QED BY <2>1, <2>2
<1>5. ReloadIsUnderWay'
 BY <1>2 DEF reloadVars, ReloadIsUnderWay, KeysInv
<1> QED BY <1>1, <1>2, <1>4, <1>5 DEF KeysInv, KeysShape, reloadVars, SoundKeys, Clear

LEMMA KeysKept == KeysInv /\ [KeysNext]_keyVars => KeysInv'
<1> SUFFICES ASSUME KeysInv, [KeysNext]_keyVars PROVE KeysInv'
 OBVIOUS
<1> USE DEF KeysInv
<1>1. CASE PressKey
 BY <1>1, PressKeeps
<1>2. CASE PressUnknownKey
 <2>1. Resets /\ ran' = NothingRan /\ UNCHANGED <<bound, reloadVars>> /\ keyContext' \in Context
  BY <1>2 DEF PressUnknownKey
 <2> QED BY <2>1, ResetsKeeps DEF KeysShape, RunsAsTyped, ReloadIsUnderWay, reloadVars, SoundKeys, Clear
<1>3. CASE Expires
 <2>1. Resets /\ ran' = NothingRan /\ UNCHANGED <<bound, keyContext, reloadVars>>
  BY <1>3 DEF Expires
 <2> QED BY <2>1, ResetsKeeps DEF KeysShape, RunsAsTyped, ReloadIsUnderWay, reloadVars, SoundKeys, Clear
<1>4. CASE FileEdited
 BY <1>4 DEF FileEdited, chordVars, KeysShape, PendsAsTyped, RunsAsTyped, ChordsCanEnd,
             ReloadIsUnderWay, SoundKeys, Clear, Candidates, Beginning
<1>5. CASE RequestReload
 BY <1>5 DEF RequestReload, chordVars, KeysShape, PendsAsTyped, RunsAsTyped, ChordsCanEnd,
             ReloadIsUnderWay, SoundKeys, Clear, Candidates, Beginning
<1>6. CASE TakeReload
 BY <1>6 DEF TakeReload, chordVars, KeysShape, PendsAsTyped, RunsAsTyped, ChordsCanEnd,
             ReloadIsUnderWay, NotReading, SoundKeys, Clear, Candidates, Beginning
<1>7. CASE ReadFile
 <2>1. /\ reading'.at = "done" /\ reading.at = "reading"
       /\ reading'.parses => Parses(file) /\ reading'.bindings = Overridden(file)
  BY <1>7 DEF ReadFile, NotReading
 <2>2. reading'.parses => SoundKeys(reading'.bindings)
  BY <2>1, ParsedSound DEF KeysShape
 <2>3. UNCHANGED <<bound, chordVars, file, requested, reloading>>
  BY <1>7 DEF ReadFile
 <2>4. KeysShape'
  BY <2>1, <2>2, <2>3 DEF KeysShape, chordVars, SoundKeys, Clear
 <2> QED BY <2>1, <2>3, <2>4 DEF chordVars, PendsAsTyped, RunsAsTyped, ChordsCanEnd,
              ReloadIsUnderWay, Candidates, Beginning
<1>8. CASE Configured
 <2>1. /\ reading.at = "done" /\ reading' = NotReading /\ ~reloading' /\ ~requested'
       /\ reloading' \in BOOLEAN /\ requested' \in BOOLEAN /\ UNCHANGED file
  BY <1>8 DEF Configured
 <2>2. ReloadIsUnderWay' /\ reading'.at = "none" /\ ~reading'.parses
  BY <2>1 DEF ReloadIsUnderWay, NotReading
 <2>3. CASE reading.parses /\ Installs
  <3>1. SoundKeys(bound') /\ Resets /\ ran' = NothingRan /\ UNCHANGED keyContext
   BY <2>3 DEF Installs, KeysShape
  <3>2. KeysShape'
   BY <2>1, <2>2, <3>1, ResetsKeeps DEF KeysShape, SoundKeys, Clear
  <3> QED BY <2>2, <3>1, <3>2, ResetsKeeps DEF RunsAsTyped
 <2>4. CASE UNCHANGED <<bound, chordVars>>
  <3>1. KeysShape'
   BY <2>1, <2>2, <2>4 DEF KeysShape, chordVars, SoundKeys, Clear
  <3> QED BY <2>2, <2>4, <3>1 DEF chordVars, PendsAsTyped, RunsAsTyped, ChordsCanEnd,
             Candidates, Beginning
 <2> QED BY <1>8, <2>3, <2>4 DEF Configured
<1>9. CASE UNCHANGED keyVars
 BY <1>9 DEF keyVars, chordVars, reloadVars, KeysShape, PendsAsTyped, RunsAsTyped, ChordsCanEnd,
             ReloadIsUnderWay, SoundKeys, Clear, Candidates, Beginning
<1> QED BY <1>1, <1>2, <1>3, <1>4, <1>5, <1>6, <1>7, <1>8, <1>9 DEF KeysNext

LEMMA KeysAlways == KeysSpec => []KeysInv
BY KeysBegin, KeysKept, PTL DEF KeysSpec

\* The keymap decides that the keys that are shown can be typed: no other binding is in
\* their way, however a configuration replaced them.
LEMMA HintsFollow ==
  ASSUME SoundKeys(bound)
  PROVE  HintsRun
<1> SUFFICES ASSUME NEW c \in Context \ {"global"}, NEW run \in Run, NEW b \in Hinted(c, run),
                    CanBeTyped(c, b)
             PROVE  ~IsDigit(c, b.keys[1], 0) /\ ChordLeadsTo(c, b)
 BY DEF HintsRun
<1>1. b \in bound /\ b.keys \in Seq(Key) /\ Len(b.keys) \in Nat /\ Len(b.keys) > 0
 BY DEF Hinted, SoundKeys, BoundSpec, BindingSpec
<1>2. \A d \in bound : d.keys \in Seq(Key)
 BY DEF SoundKeys, BoundSpec, BindingSpec
<1>3. \/ b.context = c
      \/ b.context = "global" /\ ~Shadowed(c, b)
 BY DEF Hinted
<1>4. \A d \in bound : d # b /\ d.context = b.context =>
        ~IsPrefix(d.keys, b.keys) /\ ~IsPrefix(b.keys, d.keys)
 BY <1>1 DEF SoundKeys, Clear
<1>5. ~IsDigit(c, b.keys[1], 0)
 <2>1. CASE Len(b.keys) > 1
  BY <2>1 DEF IsDigit, CanBeTyped
 <2>2. CASE Len(b.keys) = 1
  <3>1. b.keys = <<b.keys[1]>>
   BY <1>1, <2>2
  <3> QED BY <1>1, <1>3, <3>1 DEF IsDigit
 <2>3. \A n \in Nat : n > 0 => n = 1 \/ n > 1
  OBVIOUS
 <2>4. Len(b.keys) = 1 \/ Len(b.keys) > 1
  BY <1>1, <2>3, Zenon
 <2> QED BY <2>1, <2>2, <2>4
<1>6. ASSUME NEW n \in 1..Len(b.keys), NEW keys, keys = SubSeq(b.keys, 1, n)
      PROVE  /\ Candidates(c, keys) # {}
             /\ \A d \in Candidates(c, keys) : d.keys = keys => n = Len(b.keys) /\ d = b
             /\ n = Len(b.keys) => b \in Candidates(c, keys)
 <2>1. keys \in Seq(Key) /\ Len(keys) = n /\ \A i \in 1..n : keys[i] = b.keys[i]
  BY <1>1, <1>6
 <2>2. IsPrefix(keys, b.keys)
  BY <1>1, <2>1, PrefixFacts
 <2>3. n = Len(b.keys) => keys = b.keys
  BY <1>1, <2>1
 <2>4. b \in Beginning(b.context, keys)
  BY <1>1, <2>2 DEF Beginning
 <2>5. \A d \in bound : d.keys = keys => IsPrefix(d.keys, b.keys)
  BY <2>2
 <2>6. ASSUME NEW d \in bound, d.keys = keys, d.context \in {c, "global"}, b.context = c => d.context = c
       PROVE  n = Len(b.keys) /\ d = b
  <3>1. d.context = b.context
   <4>1. CASE b.context = c
    BY <2>6, <4>1
   <4>2. CASE b.context = "global" /\ ~Shadowed(c, b)
    BY <2>5, <2>6, <4>2 DEF Shadowed
   <4> QED BY <1>3, <4>1, <4>2
  <3>2. d = b
   BY <1>4, <2>5, <2>6, <3>1
  <3> QED BY <2>1, <2>6, <3>2
 <2>7. CASE b.context = c
  <3>1. Candidates(c, keys) = Beginning(c, keys)
   BY <2>4, <2>7 DEF Candidates
  <3>2. \A d \in Beginning(c, keys) : d \in bound /\ d.context = c
   BY DEF Beginning
  <3> QED BY <2>4, <2>6, <2>7, <3>1, <3>2
 <2>8. CASE b.context = "global" /\ ~Shadowed(c, b)
  <3>1. Candidates(c, keys) # {}
   BY <2>4, <2>8 DEF Candidates
  <3>2. \A d \in Candidates(c, keys) : d \in bound /\ d.context \in {c, "global"}
   BY DEF Candidates, Beginning
  <3>3. n = Len(b.keys) => Beginning(c, keys) = {}
   BY <2>3, <2>8 DEF Beginning, Shadowed
  <3>4. n = Len(b.keys) => b \in Candidates(c, keys)
   BY <2>4, <2>8, <3>3 DEF Candidates
  <3> QED BY <2>6, <2>8, <3>1, <3>2, <3>4
 <2> QED BY <1>3, <2>7, <2>8
<1>7. ChordLeadsTo(c, b)
 BY <1>6 DEF ChordLeadsTo
<1> QED BY <1>5, <1>7

(* KeysHold, for any configurations and any keys: what runs is what was typed, as often as
   the number before it says; a chord that was begun can be ended in the keymap of now; the
   keys the help line shows run their action; and a reload that was asked for is under way
   (Keymap::feed, insert, hint, install_configuration). *)
THEOREM KeysDoAsTyped == KeysSpec => []KeysHold
<1>1. KeysInv => KeysHold
 BY HintsFollow DEF KeysInv, KeysShape, KeysHold
<1> QED BY <1>1, KeysAlways, PTL

\* The chord and the number that are pending, and the reload, keep their types.
THEOREM KeysTypeCorrect == KeysSpec => []KeysType
<1>1. KeysInv => KeysType
 BY DEF KeysInv, KeysShape, KeysType
<1> QED BY <1>1, KeysAlways, PTL
-------------------------------------------------------------------------------
(* The files of pasted pictures. *)

(* Who holds a picture that the user has, from when the draft takes it. *)
Keeper == {"draft", "queued", "written", "upload", "retry", "restored"}

IsHeld(p) == \E k \in Holder : k \in holders[p]
IsHeldAlone(p, k) == k \in holders[p] /\ \A h \in holders[p] : h = k
IsKept(p) ==
    \/ p \in stored
    \/ \E k \in Keeper : k \in holders[p]
    \/ worker.at = "restoring" /\ p \in referenced

AssetsShape ==
    /\ pictures \in Nat
    /\ holders \in [Picture -> SUBSET Holder]
    /\ retained \in [Picture -> BOOLEAN]
    /\ thread \in [picture : Nat, at : {"idle", "writing", "leased"}, worker : Nat]
    /\ worker \in [number : Nat, at : {"loading", "restoring", "sweeping", "told", "serving"}]

(* A thread is of the worker that serves, or of one that is gone. *)
ThreadHasItsTurn ==
    thread.at # "idle" =>
        /\ thread.picture \in Picture /\ thread.picture <= pictures
        /\ thread.worker <= worker.number
        /\ thread.worker = worker.number => worker.at = "serving"

(* What the user has is there, and no end of a lease removes it. *)
KeptExists(p) ==
    p \notin done /\ IsKept(p) => p \in files /\ (IsHeld(p) => retained[p])

(* A picture that is being prepared is held by nobody else, and there when it arrives. *)
FreshIsApart(p) ==
    /\ "thread" \in holders[p] => thread.at = "leased" /\ thread.picture = p
    /\ thread.at = "writing" /\ thread.picture = p => ~IsHeld(p) /\ ~IsKept(p)
    /\ thread.at = "leased" /\ thread.picture = p =>
          /\ IsHeldAlone(p, "thread") /\ ~IsKept(p)
          /\ thread.worker = worker.number => p \in files
    /\ "result" \in holders[p] =>
          /\ IsHeldAlone(p, "result") /\ ~IsKept(p)
          /\ p \in files /\ worker.at = "serving"

(* The sweep spares what is kept. *)
KeptIsSpared(p) ==
    /\ worker.at = "restoring" /\ p \in stored => p \in referenced \/ "written" \in holders[p]
    /\ worker.at = "sweeping" /\ IsKept(p) => p \in referenced

IsNumbered(p) == p \in files \cup stored \cup referenced \/ IsHeld(p) => p <= pictures

AssetIsSound(p) == KeptExists(p) /\ FreshIsApart(p) /\ KeptIsSpared(p) /\ IsNumbered(p)

AssetsInv == AssetsShape /\ ThreadHasItsTurn /\ \A p \in Picture : AssetIsSound(p)

LEMMA AssetsBegin == AssetsInit => AssetsInv
<1> SUFFICES ASSUME AssetsInit PROVE AssetsInv
 OBVIOUS
<1>1. AssetsShape /\ ThreadHasItsTurn
 BY DEF AssetsInit, AssetsShape, ThreadHasItsTurn, NoThread
<1>2. ASSUME NEW p \in Picture PROVE AssetIsSound(p)
 <2>1. /\ holders[p] = {} /\ stored = {} /\ referenced = {} /\ files = {}
       /\ thread.at = "idle" /\ worker.at = "loading"
  BY DEF AssetsInit, NoThread
 <2> QED BY <2>1 DEF AssetIsSound, KeptExists, FreshIsApart, KeptIsSpared, IsNumbered,
                     IsHeld, IsKept
<1> QED BY <1>1, <1>2 DEF AssetsInv

(* One holder's pictures change. *)
LEMMA OnlyHolds ==
  ASSUME AssetsShape, NEW h \in Holder, NEW S, Holds(Only(h, S))
  PROVE  /\ holders' \in [Picture -> SUBSET Holder]
         /\ \A p \in Picture : \A k :
              k \in holders'[p] <=> IF k = h THEN p \in S ELSE k \in holders[p]
<1> DEFINE c == Only(h, S)
<1>1. DOMAIN c = {h} /\ c[h] = S
 BY DEF Only
<1>2. holders' = [p \in Picture |-> (holders[p] \ DOMAIN c) \cup {k \in DOMAIN c : p \in c[k]}]
 BY DEF Holds
<1> HIDE DEF c
<1>3. \A p \in Picture : holders'[p] = (holders[p] \ {h}) \cup {k \in {h} : p \in c[k]}
 BY <1>1, <1>2
<1>4. \A p \in Picture : \A k : k \in holders'[p] <=> IF k = h THEN p \in S ELSE k \in holders[p]
 BY <1>1, <1>3
<1>5. \A p \in Picture : holders'[p] \subseteq Holder
 BY <1>4 DEF AssetsShape
<1> QED BY <1>2, <1>4, <1>5

(* A picture goes from one holder to another. *)
LEMMA MovedHolds ==
  ASSUME AssetsShape, NEW from \in Holder, NEW to \in Holder, from # to,
         NEW p \in Picture, Holds(Moved(p, from, to))
  PROVE  /\ holders' \in [Picture -> SUBSET Holder]
         /\ \A q \in Picture : \A k :
              k \in holders'[q] <=>
                  IF k = from THEN q # p /\ from \in holders[q]
                  ELSE IF k = to THEN q = p \/ to \in holders[q]
                  ELSE k \in holders[q]
<1> DEFINE c == Moved(p, from, to)
<1>1. /\ DOMAIN c = {from, to}
      /\ \A q \in Picture : q \in c[from] <=> q # p /\ from \in holders[q]
      /\ \A q \in Picture : q \in c[to] <=> q = p \/ to \in holders[q]
 BY DEF Moved, Has
<1>2. holders' = [q \in Picture |-> (holders[q] \ DOMAIN c) \cup {k \in DOMAIN c : q \in c[k]}]
 BY DEF Holds
<1> HIDE DEF c
<1>3. \A q \in Picture :
        holders'[q] = (holders[q] \ {from, to}) \cup {k \in {from, to} : q \in c[k]}
 BY <1>1, <1>2
<1>4. \A q \in Picture : \A k :
        k \in holders'[q] <=>
            IF k = from THEN q # p /\ from \in holders[q]
            ELSE IF k = to THEN q = p \/ to \in holders[q]
            ELSE k \in holders[q]
 BY <1>1, <1>3
<1>5. \A q \in Picture : holders'[q] \subseteq Holder
 BY <1>4 DEF AssetsShape
<1> QED BY <1>2, <1>4, <1>5

LEMMA DropFacts ==
  ASSUME AssetsShape, NEW p \in Drops
  PROVE  p \in Picture /\ IsHeld(p) /\ ~retained'[p] /\ \A k : k \notin holders'[p]
<1>1. p \in Picture /\ holders[p] # {} /\ holders'[p] = {} /\ ~retained'[p]
 BY DEF Drops, Leased
<1>2. PICK k \in holders[p] : TRUE
 BY <1>1
<1>3. k \in Holder
 BY <1>1 DEF AssetsShape
<1> QED BY <1>1, <1>2, <1>3 DEF IsHeld

(* The leases of some pictures change: those of the others stay as they are, *)
LEMMA SameLeases ==
  ASSUME AssetsInv, NEW p \in Picture, holders'[p] = holders[p], retained'[p] = retained[p],
         p \in stored' => p \in stored, p \in done => p \in done',
         files' = files \ Drops, UNCHANGED <<thread, referenced, pictures>>,
         \/ UNCHANGED worker
         \/ worker'.number = worker.number /\ worker.at = "told" /\ worker'.at = "serving"
  PROVE  AssetIsSound(p)'
<1>1. AssetIsSound(p) /\ AssetsShape
 BY DEF AssetsInv
<1>2. p \notin Drops
 BY <1>1, DropFacts DEF IsHeld
<1> QED BY <1>1, <1>2 DEF AssetIsSound, KeptExists, FreshIsApart, KeptIsSpared, IsNumbered,
        IsHeld, IsKept, IsHeldAlone

(* and one whose leases change is not being prepared, and is there with a lease that
   keeps it if the user has it. *)
LEMMA OtherLeases ==
  ASSUME AssetsInv, NEW p \in Picture, IsHeld(p), IsKept(p) \/ "result" \in holders[p],
         "thread" \notin holders'[p], "result" \notin holders'[p],
         IsKept(p)' /\ p \notin done' => p \in files /\ (IsHeld(p)' => retained'[p])
                                         /\ (IsHeld(p) => retained'[p]),
         worker.at = "restoring" /\ p \in stored'
            => p \in referenced \/ "written" \in holders'[p],
         worker.at = "sweeping" /\ IsKept(p)' => IsKept(p),
         files' = files \ Drops, UNCHANGED <<thread, referenced, pictures>>,
         \/ UNCHANGED worker
         \/ worker'.number = worker.number /\ worker.at = "told" /\ worker'.at = "serving"
  PROVE  AssetIsSound(p)'
<1>1. AssetIsSound(p) /\ AssetsShape
 BY DEF AssetsInv
<1>2. thread.at # "idle" => thread.picture # p
 <2>1. \A k \in Keeper : k # "thread" /\ k # "result"
  BY DEF Keeper
 <2>2. thread.at \in {"idle", "writing", "leased"}
  BY <1>1 DEF AssetsShape
 <2> QED BY <1>1, <2>1, <2>2 DEF AssetIsSound, FreshIsApart, IsHeldAlone, IsHeld
<1>3. IsKept(p)' /\ p \notin done' => p \notin Drops
 BY <1>1, DropFacts
<1>4. KeptExists(p)'
 BY <1>3 DEF KeptExists
<1>5. FreshIsApart(p)'
 BY <1>2 DEF FreshIsApart
<1>6. KeptIsSpared(p)' /\ IsNumbered(p)'
 <2>1. worker.at = "sweeping" /\ IsKept(p)' => p \in referenced'
  BY <1>1 DEF AssetIsSound, KeptIsSpared
 <2>2. p <= pictures
  BY <1>1 DEF AssetIsSound, IsNumbered
 <2> QED BY <2>1, <2>2 DEF KeptIsSpared, IsNumbered
<1> QED BY <1>4, <1>5, <1>6 DEF AssetIsSound

(* A picture that is sent or removed is let go by who has it. *)
LEMMA LetGo ==
  ASSUME AssetsInv, NEW t \in Picture, NEW h \in Keeper \ {"written"}, h \in holders[t],
         retained' = [retained EXCEPT ![t] = FALSE],
         Holds(Only(h, Has(h) \ {t})), done' = done \cup {t},
         files' = files \ Drops, UNCHANGED <<stored, thread, worker, referenced, pictures>>
  PROVE  AssetsInv'
<1>0. AssetsShape /\ ThreadHasItsTurn /\ \A p \in Picture : AssetIsSound(p)
 BY DEF AssetsInv
<1>k. h \in Holder /\ h # "thread" /\ h # "result" /\ h # "written"
 BY DEF Keeper, Holder
<1>1. /\ holders' \in [Picture -> SUBSET Holder]
      /\ \A q \in Picture : \A k :
            k \in holders'[q] <=> IF k = h THEN q \in Has(h) \ {t} ELSE k \in holders[q]
 BY <1>0, <1>k, OnlyHolds
<1>2. AssetsShape' /\ \A p \in Picture \ {t} : retained'[p] = retained[p]
 BY <1>0, <1>1 DEF AssetsShape
<1>3. AssetIsSound(t)'
 <2>1. IsKept(t) /\ IsHeld(t) /\ AssetIsSound(t)
  BY <1>0, <1>k DEF IsKept, IsHeld
 <2>2. "thread" \notin holders[t] /\ "result" \notin holders[t]
  BY <2>1, <1>0 DEF AssetIsSound, FreshIsApart
 <2>3. "thread" \notin holders'[t] /\ "result" \notin holders'[t]
       /\ ("written" \in holders[t] => "written" \in holders'[t])
  BY <1>k, <1>1, <2>2
 <2>4. worker.at = "restoring" /\ t \in stored' => t \in referenced \/ "written" \in holders'[t]
  BY <2>1, <2>3 DEF AssetIsSound, KeptIsSpared
 <2> QED BY <2>1, <2>3, <2>4, OtherLeases
<1>4. ASSUME NEW p \in Picture, p # t PROVE AssetIsSound(p)'
 <2>1. holders'[p] = holders[p]
  BY <1>1, <1>4 DEF Has
 <2> QED BY <1>2, <1>4, <2>1, SameLeases
<1> QED BY <1>0, <1>2, <1>3, <1>4 DEF AssetsInv, ThreadHasItsTurn

(* A picture that the user has is passed on. *)
LEMMA PassedOn ==
  ASSUME AssetsInv, NEW t \in Picture, NEW from \in Keeper \ {"written"},
         NEW to \in Keeper \ {from}, from \in holders[t], UNCHANGED <<retained, done>>,
         Holds(Moved(t, from, to)),
         files' = files \ Drops, UNCHANGED <<stored, thread, worker, referenced, pictures>>
  PROVE  AssetsInv'
<1>0. AssetsShape /\ ThreadHasItsTurn /\ \A p \in Picture : AssetIsSound(p)
 BY DEF AssetsInv
<1>k. from \in Holder /\ to \in Holder /\ from # to
      /\ {from, to} \cap {"thread", "result"} = {} /\ from # "written"
 BY DEF Keeper, Holder
<1>1. /\ holders' \in [Picture -> SUBSET Holder]
      /\ \A q \in Picture : \A k :
            k \in holders'[q] <=>
                IF k = from THEN q # t /\ from \in holders[q]
                ELSE IF k = to THEN q = t \/ to \in holders[q]
                ELSE k \in holders[q]
 BY <1>0, <1>k, MovedHolds
<1>2. AssetsShape'
 BY <1>0, <1>1 DEF AssetsShape
<1>3. AssetIsSound(t)'
 <2>1. IsKept(t) /\ IsHeld(t) /\ AssetIsSound(t)
  BY <1>0, <1>k DEF IsKept, IsHeld
 <2>2. "thread" \notin holders[t] /\ "result" \notin holders[t]
  BY <2>1, <1>0 DEF AssetIsSound, FreshIsApart
 <2>3. "thread" \notin holders'[t] /\ "result" \notin holders'[t]
       /\ ("written" \in holders[t] => "written" \in holders'[t])
  BY <1>k, <1>1, <2>2
 <2>4. worker.at = "restoring" /\ t \in stored' => t \in referenced \/ "written" \in holders'[t]
  BY <2>1, <2>3 DEF AssetIsSound, KeptIsSpared
 <2>5. t \notin done => t \in files /\ retained[t]
  BY <2>1 DEF AssetIsSound, KeptExists
 <2> QED BY <2>1, <2>3, <2>4, <2>5, OtherLeases
<1>4. ASSUME NEW p \in Picture, p # t PROVE AssetIsSound(p)'
 <2>1. holders'[p] = holders[p]
  BY <1>1, <1>4
 <2> QED BY <1>2, <1>4, <2>1, SameLeases
<1> QED BY <1>0, <1>2, <1>3, <1>4 DEF AssetsInv, ThreadHasItsTurn

LEMMA AssetsSteps == AssetsInv /\ [AssetsNext]_assetVars => AssetsInv'
<1> SUFFICES ASSUME AssetsInv, [AssetsNext]_assetVars PROVE AssetsInv'
 OBVIOUS
<1>0. AssetsShape /\ ThreadHasItsTurn /\ \A p \in Picture : AssetIsSound(p)
 BY DEF AssetsInv
<1>d. \A p \in Picture : p \in Drops =>
         IsHeld(p) /\ ~retained'[p] /\ \A k : k \notin holders'[p]
 BY <1>0, DropFacts
<1>k. Keeper \subseteq Holder /\ "thread" \notin Keeper /\ "result" \notin Keeper
      /\ "thread" \in Holder /\ "result" \in Holder
 BY DEF Keeper, Holder
<1>1. CASE UNCHANGED assetVars
 BY <1>0, <1>1 DEF assetVars, AssetsInv, AssetsShape, ThreadHasItsTurn, AssetIsSound,
      KeptExists, FreshIsApart, KeptIsSpared, IsNumbered, IsHeld, IsKept, IsHeldAlone
<1>2. CASE MakesFile
 <2>1. /\ thread.at = "idle" /\ worker.at = "serving" /\ pictures < MaxPictures
       /\ pictures' = pictures + 1 /\ files' = files \cup {pictures + 1}
       /\ thread' = [picture |-> pictures + 1, at |-> "writing", worker |-> worker.number]
       /\ UNCHANGED <<holders, retained, stored, worker, referenced, done>>
  BY <1>2 DEF MakesFile, NoThread
 <2>2. pictures \in Nat /\ worker.number \in Nat /\ pictures + 1 \in Picture
  BY <1>0, <2>1, AssetsAssumption DEF AssetsShape, Picture
 <2>3. AssetsShape'
  BY <1>0, <2>1, <2>2 DEF AssetsShape
 <2>4. ThreadHasItsTurn'
  BY <2>1, <2>2 DEF ThreadHasItsTurn
 <2>5. ASSUME NEW p \in Picture PROVE AssetIsSound(p)'
  <3>1. p \in Nat /\ (p <= pictures => p <= pictures' /\ p # pictures + 1)
   BY <2>1, <2>2, AssetsAssumption DEF Picture
  <3>2. AssetIsSound(p)
   BY <1>0
  <3>3. IsHeld(p)' <=> IsHeld(p)
   BY <2>1 DEF IsHeld
  <3>4. IsKept(p)' <=> IsKept(p)
   BY <2>1 DEF IsKept
  <3>5. IsHeld(p) \/ IsKept(p) => p <= pictures
   BY <3>2, <2>1, <1>k DEF AssetIsSound, IsNumbered, IsKept, IsHeld
  <3>6. KeptExists(p)' /\ KeptIsSpared(p)'
   BY <2>1, <3>2, <3>3, <3>4 DEF AssetIsSound, KeptExists, KeptIsSpared
  <3>7. IsNumbered(p)'
   <4>1. pictures + 1 <= pictures'
    BY <2>1, <2>2
   <4> QED BY <2>1, <3>1, <3>2, <3>3, <4>1 DEF AssetIsSound, IsNumbered
  <3>8. FreshIsApart(p)'
   <4>1. "thread" \notin holders[p]
    BY <2>1, <3>2 DEF AssetIsSound, FreshIsApart
   <4>2. thread'.at = "writing" /\ thread'.picture = pictures + 1
    BY <2>1
   <4>3. "result" \in holders[p] => /\ IsHeldAlone(p, "result") /\ ~IsKept(p) /\ p \in files'
                                    /\ worker.at = "serving"
    BY <2>1, <3>2 DEF AssetIsSound, FreshIsApart
   <4>4. IsHeldAlone(p, "result")' <=> IsHeldAlone(p, "result")
    BY <2>1 DEF IsHeldAlone
   <4>5. p = pictures + 1 => ~IsHeld(p) /\ ~IsKept(p)
    BY <3>1, <3>5
   <4> QED BY <2>1, <3>3, <3>4, <4>1, <4>2, <4>3, <4>4, <4>5 DEF FreshIsApart
  <3> QED BY <3>6, <3>7, <3>8 DEF AssetIsSound
 <2> QED BY <2>3, <2>4, <2>5 DEF AssetsInv
<1>3. CASE FinishAsset
 <2> DEFINE t == thread.picture
 <2>1. /\ thread.at = "writing" /\ t \in Picture /\ thread.worker <= worker.number
       /\ UNCHANGED <<stored, worker, referenced, pictures, done>>
  BY <1>0, <1>3 DEF FinishAsset, ThreadHasItsTurn
 <2>2. CASE /\ t \in files /\ thread' = [thread EXCEPT !.at = "leased"]
            /\ Holds(Only("thread", {t}))
            /\ retained' = [retained EXCEPT ![t] = FALSE]
            /\ UNCHANGED files
  <3>1. /\ holders' \in [Picture -> SUBSET Holder]
        /\ \A p \in Picture : \A k :
              k \in holders'[p] <=> IF k = "thread" THEN p \in {t} ELSE k \in holders[p]
   BY <1>0, <1>k, <2>2, OnlyHolds
  <3>2. /\ thread'.at = "leased" /\ thread'.picture = t /\ thread'.worker = thread.worker
        /\ thread' \in [picture : Nat, at : {"idle", "writing", "leased"}, worker : Nat]
   BY <1>0, <2>2 DEF AssetsShape
  <3>3. AssetsShape'
   BY <1>0, <2>1, <2>2, <3>1, <3>2 DEF AssetsShape
  <3>4. ThreadHasItsTurn'
   BY <1>0, <2>1, <3>2 DEF ThreadHasItsTurn
  <3>5. ASSUME NEW p \in Picture PROVE AssetIsSound(p)'
   <4>1. AssetIsSound(p) /\ retained'[p] = IF p = t THEN FALSE ELSE retained[p]
    BY <1>0, <2>2 DEF AssetsShape
   <4>2. CASE p = t
    <5>1. ~IsHeld(p) /\ ~IsKept(p)
     BY <2>1, <4>1, <4>2 DEF AssetIsSound, FreshIsApart
    <5>2. \A k : k \in holders'[p] <=> k = "thread"
     <6>1. \A k : k \notin holders[p]
      BY <1>0, <5>1 DEF IsHeld, AssetsShape
     <6> QED BY <3>1, <4>2, <6>1
    <5>3. IsHeldAlone(p, "thread")' /\ ~IsKept(p)' /\ p \in files'
     BY <2>1, <2>2, <4>2, <5>1, <5>2 DEF IsHeldAlone, IsKept, Keeper
    <5>4. FreshIsApart(p)'
     BY <3>2, <4>2, <5>2, <5>3 DEF FreshIsApart
    <5>5. p <= pictures'
     BY <1>0, <2>1, <4>2 DEF ThreadHasItsTurn
    <5> QED BY <2>1, <5>3, <5>4, <5>5 DEF AssetIsSound, KeptExists, KeptIsSpared, IsNumbered,
              IsKept
   <4>3. CASE p # t
    <5>1. "thread" \notin holders[p] /\ "thread" \notin holders'[p]
     BY <2>1, <3>1, <4>1, <4>3 DEF AssetIsSound, FreshIsApart
    <5>2. holders'[p] = holders[p]
     BY <3>1, <4>3, <5>1
    <5> QED BY <2>1, <2>2, <3>2, <4>1, <4>3, <5>1, <5>2 DEF AssetIsSound, KeptExists,
              FreshIsApart, KeptIsSpared, IsNumbered, IsHeld, IsKept, IsHeldAlone
   <4> QED BY <4>2, <4>3
  <3> QED BY <3>3, <3>4, <3>5 DEF AssetsInv
 <2>3. CASE /\ thread' = NoThread /\ files' = files \ {t}
            /\ UNCHANGED <<holders, retained>>
  <3>1. thread'.at = "idle" /\ AssetsShape'
   BY <1>0, <2>1, <2>3 DEF NoThread, AssetsShape
  <3>2. ThreadHasItsTurn'
   BY <3>1 DEF ThreadHasItsTurn
  <3>3. ASSUME NEW p \in Picture PROVE AssetIsSound(p)'
   <4>1. AssetIsSound(p)
    BY <1>0
   <4>2. p = t => ~IsKept(p) /\ ~IsHeld(p) /\ "result" \notin holders[p]
    BY <1>k, <2>1, <4>1 DEF AssetIsSound, FreshIsApart, IsHeld
   <4>3. "thread" \notin holders[p]
    BY <2>1, <4>1 DEF AssetIsSound, FreshIsApart
   <4>4. (IsHeld(p)' <=> IsHeld(p)) /\ (IsKept(p)' <=> IsKept(p))
         /\ (IsHeldAlone(p, "result")' <=> IsHeldAlone(p, "result"))
    BY <2>1, <2>3 DEF IsHeld, IsKept, IsHeldAlone
   <4>5. p \in files' <=> p \in files /\ p # t
    BY <2>3
   <4>6. KeptExists(p)' /\ KeptIsSpared(p)' /\ IsNumbered(p)'
    BY <2>1, <2>3, <4>1, <4>2, <4>4, <4>5 DEF AssetIsSound, KeptExists, KeptIsSpared,
      IsNumbered
   <4>7. FreshIsApart(p)'
    BY <2>1, <2>3, <3>1, <4>1, <4>2, <4>3, <4>4, <4>5 DEF AssetIsSound, FreshIsApart
   <4> QED BY <4>6, <4>7 DEF AssetIsSound
  <3> QED BY <3>1, <3>2, <3>3 DEF AssetsInv
 <2> QED BY <1>3, <2>2, <2>3 DEF FinishAsset
<1>4. CASE DeliverPicture
 <2> DEFINE t == thread.picture
 <2>1. /\ thread.at = "leased" /\ t \in Picture /\ thread' = NoThread /\ thread'.at = "idle"
       /\ files' = files \ Drops
       /\ UNCHANGED <<retained, stored, worker, referenced, pictures, done>>
  BY <1>0, <1>4 DEF DeliverPicture, ThreadHasItsTurn, NoThread
 <2>2. ThreadHasItsTurn'
  BY <2>1 DEF ThreadHasItsTurn
 <2>3. CASE thread.worker = worker.number
  <3>1. Holds(Moved(t, "thread", "result")) /\ worker.at = "serving"
   BY <1>0, <1>4, <2>1, <2>3 DEF DeliverPicture, ThreadHasItsTurn
  <3>2. /\ holders' \in [Picture -> SUBSET Holder]
        /\ \A p \in Picture : \A k :
              k \in holders'[p] <=>
                  IF k = "thread" THEN p # t /\ "thread" \in holders[p]
                  ELSE IF k = "result" THEN p = t \/ "result" \in holders[p]
                  ELSE k \in holders[p]
   BY <1>0, <1>k, <2>1, <3>1, MovedHolds
  <3>3. AssetsShape'
   BY <1>0, <2>1, <3>2 DEF AssetsShape, NoThread
  <3>4. ASSUME NEW p \in Picture PROVE AssetIsSound(p)'
   <4>1. AssetIsSound(p)
    BY <1>0
   <4>2. CASE p = t
    <5>1. IsHeldAlone(p, "thread") /\ ~IsKept(p) /\ p \in files /\ p <= pictures
     BY <1>0, <2>1, <2>3, <4>1, <4>2 DEF AssetIsSound, FreshIsApart, ThreadHasItsTurn
    <5>2. \A k : k \in holders'[p] <=> k = "result"
     BY <3>2, <4>2, <5>1 DEF IsHeldAlone
    <5>3. p \notin Drops
     BY <1>d, <5>2
    <5>4. IsHeldAlone(p, "result")' /\ ~IsKept(p)' /\ p \in files'
     BY <2>1, <5>1, <5>2, <5>3 DEF IsHeldAlone, IsKept, Keeper
    <5>5. FreshIsApart(p)'
     BY <2>1, <3>1, <5>2, <5>4 DEF FreshIsApart
    <5> QED BY <2>1, <5>1, <5>4, <5>5 DEF AssetIsSound, KeptExists, KeptIsSpared, IsNumbered,
              IsKept
   <4>3. CASE p # t
    <5>1. "thread" \notin holders[p]
     BY <2>1, <4>1, <4>3 DEF AssetIsSound, FreshIsApart
    <5>2. holders'[p] = holders[p]
     BY <3>2, <4>3, <5>1
    <5>3. p \notin Drops
     BY <1>d, <5>2 DEF IsHeld
    <5> QED BY <2>1, <4>1, <4>3, <5>1, <5>2, <5>3 DEF AssetIsSound, KeptExists,
              FreshIsApart, KeptIsSpared, IsNumbered, IsHeld, IsKept, IsHeldAlone
   <4> QED BY <4>2, <4>3
  <3> QED BY <2>2, <3>3, <3>4 DEF AssetsInv
 <2>4. CASE thread.worker # worker.number
  <3>1. Holds(Only("thread", {}))
   BY <1>4, <2>4 DEF DeliverPicture
  <3>2. /\ holders' \in [Picture -> SUBSET Holder]
        /\ \A p \in Picture : \A k :
              k \in holders'[p] <=> IF k = "thread" THEN p \in {} ELSE k \in holders[p]
   BY <1>0, <1>k, <3>1, OnlyHolds
  <3>3. AssetsShape'
   BY <1>0, <2>1, <3>2 DEF AssetsShape, NoThread
  <3>4. ASSUME NEW p \in Picture PROVE AssetIsSound(p)'
   <4>1. AssetIsSound(p)
    BY <1>0
   <4>2. CASE p = t
    <5>1. IsHeldAlone(p, "thread") /\ ~IsKept(p) /\ p <= pictures
     BY <1>0, <2>1, <4>1, <4>2 DEF AssetIsSound, FreshIsApart, ThreadHasItsTurn
    <5>2. \A k : k \notin holders'[p]
     BY <3>2, <4>2, <5>1 DEF IsHeldAlone
    <5>3. ~IsHeld(p)' /\ ~IsKept(p)'
     BY <2>1, <5>1, <5>2 DEF IsHeld, IsKept
    <5>4. FreshIsApart(p)'
     BY <2>1, <5>2 DEF FreshIsApart
    <5> QED BY <2>1, <5>1, <5>3, <5>4 DEF AssetIsSound, KeptExists, KeptIsSpared, IsNumbered,
              IsKept
   <4>3. CASE p # t
    <5>1. "thread" \notin holders[p]
     BY <2>1, <4>1, <4>3 DEF AssetIsSound, FreshIsApart
    <5>2. holders'[p] = holders[p]
     BY <3>2, <4>3, <5>1
    <5>3. p \notin Drops
     BY <1>d, <5>2 DEF IsHeld
    <5> QED BY <2>1, <4>1, <4>3, <5>1, <5>2, <5>3 DEF AssetIsSound, KeptExists,
              FreshIsApart, KeptIsSpared, IsNumbered, IsHeld, IsKept, IsHeldAlone
   <4> QED BY <4>2, <4>3
  <3> QED BY <2>2, <3>3, <3>4 DEF AssetsInv
 <2> QED BY <2>3, <2>4
<1>5. CASE TakePicture
 <2>1. PICK t \in Picture :
         /\ "result" \in holders[t]
         /\ \/ /\ retained' = [retained EXCEPT ![t] = TRUE]
               /\ Holds(Moved(t, "result", "draft"))
            \/ /\ Holds(Only("result", Has("result") \ {t}))
               /\ UNCHANGED retained
  BY <1>5 DEF TakePicture, Has
 <2>2. /\ files' = files \ Drops
       /\ UNCHANGED <<stored, thread, worker, referenced, pictures, done>>
  BY <1>5 DEF TakePicture
 <2>3. AssetIsSound(t) /\ IsHeldAlone(t, "result") /\ ~IsKept(t) /\ t \in files
       /\ worker.at = "serving" /\ IsHeld(t)
  BY <1>0, <1>k, <2>1 DEF AssetIsSound, FreshIsApart, IsHeld
 <2>4. CASE /\ retained' = [retained EXCEPT ![t] = TRUE]
            /\ Holds(Moved(t, "result", "draft"))
  <3>1. /\ holders' \in [Picture -> SUBSET Holder]
        /\ \A q \in Picture : \A k :
              k \in holders'[q] <=>
                  IF k = "result" THEN q # t /\ "result" \in holders[q]
                  ELSE IF k = "draft" THEN q = t \/ "draft" \in holders[q]
                  ELSE k \in holders[q]
   <4>1. "draft" \in Holder
    BY DEF Holder
   <4> QED BY <1>0, <1>k, <2>4, <4>1, MovedHolds
  <3>2. AssetsShape' /\ retained'[t] = TRUE /\ \A p \in Picture \ {t} : retained'[p] = retained[p]
   BY <1>0, <2>2, <2>4, <3>1 DEF AssetsShape
  <3>3. AssetIsSound(t)'
   <4>1. "thread" \notin holders'[t] /\ "result" \notin holders'[t]
    BY <2>3, <3>1 DEF IsHeldAlone
   <4> QED BY <2>1, <2>2, <2>3, <3>2, <4>1, OtherLeases DEF IsKept
  <3>4. ASSUME NEW p \in Picture, p # t PROVE AssetIsSound(p)'
   <4>1. holders'[p] = holders[p]
    BY <3>1, <3>4
   <4> QED BY <2>2, <3>2, <3>4, <4>1, SameLeases
  <3> QED BY <1>0, <2>2, <3>2, <3>3, <3>4 DEF AssetsInv, ThreadHasItsTurn
 <2>5. CASE /\ Holds(Only("result", Has("result") \ {t}))
            /\ UNCHANGED retained
  <3>1. /\ holders' \in [Picture -> SUBSET Holder]
        /\ \A q \in Picture : \A k :
              k \in holders'[q] <=>
                  IF k = "result" THEN q \in Has("result") \ {t} ELSE k \in holders[q]
   BY <1>0, <1>k, <2>5, OnlyHolds
  <3>2. AssetsShape'
   BY <1>0, <2>2, <2>5, <3>1 DEF AssetsShape
  <3>3. AssetIsSound(t)'
   <4>1. \A k : k \notin holders'[t]
    BY <2>3, <3>1 DEF IsHeldAlone
   <4>2. ~IsKept(t)'
    BY <2>2, <2>3, <4>1 DEF IsKept
   <4> QED BY <2>1, <2>2, <2>3, <3>2, <4>1, <4>2, OtherLeases
  <3>4. ASSUME NEW p \in Picture, p # t PROVE AssetIsSound(p)'
   <4>1. holders'[p] = holders[p]
    BY <3>1, <3>4 DEF Has
   <4> QED BY <2>2, <2>5, <3>2, <3>4, <4>1, SameLeases
  <3> QED BY <1>0, <2>2, <3>2, <3>3, <3>4 DEF AssetsInv, ThreadHasItsTurn
 <2> QED BY <2>1, <2>4, <2>5
<1>6. CASE RemovePicture
 <2>1. PICK t \in Picture :
         /\ "draft" \in holders[t]
         /\ retained' = [retained EXCEPT ![t] = FALSE]
         /\ Holds(Only("draft", Has("draft") \ {t}))
         /\ done' = done \cup {t}
  BY <1>6 DEF RemovePicture, Has
 <2>2. /\ files' = files \ Drops
       /\ UNCHANGED <<stored, thread, worker, referenced, pictures>>
  BY <1>6 DEF RemovePicture
 <2> QED BY <1>0, <2>1, <2>2, LetGo DEF Keeper
<1>7. CASE SendPicture
 <2>1. PICK t \in Picture, from \in {"draft", "retry"} :
         from \in holders[t] /\ Holds(Moved(t, from, "upload"))
  BY <1>7 DEF SendPicture, Has
 <2>2. /\ files' = files \ Drops
       /\ UNCHANGED <<stored, retained, thread, worker, referenced, pictures, done>>
  BY <1>7 DEF SendPicture
 <2>3. from \in Keeper \ {"written"} /\ "upload" \in Keeper \ {from}
  BY DEF Keeper
 <2> QED BY <2>1, <2>2, <2>3, PassedOn
<1>8. CASE UploadPicture
 <2>1. PICK t \in Picture :
         /\ "upload" \in holders[t]
         /\ \/ /\ retained' = [retained EXCEPT ![t] = FALSE]
               /\ Holds(Only("upload", Has("upload") \ {t}))
               /\ done' = done \cup {t}
            \/ /\ Holds(Moved(t, "upload", "retry"))
               /\ UNCHANGED <<retained, done>>
  BY <1>8 DEF UploadPicture, Has
 <2>2. /\ files' = files \ Drops
       /\ UNCHANGED <<stored, thread, worker, referenced, pictures>>
  BY <1>8 DEF UploadPicture
 <2>3. "upload" \in Keeper \ {"written"} /\ "retry" \in Keeper \ {"upload"}
  BY DEF Keeper
 <2>4. CASE Holds(Moved(t, "upload", "retry")) /\ UNCHANGED <<retained, done>>
  BY <2>1, <2>2, <2>3, <2>4, PassedOn
 <2>5. CASE /\ retained' = [retained EXCEPT ![t] = FALSE]
            /\ Holds(Only("upload", Has("upload") \ {t}))
            /\ done' = done \cup {t}
  BY <2>1, <2>2, <2>3, <2>5, LetGo
 <2> QED BY <2>1, <2>4, <2>5
<1>9. CASE ReconcilePicture
 <2>1. PICK t \in Picture :
         /\ "retry" \in holders[t]
         /\ retained' = [retained EXCEPT ![t] = FALSE]
         /\ Holds(Only("retry", Has("retry") \ {t}))
         /\ done' = done \cup {t}
  BY <1>9 DEF ReconcilePicture, Has
 <2>2. /\ files' = files \ Drops
       /\ UNCHANGED <<stored, thread, worker, referenced, pictures>>
  BY <1>9 DEF ReconcilePicture
 <2> QED BY <1>0, <2>1, <2>2, LetGo DEF Keeper
<1>10. CASE QueueDraft
 <2>1. /\ Holds(Only("queued", Has("draft"))) /\ files' = files \ Drops
       /\ UNCHANGED <<retained, stored, thread, worker, referenced, pictures, done>>
  BY <1>10 DEF QueueDraft
 <2>2. /\ holders' \in [Picture -> SUBSET Holder]
       /\ \A p \in Picture : \A k :
             k \in holders'[p] <=> IF k = "queued" THEN p \in Has("draft") ELSE k \in holders[p]
  <3>1. "queued" \in Holder
   BY DEF Holder
  <3> QED BY <1>0, <2>1, <3>1, OnlyHolds
 <2>3. AssetsShape'
  BY <1>0, <2>1, <2>2 DEF AssetsShape
 <2>4. ASSUME NEW p \in Picture PROVE AssetIsSound(p)'
  <3>1. AssetIsSound(p)
   BY <1>0
  <3>2. CASE "queued" \in holders[p] \/ "draft" \in holders[p]
   <4>1. IsKept(p) /\ IsHeld(p)
    BY <3>2 DEF IsKept, IsHeld, Keeper, Holder
   <4>2. "thread" \notin holders[p] /\ "result" \notin holders[p]
    BY <3>1, <4>1 DEF AssetIsSound, FreshIsApart
   <4>3. "thread" \notin holders'[p] /\ "result" \notin holders'[p]
         /\ ("written" \in holders[p] => "written" \in holders'[p])
    BY <2>2, <4>2
   <4>4. worker.at = "restoring" /\ p \in stored'
           => p \in referenced \/ "written" \in holders'[p]
    BY <2>1, <3>1, <4>3 DEF AssetIsSound, KeptIsSpared
   <4>5. p \notin done => p \in files /\ retained[p]
    BY <3>1, <4>1 DEF AssetIsSound, KeptExists
   <4> QED BY <2>1, <4>1, <4>3, <4>4, <4>5, OtherLeases
  <3>3. CASE ~("queued" \in holders[p] \/ "draft" \in holders[p])
   <4>1. holders'[p] = holders[p]
    BY <2>2, <3>3 DEF Has
   <4> QED BY <2>1, <4>1, SameLeases
  <3> QED BY <3>2, <3>3
 <2> QED BY <1>0, <2>1, <2>3, <2>4 DEF AssetsInv, ThreadHasItsTurn
<1>11. CASE SaveDraft
 <2>1. /\ Holds(Only("written", Has("queued"))) /\ files' = files \ Drops
       /\ stored' = Has("queued")
       /\ UNCHANGED <<retained, thread, worker, referenced, pictures, done>>
  BY <1>11 DEF SaveDraft
 <2>2. /\ holders' \in [Picture -> SUBSET Holder]
       /\ \A p \in Picture : \A k :
             k \in holders'[p] <=> IF k = "written" THEN p \in Has("queued") ELSE k \in holders[p]
  <3>1. "written" \in Holder
   BY DEF Holder
  <3> QED BY <1>0, <2>1, <3>1, OnlyHolds
 <2>3. AssetsShape'
  BY <1>0, <2>1, <2>2 DEF AssetsShape
 <2>4. ASSUME NEW p \in Picture PROVE AssetIsSound(p)'
  <3>1. AssetIsSound(p)
   BY <1>0
  <3>2. CASE "queued" \in holders[p] \/ "written" \in holders[p]
   <4>1. IsKept(p) /\ IsHeld(p)
    BY <3>2 DEF IsKept, IsHeld, Keeper, Holder
   <4>2. "thread" \notin holders[p] /\ "result" \notin holders[p]
    BY <3>1, <4>1 DEF AssetIsSound, FreshIsApart
   <4>3. "thread" \notin holders'[p] /\ "result" \notin holders'[p]
    BY <2>2, <4>2
   <4>4. p \in stored' => "written" \in holders'[p]
    BY <2>1, <2>2 DEF Has
   <4>5. p \notin done => p \in files /\ retained[p]
    BY <3>1, <4>1 DEF AssetIsSound, KeptExists
   <4> QED BY <2>1, <4>1, <4>3, <4>4, <4>5, OtherLeases
  <3>3. CASE ~("queued" \in holders[p] \/ "written" \in holders[p])
   <4>1. holders'[p] = holders[p] /\ p \notin stored'
    BY <2>1, <2>2, <3>3 DEF Has
   <4> QED BY <2>1, <4>1, SameLeases
  <3> QED BY <3>2, <3>3
 <2> QED BY <1>0, <2>1, <2>3, <2>4 DEF AssetsInv, ThreadHasItsTurn
<1>12. CASE LoadDrafts
 <2>1. /\ worker.at = "loading" /\ worker' = [worker EXCEPT !.at = "restoring"]
       /\ referenced' = stored
       /\ UNCHANGED <<files, holders, retained, stored, thread, pictures, done>>
  BY <1>12 DEF LoadDrafts
 <2>2. worker'.at = "restoring" /\ worker'.number = worker.number /\ AssetsShape'
  BY <1>0, <2>1 DEF AssetsShape
 <2>3. ThreadHasItsTurn'
  BY <1>0, <2>1, <2>2 DEF ThreadHasItsTurn
 <2>4. ASSUME NEW p \in Picture PROVE AssetIsSound(p)'
  <3>1. AssetIsSound(p)
   BY <1>0
  <3> QED BY <1>0, <2>1, <2>2, <3>1 DEF AssetIsSound, KeptExists, FreshIsApart, KeptIsSpared,
            IsNumbered, IsHeld, IsKept, IsHeldAlone, ThreadHasItsTurn
 <2> QED BY <2>2, <2>3, <2>4 DEF AssetsInv
<1>13. CASE RestoreLeases
 <2>1. /\ worker.at = "restoring" /\ worker' = [worker EXCEPT !.at = "sweeping"]
       /\ referenced' = referenced \cup Leased
       /\ retained' = [p \in Picture |-> IF p \in referenced \ Leased THEN TRUE ELSE retained[p]]
       /\ Holds(Only("restored", referenced))
       /\ UNCHANGED <<files, stored, thread, pictures, done>>
  BY <1>13 DEF RestoreLeases
 <2>2. /\ holders' \in [Picture -> SUBSET Holder]
       /\ \A p \in Picture : \A k :
             k \in holders'[p] <=> IF k = "restored" THEN p \in referenced ELSE k \in holders[p]
  <3>1. "restored" \in Holder
   BY DEF Holder
  <3> QED BY <1>0, <2>1, <3>1, OnlyHolds
 <2>3. worker'.at = "sweeping" /\ worker'.number = worker.number /\ AssetsShape'
  <3>1. retained' \in [Picture -> BOOLEAN]
   BY <1>0, <2>1 DEF AssetsShape
  <3> QED BY <1>0, <2>1, <2>2, <3>1 DEF AssetsShape
 <2>4. ThreadHasItsTurn'
  BY <1>0, <2>1, <2>3 DEF ThreadHasItsTurn
 <2>5. ASSUME NEW p \in Picture PROVE AssetIsSound(p)'
  <3>1. AssetIsSound(p) /\ (p \in Leased <=> IsHeld(p))
   BY <1>0 DEF Leased, IsHeld, AssetsShape
  <3>2. retained'[p] = IF p \in referenced /\ ~IsHeld(p) THEN TRUE ELSE retained[p]
   BY <2>1, <3>1
  <3>3. IsKept(p)' => IsKept(p) /\ p \in referenced'
   <4>1. IsKept(p)' => IsKept(p)
    BY <2>1, <2>2, <2>3 DEF IsKept
   <4>2. IsKept(p) => p \in referenced \/ IsHeld(p)
    BY <1>k, <2>1, <3>1 DEF IsKept, AssetIsSound, KeptIsSpared, IsHeld, Holder
   <4> QED BY <2>1, <3>1, <4>1, <4>2
  <3>4. IsHeld(p)' => IsHeld(p) \/ p \in referenced
   BY <2>2 DEF IsHeld
  <3>5. p \in referenced => IsKept(p)
   BY <2>1 DEF IsKept
  <3>6. KeptExists(p)'
   BY <2>1, <3>1, <3>2, <3>3, <3>4 DEF AssetIsSound, KeptExists
  <3>7. KeptIsSpared(p)'
   BY <2>3, <3>3 DEF KeptIsSpared
  <3>8. IsNumbered(p)'
   BY <2>1, <3>1, <3>4 DEF AssetIsSound, IsNumbered
  <3>9. FreshIsApart(p)'
   <4>1. p \in referenced => p \in Picture /\ (thread.at # "idle" => thread.picture # p)
                            /\ "result" \notin holders[p] /\ "thread" \notin holders[p]
    BY <1>0, <3>1, <3>5 DEF AssetIsSound, FreshIsApart, AssetsShape
   <4>2. CASE p \in referenced
    BY <2>1, <2>2, <4>1, <4>2 DEF FreshIsApart
   <4>3. CASE p \notin referenced
    <5>1. "result" \notin holders[p]
     BY <2>1, <3>1 DEF AssetIsSound, FreshIsApart
    <5>2. ~IsKept(p) => ~IsKept(p)' /\ "restored" \notin holders[p]
     BY <3>3 DEF IsKept, Keeper
    <5>3. ~IsKept(p) => holders'[p] = holders[p]
     BY <2>2, <4>3, <5>2
    <5>4. IsKept(p) => "thread" \notin holders'[p] /\ (thread.at # "idle" => thread.picture # p)
     BY <1>0, <2>2, <3>1 DEF AssetIsSound, FreshIsApart, AssetsShape
    <5>5. "result" \notin holders'[p]
     BY <2>2, <5>1
    <5>6. CASE IsKept(p)
     BY <2>1, <5>4, <5>5, <5>6 DEF FreshIsApart
    <5>7. CASE ~IsKept(p)
     BY <2>1, <2>3, <3>1, <5>2, <5>3, <5>5, <5>7 DEF AssetIsSound, FreshIsApart, IsHeld,
        IsHeldAlone
    <5> QED BY <5>6, <5>7
   <4> QED BY <4>2, <4>3
  <3> QED BY <3>6, <3>7, <3>8, <3>9 DEF AssetIsSound
 <2> QED BY <2>3, <2>4, <2>5 DEF AssetsInv
<1>14. CASE SweepFiles
 <2>1. /\ worker.at = "sweeping" /\ worker' = [worker EXCEPT !.at = "told"]
       /\ files' = files \cap referenced /\ referenced' = {}
       /\ UNCHANGED <<holders, retained, stored, thread, pictures, done>>
  BY <1>14 DEF SweepFiles
 <2>2. worker'.at = "told" /\ worker'.number = worker.number /\ AssetsShape'
  BY <1>0, <2>1 DEF AssetsShape
 <2>3. ThreadHasItsTurn'
  BY <1>0, <2>1, <2>2 DEF ThreadHasItsTurn
 <2>4. ASSUME NEW p \in Picture PROVE AssetIsSound(p)'
  <3>1. AssetIsSound(p)
   BY <1>0
  <3>2. IsKept(p)' => IsKept(p) /\ p \in referenced
   BY <2>1, <2>2, <3>1 DEF IsKept, AssetIsSound, KeptIsSpared
  <3>3. (IsHeld(p)' <=> IsHeld(p)) /\ (IsHeldAlone(p, "thread")' <=> IsHeldAlone(p, "thread"))
   BY <2>1 DEF IsHeld, IsHeldAlone
  <3>4. KeptExists(p)' /\ KeptIsSpared(p)' /\ IsNumbered(p)'
   BY <2>1, <2>2, <3>1, <3>2, <3>3 DEF AssetIsSound, KeptExists, KeptIsSpared, IsNumbered
  <3>5. "result" \notin holders[p]
   BY <2>1, <3>1 DEF AssetIsSound, FreshIsApart
  <3>6. FreshIsApart(p)'
   BY <1>0, <2>1, <2>2, <3>1, <3>2, <3>3, <3>5 DEF AssetIsSound, FreshIsApart, ThreadHasItsTurn
  <3> QED BY <3>4, <3>6 DEF AssetIsSound
 <2> QED BY <2>2, <2>3, <2>4 DEF AssetsInv
<1>15. CASE TakeDrafts
 <2> DEFINE c == [h \in {"restored", "draft"} |->
               IF h = "draft" /\ ~draftLoaded THEN Has("restored")
               ELSE IF h = "draft" THEN Has("draft") ELSE {}]
 <2>1. /\ worker.at = "told" /\ worker' = [worker EXCEPT !.at = "serving"]
       /\ Holds(c) /\ files' = files \ Drops
       /\ UNCHANGED <<retained, stored, thread, referenced, pictures, done>>
  BY <1>15 DEF TakeDrafts
 <2>2. worker'.at = "serving" /\ worker'.number = worker.number
       /\ worker' \in [number : Nat, at : {"loading", "restoring", "sweeping", "told", "serving"}]
  BY <1>0, <2>1 DEF AssetsShape
 <2>3. \A p \in Picture : \A k :
          k \in holders'[p] <=>
              IF k = "restored" THEN FALSE
              ELSE IF k = "draft" THEN (IF draftLoaded THEN "draft" ELSE "restored") \in holders[p]
              ELSE k \in holders[p]
  <3>1. /\ DOMAIN c = {"restored", "draft"} /\ c["restored"] = {}
        /\ \A p \in Picture : p \in c["draft"] <=>
              (IF draftLoaded THEN "draft" ELSE "restored") \in holders[p]
   BY DEF Has
  <3> HIDE DEF c
  <3>2. \A p \in Picture :
          holders'[p] = (holders[p] \ DOMAIN c) \cup {k \in DOMAIN c : p \in c[k]}
   BY <2>1 DEF Holds
  <3> QED BY <3>1, <3>2
 <2>4. holders' \in [Picture -> SUBSET Holder]
  <3>1. \A p \in Picture : holders'[p] \subseteq Holder
   BY <1>0, <2>3 DEF AssetsShape, Holder
  <3>2. holders' = [p \in Picture |-> holders'[p]]
   BY <2>1 DEF Holds
  <3> QED BY <3>1, <3>2
 <2>5. AssetsShape'
  BY <1>0, <2>1, <2>2, <2>4 DEF AssetsShape
 <2>6. ThreadHasItsTurn'
  BY <1>0, <2>1, <2>2 DEF ThreadHasItsTurn
 <2>7. ASSUME NEW p \in Picture PROVE AssetIsSound(p)'
  <3>1. AssetIsSound(p)
   BY <1>0
  <3>2. CASE "restored" \in holders[p] \/ "draft" \in holders[p]
   <4>1. IsKept(p) /\ IsHeld(p)
    BY <3>2 DEF IsKept, IsHeld, Keeper, Holder
   <4>2. "thread" \notin holders[p] /\ "result" \notin holders[p]
    BY <3>1, <4>1 DEF AssetIsSound, FreshIsApart
   <4>3. "thread" \notin holders'[p] /\ "result" \notin holders'[p]
    BY <2>3, <4>2
   <4>4. p \notin done => p \in files /\ retained[p]
    BY <3>1, <4>1 DEF AssetIsSound, KeptExists
   <4> QED BY <2>1, <2>2, <4>1, <4>3, <4>4, OtherLeases
  <3>3. CASE ~("restored" \in holders[p] \/ "draft" \in holders[p])
   <4>1. holders'[p] = holders[p]
    BY <2>3, <3>3
   <4> QED BY <2>1, <2>2, <4>1, SameLeases
  <3> QED BY <3>2, <3>3
 <2> QED BY <2>5, <2>6, <2>7 DEF AssetsInv
<1>16. CASE SwitchDrafts
 <2> DEFINE released == {"result", "upload", "retry", "restored"}
            c == [h \in {"result", "upload", "retry", "restored"} |-> {}]
 <2>1. /\ worker' = [number |-> worker.number + 1, at |-> "loading"]
       /\ Holds(c) /\ files' = files \ Drops /\ referenced' = {}
       /\ UNCHANGED <<retained, stored, thread, pictures, done>>
  BY <1>16 DEF SwitchDrafts
 <2>2. worker'.at = "loading" /\ worker'.number = worker.number + 1
       /\ worker' \in [number : Nat, at : {"loading", "restoring", "sweeping", "told", "serving"}]
  BY <1>0, <2>1 DEF AssetsShape
 <2>3. \A p \in Picture : \A k : k \in holders'[p] <=> k \notin released /\ k \in holders[p]
  <3>1. DOMAIN c = released /\ \A h \in released : c[h] = {}
   OBVIOUS
  <3>2. \A p \in Picture :
          holders'[p] = (holders[p] \ DOMAIN c) \cup {k \in DOMAIN c : p \in c[k]}
   BY <2>1 DEF Holds
  <3> HIDE DEF c, released
  <3> QED BY <3>1, <3>2
 <2>4. holders' \in [Picture -> SUBSET Holder]
  <3>1. \A p \in Picture : holders'[p] \subseteq Holder
   BY <1>0, <2>3 DEF AssetsShape
  <3>2. holders' = [p \in Picture |-> holders'[p]]
   BY <2>1 DEF Holds
  <3> QED BY <3>1, <3>2
 <2>5. AssetsShape'
  BY <1>0, <2>1, <2>2, <2>4 DEF AssetsShape
 <2>6. thread.at # "idle" => thread.worker <= worker'.number /\ thread.worker # worker'.number
  BY <1>0, <2>2 DEF ThreadHasItsTurn, AssetsShape
 <2>7. ThreadHasItsTurn'
  BY <1>0, <2>1, <2>6 DEF ThreadHasItsTurn
 <2>8. ASSUME NEW p \in Picture PROVE AssetIsSound(p)'
  <3>1. AssetIsSound(p)
   BY <1>0
  <3>2. (IsHeld(p)' => IsHeld(p)) /\ (IsKept(p)' => IsKept(p))
   BY <2>1, <2>2, <2>3 DEF IsHeld, IsKept
  <3>3. KeptExists(p)'
   BY <1>d, <2>1, <3>1, <3>2 DEF AssetIsSound, KeptExists
  <3>4. KeptIsSpared(p)' /\ IsNumbered(p)'
   BY <2>1, <2>2, <3>1, <3>2 DEF AssetIsSound, KeptIsSpared, IsNumbered
  <3>5. FreshIsApart(p)'
   <4>1. "result" \notin holders'[p] /\ ("thread" \in holders'[p] <=> "thread" \in holders[p])
    BY <2>3
   <4>2. IsHeldAlone(p, "thread") => IsHeldAlone(p, "thread")'
    BY <2>3 DEF IsHeldAlone
   <4> QED BY <2>1, <2>6, <3>1, <3>2, <4>1, <4>2 DEF AssetIsSound, FreshIsApart
  <3> QED BY <3>3, <3>4, <3>5 DEF AssetIsSound
 <2> QED BY <2>5, <2>7, <2>8 DEF AssetsInv
<1>17. ASSUME StartsAgain, UNCHANGED <<retained, pictures, done>>,
              files' \in {files, files \ Drops},
              \A p \in Picture : p \in stored' => IsKept(p)
       PROVE  AssetsInv'
 <2>1. /\ worker' = [number |-> worker.number + 1, at |-> "loading"]
       /\ holders' = [p \in Picture |-> {}] /\ thread'.at = "idle" /\ referenced' = {}
       /\ thread' = [picture |-> 0, at |-> "idle", worker |-> 0]
  BY <1>17 DEF StartsAgain, NoThread
 <2>2. worker'.at = "loading" /\ AssetsShape'
  BY <1>0, <1>17, <2>1 DEF AssetsShape
 <2>3. ThreadHasItsTurn'
  BY <2>1 DEF ThreadHasItsTurn
 <2>4. ASSUME NEW p \in Picture PROVE AssetIsSound(p)'
  <3>1. AssetIsSound(p) /\ (IsHeld(p) \/ p \notin Drops)
   BY <1>0, <1>d
  <3>2. ~IsHeld(p)' /\ (IsKept(p)' => IsKept(p)) /\ "thread" \notin holders'[p]
        /\ "result" \notin holders'[p]
   BY <1>17, <2>1, <2>2 DEF IsHeld, IsKept
  <3>3. KeptExists(p)'
   BY <1>17, <1>d, <3>1, <3>2 DEF AssetIsSound, KeptExists
  <3>4. FreshIsApart(p)' /\ KeptIsSpared(p)'
   BY <2>1, <2>2, <3>2 DEF FreshIsApart, KeptIsSpared
  <3>5. IsNumbered(p)'
   <4>1. p \in stored' => IsHeld(p) \/ p \in stored \/ p \in referenced
    BY <1>k, <1>17 DEF IsKept, IsHeld
   <4> QED BY <1>17, <2>1, <3>1, <3>2, <4>1 DEF AssetIsSound, IsNumbered
  <3> QED BY <3>3, <3>4, <3>5 DEF AssetIsSound
 <2> QED BY <2>2, <2>3, <2>4 DEF AssetsInv
<1>18. CASE QuitDrafts
 <2>1. \A p \in Picture : p \in stored' => IsKept(p)
  BY <1>18 DEF QuitDrafts, IsKept, Has, Keeper
 <2> QED BY <1>17, <1>18, <2>1 DEF QuitDrafts
<1>19. CASE CrashDrafts
 BY <1>17, <1>19 DEF CrashDrafts, IsKept
<1> QED BY <1>1, <1>2, <1>3, <1>4, <1>5, <1>6, <1>7, <1>8, <1>9, <1>10, <1>11, <1>12, <1>13,
<1>14, <1>15, <1>16, <1>18, <1>19 DEF AssetsNext

(* PicturesExist, for any number of pictures, switches, ends and crashes: a picture that
   the user has neither removed nor sent is there for the draft, the upload, the retry
   and the database (staging.rs: restore spares what is live, drop removes what is not
   retained). *)
THEOREM PastedPicturesExist == AssetsSpec => []PicturesExist
<1>1. AssetsInit => AssetsInv
 BY AssetsBegin
<1>2. AssetsInv /\ [AssetsNext]_assetVars => AssetsInv'
 BY AssetsSteps
<1>3. AssetsInv => PicturesExist
 <2> SUFFICES ASSUME AssetsInv, NEW p \in Picture \ done,
                     p \in stored \/ holders[p] \cap {"draft", "upload", "retry"} # {}
              PROVE  p \in files
  BY DEF PicturesExist
 <2>1. KeptExists(p)
  BY DEF AssetsInv, AssetIsSound
 <2>2. IsKept(p)
  BY DEF IsKept, Keeper
 <2> QED BY <2>1, <2>2 DEF KeptExists
<1> QED BY <1>1, <1>2, <1>3, PTL DEF AssetsSpec

(* The bounds that the type names besides. *)
AssetsBounds ==
    /\ files \cup stored \cup referenced \subseteq Picture
    /\ pictures \in 0 .. MaxPictures /\ done \subseteq 1 .. pictures
    /\ ends \in 0 .. MaxEnds /\ worker.number = ends + 1
    /\ draftLoaded \in BOOLEAN /\ unsaved \in BOOLEAN /\ unseenDraft \in BOOLEAN

LEMMA AssetsBoundsBegin == AssetsInit => AssetsBounds
<1> SUFFICES ASSUME AssetsInit PROVE AssetsBounds
 OBVIOUS
<1>1. 0 \in 0 .. MaxPictures /\ 0 \in 0 .. MaxEnds
 BY AssetsAssumption
<1>2. worker.number = 1 /\ ends = 0
 BY DEF AssetsInit
<1>3. files = {} /\ stored = {} /\ referenced = {} /\ done = {} /\ pictures = 0
 BY DEF AssetsInit
<1>4. draftLoaded \in BOOLEAN /\ unsaved \in BOOLEAN /\ unseenDraft \in BOOLEAN
 BY DEF AssetsInit
<1> QED BY <1>1, <1>2, <1>3, <1>4 DEF AssetsBounds

\* A picture that somebody holds has a number that was given.
LEMMA HeldIsNumbered ==
  ASSUME AssetsInv, NEW h \in Holder, NEW p \in Has(h)
  PROVE  p \in 1 .. pictures
<1>1. p \in Picture /\ IsHeld(p)
 BY DEF Has, IsHeld
<1>2. p <= pictures
 BY <1>1 DEF AssetsInv, AssetIsSound, IsNumbered
<1> QED BY <1>1, <1>2 DEF AssetsInv, AssetsShape, Picture

LEMMA AssetsBoundsKept == AssetsInv /\ AssetsBounds /\ [AssetsNext]_assetVars => AssetsBounds'
<1> SUFFICES ASSUME AssetsInv, AssetsBounds, [AssetsNext]_assetVars PROVE AssetsBounds'
 OBVIOUS
<1>0. /\ MaxPictures \in Nat /\ MaxEnds \in Nat /\ Picture = 1 .. MaxPictures
      /\ pictures \in 0 .. MaxPictures /\ done \subseteq 1 .. pictures /\ ends \in 0 .. MaxEnds
      /\ worker \in [number : Nat,
                     at : {"loading", "restoring", "sweeping", "told", "serving"}]
      /\ worker.number = ends + 1
 BY AssetsAssumption DEF AssetsInv, AssetsShape, AssetsBounds, Picture
<1>1. files' \cup stored' \cup referenced' \subseteq Picture
 <2>0. files \subseteq Picture /\ stored \subseteq Picture /\ referenced \subseteq Picture
  BY DEF AssetsBounds
 <2>1. CASE MakesFile
  <3>1. pictures + 1 \in Picture
   BY <1>0, <2>1 DEF MakesFile
  <3> QED BY <2>0, <2>1, <3>1 DEF MakesFile
 <2>2. CASE SaveDraft \/ QuitDrafts
  <3>1. Has("queued") \subseteq Picture /\ Has("draft") \subseteq Picture
   BY DEF Has
  <3>2. stored' \in {stored, Has("queued"), Has("draft")}
   BY <2>2 DEF SaveDraft, QuitDrafts
  <3>3. files' \subseteq files /\ referenced' \in {referenced, {}}
   BY <2>2 DEF SaveDraft, QuitDrafts, StartsAgain
  <3> QED BY <2>0, <3>1, <3>2, <3>3
 <2>3. CASE LoadDrafts \/ RestoreLeases
  <3>1. referenced' \in {stored, referenced \cup Leased} /\ Leased \subseteq Picture
   BY <2>3 DEF LoadDrafts, RestoreLeases, Leased
  <3> QED BY <2>0, <2>3, <3>1 DEF LoadDrafts, RestoreLeases
 <2>4. CASE \/ FinishAsset \/ DeliverPicture \/ TakePicture
            \/ RemovePicture \/ SendPicture \/ UploadPicture \/ ReconcilePicture
            \/ QueueDraft \/ SweepFiles \/ TakeDrafts \/ SwitchDrafts \/ CrashDrafts
  <3>1. files' \subseteq files
   BY <2>4 DEF FinishAsset, DeliverPicture, TakePicture, RemovePicture, SendPicture,
      UploadPicture, ReconcilePicture, QueueDraft, SweepFiles, TakeDrafts, SwitchDrafts,
      CrashDrafts
  <3>2. stored' = stored /\ referenced' \in {referenced, {}}
   BY <2>4 DEF FinishAsset, DeliverPicture, TakePicture, RemovePicture, SendPicture,
      UploadPicture, ReconcilePicture, QueueDraft, SweepFiles, TakeDrafts, SwitchDrafts,
      CrashDrafts, StartsAgain
  <3> QED BY <2>0, <3>1, <3>2
 <2>5. CASE UNCHANGED assetVars
  BY <2>0, <2>5 DEF assetVars
 <2> QED BY <2>1, <2>2, <2>3, <2>4, <2>5 DEF AssetsNext
<1>2. pictures' \in 0 .. MaxPictures /\ done' \subseteq 1 .. pictures'
 <2>1. CASE MakesFile
  BY <1>0, <2>1 DEF MakesFile
 <2>2. CASE RemovePicture \/ UploadPicture \/ ReconcilePicture
  <3>1. \A h \in Holder : \A p \in Has(h) : p \in 1 .. pictures
   BY HeldIsNumbered
  <3>2. /\ \A p \in Has("draft") : p \in 1 .. pictures
        /\ \A p \in Has("upload") : p \in 1 .. pictures
        /\ \A p \in Has("retry") : p \in 1 .. pictures
   BY <3>1 DEF Holder
  <3>3. pictures' = pictures /\ done' \subseteq 1 .. pictures
   <4>1. CASE RemovePicture
    BY <1>0, <3>2, <4>1 DEF RemovePicture
   <4>2. CASE UploadPicture
    BY <1>0, <3>2, <4>2 DEF UploadPicture
   <4>3. CASE ReconcilePicture
    BY <1>0, <3>2, <4>3 DEF ReconcilePicture
   <4> QED BY <2>2, <4>1, <4>2, <4>3
  <3> QED BY <1>0, <3>3
 <2>3. CASE \/ FinishAsset \/ DeliverPicture \/ TakePicture \/ SendPicture
            \/ QueueDraft \/ SaveDraft \/ LoadDrafts \/ RestoreLeases \/ SweepFiles \/ TakeDrafts
            \/ SwitchDrafts \/ QuitDrafts \/ CrashDrafts \/ UNCHANGED assetVars
  <3>1. pictures' = pictures /\ done' = done
   BY <2>3 DEF FinishAsset, DeliverPicture, TakePicture, SendPicture, QueueDraft, SaveDraft,
      LoadDrafts, RestoreLeases, SweepFiles, TakeDrafts, SwitchDrafts, QuitDrafts, CrashDrafts,
      assetVars
  <3> QED BY <1>0, <3>1
 <2> QED BY <2>1, <2>2, <2>3 DEF AssetsNext
<1>3. ends' \in 0 .. MaxEnds /\ worker'.number = ends' + 1
 <2>1. CASE SwitchDrafts \/ QuitDrafts \/ CrashDrafts
  <3>1. /\ ends < MaxEnds /\ ends' = ends + 1
        /\ worker' = [number |-> worker.number + 1, at |-> "loading"]
   BY <2>1 DEF SwitchDrafts, QuitDrafts, CrashDrafts, StartsAgain
  <3> QED BY <1>0, <3>1
 <2>2. CASE LoadDrafts \/ RestoreLeases \/ SweepFiles \/ TakeDrafts
  <3>1. ends' = ends /\ \E at : worker' = [worker EXCEPT !.at = at]
   BY <2>2 DEF LoadDrafts, RestoreLeases, SweepFiles, TakeDrafts
  <3> QED BY <1>0, <3>1
 <2>3. CASE \/ MakesFile \/ FinishAsset \/ DeliverPicture \/ TakePicture
            \/ RemovePicture \/ SendPicture \/ UploadPicture \/ ReconcilePicture
            \/ QueueDraft \/ SaveDraft \/ UNCHANGED assetVars
  <3>1. ends' = ends /\ worker' = worker
   BY <2>3 DEF MakesFile, FinishAsset, DeliverPicture, TakePicture, RemovePicture, SendPicture,
      UploadPicture, ReconcilePicture, QueueDraft, SaveDraft, assetVars
  <3> QED BY <1>0, <3>1
 <2> QED BY <2>1, <2>2, <2>3 DEF AssetsNext
<1>4. draftLoaded' \in BOOLEAN /\ unsaved' \in BOOLEAN /\ unseenDraft' \in BOOLEAN
 <2>0. draftLoaded \in BOOLEAN /\ unsaved \in BOOLEAN /\ unseenDraft \in BOOLEAN
  BY DEF AssetsBounds
 <2>1. CASE SendPicture
  <3>1. /\ draftLoaded' = draftLoaded /\ unseenDraft' = unseenDraft
        /\ \E from : unsaved' = (unsaved \/ from = "draft")
   BY <2>1, Zenon DEF SendPicture
  <3>2. \A from : (unsaved \/ from = "draft") \in BOOLEAN
   BY Zenon
  <3> QED BY <2>0, <3>1, <3>2, Zenon
 <2>2. CASE \/ TakePicture \/ RemovePicture \/ QueueDraft \/ SaveDraft \/ TakeDrafts
            \/ QuitDrafts \/ CrashDrafts
  <3>1. /\ draftLoaded' \in {draftLoaded, TRUE, FALSE}
        /\ unsaved' \in {unsaved, TRUE, FALSE}
        /\ unseenDraft' \in {unseenDraft, TRUE, FALSE}
   BY <2>2 DEF TakePicture, RemovePicture, QueueDraft, SaveDraft, TakeDrafts, QuitDrafts,
      CrashDrafts, StartsAgain
  <3> QED BY <2>0, <3>1
 <2>3. CASE \/ MakesFile \/ FinishAsset \/ DeliverPicture \/ UploadPicture
            \/ ReconcilePicture \/ LoadDrafts \/ RestoreLeases \/ SweepFiles
            \/ SwitchDrafts \/ UNCHANGED assetVars
  <3>1. UNCHANGED <<draftLoaded, unsaved, unseenDraft>>
   BY <2>3 DEF MakesFile, FinishAsset, DeliverPicture, UploadPicture, ReconcilePicture,
      LoadDrafts, RestoreLeases, SweepFiles, SwitchDrafts, assetVars
  <3> QED BY <2>0, <3>1
 <2> QED BY <2>1, <2>2, <2>3 DEF AssetsNext
<1> QED BY <1>1, <1>2, <1>3, <1>4 DEF AssetsBounds

LEMMA AssetsTypeFollows == AssetsInv /\ AssetsBounds => AssetsType
<1> SUFFICES ASSUME AssetsInv, AssetsBounds PROVE AssetsType
 OBVIOUS
<1>0. /\ MaxPictures \in Nat /\ MaxEnds \in Nat /\ Picture = 1 .. MaxPictures
      /\ pictures \in Nat /\ ends \in 0 .. MaxEnds /\ worker.number = ends + 1
 BY AssetsAssumption DEF AssetsInv, AssetsShape, AssetsBounds, Picture
<1>1. files \subseteq 1 .. pictures /\ stored \subseteq 1 .. pictures
 <2>1. \A p \in files \cup stored : p \in Picture /\ p <= pictures
  BY DEF AssetsInv, AssetIsSound, IsNumbered, AssetsBounds
 <2> QED BY <1>0, <2>1
<1>2. worker \in [number : 1 .. MaxEnds + 1,
                 at : {"loading", "restoring", "sweeping", "told", "serving"}]
 <2>1. worker \in [number : Nat, at : {"loading", "restoring", "sweeping", "told", "serving"}]
  BY DEF AssetsInv, AssetsShape
 <2>2. worker.number \in 1 .. MaxEnds + 1
  BY <1>0
 <2> QED BY <2>1, <2>2
<1>3. {draftLoaded, unsaved, unseenDraft} \subseteq BOOLEAN
 BY DEF AssetsBounds
<1> QED BY <1>1, <1>2, <1>3 DEF AssetsInv, AssetsShape, AssetsBounds, AssetsType

(* The state of the pasted pictures has its type: every file, reference and finished
   picture is one that was pasted. *)
THEOREM AssetsTypeCorrect == AssetsSpec => []AssetsType
<1>1. AssetsInit => AssetsInv /\ AssetsBounds
 BY AssetsBegin, AssetsBoundsBegin
<1>2. AssetsInv /\ AssetsBounds /\ [AssetsNext]_assetVars => AssetsInv' /\ AssetsBounds'
 BY AssetsSteps, AssetsBoundsKept
<1> QED BY <1>1, <1>2, AssetsTypeFollows, PTL DEF AssetsSpec
===============================================================================
