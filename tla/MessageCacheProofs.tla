------------------------- MODULE MessageCacheProofs -------------------------
(***************************************************************************)
(* Proof that no checked answer undoes the update stream, and that what is *)
(* remembered of deletions is bounded, for every set of messages, chats    *)
(* and requests and every bound of MessageCache.                           *)
(***************************************************************************)
EXTENDS MessageCache, FiniteSetTheorems, FunctionTheorems, WellFoundedInduction, TLAPS

-----------------------------------------------------------------------------
(***************************************************************************)
(* Ranking a finite set of messages of one chat by id: message x has rank  *)
(* |Over(S, x)|.  Ranks are distinct and below |S|, so every number below  *)
(* |S| is a rank, and the members of rank below n are at least n when S    *)
(* has n members.  This is why pruning, which keeps the ranks below        *)
(* MaxChat, still leaves MaxChat rows above any row it had to drop.        *)
(***************************************************************************)
Over(S, x) == {y \in S : IdOf[y] > IdOf[x]}

(* A message has fewer messages of S above it than S has members. *)
LEMMA RankType ==
  ASSUME NEW S \in SUBSET Key, NEW x \in S
  PROVE  /\ IsFiniteSet(S) /\ IsFiniteSet(Over(S, x))
         /\ Cardinality(S) \in Nat
         /\ Cardinality(Over(S, x)) \in 0 .. (Cardinality(S) - 1)
<1>1. IsFiniteSet(S) /\ Cardinality(S) \in Nat
 BY CacheAssumption, FS_Subset, FS_CardinalityType
<1>2. IsFiniteSet(S \ {x}) /\ Cardinality(S \ {x}) = Cardinality(S) - 1
 BY <1>1, FS_RemoveElement
<1>3. Over(S, x) \in SUBSET (S \ {x})
 BY CacheAssumption DEF Over
<1>4. IsFiniteSet(Over(S, x)) /\ Cardinality(Over(S, x)) <= Cardinality(S \ {x})
 BY <1>2, <1>3, FS_Subset
<1>5. Cardinality(Over(S, x)) \in Nat
 BY <1>4, FS_CardinalityType
<1> QED BY <1>1, <1>2, <1>4, <1>5

(* A message of smaller id has more messages above it. *)
LEMMA RankDistinct ==
  ASSUME NEW S \in SUBSET Key, NEW x \in S, NEW y \in S, IdOf[x] < IdOf[y]
  PROVE  Cardinality(Over(S, y)) < Cardinality(Over(S, x))
<1>1. IsFiniteSet(Over(S, x)) /\ Cardinality(Over(S, x)) \in Nat
 BY RankType, FS_CardinalityType
<1>2. Over(S, y) \in SUBSET Over(S, x)
 BY CacheAssumption DEF Over
<1>3. y \in Over(S, x) /\ y \notin Over(S, y)
 BY CacheAssumption DEF Over
<1>4. IsFiniteSet(Over(S, y)) /\ Cardinality(Over(S, y)) \in Nat
 BY RankType, FS_CardinalityType
<1> QED BY <1>1, <1>2, <1>3, <1>4, FS_Subset

(* A set of at least n messages of one chat has at least n of rank below n:
   the rows pruning keeps of a full chat fill its limit. *)
LEMMA TopRanks ==
  ASSUME NEW S \in SUBSET Key, NEW n \in Nat, Cardinality(S) >= n,
         \A x, y \in S : ChatOf[x] = ChatOf[y]
  PROVE  Cardinality({x \in S : Cardinality(Over(S, x)) < n}) >= n
<1> DEFINE size == Cardinality(S)
           rank == [x \in S |-> Cardinality(Over(S, x))]
           Top == {x \in S : rank[x] < n}
           ord == [x \in Top |-> rank[x]]
<1>1. CASE S = {}
 <2>1. size = 0
  BY <1>1, FS_EmptySet
 <2>2. Top \in SUBSET S /\ IsFiniteSet(S)
  BY CacheAssumption, FS_Subset
 <2>3. Cardinality(Top) \in Nat
  BY <2>2, FS_Subset, FS_CardinalityType
 <2>4. Top = {x \in S : Cardinality(Over(S, x)) < n}
  OBVIOUS
 <2>5. 0 >= n
  BY <2>1
 <2> HIDE DEF Top
 <2> QED BY <2>3, <2>4, <2>5
<1>2. CASE S # {}
 <2>1. IsFiniteSet(S) /\ size \in Nat
  BY <1>2, RankType
 <2>2. IsFiniteSet(0 .. (size - 1)) /\ Cardinality(0 .. (size - 1)) = size
  <3>1. 0 \in Int /\ size - 1 \in Int
   BY <2>1
  <3> HIDE DEF size
  <3>2. /\ IsFiniteSet(0 .. (size - 1))
        /\ Cardinality(0 .. (size - 1)) = IF 0 > size - 1 THEN 0 ELSE (size - 1) - 0 + 1
   BY <3>1, FS_Interval
  <3> QED BY <2>1, <3>2
 <2>3. rank \in [S -> 0 .. (size - 1)]
  BY RankType
 <2>4. \A x, y \in S : rank[x] = rank[y] => x = y
  <3> SUFFICES ASSUME NEW x \in S, NEW y \in S, rank[x] = rank[y], x # y
               PROVE  FALSE
   OBVIOUS
  <3>1. IdOf[x] \in Nat /\ IdOf[y] \in Nat /\ IdOf[x] # IdOf[y]
   BY CacheAssumption
  <3>2. rank[x] \in Nat /\ rank[y] \in Nat
   BY <2>3, <2>1
  <3>3. CASE IdOf[x] < IdOf[y]
   BY <3>3, <3>2, RankDistinct
  <3>4. CASE IdOf[y] < IdOf[x]
   BY <3>4, <3>2, RankDistinct
  <3> QED BY <3>1, <3>3, <3>4
 <2>5. rank \in Injection(S, 0 .. (size - 1))
  BY <2>3, <2>4 DEF Injection, IsInjective
 <2>6. rank \in Surjection(S, 0 .. (size - 1))
  BY <2>1, <2>2, <2>5, FS_Injection
 <2>7. \A m \in 0 .. (n - 1) : \E x \in Top : ord[x] = m
  <3> SUFFICES ASSUME NEW m \in 0 .. (n - 1)
               PROVE  \E x \in Top : ord[x] = m
   OBVIOUS
  <3>1. m \in 0 .. (size - 1)
   BY <2>1
  <3>2. PICK x \in S : rank[x] = m
   BY <3>1, <2>6 DEF Surjection
  <3>3. x \in Top /\ ord[x] = m
   BY <3>2
  <3> QED BY <3>3
 <2>8. ord \in [Top -> 0 .. (n - 1)]
  BY <2>3
 <2>9. ord \in Surjection(Top, 0 .. (n - 1))
  BY <2>7, <2>8 DEF Surjection
 <2>10. IsFiniteSet(Top)
  BY <2>1, FS_Subset
 <2>11. Cardinality(0 .. (n - 1)) <= Cardinality(Top)
  BY <2>9, <2>10, FS_Surjection
 <2>12. Cardinality(0 .. (n - 1)) = n
  BY FS_Interval
 <2>13. Top = {x \in S : Cardinality(Over(S, x)) < n}
  OBVIOUS
 <2> HIDE DEF Top
 <2> QED BY <2>11, <2>12, <2>13
<1> QED BY <1>1, <1>2

-----------------------------------------------------------------------------
(***************************************************************************)
(* The inductive invariant.  Next to the property it says, of every        *)
(* request the store still knows, that what it was answered about a        *)
(* message is not behind the update stream or is held back by evidence     *)
(* newer than the request: a deletion, a row, or, once pruning dropped the *)
(* row, the memory of that (the loads) or the fact that the next pruning   *)
(* will drop the message again (all the others).                           *)
(***************************************************************************)
ToldBehind == \A k \in Key : told[k] <= srv[k]

FlightOK ==
    \A r \in Req :
        /\ gens[r] <= rev
        /\ gens[r] # 0 => status[r] # "idle" /\ KindOf[r] # "direct"
        /\ \A k \in Key : page[r][k] # 0
              => status[r] = "answered" /\ ChatOf[k] = TargetOf[r]

Dated == /\ \A k \in Key : rows[k].rev <= rev
         /\ \A i \in Id : gd[i] <= rev

TombstonesTold ==
    \A k \in Key :
        rows[k].ver = Gone \/ (IsCommon(k) /\ gd[IdOf[k]] # 0) => told[k] = Gone

Buried(rw, k) == Cardinality(Above(rw, k)) >= MaxChat

Held(r, k) ==
    \/ IsCommon(k) /\ gd[IdOf[k]] > gens[r]
    \/ rows[k].ver = Gone
    \/ rows[k].rev > gens[r]
    \/ KindOf[r] = "load" /\ forgot[k] > gens[r]
    \/ KindOf[r] # "load" /\ Buried(rows, k)

AnswersSafe ==
    \A r \in Req : \A k \in Key :
        gens[r] # 0 /\ page[r][k] # 0 => page[r][k] >= told[k] \/ Held(r, k)

Inv ==
    /\ TypeOK
    /\ ToldBehind
    /\ FlightOK
    /\ Dated
    /\ TombstonesTold
    /\ SnapshotsNeverUndo
    /\ AnswersSafe

-----------------------------------------------------------------------------
(***************************************************************************)
(* Type correctness.                                                       *)
(***************************************************************************)
(* The versions of a message end with Gone, its deletion. *)
LEMMA VersionBounds == Gone \in Nat /\ Gone = MaxVersion + 1 /\ 1 .. MaxVersion \subseteq 0 .. Gone
  BY CacheAssumption DEF Gone

(* write_message writes a row. *)
LEMMA WrittenType ==
  ASSUME TypeOK, NEW k \in Key, NEW v \in 1 .. MaxVersion, NEW started,
         NEW via \in {"live", "page", "load", "stray"}
  PROVE  Written(k, v, started, via) \in RowType
  BY VersionBounds DEF TypeOK, Written, RowType

(* A commit raises the revision by one and changes nothing else it was not given. *)
LEMMA CommitFacts ==
  ASSUME TypeOK, Room, NEW rw, NEW g \in [Id -> Nat], NEW gs \in [Req -> Nat],
         Commit(rw, g, gs)
  PROVE  /\ rev' = rev + 1 /\ rev' \in 0 .. MaxRevision
         /\ rows' = rw /\ gens' = gs
         /\ gd' \in [Id -> Nat]
         /\ \A i \in Id : gd'[i] # 0 => gd'[i] = g[i]
         /\ \A i \in Id : g[i] > rev => gd'[i] = g[i]
         /\ \A i \in Id : \A r \in Req :
               gs[r] # 0 /\ g[i] >= gs[r] => gd'[i] = g[i]
<1>1. rev \in Nat /\ MaxRevision \in Nat /\ rev < MaxRevision
 BY CacheAssumption DEF TypeOK, Room
<1>2. \A i \in Id : g[i] > rev => ~Obsolete(g, gs, i)
 BY <1>1 DEF Obsolete
<1>3. \A i \in Id : \A r \in Req : gs[r] # 0 /\ g[i] >= gs[r] => ~Obsolete(g, gs, i)
 BY DEF Obsolete
<1>4. /\ rev' = rev + 1 /\ rows' = rw /\ gens' = gs
      /\ gd' = [i \in Id |-> IF Obsolete(g, gs, i) THEN 0 ELSE g[i]]
 BY DEF Commit
<1> QED BY <1>1, <1>2, <1>3, <1>4

(* So does a commit that prunes a chat, which writes rows again. *)
LEMMA CommitPrunedFacts ==
  ASSUME TypeOK, Room, NEW rw \in [Key -> RowType], NEW c,
         NEW g \in [Id -> Nat], NEW gs \in [Req -> Nat],
         CommitPruned(rw, c, g, gs)
  PROVE  /\ Commit(rows', g, gs)
         /\ rows' \in [Key -> RowType]
         /\ rows' = [k \in Key |-> IF k \in Dropped(rw, c) THEN NoRow ELSE rw[k]]
         /\ forgot' = [k \in Key |-> IF k \in Dropped(rw, c) THEN rev + 1
                                                           ELSE forgot[k]]
         /\ forgot' \in [Key -> Nat]
<1>1. NoRow \in RowType
 BY VersionBounds DEF NoRow, RowType
<1>2. rows' = [k \in Key |-> IF k \in Dropped(rw, c) THEN NoRow ELSE rw[k]]
 BY DEF CommitPruned, Commit
<1>3. forgot' = [k \in Key |-> IF k \in Dropped(rw, c) THEN rev + 1 ELSE forgot[k]]
 BY DEF CommitPruned
<1>4. Commit(rows', g, gs)
 BY <1>2 DEF CommitPruned, Commit
<1> QED BY <1>1, <1>2, <1>3, <1>4, CacheAssumption DEF TypeOK

(* What each handler writes is a table of rows. *)
LEMMA RowsTyped ==
  ASSUME TypeOK
  PROVE  /\ \A k \in Key : \A v \in 1 .. MaxVersion : \A via \in {"live", "load", "stray"} :
               \A started : [rows EXCEPT ![k] = Written(k, v, started, via)] \in [Key -> RowType]
         /\ \A S : \A rw \in [Key -> RowType] : Marked(rw, S) \in [Key -> RowType]
         /\ \A r \in Req : Filled(r, gens[r], "page") \in [Key -> RowType]
         /\ \A D : DeletedInChannel(D) \in [Key -> RowType]
         /\ \A D : DeletedInCommon(D) \in [Key -> RowType]
         /\ \A D : Deletions(D) \in [Id -> Nat]
<1>1. rows \in [Key -> RowType] /\ rev \in Nat /\ gd \in [Id -> Nat]
 BY CacheAssumption DEF TypeOK
<1>2. \A k \in Key : \A v \in 1 .. MaxVersion : \A via \in {"live", "load", "stray"} :
        \A started : [rows EXCEPT ![k] = Written(k, v, started, via)] \in [Key -> RowType]
 BY <1>1, WrittenType
<1>3. \A S : \A rw \in [Key -> RowType] : Marked(rw, S) \in [Key -> RowType]
 BY <1>1 DEF Marked, RowType
<1>4. \A r \in Req : Filled(r, gens[r], "page") \in [Key -> RowType]
 <2> SUFFICES ASSUME NEW r \in Req, NEW k \in Key
              PROVE  (IF page[r][k] = 0 THEN rows[k]
                      ELSE Written(k, page[r][k], gens[r], "page")) \in RowType
  BY DEF Filled
 <2>1. page[r][k] # 0 => page[r][k] \in 1 .. MaxVersion
  BY CacheAssumption DEF TypeOK
 <2> QED BY <1>1, <2>1, WrittenType
<1>5. Tombstone \in RowType
 BY <1>1, VersionBounds DEF Tombstone, RowType
<1> QED BY <1>1, <1>2, <1>3, <1>4, <1>5
        DEF DeletedInChannel, DeletedInCommon, Deletions

(* The types hold at the start. *)
LEMMA TypeInit == Init => TypeOK
  BY CacheAssumption, VersionBounds
     DEF Init, TypeOK, NoRow, RowType, EmptyPage

(* Every action keeps the types. *)
LEMMA TypeStep == TypeOK /\ [Next]_vars => TypeOK'
<1> SUFFICES ASSUME TypeOK, [Next]_vars PROVE TypeOK'
 OBVIOUS
<1> DEFINE GensType(gs) == gs \in [Req -> Nat]
           StatusType(st) == st \in [Req -> {"idle", "sent", "answered"}]
           PageType(pg) == pg \in [Req -> [Key -> 0 .. MaxVersion]]
<1>a. /\ rev \in Nat /\ rev + 1 \in Nat
      /\ GensType(gens) /\ StatusType(status) /\ PageType(page)
      /\ rows \in [Key -> RowType] /\ gd \in [Id -> Nat]
      /\ 0 \in 0 .. MaxVersion
      /\ EmptyPage \in [Key -> 0 .. MaxVersion]
 BY CacheAssumption DEF TypeOK, EmptyPage
<1>b. \A r \in Req : GensType(Retired(r))
 BY <1>a DEF Retired
<1>c. \A r \in Req : Freed(r) => StatusType(status') /\ PageType(page')
 BY <1>a DEF Freed
<1>1. ASSUME NEW k \in Key, ServerWrites(k) \/ ServerDeletes(k) PROVE TypeOK'
 <2>1. srv[k] \in 0 .. Gone
  BY DEF TypeOK
 <2>2. \/ srv' = [srv EXCEPT ![k] = srv[k] + 1] /\ srv[k] < MaxVersion
       \/ srv' = [srv EXCEPT ![k] = Gone]
  BY <1>1 DEF ServerWrites, ServerDeletes
 <2>3. srv' \in [Key -> 0 .. Gone]
  BY <2>1, <2>2, VersionBounds, CacheAssumption DEF TypeOK
 <2>4. UNCHANGED <<rev, rows, gd, gens, status, page, told, forgot>>
  BY <1>1 DEF ServerWrites, ServerDeletes
 <2> QED BY <2>3, <2>4 DEF TypeOK
<1>2. ASSUME NEW k \in Key, NEW v \in 1 .. MaxVersion, LiveMessage(k, v) PROVE TypeOK'
 <2>1. [rows EXCEPT ![k] = Written(k, v, rev + 1, "live")] \in [Key -> RowType]
  BY RowsTyped
 <2> QED BY <1>2, <1>a, <2>1, CommitFacts, VersionBounds DEF LiveMessage, TypeOK
<1>3. ASSUME NEW D \in SUBSET Key, MessagesDeleted(D) PROVE TypeOK'
 <2>1. told' \in [Key -> 0 .. Gone]
  BY <1>3, VersionBounds DEF MessagesDeleted, TypeOK
 <2>2. \E rw \in [Key -> RowType], g \in [Id -> Nat] : Commit(rw, g, gens)
  BY <1>3, <1>a, RowsTyped DEF MessagesDeleted
 <2> QED BY <1>3, <1>a, <2>1, <2>2, CommitFacts DEF MessagesDeleted, TypeOK
<1>4. ASSUME NEW S \in SUBSET Key, MarksChanged(S) PROVE TypeOK'
 <2>1. Marked(rows, S) \in [Key -> RowType]
  BY <1>a, RowsTyped
 <2> QED BY <1>4, <1>a, <2>1, CommitFacts DEF MarksChanged, TypeOK, server
<1>5. ASSUME NEW C, Invalidated(C) PROVE TypeOK'
 <2>1. [k \in Key |-> IF ChatOf[k] \in C THEN NoRow ELSE rows[k]] \in [Key -> RowType]
  BY <1>a, VersionBounds DEF NoRow, RowType
 <2>2. GensType([r \in Req |-> IF TargetOf[r] \in C THEN 0 ELSE gens[r]])
  BY <1>a
 <2> QED BY <1>5, <1>a, <2>1, <2>2, CommitFacts DEF Invalidated, TypeOK, server
<1>6. ASSUME NEW r \in Req, StartRequest(r) PROVE TypeOK'
 <2>1. GensType([gens EXCEPT ![r] = rev + 1]) /\ StatusType([status EXCEPT ![r] = "sent"])
  BY <1>a
 <2> QED BY ZenonT(30), <1>6, <1>a, <2>1, CommitFacts DEF StartRequest, TypeOK, server
<1>7. ASSUME NEW r \in Req, StartDirect(r) PROVE TypeOK'
 BY <1>7 DEF StartDirect, TypeOK, tables, server
<1>8. ASSUME NEW r \in Req, StartSearch(r) PROVE TypeOK'
 <2>1. GensType([q \in Req |-> IF q = r THEN rev + 1
                               ELSE IF q \in Searches THEN 0 ELSE gens[q]])
  BY <1>a
 <2>2. StatusType(status') /\ PageType(page')
  BY <1>8, <1>a DEF StartSearch
 <2> QED BY <1>8, <1>a, <2>1, <2>2, CommitFacts DEF StartSearch, TypeOK, server
<1>9. ASSUME NEW r \in Req, CancelSearch(r) \/ RequestFails(r) PROVE TypeOK'
 BY <1>9, <1>a, <1>b, <1>c, CommitFacts DEF CancelSearch, RequestFails, TypeOK, server
<1>10. ASSUME NEW r \in Req, NEW S \in SUBSET Key, ServerAnswers(r, S) PROVE TypeOK'
 <2>1. PageType(page') /\ StatusType(status')
  BY <1>10, <1>a DEF ServerAnswers
 <2> QED BY <1>10, <2>1 DEF ServerAnswers, TypeOK, tables, server
<1>11. ASSUME NEW r \in Req, NEW k \in Key, ServerAccepts(r, k) PROVE TypeOK'
 <2>1. srv[k] \in Nat /\ srv[k] + 1 \in 0 .. MaxVersion /\ MaxVersion \in Nat
  BY <1>11, VersionBounds, CacheAssumption DEF ServerAccepts, TypeOK
 <2>2. PageType(page') /\ StatusType(status')
  BY <1>11, <1>a, <2>1 DEF ServerAccepts
 <2>3. srv' \in [Key -> 0 .. Gone]
  BY <1>11, <2>1, VersionBounds DEF ServerAccepts, TypeOK
 <2> QED BY <1>11, <2>2, <2>3 DEF ServerAccepts, TypeOK, tables
<1>12. ASSUME NEW r \in Req, NEW S \in SUBSET Key, PageArrives(r, S) PROVE TypeOK'
 <2> DEFINE rw == Marked(Filled(r, gens[r], "page"), S)
 <2>1. rw \in [Key -> RowType]
  BY RowsTyped
 <2>2. CommitPruned(rw, TargetOf[r], gd, Retired(r)) /\ Room /\ Freed(r) /\ UNCHANGED server
  BY <1>12 DEF PageArrives
 <2> HIDE DEF rw
 <2>3. /\ Commit(rows', gd, Retired(r)) /\ rows' \in [Key -> RowType]
       /\ forgot' \in [Key -> Nat]
  BY <1>a, <1>b, <2>1, <2>2, CommitPrunedFacts
 <2> QED BY <1>a, <1>b, <1>c, <2>2, <2>3, CommitFacts DEF TypeOK, server
<1>13. ASSUME NEW r \in Req, StalePageArrives(r) PROVE TypeOK'
 BY <1>13, <1>a, <1>c, CommitFacts DEF StalePageArrives, TypeOK, server
<1>14. ASSUME NEW r \in Req, NEW k \in Key, MessageLoaded(r, k) PROVE TypeOK'
 <2>1. page[r][k] \in 1 .. MaxVersion
  BY <1>14, CacheAssumption DEF MessageLoaded, TypeOK
 <2>2. LoadVia(r, k) \in {"live", "load", "stray"}
  BY DEF LoadVia
 <2>3. [rows EXCEPT ![k] = Written(k, page[r][k], LoadStarted(r), LoadVia(r, k))]
         \in [Key -> RowType]
  BY <2>1, <2>2, RowsTyped
 <2> DEFINE rw == [rows EXCEPT ![k] = Written(k, page[r][k], LoadStarted(r), LoadVia(r, k))]
 <2>4. Room /\ Commit(rw, gd, Retired(r)) /\ Freed(r) /\ UNCHANGED <<server, forgot>>
  BY <1>14 DEF MessageLoaded
 <2> HIDE DEF rw
 <2>5. rw \in [Key -> RowType]
  BY <2>3 DEF rw
 <2>6. Retired(r) \in [Req -> Nat] /\ gd \in [Id -> Nat]
  BY <1>a, <1>b
 <2>7. /\ rev' \in 0 .. MaxRevision /\ rows' = rw /\ gens' = Retired(r)
       /\ gd' \in [Id -> Nat]
  BY <2>4, <2>6, CommitFacts
 <2>8. UNCHANGED <<srv, told, forgot>>
  BY <2>4 DEF server
 <2> QED BY <1>c, <2>4, <2>5, <2>6, <2>7, <2>8 DEF TypeOK
<1>15. ASSUME NEW r \in Req, NEW k \in Key, DirectArrives(r, k) PROVE TypeOK'
 <2>1. page[r][k] \in 1 .. MaxVersion
  BY <1>15, CacheAssumption DEF DirectArrives, TypeOK
 <2>2. [rows EXCEPT ![k] = Written(k, page[r][k], rev + 1, "stray")] \in [Key -> RowType]
  BY <2>1, RowsTyped
 <2> QED BY ZenonT(30), <1>15, <1>a, <1>c, <2>2, CommitFacts DEF DirectArrives, TypeOK, server
<1>16. ASSUME Restart PROVE TypeOK'
 BY <1>16, <1>a DEF Restart, TypeOK, tables, server
<1>17. ASSUME AccountReset PROVE TypeOK'
 BY <1>17, <1>a, VersionBounds, CacheAssumption
    DEF AccountReset, TypeOK, Room, NoRow, RowType
<1>18. ASSUME UNCHANGED vars PROVE TypeOK'
 BY <1>18 DEF vars, TypeOK
<1>19. StreamStep => TypeOK'
 BY <1>2, <1>3, <1>4, <1>5 DEF StreamStep, CacheInvalidated
<1>20. ASSUME NEW r \in Req, RequestStep(r) PROVE TypeOK'
 BY <1>20, <1>6, <1>7, <1>8, <1>9, <1>10, <1>11, <1>12, <1>13, <1>14, <1>15
    DEF RequestStep
<1> QED BY <1>1, <1>16, <1>17, <1>18, <1>19, <1>20 DEF Next

-----------------------------------------------------------------------------
(***************************************************************************)
(* The simple conjuncts: the stream is behind the server, rows and         *)
(* generations are not from the future, tombstones are of deletions.       *)
(***************************************************************************)
(* The stream tells a version only after the server has made it. *)
LEMMA ToldBehindStep == TypeOK /\ ToldBehind /\ [Next]_vars => ToldBehind'
<1> SUFFICES ASSUME TypeOK, ToldBehind, [Next]_vars PROVE ToldBehind'
 OBVIOUS
<1>a. /\ \A k \in Key : srv[k] \in Nat /\ told[k] \in Nat /\ srv[k] <= Gone
      /\ \A k \in Key : told[k] <= srv[k]
      /\ srv \in [Key -> 0 .. Gone] /\ told \in [Key -> 0 .. Gone] /\ Gone \in Nat
 BY VersionBounds DEF TypeOK, ToldBehind
<1>1. CASE UNCHANGED server
 BY <1>1 DEF server, ToldBehind
<1>2. ASSUME NEW k \in Key, ServerWrites(k) \/ ServerDeletes(k) PROVE ToldBehind'
 BY <1>2, <1>a DEF ServerWrites, ServerDeletes, ToldBehind
<1>3. ASSUME NEW k \in Key, NEW v \in 1 .. MaxVersion, LiveMessage(k, v) PROVE ToldBehind'
 BY <1>3, <1>a DEF LiveMessage, ToldBehind
<1>4. ASSUME NEW D \in SUBSET Key, MessagesDeleted(D) PROVE ToldBehind'
 BY <1>4, <1>a DEF MessagesDeleted, ToldBehind
<1>5. ASSUME NEW r \in Req, NEW k \in Key, ServerAccepts(r, k) PROVE ToldBehind'
 BY <1>5, <1>a DEF ServerAccepts, ToldBehind
<1>6. CASE AccountReset
 BY <1>6 DEF AccountReset, ToldBehind
<1>7. (\E S \in SUBSET Key : MarksChanged(S)) \/ CacheInvalidated => UNCHANGED server
 BY DEF MarksChanged, CacheInvalidated, Invalidated
<1>8. ASSUME NEW r \in Req, RequestStep(r),
             ~(\E k \in Key : ServerAccepts(r, k))
      PROVE  UNCHANGED server
 BY <1>8 DEF RequestStep, StartRequest, StartDirect, StartSearch, CancelSearch,
    ServerAnswers, PageArrives, StalePageArrives, MessageLoaded, DirectArrives,
    RequestFails
<1>9. Restart \/ UNCHANGED vars => UNCHANGED server
 BY DEF Restart, vars, server
<1> QED BY <1>1, <1>2, <1>3, <1>4, <1>5, <1>6, <1>7, <1>8, <1>9 DEF Next, StreamStep

(* What a step does to the requests it does not concern: their generations
   and answers stay, and none is from the future. *)
LEMMA FlightStep == TypeOK /\ FlightOK /\ [Next]_vars => FlightOK'
<1> SUFFICES ASSUME TypeOK, FlightOK, [Next]_vars PROVE FlightOK'
 OBVIOUS
<1>a. /\ rev \in Nat /\ gens \in [Req -> Nat] /\ gd \in [Id -> Nat]
      /\ status \in [Req -> {"idle", "sent", "answered"}]
      /\ page \in [Req -> [Key -> 0 .. MaxVersion]]
      /\ rows \in [Key -> RowType]
 BY CacheAssumption DEF TypeOK
<1>b. /\ \A r \in Req : gens[r] <= rev /\ (gens[r] # 0 => status[r] # "idle" /\ KindOf[r] # "direct")
      /\ \A r \in Req : \A k \in Key :
            page[r][k] # 0 => status[r] = "answered" /\ ChatOf[k] = TargetOf[r]
 BY DEF FlightOK
\* The effects of a step that gives no request a generation.
<1>c. ASSUME rev' = rev + 1 \/ rev' = rev,
             \A r \in Req : gens'[r] = gens[r] \/ gens'[r] = 0,
             \A r \in Req : \/ page'[r] = page[r] /\ status'[r] = status[r]
                            \/ page'[r] = EmptyPage /\ gens'[r] = 0
      PROVE  FlightOK'
 <2>1. \A r \in Req : gens'[r] <= rev' /\ gens'[r] \in Nat
  BY <1>a, <1>b, <1>c
 <2>2. \A r \in Req : gens'[r] # 0 => status'[r] # "idle" /\ KindOf[r] # "direct"
  BY <1>b, <1>c
 <2>3. \A r \in Req : \A k \in Key :
           page'[r][k] # 0 => status'[r] = "answered" /\ ChatOf[k] = TargetOf[r]
  BY <1>b, <1>c DEF EmptyPage
 <2> QED BY <2>1, <2>2, <2>3 DEF FlightOK
<1>1. ASSUME NEW k \in Key, ServerWrites(k) \/ ServerDeletes(k) PROVE FlightOK'
 BY <1>1, <1>c DEF ServerWrites, ServerDeletes
<1>2. StreamStep => FlightOK'
 BY <1>a, <1>c DEF StreamStep, LiveMessage, MessagesDeleted, MarksChanged,
    CacheInvalidated, Invalidated, Commit
<1>3. ASSUME NEW r \in Req, StartRequest(r) PROVE FlightOK'
 <2>1. /\ rev' = rev + 1 /\ page' = page
       /\ gens' = [gens EXCEPT ![r] = rev + 1]
       /\ status' = [status EXCEPT ![r] = "sent"]
       /\ KindOf[r] # "direct" /\ status[r] = "idle"
  BY <1>3 DEF StartRequest, Commit
 <2> QED BY <2>1, <1>a, <1>b DEF FlightOK
<1>4. ASSUME NEW r \in Req, StartDirect(r) PROVE FlightOK'
 BY <1>4, <1>a, <1>b DEF StartDirect, FlightOK, tables
<1>5. ASSUME NEW r \in Req, StartSearch(r) PROVE FlightOK'
 <2>1. /\ rev' = rev + 1
       /\ gens' = [q \in Req |-> IF q = r THEN rev + 1
                                  ELSE IF q \in Searches THEN 0 ELSE gens[q]]
       /\ status' = [q \in Req |-> IF q = r THEN "sent"
                               ELSE IF q \in Searches THEN "idle" ELSE status[q]]
       /\ page' = [q \in Req |-> IF q \in Searches THEN EmptyPage ELSE page[q]]
       /\ KindOf[r] # "direct" /\ r \in Searches
  BY <1>5 DEF StartSearch, Commit, Searches
 <2> QED BY <2>1, <1>a, <1>b DEF FlightOK, EmptyPage
<1>6. ASSUME NEW r \in Req, NEW S \in SUBSET Key, ServerAnswers(r, S) PROVE FlightOK'
 BY <1>6, <1>a, <1>b DEF ServerAnswers, FlightOK, KeysIn, tables
<1>7. ASSUME NEW r \in Req, NEW k \in Key, ServerAccepts(r, k) PROVE FlightOK'
 BY <1>7, <1>a, <1>b DEF ServerAccepts, FlightOK, EmptyPage, tables
<1>8. ASSUME NEW r \in Req, Freed(r), rev' = rev + 1,
             gens' = Retired(r) \/ (gens' = gens /\ gens[r] = 0)
      PROVE  FlightOK'
 BY <1>8, <1>a, <1>c DEF Freed, Retired
<1>9. ASSUME NEW r \in Req,
             \/ CancelSearch(r) \/ RequestFails(r) \/ StalePageArrives(r)
             \/ \E S \in SUBSET Key : PageArrives(r, S)
             \/ \E k \in Key : MessageLoaded(r, k) \/ DirectArrives(r, k)
      PROVE  FlightOK'
 <2>1. CancelSearch(r) \/ RequestFails(r) \/ StalePageArrives(r) => FlightOK'
  BY <1>8 DEF CancelSearch, RequestFails, StalePageArrives, Commit
 <2>2. ASSUME NEW S \in SUBSET Key, PageArrives(r, S) PROVE FlightOK'
  BY <2>2, <1>8 DEF PageArrives, CommitPruned, Commit
 <2>3. ASSUME NEW k \in Key, MessageLoaded(r, k) PROVE FlightOK'
  BY <2>3, <1>8 DEF MessageLoaded, Commit
 <2>4. ASSUME NEW k \in Key, DirectArrives(r, k) PROVE FlightOK'
  <3>1. gens[r] = 0
   BY <2>4, <1>b DEF DirectArrives
  <3> QED BY <2>4, <3>1, <1>8 DEF DirectArrives, Commit
 <2> QED BY <1>9, <2>1, <2>2, <2>3, <2>4
<1>10. CASE Restart
 BY <1>10, <1>a, <1>c DEF Restart
<1>11. CASE AccountReset
 BY <1>11, <1>a, <1>c DEF AccountReset
<1>12. CASE UNCHANGED vars
 BY <1>12, <1>c DEF vars
<1>13. ASSUME NEW r \in Req, RequestStep(r) PROVE FlightOK'
 BY <1>13, <1>3, <1>4, <1>5, <1>6, <1>7, <1>9 DEF RequestStep
<1> QED BY <1>1, <1>2, <1>10, <1>11, <1>12, <1>13 DEF Next

\* Every commit of rows that the handlers build from old ones.
LEMMA RowsFrom ==
  ASSUME TypeOK
  PROVE  /\ \A k \in Key : \A v \in 1 .. MaxVersion : \A started, via :
               \A j \in Key :
                  LET new == [rows EXCEPT ![k] = Written(k, v, started, via)][j] IN
                  new = rows[j] \/ (new.rev = rev + 1 /\ new.ver \in 1 .. MaxVersion)
         /\ \A r \in Req : \A S : \A j \in Key :
                  LET new == Marked(Filled(r, gens[r], "page"), S)[j] IN
                  \/ new = rows[j]
                  \/ new.rev = rev + 1 /\ (new.ver = rows[j].ver \/ new.ver \in 1 .. MaxVersion)
<1>1. rows \in [Key -> RowType] /\ page \in [Req -> [Key -> 0 .. MaxVersion]]
 BY DEF TypeOK
<1>2. \A k \in Key : \A v \in 1 .. MaxVersion : \A started, via :
        LET new == Written(k, v, started, via) IN
        new = rows[k] \/ (new.rev = rev + 1 /\ new.ver \in 1 .. MaxVersion)
 BY DEF Written
<1>3. ASSUME NEW r \in Req, NEW S, NEW j \in Key
      PROVE  LET new == Marked(Filled(r, gens[r], "page"), S)[j] IN
                    \/ new = rows[j]
                    \/ new.rev = rev + 1 /\ (new.ver = rows[j].ver \/ new.ver \in 1 .. MaxVersion)
 <2> DEFINE filled == Filled(r, gens[r], "page")
 <2>1. filled \in [Key -> RowType]
  BY RowsTyped
 <2>2. page[r][j] # 0 => page[r][j] \in 1 .. MaxVersion
  BY <1>1, CacheAssumption
 <2>3. \/ filled[j] = rows[j]
       \/ filled[j].rev = rev + 1 /\ filled[j].ver \in 1 .. MaxVersion
  BY <1>2, <2>2 DEF Filled
 <2>4. Marked(filled, S)[j] = IF j \in S THEN [filled[j] EXCEPT !.rev = rev + 1] ELSE filled[j]
  BY DEF Marked
 <2> HIDE DEF filled
 <2>5. filled[j] \in RowType
  BY <2>1
 <2> QED BY <2>3, <2>4, <2>5 DEF RowType, filled
<1> QED BY <1>1, <1>2, <1>3

\* What one step can make of one row: leave it, drop it, mark it, write
\* contents to it, or turn it into the tombstone of a deletion just told.
RowStep(k) ==
    \/ rows'[k] = rows[k]
    \/ rows'[k] = NoRow
    \/ rows'[k].rev = rev' /\ rows'[k].ver = rows[k].ver
    \/ rows'[k].rev = rev' /\ rows'[k].ver \in 1 .. MaxVersion
    \/ rows'[k].rev = rev' /\ rows'[k].ver = Gone /\ told'[k] = Gone

(* Every step leaves a row, drops it, or writes it with the new revision. *)
LEMMA RowsStep ==
  ASSUME TypeOK, [Next]_vars, NEW k \in Key
  PROVE  RowStep(k) /\ (rev' = rev \/ rev' = rev + 1)
<1>a. rows \in [Key -> RowType] /\ page \in [Req -> [Key -> 0 .. MaxVersion]]
 BY DEF TypeOK
<1>1. ASSUME NEW j \in Key, ServerWrites(j) \/ ServerDeletes(j)
      PROVE  RowStep(k) /\ rev' = rev
 BY <1>1 DEF ServerWrites, ServerDeletes, RowStep
<1>2. ASSUME NEW j \in Key, NEW v \in 1 .. MaxVersion, LiveMessage(j, v)
      PROVE  RowStep(k) /\ rev' = rev + 1
 BY <1>2, RowsFrom DEF LiveMessage, Commit, RowStep
<1>3. ASSUME NEW D \in SUBSET Key, MessagesDeleted(D) PROVE RowStep(k) /\ rev' = rev + 1
 <2>1. told' = [j \in Key |-> IF j \in D THEN Gone ELSE told[j]]
  BY <1>3 DEF MessagesDeleted
 <2>2. rows' = DeletedInChannel(D) \/ rows' = DeletedInCommon(D)
  BY <1>3 DEF MessagesDeleted, Commit
 <2>3. rev' = rev + 1
  BY <1>3 DEF MessagesDeleted, Commit
 <2>4. rows'[k] = rows[k] \/ (k \in D /\ rows'[k] = Tombstone)
  BY <2>2 DEF DeletedInChannel, DeletedInCommon
 <2> QED BY <2>1, <2>3, <2>4 DEF RowStep, Tombstone
<1>4. ASSUME NEW S \in SUBSET Key, MarksChanged(S) PROVE RowStep(k) /\ rev' = rev + 1
 <2>1. rows' = Marked(rows, S) /\ rev' = rev + 1
  BY <1>4 DEF MarksChanged, Commit
 <2> QED BY <2>1, <1>a DEF Marked, RowStep, RowType
<1>5. ASSUME NEW C, Invalidated(C) PROVE RowStep(k) /\ rev' = rev + 1
 BY <1>5 DEF Invalidated, Commit, RowStep
<1>6. ASSUME NEW r \in Req, NEW S \in SUBSET Key, PageArrives(r, S)
      PROVE  RowStep(k) /\ rev' = rev + 1
 <2> DEFINE rw == Marked(Filled(r, gens[r], "page"), S)
 <2>1. rw[k] = rows[k] \/ (rw[k].rev = rev + 1
         /\ (rw[k].ver = rows[k].ver \/ rw[k].ver \in 1 .. MaxVersion))
  BY RowsFrom
 <2>2. CommitPruned(rw, TargetOf[r], gd, Retired(r))
  BY <1>6 DEF PageArrives
 <2> HIDE DEF rw
 <2>3. rows'[k] = NoRow \/ rows'[k] = rw[k]
  BY <2>2 DEF CommitPruned, Commit
 <2>4. rev' = rev + 1
  BY <2>2 DEF CommitPruned, Commit
 <2> QED BY <2>1, <2>3, <2>4 DEF RowStep
<1>7. ASSUME NEW r \in Req, NEW j \in Key, MessageLoaded(r, j) \/ DirectArrives(r, j)
      PROVE  RowStep(k) /\ rev' = rev + 1
 <2>1. page[r][j] \in 1 .. MaxVersion
  BY <1>7, <1>a, CacheAssumption DEF MessageLoaded, DirectArrives
 <2>2. \E started, via : rows' = [rows EXCEPT ![j] = Written(j, page[r][j], started, via)]
  BY <1>7 DEF MessageLoaded, DirectArrives, Commit
 <2>3. rev' = rev + 1
  BY <1>7 DEF MessageLoaded, DirectArrives, Commit
 <2>4. rows'[k] = rows[k] \/ (rows'[k].rev = rev + 1 /\ rows'[k].ver \in 1 .. MaxVersion)
  BY <2>1, <2>2, RowsFrom
 <2> QED BY <2>3, <2>4 DEF RowStep
<1>8. ASSUME NEW r \in Req, RequestStep(r),
             ~ \E S \in SUBSET Key : PageArrives(r, S),
             ~ \E j \in Key : MessageLoaded(r, j) \/ DirectArrives(r, j)
      PROVE  RowStep(k) /\ (rev' = rev \/ rev' = rev + 1)
 <2>1. rows' = rows
  BY <1>8 DEF RequestStep, StartRequest, StartDirect, StartSearch, CancelSearch,
     ServerAnswers, ServerAccepts, StalePageArrives, RequestFails, Commit, tables
 <2>2. rev' = rev \/ rev' = rev + 1
  BY <1>8 DEF RequestStep, StartRequest, StartDirect, StartSearch, CancelSearch,
     ServerAnswers, ServerAccepts, StalePageArrives, RequestFails, Commit
 <2> QED BY <2>1, <2>2 DEF RowStep
<1>9. Restart \/ UNCHANGED vars => RowStep(k) /\ rev' = rev
 BY DEF Restart, vars, tables, RowStep
<1>10. AccountReset => RowStep(k) /\ rev' = rev + 1
 BY DEF AccountReset, RowStep
<1> QED BY <1>1, <1>2, <1>3, <1>4, <1>5, <1>6, <1>7, <1>8, <1>9, <1>10
        DEF Next, StreamStep, CacheInvalidated

(* Every step leaves the record of a deletion, drops it, or dates it now. *)
LEMMA DeletionsStep ==
  ASSUME TypeOK, [Next]_vars, NEW i \in Id
  PROVE  gd'[i] \in {0, gd[i], rev + 1} /\ (gd'[i] = rev + 1 => gd'[i] \in {gd[i], rev'})
<1>a. gd \in [Id -> Nat] /\ rev \in Nat
 BY CacheAssumption DEF TypeOK
<1>1. ASSUME NEW k \in Key, ServerWrites(k) \/ ServerDeletes(k) PROVE gd'[i] = gd[i]
 BY <1>1 DEF ServerWrites, ServerDeletes
<1>2. ASSUME NEW D \in SUBSET Key, MessagesDeleted(D)
      PROVE  gd'[i] \in {0, gd[i], rev + 1} /\ rev' = rev + 1
 BY <1>2, <1>a DEF MessagesDeleted, Commit, Deletions
<1>3. ASSUME \/ \E k \in Key : \E v \in 1 .. MaxVersion : LiveMessage(k, v)
             \/ \E S \in SUBSET Key : MarksChanged(S)
             \/ CacheInvalidated
      PROVE  gd'[i] \in {0, gd[i]} /\ rev' = rev + 1
 BY <1>3, <1>a DEF LiveMessage, MarksChanged, CacheInvalidated, Invalidated, Commit
<1>4. ASSUME NEW r \in Req, RequestStep(r) PROVE gd'[i] \in {0, gd[i]} /\ rev' \in {rev, rev + 1}
 BY <1>4, <1>a DEF RequestStep, StartRequest, StartDirect, StartSearch, CancelSearch,
    ServerAnswers, ServerAccepts, PageArrives, StalePageArrives, MessageLoaded,
    DirectArrives, RequestFails, Commit, CommitPruned, tables
<1>5. ASSUME Restart \/ AccountReset \/ UNCHANGED vars PROVE gd'[i] \in {0, gd[i]}
 BY <1>5, <1>a DEF Restart, AccountReset, vars, tables
<1> QED BY <1>a, <1>1, <1>2, <1>3, <1>4, <1>5 DEF Next, StreamStep

(* Rows and recorded deletions are dated no later than the last commit. *)
LEMMA DatedStep == TypeOK /\ Dated /\ [Next]_vars => Dated'
<1> SUFFICES ASSUME TypeOK, Dated, [Next]_vars PROVE Dated'
 OBVIOUS
<1>a. /\ rev \in Nat /\ gd \in [Id -> Nat]
      /\ \A k \in Key : rows[k].rev \in Nat /\ rows[k].rev <= rev
      /\ \A i \in Id : gd[i] <= rev
 BY CacheAssumption DEF TypeOK, RowType, Dated
<1>1. ASSUME NEW k \in Key PROVE rows'[k].rev <= rev' /\ rev <= rev'
 <2>1. rev' \in Nat /\ rev <= rev'
  BY <1>a, RowsStep
 <2> QED BY <1>a, <2>1, RowsStep DEF RowStep, NoRow
<1>2. ASSUME NEW i \in Id PROVE gd'[i] <= rev'
 <2>1. rev <= rev' /\ rev' \in Nat
  BY <1>a, RowsStep DEF Id
 <2> QED BY <1>a, <2>1, DeletionsStep
<1> QED BY <1>1, <1>2 DEF Dated

(* Every tombstone and recorded deletion stands for a deletion the stream told. *)
LEMMA TombstonesToldStep ==
  TypeOK /\ TombstonesTold /\ [Next]_vars => TombstonesTold'
<1> SUFFICES ASSUME TypeOK, TombstonesTold, [Next]_vars, NEW k \in Key,
                    rows'[k].ver = Gone \/ (IsCommon(k) /\ gd'[IdOf[k]] # 0)
             PROVE  told'[k] = Gone
 BY DEF TombstonesTold
<1> DEFINE i == IdOf[k]
<1>a. i \in Id /\ gd \in [Id -> Nat] /\ told \in [Key -> 0 .. Gone]
 BY DEF TypeOK, Id
<1>b. Gone \notin 1 .. MaxVersion /\ NoRow.ver # Gone
 BY VersionBounds, CacheAssumption DEF NoRow
<1>c. rows'[k].ver = Gone => rows[k].ver = Gone \/ told'[k] = Gone
 BY <1>b, RowsStep DEF RowStep
<1>d. rows[k].ver = Gone \/ (IsCommon(k) /\ gd[i] # 0) => told[k] = Gone
 BY DEF TombstonesTold
<1>1. ASSUME told'[k] = told[k], gd'[i] = gd[i] \/ gd'[i] = 0 PROVE told'[k] = Gone
 BY <1>1, <1>c, <1>d
<1>2. ASSUME NEW j \in Key, ServerWrites(j) \/ ServerDeletes(j) PROVE told'[k] = Gone
 BY <1>2, <1>1 DEF ServerWrites, ServerDeletes
<1>3. ASSUME NEW j \in Key, NEW v \in 1 .. MaxVersion, LiveMessage(j, v)
      PROVE  told'[k] = Gone
 <2>1. gd'[i] = gd[i] \/ gd'[i] = 0
  BY <1>3, <1>a DEF LiveMessage, Commit
 <2>2. told' = [told EXCEPT ![j] = v] /\ v >= told[j]
  BY <1>3, <1>a, VersionBounds DEF LiveMessage
 <2>3. CASE j # k
  BY <2>1, <2>2, <2>3, <1>1, <1>a
 <2>4. CASE j = k
  <3>1. told[k] # Gone
   BY <2>2, <2>4, <1>a, VersionBounds, CacheAssumption
  <3>2. rows[k].ver # Gone /\ (IsCommon(k) => gd[i] = 0)
   BY <3>1, <1>d
  <3> QED BY <2>1, <3>2, <1>c
 <2> QED BY <2>3, <2>4
<1>4. ASSUME NEW D \in SUBSET Key, MessagesDeleted(D) PROVE told'[k] = Gone
 <2>1. told' = [x \in Key |-> IF x \in D THEN Gone ELSE told[x]]
  BY <1>4 DEF MessagesDeleted
 <2>2. CASE k \in D
  BY <2>1, <2>2
 <2>3. CASE k \notin D
  <3>1. ASSUME IsCommon(k), gd'[i] # 0 PROVE gd[i] # 0
   <4>1. CASE Commit(DeletedInChannel(D), gd, gens)
    BY <4>1, <3>1, <1>a DEF Commit
   <4>2. CASE /\ \A x \in D : IsCommon(x)
              /\ Commit(DeletedInCommon(D), Deletions(D), gens)
    <5>1. ~ \E x \in D : IdOf[x] = i
     BY <4>2, <3>1, <2>3, CacheAssumption DEF IsCommon
    <5>2. gd'[i] = Deletions(D)[i]
     BY <4>2, <3>1, <1>a DEF Commit
    <5> QED BY <5>1, <5>2, <3>1, <1>a DEF Deletions
   <4> QED BY <1>4, <4>1, <4>2 DEF MessagesDeleted
  <3> QED BY <2>1, <2>3, <3>1, <1>c, <1>d
 <2> QED BY <2>2, <2>3
<1>5. ASSUME (\E S \in SUBSET Key : MarksChanged(S)) \/ CacheInvalidated
      PROVE  told'[k] = Gone
 <2>1. gd'[i] = gd[i] \/ gd'[i] = 0
  BY <1>5, <1>a DEF MarksChanged, CacheInvalidated, Invalidated, Commit
 <2>2. told' = told
  BY <1>5 DEF MarksChanged, CacheInvalidated, Invalidated, server
 <2> QED BY <2>1, <2>2, <1>1
<1>6. ASSUME NEW r \in Req, RequestStep(r) PROVE told'[k] = Gone
 <2>1. gd'[i] = gd[i] \/ gd'[i] = 0
  BY <1>6, <1>a DEF RequestStep, StartRequest, StartDirect, StartSearch, CancelSearch,
     ServerAnswers, ServerAccepts, PageArrives, StalePageArrives, MessageLoaded,
     DirectArrives, RequestFails, Commit, CommitPruned, tables
 <2>2. told' = told
  BY <1>6 DEF RequestStep, StartRequest, StartDirect, StartSearch, CancelSearch,
     ServerAnswers, ServerAccepts, PageArrives, StalePageArrives, MessageLoaded,
     DirectArrives, RequestFails, server
 <2> QED BY <2>1, <2>2, <1>1
<1>7. CASE Restart \/ UNCHANGED vars
 BY <1>7, <1>1 DEF Restart, vars, tables, server
<1>8. CASE AccountReset
 <2>1. rows'[k] = NoRow /\ gd'[i] = 0
  BY <1>8, <1>a DEF AccountReset
 <2> QED BY <2>1, <1>b
<1> QED BY <1>2, <1>3, <1>4, <1>5, <1>6, <1>7, <1>8 DEF Next, StreamStep

-----------------------------------------------------------------------------
(***************************************************************************)
(* Evidence survives.                                                      *)
(***************************************************************************)
(* The rows above a message are finitely many. *)
LEMMA AboveFinite ==
  ASSUME NEW rw, NEW k \in Key
  PROVE  /\ Above(rw, k) \in SUBSET Key
         /\ IsFiniteSet(Above(rw, k)) /\ Cardinality(Above(rw, k)) \in Nat
<1>1. Above(rw, k) \in SUBSET Key
 BY DEF Above
<1> QED BY <1>1, CacheAssumption, FS_Subset, FS_CardinalityType

\* A buried message stays buried while the rows of its chat stay.
LEMMA BuriedStays ==
  ASSUME NEW rw, NEW new, NEW k \in Key, Buried(rw, k),
         \A j \in KeysIn(ChatOf[k]) : Present(rw, j) => Present(new, j)
  PROVE  Buried(new, k)
<1>1. Above(rw, k) \in SUBSET Above(new, k)
 BY DEF Above, KeysIn
<1>2. Cardinality(Above(rw, k)) <= Cardinality(Above(new, k))
 BY <1>1, AboveFinite, FS_Subset
<1> QED BY <1>2, AboveFinite, CacheAssumption DEF Buried

\* Pruning its chat does not dig it out.
LEMMA PruneBuries ==
  ASSUME NEW rw, NEW new, NEW k \in Key, Buried(rw, k),
         \A j \in KeysIn(ChatOf[k]) :
            new[j] = IF j \in Dropped(rw, ChatOf[k]) THEN NoRow ELSE rw[j]
  PROVE  Buried(new, k)
<1> DEFINE S == Above(rw, k)
<1>1. /\ S \in SUBSET Key /\ MaxChat \in Nat
      /\ Cardinality(S) >= MaxChat
      /\ \A x, y \in S : ChatOf[x] = ChatOf[y]
 BY CacheAssumption DEF Above, Buried
<1>2. \A j \in S : Over(S, j) = Above(rw, j)
 BY CacheAssumption DEF Above, Over
<1>3. {x \in S : Cardinality(Over(S, x)) < MaxChat} \in SUBSET Above(new, k)
 <2> SUFFICES ASSUME NEW x \in S, Cardinality(Over(S, x)) < MaxChat
              PROVE  x \in Above(new, k)
  OBVIOUS
 <2>1. x \in Key /\ ChatOf[x] = ChatOf[k] /\ IdOf[x] > IdOf[k] /\ Present(rw, x)
  BY DEF Above
 <2>2. x \notin Dropped(rw, ChatOf[k])
  BY <1>1, <1>2, AboveFinite, CacheAssumption DEF Dropped
 <2>3. new[x] = rw[x]
  BY <2>1, <2>2 DEF KeysIn
 <2> QED BY <2>1, <2>3 DEF Above, Present
<1>4. Cardinality({x \in S : Cardinality(Over(S, x)) < MaxChat}) >= MaxChat
 <2> HIDE DEF S
 <2> QED BY <1>1, TopRanks
<1> HIDE DEF S
<1>5. Cardinality({x \in S : Cardinality(Over(S, x)) < MaxChat})
        <= Cardinality(Above(new, k))
 BY <1>3, AboveFinite, FS_Subset
<1>6. Cardinality({x \in S : Cardinality(Over(S, x)) < MaxChat}) \in Nat
 BY <1>1, <1>3, AboveFinite, FS_Subset, FS_CardinalityType
<1> QED BY <1>4, <1>5, <1>6, AboveFinite, CacheAssumption DEF Buried

\* Commit keeps the evidence against the answer of an unfinished request.
Keeps(rw, c) ==
    \A j \in KeysIn(c) :
        /\ Present(rows, j) => Present(rw, j)
        /\ rows[j].ver = Gone => rw[j].ver = Gone
        /\ rw[j].rev >= rows[j].rev

(* Evidence against a request survives a commit that keeps what rows say. *)
LEMMA HeldKept ==
  ASSUME TypeOK, Dated, FlightOK, Room,
         NEW rw \in [Key -> RowType], NEW g \in [Id -> Nat], NEW gs \in [Req -> Nat],
         Commit(rw, g, gs), \A i \in Id : g[i] >= gd[i], UNCHANGED forgot,
         NEW r \in Req, NEW k \in Key, gs[r] = gens[r], gens[r] # 0,
         ChatOf[k] = TargetOf[r], Keeps(rw, TargetOf[r]), Held(r, k)
  PROVE  Held(r, k)'
<1> DEFINE i == IdOf[k]
<1>a. /\ i \in Id /\ gd \in [Id -> Nat] /\ gens \in [Req -> Nat]
      /\ rows \in [Key -> RowType] /\ rows' = rw /\ gens' = gs
      /\ gens'[r] = gens[r] /\ k \in KeysIn(TargetOf[r])
 BY CommitFacts DEF TypeOK, Id, KeysIn
<1>1. CASE IsCommon(k) /\ gd[i] > gens[r]
 <2>1. g[i] >= gs[r]
  BY <1>1, <1>a
 <2>2. gd'[i] = g[i]
  BY <2>1, <1>a, CommitFacts
 <2> QED BY <1>1, <1>a, <2>2 DEF Held
<1>2. CASE rows[k].ver = Gone
 BY <1>2, <1>a DEF Held, Keeps
<1>3. CASE rows[k].rev > gens[r]
 <2>1. rw[k].rev >= rows[k].rev /\ rw[k].rev \in Nat /\ rows[k].rev \in Nat
  BY <1>a DEF Keeps, RowType
 <2> QED BY <1>3, <1>a, <2>1 DEF Held
<1>4. CASE KindOf[r] = "load" /\ forgot[k] > gens[r]
 BY <1>4, <1>a DEF Held
<1>5. CASE KindOf[r] # "load" /\ Buried(rows, k)
 BY <1>5, <1>a, BuriedStays DEF Held, Keeps
<1> QED BY <1>1, <1>2, <1>3, <1>4, <1>5 DEF Held

(* It also survives a commit that prunes the chat. *)
LEMMA HeldKeptPruned ==
  ASSUME TypeOK, Dated, FlightOK, Room,
         NEW rw \in [Key -> RowType], NEW gs \in [Req -> Nat], NEW c,
         CommitPruned(rw, c, gd, gs),
         NEW r \in Req, NEW k \in Key, gs[r] = gens[r], gens[r] # 0,
         ChatOf[k] = TargetOf[r], Keeps(rw, TargetOf[r]), Held(r, k)
  PROVE  Held(r, k)'
<1> DEFINE i == IdOf[k]
<1>a. /\ i \in Id /\ gd \in [Id -> Nat] /\ gens \in [Req -> Nat]
      /\ rows \in [Key -> RowType] /\ rev \in Nat
      /\ gens[r] <= rev /\ k \in KeysIn(TargetOf[r])
 BY CacheAssumption DEF TypeOK, Id, KeysIn, FlightOK
<1>b. /\ Commit(rows', gd, gs)
      /\ rows' = [j \in Key |-> IF j \in Dropped(rw, c) THEN NoRow ELSE rw[j]]
      /\ forgot' = [j \in Key |-> IF j \in Dropped(rw, c) THEN rev + 1 ELSE forgot[j]]
 BY <1>a, CommitPrunedFacts
<1>c. gens' = gs /\ gens'[r] = gens[r]
 BY <1>b DEF Commit
<1>1. CASE IsCommon(k) /\ gd[i] > gens[r]
 <2>1. gd[i] >= gs[r]
  BY <1>1, <1>a
 <2>2. gd'[i] = gd[i]
  BY <2>1, <1>a, <1>b, CommitFacts
 <2> QED BY <1>1, <1>c, <2>2 DEF Held
<1>2. CASE KindOf[r] = "load" /\ forgot[k] > gens[r]
 <2>1. forgot'[k] = rev + 1 \/ forgot'[k] = forgot[k]
  BY <1>b
 <2>2. forgot'[k] > gens[r]
  BY <2>1, <1>2, <1>a
 <2> QED BY <1>2, <2>2, <1>c DEF Held
<1>3. CASE KindOf[r] # "load" /\ Buried(rows, k)
 <2>1. Buried(rw, k)
  BY <1>3, <1>a, BuriedStays DEF Keeps
 <2>2. CASE c = ChatOf[k]
  <3>1. Buried(rows', k)
   BY <2>1, <2>2, <1>b, PruneBuries DEF KeysIn
  <3> QED BY <3>1, <1>3 DEF Held
 <2>3. CASE c # ChatOf[k]
  <3>1. \A j \in KeysIn(ChatOf[k]) : rows'[j] = rw[j]
   BY <2>3, <1>b DEF KeysIn, Dropped
  <3>2. Buried(rows', k)
   BY <2>1, <3>1, BuriedStays DEF Present
  <3> QED BY <3>2, <1>3 DEF Held
 <2> QED BY <2>2, <2>3
<1>4. CASE rows[k].ver = Gone \/ rows[k].rev > gens[r]
 <2>1. rw[k].ver = Gone \/ rw[k].rev > gens[r]
  <3>1. rw[k].rev >= rows[k].rev /\ rw[k].rev \in Nat /\ rows[k].rev \in Nat
   BY <1>a DEF Keeps, RowType
  <3>2. rows[k].ver = Gone => rw[k].ver = Gone
   BY <1>a DEF Keeps
  <3> QED BY <1>4, <3>1, <3>2, <1>a
 <2>2. CASE k \notin Dropped(rw, c)
  <3>1. rows'[k] = rw[k]
   BY <2>2, <1>b
  <3> QED BY <2>1, <3>1, <1>c DEF Held
 <2>3. CASE k \in Dropped(rw, c)
  <3>1. c = ChatOf[k] /\ Buried(rw, k)
   BY <2>3 DEF Dropped, KeysIn, Buried
  <3>2. Buried(rows', k)
   BY <3>1, <1>b, PruneBuries DEF KeysIn
  <3>3. forgot'[k] > gens[r]
   BY <2>3, <1>a, <1>b
  <3> QED BY <3>2, <3>3, <1>c DEF Held
 <2> QED BY <2>2, <2>3
<1> QED BY <1>1, <1>2, <1>3, <1>4 DEF Held

\* The rows the handlers build keep what the old rows said.
LEMMA RowsKeep ==
  ASSUME TypeOK, Dated
  PROVE  /\ \A c : Keeps(rows, c)
         /\ \A k \in Key : \A v \in 1 .. MaxVersion : \A started, via : \A c :
               Keeps([rows EXCEPT ![k] = Written(k, v, started, via)], c)
         /\ \A S : \A c : Keeps(Marked(rows, S), c)
         /\ \A r \in Req : \A S : \A c : Keeps(Marked(Filled(r, gens[r], "page"), S), c)
         /\ \A D : \A c : Keeps(DeletedInChannel(D), c) /\ Keeps(DeletedInCommon(D), c)
<1>a. /\ rows \in [Key -> RowType] /\ rev \in Nat
      /\ page \in [Req -> [Key -> 0 .. MaxVersion]]
      /\ \A k \in Key : rows[k].rev \in Nat /\ rows[k].rev <= rev /\ rows[k].ver \in 0 .. Gone
      /\ Gone \in Nat /\ Gone # 0 /\ MaxVersion \in Nat
      /\ \A c : KeysIn(c) \subseteq Key
 BY CacheAssumption, VersionBounds DEF TypeOK, RowType, Dated, KeysIn
<1>b. \A k \in Key : \A v \in 1 .. MaxVersion : \A started, via :
        LET new == Written(k, v, started, via) IN
        /\ Present(rows, k) => new.ver # 0
        /\ rows[k].ver = Gone => new.ver = Gone
        /\ new.rev >= rows[k].rev
 BY <1>a DEF Written, Refused, Present
<1>1. \A c : Keeps(rows, c)
 BY <1>a DEF Keeps
<1>2. ASSUME NEW k \in Key, NEW v \in 1 .. MaxVersion, NEW started, NEW via, NEW c
      PROVE  Keeps([rows EXCEPT ![k] = Written(k, v, started, via)], c)
 BY <1>a, <1>b DEF Keeps, Present
<1>3. ASSUME NEW S, NEW c PROVE Keeps(Marked(rows, S), c)
 BY <1>a DEF Keeps, Marked, Present, RowType
<1>4. ASSUME NEW r \in Req, NEW S, NEW c
      PROVE  Keeps(Marked(Filled(r, gens[r], "page"), S), c)
 <2> DEFINE f == Filled(r, gens[r], "page")
 <2>1. \A k \in Key : /\ Present(rows, k) => f[k].ver # 0
                      /\ rows[k].ver = Gone => f[k].ver = Gone
                      /\ f[k].rev >= rows[k].rev
  BY <1>a, <1>b DEF Filled, Present
 <2>2. f \in [Key -> RowType]
  BY RowsTyped
 <2> HIDE DEF f
 <2>3. \A k \in Key : /\ Marked(f, S)[k].ver = f[k].ver
                      /\ Marked(f, S)[k].rev = f[k].rev \/ Marked(f, S)[k].rev = rev + 1
  BY <2>2 DEF Marked, RowType
 <2>4. Keeps(Marked(f, S), c)
  BY <1>a, <2>1, <2>3 DEF Keeps, Present
 <2> QED BY <2>4 DEF f
<1>5. ASSUME NEW D, NEW c PROVE Keeps(DeletedInChannel(D), c) /\ Keeps(DeletedInCommon(D), c)
 BY <1>a DEF Keeps, DeletedInChannel, DeletedInCommon, Tombstone, Present
<1> QED BY <1>1, <1>2, <1>3, <1>4, <1>5

(* Every action keeps each answer in flight either as new as the stream, or
   contradicted by evidence that will refuse it. *)
LEMMA AnswersSafeStep == Inv /\ TypeOK' /\ [Next]_vars => AnswersSafe'
<1> SUFFICES ASSUME Inv, TypeOK', [Next]_vars,
                    NEW r \in Req, NEW k \in Key, gens'[r] # 0, page'[r][k] # 0
             PROVE  page'[r][k] >= told'[k] \/ Held(r, k)'
 BY DEF AnswersSafe
<1> DEFINE Safe == page'[r][k] >= told'[k] \/ Held(r, k)'
<1>a. /\ TypeOK /\ Dated /\ FlightOK /\ ToldBehind /\ AnswersSafe /\ TombstonesTold
      /\ rev \in Nat /\ rows \in [Key -> RowType] /\ gd \in [Id -> Nat]
      /\ gens \in [Req -> Nat] /\ page \in [Req -> [Key -> 0 .. MaxVersion]]
      /\ told \in [Key -> 0 .. Gone] /\ told' \in [Key -> 0 .. Gone]
      /\ page'[r][k] \in Nat /\ Gone \in Nat /\ MaxVersion \in Nat
 BY CacheAssumption, VersionBounds DEF Inv, TypeOK
<1>b. \A i \in Id : gd[i] >= gd[i]
 BY <1>a
\* The request was already in flight with this answer.
<1> DEFINE Same == gens[r] = gens'[r] /\ page[r][k] = page'[r][k]
<1>c. Same => gens[r] # 0 /\ gens[r] <= rev /\ ChatOf[k] = TargetOf[r]
              /\ (page'[r][k] >= told[k] \/ Held(r, k))
 BY <1>a DEF FlightOK, AnswersSafe
<1>d. ASSUME Same, told'[k] = told[k], Held(r, k) => Held(r, k)' PROVE Safe
 BY <1>c, <1>d
<1>e. ASSUME Room, NEW rw \in [Key -> RowType], NEW g \in [Id -> Nat],
             NEW gs \in [Req -> Nat], Commit(rw, g, gs), \A i \in Id : g[i] >= gd[i],
             gs[r] = gens[r], UNCHANGED forgot, Keeps(rw, TargetOf[r]),
             page[r][k] = page'[r][k]
      PROVE  Same /\ (Held(r, k) => Held(r, k)')
 <2>1. Same
  BY <1>e DEF Commit
 <2> QED BY <1>a, <1>c, <1>e, <2>1, HeldKept
<1>f. \A q \in Req : Retired(q) \in [Req -> Nat]
 BY <1>a DEF Retired
<1>g. \A q \in Req : \A j \in Key : page[q][j] # 0 => page[q][j] \in 1 .. MaxVersion
 BY <1>a
<1>1. ASSUME NEW j \in Key, ServerWrites(j) \/ ServerDeletes(j) PROVE Safe
 BY <1>1, <1>d DEF ServerWrites, ServerDeletes, Held
<1>2. ASSUME NEW j \in Key, NEW v \in 1 .. MaxVersion, LiveMessage(j, v) PROVE Safe
 <2> DEFINE rw == [rows EXCEPT ![j] = Written(j, v, rev + 1, "live")]
 <2>0. rw \in [Key -> RowType] /\ Keeps(rw, TargetOf[r])
  BY <1>a, RowsTyped, RowsKeep
 <2>1. /\ rw \in [Key -> RowType] /\ Keeps(rw, TargetOf[r]) /\ Room
       /\ Commit(rw, gd, gens) /\ page' = page /\ UNCHANGED forgot
       /\ told' = [told EXCEPT ![j] = v] /\ v >= told[j]
  BY <1>2, <2>0, <1>a DEF LiveMessage
 <2>2. CASE j # k
  <3> HIDE DEF rw
  <3> QED BY <2>1, <2>2, <1>a, <1>b, <1>d, <1>e
 <2>3. CASE j = k
  <3>1. told[k] # Gone
   BY <2>1, <2>3, <1>a, VersionBounds
  <3>2. rows[k].rev \in Nat /\ rows[k].rev <= rev
   BY <1>a DEF Dated, RowType
  <3>3. ~Refused(k, rev + 1)
   BY <3>1, <3>2, <1>a DEF Refused, TombstonesTold
  <3>4. rows'[k].rev = rev + 1
   BY <2>1, <2>3, <3>3, <1>a DEF Written, Commit
  <3>5. gens'[r] <= rev
   BY <2>1, <1>c DEF Commit
  <3>6. rows'[k].rev > gens'[r]
   BY <3>4, <3>5, <1>a, <2>1 DEF Commit
  <3> QED BY <3>6 DEF Held
 <2> QED BY <2>2, <2>3
<1>3. ASSUME NEW D \in SUBSET Key, MessagesDeleted(D) PROVE Safe
 <2>1. /\ Room /\ page' = page /\ UNCHANGED forgot
       /\ told' = [x \in Key |-> IF x \in D THEN Gone ELSE told[x]]
  BY <1>3 DEF MessagesDeleted
 <2>2. Deletions(D) \in [Id -> Nat] /\ \A i \in Id : Deletions(D)[i] >= gd[i]
  BY <1>a, RowsTyped DEF Deletions, Dated
 <2>3. CASE Commit(DeletedInChannel(D), gd, gens)
  <3>1. DeletedInChannel(D) \in [Key -> RowType] /\ Keeps(DeletedInChannel(D), TargetOf[r])
   BY <1>a, RowsTyped, RowsKeep
  <3>2. CASE k \in D
   BY <2>3, <3>2 DEF Commit, DeletedInChannel, Tombstone, Held
  <3>3. CASE k \notin D
   BY <2>1, <2>3, <3>1, <3>3, <1>a, <1>b, <1>d, <1>e
  <3> QED BY <3>2, <3>3
 <2>4. CASE /\ \A x \in D : IsCommon(x)
            /\ Commit(DeletedInCommon(D), Deletions(D), gens)
  <3>1. DeletedInCommon(D) \in [Key -> RowType] /\ Keeps(DeletedInCommon(D), TargetOf[r])
   BY <1>a, RowsTyped, RowsKeep
  <3>2. CASE k \in D
   <4>1. Deletions(D)[IdOf[k]] = rev + 1 /\ IdOf[k] \in Id
    BY <3>2 DEF Deletions, Id
   <4>2. gd'[IdOf[k]] = rev + 1 /\ gens' = gens
    <5> DEFINE g == Deletions(D)
    <5>1. Commit(DeletedInCommon(D), g, gens) /\ g \in [Id -> Nat] /\ g[IdOf[k]] > rev
     BY <2>2, <2>4, <4>1, <1>a
    <5> HIDE DEF g
    <5>2. gd'[IdOf[k]] = g[IdOf[k]] /\ gens' = gens
     BY <5>1, <4>1, <2>1, <1>a, CommitFacts
    <5> QED BY <5>2, <4>1 DEF g
   <4>3. gd'[IdOf[k]] > gens'[r]
    BY <4>2, <1>a, <1>c, <2>1
   <4> QED BY <2>4, <3>2, <4>3 DEF Held, IsCommon
  <3>3. CASE k \notin D
   <4>1. Same
    BY <2>1, <2>4 DEF Commit
   <4>2. SUFFICES ASSUME Held(r, k) PROVE Held(r, k)'
    BY <2>1, <3>3, <4>1, <1>c
   <4> QED BY <2>1, <2>2, <2>4, <3>1, <4>1, <4>2, <1>a, <1>c, HeldKept
  <3> QED BY <3>2, <3>3
 <2> QED BY <1>3, <2>3, <2>4 DEF MessagesDeleted
<1>4. ASSUME NEW S \in SUBSET Key, MarksChanged(S) PROVE Safe
 <2>1. Marked(rows, S) \in [Key -> RowType] /\ Keeps(Marked(rows, S), TargetOf[r])
  BY <1>a, RowsTyped, RowsKeep
 <2>2. /\ Room /\ Commit(Marked(rows, S), gd, gens) /\ page' = page
       /\ told' = told /\ forgot' = forgot
  BY <1>4 DEF MarksChanged, server
 <2> QED BY <2>1, <2>2, <1>a, <1>b, <1>d, <1>e
<1>5. ASSUME NEW C, Invalidated(C) PROVE Safe
 <2> DEFINE rw == [j \in Key |-> IF ChatOf[j] \in C THEN NoRow ELSE rows[j]]
            gs == [q \in Req |-> IF TargetOf[q] \in C THEN 0 ELSE gens[q]]
 <2>1. /\ Room /\ Commit(rw, gd, gs) /\ page' = page /\ told' = told /\ forgot' = forgot
  BY <1>5 DEF Invalidated, server
 <2>2. rw \in [Key -> RowType] /\ gs \in [Req -> Nat]
  BY <1>a, VersionBounds DEF NoRow, RowType
 <2>3. TargetOf[r] \notin C
  BY <2>1 DEF Commit
 <2>4. Keeps(rw, TargetOf[r])
  <3>1. \A j \in KeysIn(TargetOf[r]) : j \in Key /\ rw[j] = rows[j]
   BY <2>3 DEF KeysIn
  <3> HIDE DEF rw
  <3>2. \A j \in Key : rows[j].rev \in Nat
   BY <1>a DEF RowType
  <3> QED BY <3>1, <3>2 DEF Keeps, Present
 <2>5. gs[r] = gens[r]
  BY <2>3
 <2> HIDE DEF rw, gs
 <2> QED BY <2>1, <2>2, <2>4, <2>5, <1>a, <1>b, <1>d, <1>e
<1>6. ASSUME NEW q \in Req, StartRequest(q) PROVE Safe
 <2>1. /\ Room /\ Commit(rows, gd, [gens EXCEPT ![q] = rev + 1]) /\ page' = page
       /\ told' = told /\ forgot' = forgot /\ status[q] = "idle"
  BY <1>6 DEF StartRequest, server
 <2>2. q # r
  BY <2>1, <1>a DEF FlightOK
 <2>3. [gens EXCEPT ![q] = rev + 1] \in [Req -> Nat] /\ Keeps(rows, TargetOf[r])
  BY <1>a, RowsKeep
 <2> QED BY <2>1, <2>2, <2>3, <1>a, <1>b, <1>d, <1>e
<1>7. ASSUME NEW q \in Req, StartDirect(q) PROVE Safe
 BY <1>7, <1>d DEF StartDirect, tables, server, Held
<1>8. ASSUME NEW q \in Req, StartSearch(q) PROVE Safe
 <2> DEFINE gs == [x \in Req |-> IF x = q THEN rev + 1
                                 ELSE IF x \in Searches THEN 0 ELSE gens[x]]
 <2>1. /\ Room /\ Commit(rows, gd, gs) /\ told' = told /\ forgot' = forgot
       /\ page' = [x \in Req |-> IF x \in Searches THEN EmptyPage ELSE page[x]]
  BY <1>8 DEF StartSearch, server
 <2>2. r \notin Searches /\ page[r][k] = page'[r][k]
  BY <2>1 DEF EmptyPage
 <2>3. gs \in [Req -> Nat] /\ Keeps(rows, TargetOf[r])
  BY <1>a, RowsKeep
 <2>4. q \in Searches
  BY <1>8 DEF StartSearch, Searches
 <2>5. gs[r] = gens[r]
  BY <2>2, <2>4
 <2> HIDE DEF gs
 <2> QED BY <2>1, <2>2, <2>3, <2>5, <1>a, <1>b, <1>d, <1>e
<1>9. ASSUME NEW q \in Req, CancelSearch(q) \/ RequestFails(q) PROVE Safe
 <2>1. /\ Room /\ Commit(rows, gd, Retired(q)) /\ told' = told /\ forgot' = forgot
       /\ page' = [page EXCEPT ![q] = EmptyPage]
  BY <1>9 DEF CancelSearch, RequestFails, Freed, server
 <2>2. q # r
  BY <2>1, <1>a DEF EmptyPage
 <2>3. Keeps(rows, TargetOf[r]) /\ Retired(q) \in [Req -> Nat] /\ Retired(q)[r] = gens[r]
  BY <1>a, <1>f, <2>2, RowsKeep DEF Retired
 <2> QED BY <2>1, <2>2, <2>3, <1>a, <1>b, <1>d, <1>e
<1>10. ASSUME NEW q \in Req, NEW S \in SUBSET Key, ServerAnswers(q, S) PROVE Safe
 <2>1. UNCHANGED <<rev, rows, gd, forgot, gens, srv, told>>
  BY <1>10 DEF ServerAnswers, tables, server
 <2>2. CASE q # r
  BY <1>10, <2>1, <2>2, <1>a, <1>d DEF ServerAnswers, Held
 <2>3. CASE q = r
  BY <1>10, <2>1, <2>3, <1>a DEF ServerAnswers, ToldBehind, TypeOK
 <2> QED BY <2>2, <2>3
<1>11. ASSUME NEW q \in Req, NEW j \in Key, ServerAccepts(q, j) PROVE Safe
 <2>1. UNCHANGED <<rev, rows, gd, forgot, gens, told>>
  BY <1>11 DEF ServerAccepts, tables
 <2>2. q # r
  BY <1>11, <2>1, <1>a DEF ServerAccepts, FlightOK
 <2>3. page'[r] = page[r]
  BY <1>11, <2>2, <1>a DEF ServerAccepts
 <2> QED BY <2>1, <2>3, <1>d DEF Held
<1>12. ASSUME NEW q \in Req, NEW S \in SUBSET Key, PageArrives(q, S) PROVE Safe
 <2> DEFINE rw == Marked(Filled(q, gens[q], "page"), S)
 <2>1. /\ Room /\ CommitPruned(rw, TargetOf[q], gd, Retired(q))
       /\ page' = [page EXCEPT ![q] = EmptyPage] /\ told' = told
  BY <1>12 DEF PageArrives, Freed, server
 <2>2. q # r
  BY <2>1, <1>a DEF EmptyPage
 <2>3. rw \in [Key -> RowType] /\ Keeps(rw, TargetOf[r])
  BY <1>a, RowsTyped, RowsKeep
 <2> HIDE DEF rw
 <2>4. Retired(q) \in [Req -> Nat] /\ Retired(q)[r] = gens[r] /\ page'[r] = page[r]
  BY <2>1, <2>2, <1>a, <1>f DEF Retired
 <2>5. Same
  BY <2>1, <2>4 DEF CommitPruned, Commit
 <2> QED BY <2>1, <2>3, <2>4, <2>5, <1>a, <1>c, <1>d, HeldKeptPruned
<1>13. ASSUME NEW q \in Req, StalePageArrives(q) PROVE Safe
 <2>1. /\ Room /\ Commit(rows, gd, gens) /\ told' = told /\ forgot' = forgot
       /\ page' = [page EXCEPT ![q] = EmptyPage]
  BY <1>13 DEF StalePageArrives, Freed, server
 <2>2. q # r
  BY <2>1, <1>a DEF EmptyPage
 <2>3. Keeps(rows, TargetOf[r])
  BY <1>a, RowsKeep
 <2> QED BY <2>1, <2>2, <2>3, <1>a, <1>b, <1>d, <1>e
<1>14. ASSUME NEW q \in Req, NEW j \in Key, MessageLoaded(q, j) PROVE Safe
 <2> DEFINE rw == [rows EXCEPT ![j] = Written(j, page[q][j], LoadStarted(q), LoadVia(q, j))]
 <2>1. /\ Room /\ Commit(rw, gd, Retired(q)) /\ told' = told /\ forgot' = forgot
       /\ page' = [page EXCEPT ![q] = EmptyPage]
       /\ page[q][j] \in 1 .. MaxVersion
  BY <1>14, <1>g DEF MessageLoaded, Freed, server
 <2>2. q # r
  BY <2>1, <1>a DEF EmptyPage
 <2>3. rw \in [Key -> RowType] /\ Keeps(rw, TargetOf[r])
  BY <2>1, <1>a, RowsTyped, RowsKeep DEF LoadVia
 <2>4. Retired(q) \in [Req -> Nat] /\ Retired(q)[r] = gens[r] /\ page'[r] = page[r]
  BY <2>1, <2>2, <1>a, <1>f DEF Retired
 <2> HIDE DEF rw
 <2> QED BY <2>1, <2>3, <2>4, <1>a, <1>b, <1>d, <1>e
<1>15. ASSUME NEW q \in Req, NEW j \in Key, DirectArrives(q, j) PROVE Safe
 <2> DEFINE rw == [rows EXCEPT ![j] = Written(j, page[q][j], rev + 1, "stray")]
 <2>1. /\ Room /\ Commit(rw, gd, gens) /\ told' = told /\ forgot' = forgot
       /\ page' = [page EXCEPT ![q] = EmptyPage]
       /\ page[q][j] \in 1 .. MaxVersion
  BY <1>15, <1>g DEF DirectArrives, Freed, server
 <2>2. q # r
  BY <2>1, <1>a DEF EmptyPage
 <2>3. rw \in [Key -> RowType] /\ Keeps(rw, TargetOf[r])
  BY <2>1, <1>a, RowsTyped, RowsKeep
 <2>4. page'[r] = page[r]
  BY <2>1, <2>2, <1>a
 <2> HIDE DEF rw
 <2> QED BY <2>1, <2>3, <2>4, <1>a, <1>b, <1>d, <1>e
<1>16. CASE Restart
 BY <1>16 DEF Restart
<1>17. CASE AccountReset
 BY <1>17 DEF AccountReset
<1>18. CASE UNCHANGED vars
 BY <1>18, <1>d DEF vars, Held
<1>19. ASSUME NEW q \in Req, RequestStep(q) PROVE Safe
 BY <1>19, <1>6, <1>7, <1>8, <1>9, <1>10, <1>11, <1>12, <1>13, <1>14, <1>15
    DEF RequestStep
<1>20. StreamStep => Safe
 BY <1>2, <1>3, <1>4, <1>5 DEF StreamStep, CacheInvalidated
<1> QED BY <1>1, <1>16, <1>17, <1>18, <1>19, <1>20 DEF Next

-----------------------------------------------------------------------------
(***************************************************************************)
(* What is written is not behind what was told.                            *)
(***************************************************************************)
\* The answers that a handler does not refuse, and does not prune at once.
LEMMA Unrefused ==
  ASSUME Inv, NEW r \in Req, NEW k \in Key, gens[r] # 0, page[r][k] # 0,
         ~Refused(k, gens[r])
  PROVE  \/ page[r][k] >= told[k]
         \/ KindOf[r] = "load" /\ forgot[k] > gens[r]
         \/ KindOf[r] # "load" /\ Buried(rows, k)
<1>1. gd[IdOf[k]] > gens[r] => gd[IdOf[k]] # 0
 BY CacheAssumption DEF Inv, TypeOK, Id
<1> QED BY <1>1 DEF Inv, AnswersSafe, Held, Refused

(* No action shows a message by a checked answer that the stream overtook. *)
LEMMA SnapshotsStep == Inv /\ TypeOK' /\ [Next]_vars => SnapshotsNeverUndo'
<1> SUFFICES ASSUME Inv, TypeOK', [Next]_vars, NEW k \in Key,
                    Visible(rows', k), rows'[k].via # "stray"
             PROVE  rows'[k].ver >= told'[k]
 BY DEF SnapshotsNeverUndo, Visible
<1> DEFINE Good == rows'[k].ver >= told'[k]
<1>a. /\ TypeOK /\ SnapshotsNeverUndo /\ Dated
      /\ rows \in [Key -> RowType] /\ told \in [Key -> 0 .. Gone] /\ gens \in [Req -> Nat]
      /\ page \in [Req -> [Key -> 0 .. MaxVersion]]
      /\ Gone \in Nat /\ Gone \notin 1 .. MaxVersion /\ 0 \notin 1 .. MaxVersion
      /\ rows'[k].ver \in 1 .. MaxVersion
 BY CacheAssumption, VersionBounds DEF Inv, TypeOK, Visible
<1>b. ASSUME rows'[k].ver = rows[k].ver, rows'[k].via = rows[k].via, told'[k] = told[k]
      PROVE  Good
 BY <1>a, <1>b DEF SnapshotsNeverUndo, Visible
<1>1. ASSUME NEW j \in Key, ServerWrites(j) \/ ServerDeletes(j) PROVE Good
 BY <1>1, <1>b DEF ServerWrites, ServerDeletes
<1>2. ASSUME NEW j \in Key, NEW v \in 1 .. MaxVersion, LiveMessage(j, v) PROVE Good
 <2>1. /\ rows' = [rows EXCEPT ![j] = Written(j, v, rev + 1, "live")]
       /\ told' = [told EXCEPT ![j] = v] /\ v \in told[j] .. srv[j]
  BY <1>2 DEF LiveMessage, Commit
 <2>2. CASE j # k
  BY <2>1, <2>2, <1>a, <1>b
 <2>3. CASE j = k
  <3>1. told'[k] = v /\ v \in Nat /\ told[k] <= v
   BY <2>1, <2>3, <1>a
  <3>2. told[k] # Gone
   BY <3>1, <1>a, VersionBounds
  <3>3. rows[k].ver # Gone /\ (IsCommon(k) => gd[IdOf[k]] = 0)
   BY <3>2 DEF Inv, TombstonesTold
  <3>4. ~(rows[k].rev > rev + 1)
   BY <1>a, CacheAssumption DEF Dated, TypeOK, RowType
  <3>5. rows'[k] = [ver |-> v, rev |-> rev + 1, via |-> "live"]
   BY <2>1, <2>3, <3>3, <3>4, <1>a DEF Written, Refused
  <3> QED BY <3>1, <3>5
 <2> QED BY <2>2, <2>3
<1>3. ASSUME NEW D \in SUBSET Key, MessagesDeleted(D) PROVE Good
 <2>1. told' = [x \in Key |-> IF x \in D THEN Gone ELSE told[x]]
  BY <1>3 DEF MessagesDeleted
 <2>2. rows' = DeletedInChannel(D) \/ rows' = DeletedInCommon(D)
  BY <1>3 DEF MessagesDeleted, Commit
 <2>3. k \notin D /\ rows'[k] = rows[k]
  BY <2>2, <1>a DEF DeletedInChannel, DeletedInCommon, Tombstone, Present
 <2> QED BY <2>1, <2>3, <1>b
<1>4. ASSUME NEW S \in SUBSET Key, MarksChanged(S) PROVE Good
 <2>1. rows' = Marked(rows, S) /\ told' = told
  BY <1>4 DEF MarksChanged, Commit, server
 <2>2. rows'[k].ver = rows[k].ver /\ rows'[k].via = rows[k].via
  BY <2>1, <1>a DEF Marked, RowType
 <2> QED BY <2>1, <2>2, <1>b
<1>5. ASSUME NEW C, Invalidated(C) PROVE Good
 <2>1. /\ rows' = [j \in Key |-> IF ChatOf[j] \in C THEN NoRow ELSE rows[j]]
       /\ told' = told
  BY <1>5 DEF Invalidated, Commit, server
 <2>2. rows'[k] = rows[k]
  BY <2>1, <1>a DEF NoRow
 <2> QED BY <2>1, <2>2, <1>b
<1>6. ASSUME NEW r \in Req, NEW S \in SUBSET Key, PageArrives(r, S) PROVE Good
 <2> DEFINE f == Filled(r, gens[r], "page")
            rw == Marked(f, S)
            c == TargetOf[r]
 <2>1. /\ Room /\ CommitPruned(rw, c, gd, Retired(r)) /\ told' = told
       /\ gens[r] # 0 /\ KindOf[r] # "load"
  BY <1>6 DEF PageArrives, server
 <2>2. f \in [Key -> RowType] /\ rw \in [Key -> RowType] /\ Keeps(rw, c)
  BY <1>a, RowsTyped, RowsKeep
 <2>3. rw[k].ver = f[k].ver /\ rw[k].via = f[k].via
  BY <2>2 DEF Marked, RowType
 <2>4. f[k] = rows[k] \/ (/\ page[r][k] # 0 /\ ~Refused(k, gens[r])
                          /\ f[k].ver = page[r][k])
  BY DEF Filled, Written
 <2> HIDE DEF f
 <2>5. k \notin Dropped(rw, c) /\ rows'[k] = rw[k]
  BY <2>1, <1>a DEF CommitPruned, Commit, NoRow
 <2>6. CASE f[k] = rows[k]
  BY <2>1, <2>3, <2>5, <2>6, <1>b
 <2>7. CASE page[r][k] # 0 /\ ~Refused(k, gens[r]) /\ f[k].ver = page[r][k]
  <3>1. page[r][k] >= told[k] \/ Buried(rows, k)
   BY <2>1, <2>7, Unrefused
  <3>2. CASE page[r][k] >= told[k]
   BY <2>1, <2>3, <2>5, <2>7, <3>2
  <3>3. CASE Buried(rows, k)
   <4>1. ChatOf[k] = c
    BY <2>7, <1>a DEF Inv, FlightOK
   <4>2. Buried(rw, k)
    BY <2>2, <3>3, <4>1, BuriedStays DEF Keeps
   <4>3. Present(rw, k)
    BY <2>5, <1>a DEF Present
   <4>4. k \in Dropped(rw, c)
    BY <4>1, <4>2, <4>3 DEF Dropped, KeysIn, Buried
   <4> QED BY <4>4, <2>5
  <3> QED BY <3>1, <3>2, <3>3
 <2> QED BY <2>4, <2>6, <2>7
<1>7. ASSUME NEW r \in Req, NEW j \in Key, MessageLoaded(r, j) PROVE Good
 <2>1. /\ rows' = [rows EXCEPT ![j] = Written(j, page[r][j], LoadStarted(r), LoadVia(r, j))]
       /\ told' = told /\ page[r][j] # 0 /\ KindOf[r] = "load"
  BY <1>7 DEF MessageLoaded, Commit, server
 <2>2. CASE rows'[k] = rows[k]
  BY <2>1, <2>2, <1>b
 <2>3. CASE rows'[k] # rows[k]
  <3>1. j = k /\ ~Refused(k, LoadStarted(r))
        /\ rows'[k] = [ver |-> page[r][k], rev |-> rev + 1, via |-> LoadVia(r, k)]
   BY <2>1, <2>3, <1>a DEF Written
  <3>2. gens[r] # 0 /\ forgot[k] < gens[r]
   BY <3>1 DEF LoadVia
  <3>3. ~(forgot[k] > gens[r])
   BY <3>2, <1>a DEF TypeOK
  <3>4. page[r][k] >= told[k]
   BY <2>1, <3>1, <3>2, <3>3, Unrefused DEF LoadStarted
  <3> QED BY <2>1, <3>1, <3>4
 <2> QED BY <2>2, <2>3
<1>8. ASSUME NEW r \in Req, NEW j \in Key, DirectArrives(r, j) PROVE Good
 <2>1. /\ rows' = [rows EXCEPT ![j] = Written(j, page[r][j], rev + 1, "stray")]
       /\ told' = told
  BY <1>8 DEF DirectArrives, Commit, server
 <2>2. rows'[k] = rows[k]
  BY <2>1, <1>a DEF Written
 <2> QED BY <2>1, <2>2, <1>b
<1>9. ASSUME NEW r \in Req, RequestStep(r),
             ~ \E S \in SUBSET Key : PageArrives(r, S),
             ~ \E j \in Key : MessageLoaded(r, j) \/ DirectArrives(r, j)
      PROVE  Good
 <2>1. rows' = rows
  BY <1>9 DEF RequestStep, StartRequest, StartDirect, StartSearch, CancelSearch,
     ServerAnswers, ServerAccepts, StalePageArrives, RequestFails, Commit, tables
 <2>2. told' = told
  BY <1>9 DEF RequestStep, StartRequest, StartDirect, StartSearch, CancelSearch,
     ServerAnswers, ServerAccepts, StalePageArrives, RequestFails, server
 <2> QED BY <2>1, <2>2, <1>b
<1>10. CASE Restart \/ UNCHANGED vars
 BY <1>10, <1>b DEF Restart, vars, tables, server
<1>11. CASE AccountReset
 BY <1>11, <1>a DEF AccountReset, NoRow
<1> QED BY <1>1, <1>2, <1>3, <1>4, <1>5, <1>6, <1>7, <1>8, <1>9, <1>10, <1>11
        DEF Next, StreamStep, CacheInvalidated

-----------------------------------------------------------------------------
(* The invariant holds at the start. *)
LEMMA InvInit == Init => Inv
<1> SUFFICES ASSUME Init PROVE Inv
 OBVIOUS
<1>1. TypeOK
 BY TypeInit
<1>2. Gone \in Nat /\ Gone # 0 /\ \A k \in Key : IdOf[k] \in Id
 BY VersionBounds, CacheAssumption DEF Id
<1>3. ToldBehind /\ FlightOK /\ Dated
 BY DEF Init, ToldBehind, FlightOK, Dated, EmptyPage, NoRow
<1>4. TombstonesTold
 BY <1>2 DEF Init, TombstonesTold, NoRow
<1>5. SnapshotsNeverUndo /\ AnswersSafe
 BY DEF Init, SnapshotsNeverUndo, AnswersSafe, Visible, NoRow
<1> QED BY <1>1, <1>3, <1>4, <1>5 DEF Inv

(* Every action keeps the invariant. *)
LEMMA InvStep == Inv /\ [Next]_vars => Inv'
<1> SUFFICES ASSUME Inv, [Next]_vars PROVE Inv'
 OBVIOUS
<1>1. TypeOK'
 BY TypeStep DEF Inv
<1>2. ToldBehind' /\ FlightOK' /\ Dated' /\ TombstonesTold'
 BY ToldBehindStep, FlightStep, DatedStep, TombstonesToldStep DEF Inv
<1>3. SnapshotsNeverUndo' /\ AnswersSafe'
 BY <1>1, SnapshotsStep, AnswersSafeStep
<1> QED BY <1>1, <1>2, <1>3 DEF Inv

(* The invariant holds in every reachable state. *)
LEMMA InvAlways == Spec => []Inv
  BY InvInit, InvStep, PTL DEF Spec

(* The tables, the generations and the answers in flight stay within their
   types whatever the stream, the server and the requests do. *)
THEOREM CacheTypeOK == Spec => []TypeOK
<1>1. Inv => TypeOK
 BY DEF Inv
<1> QED BY <1>1, InvAlways, PTL

(* For any number of messages, chats, requests, pruning and deletion bounds: a
   message in the cache that a checked answer of an RPC wrote (history page,
   pins, cloud search, single message) is not deleted and not older than the
   latest state the update stream delivered. *)
THEOREM CacheSnapshotsNeverUndo == Spec => []SnapshotsNeverUndo
<1>1. Inv => SnapshotsNeverUndo
 BY DEF Inv
<1> QED BY <1>1, InvAlways, PTL

-----------------------------------------------------------------------------
(***************************************************************************)
(* Remembered deletions.  They are trimmed by their revision and id, and   *)
(* the first of those that were not trimmed has all the others after it.   *)
(***************************************************************************)
LEMMA LeastFound ==
  ASSUME NEW S \in SUBSET Nat, S # {}
  PROVE  \E x \in S : \A y \in S : x <= y
<1>1. \E x \in S : \A y \in S : ~ (<<y, x>> \in OpToRel(<, Nat))
 BY WFMin, NatLessThanWellFounded, Zenon
<1>2. \A x, y \in Nat : x <= y \/ <<y, x>> \in OpToRel(<, Nat)
 <2>1. \A x, y \in Nat : y < x => <<y, x>> \in OpToRel(<, Nat)
  BY Zenon DEF OpToRel
 <2>2. \A x, y \in Nat : x <= y \/ y < x
  OBVIOUS
 <2> QED BY <2>1, <2>2, Zenon
<1> QED BY <1>1, <1>2, Zenon

LEMMA IdsFinite == IsFiniteSet(Id)
<1>1. IdOf \in Surjection(Key, Id)
 BY CacheAssumption DEF Surjection, Id
<1> QED BY <1>1, CacheAssumption, FS_Surjection

LEMMA FewAreKept ==
  ASSUME NEW g \in [Id -> Nat], NEW R \in SUBSET Id,
         \A i \in R : Cardinality(Later(g, i)) < MaxDeletions
  PROVE  Cardinality(R) <= MaxDeletions
<1>1. IsFiniteSet(Id) /\ Id \subseteq Nat /\ MaxDeletions \in Nat
 BY CacheAssumption, IdsFinite DEF Id
<1>2. IsFiniteSet(R)
 BY <1>1, FS_Subset
<1>3. CASE R = {}
 BY <1>1, <1>3, FS_EmptySet
<1>4. CASE R # {}
 <2> DEFINE dates == {g[j] : j \in R}
 <2>1. dates \subseteq Nat /\ dates # {}
  BY <1>4
 <2>2. PICK d \in dates : \A e \in dates : d <= e
  BY <2>1, LeastFound
 <2> DEFINE first == {j \in R : g[j] = d}
 <2>3. first \subseteq Nat /\ first # {}
  BY <1>1, <2>2
 <2>4. PICK i \in first : \A j \in first : i <= j
  BY <2>3, LeastFound
 <2>5. ASSUME NEW j \in R, j # i PROVE j \in Later(g, i)
  <3>1. i \in R /\ g[i] = d /\ d <= g[j] /\ g[j] \in Nat /\ d \in Nat
   BY <2>1, <2>2, <2>4
  <3>2. CASE g[j] = d
   <4>1. i <= j /\ i \in Nat /\ j \in Nat
    BY <1>1, <2>4, <3>2
   <4> QED BY <2>5, <3>1, <3>2, <4>1 DEF Later
  <3>3. CASE g[j] # d
   BY <3>1, <3>3 DEF Later
  <3> QED BY <3>2, <3>3
 <2>6. i \in R
  BY <2>4
 <2>7. Later(g, i) \subseteq Id
  BY DEF Later
 <2>8. IsFiniteSet(Later(g, i)) /\ Cardinality(Later(g, i)) \in Nat
  BY <1>1, <2>7, FS_Subset, FS_CardinalityType
 <2>9. R \ {i} \subseteq Later(g, i)
  BY <2>5
 <2>10. Cardinality(R \ {i}) <= Cardinality(Later(g, i))
  BY <2>8, <2>9, FS_Subset
 <2>11. Cardinality(R \ {i}) = Cardinality(R) - 1 /\ Cardinality(R) \in Nat
  BY <1>2, <2>6, FS_RemoveElement, FS_CardinalityType
 <2>12. Cardinality(Later(g, i)) < MaxDeletions
  BY <2>6
 <2> QED BY <1>1, <2>8, <2>10, <2>11, <2>12
<1> QED BY <1>3, <1>4

(* An event trims what it leaves, or forgets the account. *)
Trims ==
    /\ rev' = rev + 1
    /\ \E g \in [Id -> Nat] : gd' = [i \in Id |-> IF Obsolete(g, gens', i) THEN 0 ELSE g[i]]

LEMMA EventTrims ==
  ASSUME TypeOK, [Next]_vars, rev' > rev
  PROVE  Trims \/ gd' = [i \in Id |-> 0]
<1>0. rev \in Nat /\ gd \in [Id -> Nat] /\ ~(rev > rev)
 BY CacheAssumption DEF TypeOK
<1>1. ASSUME NEW rw, NEW gs, Commit(rw, gd, gs) PROVE Trims
 BY <1>0, <1>1 DEF Commit, Trims
<1>2. ASSUME NEW D \in SUBSET Key, MessagesDeleted(D) PROVE Trims
 <2>1. Deletions(D) \in [Id -> Nat]
  BY <1>0 DEF Deletions
 <2>2. ASSUME NEW rw, NEW gs, Commit(rw, Deletions(D), gs) PROVE Trims
  BY <2>1, <2>2 DEF Commit, Trims
 <2> QED BY <1>1, <1>2, <2>2 DEF MessagesDeleted
<1>3. ASSUME StreamStep PROVE Trims
 BY <1>1, <1>2, <1>3 DEF StreamStep, LiveMessage, MarksChanged, CacheInvalidated, Invalidated
<1>4. ASSUME NEW r \in Req, RequestStep(r) PROVE Trims
 BY <1>0, <1>1, <1>4 DEF RequestStep, StartRequest, StartDirect, StartSearch, CancelSearch,
    ServerAnswers, ServerAccepts, PageArrives, StalePageArrives, MessageLoaded,
    DirectArrives, RequestFails, CommitPruned
<1>5. ASSUME AccountReset PROVE gd' = [i \in Id |-> 0]
 BY <1>5 DEF AccountReset
<1>6. ~(UNCHANGED rev)
 BY <1>0
<1> QED BY <1>3, <1>4, <1>5, <1>6 DEF Next, ServerWrites, ServerDeletes, Restart, vars

LEMMA DeletionsStay ==
  ASSUME TypeOK, FlightOK', [Next]_vars, rev' > rev, \A r \in Req : status'[r] = "idle"
  PROVE  Cardinality(Remembered') <= MaxDeletions
<1>1. rev \in Nat /\ MaxDeletions \in Nat
 BY CacheAssumption DEF TypeOK
<1>2. CASE gd' = [i \in Id |-> 0]
 <2>1. Remembered' = {}
  BY <1>2 DEF Remembered
 <2> QED BY <1>1, <2>1, FS_EmptySet
<1>3. CASE Trims
 <2>1. PICK g \in [Id -> Nat] : gd' = [i \in Id |-> IF Obsolete(g, gens', i) THEN 0 ELSE g[i]]
  BY <1>3 DEF Trims
 <2>2. \A r \in Req : gens'[r] = 0
  BY DEF FlightOK
 <2>3. ASSUME NEW i \in Remembered' PROVE Cardinality(Later(g, i)) < MaxDeletions
  <3>1. i \in Id /\ gd'[i] # 0 /\ gd'[i] < rev + 1
   BY <1>3 DEF Remembered, Trims
  <3>2. ~Obsolete(g, gens', i) /\ g[i] < rev + 1 /\ g[i] \in Nat
   BY <2>1, <3>1
  <3>3. ~(Cardinality(Later(g, i)) >= MaxDeletions)
   BY <1>1, <2>2, <3>2 DEF Obsolete
  <3>4. Cardinality(Later(g, i)) \in Nat
   <4>1. Later(g, i) \subseteq Id
    BY DEF Later
   <4> QED BY <4>1, IdsFinite, FS_Subset, FS_CardinalityType
  <3> QED BY <1>1, <3>3, <3>4
 <2>4. Remembered' \in SUBSET Id
  BY DEF Remembered
 <2> QED BY <2>3, <2>4, FewAreKept
<1> QED BY <1>2, <1>3, EventTrims

(* For any bounds: when an event is applied and no request is under way, at most
   MaxDeletions deletions of earlier events are remembered.  No generation outlives its
   request, or the table would grow for as long as the program runs. *)
THEOREM CacheDeletionsBounded == Spec => DeletionsBounded
<1>1. Inv /\ Inv' /\ [Next]_vars
      => [rev' > rev /\ (\A r \in Req : status'[r] = "idle")
            => Cardinality(Remembered') <= MaxDeletions]_vars
 BY DeletionsStay DEF Inv
<1> QED BY <1>1, InvAlways, PTL DEF Spec, DeletionsBounded
=============================================================================
