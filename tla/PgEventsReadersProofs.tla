------------------------- MODULE PgEventsReadersProofs -------------------------
(***************************************************************************)
(* Proofs about PgEventsReaders, for any sets of clients and owners that   *)
(* write, delete, connect and disconnect, any persistence ids and batches, *)
(* and any size of a page: what the queries of the Postgres events store   *)
(* give to an actor that recovers, to a projection, and to a caller that   *)
(* lists the persistence ids.                                              *)
(***************************************************************************)
EXTENDS PgEventsReaders, PgEventsProofs, FiniteSetTheorems

-------------------------------------------------------------------------------
(* What a SELECT answers.                                                  *)

\* The rows of a finite set in some order: each of them once.
LEMMA Ordered ==
  ASSUME NEW S, IsFiniteSet(S), NEW s \in SetToSeqs(S)
  PROVE  /\ Cardinality(S) \in Nat /\ s \in Seq(S)
         /\ Len(s) = Cardinality(S) /\ DOMAIN s = 1 .. Cardinality(S)
         /\ \A i \in DOMAIN s : s[i] \in S
         /\ \A i, j \in DOMAIN s : s[i] = s[j] => i = j
         /\ \A x \in S : \E i \in DOMAIN s : s[i] = x
<1> DEFINE n == Cardinality(S)
           D == 1 .. n
<1>1. n \in Nat
  BY FS_CardinalityType
<1>2. s \in [D -> S] /\ \A i, j \in D : i # j => s[i] # s[j]
  BY DEF SetToSeqs
<1>3. Cardinality(D) = n
  BY <1>1, FS_Interval
<1>4. s \in Injection(D, S)
  BY <1>2 DEF Injection, IsInjective
<1>5. s \in Surjection(D, S)
  BY <1>3, <1>4, FS_Injection
<1>6. \A x \in S : \E i \in D : s[i] = x
  BY <1>5 DEF Surjection
<1>7. s \in Seq(S) /\ Len(s) = n
  BY <1>1, <1>2
<1> QED BY <1>1, <1>2, <1>6, <1>7

\* LIMIT keeps the first rows of that order.
LEMMA Limited ==
  ASSUME NEW S, NEW s \in Seq(S), NEW n \in Nat
  PROVE  /\ Len(FirstN(s, n)) = IF n < Len(s) THEN n ELSE Len(s)
         /\ Len(s) \in Nat /\ DOMAIN s = 1 .. Len(s)
         /\ DOMAIN FirstN(s, n) = 1 .. (IF n < Len(s) THEN n ELSE Len(s))
         /\ \A i \in DOMAIN FirstN(s, n) : i \in DOMAIN s /\ FirstN(s, n)[i] = s[i]
  BY DEF FirstN

-------------------------------------------------------------------------------
(* The table under the readers.                                            *)

\* A reader lets the store be, or the store takes a step.
LEMMA StoreOf == [RNext]_readerVars => [Next]_vars
  BY DEF RNext, PNext, WNext, StoreStep, PollCheck, PollRead, PollFails, WalkStoreStep,
     StartWalk, PageCheck, PageRead, WalkFails, readerVars

\* Only a commit changes the table.
LEMMA TableSteps ==
  ASSUME IInv, [Next]_vars
  PROVE  \/ table' = table
         \/ \E c \in Clients, r \in {"ok", "error"} : pc[c] = "commit" /\ CommitTx(c, r)
<1>1. CASE UNCHANGED vars
  BY <1>1 DEF vars, txVars
<1>2. ASSUME NEW o \in Owners, OwnerStep(o) PROVE table' = table
  BY <1>2 DEF OwnerStep, txVars
<1>3. ASSUME NEW c \in Clients, ClientStep(c)
      PROVE  table' = table \/ \E r \in {"ok", "error"} : pc[c] = "commit" /\ CommitTx(c, r)
  <2>1. CASE (\E b \in Batches : WriteEvents(c, b)) \/ \E t \in Targets : DeleteEvents(c, t)
    BY <2>1 DEF WriteEvents, DeleteEvents, txVars
  <2>2. CASE \/ Reject(c) \/ BeginTxClosed(c) \/ MarshalFails(c) \/ InsertConflict(c)
             \/ Deadlock(c) \/ NetworkFails(c) \/ WriteNothing(c)
    BY <2>2, Ending DEF EndsWithout
  <2>3. CASE BeginTx(c) \/ InsertRow(c) \/ DeleteRows(c)
    BY <2>3 DEF BeginTx, InsertRow, DeleteRows, txVars
  <2>4. CASE Commit(c) \/ CommitUnanswered(c)
    BY <2>4 DEF Commit, CommitUnanswered
  <2> QED BY <1>3, <2>1, <2>2, <2>3, <2>4 DEF ClientStep, ClientProgress
<1>4. CASE Crash
  BY <1>4 DEF Crash
<1> QED BY <1>1, <1>2, <1>3, <1>4 DEF Next

FinInv == IsFiniteSet(Stored)

\* A committed row is never replaced by another one of the same key, and one
\* transaction commits finitely many.
LEMMA TableGrows ==
  ASSUME IInv, FinInv, [Next]_vars
  PROVE  /\ FinInv'
         /\ \A k \in Keys : table[k] # None /\ table'[k] # None => table'[k] = table[k]
<1>1. CASE table' = table
  BY <1>1 DEF FinInv, Stored
<1>2. CASE \E c \in Clients, r \in {"ok", "error"} : pc[c] = "commit" /\ CommitTx(c, r)
  <2>1. PICK c \in Clients, r \in {"ok", "error"} : pc[c] = "commit" /\ CommitTx(c, r)
    BY <1>2
  <2> DEFINE K == {k \in Keys : inserted[c][k] # None}
             b == batch[c]
             f == [i \in 1 .. Len(b) |-> KeyOf(b[i])]
             B == {f[i] : i \in 1 .. Len(b)}
  <2>2. table' = [k \in Keys |-> IF k \in K THEN inserted[c][k]
                                 ELSE IF k \in deleted[c] THEN None ELSE table[k]]
    BY <2>1 DEF CommitTx
  <2>3. \A k \in K : table[k] = None
    BY DEF IInv, InsertInv
  <2>4. IsFiniteSet(K)
    <3>1. CASE b = None
      <4>1. K = {}
        BY <3>1 DEF IInv, InsertInv
      <4> QED BY <4>1, FS_EmptySet
    <3>2. CASE b # None
      <4>1. b \in Batches /\ next[c] = Len(b) + 1
        BY <2>1, <3>2 DEF IInv, TypeOK, CallInv
      <4>2. Len(b) \in Nat
        BY <4>1, EventsOf
      <4>3. \A k \in K : \E i \in 1 .. next[c] - 1 : KeyOf(b[i]) = k
        BY DEF IInv, InsertInv
      <4>4. \A k \in K : \E i \in 1 .. Len(b) : f[i] = k
        BY <4>1, <4>2, <4>3
      <4>5. K \subseteq B
        BY <4>4
      <4>6. f \in Surjection(1 .. Len(b), B)
        BY DEF Surjection
      <4>7. IsFiniteSet(1 .. Len(b))
        BY <4>2, FS_Interval
      <4>8. IsFiniteSet(B)
        BY <4>6, <4>7, FS_Surjection
      <4> QED BY <4>5, <4>8, FS_Subset
    <3> QED BY <3>1, <3>2
  <2> HIDE DEF K
  <2>5. Stored' \subseteq Stored \cup K
    BY <2>2 DEF Stored
  <2>6. IsFiniteSet(Stored \cup K)
    BY <2>4, FS_Union DEF FinInv
  <2>7. FinInv'
    BY <2>5, <2>6, FS_Subset DEF FinInv
  <2> QED BY <2>2, <2>3, <2>7
<1> QED BY <1>1, <1>2, TableSteps

\* Rows of the table and their keys are the same thing.
LEMMA RowsOfKeys ==
  ASSUME IInv, FinInv, NEW R \in SUBSET Stored
  PROVE  LET rows == {table[k] : k \in R}
         IN /\ IsFiniteSet(R) /\ IsFiniteSet(rows) /\ Cardinality(rows) = Cardinality(R)
            /\ \A k \in R : /\ k \in Keys /\ table[k] \in rows /\ table[k] \in Event
                            /\ k = <<table[k].PersistenceID, table[k].SequenceNumber>>
            /\ \A row \in rows : row \in Event /\ \E k \in R : row = table[k]
<1> DEFINE rows == {table[k] : k \in R}
           f == [k \in R |-> table[k]]
<1>1. \A k \in R : k \in Keys /\ table[k] \in Event /\ KeyOf(table[k]) = k
  BY RowTyped DEF Stored, IInv, TypeOK
<1>2. IsFiniteSet(R)
  BY FS_Subset DEF FinInv
<1>3. f \in [R -> rows] /\ (\A k, l \in R : f[k] = f[l] => k = l)
      /\ \A row \in rows : \E k \in R : f[k] = row
  BY <1>1
<1>4. f \in Bijection(R, rows)
  BY <1>3 DEF Bijection, Injection, IsInjective, Surjection
<1>5. ExistsBijection(R, rows)
  BY <1>4 DEF ExistsBijection
<1>6. IsFiniteSet(rows) /\ Cardinality(rows) = Cardinality(R)
  BY <1>2, <1>5, FS_Bijection
<1> QED BY <1>1, <1>2, <1>6 DEF KeyOf
-------------------------------------------------------------------------------
(* ReplayEvents and GetLatestEvent.                                        *)

LEMMA Recovers == IInv /\ FinInv => RecoveryComplete
<1> SUFFICES ASSUME IInv, FinInv,
                    NEW pid \in PersistenceIDs, NEW from \in Bounds, NEW to \in Bounds,
                    NEW limit \in Limits
             PROVE  LET rows == {k \in Stored : k[1] = pid /\ k[2] \in from..to}
                    IN \A events \in ReplayEvents(pid, from, to, limit) :
                         /\ Len(events) = IF limit < Cardinality(rows) THEN limit
                                          ELSE Cardinality(rows)
                         /\ \A i \in DOMAIN events : \A k \in rows :
                              k[2] < events[i].SequenceNumber =>
                                \E j \in 1 .. i - 1 : events[j] = table[k]
                         /\ (events # <<>> /\ Cardinality(rows) <= limit
                              /\ \A k \in Stored : k[1] = pid => k[2] <= to)
                              => events[Len(events)] = GetLatestEvent(pid)
  BY DEF RecoveryComplete
<1> DEFINE R == {k \in Stored : k[1] = pid /\ k[2] \in from..to}
           rows == {table[k] : k \in R}
           n == Cardinality(R)
<1> SUFFICES ASSUME NEW events \in ReplayEvents(pid, from, to, limit)
             PROVE  /\ Len(events) = IF limit < n THEN limit ELSE n
                    /\ \A i \in DOMAIN events : \A k \in R :
                         k[2] < events[i].SequenceNumber =>
                           \E j \in 1 .. i - 1 : events[j] = table[k]
                    /\ (events # <<>> /\ n <= limit
                         /\ \A k \in Stored : k[1] = pid => k[2] <= to)
                         => events[Len(events)] = GetLatestEvent(pid)
  OBVIOUS
<1>0. PICK s \in BySequenceNumber(rows) : events = FirstN(s, limit)
  BY DEF ReplayEvents
<1>1. /\ IsFiniteSet(rows) /\ Cardinality(rows) = n
      /\ \A k \in R : /\ k \in Keys /\ table[k] \in rows /\ table[k] \in Event
                      /\ k = <<table[k].PersistenceID, table[k].SequenceNumber>>
      /\ \A row \in rows : row \in Event /\ \E k \in R : row = table[k]
  BY RowsOfKeys
<1>2. from \in Nat /\ to \in Nat /\ limit \in Nat
  BY RangesAssumption
<1>3. /\ s \in SetToSeqs(rows)
      /\ \A i, j \in DOMAIN s : i < j => s[i].SequenceNumber <= s[j].SequenceNumber
  BY DEF BySequenceNumber
<1>4. \A k \in R : k \in Stored /\ k[1] = pid /\ k[2] \in from..to /\ k[2] \in Nat
                   /\ k[2] = table[k].SequenceNumber
  BY <1>1, SequenceAssumption DEF Keys
<1>5. \A k \in Stored : k \in Keys /\ k[2] \in Nat /\ (k[1] = pid /\ k[2] \in from..to => k \in R)
  BY SequenceAssumption DEF Stored, Keys
<1> HIDE DEF R, rows
<1>6. /\ n \in Nat /\ s \in Seq(rows) /\ Len(s) = n /\ DOMAIN s = 1 .. n
      /\ \A i \in DOMAIN s : s[i] \in rows
      /\ \A row \in rows : \E i \in DOMAIN s : s[i] = row
  BY <1>1, <1>3, Ordered
<1>7. /\ Len(events) = IF limit < n THEN limit ELSE n
      /\ DOMAIN events = 1 .. (IF limit < n THEN limit ELSE n)
      /\ \A i \in DOMAIN events : i \in DOMAIN s /\ events[i] = s[i]
  BY <1>0, <1>2, <1>6, Limited
<1> HIDE DEF n
<1>8. ASSUME NEW i \in DOMAIN events, NEW k \in R, k[2] < events[i].SequenceNumber
      PROVE  \E j \in 1 .. i - 1 : events[j] = table[k]
  <2>1. PICK j \in DOMAIN s : s[j] = table[k]
    BY <1>1, <1>6
  <2>2. i \in DOMAIN s /\ i \in Nat /\ j \in Nat /\ 1 <= j /\ events[i] = s[i]
    BY <1>2, <1>6, <1>7
  <2>3. s[i].SequenceNumber \in Nat /\ s[j].SequenceNumber = k[2] /\ k[2] \in Nat
    BY <1>1, <1>4, <1>6, <2>1, <2>2, SequenceAssumption DEF Event
  <2>4. j < i
    <3> SUFFICES ASSUME ~(j < i) PROVE FALSE
      OBVIOUS
    <3>1. s[i].SequenceNumber <= s[j].SequenceNumber
      <4>1. CASE i = j
        BY <2>3, <4>1
      <4>2. CASE i < j
        BY <1>3, <2>2, <4>2
      <4> QED BY <2>2, <4>1, <4>2
    <3> QED BY <1>8, <2>2, <2>3, <3>1
  <2>5. j \in DOMAIN events
    BY <1>2, <1>6, <1>7, <2>2, <2>4
  <2> QED BY <1>7, <2>1, <2>2, <2>4, <2>5
<1>9. ASSUME events # <<>>, n <= limit, \A k \in Stored : k[1] = pid => k[2] <= to
      PROVE  events[Len(events)] = GetLatestEvent(pid)
  <2> DEFINE ofID == {k \in Stored : k[1] = pid}
  <2>1. Len(events) = n /\ DOMAIN events = 1 .. n
    BY <1>2, <1>6, <1>7, <1>9
  <2>2. n # 0
    <3> SUFFICES ASSUME n = 0 PROVE FALSE
      OBVIOUS
    <3>1. Len(s) = 0 /\ s = <<>>
      BY <1>6
    <3>2. events = <<>>
      BY <1>0, <1>2, <3>1 DEF FirstN
    <3> QED BY <1>9, <3>2
  <2>3. n \in DOMAIN events /\ n \in DOMAIN s /\ events[n] = s[n]
    BY <1>6, <1>7, <2>1, <2>2
  <2>4. PICK m \in R : s[n] = table[m]
    BY <1>1, <1>6, <2>3
  <2>5. m \in ofID /\ m[2] = s[n].SequenceNumber /\ m[2] \in Nat /\ m[2] \in from..to
    BY <1>4, <2>4
  <2>6. ASSUME NEW l \in ofID PROVE l[2] <= m[2] /\ l[2] \in Nat /\ l \in Keys
    <3>1. l \in Stored /\ l[1] = pid /\ l[2] \in Nat /\ l[2] <= to /\ l \in Keys
      BY <1>5, <1>9
    <3>2. CASE l[2] < from
      BY <1>2, <2>5, <3>1, <3>2
    <3>3. CASE from <= l[2]
      <4>1. l \in R
        BY <1>2, <1>5, <3>1, <3>3
      <4>2. PICK j \in DOMAIN s : s[j] = table[l]
        BY <1>1, <1>6, <4>1
      <4>3. j = n \/ j < n
        BY <1>6, <4>2
      <4>4. s[j].SequenceNumber <= s[n].SequenceNumber
        BY <1>3, <2>3, <2>5, <4>2, <4>3
      <4> QED BY <1>4, <2>5, <3>1, <4>1, <4>2, <4>4
    <3> QED BY <1>2, <3>1, <3>2, <3>3
  <2>7. ASSUME NEW k \in ofID, \A l \in ofID : l[2] <= k[2]
        PROVE  k = m
    <3>1. k[2] <= m[2] /\ m[2] <= k[2] /\ k[2] \in Nat /\ k \in Keys
      BY <2>5, <2>6, <2>7
    <3>2. k[2] = m[2]
      BY <2>5, <3>1
    <3>3. k[1] = pid /\ m[1] = pid /\ m \in Keys
      BY <1>1, <2>5
    <3> QED BY <3>1, <3>2, <3>3 DEF Keys
  <2>8. (CHOOSE k \in ofID : \A l \in ofID : l[2] <= k[2]) = m
    <3>1. \E k \in ofID : \A l \in ofID : l[2] <= k[2]
      BY <2>5, <2>6
    <3> HIDE DEF ofID
    <3> QED BY <2>7, <3>1
  <2>9. GetLatestEvent(pid) = table[m]
    BY <2>5, <2>8 DEF GetLatestEvent
  <2> QED BY <2>1, <2>3, <2>4, <2>9
<1> QED BY <1>7, <1>8, <1>9 DEF n
-------------------------------------------------------------------------------
(* A projection.                                                           *)

\* The pages that GetShardEvents gives the projection.
LEMMA ShardPages ==
  ASSUME IInv, FinInv, offset \in Nat, NEW page \in GetShardEvents(Shard, offset, PollLimit)
  PROVE  /\ \A event \in ToSet(page.events) :
              event \in Event /\ event.Timestamp > offset /\ event.Timestamp <= page.next
         /\ page.events # <<>> =>
              /\ page.next \in Nat /\ page.next > offset
              /\ \A k \in Stored :
                   /\ table[k].ShardNumber = Shard
                   /\ table[k].Timestamp > offset /\ table[k].Timestamp <= page.next
                   => \E event \in ToSet(page.events) : event.Timestamp = table[k].Timestamp
<1> DEFINE R == {k \in Stored : table[k].ShardNumber = Shard /\ After(table[k], offset)}
           rows == {table[k] : k \in R}
           n == Cardinality(R)
<1>1. PICK s \in ByTimestamp(rows) :
        /\ page.events = FirstN(s, PollLimit)
        /\ page.next = IF page.events = <<>> THEN 0
                       ELSE page.events[Len(page.events)].Timestamp
  <2> DEFINE Answer(events) ==
               [events |-> events,
                next |-> IF events = <<>> THEN 0 ELSE events[Len(events)].Timestamp]
  <2>1. page \in {Answer(FirstN(s, PollLimit)) : s \in ByTimestamp(rows)}
    BY DEF GetShardEvents
  <2>2. \A events : /\ Answer(events).events = events
                    /\ Answer(events).next = IF events = <<>> THEN 0
                                             ELSE events[Len(events)].Timestamp
    OBVIOUS
  <2> HIDE DEF rows, Answer
  <2>3. PICK s \in ByTimestamp(rows) : page = Answer(FirstN(s, PollLimit))
    BY <2>1
  <2> QED BY <2>2, <2>3
<1>2. /\ IsFiniteSet(rows) /\ Cardinality(rows) = n
      /\ \A k \in R : table[k] \in rows
      /\ \A row \in rows : row \in Event /\ \E k \in R : row = table[k]
  BY RowsOfKeys
<1>3. /\ s \in SetToSeqs(rows)
      /\ \A i, j \in DOMAIN s : i < j => s[i].Timestamp <= s[j].Timestamp
  BY DEF ByTimestamp
<1>4. /\ \A row \in rows : row.Timestamp \in Nat /\ row.Timestamp > offset
      /\ \A k \in Stored : table[k].ShardNumber = Shard /\ table[k].Timestamp > offset => k \in R
  BY <1>2 DEF Event, After
<1> HIDE DEF R, rows
<1>5. /\ n \in Nat /\ s \in Seq(rows) /\ Len(s) = n /\ DOMAIN s = 1 .. n
      /\ \A i \in DOMAIN s : s[i] \in rows
      /\ \A row \in rows : \E i \in DOMAIN s : s[i] = row
  BY <1>2, <1>3, Ordered
<1> HIDE DEF n
<1> DEFINE events == page.events
           last == IF PollLimit < n THEN PollLimit ELSE n
<1>6. /\ Len(events) = last /\ DOMAIN events = 1 .. last /\ last \in Nat
      /\ \A i \in DOMAIN events : i \in DOMAIN s /\ events[i] = s[i]
  BY <1>1, <1>5, RangesAssumption, Limited
<1>7. ToSet(events) = {events[i] : i \in DOMAIN events}
  BY DEF ToSet
<1>8. ASSUME events # <<>>
      PROVE  /\ last \in DOMAIN events /\ page.next = s[last].Timestamp
             /\ s[last] \in rows
  <2>1. last # 0
    <3> SUFFICES ASSUME last = 0 PROVE FALSE
      OBVIOUS
    <3>1. FirstN(s, PollLimit) = <<>>
      <4>1. FirstN(s, PollLimit) = SubSeq(s, 1, 0)
        BY <1>5 DEF FirstN
      <4> QED BY <1>5, <4>1
    <3> QED BY <1>1, <1>8, <3>1
  <2>2. last \in DOMAIN events
    BY <1>6, <2>1
  <2> QED BY <1>1, <1>5, <1>6, <1>8, <2>2
<1> HIDE DEF events, last
<1>9. ASSUME NEW i \in DOMAIN events
      PROVE  /\ events[i] \in Event /\ events[i].Timestamp > offset
             /\ events[i].Timestamp <= page.next
  <2>1. events # <<>> /\ i \in Nat /\ i <= last
    BY <1>6
  <2>2. i \in DOMAIN s /\ last \in DOMAIN s /\ events[i] = s[i] /\ s[i] \in rows
    BY <1>5, <1>6, <1>8, <2>1
  <2>3. s[i].Timestamp <= s[last].Timestamp
    BY <1>3, <1>4, <1>6, <2>1, <2>2
  <2> QED BY <1>2, <1>4, <1>8, <2>1, <2>2, <2>3
<1>10. ASSUME events # <<>>, NEW k \in Stored, table[k].ShardNumber = Shard,
              table[k].Timestamp > offset, table[k].Timestamp <= page.next
       PROVE  \E i \in DOMAIN events : events[i].Timestamp = table[k].Timestamp
  <2>1. table[k] \in rows
    BY <1>2, <1>4, <1>10
  <2>2. PICK j \in DOMAIN s : s[j] = table[k]
    BY <1>5, <2>1
  <2>3. CASE j <= last
    <3>1. j \in DOMAIN events
      BY <1>5, <1>6, <2>2, <2>3
    <3> QED BY <1>6, <2>2, <3>1
  <2>4. CASE last < j
    <3>1. last \in DOMAIN events /\ last \in DOMAIN s /\ events[last] = s[last]
      BY <1>6, <1>8, <1>10
    <3>2. s[last].Timestamp <= s[j].Timestamp
      BY <1>3, <2>2, <2>4, <3>1
    <3> QED BY <1>4, <1>8, <1>10, <2>1, <2>2, <3>1, <3>2
  <2> QED BY <1>5, <1>6, <2>2, <2>3, <2>4
<1>11. page.events # <<>> => page.next \in Nat /\ page.next > offset
  BY <1>4, <1>8 DEF events
<1> QED BY <1>7, <1>9, <1>10, <1>11 DEF events

\* The offset of the projection is that of the last event it has got.
PollInv ==
  /\ offset \in Nat
  /\ \A event \in handled : event \in Event /\ event.Timestamp <= offset
  /\ MissesOnlyLateOrEqual

LEMMA PollReads ==
  ASSUME IInv, FinInv, PollInv, PollRead
  PROVE  PollInv'
<1>1. PICK page \in GetShardEvents(Shard, offset, PollLimit) :
        /\ handled' = handled \cup ToSet(page.events)
        /\ offset' = IF page.events = <<>> THEN offset ELSE page.next
        /\ table' = table /\ late' = late
  BY DEF PollRead, vars, txVars
<1>2. /\ \A event \in ToSet(page.events) :
           event \in Event /\ event.Timestamp > offset /\ event.Timestamp <= page.next
      /\ page.events # <<>> =>
           /\ page.next \in Nat /\ page.next > offset
           /\ \A k \in Stored :
                /\ table[k].ShardNumber = Shard
                /\ table[k].Timestamp > offset /\ table[k].Timestamp <= page.next
                => \E event \in ToSet(page.events) : event.Timestamp = table[k].Timestamp
  BY ShardPages DEF PollInv
<1>3. page.events = <<>> => ToSet(page.events) = {}
  BY DEF ToSet
<1>4. offset \in Nat /\ offset' \in Nat /\ offset <= offset'
  BY <1>1, <1>2 DEF PollInv
<1>5. \A event \in handled' : event \in Event /\ event.Timestamp <= offset'
  BY <1>1, <1>2, <1>3, <1>4 DEF PollInv, Event
<1>6. Stored' = Stored
  BY <1>1 DEF Stored
<1>7. ASSUME NEW k \in Stored, table[k].ShardNumber = Shard, table[k].Timestamp <= offset'
      PROVE  \/ table[k] \in handled'
             \/ k \in late'
             \/ \E event \in handled' : event.Timestamp = table[k].Timestamp
  <2>1. table[k].Timestamp \in Nat
    BY RowTyped DEF IInv, TypeOK, Stored, Event
  <2>2. CASE table[k].Timestamp <= offset
    BY <1>1, <1>7, <2>2 DEF PollInv, MissesOnlyLateOrEqual
  <2>3. CASE table[k].Timestamp > offset
    <3>1. page.events # <<>> /\ table[k].Timestamp <= page.next
      BY <1>1, <1>4, <1>7, <2>1, <2>3
    <3> QED BY <1>1, <1>2, <1>7, <2>3, <3>1
  <2> QED BY <1>4, <2>1, <2>2, <2>3
<1>8. MissesOnlyLateOrEqual'
  BY <1>1, <1>6, <1>7 DEF MissesOnlyLateOrEqual
<1> QED BY <1>4, <1>5, <1>8 DEF PollInv

\* A commit behind the projection makes its keys late.
LEMMA PollStore ==
  ASSUME IInv, FinInv, PollInv, [Next]_vars,
         UNCHANGED <<offset, handled>>, late' = late \cup Behind
  PROVE  PollInv'
<1>1. ASSUME NEW k \in Stored', table'[k].ShardNumber = Shard, table'[k].Timestamp <= offset
      PROVE  \/ table'[k] \in handled
             \/ k \in late \cup Behind
             \/ \E event \in handled : event.Timestamp = table'[k].Timestamp
  <2>1. k \in Keys /\ table'[k] # None
    BY DEF Stored
  <2>2. CASE table[k] = None
    BY <1>1, <2>1, <2>2 DEF Behind
  <2>3. CASE table[k] # None
    <3>1. k \in Stored /\ table'[k] = table[k]
      BY <2>1, <2>3, TableGrows DEF Stored
    <3> QED BY <1>1, <3>1 DEF PollInv, MissesOnlyLateOrEqual
  <2> QED BY <2>2, <2>3
<1> QED BY <1>1 DEF PollInv, MissesOnlyLateOrEqual
-------------------------------------------------------------------------------
(* A walk over the persistence ids.                                        *)

LEMMA IDsFinite ==
  ASSUME FinInv
  PROVE  IsFiniteSet(IDs) /\ IDs \subseteq PersistenceIDs
<1> DEFINE f == [k \in Stored |-> k[1]]
<1>1. IDs = {f[k] : k \in Stored}
  BY DEF IDs, Stored
<1>2. f \in Surjection(Stored, IDs)
  BY <1>1 DEF Surjection
<1>3. IsFiniteSet(IDs)
  BY <1>2, FS_Surjection DEF FinInv
<1> QED BY <1>3 DEF IDs, Keys

\* The pages of persistence ids.
LEMMA IDPages ==
  ASSUME FinInv, pageToken \in Nat, NEW page \in PersistenceIDsPage(PageSize, pageToken)
  PROVE  /\ \A pid \in ToSet(page.ids) : pid \in Nat /\ pid > pageToken /\ pid <= page.next
         /\ page.next \in Nat
         /\ page.next = NoID => \A pid \in IDs : pid \in Nat /\ pid <= pageToken
         /\ page.next # NoID =>
              /\ page.next > pageToken /\ page.next \in ToSet(page.ids)
              /\ \A pid \in IDs : pid > pageToken /\ pid <= page.next => pid \in ToSet(page.ids)
<1> DEFINE R == {pid \in IDs : PastToken(pid, pageToken)}
           n == Cardinality(R)
           ids == page.ids
           last == IF PageSize < n THEN PageSize ELSE n
<1>1. PICK s \in ByPersistenceID(R) :
        ids = FirstN(s, PageSize) /\ page.next = LastID(FirstN(s, PageSize))
  BY DEF PersistenceIDsPage, NextPageToken
<1>2. R \subseteq IDs /\ IsFiniteSet(R) /\ \A pid \in R : pid \in Nat /\ pid > pageToken /\ pid > NoID
  BY IDsFinite, FS_Subset, NoIDAssumption DEF PastToken
<1>3. \A pid \in IDs : pid \in Nat /\ (pid > pageToken => pid \in R)
  BY IDsFinite, NoIDAssumption DEF PastToken
<1>4. s \in SetToSeqs(R) /\ \A i, j \in DOMAIN s : i < j => s[i] < s[j]
  BY DEF ByPersistenceID
<1> HIDE DEF R
<1>5. /\ n \in Nat /\ s \in Seq(R) /\ Len(s) = n /\ DOMAIN s = 1 .. n
      /\ \A i \in DOMAIN s : s[i] \in R
      /\ \A pid \in R : \E i \in DOMAIN s : s[i] = pid
  BY <1>2, <1>4, Ordered
<1> HIDE DEF n
<1>6. /\ Len(ids) = last /\ DOMAIN ids = 1 .. last /\ last \in Nat
      /\ \A i \in DOMAIN ids : i \in DOMAIN s /\ ids[i] = s[i]
  BY <1>1, <1>5, PageSizeAssumption, Limited
<1>7. ToSet(ids) = {ids[i] : i \in DOMAIN ids}
  BY DEF ToSet
<1>8. CASE n = 0
  <2>1. \A pid \in IDs : pid \in Nat /\ pid <= pageToken
    BY <1>3, <1>5, <1>8
  <2>2. ids = <<>>
    <3>1. FirstN(s, PageSize) = SubSeq(s, 1, 0)
      BY <1>5, <1>8, PageSizeAssumption DEF FirstN
    <3> QED BY <1>1, <1>5, <3>1
  <2>3. page.next = NoID /\ ToSet(ids) = {}
    BY <1>1, <1>6, <1>7, <1>8, <2>2, PageSizeAssumption DEF LastID
  <2> QED BY <2>1, <2>3, NoIDAssumption
<1>9. CASE n # 0
  <2>1. last \in DOMAIN ids /\ ids # <<>>
    BY <1>5, <1>6, <1>9, PageSizeAssumption
  <2>2. page.next = ids[last] /\ ids[last] = s[last] /\ last \in DOMAIN s /\ s[last] \in R
    BY <1>1, <1>5, <1>6, <2>1 DEF LastID
  <2> HIDE DEF ids, last
  <2>3. page.next \in Nat /\ page.next > pageToken /\ page.next > NoID /\ page.next # NoID
    BY <1>2, <2>2, NoIDAssumption
  <2>4. ASSUME NEW i \in DOMAIN ids
        PROVE  ids[i] \in Nat /\ ids[i] > pageToken /\ ids[i] <= page.next
    <3>1. i \in DOMAIN s /\ ids[i] = s[i] /\ s[i] \in R /\ i \in Nat /\ i <= last
      BY <1>5, <1>6
    <3>2. s[i] \in Nat /\ s[last] \in Nat /\ s[i] > pageToken
      BY <1>2, <2>2, <3>1
    <3>3. CASE i < last
      <4>1. s[i] < s[last]
        BY <1>4, <2>2, <3>1, <3>3
      <4> QED BY <2>2, <3>1, <3>2, <4>1
    <3>4. CASE i = last
      BY <2>2, <3>1, <3>2, <3>4
    <3> QED BY <1>6, <3>1, <3>3, <3>4
  <2>5. ASSUME NEW pid \in IDs, pid > pageToken, pid <= page.next
        PROVE  \E i \in DOMAIN ids : ids[i] = pid
    <3>1. pid \in R /\ pid \in Nat
      BY <1>3, <2>5
    <3>2. PICK j \in DOMAIN s : s[j] = pid
      BY <1>5, <3>1
    <3>3. ~(last < j)
      <4> SUFFICES ASSUME last < j PROVE FALSE
        OBVIOUS
      <4>1. s[last] < s[j]
        BY <1>4, <2>2, <3>2
      <4> QED BY <2>2, <2>3, <2>5, <3>1, <3>2, <4>1
    <3>4. j \in DOMAIN ids
      BY <1>5, <1>6, <3>2, <3>3
    <3> QED BY <1>6, <3>2, <3>4
  <2> QED BY <1>7, <2>1, <2>2, <2>3, <2>4, <2>5 DEF ids
<1> QED BY <1>5, <1>8, <1>9

\* What a walk has passed by, it has listed.
WalkInv ==
  /\ pageToken \in Nat
  /\ walk \in {"idle", "paging", "reading", "done"}
  /\ walk \in {"paging", "reading"} =>
       /\ stable \subseteq IDs
       /\ \A pid \in stable : pid > pageToken \/ pid \in listed
       /\ \A pid \in listed : pid \in Nat /\ pid <= pageToken
  /\ ListsEveryID

LEMMA WalkReads ==
  ASSUME FinInv, WalkInv, PageRead
  PROVE  /\ WalkInv'
         /\ \/ walk' = "done"
            \/ /\ pageToken' > pageToken
               /\ listed' # listed /\ \A pid \in listed' \ listed : pid > pageToken
<1>1. PICK page \in PersistenceIDsPage(PageSize, pageToken) :
        /\ listed' = listed \cup ToSet(page.ids)
        /\ pageToken' = page.next
  BY DEF PageRead
<1>2. /\ walk = "reading" /\ UNCHANGED <<table, stable>>
      /\ walk' = IF page.next = NoID THEN "done" ELSE "paging"
  BY <1>1 DEF PageRead, vars, txVars
<1>3. pageToken \in Nat
  BY DEF WalkInv
<1>4. /\ \A pid \in ToSet(page.ids) : pid \in Nat /\ pid > pageToken /\ pid <= page.next
      /\ page.next \in Nat
      /\ page.next = NoID => \A pid \in IDs : pid \in Nat /\ pid <= pageToken
      /\ page.next # NoID =>
           /\ page.next > pageToken /\ page.next \in ToSet(page.ids)
           /\ \A pid \in IDs : pid > pageToken /\ pid <= page.next => pid \in ToSet(page.ids)
  BY <1>3, IDPages
<1>5. IDs' = IDs /\ stable \subseteq IDs /\ \A pid \in IDs : pid \in Nat
  BY <1>2, IDsFinite, NoIDAssumption DEF IDs, WalkInv
<1>6. /\ \A pid \in stable : pid > pageToken \/ pid \in listed
      /\ \A pid \in listed : pid \in Nat /\ pid <= pageToken
  BY <1>2 DEF WalkInv
<1>7. CASE page.next = NoID
  <2>1. stable \subseteq listed
    BY <1>3, <1>4, <1>5, <1>6, <1>7
  <2> QED BY <1>1, <1>2, <1>4, <1>5, <1>7, <2>1 DEF WalkInv, ListsEveryID
<1>8. CASE page.next # NoID
  <2>1. walk' = "paging" /\ pageToken' \in Nat /\ pageToken' > pageToken
    BY <1>1, <1>2, <1>4, <1>8
  <2>2. \A pid \in listed' : pid \in Nat /\ pid <= pageToken'
    BY <1>1, <1>3, <1>4, <1>6, <2>1
  <2>3. ASSUME NEW pid \in stable PROVE pid > pageToken' \/ pid \in listed'
    <3>1. pid \in IDs /\ pid \in Nat
      BY <1>5
    <3>2. CASE pid \in listed
      BY <1>1, <3>2
    <3>3. CASE pid > pageToken /\ pid <= page.next
      BY <1>1, <1>4, <1>8, <3>1, <3>3
    <3>4. CASE pid > page.next
      BY <1>1, <3>4
    <3> QED BY <1>4, <1>6, <3>1, <3>2, <3>3, <3>4
  <2>4. WalkInv'
    BY <1>2, <1>5, <2>1, <2>2, <2>3 DEF WalkInv, ListsEveryID
  <2>5. listed' # listed
    BY <1>1, <1>3, <1>4, <1>6, <1>8
  <2>6. \A pid \in listed' \ listed : pid > pageToken
    BY <1>1, <1>4
  <2> QED BY <2>1, <2>4, <2>5, <2>6
<1> QED BY <1>7, <1>8

LEMMA WalkSteps ==
  ASSUME FinInv, WalkInv, WNext
  PROVE  WalkInv'
<1>1. CASE WalkStoreStep
  BY <1>1 DEF WalkStoreStep, WalkInv, ListsEveryID
<1>2. CASE StartWalk
  <2>1. IDs' = IDs /\ \A pid \in IDs : pid \in Nat /\ pid > NoID
    BY <1>2, IDsFinite, NoIDAssumption DEF StartWalk, vars, txVars, IDs
  <2> QED BY <1>2, <2>1, NoIDAssumption DEF StartWalk, WalkInv, ListsEveryID
<1>3. CASE PageCheck
  BY <1>3 DEF PageCheck, vars, txVars, IDs, WalkInv, ListsEveryID
<1>4. CASE WalkFails
  BY <1>4, NoIDAssumption DEF WalkFails, WalkInv, ListsEveryID
<1> QED BY <1>1, <1>2, <1>3, <1>4, WalkReads DEF WNext

-------------------------------------------------------------------------------
(* The invariant.                                                          *)

RInv == IInv /\ FinInv /\ PollInv /\ WalkInv /\ (reader = "projection" => walk = "idle")

LEMMA RInvStarts == RInit => RInv
<1> SUFFICES ASSUME RInit PROVE RInv
  OBVIOUS
<1>1. Init
  BY DEF RInit, PInit
<1>2. Stored = {} /\ IDs = {}
  BY <1>1, NoRowsTyped DEF Init, Stored, IDs
<1>3. FinInv
  BY <1>2, FS_EmptySet DEF FinInv
<1>4. PollInv
  BY <1>2 DEF RInit, PInit, PollInv, MissesOnlyLateOrEqual
<1>5. WalkInv /\ walk = "idle"
  BY NoIDAssumption DEF RInit, WInit, WalkInv, ListsEveryID
<1> QED BY <1>1, <1>3, <1>4, <1>5, InvStarts DEF RInv

LEMMA RInvInductive == RInv /\ [RNext]_readerVars => RInv'
<1> SUFFICES ASSUME RInv, [RNext]_readerVars PROVE RInv'
  OBVIOUS
<1>0. IInv /\ FinInv /\ PollInv /\ WalkInv /\ (reader = "projection" => walk = "idle")
  BY DEF RInv
<1>1. [Next]_vars
  BY StoreOf
<1>2. IInv' /\ FinInv'
  BY <1>0, <1>1, InvInductive, TableGrows
<1>3. ASSUME UNCHANGED vars, UNCHANGED <<offset, handled, late>>
      PROVE  PollInv'
  <2>1. table' = table /\ Stored' = Stored
    BY <1>3 DEF vars, txVars, Stored
  <2> QED BY <1>0, <1>3, <2>1 DEF PollInv, MissesOnlyLateOrEqual
<1>4. CASE UNCHANGED readerVars
  <2>1. IDs' = IDs
    BY <1>4 DEF readerVars, vars, txVars, IDs
  <2>2. WalkInv' /\ (reader' = "projection" => walk' = "idle")
    BY <1>0, <1>4, <2>1 DEF readerVars, walkVars, WalkInv, ListsEveryID
  <2> QED BY <1>2, <1>3, <1>4, <2>2 DEF readerVars, pollVars, RInv
<1>5. CASE reader = "projection" /\ PNext /\ UNCHANGED walkVars /\ UNCHANGED reader
  <2>1. WalkInv' /\ walk' = "idle"
    BY <1>0, <1>5 DEF walkVars, WalkInv, ListsEveryID
  <2>2. PollInv'
    <3>1. CASE StoreStep
      BY <1>0, <1>1, <3>1, PollStore DEF StoreStep
    <3>2. CASE PollCheck \/ PollFails
      BY <1>3, <3>2 DEF PollCheck, PollFails
    <3>3. CASE PollRead
      BY <1>0, <3>3, PollReads
    <3> QED BY <1>5, <3>1, <3>2, <3>3 DEF PNext
  <2> QED BY <1>2, <2>1, <2>2 DEF RInv
<1>6. CASE /\ reader = "lister" /\ WNext /\ UNCHANGED reader
           /\ late' = late \cup Behind /\ UNCHANGED <<offset, handled, polling>>
  BY <1>0, <1>1, <1>2, <1>6, PollStore, WalkSteps DEF RInv
<1> QED BY <1>4, <1>5, <1>6 DEF RNext

-------------------------------------------------------------------------------
\* Readers change nothing in the store, so its types hold beside them.
THEOREM ReadersTypeCorrect == RSpec => []TypeOK
<1>1. RInv => TypeOK
  BY DEF RInv, IInv
<1> QED BY <1>1, RInvStarts, RInvInductive, PTL DEF RSpec

\* An actor recovers from ReplayEvents with the first events of its range, none
\* left out and in order, and GetLatestEvent returns the last of them, whatever
\* transactions write and delete at the same time.
THEOREM RecoveryFindsAll == RSpec => []RecoveryComplete
<1>1. RInv => RecoveryComplete
  BY Recovers DEF RInv
<1> QED BY <1>1, RInvStarts, RInvInductive, PTL DEF RSpec

\* A projection that passes the offset of GetShardEvents on misses no event but
\* one committed behind its offset, or one with the timestamp of an event at the
\* end of a page.
THEOREM ProjectionMisses == RSpec => []MissesOnlyLateOrEqual
<1>1. RInv => MissesOnlyLateOrEqual
  BY DEF RInv, PollInv
<1> QED BY <1>1, RInvStarts, RInvInductive, PTL DEF RSpec

\* And it gets none twice: a page is past all the pages before.
THEOREM ProjectionHandlesOnce == RSpec => HandlesOnce
<1>1. RInv => \A page \in GetShardEvents(Shard, offset, PollLimit) :
                page.events # <<>> => /\ ToSet(page.events) \cap handled = {}
                                      /\ offset < page.next
  <2> SUFFICES ASSUME RInv, NEW page \in GetShardEvents(Shard, offset, PollLimit),
                      page.events # <<>>
               PROVE  ToSet(page.events) \cap handled = {} /\ offset < page.next
    OBVIOUS
  <2>1. IInv /\ FinInv /\ offset \in Nat
    BY DEF RInv, PollInv
  <2>2. /\ \A event \in ToSet(page.events) : event \in Event /\ event.Timestamp > offset
        /\ page.next \in Nat /\ page.next > offset
    BY <2>1, ShardPages
  <2>3. \A event \in handled : event \in Event /\ event.Timestamp <= offset
    BY DEF RInv, PollInv
  <2> QED BY <2>1, <2>2, <2>3 DEF Event
<1>2. RInv /\ [RNext]_readerVars =>
        [\A page \in GetShardEvents(Shard, offset, PollLimit) :
           PollRead /\ page.events # <<>> =>
             /\ ToSet(page.events) \cap handled = {}
             /\ offset < page.next]_<<vars, pollVars>>
  BY <1>1
<1> QED BY <1>2, RInvStarts, RInvInductive, PTL DEF RSpec, HandlesOnce

\* A caller that passes each nextPageToken of PersistenceIDs on until it gets an
\* empty one has got every id that had an event all along.
THEOREM WalkListsAll == RSpec => []ListsEveryID
<1>1. RInv => ListsEveryID
  BY DEF RInv, WalkInv
<1> QED BY <1>1, RInvStarts, RInvInductive, PTL DEF RSpec

\* And each of its pages is past the pages before.
THEOREM WalkGoesOn == RSpec => WalkAdvances
<1>1. RInv /\ [RNext]_readerVars =>
        [PageRead => \/ walk' = "done"
                     \/ /\ pageToken' > pageToken
                        /\ listed' # listed
                        /\ \A pid \in listed' \ listed : pid > pageToken]_<<vars, walkVars>>
  BY WalkReads DEF RInv
<1> QED BY <1>1, RInvStarts, RInvInductive, PTL DEF RSpec, WalkAdvances
==============================================================================
