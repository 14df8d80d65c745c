-------------------------- MODULE MemEventsWalkProofs --------------------------
(***************************************************************************)
(* Proofs about MemEventsWalk, for any goroutines, any uuids, batches and  *)
(* targets, and any size of a page: what the queries of the memory events  *)
(* store give to an actor that recovers, to a projection, and to a caller  *)
(* that lists the persistence ids.                                         *)
(***************************************************************************)
EXTENDS MemEventsWalk, MemEventsProofs, FiniteSetTheorems

-------------------------------------------------------------------------------
(* Sorting.                                                                *)

StrictOrder(S, R) ==
  /\ \A x \in S : <<x, x>> \notin R
  /\ \A x, y, z \in S : <<x, y>> \in R /\ <<y, z>> \in R => <<x, z>> \in R
  /\ \A x, y \in S : x # y => <<x, y>> \in R \/ <<y, x>> \in R

\* The members of a finite set in a strict order of it: each of them once, and in
\* that order.  A member has fewer before it than one that comes after it, so that
\* the places are different, and as many as members, they are all taken.
LEMMA InOrderSorts ==
  ASSUME NEW S, IsFiniteSet(S), NEW R, StrictOrder(S, R)
  PROVE  LET s == InOrder(S, R)
         IN /\ Cardinality(S) \in Nat /\ DOMAIN s = 1 .. Cardinality(S)
            /\ s \in Seq(S) /\ Len(s) = Cardinality(S)
            /\ \A i \in DOMAIN s : s[i] \in S
            /\ \A x \in S : \E i \in DOMAIN s : s[i] = x
            /\ \A i, j \in DOMAIN s : i < j => <<s[i], s[j]>> \in R
<1> DEFINE n == Cardinality(S)
           Before(x) == {y \in S : <<y, x>> \in R}
           place == [x \in S |-> 1 + Cardinality(Before(x))]
           s == InOrder(S, R)
<1>1. n \in Nat
  BY FS_CardinalityType
<1>2. \A x \in S : IsFiniteSet(Before(x)) /\ Cardinality(Before(x)) \in Nat
  BY FS_Subset, FS_CardinalityType
<1>3. ASSUME NEW x \in S PROVE Cardinality(Before(x)) < n
  <2>1. Before(x) \in SUBSET S /\ Before(x) # S
    BY DEF StrictOrder
  <2>2. Cardinality(Before(x)) <= n /\ Cardinality(Before(x)) # n
    BY <2>1, FS_Subset
  <2> QED BY <1>1, <1>2, <2>2
<1>4. ASSUME NEW x \in S, NEW y \in S, <<x, y>> \in R PROVE place[x] < place[y]
  <2>1. Before(x) \in SUBSET Before(y)
    BY <1>4 DEF StrictOrder
  <2>2. Before(x) # Before(y)
    BY <1>4 DEF StrictOrder
  <2>3. /\ Cardinality(Before(x)) <= Cardinality(Before(y))
        /\ Cardinality(Before(x)) # Cardinality(Before(y))
    BY <1>2, <2>1, <2>2, FS_Subset
  <2> HIDE DEF Before
  <2> QED BY <1>2, <2>3
<1>5. \A x \in S : place[x] \in 1 .. n
  <2> HIDE DEF Before, n
  <2> QED BY <1>1, <1>2, <1>3
<1>6. \A x, y \in S : place[x] = place[y] => x = y
  <2> SUFFICES ASSUME NEW x \in S, NEW y \in S, place[x] = place[y], x # y PROVE FALSE
    OBVIOUS
  <2> HIDE DEF place
  <2>1. place[x] < place[y] \/ place[y] < place[x]
    BY <1>4 DEF StrictOrder
  <2> QED BY <1>1, <1>5, <2>1
<1>7. place \in Injection(S, 1 .. n)
  BY <1>5, <1>6 DEF Injection, IsInjective
<1>8. IsFiniteSet(1 .. n) /\ Cardinality(1 .. n) = n
  BY <1>1, FS_Interval
<1>9. place \in Surjection(S, 1 .. n)
  BY <1>7, <1>8, FS_Injection
<1>10. \A i \in 1 .. n : \E x \in S : place[x] = i
  BY <1>9 DEF Surjection
<1>11. s = [i \in 1 .. n |-> CHOOSE x \in S : place[x] = i]
  BY DEF InOrder
<1> HIDE DEF place, n, s
<1>12. DOMAIN s = 1 .. n /\ \A i \in 1 .. n : s[i] \in S /\ place[s[i]] = i
  BY <1>10, <1>11
<1>13. s \in Seq(S) /\ Len(s) = n
  BY <1>1, <1>11, <1>12
<1>14. ASSUME NEW x \in S PROVE \E i \in DOMAIN s : s[i] = x
  BY <1>5, <1>6, <1>12
<1>15. ASSUME NEW i \in DOMAIN s, NEW j \in DOMAIN s, i < j PROVE <<s[i], s[j]>> \in R
  <2>1. /\ i \in Nat /\ s[i] \in S /\ place[s[i]] = i
        /\ j \in Nat /\ s[j] \in S /\ place[s[j]] = j
    BY <1>1, <1>12
  <2>2. s[i] # s[j]
    BY <1>15, <2>1
  <2>3. ~(<<s[j], s[i]>> \in R)
    BY <1>4, <1>15, <2>1
  <2> QED BY <2>1, <2>2, <2>3 DEF StrictOrder
<1> QED BY <1>1, <1>12, <1>13, <1>14, <1>15 DEF n, s

\* The events in the order of their positions: the same events, as often.
LEMMA SortedEvents ==
  ASSUME NEW T, NEW events \in Seq(T), NEW R, StrictOrder(DOMAIN events, R)
  PROVE  LET s == Sorted(events, R)
         IN /\ s \in Seq(T) /\ Len(s) = Len(events)
            /\ DOMAIN s = DOMAIN events /\ DOMAIN s = 1 .. Len(events)
            /\ \A k \in DOMAIN events : \E i \in DOMAIN s : s[i] = events[k]
            /\ \E pos \in [DOMAIN s -> DOMAIN events] :
                 /\ \A i \in DOMAIN s : s[i] = events[pos[i]]
                 /\ \A i, j \in DOMAIN s : i < j => <<pos[i], pos[j]>> \in R
<1> DEFINE D == DOMAIN events
           order == InOrder(D, R)
           s == Sorted(events, R)
<1>1. Len(events) \in Nat /\ D = 1 .. Len(events)
  OBVIOUS
<1>2. IsFiniteSet(D) /\ Cardinality(D) = Len(events)
  BY <1>1, FS_Interval
<1>3. /\ DOMAIN order = 1 .. Cardinality(D)
      /\ \A i \in DOMAIN order : order[i] \in D
      /\ \A k \in D : \E i \in DOMAIN order : order[i] = k
      /\ \A i, j \in DOMAIN order : i < j => <<order[i], order[j]>> \in R
  BY <1>2, InOrderSorts
<1>4. s = [i \in DOMAIN order |-> events[order[i]]]
  BY DEF Sorted
<1> HIDE DEF order, s
<1>5. DOMAIN s = DOMAIN order /\ DOMAIN s = 1 .. Len(events) /\ DOMAIN s = DOMAIN events
      /\ \A i \in DOMAIN order : s[i] = events[order[i]]
  BY <1>1, <1>2, <1>3, <1>4
<1>6. \A i \in DOMAIN s : s[i] \in T
  BY <1>3, <1>5
<1>7. s \in Seq(T) /\ Len(s) = Len(events)
  BY <1>1, <1>4, <1>5, <1>6
<1>8. order \in [DOMAIN s -> D]
  BY <1>3, <1>5 DEF order, InOrder
<1>9. \A k \in D : \E i \in DOMAIN s : s[i] = events[k]
  BY <1>3, <1>5
<1> QED BY <1>3, <1>5, <1>7, <1>8, <1>9 DEF s

\* The first n members of a sequence.
LEMMA FirstOnes ==
  ASSUME NEW T, NEW s \in Seq(T), NEW n \in Nat
  PROVE  LET f == FirstN(s, n)
             m == IF n < Len(s) THEN n ELSE Len(s)
         IN /\ f \in Seq(T) /\ Len(f) = m /\ DOMAIN f = 1 .. m
            /\ Len(s) \in Nat /\ DOMAIN s = 1 .. Len(s)
            /\ \A i \in DOMAIN f : i \in DOMAIN s /\ f[i] = s[i] /\ f[i] \in T
            /\ Len(s) <= n => f = s
  BY DEF FirstN

-------------------------------------------------------------------------------
(* The table under the queries.                                            *)

FinInv == IsFiniteSet(Live)

\* A transaction adds finitely many rows.
LEMMA TableGrows ==
  ASSUME TypeOK, CallInv, FinInv, [Next]_vars
  PROVE  FinInv'
<1>1. ASSUME NEW o \in Owners, OwnerStep(o) PROVE Live' \subseteq Live
  BY <1>1
     DEF OwnerStep, Connect, ConnectNewDB, ConnectStore, Disconnect, DisconnectClear,
         DisconnectStore, Ping, storeVars, Live, NoRows
<1>2. ASSUME NEW p \in Clients, ClientStep(p)
      PROVE  \E K : IsFiniteSet(K) /\ Live' \subseteq Live \cup K
  <2>1. CASE WriteCommit(p)
    <3>1. PICK K \in SUBSET FreshKeys : \E f \in [K -> DOMAIN batch[p]] :
            /\ \A k, l \in K : f[k] = f[l] => k = l
            /\ db' = [o \in Orderings |-> IF o \in K THEN batch[p][f[o]] ELSE db[o]]
      BY <2>1 DEF WriteCommit
    <3>2. PICK f \in [K -> DOMAIN batch[p]] : \A k, l \in K : f[k] = f[l] => k = l
      BY <3>1
    <3>3. batch[p] \in Seq(Event)
      BY <2>1, BatchesAssumption DEF TypeOK, CallInv, WriteCommit
    <3>4. IsFiniteSet(1 .. Len(batch[p])) /\ DOMAIN batch[p] = 1 .. Len(batch[p])
      BY <3>3, FS_Interval
    <3>5. f \in Injection(K, 1 .. Len(batch[p]))
      BY <3>2, <3>4 DEF Injection, IsInjective
    <3>6. IsFiniteSet(K)
      BY <3>4, <3>5, FS_Injection
    <3>7. Live' \subseteq Live \cup K
      BY <3>1 DEF Live
    <3> QED BY <3>6, <3>7
  <2>2. CASE ~WriteCommit(p)
    <3>1. Live' \subseteq Live
      BY <1>2, <2>2
         DEF ClientStep, Reject, WriteEvents, WriteAbort, DeleteEvents, DeleteRead,
             DeleteCommit, DeleteAbort, storeVars, Live
    <3> QED BY <3>1, FS_EmptySet
  <2> QED BY <2>1, <2>2
<1>3. CASE UNCHANGED vars
  BY <1>3 DEF vars, storeVars, Live, FinInv
<1>4. ASSUME NEW o \in Owners, OwnerStep(o) PROVE FinInv'
  BY <1>1, <1>4, FS_Subset DEF FinInv
<1>5. ASSUME NEW p \in Clients, ClientStep(p) PROVE FinInv'
  <2>1. PICK K : IsFiniteSet(K) /\ Live' \subseteq Live \cup K
    BY <1>2, <1>5
  <2>2. IsFiniteSet(Live \cup K)
    BY <2>1, FS_Union DEF FinInv
  <2> QED BY <2>1, <2>2, FS_Subset DEF FinInv
<1> QED BY <1>3, <1>4, <1>5 DEF Next

LEMMA RowTyped ==
  ASSUME TypeOK, NEW o \in Live
  PROVE  /\ o \in Nat /\ o \in Orderings /\ db[o] \in Row /\ db[o] \in Event
         /\ db[o].PersistenceID \in Nat /\ db[o].PersistenceID # NoID
         /\ db[o].SequenceNumber \in Nat /\ db[o].Timestamp \in Nat
  BY OrderingsAssumption DEF TypeOK, Live, Row, Event

\* The index puts any rows in a strict order.
LEMMA IndexStrict ==
  ASSUME TypeOK, NEW S \in SUBSET Live
  PROVE  StrictOrder(S, IndexOrder)
<1>1. \A o \in S : o \in Live /\ o \in Nat /\ db[o].PersistenceID \in Nat
  BY RowTyped
<1>2. \A a, b \in S : <<a, b>> \in IndexOrder <=>
        \/ db[a].PersistenceID < db[b].PersistenceID
        \/ db[a].PersistenceID = db[b].PersistenceID /\ a < b
  BY <1>1 DEF IndexOrder
<1> QED BY <1>1, <1>2 DEF StrictOrder

\* An iteration over some rows: each of them once, in the order of their ids.
LEMMA Scanned ==
  ASSUME TypeOK, FinInv, NEW S \in SUBSET Live
  PROVE  LET s == IndexScan(S)
         IN /\ Cardinality(S) \in Nat /\ s \in Seq(Event) /\ Len(s) = Cardinality(S)
            /\ DOMAIN s = 1 .. Cardinality(S)
            /\ \A i \in DOMAIN s : s[i] \in Event /\ \E o \in S : s[i] = db[o]
            /\ \A o \in S : \E i \in DOMAIN s : s[i] = db[o]
            /\ \A i, j \in DOMAIN s : i < j => s[i].PersistenceID <= s[j].PersistenceID
<1> DEFINE order == InOrder(S, IndexOrder)
           s == IndexScan(S)
<1>1. IsFiniteSet(S) /\ StrictOrder(S, IndexOrder)
  BY FS_Subset, IndexStrict DEF FinInv
<1>2. /\ Cardinality(S) \in Nat /\ DOMAIN order = 1 .. Cardinality(S)
      /\ \A i \in DOMAIN order : order[i] \in S
      /\ \A x \in S : \E i \in DOMAIN order : order[i] = x
      /\ \A i, j \in DOMAIN order : i < j => <<order[i], order[j]>> \in IndexOrder
  BY <1>1, InOrderSorts
<1>3. s = [i \in DOMAIN order |-> db[order[i]]]
  BY DEF IndexScan
<1> HIDE DEF order, s
<1>4. /\ DOMAIN s = 1 .. Cardinality(S)
      /\ \A i \in DOMAIN s : order[i] \in S /\ s[i] = db[order[i]]
  BY <1>2, <1>3
<1>5. \A i \in DOMAIN s : s[i] \in Event /\ s[i].PersistenceID \in Nat
  BY <1>4, RowTyped
<1>6. s \in Seq(Event) /\ Len(s) = Cardinality(S)
  BY <1>2, <1>3, <1>4, <1>5
<1>7. ASSUME NEW i \in DOMAIN s, NEW j \in DOMAIN s, i < j
      PROVE  s[i].PersistenceID <= s[j].PersistenceID
  <2>1. <<order[i], order[j]>> \in IndexOrder
    BY <1>2, <1>4, <1>7
  <2>2. db[order[i]].PersistenceID <= db[order[j]].PersistenceID
    BY <1>4, <1>5, <2>1 DEF IndexOrder
  <2> QED BY <1>4, <2>2
<1> QED BY <1>2, <1>4, <1>5, <1>6, <1>7 DEF s

LEMMA EventsTyped ==
  ASSUME NEW events \in Seq(Event)
  PROVE  /\ Len(events) \in Nat /\ DOMAIN events = 1 .. Len(events)
         /\ \A k \in DOMAIN events :
              /\ k \in Nat /\ events[k] \in Event
              /\ events[k].SequenceNumber \in Nat /\ events[k].Timestamp \in Nat
<1>1. Len(events) \in Nat /\ DOMAIN events = 1 .. Len(events)
  OBVIOUS
<1>2. \A k \in DOMAIN events : k \in Nat /\ events[k] \in Event
  BY <1>1
<1> QED BY <1>1, <1>2 DEF Event

\* sort.SliceStable with `<` on sequence numbers.
LEMMA SequenceSorted ==
  ASSUME NEW events \in Seq(Event)
  PROVE  LET s == SortBySequence(events)
         IN /\ s \in Seq(Event) /\ Len(s) = Len(events)
            /\ \A k \in DOMAIN events : \E i \in DOMAIN s : s[i] = events[k]
            /\ \A i, j \in DOMAIN s : i < j => s[i].SequenceNumber <= s[j].SequenceNumber
<1> DEFINE D == DOMAIN events
           R == {e \in D \X D :
                   \/ events[e[1]].SequenceNumber < events[e[2]].SequenceNumber
                   \/ /\ events[e[1]].SequenceNumber = events[e[2]].SequenceNumber
                      /\ e[1] < e[2]}
<1>1. \A k \in D : k \in Nat /\ events[k].SequenceNumber \in Nat
  BY EventsTyped
<1>2. \A k, l \in D : <<k, l>> \in R <=>
        \/ events[k].SequenceNumber < events[l].SequenceNumber
        \/ events[k].SequenceNumber = events[l].SequenceNumber /\ k < l
  OBVIOUS
<1>3. SortBySequence(events) = Sorted(events, R)
  BY DEF SortBySequence
<1> HIDE DEF R
<1>4. StrictOrder(D, R)
  BY <1>1, <1>2 DEF StrictOrder
<1>5. \A k, l \in D : <<k, l>> \in R => events[k].SequenceNumber <= events[l].SequenceNumber
  BY <1>1, <1>2
<1> DEFINE s == Sorted(events, R)
<1>6. /\ s \in Seq(Event) /\ Len(s) = Len(events) /\ DOMAIN s = D
      /\ \A k \in D : \E i \in DOMAIN s : s[i] = events[k]
  BY <1>4, SortedEvents
<1>7. PICK pos \in [DOMAIN s -> D] :
        /\ \A i \in DOMAIN s : s[i] = events[pos[i]]
        /\ \A i, j \in DOMAIN s : i < j => <<pos[i], pos[j]>> \in R
  BY <1>4, SortedEvents
<1> HIDE DEF s, D
<1>8. \A i, j \in DOMAIN s : i < j => s[i].SequenceNumber <= s[j].SequenceNumber
  BY <1>5, <1>7
<1> QED BY <1>3, <1>6, <1>8 DEF s, D

\* sort.SliceStable with `<=` on timestamps.
LEMMA TimestampSorted ==
  ASSUME NEW events \in Seq(Event)
  PROVE  LET s == SortByTimestamp(events)
         IN /\ s \in Seq(Event) /\ Len(s) = Len(events) /\ DOMAIN s = DOMAIN events
            /\ \A k \in DOMAIN events : \E i \in DOMAIN s : s[i] = events[k]
            /\ \A i \in DOMAIN s : \E k \in DOMAIN events : s[i] = events[k]
            /\ \A i, j \in DOMAIN s : i < j => s[i].Timestamp <= s[j].Timestamp
<1> DEFINE D == DOMAIN events
           R == {e \in D \X D : \/ events[e[1]].Timestamp < events[e[2]].Timestamp
                                \/ /\ events[e[1]].Timestamp = events[e[2]].Timestamp
                                   /\ e[2] < e[1]}
<1>1. \A k \in D : k \in Nat /\ events[k].Timestamp \in Nat
  BY EventsTyped
<1>2. \A k, l \in D : <<k, l>> \in R <=>
        \/ events[k].Timestamp < events[l].Timestamp
        \/ events[k].Timestamp = events[l].Timestamp /\ l < k
  OBVIOUS
<1>3. SortByTimestamp(events) = Sorted(events, R)
  BY DEF SortByTimestamp
<1> HIDE DEF R
<1>4. StrictOrder(D, R)
  BY <1>1, <1>2 DEF StrictOrder
<1>5. \A k, l \in D : <<k, l>> \in R => events[k].Timestamp <= events[l].Timestamp
  BY <1>1, <1>2
<1> DEFINE s == Sorted(events, R)
<1>6. /\ s \in Seq(Event) /\ Len(s) = Len(events) /\ DOMAIN s = D
      /\ \A k \in D : \E i \in DOMAIN s : s[i] = events[k]
  BY <1>4, SortedEvents
<1>7. PICK pos \in [DOMAIN s -> D] :
        /\ \A i \in DOMAIN s : s[i] = events[pos[i]]
        /\ \A i, j \in DOMAIN s : i < j => <<pos[i], pos[j]>> \in R
  BY <1>4, SortedEvents
<1> HIDE DEF s, D
<1>9. \A i \in DOMAIN s : \E k \in D : s[i] = events[k]
  BY <1>7
<1>8. \A i, j \in DOMAIN s : i < j => s[i].Timestamp <= s[j].Timestamp
  BY <1>5, <1>7
<1> QED BY <1>3, <1>6, <1>8, <1>9 DEF s, D

-------------------------------------------------------------------------------
(* ReplayEvents and GetShardEvents.                                        *)

LEMMA InRangeRows ==
  ASSUME TypeOK, NEW pid, NEW from \in Sequences, NEW to \in Sequences
  PROVE  /\ InRange(pid, from, to) = {o \in OfID(pid) : db[o].SequenceNumber \in from..to}
         /\ InRange(pid, from, to) \in SUBSET Live
<1>1. from \in Nat /\ to \in Nat
  BY RangesAssumption
<1>2. \A o \in OfID(pid) : o \in Live /\ db[o].SequenceNumber \in Nat
  BY RowTyped DEF OfID
<1> QED BY <1>1, <1>2 DEF InRange

LEMMA Replays == TypeOK /\ FinInv => ReplayComplete
<1> SUFFICES ASSUME TypeOK, FinInv, NEW pid \in IDs, NEW from \in Sequences,
                    NEW to \in Sequences, NEW limit \in Limits,
                    NEW rows, rows = {o \in OfID(pid) : db[o].SequenceNumber \in from..to},
                    ~ReplayEvents(pid, from, to, limit).err, Cardinality(rows) <= limit
             PROVE  LET events == ReplayEvents(pid, from, to, limit).events
                    IN /\ Len(events) = Cardinality(rows)
                       /\ \A o \in rows : db[o] \in ToSet(events)
                       /\ SortedBy(events, SequenceOf)
  BY DEF ReplayComplete
<1> DEFINE matching == IndexScan(rows)
           events == SortBySequence(matching)
<1>1. limit \in Nat
  BY RangesAssumption
<1>2. rows = InRange(pid, from, to) /\ rows \in SUBSET Live
  BY InRangeRows
<1>3. /\ Cardinality(rows) \in Nat /\ matching \in Seq(Event)
      /\ Len(matching) = Cardinality(rows)
      /\ \A o \in rows : \E i \in DOMAIN matching : matching[i] = db[o]
  BY <1>2, Scanned
<1>4. ReplayEvents(pid, from, to, limit).events = SortBySequence(Limited(matching, limit))
  BY <1>2 DEF ReplayEvents, Success, Failure
<1> HIDE DEF matching
<1>5. Limited(matching, limit) = matching
  BY <1>1, <1>3, FirstOnes DEF Limited
<1>6. /\ Len(events) = Len(matching)
      /\ \A k \in DOMAIN matching : \E i \in DOMAIN events : events[i] = matching[k]
      /\ \A i, j \in DOMAIN events : i < j =>
           events[i].SequenceNumber <= events[j].SequenceNumber
  BY <1>3, SequenceSorted
<1> HIDE DEF events
<1>7. \A o \in rows : \E i \in DOMAIN events : events[i] = db[o]
  BY <1>3, <1>6
<1>8. \A o \in rows : db[o] \in ToSet(events)
  BY <1>7 DEF ToSet
<1>9. SortedBy(events, SequenceOf)
  BY <1>6 DEF SortedBy, SequenceOf
<1> QED BY <1>3, <1>4, <1>5, <1>6, <1>8, <1>9 DEF events

LEMMA Decodes == TypeOK /\ FinInv => UnreadableIsLocal
<1> SUFFICES ASSUME TypeOK, FinInv, NEW pid \in IDs, NEW from \in Sequences,
                    NEW to \in Sequences, NEW limit \in Limits,
                    ReplayEvents(pid, from, to, limit).err
             PROVE  \E o \in InRange(pid, from, to) : db[o].EventPayload = Malformed
  BY InRangeRows DEF UnreadableIsLocal
<1> DEFINE rows == InRange(pid, from, to)
<1>1. Unreadable(IndexScan(rows))
  BY DEF ReplayEvents, Success, Failure
<1>2. rows \in SUBSET Live
  BY InRangeRows
<1> HIDE DEF rows
<1>3. \A i \in DOMAIN IndexScan(rows) : \E o \in rows : IndexScan(rows)[i] = db[o]
  BY <1>2, Scanned
<1> QED BY <1>1, <1>3 DEF Unreadable, rows

LEMMA ShardPages == TypeOK /\ FinInv => ShardPageComplete
<1> SUFFICES ASSUME TypeOK, FinInv, NEW shard \in Shards, NEW offset \in Offsets,
                    NEW limit \in Limits, ~GetShardEvents(shard, offset, limit).err
             PROVE  LET events == GetShardEvents(shard, offset, limit).events
                        next == GetShardEvents(shard, offset, limit).next
                    IN /\ SortedBy(events, TimestampOf)
                       /\ events # <<>> =>
                            /\ next > offset
                            /\ \A i \in DOMAIN events : events[i].Timestamp <= next
                       /\ Len(events) <= limit =>
                            /\ Len(events) = Cardinality(After(shard, offset))
                            /\ \A o \in After(shard, offset) : db[o] \in ToSet(events)
  BY DEF ShardPageComplete, After
<1> DEFINE rows == After(shard, offset)
           matching == IndexScan(rows)
           cut == Limited(matching, limit)
           events == SortByTimestamp(cut)
           next == GetShardEvents(shard, offset, limit).next
<1>1. limit \in Nat /\ offset \in Nat
  BY RangesAssumption
<1>2. rows \in SUBSET Live /\ \A o \in rows : db[o].Timestamp > offset
  BY DEF After
<1>3. /\ GetShardEvents(shard, offset, limit).events = events
      /\ next = IF events = <<>> THEN 0 ELSE events[Len(events)].Timestamp
  BY DEF GetShardEvents, Success, Failure, Last
<1> HIDE DEF rows, next
<1>4. /\ Cardinality(rows) \in Nat /\ matching \in Seq(Event)
      /\ Len(matching) = Cardinality(rows)
      /\ \A i \in DOMAIN matching : \E o \in rows : matching[i] = db[o]
      /\ \A o \in rows : \E i \in DOMAIN matching : matching[i] = db[o]
  BY <1>2, Scanned
<1> HIDE DEF matching
<1>5. /\ cut \in Seq(Event) /\ Len(matching) \in Nat
      /\ Len(cut) = IF limit + 1 < Len(matching) THEN limit + 1 ELSE Len(matching)
      /\ \A i \in DOMAIN cut : i \in DOMAIN matching /\ cut[i] = matching[i]
      /\ Len(matching) <= limit + 1 => cut = matching
  BY <1>1, <1>4, FirstOnes DEF Limited
<1> HIDE DEF cut
<1>6. /\ events \in Seq(Event) /\ Len(events) = Len(cut) /\ DOMAIN events = DOMAIN cut
      /\ \A k \in DOMAIN cut : \E i \in DOMAIN events : events[i] = cut[k]
      /\ \A i, j \in DOMAIN events : i < j => events[i].Timestamp <= events[j].Timestamp
      /\ \A i \in DOMAIN events : \E k \in DOMAIN cut : events[i] = cut[k]
  BY <1>5, TimestampSorted
<1> HIDE DEF events
<1>7. ASSUME NEW i \in DOMAIN events
      PROVE  events[i].Timestamp > offset /\ events[i].Timestamp \in Nat
  <2>1. PICK k \in DOMAIN matching : events[i] = matching[k]
    BY <1>5, <1>6
  <2>2. PICK o \in rows : events[i] = db[o]
    BY <1>4, <2>1
  <2> QED BY <1>2, <1>6, <2>2, EventsTyped
<1>8. ASSUME events # <<>>
      PROVE  /\ next > offset
             /\ \A i \in DOMAIN events : events[i].Timestamp <= next
  <2>0. Len(events) \in Nat /\ DOMAIN events = 1 .. Len(events) /\ Len(events) # 0
    BY <1>6, <1>8
  <2>1. Len(events) \in DOMAIN events /\ DOMAIN events = 1 .. Len(events)
    BY <2>0
  <2>2. next = events[Len(events)].Timestamp
    BY <1>3, <1>8
  <2>3. ASSUME NEW i \in DOMAIN events PROVE events[i].Timestamp <= next
    <3>1. i = Len(events) \/ i < Len(events)
      BY <2>0
    <3>2. events[i].Timestamp \in Nat
      BY <1>7
    <3>3. CASE i = Len(events)
      BY <2>2, <3>2, <3>3
    <3>4. CASE i < Len(events)
      BY <1>6, <2>1, <2>2, <3>4
    <3> QED BY <3>1, <3>3, <3>4
  <2> QED BY <1>7, <2>1, <2>2, <2>3
<1>9. ASSUME Len(events) <= limit
      PROVE  Len(events) = Cardinality(rows) /\ \A o \in rows : db[o] \in ToSet(events)
  <2>1. cut = matching
    BY <1>1, <1>5, <1>6, <1>9
  <2>2. ASSUME NEW o \in rows PROVE \E i \in DOMAIN events : events[i] = db[o]
    <3>1. PICK k \in DOMAIN cut : cut[k] = db[o]
      BY <1>4, <2>1
    <3> QED BY <1>6, <3>1
  <2> QED BY <1>4, <1>6, <2>1, <2>2 DEF ToSet
<1>10. SortedBy(events, TimestampOf)
  BY <1>6 DEF SortedBy, TimestampOf
<1> QED BY <1>3, <1>8, <1>9, <1>10 DEF rows, next

-------------------------------------------------------------------------------
(* PersistenceIDs.                                                         *)

\* A page takes the rows the index has first: all there are, or as many as the
\* page has room for; and no row that comes before one it takes is left.
LEMMA PageOfRows ==
  ASSUME TypeOK, FinInv, NEW token
  PROVE  LET P == PageRows(PageSize, token)
             S == FromToken(token)
         IN /\ P \in SUBSET S /\ S \in SUBSET Live
            /\ P = S \/ (IsFiniteSet(P) /\ Cardinality(P) = PageSize)
            /\ \A a \in S, b \in P : db[a].PersistenceID < db[b].PersistenceID => a \in P
<1> DEFINE S == FromToken(token)
           order == InOrder(S, IndexOrder)
           first == FirstN(order, PageSize)
           P == PageRows(PageSize, token)
           m == IF PageSize < Len(order) THEN PageSize ELSE Len(order)
<1>1. S \in SUBSET Live
  BY DEF FromToken
<1>2. IsFiniteSet(S) /\ StrictOrder(S, IndexOrder)
  BY <1>1, FS_Subset, IndexStrict DEF FinInv
<1>3. P = ToSet(first)
  BY DEF PageRows
<1> HIDE DEF S
<1>4. /\ order \in Seq(S)
      /\ \A i \in DOMAIN order : order[i] \in S
      /\ \A x \in S : \E i \in DOMAIN order : order[i] = x
      /\ \A i, j \in DOMAIN order : i < j => <<order[i], order[j]>> \in IndexOrder
  BY <1>2, InOrderSorts
<1> HIDE DEF order, P
<1>5. /\ DOMAIN first = 1 .. m /\ m \in Nat /\ PageSize \in Nat
      /\ Len(order) \in Nat /\ DOMAIN order = 1 .. Len(order)
      /\ \A i \in DOMAIN first : i \in DOMAIN order /\ first[i] = order[i]
  BY <1>4, FirstOnes, PageSizeAssumption
<1> HIDE DEF first
<1>6. P = {order[i] : i \in 1 .. m}
  BY <1>3, <1>5 DEF ToSet
<1>7. P \in SUBSET S
  BY <1>4, <1>5, <1>6
<1>8. ASSUME NEW a \in S, NEW b \in P, db[a].PersistenceID < db[b].PersistenceID
      PROVE  a \in P
  <2>1. PICK i \in DOMAIN order : order[i] = a
    BY <1>4
  <2>2. PICK j \in 1 .. m : order[j] = b
    BY <1>6
  <2>3. i \in Nat /\ j \in Nat /\ j \in DOMAIN order
    BY <1>5
  <2>4. ~(<<b, a>> \in IndexOrder)
    BY <1>1, <1>7, <1>8, RowTyped DEF IndexOrder
  <2>5. ~(j < i)
    BY <1>4, <2>1, <2>2, <2>3, <2>4
  <2>6. i \in 1 .. m
    BY <1>5, <2>3, <2>5
  <2> QED BY <1>6, <2>1, <2>6
<1>9. ASSUME P # S PROVE IsFiniteSet(P) /\ Cardinality(P) = PageSize
  <2>1. m = PageSize
    <3> SUFFICES ASSUME m # PageSize PROVE FALSE
      OBVIOUS
    <3>1. m = Len(order)
      BY <1>5
    <3> QED BY <1>4, <1>5, <1>6, <1>7, <1>9, <3>1
  <2> DEFINE f == [i \in 1 .. m |-> order[i]]
  <2>2. ASSUME NEW i \in 1 .. m, NEW j \in 1 .. m, f[i] = f[j] PROVE i = j
    <3>1. i \in DOMAIN order /\ j \in DOMAIN order /\ order[i] = order[j] /\ order[i] \in S
      BY <1>4, <1>5, <2>2
    <3>2. ~(i < j) /\ ~(j < i)
      BY <1>2, <1>4, <3>1 DEF StrictOrder
    <3> QED BY <1>5, <3>2
  <2>3. f \in Bijection(1 .. m, P)
    BY <1>6, <2>2 DEF Bijection, Injection, IsInjective, Surjection
  <2>4. ExistsBijection(1 .. m, P)
    BY <2>3 DEF ExistsBijection
  <2> HIDE DEF m
  <2>5. IsFiniteSet(1 .. m) /\ Cardinality(1 .. m) = m
    BY <1>5, FS_Interval
  <2> QED BY <2>1, <2>4, <2>5, FS_Bijection
<1> QED BY <1>1, <1>7, <1>8, <1>9 DEF S, P

\* A page goes forward, lists every id up to the token it hands out, and hands out
\* none only when no id is left, unless the rows of one id fill it.
LEMMA IDPages ==
  ASSUME TypeOK, FinInv, NEW token \in Nat
  PROVE  LET page == PersistenceIDs(PageSize, token)
         IN /\ page.nextPageToken \in Nat
            /\ page.nextPageToken = NoID \/ page.nextPageToken > token
            /\ page.nextPageToken # NoID =>
                 \A pid \in IDs : token < pid /\ pid <= page.nextPageToken =>
                   pid \in ToSet(page.ids)
            /\ /\ page.nextPageToken = NoID
               /\ \A pid \in IDs : Cardinality(OfID(pid)) < PageSize
               => \A pid \in IDs : pid <= token
<1> DEFINE P == PageRows(PageSize, token)
           S == FromToken(token)
           W == {o \in P : PastToken(db[o], token)}
           rows == IndexScan(W)
           ids == [i \in DOMAIN rows |-> rows[i].PersistenceID]
           next == PersistenceIDs(PageSize, token).nextPageToken
<1>1. /\ P \in SUBSET S /\ S \in SUBSET Live
      /\ P = S \/ (IsFiniteSet(P) /\ Cardinality(P) = PageSize)
      /\ \A a \in S, b \in P : db[a].PersistenceID < db[b].PersistenceID => a \in P
  BY PageOfRows
<1>2. /\ PersistenceIDs(PageSize, token).ids = ids
      /\ next = IF ids = <<>> THEN NoID ELSE ids[Len(ids)]
  BY DEF PersistenceIDs, Last
<1>3. \A o \in P : o \in W <=> db[o].PersistenceID # token
  BY DEF PastToken
<1>4. \A o \in S : db[o].PersistenceID >= token /\ db[o].PersistenceID \in Nat /\ o \in Live
                   /\ db[o].PersistenceID # NoID
  BY RowTyped DEF FromToken
<1>5. \A o \in Live : db[o].PersistenceID >= token => o \in S
  BY DEF FromToken
<1>6. W \in SUBSET P
  OBVIOUS
<1> HIDE DEF P, S, W, next
<1>7. W \in SUBSET Live
  BY <1>1, <1>6
<1>8. /\ Cardinality(W) \in Nat /\ DOMAIN rows = 1 .. Cardinality(W)
      /\ \A i \in DOMAIN rows : \E o \in W : rows[i] = db[o]
      /\ \A o \in W : \E i \in DOMAIN rows : rows[i] = db[o]
      /\ \A i, j \in DOMAIN rows : i < j => rows[i].PersistenceID <= rows[j].PersistenceID
  BY <1>7, Scanned
<1> HIDE DEF rows
<1>9. /\ DOMAIN ids = 1 .. Cardinality(W) /\ Len(ids) = Cardinality(W)
      /\ \A i \in DOMAIN ids : ids[i] = rows[i].PersistenceID
  BY <1>8
<1>10. \A o \in W : \E i \in DOMAIN ids : ids[i] = db[o].PersistenceID
  BY <1>8, <1>9
<1>11. ASSUME ids = <<>>
       PROVE  /\ next = NoID
              /\ (\A pid \in IDs : Cardinality(OfID(pid)) < PageSize) =>
                   \A pid \in IDs : pid <= token
  <2>1. W = {}
    BY <1>10, <1>11
  <2> SUFFICES ASSUME \A pid \in IDs : Cardinality(OfID(pid)) < PageSize,
                      NEW pid \in IDs, ~(pid <= token)
               PROVE  FALSE
    BY <1>2, <1>11
  <2>2. PICK a \in Live : db[a].PersistenceID = pid
    BY DEF IDs
  <2>3. pid \in Nat /\ a \in S /\ a \notin P
    BY <1>3, <1>5, <2>1, <2>2, RowTyped
  <2>4. IsFiniteSet(P) /\ Cardinality(P) = PageSize
    BY <1>1, <2>3
  <2>5. P \in SUBSET OfID(token)
    BY <1>1, <1>3, <2>1 DEF OfID
  <2>6. \A id : IsFiniteSet(OfID(id)) /\ Cardinality(OfID(id)) \in Nat
    BY FS_Subset, FS_CardinalityType DEF FinInv, OfID
  <2>7. Cardinality(P) <= Cardinality(OfID(token))
    BY <2>5, <2>6, FS_Subset
  <2>8. token \notin IDs
    BY <2>4, <2>6, <2>7, PageSizeAssumption
  <2>9. P = {}
    BY <2>5, <2>8 DEF OfID, IDs
  <2>10. Cardinality(OfID(pid)) < 0
    BY <2>4, <2>9, FS_EmptySet
  <2> QED BY <2>6, <2>10
<1>12. ASSUME ids # <<>>
       PROVE  /\ next \in Nat /\ next # NoID /\ next > token
              /\ \A pid \in IDs : token < pid /\ pid <= next => pid \in ToSet(ids)
  <2>1. Len(ids) \in DOMAIN ids
    BY <1>8, <1>9, <1>12
  <2>2. next = ids[Len(ids)]
    BY <1>2, <1>12
  <2>3. PICK b \in W : next = db[b].PersistenceID
    BY <1>8, <1>9, <2>1, <2>2
  <2>4. next \in Nat /\ next # NoID /\ next > token
    BY <1>1, <1>3, <1>4, <1>6, <2>3
  <2>5. ASSUME NEW pid \in IDs, token < pid, pid <= next PROVE pid \in ToSet(ids)
    <3>1. CASE pid = next
      BY <2>1, <2>2, <3>1 DEF ToSet
    <3>2. CASE pid # next
      <4>1. PICK a \in Live : db[a].PersistenceID = pid
        BY DEF IDs
      <4>2. pid \in Nat /\ a \in S
        BY <1>5, <2>5, <4>1, RowTyped
      <4>3. a \in P
        BY <1>1, <1>6, <2>3, <2>4, <2>5, <3>2, <4>1, <4>2
      <4>4. a \in W
        BY <1>3, <2>5, <4>1, <4>2, <4>3
      <4> QED BY <1>10, <4>1, <4>4 DEF ToSet
    <3> QED BY <3>1, <3>2
  <2> QED BY <2>4, <2>5
<1>13. NoID \in Nat
  BY DEF NoID
<1> HIDE DEF ids
<1> QED BY <1>2, <1>11, <1>12, <1>13 DEF next

-------------------------------------------------------------------------------
(* A walk.                                                                 *)

\* While no id has filled a page, a walk has listed the stable ids up to its token,
\* and all of them when it is done; until then they have rows, so that a page that
\* finds none past its token leaves none out.
WalkInv ==
  /\ pageToken \in Nat
  /\ walk \in {"idle", "paging", "reading", "done"}
  /\ walk \in {"paging", "reading"} => stable \subseteq IDs
  /\ walk \in {"paging", "reading"} /\ fits =>
       \A pid \in stable : pid <= pageToken => pid \in listed
  /\ walk = "done" /\ fits => stable \subseteq listed

WInv == TypeOK /\ CallInv /\ FinInv /\ WalkInv

\* The caller lets the store be, or the store takes a step.
LEMMA StoreOf == [WNext]_<<vars, walkVars>> => [Next]_vars
  BY DEF WNext, StoreStep, StartWalk, PageCheck, PageRead, WalkFails

LEMMA IDsTyped == TypeOK => \A pid \in IDs : pid \in Nat /\ pid # NoID
  BY RowTyped DEF IDs

LEMMA WalkReads ==
  ASSUME WInv, PageRead
  PROVE  WalkInv'
<1> DEFINE page == PersistenceIDs(PageSize, pageToken)
<1>1. /\ pageToken \in Nat /\ walk = "reading" /\ UNCHANGED vars
      /\ listed' = listed \cup ToSet(page.ids)
      /\ pageToken' = page.nextPageToken /\ stable' = stable
      /\ fits' = (fits /\ \A pid \in IDs : Cardinality(OfID(pid)) < PageSize)
      /\ walk' = IF page.nextPageToken = NoID THEN "done" ELSE "paging"
  BY DEF WInv, WalkInv, PageRead
<1>2. /\ page.nextPageToken \in Nat
      /\ page.nextPageToken # NoID =>
           \A pid \in IDs : pageToken < pid /\ pid <= page.nextPageToken =>
             pid \in ToSet(page.ids)
      /\ /\ page.nextPageToken = NoID
         /\ \A pid \in IDs : Cardinality(OfID(pid)) < PageSize
         => \A pid \in IDs : pid <= pageToken
  BY <1>1, IDPages DEF WInv
<1> HIDE DEF page
<1>3. IDs' = IDs
  BY <1>1 DEF vars, storeVars, IDs, Live
<1>4. \A pid \in stable : pid \in IDs /\ pid \in Nat
  BY <1>1, IDsTyped DEF WInv, WalkInv
<1>5. ASSUME fits' PROVE \A pid \in stable : pid <= pageToken => pid \in listed
  BY <1>1, <1>5 DEF WInv, WalkInv
<1>6. CASE page.nextPageToken = NoID
  <2>1. fits' => stable \subseteq listed
    BY <1>1, <1>2, <1>4, <1>5, <1>6
  <2> QED BY <1>1, <1>2, <1>6, <2>1 DEF WalkInv
<1>7. CASE page.nextPageToken # NoID
  <2>1. ASSUME fits', NEW pid \in stable, pid <= page.nextPageToken
        PROVE  pid \in listed \cup ToSet(page.ids)
    <3>1. pid <= pageToken \/ pageToken < pid
      BY <1>1, <1>4
    <3> QED BY <1>2, <1>4, <1>5, <1>7, <2>1, <3>1
  <2> QED BY <1>1, <1>2, <1>3, <1>4, <1>7, <2>1 DEF WalkInv
<1> QED BY <1>6, <1>7

LEMMA WInvStarts == WInit => WInv
<1> SUFFICES ASSUME WInit PROVE WInv
  OBVIOUS
<1>1. Live = {}
  BY DEF WInit, Init, Live, NoRows
<1>2. FinInv
  BY <1>1, FS_EmptySet DEF FinInv
<1> QED BY <1>2, TypeCallInit DEF WInit, WalkInit, WInv, WalkInv, NoID

LEMMA WInvInductive == WInv /\ [WNext]_<<vars, walkVars>> => WInv'
<1> SUFFICES ASSUME WInv, [WNext]_<<vars, walkVars>> PROVE WInv'
  OBVIOUS
<1>1. TypeOK' /\ CallInv' /\ FinInv'
  BY StoreOf, TypeCallInductive, TableGrows DEF WInv
<1>2. WalkInv'
  <2>1. CASE StoreStep
    BY <2>1 DEF StoreStep, WInv, WalkInv
  <2>2. CASE StartWalk
    <3>1. IDs' = IDs
      BY <2>2 DEF StartWalk, vars, storeVars, IDs, Live
    <3>2. \A pid \in IDs : ~(pid <= NoID)
      BY IDsTyped DEF WInv, NoID
    <3> QED BY <2>2, <3>1, <3>2 DEF StartWalk, WalkInv, NoID
  <2>3. CASE PageCheck \/ WalkFails
    <3>1. IDs' = IDs
      BY <2>3 DEF PageCheck, WalkFails, vars, storeVars, IDs, Live
    <3> QED BY <2>3, <3>1 DEF PageCheck, WalkFails, WInv, WalkInv, NoID
  <2>4. CASE PageRead
    BY <2>4, WalkReads
  <2>5. CASE UNCHANGED <<vars, walkVars>>
    <3>1. IDs' = IDs
      BY <2>5 DEF vars, storeVars, IDs, Live
    <3> QED BY <2>5, <3>1 DEF walkVars, WInv, WalkInv
  <2> QED BY <2>1, <2>2, <2>3, <2>4, <2>5 DEF WNext
<1> QED BY <1>1, <1>2 DEF WInv

-------------------------------------------------------------------------------
(* The theorems.                                                           *)

\* ReplayEvents gives a recovering actor its whole range in the order of sequence
\* numbers, whatever order the uuids bring the rows in; in every table, be there a
\* walk under way or not.
THEOREM RecoveryFindsAll == WSpec => []ReplaysComplete /\ []ReplayComplete
<1>1. WInv => ReplaysComplete /\ ReplayComplete
  BY Replays DEF WInv, ReplaysComplete, AtRest
<1> QED BY <1>1, WInvStarts, WInvInductive, PTL DEF WSpec

\* GetShardEvents gives a projection events that are past its offset, in the order
\* of their timestamps, and a page within the limit leaves no event behind; in every
\* table.
THEOREM ProjectionPages == WSpec => []ShardPagesComplete /\ []ShardPageComplete
<1>1. WInv => ShardPagesComplete /\ ShardPageComplete
  BY ShardPages DEF WInv, ShardPagesComplete, AtRest
<1> QED BY <1>1, WInvStarts, WInvInductive, PTL DEF WSpec

\* ReplayEvents fails only on a range that holds an event it cannot decode; in every
\* table.
THEOREM UnreadableFailsAlone == WSpec => []UnreadableStaysLocal /\ []UnreadableIsLocal
<1>1. WInv => UnreadableStaysLocal /\ UnreadableIsLocal
  BY Decodes DEF WInv, UnreadableStaysLocal, AtRest
<1> QED BY <1>1, WInvStarts, WInvInductive, PTL DEF WSpec

\* A walk through PersistenceIDs that ends has listed every id that had an event all
\* along, if no id filled a page.
THEOREM WalkListsAll == WSpec => []ListsEveryIDThatFits
<1>1. WInv => ListsEveryIDThatFits
  BY DEF WInv, WalkInv, ListsEveryIDThatFits, ListsEveryID
<1> QED BY <1>1, WInvStarts, WInvInductive, PTL DEF WSpec

\* PersistenceIDs never hands out the token it was given or one before it.
THEOREM WalkGoesOn == WSpec => WalkAdvances
<1>1. WInv /\ PageRead => pageToken' = NoID \/ pageToken' > pageToken
  BY IDPages DEF WInv, WalkInv, PageRead
<1>2. WInv /\ [WNext]_<<vars, walkVars>> =>
        [PageRead => pageToken' = NoID \/ pageToken' > pageToken]_<<vars, walkVars>>
  BY <1>1
<1> QED BY <1>2, WInvStarts, WInvInductive, PTL DEF WSpec, WalkAdvances
==============================================================================
