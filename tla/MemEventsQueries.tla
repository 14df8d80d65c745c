--------------------------- MODULE MemEventsQueries ---------------------------
(***************************************************************************)
(* The reading half of eventstore/memory: every query takes one read       *)
(* transaction, hence one state of the table, iterates an index of it, and *)
(* filters, cuts and sorts what it finds in Go.  The queries are operators *)
(* on the table of MemEventsStore.                                         *)
(***************************************************************************)
EXTENDS MemEventsStore, SequencesExt

CONSTANTS
  Malformed,  \* the payload of an event proto.Marshal failed on
  Sequences,  \* the bounds of the ranges ReplayEvents is called with
  Limits,     \* the limits ReplayEvents and GetShardEvents are called with
  Offsets,    \* the offsets GetShardEvents is called with
  Shards      \* the shards it is called with

ASSUME RangesAssumption ==
  Sequences \subseteq Nat /\ Limits \subseteq Nat /\ Offsets \subseteq Nat

Failure == [err |-> TRUE, events |-> <<>>, next |-> 0]

Success(events, next) == [err |-> FALSE, events |-> events, next |-> next]

\* The members of S in the order R: each one's place is one past the number of
\* those before it.
InOrder(S, R) ==
  LET place == [x \in S |-> 1 + Cardinality({y \in S : <<y, x>> \in R})]
  IN [i \in 1..Cardinality(S) |-> CHOOSE x \in S : place[x] = i]

\* The persistence id index: equal persistence ids are told apart by the primary
\* key.
IndexOrder == {e \in Live \X Live :
  \/ db[e[1]].PersistenceID < db[e[2]].PersistenceID
  \/ db[e[1]].PersistenceID = db[e[2]].PersistenceID /\ e[1] < e[2]}

\* The rows S as the index is iterated.
IndexScan(S) == LET order == InOrder(S, IndexOrder)
                IN [i \in DOMAIN order |-> db[order[i]]]

OfID(pid) == {o \in Live : db[o].PersistenceID = pid}

FirstN(s, n) == SubSeq(s, 1, IF n < Len(s) THEN n ELSE Len(s))

\* A mutant of both sorts.
AsScanned(events) == events

\* The events, taken in the order R of their positions.
Sorted(events, R) == LET order == InOrder(DOMAIN events, R)
                     IN [i \in DOMAIN order |-> events[order[i]]]

\* sort.SliceStable by sequence number, with `<`.
SortBySequence(events) ==
  Sorted(events, {e \in (DOMAIN events) \X (DOMAIN events) :
    \/ events[e[1]].SequenceNumber < events[e[2]].SequenceNumber
    \/ events[e[1]].SequenceNumber = events[e[2]].SequenceNumber /\ e[1] < e[2]})

\* sort.SliceStable by timestamp, with `<=`: an insertion sort (of the blocks of
\* twenty elements it starts from) moves each event before those equal to it.
SortByTimestamp(events) ==
  Sorted(events, {e \in (DOMAIN events) \X (DOMAIN events) :
    \/ events[e[1]].Timestamp < events[e[2]].Timestamp
    \/ events[e[1]].Timestamp = events[e[2]].Timestamp /\ e[2] < e[1]})

\* The limit is tested before the append, with `<=`.
Limited(events, limit) == FirstN(events, limit + 1)

Unreadable(events) == \E i \in DOMAIN events : events[i].EventPayload = Malformed

\* The rows that pass the filter of ReplayEvents.
InRange(pid, from, to) ==
  {o \in OfID(pid) : db[o].SequenceNumber >= from /\ db[o].SequenceNumber <= to}

\* A mutant that decodes the rows before it filters them.
ReplayDecodingAll(pid, from, to, limit) ==
  IF Unreadable(IndexScan(OfID(pid))) THEN Failure
  ELSE Success(SortBySequence(IndexScan(InRange(pid, from, to))), 0)

\* toProto runs on every event that passes the filter, beyond the limit too.
ReplayEvents(pid, from, to, limit) ==
  LET matching == IndexScan(InRange(pid, from, to))
  IN IF Unreadable(matching) THEN Failure
     ELSE Success(SortBySequence(Limited(matching, limit)), 0)

\* txn.Last: the last row of the persistence id index, nothing when there is none.
GetLatestEvent(pid) ==
  LET rows == IndexScan(OfID(pid))
      latest == IF rows = <<>> THEN <<>> ELSE <<Last(rows)>>
  IN IF Unreadable(latest) THEN Failure ELSE Success(latest, 0)

\* The rows that pass the two filters of GetShardEvents.
After(shard, offset) ==
  {o \in Live : db[o].ShardNumber = shard /\ db[o].Timestamp > offset}

\* The index is iterated as a whole; a result without events has offset 0.
GetShardEvents(shard, offset, limit) ==
  LET matching == IndexScan(After(shard, offset))
      events == SortByTimestamp(Limited(matching, limit))
  IN IF Unreadable(matching) THEN Failure
     ELSE Success(events, IF events = <<>> THEN 0 ELSE Last(events).Timestamp)

ShardNumbers == {db[o].ShardNumber : o \in Live}

\* The iterator of LowerBound.
FromToken(token) == {o \in Live : db[o].PersistenceID >= token}

\* Rows, not ids, fill the page, those of the token included; a mutant stops one
\* row early.
ShortPage(pageSize, token) ==
  ToSet(FirstN(InOrder(FromToken(token), IndexOrder), pageSize - 1))

PageRows(pageSize, token) ==
  ToSet(FirstN(InOrder(FromToken(token), IndexOrder), pageSize))

\* The rows of the token are left out; a mutant keeps them.
KeepsToken(row, token) == TRUE

PastToken(row, token) == row.PersistenceID # token

\* The ids of the rows that are left, sorted.
PersistenceIDs(pageSize, token) ==
  LET rows == IndexScan({o \in PageRows(pageSize, token) : PastToken(db[o], token)})
      ids == [i \in DOMAIN rows |-> rows[i].PersistenceID]
  IN [ids |-> ids, nextPageToken |-> IF ids = <<>> THEN NoID ELSE Last(ids)]

IDs == {db[o].PersistenceID : o \in Live}

-------------------------------------------------------------------------------
(* Properties of the queries, in every table the store can reach.          *)

SortedBy(events, Key(_)) ==
  \A i, j \in DOMAIN events : i < j => Key(events[i]) <= Key(events[j])

SequenceOf(event) == event.SequenceNumber
TimestampOf(event) == event.Timestamp

\* An actor recovers from ReplayEvents with a limit the range does not reach:
\* it gets every event of the range that the table holds, each as often as it
\* is stored, in the order of their sequence numbers, though the index hands
\* the rows out in the order of random uuids.
ReplayComplete ==
  \A pid \in IDs, from, to \in Sequences, limit \in Limits :
    LET rows == {o \in OfID(pid) : db[o].SequenceNumber \in from..to}
        result == ReplayEvents(pid, from, to, limit)
    IN (~result.err /\ Cardinality(rows) <= limit) =>
         /\ Len(result.events) = Cardinality(rows)
         /\ \A o \in rows : db[o] \in ToSet(result.events)
         /\ SortedBy(result.events, SequenceOf)

\* A projection polls GetShardEvents from the offset it got last.  The events
\* come in the order of their timestamps, the new offset is past the old one
\* and is that of the last event; and a page that does not exceed the limit
\* leaves no event of the shard behind: what it did not return is not after
\* the old offset.
ShardPageComplete ==
  \A shard \in Shards, offset \in Offsets, limit \in Limits :
    LET result == GetShardEvents(shard, offset, limit)
        rows == {o \in Live : db[o].ShardNumber = shard /\ db[o].Timestamp > offset}
    IN ~result.err =>
         /\ SortedBy(result.events, TimestampOf)
         /\ result.events # <<>> =>
              /\ result.next > offset
              /\ \A i \in DOMAIN result.events : result.events[i].Timestamp <= result.next
         /\ Len(result.events) <= limit =>
              /\ Len(result.events) = Cardinality(rows)
              /\ \A o \in rows : db[o] \in ToSet(result.events)

\* An event that cannot be decoded fails only the replays whose range holds it:
\* an actor recovering from a later snapshot is not stopped by it.
UnreadableIsLocal ==
  \A pid \in IDs, from, to \in Sequences, limit \in Limits :
    ReplayEvents(pid, from, to, limit).err =>
      \E o \in OfID(pid) : /\ db[o].EventPayload = Malformed
                           /\ db[o].SequenceNumber \in from..to

\* "GetLatestEvent fetches the latest event": the one with the highest sequence
\* number its persistence id has.
LatestIsHighest == \A pid \in IDs :
  LET result == GetLatestEvent(pid)
  IN ~result.err => \A o \in OfID(pid) :
       db[o].SequenceNumber <= result.events[1].SequenceNumber
==============================================================================
