---------------------------- MODULE PgEventsQueries ----------------------------
(***************************************************************************)
(* The reading half of eventstore/postgres, and a projection that follows  *)
(* one shard with it.  Every query is one SELECT, which sees the committed *)
(* rows at one moment; filtering, ordering and cutting are left to the     *)
(* database, and the order of equal rows is its choice.  A payload that was*)
(* marshalled can be unmarshalled, so no row of the table is unreadable.   *)
(***************************************************************************)
EXTENDS PgEventsStore, SequencesExt

CONSTANTS
  Bounds,     \* the bounds of the ranges ReplayEvents is called with
  Limits,     \* the limits it is called with
  Shard,      \* the shard the projection follows
  PollLimit   \* and how many events it asks for

ASSUME RangesAssumption == Bounds \subseteq Nat /\ Limits \subseteq Nat /\ PollLimit \in Nat

VARIABLES
  offset,     \* the offset of the projection's next call
  handled,    \* the events it has got
  polling,    \* whether it is between the load of the flag and the SELECT
  late        \* history: the keys committed when the offset was past them

pollVars == <<offset, handled, polling, late>>

Stored == {k \in Keys : table[k] # None}

FirstN(s, n) == SubSeq(s, 1, IF n < Len(s) THEN n ELSE Len(s))

-------------------------------------------------------------------------------
(* The queries: the answers that each of them can give.                    *)

\* A mutant of both ORDER BY clauses: no such clause.
AnyOrder(rows) == SetToSeqs(rows)

BySequenceNumber(rows) == {s \in SetToSeqs(rows) :
  \A i, j \in DOMAIN s : i < j => s[i].SequenceNumber <= s[j].SequenceNumber}

ByTimestamp(rows) == {s \in SetToSeqs(rows) :
  \A i, j \in DOMAIN s : i < j => s[i].Timestamp <= s[j].Timestamp}

ReplayEvents(pid, from, to, limit) ==
  LET rows == {table[k] : k \in {k \in Stored : k[1] = pid /\ k[2] \in from..to}}
  IN {FirstN(s, limit) : s \in BySequenceNumber(rows)}

\* ORDER BY sequence_number DESC LIMIT 1; None when there is no row.
GetLatestEvent(pid) ==
  LET ofID == {k \in Stored : k[1] = pid}
  IN IF ofID = {} THEN None
     ELSE table[CHOOSE k \in ofID : \A l \in ofID : l[2] <= k[2]]

\* timestamp > offset; a mutant takes the offset's own timestamp in again.
NotBefore(row, after) == row.Timestamp >= after

After(row, after) == row.Timestamp > after

\* No event, and the offset 0, when there is no row.
GetShardEvents(shard, after, limit) ==
  LET rows == {table[k] : k \in {k \in Stored :
                 table[k].ShardNumber = shard /\ After(table[k], after)}}
      Answer(events) ==
        [events |-> events,
         next |-> IF events = <<>> THEN 0 ELSE events[Len(events)].Timestamp]
  IN {Answer(FirstN(s, limit)) : s \in ByTimestamp(rows)}

ShardNumbers == {table[k].ShardNumber : k \in Stored}

-------------------------------------------------------------------------------
(* A projection that polls its shard: it passes the offset of the last page*)
(* to the next call, and keeps it when a page is empty.                    *)

PollCheck == /\ ~polling
             /\ connected
             /\ polling' = TRUE
             /\ UNCHANGED <<vars, offset, handled, late>>

\* The SELECT takes a connection of the pool for itself.
PollRead ==
  /\ polling
  /\ status[pool] = "open" /\ Busy(pool) < MaxConnections
  /\ \E page \in GetShardEvents(Shard, offset, PollLimit) :
       /\ handled' = handled \cup ToSet(page.events)
       /\ offset' = IF page.events = <<>> THEN offset ELSE page.next
  /\ polling' = FALSE
  /\ UNCHANGED <<vars, late>>

\* The pool is closed or the network fails.
PollFails == polling /\ polling' = FALSE /\ UNCHANGED <<vars, offset, handled, late>>

Behind == {k \in Keys : table'[k] # None /\ table[k] = None /\ table'[k].Timestamp <= offset}

\* The call dies with the program (only a crash takes the pool away), but not
\* the projection: how far it got is in an offset store.
StoreStep ==
  /\ Next
  /\ late' = late \cup Behind
  /\ polling' = (polling /\ pool' # None)
  /\ UNCHANGED <<offset, handled>>

PInit == Init /\ offset = 0 /\ handled = {} /\ polling = FALSE /\ late = {}

PNext == StoreStep \/ PollCheck \/ PollRead \/ PollFails

-------------------------------------------------------------------------------
(* Properties.                                                             *)

\* An actor recovers from what ReplayEvents gives it: whatever transactions are
\* open, the events of the range that come first, none left out, in the order
\* of their sequence numbers, and the last of a range that is not cut is what
\* GetLatestEvent returns when the range is open above.
RecoveryComplete ==
  \A pid \in PersistenceIDs, from, to \in Bounds, limit \in Limits :
    LET rows == {k \in Stored : k[1] = pid /\ k[2] \in from..to}
    IN \A events \in ReplayEvents(pid, from, to, limit) :
         /\ Len(events) = IF limit < Cardinality(rows) THEN limit ELSE Cardinality(rows)
         /\ \A i \in DOMAIN events : \A k \in rows :
              k[2] < events[i].SequenceNumber => \E j \in 1 .. i - 1 : events[j] = table[k]
         /\ (events # <<>> /\ Cardinality(rows) <= limit
              /\ \A k \in Stored : k[1] = pid => k[2] <= to)
              => events[Len(events)] = GetLatestEvent(pid)

\* A projection never gets an event twice, and each page moves it forward,
\* though events are written, deleted and written again between its calls.
HandlesOnce ==
  [][\A page \in GetShardEvents(Shard, offset, PollLimit) :
       PollRead /\ page.events # <<>> =>
         /\ ToSet(page.events) \cap handled = {}
         /\ offset < page.next]_<<vars, pollVars>>

\* What a projection can miss: when its offset is past an event it has not
\* got, then the event was committed after the offset had passed its timestamp,
\* or it has the timestamp of one that it did get, on a page that ended there.
MissesOnlyLateOrEqual ==
  \A k \in Stored :
    (table[k].ShardNumber = Shard /\ table[k].Timestamp <= offset) =>
      \/ table[k] \in handled
      \/ k \in late
      \/ \E event \in handled : event.Timestamp = table[k].Timestamp
==============================================================================
