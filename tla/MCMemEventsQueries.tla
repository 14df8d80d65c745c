-------------------------- MODULE MCMemEventsQueries --------------------------
(***************************************************************************)
(* Small instances of MemEventsQueries.                                    *)
(***************************************************************************)
EXTENDS MemEventsQueries

Evt(pid, seq, payload, ts, shard) ==
  [PersistenceID |-> pid, SequenceNumber |-> seq, EventPayload |-> payload,
   Timestamp |-> ts, ShardNumber |-> shard]

\* Tables for the queries: two ids in one shard, whose timestamps interleave and
\* tie; a third id in another shard; an event that cannot be decoded.
MCBatches == { <<Evt(1, 1, "encoded", 1, 1), Evt(1, 2, "encoded", 3, 1)>>,
               <<Evt(1, 2, "encoded", 2, 1)>>,
               <<Evt(2, 1, "encoded", 2, 1)>>,
               <<Evt(2, 2, "malformed", 3, 1)>>,
               <<Evt(3, 1, "encoded", 1, 2)>> }

MCTargets == { [PersistenceID |-> 1, SequenceNumber |-> 1] }
==============================================================================
