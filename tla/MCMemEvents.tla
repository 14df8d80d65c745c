------------------------------ MODULE MCMemEvents ------------------------------
(***************************************************************************)
(* A small instance of MemEventsWalk, of the store it walks through and of *)
(* the queries it is built on.                                             *)
(***************************************************************************)
EXTENDS MemEventsWalk, TLC

Evt(pid, seq, payload, ts, shard) ==
  [PersistenceID |-> pid, SequenceNumber |-> seq, EventPayload |-> payload,
   Timestamp |-> ts, ShardNumber |-> shard]

\* A batch for two ids, a second event of one of them, with the timestamp of the
\* other's; an event, of another shard, that cannot be decoded; a batch that memdb
\* refuses at its second row.
MCBatches == { <<Evt(1, 1, "encoded", 1, 1), Evt(2, 1, "encoded", 2, 1)>>,
               <<Evt(1, 2, "encoded", 2, 1)>>,
               <<Evt(3, 1, "malformed", 1, 2)>>,
               <<Evt(1, 1, "encoded", 3, 1), Evt(NoID, 1, "encoded", 3, 1)>> }

\* A part of the rows of an id, and all of them.
MCTargets == [PersistenceID : {1}, SequenceNumber : {1, 2}]

\* Bounds: there is a walk while one client alone has called the store.
OneClient == \E c \in Clients : \A d \in Clients \ {c} : pc[d] = "idle" /\ reply[d] = "none"

Bounds == walk = "idle" \/ OneClient

\* A walk that is done is followed by the next one at once.
WalksOn == walk = "done" => walk' = "paging"

Symmetry == Permutations(Clients)
===============================================================================
