--------------------------- MODULE MCPgEventsReaders ---------------------------
(***************************************************************************)
(* A small instance of PgEventsReaders: two persistence ids; a batch whose *)
(* two events have the same timestamp, one with an earlier and one with a  *)
(* later timestamp, the latter of another shard in part.                   *)
(***************************************************************************)
EXTENDS PgEventsReaders

Evt(pid, seq, ts, shard) ==
  [PersistenceID |-> pid, SequenceNumber |-> seq, Timestamp |-> ts,
   ShardNumber |-> shard, Marshals |-> TRUE]

MCBatches == { <<Evt(1, 1, 2, 1), Evt(2, 1, 2, 1)>>,
               <<Evt(1, 2, 3, 1), Evt(1, 3, 4, 2)>>,
               <<Evt(2, 2, 1, 1)>> }

\* Bound: one call at a time beside a walk.
OneWriter == reader = "lister" => Cardinality({c \in Clients : pc[c] # "idle"}) <= 1

Symmetry == Permutations(Clients)

MCTargets == { [PersistenceID |-> 1, SequenceNumber |-> 2] }
==============================================================================
