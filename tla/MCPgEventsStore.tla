---------------------------- MODULE MCPgEventsStore ----------------------------
(***************************************************************************)
(* Small instances of PgEventsStore: four keys; two batches that insert the*)
(* same two keys in opposite orders, so that they can deadlock; one whose  *)
(* second event cannot be marshalled; the empty batch.                     *)
(***************************************************************************)
EXTENDS PgEventsStore

Evt(pid, seq) == [PersistenceID |-> pid, SequenceNumber |-> seq, Timestamp |-> seq,
                  ShardNumber |-> 1, Marshals |-> TRUE]

Bad(pid, seq) == [Evt(pid, seq) EXCEPT !.Marshals = FALSE]

GoodBatches == { <<Evt(1, 1), Evt(2, 1)>>, <<Evt(2, 1), Evt(1, 1)>> }

MCBatches == GoodBatches \cup { <<>>, <<Evt(1, 2)>>, <<Evt(1, 2), Bad(1, 3)>> }

MCTargets == { [PersistenceID |-> 1, SequenceNumber |-> 2],
               [PersistenceID |-> 2, SequenceNumber |-> 1] }
==============================================================================
