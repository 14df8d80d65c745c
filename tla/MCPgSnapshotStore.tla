-------------------------- MODULE MCPgSnapshotStore --------------------------
(***************************************************************************)
(* A small instance of PgSnapshotStore: two sequence numbers of one id, and*)
(* the ranges up to each of them.                                          *)
(***************************************************************************)
EXTENDS PgSnapshotStore

MCSnapshots == [PersistenceId : {"account-1"}, SequenceNumber : {1, 2}]

\* The state of the second one does not marshal.
MCMalformed == [PersistenceId : {"account-1"}, SequenceNumber : {2}]

MCRanges == [id : {"account-1"}, to : {1, 2}]
==============================================================================
