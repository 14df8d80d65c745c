----------------------------- MODULE StateStores -----------------------------
(***************************************************************************)
(* The durable state stores behind one interface: a program makes one of   *)
(* them, and its actors hold it as a persistence.StateStore.  What they    *)
(* may rely on is stated once, for whichever implementation it is.         *)
(*                                                                         *)
(* The DynamoDB store keeps less than this and is in DynamoStateStore.     *)
(***************************************************************************)
EXTENDS StateCalls

CONSTANTS MaxConnections, Pools, Replicas, Consistency

ASSUME NoPoolAssumption == None \notin Pools

VARIABLES
  backend,                        \* which NewDurableStore, or NewStateStore, was called
  connected, mu,                  \* the store's flag and mutex
  db, purge,                      \* memory
  pool, status, holds, rows, late, \* postgres
  session, stamp, copies, answers \* cassandra

Memory == INSTANCE MemStateStore
Postgres == INSTANCE PgStateStore
Cassandra == INSTANCE CassandraStateStore

memOwn == <<db, purge>>
pgOwn == <<pool, status, holds, rows, late>>
cassOwn == <<session, stamp, copies, answers>>

vars == <<backend, pc, callVars, connected, mu, memOwn, pgOwn, cassOwn>>

Init ==
  /\ backend \in {"memory", "postgres", "cassandra"}
  /\ Memory!Init /\ Postgres!Init /\ Cassandra!Init

Next ==
  /\ UNCHANGED backend
  /\ \/ backend = "memory" /\ Memory!Next /\ UNCHANGED <<mu, pgOwn, cassOwn>>
     \/ backend = "postgres" /\ Postgres!Next /\ UNCHANGED <<memOwn, cassOwn>>
     \/ backend = "cassandra" /\ Cassandra!Next /\ UNCHANGED <<memOwn, pgOwn>>

Spec == Init /\ [][Next]_vars

-------------------------------------------------------------------------------
\* The type of the store in use, and of the calls to it.
TypeOK ==
  /\ backend = "memory" => Memory!TypeOK
  /\ backend = "postgres" => Postgres!TypeOK
  /\ backend = "cassandra" => Cassandra!TypeOK

\* The flag of a store, whenever nobody holds its mutex, says whether calls reach
\* the database: GuardedPool!ConnectedIsOpen and CassandraStateStore!SessionOpen.
ConnectedIsOpen ==
  /\ backend = "postgres" => Postgres!ConnectedIsOpen
  /\ backend = "cassandra" => Cassandra!SessionOpen

\* MemStateStore!PurgesAcknowledged.
PurgesAcknowledged == backend = "memory" => Memory!PurgesAcknowledged
==============================================================================
