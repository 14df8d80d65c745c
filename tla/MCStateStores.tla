---------------------------- MODULE MCStateStores ----------------------------
\* Two versions of one durable state and one of another, two clients, two owners.
EXTENDS StateStores, TLC

MCState(id, version) == [PersistenceId |-> id, VersionNumber |-> version]

MCStates == {MCState("account-1", 1), MCState("account-1", 2), MCState("account-2", 1)}

MCMalformed == {MCState("account-2", 1)}

\* Bounds: any two of the states are written in memory, those of one row in
\* Cassandra, and all three in Postgres.
FewWrites ==
  /\ backend = "memory" => Cardinality(written) <= 2
  /\ backend = "cassandra" => Cardinality({s.PersistenceId : s \in written}) <= 1

Symmetry == Permutations(Clients) \cup Permutations(Owners) \cup Permutations(Replicas)
==============================================================================
