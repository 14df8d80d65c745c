-------------------------- MODULE MCDynamoStateStore --------------------------
\* Two versions of one durable state, two clients; the owners have nothing to do.
EXTENDS DynamoStateStore

MCStates == [PersistenceId : {"account-1"}, VersionNumber : {1, 2}]

\* The second version does not marshal.
MCMalformed == [PersistenceId : {"account-1"}, VersionNumber : {2}]
==============================================================================
