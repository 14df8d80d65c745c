---------------------------- MODULE PgEventsReaders ----------------------------
(***************************************************************************)
(* A reader of eventstore/postgres beside the clients that write to it and *)
(* delete from it: a projection that follows a shard, or a caller that     *)
(* lists the persistence ids.                                              *)
(***************************************************************************)
EXTENDS PgEventsWalk

VARIABLE reader  \* "projection" or "lister"

readerVars == <<vars, pollVars, walkVars, reader>>

RInit == PInit /\ WInit /\ reader \in {"projection", "lister"}

RNext ==
  /\ UNCHANGED reader
  /\ \/ reader = "projection" /\ PNext /\ UNCHANGED walkVars
     \/ /\ reader = "lister" /\ WNext
        /\ late' = late \cup Behind /\ UNCHANGED <<offset, handled, polling>>

RSpec == RInit /\ [][RNext]_readerVars
==============================================================================
