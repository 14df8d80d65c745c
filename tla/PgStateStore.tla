----------------------------- MODULE PgStateStore -----------------------------
(***************************************************************************)
(* durablestore/postgres: one row of states_store for each persistence id, *)
(* written by an upsert without a condition and read by a select, each a   *)
(* statement of its own on a connection of the pool.                       *)
(*                                                                         *)
(* When the network fails under a statement, or the program dies, the      *)
(* server may still be to run it: the upsert is late.                      *)
(***************************************************************************)
EXTENDS GuardedPool, StateCalls

VARIABLES
  rows,  \* states_store: the state of each persistence id, or None
  late   \* the states whose upsert the server may run though nobody waits

vars == <<pc, callVars, poolVars, rows, late>>

Init ==
  /\ CallsInit
  /\ PoolInit
  /\ rows = [id \in IDs |-> None]
  /\ late = {}

-------------------------------------------------------------------------------
Owner(o) == OwnerStep(o) /\ UNCHANGED <<callVars, rows, late>>

\* Its parameter is not nil, or else WriteState returns nil and does nothing.  It
\* goes on with a malformed state: the error of proto.Marshal is dropped.
WriteState(c, s) ==
  /\ IsConnected(c)
  /\ BeginWrite(c, s)
  /\ UNCHANGED <<rows, late>>

GetLatestState(c, id) ==
  /\ IsConnected(c)
  /\ BeginGet(c, id)
  /\ UNCHANGED <<rows, late>>

Refuse(c) ==
  /\ NotConnected(c) \/ NoConnection(c)
  /\ Fail(c)
  /\ UNCHANGED <<rows, late>>

AcquireConn(c) == Acquire(c) /\ UNCHANGED <<callVars, rows, late>>

\* INSERT ... ON CONFLICT (persistence_id) DO UPDATE of every column; a mutant
\* DOes NOTHING.
InsertOnly(s) == IF rows[s.PersistenceId] = None
                 THEN [rows EXCEPT ![s.PersistenceId] = s] ELSE rows

Upserted(s) == [rows EXCEPT ![s.PersistenceId] = s]

Upsert(c) ==
  /\ Release(c)
  /\ call[c].op = "write"
  /\ rows' = Upserted(call[c].state)
  /\ EndWrite(c)
  /\ UNCHANGED late

\* SELECT ... WHERE persistence_id = $1; no row is no error.  ToDurableState
\* gives back what was written, if that was not malformed.
Select(c) ==
  /\ Release(c)
  /\ call[c].op = "get"
  /\ Unmarshal(c, rows[call[c].id], rows[call[c].id])
  /\ UNCHANGED <<rows, late>>

\* The upsert a client has given the server.
Sent(c) == {s \in States : pc[c] = "exec" /\ call[c].op = "write" /\ call[c].state = s}

NetworkFails(c) ==
  /\ Release(c)
  /\ late' \in {late, late \cup Sent(c)}
  /\ Fail(c)
  /\ UNCHANGED rows

LateUpsert ==
  \E s \in late : /\ rows' = Upserted(s)
                  /\ late' = late \ {s}
                  /\ UNCHANGED <<pc, callVars, poolVars>>

Crash ==
  /\ CallsCrash
  /\ PoolCrash
  /\ \E S \in SUBSET UNION {Sent(c) : c \in Clients} : late' = late \cup S
  /\ UNCHANGED rows

Client(c) ==
  \/ Refuse(c) \/ AcquireConn(c) \/ Upsert(c) \/ Select(c) \/ NetworkFails(c)
  \/ \E s \in States : WriteState(c, s)
  \/ \E id \in IDs : GetLatestState(c, id)

Next == (\E o \in Owners : Owner(o)) \/ (\E c \in Clients : Client(c)) \/ LateUpsert \/ Crash

Spec == Init /\ [][Next]_vars

-------------------------------------------------------------------------------
TypeOK ==
  /\ CallsTypeOK
  /\ PoolTypeOK
  /\ \A c \in Clients : pc[c] = "idle" <=> call[c] = None
  /\ rows \in [IDs -> States \cup {None}]
  /\ late \in SUBSET written
==============================================================================
