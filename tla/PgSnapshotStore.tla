--------------------------- MODULE PgSnapshotStore ---------------------------
(***************************************************************************)
(* snapshotstore/postgres: one row of snapshots_store for each persistence *)
(* id and sequence number.  Each method is one statement on a connection of*)
(* the pool: an upsert, a select of the highest sequence number, a delete. *)
(*                                                                         *)
(* Postgres (external) runs a delete of many rows in steps: it takes the   *)
(* rows there are when it begins, locks one after the other, waits for     *)
(* those another delete has locked, and removes them all when it commits.  *)
(* An upsert waits for the delete that has locked its row.  A statement    *)
(* whose client is gone goes on: it is an error for its caller and may yet *)
(* commit.                                                                 *)
(***************************************************************************)
EXTENDS GuardedPool

CONSTANTS
  Snapshots,  \* the snapshots that are written
  Malformed,  \* those whose state proto.Marshal fails on
  Ranges,     \* the ranges, of an id up to a sequence number, that are deleted
  Lost        \* the statements that can go on without a client (a bound)

ASSUME SnapshotsAssumption ==
  \A s \in Snapshots : /\ {"PersistenceId", "SequenceNumber"} \subseteq DOMAIN s
                       /\ s.SequenceNumber \in Nat
ASSUME MalformedAssumption == Malformed \subseteq Snapshots
ASSUME NoSnapshotAssumption == None \notin Snapshots
ASSUME LostAssumption == Lost \cap Clients = {}

VARIABLES
  rows,   \* snapshots_store: the snapshot of each key, or None; the payload of a
          \* malformed one is the bytes proto.Marshal got to, which do not unmarshal
  call,   \* the call a client is in, or None
  reply,  \* what the call that ended last returned, until the next begins
  stmt    \* what the server runs for each client, and for those that are gone

snapVars == <<rows, call, reply, stmt>>

vars == <<pc, poolVars, snapVars>>

IDs == {s.PersistenceId : s \in Snapshots}

Requests ==
  [op : {"write"}, snapshot : Snapshots] \cup [op : {"get"}, id : IDs] \cup
  {[op |-> "delete", id |-> r.id, to |-> r.to] : r \in Ranges}

KeyOf(s) == <<s.PersistenceId, s.SequenceNumber>>

Keys == {KeyOf(s) : s \in Snapshots}

Slots == Clients \cup Lost

\* A statement: its call; of a delete, the rows it is to lock, None before it
\* begins, and those it has locked.
StatementType == [call : Requests, rows : (SUBSET Keys) \cup {None}, locked : SUBSET Keys]

ASSUME NoRequestAssumption == None \notin Requests \cup StatementType
ASSUME NoKeysAssumption == \A K \in SUBSET Keys : K # None

NoReply == <<"none">>
Ok == <<"ok">>
Error == <<"error">>
Found(s) == <<"ok", s>>

Statement(q) == [call |-> q, rows |-> None, locked |-> {}]

Init ==
  /\ pc = AllIdle
  /\ PoolInit
  /\ rows = [k \in Keys |-> None]
  /\ call = [c \in Clients |-> None]
  /\ reply = NoReply
  /\ stmt = [x \in Slots |-> None]

-------------------------------------------------------------------------------
(* Calls.                                                                  *)

Owner(o) == OwnerStep(o) /\ UNCHANGED snapVars

\* WriteSnapshot, GetLatestSnapshot and DeleteSnapshots.  A call that finds the
\* store not connected returns an error and does nothing; so does, with no error,
\* a WriteSnapshot of nil or of an empty snapshot.  WriteSnapshot goes on with a
\* malformed snapshot: the error of proto.Marshal is dropped.
Begin(c) ==
  /\ IsConnected(c)
  /\ \E q \in Requests : call' = [call EXCEPT ![c] = q]
  /\ reply' = NoReply
  /\ UNCHANGED <<rows, stmt>>

Return(c, r) ==
  /\ Goto(c, "idle")
  /\ call' = [call EXCEPT ![c] = None]
  /\ reply' = r

AcquireFails(c) ==
  /\ NoConnection(c)
  /\ Return(c, Error)
  /\ UNCHANGED <<rows, stmt>>

AcquireConn(c) ==
  /\ Acquire(c)
  /\ stmt' = [stmt EXCEPT ![c] = Statement(call[c])]
  /\ UNCHANGED <<rows, call, reply>>

\* The server is done with a statement; if a client waits for it, its call returns.
Done(x, r) ==
  \/ x \in Clients /\ Release(x) /\ Return(x, r)
  \/ x \in Lost /\ UNCHANGED <<pc, poolVars, call, reply>>

-------------------------------------------------------------------------------
(* Statements.                                                             *)

Runs(x, op) == stmt[x] # None /\ stmt[x].call.op = op

\* A row is locked by the delete of another.
LockedByOther(x, k) == \E y \in Slots \ {x} : stmt[y] # None /\ k \in stmt[y].locked

\* INSERT ... ON CONFLICT (persistence_id, sequence_number) DO UPDATE.
Upserted(s) == [rows EXCEPT ![KeyOf(s)] = s]

\* The connection may break after the commit.
Upsert(x) ==
  /\ Runs(x, "write")
  /\ ~LockedByOther(x, KeyOf(stmt[x].call.snapshot))
  /\ rows' = Upserted(stmt[x].call.snapshot)
  /\ stmt' = [stmt EXCEPT ![x] = None]
  /\ \E r \in {Ok, Error} : Done(x, r)

StoredKeys(id) == {k \in Keys : k[1] = id /\ rows[k] # None}

\* ORDER BY sequence_number DESC LIMIT 1, {None} when there is no row; a mutant has
\* no DESC.
FirstRow(id) ==
  IF StoredKeys(id) = {} THEN {None}
  ELSE {rows[k] : k \in {k \in StoredKeys(id) : \A l \in StoredKeys(id) : k[2] <= l[2]}}

LatestRow(id) ==
  IF StoredKeys(id) = {} THEN {None}
  ELSE {rows[k] : k \in {k \in StoredKeys(id) : \A l \in StoredKeys(id) : l[2] <= k[2]}}

\* ToSnapshot: the payload of a malformed snapshot does not unmarshal.
Answer(s) == IF s \in Malformed THEN Error ELSE Found(s)

Select(x) ==
  /\ Runs(x, "get")
  /\ stmt' = [stmt EXCEPT ![x] = None]
  /\ \E s \in LatestRow(stmt[x].call.id) : Done(x, Answer(s))
  /\ UNCHANGED rows

\* WHERE persistence_id = id AND sequence_number <= to; a mutant has <.
MatchingBelow(q) == {k \in Keys : k[1] = q.id /\ k[2] < q.to /\ rows[k] # None}

Matching(q) == {k \in Keys : k[1] = q.id /\ k[2] <= q.to /\ rows[k] # None}

DeleteBegin(x) ==
  /\ Runs(x, "delete") /\ stmt[x].rows = None
  /\ stmt' = [stmt EXCEPT ![x].rows = Matching(stmt[x].call)]
  /\ UNCHANGED <<pc, poolVars, rows, call, reply>>

DeleteLock(x) ==
  /\ Runs(x, "delete") /\ stmt[x].rows # None
  /\ \E k \in stmt[x].rows \ stmt[x].locked :
       /\ ~LockedByOther(x, k)
       /\ stmt' = [stmt EXCEPT ![x].locked = @ \cup {k}]
  /\ UNCHANGED <<pc, poolVars, rows, call, reply>>

\* A row that is removed is not there any more for a delete that began before.
Removed(K, s) == IF s = None \/ s.rows = None THEN s ELSE [s EXCEPT !.rows = @ \ K]

DeleteCommit(x) ==
  /\ Runs(x, "delete") /\ stmt[x].rows = stmt[x].locked
  /\ rows' = [k \in Keys |-> IF k \in stmt[x].rows THEN None ELSE rows[k]]
  /\ stmt' = [y \in Slots |-> IF y = x THEN None ELSE Removed(stmt[x].rows, stmt[y])]
  /\ \E r \in {Ok, Error} : Done(x, r)

\* The server ends a statement with an error: one of those that wait for each
\* other's rows, or a value that does not fit its column.
Abort(x) ==
  /\ stmt[x] # None
  /\ stmt' = [stmt EXCEPT ![x] = None]
  /\ Done(x, Error)
  /\ UNCHANGED rows

-------------------------------------------------------------------------------
(* Failures.                                                               *)

\* The network fails under a statement that the server goes on with.
NetworkFails(c) ==
  /\ Release(c)
  /\ ~Runs(c, "get")
  /\ \E l \in Lost : /\ stmt[l] = None
                     /\ stmt' = [stmt EXCEPT ![c] = None, ![l] = stmt[c]]
  /\ Return(c, Error)
  /\ UNCHANGED rows

\* The program dies; some of its statements go on.
Crash ==
  /\ pc' = AllIdle
  /\ PoolCrash
  /\ call' = [c \in Clients |-> None]
  /\ reply' = NoReply
  /\ \E from \in [Lost -> Slots] :
       /\ \A l, m \in Lost : from[l] = from[m] => l = m
       /\ \A l \in Lost : /\ ~Runs(from[l], "get")
                          /\ stmt[l] # None => from[l] = l
       /\ stmt' = [x \in Slots |-> IF x \in Lost THEN stmt[from[x]] ELSE None]
  /\ UNCHANGED rows

Statements(x) ==
  \/ Upsert(x) \/ Select(x) \/ DeleteBegin(x) \/ DeleteLock(x) \/ DeleteCommit(x) \/ Abort(x)

Client(c) == Begin(c) \/ AcquireFails(c) \/ AcquireConn(c) \/ NetworkFails(c)

Next == \/ \E o \in Owners : Owner(o)
        \/ \E c \in Clients : Client(c)
        \/ \E x \in Slots : Statements(x)
        \/ Crash

Spec == Init /\ [][Next]_vars

\* A statement waits for one that has locked a row it needs.
WaitsFor(x, y) ==
  \/ Runs(x, "write") /\ Runs(y, "delete")
     /\ KeyOf(stmt[x].call.snapshot) \in stmt[y].locked
  \/ Runs(x, "delete") /\ Runs(y, "delete") /\ stmt[x].rows # None
     /\ stmt[x].rows \cap stmt[y].locked # {}

\* Two deletes that wait for each other: Postgres ends one.
Deadlocked(x) == \E y \in Slots \ {x} : WaitsFor(x, y) /\ WaitsFor(y, x)

Progress(x) == \/ Upsert(x) \/ Select(x) \/ DeleteBegin(x) \/ DeleteLock(x) \/ DeleteCommit(x)
               \/ Deadlocked(x) /\ Abort(x)

\* sync.Mutex, the pool and the row locks serve those that wait in turn; Connect
\* ends when the network answers or the context does.
Fairness ==
  /\ \A o \in Owners : SF_vars(Owner(o) /\ pc[o] # "idle")
  /\ \A c \in Clients : SF_vars(AcquireConn(c) \/ (AcquireFails(c) /\ status[pool] # "open"))
  /\ \A x \in Slots : SF_vars(Progress(x))

FairSpec == Spec /\ Fairness

-------------------------------------------------------------------------------
\* What a delete has locked is among the rows it took, and it covers these.
WellFormed(s) ==
  s # None => IF s.rows = None THEN s.locked = {}
              ELSE /\ s.call.op = "delete"
                   /\ s.locked \subseteq s.rows
                   /\ s.rows \subseteq Matching(s.call)

\* Every client is in a call or idle, and the server has a statement for each that
\* holds a connection; no two deletes have locked the same row.
TypeOK ==
  /\ PoolTypeOK
  /\ call \in [Clients -> Requests \cup {None}]
  /\ \A c \in Clients : /\ pc[c] = "idle" <=> call[c] = None
                        /\ IF pc[c] = "exec" THEN stmt[c] # None /\ stmt[c].call = call[c]
                           ELSE stmt[c] = None
  /\ rows \in [Keys -> Snapshots \cup {None}]
  /\ \A k \in Keys : rows[k] # None => KeyOf(rows[k]) = k
  /\ reply \in {NoReply, Ok, Error} \cup {Found(s) : s \in Snapshots \cup {None}}
  /\ stmt \in [Slots -> StatementType \cup {None}]
  /\ \A x \in Slots : WellFormed(stmt[x])
  /\ \A l \in Lost : ~Runs(l, "get")
  /\ \A x \in Slots : stmt[x] # None => \A k \in stmt[x].locked : ~LockedByOther(x, k)

\* The contract of the store: what is in the table is what is present, and a
\* delete has seen the rows it took.
Contract == INSTANCE Snapshots WITH
  present <- rows,
  seen <- [c \in Clients |-> IF stmt[c] = None THEN None ELSE stmt[c].rows],
  doubt <- {stmt[l].call : l \in {l \in Lost : stmt[l] # None}}

\* Whatever runs at the same time, fails or goes on without its caller: a
\* GetLatestSnapshot returns the highest snapshot of one moment or fails, a WriteSnapshot
\* that returned nil has replaced the one with its key, a DeleteSnapshots that
\* returned nil has removed what was there when it was called and has not been
\* written since, and nothing goes that no DeleteSnapshots covers.
RefinesSnapshots == Contract!Spec

\* Every call returns: a Disconnect that holds the mutex waits for connections of
\* statements that wait for rows, or for each other, and not for the mutex.
EveryCallReturns == \A g \in Procs : pc[g] # "idle" ~> pc[g] = "idle"
==============================================================================
