---------------------------- MODULE PgEventsStore ----------------------------
(***************************************************************************)
(* eventstore/postgres: the journal kept in the table events_store, written*)
(* in ReadCommitted transactions over the connections of a pgxpool pool.   *)
(*                                                                         *)
(* No method holds a lock.  WriteEvents begins a transaction, marshals the *)
(* events one by one and runs an INSERT whenever insertBatchSize of them   *)
(* are collected; an error of Marshal returns without ending the           *)
(* transaction.  Of Postgres the model keeps what decides the outcome: the *)
(* primary key, the row locks an open transaction holds, the detection of  *)
(* deadlocks, and failures of the network, which can strike at any call.   *)
(*                                                                         *)
(* A failure of the network ends the transaction it strikes.               *)
(***************************************************************************)
EXTENDS PgPool, Sequences

CONSTANTS
  PersistenceIDs,   \* the persistence ids and the sequence numbers in use
  SequenceNumbers,
  Batches,          \* the batches of events WriteEvents is called with
  Targets,          \* the arguments DeleteEvents is called with
  insertBatchSize   \* the events one INSERT holds

Keys == PersistenceIDs \X SequenceNumbers

Event == [PersistenceID : PersistenceIDs, SequenceNumber : SequenceNumbers,
          Timestamp : Nat, ShardNumber : Nat, Marshals : BOOLEAN]

Target == [PersistenceID : PersistenceIDs, SequenceNumber : Nat]

ASSUME SequenceAssumption == SequenceNumbers \subseteq Nat
ASSUME BatchesAssumption == Batches \subseteq Seq(Event)
ASSUME TargetsAssumption == Targets \subseteq Target
ASSUME SizeAssumption == insertBatchSize \in Nat \ {0}
ASSUME NoneAssumption ==
  None \notin Event /\ None \notin Batches /\ None # << >> /\ None \notin Targets

VARIABLES
  table,      \* the committed rows of events_store
  inserted,   \* the rows a client's open transaction has inserted
  deleted,    \* the keys of the rows it has deleted
  next,       \* the event of the batch that is inserted next
  abandoned,  \* the keys locked by transactions nobody will end
  batch,      \* the batch of the WriteEvents a client is in, or None
  target,     \* the target of the DeleteEvents it is in, or None
  seen,       \* history: the keys its DeleteEvents covered when it was called
  reply       \* how its last call ended

txVars == <<table, inserted, deleted, next, abandoned>>
callVars == <<batch, target, seen, reply>>
vars == <<txVars, poolVars, holds, pc, callVars>>

NoRows == [k \in Keys |-> None]

KeyOf(event) == <<event.PersistenceID, event.SequenceNumber>>

Covers(t, row) == /\ row.PersistenceID = t.PersistenceID
                  /\ row.SequenceNumber <= t.SequenceNumber

Covered(t) == {k \in Keys : table[k] # None /\ Covers(t, table[k])}

Init ==
  /\ table = NoRows
  /\ inserted = [c \in Clients |-> NoRows]
  /\ deleted = [c \in Clients |-> {}]
  /\ next = [c \in Clients |-> 1]
  /\ abandoned = {}
  /\ PoolInit
  /\ batch = [c \in Clients |-> None]
  /\ target = [c \in Clients |-> None]
  /\ seen = [c \in Clients |-> {}]
  /\ reply = [c \in Clients |-> "none"]

-------------------------------------------------------------------------------
(* The end of a call and of its transaction.                               *)

Locked(c, k) == \/ k \in abandoned
                \/ \E d \in Clients \ {c} : inserted[d][k] # None \/ k \in deleted[d]

\* The keys K hold new rows, which no DeleteEvents has seen.
Return(c, r, K) ==
  /\ Goto(c, "idle")
  /\ batch' = [batch EXCEPT ![c] = None]
  /\ target' = [target EXCEPT ![c] = None]
  /\ seen' = [d \in Clients |-> IF d = c THEN {} ELSE seen[d] \ K]
  /\ reply' = [reply EXCEPT ![c] = r]

\* Commit, Rollback and a broken connection all end the transaction, release its
\* locks and give its connection back to the pool; a mutant keeps the connection.
EndTxHolding(c) ==
  /\ inserted' = [inserted EXCEPT ![c] = NoRows]
  /\ deleted' = [deleted EXCEPT ![c] = {}]
  /\ next' = [next EXCEPT ![c] = 1]
  /\ UNCHANGED holds

EndTx(c) ==
  /\ inserted' = [inserted EXCEPT ![c] = NoRows]
  /\ deleted' = [deleted EXCEPT ![c] = {}]
  /\ next' = [next EXCEPT ![c] = 1]
  /\ holds' = [holds EXCEPT ![c] = None]

CommitTx(c, r) ==
  LET K == {k \in Keys : inserted[c][k] # None}
  IN /\ table' = [k \in Keys |-> IF k \in K THEN inserted[c][k]
                                 ELSE IF k \in deleted[c] THEN None ELSE table[k]]
     /\ EndTx(c)
     /\ Return(c, r, K)
     /\ UNCHANGED <<abandoned, poolVars>>

\* tx.Rollback, the error of the call being returned; a mutant keeps what there is.
AbortKeeping(c) == CommitTx(c, "error")

Abort(c) == EndTx(c) /\ Return(c, "error", {}) /\ UNCHANGED <<table, abandoned, poolVars>>

-------------------------------------------------------------------------------
(* WriteEvents and DeleteEvents.                                           *)

\* "journal store is not connected"
Reject(c) ==
  /\ pc[c] = "idle"
  /\ ~connected
  /\ Return(c, "error", {})
  /\ UNCHANGED <<txVars, poolVars, holds>>

WriteEvents(c, b) ==
  /\ pc[c] = "idle"
  /\ connected
  /\ batch' = [batch EXCEPT ![c] = b]
  /\ reply' = [reply EXCEPT ![c] = "none"]
  /\ Goto(c, "begin")
  /\ UNCHANGED <<txVars, poolVars, holds, target, seen>>

DeleteEvents(c, t) ==
  /\ pc[c] = "idle"
  /\ connected
  /\ target' = [target EXCEPT ![c] = t]
  /\ seen' = [seen EXCEPT ![c] = Covered(t)]
  /\ reply' = [reply EXCEPT ![c] = "none"]
  /\ Goto(c, "begin")
  /\ UNCHANGED <<txVars, poolVars, holds, batch>>

\* An empty batch is not written.
WriteNothing(c) ==
  /\ pc[c] = "begin"
  /\ batch[c] = << >>
  /\ Return(c, "ok", {})
  /\ UNCHANGED <<txVars, poolVars, holds>>

\* The pool has a connection for the transaction.
BeginTx(c) ==
  /\ pc[c] = "begin"
  /\ batch[c] # << >>
  /\ Acquire(c)
  /\ Goto(c, IF target[c] = None THEN "insert" ELSE "delete")
  /\ UNCHANGED <<txVars, poolVars, callVars>>

\* The pool is closed.
BeginTxClosed(c) ==
  /\ pc[c] = "begin"
  /\ batch[c] # << >>
  /\ status[pool] # "open"
  /\ Return(c, "error", {})
  /\ UNCHANGED <<txVars, poolVars, holds>>

\* The events from the next one to the one that completes the INSERT.
Chunk(c) == {i \in next[c] .. Len(batch[c]) : i < next[c] + insertBatchSize}

\* Marshal fails before the INSERT is complete: WriteEvents returns, and its
\* transaction keeps its connection and the locks of the chunks before.
MarshalFails(c) ==
  /\ pc[c] = "insert"
  /\ (next[c] - 1) % insertBatchSize = 0
  /\ \E i \in Chunk(c) : ~batch[c][i].Marshals
  /\ leaked' = [leaked EXCEPT ![holds[c]] = leaked[holds[c]] + 1]
  /\ abandoned' = abandoned \cup {k \in Keys : inserted[c][k] # None}
  /\ EndTx(c)
  /\ Return(c, "error", {})
  /\ UNCHANGED <<table, connected, pool, status>>

\* tx.Exec: Postgres inserts the rows of the statement one after the other.
Inserting(c) ==
  /\ pc[c] = "insert"
  /\ \/ (next[c] - 1) % insertBatchSize # 0
     \/ \A i \in Chunk(c) : batch[c][i].Marshals

NextKey(c) == KeyOf(batch[c][next[c]])

\* The event the row is made of; a mutant takes the first one every time.
FirstEvent(c) == batch[c][1]

NextEvent(c) == batch[c][next[c]]

Taken(c, k) == table[k] # None \/ inserted[c][k] # None

\* It waits for a transaction that has inserted or deleted the same key.
InsertRow(c) ==
  /\ Inserting(c)
  /\ ~Locked(c, NextKey(c))
  /\ ~Taken(c, NextKey(c))
  /\ inserted' = [inserted EXCEPT ![c][NextKey(c)] = NextEvent(c)]
  /\ next' = [next EXCEPT ![c] = next[c] + 1]
  /\ Goto(c, IF next[c] = Len(batch[c]) THEN "commit" ELSE "insert")
  /\ UNCHANGED <<table, deleted, abandoned, poolVars, holds, callVars>>

\* The primary key is violated: the transaction is rolled back.
InsertConflict(c) ==
  /\ Inserting(c)
  /\ ~Locked(c, NextKey(c))
  /\ Taken(c, NextKey(c))
  /\ Abort(c)

\* Postgres ends one of the transactions that wait for each other in a circle.
WaitsFor(c, d) == Inserting(c) /\ inserted[d][NextKey(c)] # None

Deadlock(c) ==
  /\ \E C \in SUBSET Clients :
       /\ c \in C
       /\ \A d \in C : (\E e \in C \ {d} : WaitsFor(d, e)) /\ (\E e \in C \ {d} : WaitsFor(e, d))
  /\ Abort(c)

\* The DELETE runs once no transaction holds a row that it covers.
DeleteRows(c) ==
  /\ pc[c] = "delete"
  /\ \A k \in Covered(target[c]) : ~Locked(c, k)
  /\ deleted' = [deleted EXCEPT ![c] = Covered(target[c])]
  /\ Goto(c, "commit")
  /\ UNCHANGED <<table, inserted, next, abandoned, poolVars, holds, callVars>>

Commit(c) == pc[c] = "commit" /\ CommitTx(c, "ok")

\* The connection breaks after Postgres has committed and before it answers.
CommitUnanswered(c) == pc[c] = "commit" /\ CommitTx(c, "error")

\* The network fails, or the context is done, in BeginTx, Exec or Commit; Exec
\* also fails on a number that does not fit a bigint.
NetworkFails(c) == pc[c] \in {"begin", "insert", "delete", "commit"} /\ batch[c] # << >> /\ Abort(c)

\* The program dies; Postgres rolls back what it has left open.
Crash ==
  /\ inserted' = [c \in Clients |-> NoRows]
  /\ deleted' = [c \in Clients |-> {}]
  /\ next' = [c \in Clients |-> 1]
  /\ abandoned' = {}
  /\ PoolCrash
  /\ batch' = [c \in Clients |-> None]
  /\ target' = [c \in Clients |-> None]
  /\ seen' = [c \in Clients |-> {}]
  /\ reply' = [c \in Clients |-> "none"]
  /\ UNCHANGED table

-------------------------------------------------------------------------------
\* What a goroutine does as long as the network works.
OwnerProgress(o) == PoolProgress(o) /\ UNCHANGED <<txVars, callVars>>

ClientProgress(c) == \/ WriteNothing(c) \/ BeginTx(c) \/ BeginTxClosed(c)
                     \/ MarshalFails(c) \/ InsertRow(c) \/ InsertConflict(c)
                     \/ Deadlock(c) \/ DeleteRows(c) \/ Commit(c)

OwnerStep(o) == PoolStep(o) /\ UNCHANGED <<txVars, callVars>>

ClientStep(c) == \/ Reject(c)
                 \/ \E b \in Batches : WriteEvents(c, b)
                 \/ \E t \in Targets : DeleteEvents(c, t)
                 \/ ClientProgress(c) \/ CommitUnanswered(c) \/ NetworkFails(c)

Next == \/ \E o \in Owners : OwnerStep(o)
        \/ \E c \in Clients : ClientStep(c)
        \/ Crash

Spec == Init /\ [][Next]_vars

\* Goroutines keep running.  Strong fairness for the clients, because both the
\* pool and the row locks of Postgres serve those who wait in turn.
Fairness == /\ \A o \in Owners : WF_vars(OwnerProgress(o))
            /\ \A c \in Clients : SF_vars(ClientProgress(c))

FairSpec == Spec /\ Fairness

-------------------------------------------------------------------------------
(* Properties.                                                             *)

\* Each row under its own key.
Rows == {rows \in [Keys -> Event \cup {None}] :
           \A k \in Keys : rows[k] # None => KeyOf(rows[k]) = k}

\* Every variable has its type; in particular each row, committed or not, is
\* stored under its own key.
TypeOK ==
  /\ table \in Rows
  /\ inserted \in [Clients -> Rows]
  /\ deleted \in [Clients -> SUBSET Keys]
  /\ next \in [Clients -> Nat \ {0}]
  /\ abandoned \subseteq Keys
  /\ PoolTypeOK
  /\ pc \in [Procs -> {"idle", "connect", "dial", "dialed", "connected", "close",
                       "closed", "begin", "insert", "delete", "commit"}]
  /\ batch \in [Clients -> Batches \cup {None}]
  /\ target \in [Clients -> Targets \cup {None}]
  /\ seen \in [Clients -> SUBSET Keys]
  /\ reply \in [Clients -> {"none", "ok", "error"}]

\* What the journal is to a caller: the committed rows, the flag and the pending
\* calls; an error of Commit leaves open whether it took effect.
J == INSTANCE Journal WITH
       Procs <- Clients, Uncertain <- TRUE, journal <- table, open <- connected

\* The store keeps the promises of the journal with any number of goroutines
\* that write, delete, connect and disconnect, whatever the chunks a batch is
\* inserted in, the conflicts of keys, the network and crashes do: a batch is
\* stored as a whole or not at all, what was answered with success is there
\* after a crash, and a successful DeleteEvents has left nothing it covered.
RefinesJournal == J!Spec

\* Every WriteEvents and DeleteEvents returns and so does every Disconnect, with
\* no help of the network failing, unless a batch that could not be marshalled
\* has left a transaction open for good: those that wait for a connection, for
\* each other's rows or for a pool to close get what they wait for.
EveryCallReturns ==
  <>[](\A p \in Pools : leaked[p] = 0) =>
    /\ \A c \in Clients : pc[c] # "idle" ~> pc[c] = "idle"
    /\ \A o \in Owners : pc[o] = "close" ~> pc[o] = "idle"

\* "Disconnect closes the underlying opened underlying connection database": once
\* called, it returns.
DisconnectReturns == \A o \in Owners : pc[o] = "close" ~> pc[o] # "close"
==============================================================================
