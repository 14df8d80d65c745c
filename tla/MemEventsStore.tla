---------------------------- MODULE MemEventsStore ----------------------------
(***************************************************************************)
(* eventstore/memory: the journal kept in a hashicorp/go-memdb table.      *)
(*                                                                         *)
(* No method holds a lock.  Every method first loads the atomic flag       *)
(* `connected` and acts on s.db afterwards; in between, another goroutine  *)
(* may connect, disconnect, write or delete.  A memdb write transaction    *)
(* takes the writer lock, works on a private copy and publishes it when it *)
(* commits, so each transaction is one step; a read transaction sees the   *)
(* table as it was when it started, so it is one step too.                 *)
(*                                                                         *)
(* Rows are keyed by Ordering, a random uuid; a number here, for the order *)
(* in which an index iterates over equal values is the order of the uuids. *)
(* Persistence ids are numbers for the same reason.                        *)
(***************************************************************************)
EXTENDS Naturals, Sequences, FiniteSets

CONSTANTS
  Clients,    \* goroutines that call WriteEvents and DeleteEvents
  Owners,     \* goroutines that call Connect, Disconnect and Ping
  Orderings,  \* the uuids that can be drawn (bounds the rows ever written)
  Batches,    \* the batches of events WriteEvents is called with
  Targets,    \* the arguments DeleteEvents is called with
  None        \* no row, no argument

NoID == 0     \* the empty persistence id, which no index accepts

Event == [PersistenceID : Nat, SequenceNumber : Nat, EventPayload : STRING,
          Timestamp : Nat, ShardNumber : Nat]

Row == {event \in Event : event.PersistenceID # NoID}

Target == [PersistenceID : Nat, SequenceNumber : Nat]

ASSUME OrderingsAssumption == Orderings \subseteq Nat
ASSUME BatchesAssumption == Batches \subseteq Seq(Event)
ASSUME TargetsAssumption == Targets \subseteq Target
ASSUME NoneAssumption == None \notin Row /\ None \notin Batches /\ None \notin Targets
ASSUME ProcsAssumption == Clients \cap Owners = {}

Procs == Clients \cup Owners

VARIABLES
  db,         \* the event_store table of *s.db: its row under each Ordering
  allocated,  \* whether s.db points to a database
  connected,  \* s.connected
  KeepRecordsAfterDisconnect,
  used,       \* the uuids drawn so far
  pc,         \* where each goroutine is
  batch,      \* the batch of the WriteEvents a client is in, or None
  target,     \* the target of the DeleteEvents it is in, or None
  journals,   \* the rows its DeleteEvents has read
  seen,       \* history: the rows its DeleteEvents covers, when it was called
  reply       \* how its last call ended

storeVars == <<db, allocated, connected, KeepRecordsAfterDisconnect, used>>
callVars == <<batch, target, journals, seen, reply>>
vars == <<storeVars, pc, callVars>>

NoRows == [o \in Orderings |-> None]

Live == {o \in Orderings : db[o] # None}

\* The comparison of DeleteEvents.
UpTo(row, t) == row.SequenceNumber <= t.SequenceNumber

\* The rows the persistence id index holds for the target of a DeleteEvents.
IndexGet(t) == [o \in Orderings |->
  IF db[o] # None /\ db[o].PersistenceID = t.PersistenceID THEN db[o] ELSE None]

\* txn.Insert fails on a row that misses a value for an index; a mutant accepts it.
AnyBatch(b) == TRUE

Insertable(b) == \A i \in DOMAIN b : b[i].PersistenceID # NoID

Init ==
  /\ db = NoRows
  /\ allocated = FALSE
  /\ connected = FALSE
  /\ KeepRecordsAfterDisconnect \in BOOLEAN
  /\ used = {}
  /\ pc = [p \in Procs |-> "idle"]
  /\ batch = [p \in Clients |-> None]
  /\ target = [p \in Clients |-> None]
  /\ journals = [p \in Clients |-> NoRows]
  /\ seen = [p \in Clients |-> {}]
  /\ reply = [p \in Clients |-> "none"]

Goto(p, label) == pc' = [pc EXCEPT ![p] = label]

-------------------------------------------------------------------------------
(* Connect, Disconnect and Ping: a load of the flag, and what follows it.  *)

\* A mutant of Connect that raises the flag when it takes the connection.
ConnectFlagFirst(o) ==
  /\ pc[o] \in {"idle", "connect"}
  /\ Goto(o, IF connected THEN "idle" ELSE "new")
  /\ connected' = TRUE
  /\ UNCHANGED <<db, allocated, KeepRecordsAfterDisconnect, used, callVars>>

Connect(o) ==
  /\ pc[o] \in {"idle", "connect"}
  /\ Goto(o, IF connected THEN "idle" ELSE "new")
  /\ UNCHANGED <<storeVars, callVars>>

\* s.db = db: a new database, without a row.
ConnectNewDB(o) ==
  /\ pc[o] = "new"
  /\ db' = NoRows
  /\ allocated' = TRUE
  /\ Goto(o, "connected")
  /\ UNCHANGED <<connected, KeepRecordsAfterDisconnect, used, callVars>>

ConnectStore(o) ==
  /\ pc[o] = "connected"
  /\ connected' = TRUE
  /\ Goto(o, "idle")
  /\ UNCHANGED <<db, allocated, KeepRecordsAfterDisconnect, used, callVars>>

Disconnect(o) ==
  /\ pc[o] = "idle"
  /\ connected
  /\ Goto(o, IF KeepRecordsAfterDisconnect THEN "disconnected" ELSE "clear")
  /\ UNCHANGED <<storeVars, callVars>>

DisconnectClear(o) ==
  /\ pc[o] = "clear"
  /\ db' = NoRows
  /\ Goto(o, "disconnected")
  /\ UNCHANGED <<allocated, connected, KeepRecordsAfterDisconnect, used, callVars>>

DisconnectStore(o) ==
  /\ pc[o] = "disconnected"
  /\ connected' = FALSE
  /\ Goto(o, "idle")
  /\ UNCHANGED <<db, allocated, KeepRecordsAfterDisconnect, used, callVars>>

\* Ping calls Connect, which loads the flag again.
Ping(o) ==
  /\ pc[o] = "idle"
  /\ ~connected
  /\ Goto(o, "connect")
  /\ UNCHANGED <<storeVars, callVars>>

-------------------------------------------------------------------------------
(* WriteEvents and DeleteEvents.                                           *)

Return(p, r) ==
  /\ Goto(p, "idle")
  /\ batch' = [batch EXCEPT ![p] = None]
  /\ target' = [target EXCEPT ![p] = None]
  /\ journals' = [journals EXCEPT ![p] = NoRows]
  /\ seen' = [seen EXCEPT ![p] = {}]
  /\ reply' = [reply EXCEPT ![p] = r]

\* "journal store is not connected"
Reject(p) ==
  /\ pc[p] = "idle"
  /\ ~connected
  /\ Return(p, "error")
  /\ UNCHANGED storeVars

WriteEvents(p, b) ==
  /\ pc[p] = "idle"
  /\ connected
  /\ batch' = [batch EXCEPT ![p] = b]
  /\ reply' = [reply EXCEPT ![p] = "none"]
  /\ Goto(p, "write")
  /\ UNCHANGED <<storeVars, target, journals, seen>>

\* uuid.NewString() never returns a value twice; a mutant draws from the keys
\* that are free.
FreeKeys == Orderings \ Live

FreshKeys == Orderings \ used

\* One row for each event, under a fresh uuid.
WriteCommit(p) ==
  /\ pc[p] = "write"
  /\ Insertable(batch[p])
  /\ \E K \in SUBSET FreshKeys : \E f \in [K -> DOMAIN batch[p]] :
       /\ \A i \in DOMAIN batch[p] : \E k \in K : f[k] = i
       /\ \A k, l \in K : f[k] = f[l] => k = l
       /\ db' = [o \in Orderings |-> IF o \in K THEN batch[p][f[o]] ELSE db[o]]
       /\ used' = used \cup K
  /\ Return(p, "ok")
  /\ UNCHANGED <<allocated, connected, KeepRecordsAfterDisconnect>>

\* A mutant that returns the error and commits the rows inserted before it.
WriteAbortCommits(p) ==
  /\ pc[p] = "write"
  /\ ~Insertable(batch[p])
  /\ IF batch[p][1].PersistenceID = NoID
     THEN UNCHANGED storeVars
     ELSE \E o \in FreshKeys :
            /\ db' = [db EXCEPT ![o] = batch[p][1]]
            /\ used' = used \cup {o}
            /\ UNCHANGED <<allocated, connected, KeepRecordsAfterDisconnect>>
  /\ Return(p, "error")

WriteAbort(p) ==
  /\ pc[p] = "write"
  /\ ~Insertable(batch[p])
  /\ Return(p, "error")
  /\ UNCHANGED storeVars

DeleteEvents(p, t) ==
  /\ pc[p] = "idle"
  /\ connected
  /\ target' = [target EXCEPT ![p] = t]
  /\ reply' = [reply EXCEPT ![p] = "none"]
  /\ seen' = [seen EXCEPT ![p] = {o \in Live :
       db[o].PersistenceID = t.PersistenceID /\ db[o].SequenceNumber <= t.SequenceNumber}]
  /\ Goto(p, "read")
  /\ UNCHANGED <<storeVars, batch, journals>>

\* The read transaction.
DeleteRead(p) ==
  /\ pc[p] = "read"
  /\ journals' = [journals EXCEPT ![p] = IndexGet(target[p])]
  /\ Goto(p, "delete")
  /\ UNCHANGED <<storeVars, batch, target, seen, reply>>

\* The rows the write transaction deletes, one after the other.
Doomed(p) == {o \in Orderings :
  journals[p][o] # None /\ UpTo(journals[p][o], target[p])}

DeleteCommit(p) ==
  /\ pc[p] = "delete"
  /\ Doomed(p) \subseteq Live
  /\ db' = [o \in Orderings |-> IF o \in Doomed(p) THEN None ELSE db[o]]
  /\ Return(p, "ok")
  /\ UNCHANGED <<allocated, connected, KeepRecordsAfterDisconnect, used>>

\* txn.Delete returns ErrNotFound for a row that is gone since it was read.
DeleteAbort(p) ==
  /\ pc[p] = "delete"
  /\ ~(Doomed(p) \subseteq Live)
  /\ Return(p, "error")
  /\ UNCHANGED storeVars

-------------------------------------------------------------------------------
OwnerStep(o) == \/ Connect(o) \/ ConnectNewDB(o) \/ ConnectStore(o)
                \/ Disconnect(o) \/ DisconnectClear(o) \/ DisconnectStore(o)
                \/ Ping(o)

ClientStep(p) == \/ Reject(p)
                 \/ \E b \in Batches : WriteEvents(p, b)
                 \/ WriteCommit(p) \/ WriteAbort(p)
                 \/ \E t \in Targets : DeleteEvents(p, t)
                 \/ DeleteRead(p) \/ DeleteCommit(p) \/ DeleteAbort(p)

Next == (\E o \in Owners : OwnerStep(o)) \/ (\E p \in Clients : ClientStep(p))

Spec == Init /\ [][Next]_vars

-------------------------------------------------------------------------------
(* Properties.                                                             *)

\* Every variable has its type; in particular a row has a persistence id in every
\* table, though events without one are written.
TypeOK ==
  /\ db \in [Orderings -> Row \cup {None}]
  /\ allocated \in BOOLEAN
  /\ connected \in BOOLEAN
  /\ KeepRecordsAfterDisconnect \in BOOLEAN
  /\ used \subseteq Orderings
  /\ pc \in [Procs -> {"idle", "connect", "new", "connected", "clear",
                       "disconnected", "write", "read", "delete"}]
  /\ batch \in [Clients -> Batches \cup {None}]
  /\ target \in [Clients -> Targets \cup {None}]
  /\ journals \in [Clients -> [Orderings -> Row \cup {None}]]
  /\ seen \in [Clients -> SUBSET Orderings]
  /\ reply \in [Clients -> {"none", "ok", "error"}]

\* Where a goroutine dereferences s.db: Disconnect's DeleteAll and the
\* transactions of WriteEvents and DeleteEvents.
UsesDB == {"clear", "write", "read", "delete"}

\* No method dereferences s.db before some Connect has assigned it, however
\* many goroutines connect and disconnect: the flag is raised after the
\* assignment, and nothing sets s.db back to nil.
NoNilDB == (connected \/ \E p \in Procs : pc[p] \in UsesDB) => allocated

\* With one goroutine that connects and disconnects, the flag is down while it
\* replaces the database and up while it empties it.
ConnectionInv == \A o \in Owners :
  /\ pc[o] \in {"new", "connected"} => ~connected
  /\ pc[o] \in {"clear", "disconnected"} => connected

\* How far a client is in a method tells which argument it holds.
CallInv == \A p \in Clients :
  /\ pc[p] \in {"idle", "write", "read", "delete"}
  /\ batch[p] # None <=> pc[p] = "write"
  /\ target[p] # None <=> pc[p] \in {"read", "delete"}

\* A row is never changed and its uuid never drawn again, so a row that
\* DeleteEvents read is still the same row when it deletes it, or gone.
SnapshotInv ==
  /\ Live \subseteq used
  /\ \A p \in Clients : \A o \in Orderings : journals[p][o] # None =>
       /\ o \in used
       /\ pc[p] = "delete"
       /\ db[o] \in {None, journals[p][o]}
       /\ journals[p][o].PersistenceID = target[p].PersistenceID

\* A row that was covered when DeleteEvents was called is gone already or is
\* going to be deleted.
SeenInv == \A p \in Clients : \A o \in seen[p] :
  /\ o \in used
  /\ pc[p] \in {"read", "delete"}
  /\ pc[p] = "read" => \/ db[o] = None
                       \/ /\ db[o].PersistenceID = target[p].PersistenceID
                          /\ db[o].SequenceNumber <= target[p].SequenceNumber
  /\ pc[p] = "delete" => db[o] = None \/ o \in Doomed(p)

\* The store never confuses two rows and never forgets one it has to delete:
\* a row a DeleteEvents read is deleted as the row it was or not at all, even
\* when the database was emptied, replaced or written to in between.
DeletesWhatItRead == CallInv /\ SnapshotInv /\ SeenInv

\* What the journal is to a caller: the rows of the table, the flag, and the
\* pending calls.
J == INSTANCE Journal WITH
       Procs <- Clients, Keys <- Orderings, Uncertain <- FALSE,
       journal <- db, open <- connected

\* With one goroutine that connects and disconnects, the store keeps the
\* promises of the journal to any number of concurrent writers and deleters:
\* batches are atomic, a failed call changes nothing, a DeleteEvents removes
\* only covered rows and, when it succeeds, all those there were at its call.
RefinesJournal == J!Spec
==============================================================================
