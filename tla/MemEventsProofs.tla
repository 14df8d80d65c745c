---------------------------- MODULE MemEventsProofs ----------------------------
(***************************************************************************)
(* Proofs about MemEventsStore, for any set of goroutines, any number of   *)
(* rows and any batches and targets.                                       *)
(***************************************************************************)
EXTENDS MemEventsStore, TLAPS

\* Where a goroutine can be.
Labels == {"idle", "connect", "new", "connected", "clear", "disconnected",
           "write", "read", "delete"}

\* The empty table is a table.
LEMMA NoRowsType == NoRows \in [Orderings -> Row \cup {None}]
  BY DEF NoRows

\* The events of a batch that can be inserted are rows.
LEMMA BatchRows ==
  ASSUME NEW b \in Batches, Insertable(b), NEW i \in DOMAIN b
  PROVE  b[i] \in Row
  BY BatchesAssumption DEF Insertable, Row

\* What returning from a call leaves behind.
LEMMA ReturnType ==
  ASSUME TypeOK, CallInv, NEW p \in Clients, NEW r \in {"ok", "error"}, Return(p, r)
  PROVE  /\ pc' \in [Procs -> Labels]
         /\ batch' \in [Clients -> Batches \cup {None}]
         /\ target' \in [Clients -> Targets \cup {None}]
         /\ journals' \in [Clients -> [Orderings -> Row \cup {None}]]
         /\ seen' \in [Clients -> SUBSET Orderings]
         /\ reply' \in [Clients -> {"none", "ok", "error"}]
         /\ CallInv'
<1> USE NoRowsType, ProcsAssumption DEF Procs
<1>1. pc' \in [Procs -> Labels] /\ reply' \in [Clients -> {"none", "ok", "error"}]
  BY DEF TypeOK, Return, Goto, Labels
<1>2. journals' \in [Clients -> [Orderings -> Row \cup {None}]]
  BY DEF TypeOK, Return
<1>3. /\ batch' \in [Clients -> Batches \cup {None}]
      /\ target' \in [Clients -> Targets \cup {None}]
      /\ seen' \in [Clients -> SUBSET Orderings]
  BY DEF TypeOK, Return
<1>4. CallInv'
  BY DEF TypeOK, CallInv, Return, Goto
<1> QED BY <1>1, <1>2, <1>3, <1>4

\* The type invariant is inductive together with what a client's place in a
\* method says of its arguments.
LEMMA TypeCallInductive ==
  ASSUME TypeOK, CallInv, [Next]_vars
  PROVE  TypeOK' /\ CallInv'
<1> USE NoRowsType, ProcsAssumption, NoneAssumption DEF Procs
<1>1. ASSUME NEW o \in Owners, OwnerStep(o) PROVE TypeOK' /\ CallInv'
  <2>1. pc' = [pc EXCEPT ![o] = pc'[o]] /\ pc'[o] \in Labels
    BY <1>1 DEF TypeOK, OwnerStep, Connect, ConnectNewDB, ConnectStore, Disconnect,
       DisconnectClear, DisconnectStore, Ping, Goto, Labels
  <2>2. UNCHANGED callVars
    BY <1>1 DEF OwnerStep, Connect, ConnectNewDB, ConnectStore, Disconnect,
       DisconnectClear, DisconnectStore, Ping, callVars
  <2>3. /\ db' \in [Orderings -> Row \cup {None}]
        /\ allocated' \in BOOLEAN /\ connected' \in BOOLEAN
        /\ KeepRecordsAfterDisconnect' = KeepRecordsAfterDisconnect /\ used' = used
    BY <1>1 DEF TypeOK, OwnerStep, Connect, ConnectNewDB, ConnectStore, Disconnect,
       DisconnectClear, DisconnectStore, Ping, storeVars
  <2> QED BY <2>1, <2>2, <2>3 DEF TypeOK, CallInv, callVars, Labels
<1>2. ASSUME NEW p \in Clients, ClientStep(p) PROVE TypeOK' /\ CallInv'
  <2>1. CASE Reject(p) \/ WriteAbort(p) \/ DeleteAbort(p)
    BY <2>1, ReturnType DEF TypeOK, Labels, Reject, WriteAbort, DeleteAbort, storeVars
  <2>2. ASSUME NEW b \in Batches, WriteEvents(p, b) PROVE TypeOK' /\ CallInv'
    BY <2>2 DEF TypeOK, CallInv, WriteEvents, Goto, storeVars
  <2>3. CASE WriteCommit(p)
    <3>1. batch[p] \in Batches /\ Insertable(batch[p])
      BY <2>3 DEF TypeOK, CallInv, WriteCommit
    <3>2. PICK K \in SUBSET FreshKeys :
            \E f \in [K -> DOMAIN batch[p]] :
              /\ db' = [o \in Orderings |-> IF o \in K THEN batch[p][f[o]] ELSE db[o]]
              /\ used' = used \cup K
      BY <2>3 DEF WriteCommit
    <3>3. db' \in [Orderings -> Row \cup {None}]
      BY <3>1, <3>2, BatchRows DEF TypeOK, FreshKeys
    <3> QED BY <2>3, <3>2, <3>3, ReturnType DEF TypeOK, Labels, WriteCommit, FreshKeys
  <2>4. ASSUME NEW t \in Targets, DeleteEvents(p, t) PROVE TypeOK' /\ CallInv'
    <3>1. seen' \in [Clients -> SUBSET Orderings]
      BY <2>4 DEF TypeOK, DeleteEvents, Live
    <3> QED BY <2>4, <3>1 DEF TypeOK, CallInv, DeleteEvents, Goto, storeVars
  <2>5. CASE DeleteRead(p)
    <3>1. journals' \in [Clients -> [Orderings -> Row \cup {None}]]
      BY <2>5 DEF TypeOK, DeleteRead, IndexGet
    <3> QED BY <2>5, <3>1 DEF TypeOK, CallInv, DeleteRead, Goto, storeVars
  <2>6. CASE DeleteCommit(p)
    BY <2>6, ReturnType DEF TypeOK, Labels, DeleteCommit
  <2> QED BY <1>2, <2>1, <2>2, <2>3, <2>4, <2>5, <2>6 DEF ClientStep
<1>3. CASE UNCHANGED vars
  BY <1>3 DEF TypeOK, CallInv, vars, storeVars, callVars
<1> QED BY <1>1, <1>2, <1>3 DEF Next

LEMMA TypeCallInit == Init => TypeOK /\ CallInv
  BY NoRowsType, ProcsAssumption DEF Init, TypeOK, CallInv, Procs

\* Every reachable state is well typed: no interleaving of calls, aborts and
\* reconnects leaves a row, a snapshot or an argument malformed.
THEOREM TypeCorrect == Spec => []TypeOK
  BY TypeCallInit, TypeCallInductive, PTL DEF Spec

-------------------------------------------------------------------------------
(* Connecting.                                                             *)

\* No goroutine uses s.db before it is assigned, whatever the number of
\* goroutines that connect, disconnect and ping: Connect raises the flag last.
THEOREM DBAssignedBeforeUse == Spec => []NoNilDB
<1> DEFINE Assigned == \A p \in Procs :
             (connected \/ pc[p] \in UsesDB \cup {"connected"}) => allocated
           I == TypeOK /\ CallInv /\ NoNilDB /\ Assigned
<1>1. Init => I
  BY TypeCallInit DEF Init, NoNilDB, UsesDB
<1>2. I /\ [Next]_vars => I'
  <2> SUFFICES ASSUME I, [Next]_vars PROVE NoNilDB' /\ Assigned'
    BY TypeCallInductive
  <2> USE DEF NoNilDB, UsesDB, Procs, TypeOK
  <2>1. ASSUME NEW o \in Owners, OwnerStep(o) PROVE NoNilDB' /\ Assigned'
    BY <2>1 DEF OwnerStep, Connect, ConnectNewDB, ConnectStore, Disconnect,
       DisconnectClear, DisconnectStore, Ping, Goto, callVars, storeVars
  <2>2. ASSUME NEW p \in Clients, ClientStep(p) PROVE NoNilDB' /\ Assigned'
    BY <2>2 DEF ClientStep, Reject, WriteEvents, WriteCommit, WriteAbort, DeleteEvents,
       DeleteRead, DeleteCommit, DeleteAbort, Return, Goto, storeVars
  <2>3. CASE UNCHANGED vars
    BY <2>3 DEF vars, storeVars, callVars
  <2> QED BY <2>1, <2>2, <2>3 DEF Next
<1> QED BY <1>1, <1>2, PTL DEF Spec

\* With one goroutine that connects, pings and disconnects, the flag is down
\* while the database is replaced and up while it is emptied.
LEMMA ConnectionInductive ==
  ASSUME TypeOK, CallInv, ConnectionInv, \A o, q \in Owners : o = q, [Next]_vars
  PROVE  ConnectionInv'
<1> USE ProcsAssumption DEF Procs, TypeOK
<1>1. ASSUME NEW o \in Owners, OwnerStep(o) PROVE ConnectionInv'
  BY <1>1 DEF ConnectionInv, OwnerStep, Connect, ConnectNewDB, ConnectStore, Disconnect,
     DisconnectClear, DisconnectStore, Ping, Goto, callVars, storeVars
<1>2. ASSUME NEW p \in Clients, ClientStep(p) PROVE ConnectionInv'
  <2>1. connected' = connected /\ \A o \in Owners : pc'[o] = pc[o]
    BY <1>2 DEF ClientStep, Reject, WriteEvents, WriteCommit, WriteAbort, DeleteEvents,
       DeleteRead, DeleteCommit, DeleteAbort, Return, Goto, storeVars
  <2> QED BY <2>1 DEF ConnectionInv
<1>3. CASE UNCHANGED vars
  BY <1>3 DEF ConnectionInv, vars, storeVars
<1> QED BY <1>1, <1>2, <1>3 DEF Next

-------------------------------------------------------------------------------
(* Deleting.                                                               *)

\* A step that empties the table or leaves it, its uuids and the calls alone
\* breaks no snapshot.
LEMMA TableEmptiedOrKept ==
  ASSUME TypeOK, SnapshotInv, SeenInv, db' \in {db, NoRows}, used' = used,
         UNCHANGED callVars, \A p \in Clients : pc'[p] = pc[p]
  PROVE  SnapshotInv' /\ SeenInv'
<1> USE DEF TypeOK, callVars, NoRows
<1>1. \A o \in Orderings : db'[o] \in {None, db[o]}
  OBVIOUS
<1>2. SnapshotInv'
  BY <1>1 DEF SnapshotInv, Live
<1>3. SeenInv'
  BY <1>1 DEF SeenInv, Doomed
<1> QED BY <1>2, <1>3

\* A client that has returned holds no snapshot any more, and a step that only
\* draws fresh uuids or removes rows breaks none of the others'.
LEMMA ReturnKeepsSnapshots ==
  ASSUME TypeOK, CallInv, SnapshotInv, SeenInv, NEW p \in Clients,
         NEW r \in {"ok", "error"}, Return(p, r),
         NEW K \in SUBSET (Orderings \ used), used' = used \cup K,
         \A o \in Orderings : o \notin K => db'[o] \in {None, db[o]}
  PROVE  SnapshotInv' /\ SeenInv'
<1> USE ProcsAssumption DEF TypeOK, Return, Goto, Procs
<1>1. Live' \subseteq used'
  BY DEF SnapshotInv, Live
<1>2. ASSUME NEW q \in Clients, NEW o \in Orderings, journals'[q][o] # None
      PROVE  /\ o \in used'
             /\ pc'[q] = "delete"
             /\ db'[o] \in {None, journals'[q][o]}
             /\ journals'[q][o].PersistenceID = target'[q].PersistenceID
  <2>1. q # p
    BY <1>2 DEF NoRows
  <2> QED BY <1>2, <2>1 DEF SnapshotInv
<1>3. ASSUME NEW q \in Clients, NEW o \in seen'[q]
      PROVE  /\ o \in used'
             /\ pc'[q] \in {"read", "delete"}
             /\ pc'[q] = "read" => \/ db'[o] = None
                  \/ /\ db'[o].PersistenceID = target'[q].PersistenceID
                     /\ db'[o].SequenceNumber <= target'[q].SequenceNumber
             /\ pc'[q] = "delete" => db'[o] = None \/ o \in Doomed(q)'
  <2>1. q # p /\ o \in seen[q]
    BY <1>3
  <2>2. o \in used /\ o \notin K /\ db'[o] \in {None, db[o]}
    BY <2>1 DEF SeenInv
  <2>3. Doomed(q)' = Doomed(q)
    BY <2>1 DEF Doomed
  <2> QED BY <2>1, <2>2, <2>3 DEF SeenInv
<1> QED BY <1>1, <1>2, <1>3 DEF SnapshotInv, SeenInv

LEMMA SnapshotInductive ==
  ASSUME TypeOK, CallInv, SnapshotInv, SeenInv, [Next]_vars
  PROVE  SnapshotInv' /\ SeenInv'
<1> USE ProcsAssumption, NoneAssumption DEF Procs
<1>1. ASSUME NEW o \in Owners, OwnerStep(o) PROVE SnapshotInv' /\ SeenInv'
  <2>1. /\ db' \in {db, NoRows} /\ used' = used /\ UNCHANGED callVars
        /\ \A p \in Clients : pc'[p] = pc[p]
    BY <1>1 DEF TypeOK, OwnerStep, Connect, ConnectNewDB, ConnectStore, Disconnect,
       DisconnectClear, DisconnectStore, Ping, Goto, storeVars, callVars
  <2> QED BY <2>1, TableEmptiedOrKept
<1>2. ASSUME NEW p \in Clients, ClientStep(p) PROVE SnapshotInv' /\ SeenInv'
  <2>1. CASE Reject(p) \/ WriteAbort(p) \/ DeleteAbort(p)
    <3>1. Return(p, "error") /\ db' = db /\ used' = used \cup {}
      BY <2>1 DEF Reject, WriteAbort, DeleteAbort, storeVars
    <3> QED BY <3>1, ReturnKeepsSnapshots
  <2>2. ASSUME NEW b \in Batches, WriteEvents(p, b) PROVE SnapshotInv' /\ SeenInv'
    BY <2>2 DEF TypeOK, CallInv, SnapshotInv, SeenInv, WriteEvents, Goto, storeVars,
       Live, Doomed
  <2>3. CASE WriteCommit(p)
    <3>1. PICK K \in SUBSET FreshKeys :
            \E f \in [K -> DOMAIN batch[p]] :
              /\ db' = [o \in Orderings |-> IF o \in K THEN batch[p][f[o]] ELSE db[o]]
              /\ used' = used \cup K
      BY <2>3 DEF WriteCommit
    <3>2. \A o \in Orderings : o \notin K => db'[o] \in {None, db[o]}
      BY <3>1
    <3> QED BY <2>3, <3>1, <3>2, ReturnKeepsSnapshots DEF WriteCommit, FreshKeys
  <2>4. ASSUME NEW t \in Targets, DeleteEvents(p, t) PROVE SnapshotInv' /\ SeenInv'
    <3>1. SnapshotInv'
      BY <2>4 DEF TypeOK, CallInv, SnapshotInv, DeleteEvents, Goto, storeVars, Live
    <3>2. ASSUME NEW q \in Clients, q # p PROVE Doomed(q)' = Doomed(q)
      BY <2>4, <3>2 DEF TypeOK, DeleteEvents, Doomed
    <3>3. SeenInv'
      BY <2>4, <3>2 DEF TypeOK, CallInv, SnapshotInv, SeenInv, DeleteEvents, Goto,
         storeVars, Live
    <3> QED BY <3>1, <3>3
  <2>5. CASE DeleteRead(p)
    <3>1. /\ journals' = [journals EXCEPT ![p] = IndexGet(target[p])]
          /\ pc' = [pc EXCEPT ![p] = "delete"] /\ pc[p] = "read"
          /\ db' = db /\ used' = used /\ target' = target /\ seen' = seen
      BY <2>5 DEF DeleteRead, Goto, storeVars
    <3>2. SnapshotInv'
      BY <3>1 DEF TypeOK, CallInv, SnapshotInv, IndexGet, Live
    <3>3. ASSUME NEW q \in Clients, q # p PROVE Doomed(q)' = Doomed(q)
      BY <3>1, <3>3 DEF TypeOK, Doomed
    <3>4. ASSUME NEW o \in seen[p], db[o] # None PROVE o \in Doomed(p)'
      BY <3>1, <3>4 DEF TypeOK, SeenInv, IndexGet, Doomed, UpTo
    <3>5. SeenInv'
      BY <3>1, <3>3, <3>4 DEF TypeOK, SeenInv
    <3> QED BY <3>2, <3>5
  <2>6. CASE DeleteCommit(p)
    <3>1. /\ Return(p, "ok") /\ used' = used \cup {}
          /\ \A o \in Orderings : db'[o] \in {None, db[o]}
      BY <2>6 DEF DeleteCommit
    <3> QED BY <3>1, ReturnKeepsSnapshots
  <2> QED BY <1>2, <2>1, <2>2, <2>3, <2>4, <2>5, <2>6 DEF ClientStep
<1>3. CASE UNCHANGED vars
  BY <1>3 DEF SnapshotInv, SeenInv, Live, Doomed, vars, storeVars, callVars
<1> QED BY <1>1, <1>2, <1>3 DEF Next

\* Whatever happens between the read and the write transaction of a
\* DeleteEvents, each row it read is that same row or gone, and each row it had
\* to remove when it was called is gone or about to be.
THEOREM SnapshotsHold == Spec => []DeletesWhatItRead
<1>1. Init => SnapshotInv /\ SeenInv
  BY DEF Init, SnapshotInv, SeenInv, NoRows, Live
<1>2. TypeOK /\ CallInv /\ SnapshotInv /\ SeenInv /\ [Next]_vars
        => (TypeOK /\ CallInv /\ SnapshotInv /\ SeenInv)'
  BY TypeCallInductive, SnapshotInductive
<1>3. CallInv /\ SnapshotInv /\ SeenInv => DeletesWhatItRead
  BY DEF DeletesWhatItRead
<1> QED BY <1>1, <1>2, <1>3, TypeCallInit, PTL DEF Spec

-------------------------------------------------------------------------------
(* The store implements the journal.                                       *)

\* What a return is to the caller, K being free keys.
LEMMA ReturnIsFinish ==
  ASSUME TypeOK, SeenInv, NEW p \in Clients, NEW r, Return(p, r),
         NEW K \in SUBSET FreshKeys
  PROVE  J!Finish(p, r, K)
<1>1. \A q \in Clients : seen[q] \cap K = {}
  BY DEF SeenInv, FreshKeys
<1> QED BY <1>1 DEF TypeOK, Return, J!Finish

\* An owner's step opens or closes the journal, empties it, or is invisible.
LEMMA OwnerRefines ==
  ASSUME TypeOK, ConnectionInv, NEW o \in Owners, OwnerStep(o)
  PROVE  [J!Next]_(J!vars)
<1> USE DEF J!vars, callVars, storeVars
<1>1. CASE Connect(o) \/ Disconnect(o) \/ Ping(o)
  BY <1>1 DEF Connect, Disconnect, Ping
<1>2. CASE ConnectNewDB(o)
  <2>1. ~connected
    BY <1>2 DEF ConnectNewDB, ConnectionInv
  <2>2. J!Replace
    BY <1>2, <2>1 DEF ConnectNewDB, J!Replace, J!Empty, NoRows
  <2> QED BY <2>2 DEF J!Next
<1>3. CASE ConnectStore(o)
  <2>1. ~connected
    BY <1>3 DEF ConnectStore, ConnectionInv
  <2>2. J!Open
    BY <1>3, <2>1 DEF ConnectStore, J!Open
  <2> QED BY <2>2 DEF J!Next
<1>4. CASE DisconnectClear(o)
  <2>1. J!Purge
    BY <1>4 DEF DisconnectClear, ConnectionInv, J!Purge, J!Empty, NoRows
  <2> QED BY <2>1 DEF J!Next
<1>5. CASE DisconnectStore(o)
  <2>1. J!Close
    BY <1>5 DEF DisconnectStore, ConnectionInv, J!Close
  <2> QED BY <2>1 DEF J!Next
<1> QED BY <1>1, <1>2, <1>3, <1>4, <1>5 DEF OwnerStep

\* The commit of a WriteEvents stores its whole batch under free keys.
LEMMA WriteCommitRefines ==
  ASSUME TypeOK, CallInv, SnapshotInv, SeenInv, NEW p \in Clients, WriteCommit(p)
  PROVE  J!Store(p)
<1>1. batch[p] \in Batches
  BY DEF TypeOK, CallInv, WriteCommit
<1>2. PICK K \in SUBSET FreshKeys :
        \E f \in [K -> DOMAIN batch[p]] :
          /\ \A i \in DOMAIN batch[p] : \E k \in K : f[k] = i
          /\ \A k, l \in K : f[k] = f[l] => k = l
          /\ db' = [o \in Orderings |-> IF o \in K THEN batch[p][f[o]] ELSE db[o]]
  BY DEF WriteCommit
<1>3. K \in SUBSET Orderings /\ \A k \in K : db[k] = None
  BY <1>2 DEF SnapshotInv, Live, FreshKeys
<1>4. J!Finish(p, "ok", K) /\ UNCHANGED connected
  BY <1>2, ReturnIsFinish DEF WriteCommit
<1> QED BY <1>1, <1>2, <1>3, <1>4 DEF J!Store, J!Answer

\* The commit of a DeleteEvents removes covered rows only, and all of those
\* there were when it was called.
LEMMA DeleteCommitRefines ==
  ASSUME TypeOK, CallInv, SnapshotInv, SeenInv, NEW p \in Clients, DeleteCommit(p)
  PROVE  J!Delete(p)
<1>1. target[p] \in Targets
  BY DEF TypeOK, CallInv, DeleteCommit
<1>2. Doomed(p) \subseteq J!CoveredKeys(target[p])
  <2> SUFFICES ASSUME NEW o \in Doomed(p) PROVE o \in J!CoveredKeys(target[p])
    OBVIOUS
  <2>1. o \in Orderings /\ db[o] # None
    BY DEF DeleteCommit, Live, Doomed
  <2>2. db[o] = journals[p][o]
    BY <2>1 DEF SnapshotInv, Doomed
  <2>3. J!Covers(target[p], db[o])
    BY <2>2 DEF SnapshotInv, Doomed, UpTo, J!Covers
  <2> QED BY <2>1, <2>3 DEF J!CoveredKeys
<1>3. \A o \in seen[p] : db[o] = None \/ o \in Doomed(p)
  BY DEF SeenInv, DeleteCommit
<1>4. J!Finish(p, "ok", {}) /\ UNCHANGED connected
  BY ReturnIsFinish DEF DeleteCommit
<1>5. Doomed(p) \in SUBSET Orderings
  BY DEF Doomed
<1>6. db' = [k \in Orderings |-> IF k \in Doomed(p) THEN None ELSE db[k]]
  BY DEF DeleteCommit
<1> QED BY <1>1, <1>2, <1>3, <1>4, <1>5, <1>6 DEF J!Delete, J!Answer

\* A client's step begins, ends or fails a call of the journal, or is invisible.
LEMMA ClientRefines ==
  ASSUME TypeOK, CallInv, SnapshotInv, SeenInv, NEW p \in Clients, ClientStep(p)
  PROVE  [J!Next]_(J!vars)
<1>1. CASE Reject(p) \/ WriteAbort(p) \/ DeleteAbort(p)
  <2>1. J!Fail(p)
    BY <1>1, ReturnIsFinish DEF Reject, WriteAbort, DeleteAbort, storeVars, J!Fail
  <2> QED BY <2>1 DEF J!Next
<1>2. ASSUME NEW b \in Batches, WriteEvents(p, b) PROVE J!Next
  <2>1. J!BeginWrite(p, b)
    BY <1>2 DEF CallInv, WriteEvents, J!BeginWrite, J!Idle, storeVars
  <2> QED BY <2>1 DEF J!Next
<1>3. CASE WriteCommit(p)
  BY <1>3, WriteCommitRefines DEF J!Next
<1>4. ASSUME NEW t \in Targets, DeleteEvents(p, t) PROVE J!Next
  <2>1. {o \in Live : db[o].PersistenceID = t.PersistenceID
                        /\ db[o].SequenceNumber <= t.SequenceNumber} = J!CoveredKeys(t)
    BY DEF Live, J!CoveredKeys, J!Covers
  <2>2. J!BeginDelete(p, t)
    BY <1>4, <2>1 DEF CallInv, DeleteEvents, J!BeginDelete, J!Idle, storeVars
  <2> QED BY <2>2 DEF J!Next
<1>5. CASE DeleteRead(p)
  BY <1>5 DEF DeleteRead, storeVars, J!vars
<1>6. CASE DeleteCommit(p)
  BY <1>6, DeleteCommitRefines DEF J!Next
<1> QED BY <1>1, <1>2, <1>3, <1>4, <1>5, <1>6 DEF ClientStep

\* With one goroutine that connects, pings and disconnects, the in-memory store
\* implements the journal: whatever the interleaving of writers and deleters,
\* batches are atomic, failed calls change nothing, deletes remove exactly
\* covered rows, and the table is replaced only while the store is closed.
THEOREM ImplementsJournal ==
  ASSUME \A o, q \in Owners : o = q
  PROVE  Spec => RefinesJournal
<1> DEFINE I == TypeOK /\ CallInv /\ ConnectionInv /\ SnapshotInv /\ SeenInv
<1>1. Init => I /\ J!Init
  BY TypeCallInit, ProcsAssumption DEF Init, ConnectionInv, SnapshotInv, SeenInv, NoRows,
     Live, Procs, J!Init, J!Empty
<1>2. I /\ [Next]_vars => I'
  BY TypeCallInductive, SnapshotInductive, ConnectionInductive
<1>3. I /\ [Next]_vars => [J!Next]_(J!vars)
  <2> SUFFICES ASSUME I, [Next]_vars PROVE [J!Next]_(J!vars)
    OBVIOUS
  <2>1. CASE UNCHANGED vars
    BY <2>1 DEF vars, storeVars, callVars, J!vars
  <2> QED BY <2>1, OwnerRefines, ClientRefines DEF Next
<1> HIDE DEF I
<1> QED BY <1>1, <1>2, <1>3, PTL DEF Spec, RefinesJournal, J!Spec
==============================================================================
