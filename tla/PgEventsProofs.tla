---------------------------- MODULE PgEventsProofs ----------------------------
(***************************************************************************)
(* Proofs about PgEventsStore, for any sets of clients and owners, any     *)
(* persistence ids, batches and targets, and any size of the pool and of an*)
(* INSERT: its types, and that it implements Journal.                      *)
(***************************************************************************)
EXTENDS PgEventsStore, TLAPS

PCs == {"idle", "connect", "dial", "dialed", "connected", "close",
        "closed", "begin", "insert", "delete", "commit"}

\* The call a client is in, and how far its transaction is.
CallInv ==
  \A c \in Clients :
    /\ pc[c] \in {"idle", "begin", "insert", "delete", "commit"}
    /\ pc[c] \in {"idle", "begin"} => next[c] = 1
    /\ pc[c] = "idle" => batch[c] = None /\ target[c] = None
    /\ pc[c] = "begin" => (batch[c] = None <=> target[c] # None)
    /\ pc[c] = "insert" => batch[c] # None /\ target[c] = None /\ next[c] <= Len(batch[c])
    /\ pc[c] = "delete" => batch[c] = None /\ target[c] # None
    /\ pc[c] = "commit" => /\ batch[c] = None <=> target[c] # None
                           /\ batch[c] # None => next[c] = Len(batch[c]) + 1

\* The rows a transaction has inserted are those of the batch up to the next
\* event, and the keys are nobody else's.
InsertInv ==
  \A c \in Clients :
    /\ batch[c] # None =>
         \A i \in 1 .. next[c] - 1 : /\ i \in DOMAIN batch[c]
                                     /\ inserted[c][KeyOf(batch[c][i])] = batch[c][i]
    /\ \A i, j \in 1 .. next[c] - 1 :
         batch[c] # None /\ KeyOf(batch[c][i]) = KeyOf(batch[c][j]) => i = j
    /\ \A k \in Keys : inserted[c][k] # None =>
         /\ pc[c] \in {"insert", "commit"} /\ batch[c] # None
         /\ \E i \in 1 .. next[c] - 1 : KeyOf(batch[c][i]) = k
         /\ table[k] = None
         /\ \A d \in Clients \ {c} : inserted[d][k] = None

InReach(t, k) == k[1] = t.PersistenceID /\ k[2] <= t.SequenceNumber

\* The rows a transaction has deleted are there until it commits, and what was
\* there when the call began is gone or will be.
DeleteInv ==
  \A c \in Clients :
    /\ deleted[c] # {} => pc[c] = "commit" /\ target[c] # None
    /\ \A k \in deleted[c] : /\ table[k] # None /\ InReach(target[c], k)
                             /\ \A d \in Clients \ {c} : k \notin deleted[d]
    /\ target[c] # None =>
         \A k \in seen[c] : /\ InReach(target[c], k)
                            /\ pc[c] = "commit" /\ table[k] # None => k \in deleted[c]

IInv == TypeOK /\ CallInv /\ InsertInv /\ DeleteInv

\* The events of a batch have keys of the table.
LEMMA EventsOf ==
  ASSUME NEW b \in Batches
  PROVE  /\ Len(b) \in Nat /\ DOMAIN b = 1 .. Len(b)
         /\ \A i \in DOMAIN b : b[i] \in Event /\ KeyOf(b[i]) \in Keys /\ b[i] # None
<1>1. b \in Seq(Event)
  BY BatchesAssumption
<1>2. Len(b) \in Nat /\ DOMAIN b = 1 .. Len(b) /\ \A i \in DOMAIN b : b[i] \in Event
  BY <1>1
<1>3. \A event \in Event : KeyOf(event) \in Keys /\ event # None
  BY NoneAssumption DEF Event, Keys, KeyOf
<1> QED BY <1>2, <1>3

LEMMA NoRowsTyped == NoRows \in Rows /\ \A k \in Keys : NoRows[k] = None
  BY DEF NoRows, Rows

LEMMA RowTyped ==
  ASSUME NEW rows \in Rows, NEW k \in Keys, rows[k] # None
  PROVE  rows[k] \in Event /\ KeyOf(rows[k]) = k
  BY DEF Rows

-------------------------------------------------------------------------------
(* The invariant.                                                          *)

LEMMA InvStarts == Init => IInv
<1> SUFFICES ASSUME Init PROVE IInv
  OBVIOUS
<1>1. PoolTypeOK /\ pc \in [Procs -> PCs] /\ \A c \in Clients : pc[c] = "idle"
  BY DEF Init, PoolInit, PoolTypeOK, Procs, PCs
<1>2. TypeOK
  BY <1>1, NoRowsTyped DEF Init, TypeOK, PCs
<1>3. CallInv
  BY <1>1 DEF Init, CallInv
<1>4. InsertInv /\ DeleteInv
  BY NoRowsTyped DEF Init, InsertInv, DeleteInv
<1> QED BY <1>2, <1>3, <1>4 DEF IInv

LEMMA InvOwner ==
  ASSUME IInv, NEW o \in Owners, OwnerStep(o)
  PROVE  IInv'
<1> USE ProcsAssumption DEF TypeOK, PoolTypeOK, Procs, Goto, poolVars
<1>1. UNCHANGED <<table, inserted, deleted, next, abandoned, batch, target, seen, reply>>
  BY DEF OwnerStep, txVars, callVars
<1>2. /\ PoolTypeOK' /\ pc' \in [Procs -> PCs]
      /\ \A c \in Clients : pc'[c] = pc[c]
  <2> USE DEF IInv, PCs
  <2>1. CASE Connect(o)
    BY <2>1 DEF Connect
  <2>2. CASE ConnectNewPool(o)
    BY <2>2 DEF ConnectNewPool
  <2>3. CASE ConnectSetPool(o)
    BY <2>3 DEF ConnectSetPool
  <2>4. CASE ConnectStore(o)
    BY <2>4 DEF ConnectStore
  <2>5. CASE DisconnectClosed(o)
    BY <2>5 DEF DisconnectClosed
  <2>6. CASE DisconnectStore(o)
    BY <2>6 DEF DisconnectStore
  <2>7. CASE ConnectFails(o)
    BY <2>7 DEF ConnectFails
  <2>8. CASE Disconnect(o)
    BY <2>8 DEF Disconnect
  <2>9. CASE Ping(o)
    BY <2>9 DEF Ping
  <2> QED BY <2>1, <2>2, <2>3, <2>4, <2>5, <2>6, <2>7, <2>8, <2>9
          DEF OwnerStep, PoolStep, PoolProgress
<1>3. TypeOK'
  BY <1>1, <1>2 DEF IInv, PCs
<1> QED BY <1>1, <1>2, <1>3 DEF IInv, CallInv, InsertInv, DeleteInv

LEMMA InvBegins ==
  ASSUME IInv, NEW c \in Clients,
         \/ \E b \in Batches : WriteEvents(c, b)
         \/ \E t \in Targets : DeleteEvents(c, t)
         \/ BeginTx(c)
  PROVE  IInv'
<1> USE ProcsAssumption, NoneAssumption
        DEF IInv, TypeOK, PoolTypeOK, Procs, Goto, poolVars, txVars
<1>1. CASE \E b \in Batches : WriteEvents(c, b)
  <2>1. PICK b \in Batches : WriteEvents(c, b)
    BY <1>1
  <2> USE <2>1 DEF WriteEvents
  <2>2. TypeOK'
    BY DEF PCs
  <2>3. CallInv'
    BY DEF CallInv
  <2>4. InsertInv'
    BY DEF InsertInv, CallInv
  <2>5. DeleteInv'
    BY DEF DeleteInv
  <2> QED BY <2>2, <2>3, <2>4, <2>5
<1>2. CASE \E t \in Targets : DeleteEvents(c, t)
  <2>1. PICK t \in Targets : DeleteEvents(c, t)
    BY <1>2
  <2> USE <2>1 DEF DeleteEvents
  <2>2. Covered(t) \in SUBSET Keys /\ \A k \in Covered(t) : InReach(t, k)
    BY RowTyped DEF Covered, Covers, InReach, KeyOf
  <2>3. TypeOK'
    BY <2>2 DEF PCs
  <2>4. CallInv'
    BY DEF CallInv
  <2>5. InsertInv'
    BY DEF InsertInv, CallInv
  <2>6. DeleteInv'
    BY <2>2 DEF DeleteInv
  <2> QED BY <2>3, <2>4, <2>5, <2>6
<1>3. CASE BeginTx(c)
  <2> USE <1>3 DEF BeginTx, Acquire, callVars
  <2>1. TypeOK'
    BY DEF PCs
  <2>2. CallInv'
    <3>1. batch[c] # None => batch[c] \in Batches /\ Len(batch[c]) \in Nat /\ 1 <= Len(batch[c])
      BY BatchesAssumption, EventsOf
    <3> QED BY <3>1 DEF CallInv
  <2>3. InsertInv'
    BY DEF InsertInv
  <2>4. DeleteInv'
    BY DEF DeleteInv
  <2> QED BY <2>1, <2>2, <2>3, <2>4
<1> QED BY <1>1, <1>2, <1>3

\* A transaction and its call are over, and the transaction has left nothing.
EndsWithout(c, r) ==
  /\ Return(c, r, {})
  /\ table' = table
  /\ inserted' = [inserted EXCEPT ![c] = NoRows]
  /\ deleted' = [deleted EXCEPT ![c] = {}]
  /\ next' = [next EXCEPT ![c] = 1]
  /\ abandoned' \subseteq Keys
  /\ PoolTypeOK'

LEMMA InvEndsWithout ==
  ASSUME IInv, NEW c \in Clients, NEW r \in {"ok", "error"}, EndsWithout(c, r)
  PROVE  IInv'
<1> USE ProcsAssumption DEF IInv, EndsWithout, Return, Goto, Procs
<1>1. seen' = [seen EXCEPT ![c] = {}]
  BY DEF TypeOK
<1>2. NoRows \in Rows /\ \A k \in Keys : NoRows[k] = None
  BY NoRowsTyped
<1>3. TypeOK'
  BY <1>1, <1>2 DEF TypeOK
<1>4. CallInv'
  BY DEF TypeOK, CallInv
<1>5. InsertInv'
  BY <1>2 DEF TypeOK, InsertInv
<1>6. DeleteInv'
  BY <1>1 DEF TypeOK, DeleteInv
<1> QED BY <1>3, <1>4, <1>5, <1>6

\* The steps that end a call without effect, and how they answer.
LEMMA Ending ==
  ASSUME IInv, NEW c \in Clients
  PROVE  /\ \/ Reject(c) \/ BeginTxClosed(c) \/ MarshalFails(c) \/ InsertConflict(c)
            \/ Deadlock(c) \/ NetworkFails(c)
            => EndsWithout(c, "error") /\ connected' = connected
         /\ WriteNothing(c) => EndsWithout(c, "ok") /\ connected' = connected
<1>1. ASSUME UNCHANGED <<txVars, poolVars, holds>>, pc[c] \in {"idle", "begin"}, NEW r, Return(c, r, {})
      PROVE  EndsWithout(c, r) /\ connected' = connected
  <2>1. inserted[c] = NoRows /\ deleted[c] = {} /\ next[c] = 1
    <3>1. deleted[c] = {} /\ next[c] = 1 /\ \A k \in Keys : inserted[c][k] = None
      BY <1>1 DEF IInv, CallInv, InsertInv, DeleteInv
    <3>2. inserted[c] \in [Keys -> Event \cup {None}]
      BY DEF IInv, TypeOK, Rows
    <3>3. inserted[c] = NoRows
      BY <3>1, <3>2 DEF NoRows
    <3> QED BY <3>1, <3>3
  <2> QED BY <1>1, <2>1 DEF EndsWithout, IInv, TypeOK, PoolTypeOK, txVars, poolVars
<1>2. ASSUME Abort(c)
      PROVE  EndsWithout(c, "error") /\ connected' = connected
  BY <1>2, ProcsAssumption
     DEF Abort, EndTx, EndsWithout, IInv, TypeOK, PoolTypeOK, Procs, poolVars
<1>3. ASSUME MarshalFails(c)
      PROVE  EndsWithout(c, "error") /\ connected' = connected
  <2>1. /\ holds' = [holds EXCEPT ![c] = None]
        /\ leaked' = [leaked EXCEPT ![holds[c]] = leaked[holds[c]] + 1]
        /\ UNCHANGED <<connected, pool, status>>
    BY <1>3 DEF MarshalFails, EndTx
  <2>2. PoolTypeOK'
    <3> USE DEF IInv, TypeOK, PoolTypeOK, Procs
    <3>1. holds' \in [Procs -> Pools \cup {None}]
      BY <2>1
    <3>2. leaked \in [Pools -> Nat]
      OBVIOUS
    <3>3. leaked' \in [Pools -> Nat]
      <4>1. CASE holds[c] \in Pools
        <5>1. leaked[holds[c]] + 1 \in Nat
          BY <3>2, <4>1
        <5> QED BY <2>1, <3>2, <5>1
      <4>2. CASE holds[c] \notin Pools
        BY <2>1, <3>2, <4>2
      <4> QED BY <4>1, <4>2
    <3> QED BY <2>1, <3>1, <3>3
  <2> QED BY <1>3, <2>1, <2>2 DEF MarshalFails, EndTx, EndsWithout, IInv, TypeOK
<1> QED BY <1>1, <1>2, <1>3
           DEF Reject, BeginTxClosed, InsertConflict, Deadlock, NetworkFails,
               WriteNothing

LEMMA InvInsertRow ==
  ASSUME IInv, NEW c \in Clients, InsertRow(c)
  PROVE  IInv'
<1> DEFINE b == batch[c]
           n == next[c]
           k == NextKey(c)
           event == NextEvent(c)
<1>1. pc[c] = "insert" /\ ~Locked(c, k) /\ ~Taken(c, k)
  BY DEF InsertRow, Inserting
<1>2. b \in Batches /\ target[c] = None /\ n \in 1 .. Len(b) /\ Len(b) \in Nat
  BY <1>1, EventsOf DEF IInv, TypeOK, CallInv
<1>3. event \in Event /\ event # None /\ k = KeyOf(event) /\ k \in Keys /\ event = b[n] /\ n \in DOMAIN b
  BY <1>2, EventsOf DEF NextKey, NextEvent
<1>4. table[k] = None /\ \A d \in Clients : inserted[d][k] = None
  BY <1>1 DEF Locked, Taken
<1> HIDE DEF b, n, k, event
<1>5. /\ \A d \in Clients \ {c} : inserted'[d] = inserted[d]
      /\ inserted'[c][k] = event
      /\ \A l \in Keys \ {k} : inserted'[c][l] = inserted[c][l]
      /\ inserted' \in [Clients -> Rows]
  <2>1. inserted' = [inserted EXCEPT ![c] = [inserted[c] EXCEPT ![k] = event]]
    BY DEF InsertRow, k, event
  <2>2. [inserted[c] EXCEPT ![k] = event] \in Rows
    <3>1. inserted[c] \in Rows
      BY DEF IInv, TypeOK
    <3> QED BY <3>1, <1>3 DEF Rows
  <2>3. inserted \in [Clients -> Rows] /\ inserted[c] \in [Keys -> Event \cup {None}]
    BY DEF IInv, TypeOK, Rows
  <2> QED BY <2>1, <2>2, <2>3, <1>3
<1>6. /\ next' = [next EXCEPT ![c] = n + 1]
      /\ pc' = [pc EXCEPT ![c] = IF n = Len(b) THEN "commit" ELSE "insert"]
      /\ UNCHANGED <<table, deleted, abandoned, connected, pool, status, leaked, holds,
                     batch, target, seen, reply>>
  BY DEF InsertRow, Goto, poolVars, callVars, b, n
<1>7. TypeOK'
  BY <1>2, <1>5, <1>6, ProcsAssumption DEF IInv, TypeOK, PoolTypeOK, Procs
<1>8. CallInv'
  BY <1>1, <1>2, <1>6, ProcsAssumption, NoneAssumption
     DEF IInv, TypeOK, Procs, CallInv, b, n
<1>9. InsertInv'
  <2>0. next'[c] = n + 1 /\ pc'[c] \in {"insert", "commit"} /\ n \in Nat \ {0} /\ b # None
        /\ batch' = batch /\ table' = table
        /\ \A d \in Clients \ {c} : next'[d] = next[d] /\ pc'[d] = pc[d]
    BY <1>1, <1>2, <1>6, ProcsAssumption, NoneAssumption DEF IInv, TypeOK, Procs
  <2>1. \A i \in 1 .. n - 1 : i \in DOMAIN b /\ KeyOf(b[i]) # k /\ inserted[c][KeyOf(b[i])] = b[i]
                            /\ KeyOf(b[i]) \in Keys
    BY <1>2, <1>4, <2>0, EventsOf DEF IInv, InsertInv, b, n
  <2>2. ASSUME NEW i \in 1 .. n
        PROVE  i \in DOMAIN b /\ inserted'[c][KeyOf(b[i])] = b[i]
    BY <1>3, <1>5, <2>0, <2>1
  <2>3. ASSUME NEW i \in 1 .. n, NEW j \in 1 .. n, KeyOf(b[i]) = KeyOf(b[j])
        PROVE  i = j
    <3>1. CASE i = n \/ j = n
      BY <3>1, <2>3, <2>0, <2>1, <1>3
    <3>2. CASE i # n /\ j # n
      BY <3>2, <2>3, <2>0 DEF IInv, InsertInv, b, n
    <3> QED BY <3>1, <3>2
  <2>4. ASSUME NEW l \in Keys, inserted'[c][l] # None
        PROVE  /\ \E i \in 1 .. n : KeyOf(b[i]) = l
               /\ table[l] = None
               /\ \A d \in Clients \ {c} : inserted'[d][l] = None
    <3>1. CASE l = k
      BY <3>1, <1>3, <1>4, <1>5, <2>0
    <3>2. CASE l # k
      BY <3>2, <2>4, <1>5, <2>0 DEF IInv, InsertInv, b, n
    <3> QED BY <3>1, <3>2
  <2>5. ASSUME NEW d \in Clients \ {c}, NEW l \in Keys, inserted[d][l] # None
        PROVE  inserted'[c][l] = None
    BY <2>5, <1>4, <1>5 DEF IInv, InsertInv
  <2> QED
    <3>1. ASSUME NEW d \in Clients, d # c
          PROVE  InsertInv!(d)'
      BY <3>1, <2>0, <2>5, <1>5 DEF IInv, InsertInv
    <3>2. InsertInv!(c)'
      BY <2>0, <2>2, <2>3, <2>4 DEF b, n
    <3> QED BY <3>1, <3>2 DEF InsertInv
<1>10. DeleteInv'
  BY <1>1, <1>2, <1>6, ProcsAssumption DEF IInv, TypeOK, Procs, DeleteInv, CallInv
<1> QED BY <1>7, <1>8, <1>9, <1>10 DEF IInv

LEMMA InvDeleteRows ==
  ASSUME IInv, NEW c \in Clients, DeleteRows(c)
  PROVE  IInv'
<1> DEFINE D == Covered(target[c])
<1>1. /\ pc[c] = "delete" /\ \A k \in D : ~Locked(c, k)
      /\ deleted' = [deleted EXCEPT ![c] = D] /\ pc' = [pc EXCEPT ![c] = "commit"]
      /\ UNCHANGED <<table, inserted, next, abandoned, connected, pool, status, leaked, holds,
                     batch, target, seen, reply>>
  BY DEF DeleteRows, Goto, poolVars, callVars
<1>2. target[c] # None /\ batch[c] = None
  BY <1>1 DEF IInv, CallInv
<1>3. /\ D \in SUBSET Keys
      /\ \A k \in D : table[k] # None /\ InReach(target[c], k)
      /\ \A k \in Keys : table[k] # None /\ InReach(target[c], k) => k \in D
  BY RowTyped DEF IInv, TypeOK, Covered, Covers, InReach, KeyOf
<1>4. \A k \in D, d \in Clients \ {c} : k \notin deleted[d]
  BY <1>1 DEF Locked
<1> HIDE DEF D
<1>5. TypeOK'
  BY <1>1, <1>3, ProcsAssumption DEF IInv, TypeOK, PoolTypeOK, Procs
<1>6. CallInv'
  BY <1>1, <1>2, ProcsAssumption DEF IInv, TypeOK, Procs, CallInv
<1>7. InsertInv'
  BY <1>1, <1>2, ProcsAssumption DEF IInv, TypeOK, Procs, InsertInv
<1>8. DeleteInv'
  BY <1>1, <1>2, <1>3, <1>4, ProcsAssumption DEF IInv, TypeOK, Procs, DeleteInv
<1> QED BY <1>5, <1>6, <1>7, <1>8 DEF IInv

LEMMA InvCommit ==
  ASSUME IInv, NEW c \in Clients, NEW r \in {"ok", "error"}, pc[c] = "commit", CommitTx(c, r)
  PROVE  IInv'
<1> DEFINE K == {k \in Keys : inserted[c][k] # None}
<1>1. /\ table' = [k \in Keys |-> IF k \in K THEN inserted[c][k]
                                  ELSE IF k \in deleted[c] THEN None ELSE table[k]]
      /\ inserted' = [inserted EXCEPT ![c] = NoRows]
      /\ deleted' = [deleted EXCEPT ![c] = {}]
      /\ next' = [next EXCEPT ![c] = 1]
      /\ holds' = [holds EXCEPT ![c] = None]
      /\ pc' = [pc EXCEPT ![c] = "idle"]
      /\ batch' = [batch EXCEPT ![c] = None]
      /\ target' = [target EXCEPT ![c] = None]
      /\ seen' = [d \in Clients |-> IF d = c THEN {} ELSE seen[d] \ K]
      /\ reply' = [reply EXCEPT ![c] = r]
      /\ UNCHANGED <<abandoned, connected, pool, status, leaked>>
  BY DEF CommitTx, EndTx, Return, Goto, poolVars
<1>2. \A k \in Keys : k \in K <=> inserted[c][k] # None
  OBVIOUS
<1> HIDE DEF K
<1>3. table' \in Rows
  <2>1. inserted[c] \in Rows /\ table \in Rows
    BY DEF IInv, TypeOK
  <2> QED BY <1>1, <2>1 DEF Rows
<1>4. TypeOK'
  BY <1>1, <1>3, NoRowsTyped, ProcsAssumption DEF IInv, TypeOK, PoolTypeOK, Procs
<1>5. CallInv'
  BY <1>1, ProcsAssumption DEF IInv, TypeOK, Procs, CallInv
<1>6. InsertInv'
  <2>1. ASSUME NEW d \in Clients, d # c
        PROVE  InsertInv!(d)'
    <3>1. /\ pc'[d] = pc[d] /\ batch'[d] = batch[d] /\ next'[d] = next[d]
          /\ inserted'[d] = inserted[d] /\ inserted'[c] = NoRows
          /\ \A e \in Clients \ {c} : inserted'[e] = inserted[e]
      BY <1>1, <2>1, ProcsAssumption DEF IInv, TypeOK, Procs
    <3>2. \A k \in Keys : inserted[d][k] # None => table'[k] = None
      BY <1>1, <1>2, <2>1 DEF IInv, InsertInv
    <3> QED BY <2>1, <3>1, <3>2, NoRowsTyped DEF IInv, InsertInv
  <2>2. inserted'[c] = NoRows /\ batch'[c] = None
    BY <1>1 DEF IInv, TypeOK
  <2> QED BY <2>1, <2>2, NoRowsTyped DEF InsertInv
<1>7. DeleteInv'
  <2>1. ASSUME NEW d \in Clients, d # c
        PROVE  DeleteInv!(d)'
    <3>1. /\ pc'[d] = pc[d] /\ target'[d] = target[d] /\ deleted'[d] = deleted[d]
          /\ seen'[d] = seen[d] \ K /\ deleted'[c] = {}
          /\ \A e \in Clients \ {c} : deleted'[e] = deleted[e]
          /\ deleted[d] \subseteq Keys /\ seen[d] \subseteq Keys
      BY <1>1, <2>1, ProcsAssumption DEF IInv, TypeOK, Procs
    <3>2. \A k \in deleted[d] : table'[k] # None
      BY <1>1, <1>2, <2>1, <3>1 DEF IInv, DeleteInv
    <3>3. \A k \in seen[d] \ K : table'[k] # None => table[k] # None
      BY <1>1, <3>1
    <3> QED BY <2>1, <3>1, <3>2, <3>3 DEF IInv, DeleteInv
  <2>2. deleted'[c] = {} /\ target'[c] = None
    BY <1>1 DEF IInv, TypeOK
  <2> QED BY <2>1, <2>2 DEF DeleteInv
<1> QED BY <1>4, <1>5, <1>6, <1>7 DEF IInv

LEMMA InvCrash ==
  ASSUME IInv, Crash
  PROVE  IInv'
<1> USE DEF Crash, PoolCrash
<1>1. TypeOK'
  <2>1. PoolTypeOK' /\ pc' \in [Procs -> PCs]
    BY DEF PoolTypeOK, PCs
  <2> QED BY <2>1, NoRowsTyped DEF IInv, TypeOK, PCs
<1>2. CallInv'
  BY DEF CallInv, Procs
<1>3. InsertInv' /\ DeleteInv'
  BY NoRowsTyped DEF InsertInv, DeleteInv
<1> QED BY <1>1, <1>2, <1>3 DEF IInv

LEMMA InvInductive == IInv /\ [Next]_vars => IInv'
<1> SUFFICES ASSUME IInv, [Next]_vars PROVE IInv'
  OBVIOUS
<1>1. CASE UNCHANGED vars
  BY <1>1
     DEF vars, poolVars, txVars, callVars, IInv, TypeOK, PoolTypeOK, CallInv, InsertInv,
         DeleteInv
<1>2. ASSUME NEW c \in Clients, ClientStep(c) PROVE IInv'
  BY <1>2, InvBegins, Ending, InvEndsWithout, InvInsertRow, InvDeleteRows, InvCommit
     DEF ClientStep, ClientProgress, Commit, CommitUnanswered
<1> QED BY <1>1, <1>2, InvOwner, InvCrash DEF Next
-------------------------------------------------------------------------------
(* The refinement.                                                         *)

LEMMA ContractStarts == Init => J!Init
  BY DEF Init, PoolInit, J!Init, J!Empty, NoRows

\* A call begins: its caller was in none.
LEMMA CallBegins ==
  ASSUME IInv, NEW c \in Clients
  PROVE  /\ \A b \in Batches : WriteEvents(c, b) => J!BeginWrite(c, b)
         /\ \A t \in Targets : DeleteEvents(c, t) => J!BeginDelete(c, t)
<1>1. pc[c] = "idle" => J!Idle(c)
  BY DEF IInv, CallInv, J!Idle
<1>2. \A t \in Targets : J!CoveredKeys(t) = Covered(t)
  BY DEF J!CoveredKeys, Covered, J!Covers, Covers
<1> QED BY <1>1, <1>2
           DEF WriteEvents, DeleteEvents, J!BeginWrite, J!BeginDelete, txVars, poolVars

\* A call that ends without effect fails, or has stored the empty batch.
LEMMA CallFails ==
  ASSUME NEW c \in Clients, EndsWithout(c, "error"), connected' = connected
  PROVE  J!Fail(c)
  BY DEF EndsWithout, Return, J!Fail, J!Finish

LEMMA CallWritesNothing ==
  ASSUME IInv, NEW c \in Clients, WriteNothing(c)
  PROVE  J!Store(c)
<1>1. batch[c] = << >> /\ batch[c] \in Batches
  BY NoneAssumption DEF WriteNothing, IInv, TypeOK
<1>2. J!Finish(c, "ok", {}) /\ connected' = connected
  BY DEF WriteNothing, Return, J!Finish, poolVars
<1>3. table' = [k \in Keys |-> table[k]]
  BY DEF WriteNothing, txVars, IInv, TypeOK, Rows
<1>4. [k \in {} |-> 1] \in [{} -> DOMAIN << >>]
  OBVIOUS
<1> DEFINE f == [k \in {} |-> 1]
<1>5. \A i \in DOMAIN << >> : FALSE
  OBVIOUS
<1>6. table' = [k \in Keys |-> IF k \in {} THEN << >>[f[k]] ELSE table[k]]
  BY <1>3
<1>7. "ok" \in J!Answer
  BY DEF J!Answer
<1> HIDE DEF f
<1> QED BY <1>1, <1>2, <1>4, <1>5, <1>6, <1>7 DEF J!Store, f

LEMMA CallStores ==
  ASSUME IInv, NEW c \in Clients, NEW r \in {"ok", "error"}, pc[c] = "commit", CommitTx(c, r),
         batch[c] # None
  PROVE  J!Store(c)
<1> DEFINE b == batch[c]
           K == {k \in Keys : inserted[c][k] # None}
           f == [k \in K |-> CHOOSE i \in DOMAIN b : KeyOf(b[i]) = k]
<1>1. /\ table' = [k \in Keys |-> IF k \in K THEN inserted[c][k]
                                  ELSE IF k \in deleted[c] THEN None ELSE table[k]]
      /\ J!Finish(c, r, K) /\ connected' = connected
  BY DEF CommitTx, Return, J!Finish, poolVars
<1>2. b \in Batches /\ deleted[c] = {} /\ DOMAIN b = 1 .. next[c] - 1
  <2>1. b \in Batches /\ target[c] = None /\ next[c] = Len(b) + 1
    BY DEF IInv, TypeOK, CallInv
  <2>2. deleted[c] = {}
    BY <2>1 DEF IInv, DeleteInv
  <2> QED BY <2>1, <2>2, EventsOf
<1>3. \A i \in DOMAIN b : /\ KeyOf(b[i]) \in K
                          /\ inserted[c][KeyOf(b[i])] = b[i]
  BY <1>2, EventsOf DEF IInv, InsertInv
<1>4. \A i, j \in DOMAIN b : KeyOf(b[i]) = KeyOf(b[j]) => i = j
  BY <1>2 DEF IInv, InsertInv
<1>5. \A k \in K : /\ k \in Keys /\ table[k] = None
                   /\ \E i \in DOMAIN b : KeyOf(b[i]) = k
  BY <1>2 DEF IInv, InsertInv
<1> HIDE DEF b, K
<1>6. \A k \in K : f[k] \in DOMAIN b /\ KeyOf(b[f[k]]) = k
  BY <1>5
<1>7. f \in [K -> DOMAIN b]
  BY <1>6
<1> HIDE DEF f
<1>8. \A i \in DOMAIN b : \E k \in K : f[k] = i
  BY <1>3, <1>4, <1>6
<1>9. \A k, l \in K : f[k] = f[l] => k = l
  BY <1>6
<1>10. table' = [k \in Keys |-> IF k \in K THEN b[f[k]] ELSE table[k]]
  BY <1>1, <1>2, <1>3, <1>6
<1>11. r \in J!Answer /\ K \in SUBSET Keys /\ batch[c] = b
  BY <1>5 DEF J!Answer, b
<1>12. \E g \in [K -> DOMAIN b] :
         /\ \A i \in DOMAIN b : \E k \in K : g[k] = i
         /\ \A k, l \in K : g[k] = g[l] => k = l
         /\ table' = [k \in Keys |-> IF k \in K THEN b[g[k]] ELSE table[k]]
  BY <1>7, <1>8, <1>9, <1>10
<1>13. \E s \in J!Answer : J!Finish(c, s, K)
  BY <1>1, <1>11
<1>14. b \in Batches /\ \A k \in K : table[k] = None
  BY <1>2, <1>5
<1> QED BY <1>1, <1>11, <1>12, <1>13, <1>14 DEF J!Store

LEMMA CallDeletes ==
  ASSUME IInv, NEW c \in Clients, NEW r \in {"ok", "error"}, pc[c] = "commit", CommitTx(c, r),
         batch[c] = None
  PROVE  J!Delete(c)
<1>1. target[c] \in Targets
  BY DEF IInv, TypeOK, CallInv
<1>2. \A k \in Keys : inserted[c][k] = None
  BY DEF IInv, InsertInv
<1>3. {k \in Keys : inserted[c][k] # None} = {}
  BY <1>2
<1>4. /\ table' = [k \in Keys |-> IF k \in deleted[c] THEN None ELSE table[k]]
      /\ J!Finish(c, r, {}) /\ connected' = connected
  BY <1>2, <1>3 DEF CommitTx, Return, J!Finish, poolVars
<1>5. deleted[c] \in SUBSET Keys
  BY DEF IInv, TypeOK
<1>6. deleted[c] \subseteq J!CoveredKeys(target[c])
  BY <1>5, RowTyped DEF IInv, TypeOK, DeleteInv, InReach, J!CoveredKeys, J!Covers, KeyOf
<1>7. \A k \in seen[c] : table[k] = None \/ k \in deleted[c]
  BY <1>1, NoneAssumption DEF IInv, DeleteInv
<1>8. r \in J!Answer
  BY DEF J!Answer
<1> QED BY <1>1, <1>4, <1>5, <1>6, <1>7, <1>8 DEF J!Delete

LEMMA OwnerSimulates ==
  ASSUME IInv, NEW o \in Owners, OwnerStep(o)
  PROVE  J!Open \/ J!Close \/ UNCHANGED J!vars
<1>1. UNCHANGED <<table, batch, target, seen, reply>>
  BY DEF OwnerStep, txVars, callVars
<1>2. connected' = connected \/ (connected' = TRUE) \/ (connected' = FALSE)
  BY
     DEF OwnerStep, PoolStep, PoolProgress, Connect, ConnectNewPool, ConnectSetPool,
         ConnectStore, DisconnectClosed, DisconnectStore, ConnectFails, Disconnect,
         Ping, poolVars
<1>3. connected \in BOOLEAN
  BY DEF IInv, TypeOK, PoolTypeOK
<1> QED BY <1>1, <1>2, <1>3 DEF J!Open, J!Close, J!vars

LEMMA NextSimulates == IInv /\ [Next]_vars => [J!Next]_J!vars
<1> SUFFICES ASSUME IInv, [Next]_vars PROVE J!Next \/ UNCHANGED J!vars
  BY DEF J!vars
<1>1. CASE UNCHANGED vars
  BY <1>1 DEF vars, txVars, callVars, poolVars, J!vars
<1>2. ASSUME NEW o \in Owners, OwnerStep(o) PROVE J!Next \/ UNCHANGED J!vars
  BY <1>2, OwnerSimulates DEF J!Next
<1>3. ASSUME NEW c \in Clients, ClientStep(c) PROVE J!Next \/ UNCHANGED J!vars
  <2>1. CASE (\E b \in Batches : WriteEvents(c, b)) \/ (\E t \in Targets : DeleteEvents(c, t))
    BY <2>1, CallBegins DEF J!Next
  <2>2. CASE \/ Reject(c) \/ BeginTxClosed(c) \/ MarshalFails(c) \/ InsertConflict(c)
             \/ Deadlock(c) \/ NetworkFails(c)
    <3>1. EndsWithout(c, "error") /\ connected' = connected
      BY <2>2, Ending
    <3> QED BY <3>1, CallFails DEF J!Next
  <2>3. CASE WriteNothing(c)
    BY <2>3, CallWritesNothing DEF J!Next
  <2>4. CASE Commit(c) \/ CommitUnanswered(c)
    <3>1. PICK r \in {"ok", "error"} : pc[c] = "commit" /\ CommitTx(c, r)
      BY <2>4 DEF Commit, CommitUnanswered
    <3>2. J!Store(c) \/ J!Delete(c)
      BY <3>1, CallStores, CallDeletes
    <3> QED BY <3>2 DEF J!Next
  <2>5. CASE BeginTx(c)
    BY <2>5 DEF BeginTx, txVars, poolVars, callVars, J!vars
  <2>6. CASE InsertRow(c) \/ DeleteRows(c)
    BY <2>6 DEF InsertRow, DeleteRows, poolVars, callVars, J!vars
  <2> QED BY <1>3, <2>1, <2>2, <2>3, <2>4, <2>5, <2>6 DEF ClientStep, ClientProgress
<1>4. CASE Crash
  BY <1>4 DEF Crash, PoolCrash, J!Crash, J!Next
<1> QED BY <1>1, <1>2, <1>3, <1>4 DEF Next

-------------------------------------------------------------------------------
\* Every state of the store is well typed: each row, committed or not, is stored
\* under its own key.
THEOREM TypeCorrect == Spec => []TypeOK
<1>1. IInv => TypeOK
  BY DEF IInv
<1> QED BY <1>1, InvStarts, InvInductive, PTL DEF Spec

\* Any number of concurrent callers see a journal: a WriteEvents stores all of its
\* batch at one moment or nothing, whatever the size of an INSERT, and the
\* transaction of a DeleteEvents that succeeds leaves nothing of what it covered
\* when it was called, whichever statements conflict, wait, fail or lose their
\* answer.
THEOREM ImplementsJournal == Spec => RefinesJournal
<1> QED BY InvStarts, InvInductive, ContractStarts, NextSimulates, PTL
        DEF Spec, RefinesJournal, J!Spec
==============================================================================
