--------------------------- MODULE PgSnapshotProofs ---------------------------
(***************************************************************************)
(* Proofs about PgSnapshotStore, for any set of clients and owners, any    *)
(* snapshots and ranges, any size of the pool and any number of statements *)
(* that go on without a client.                                            *)
(***************************************************************************)
EXTENDS PgSnapshotStore, TLAPS

-------------------------------------------------------------------------------
(* GuardedPool: what the mutex guards.                                     *)

\* What holds while the mutex is held as well: the flag is up as long as the pool is
\* not closed, the owner that closes it knows it as closing, and who is past the
\* load of the flag has a pool.
PoolInv ==
  /\ connected => pool \in Pools
  /\ \A c \in Clients : pc[c] = "acquire" => pool \in Pools
  /\ ConnectedIsOpen
  /\ \A o \in Owners :
       /\ pc[o] = "dial" => ~connected /\ (pool # None => status[pool] # "open")
       /\ pc[o] = "close" => connected /\ status[pool] = "closing"

LEMMA PoolInvImplies == PoolTypeOK /\ PoolInv => ConnectedIsOpen
  BY DEF PoolInv

\* A store that has just been made, or whose program has restarted.
LEMMA PoolStarts ==
  ASSUME pc = AllIdle, PoolInit
  PROVE  PoolTypeOK /\ PoolInv
  BY ProcsAssumption, NoProcAssumption
     DEF AllIdle, PoolInit, PoolTypeOK, PoolInv, ConnectedIsOpen, Procs

LEMMA PoolRestarts ==
  ASSUME pc' = AllIdle, PoolCrash
  PROVE  PoolTypeOK' /\ PoolInv'
  BY ProcsAssumption, NoProcAssumption
     DEF AllIdle, PoolCrash, PoolTypeOK, PoolInv, ConnectedIsOpen, Procs

LEMMA PoolOwner ==
  ASSUME PoolTypeOK, PoolInv, NEW o \in Owners, OwnerStep(o)
  PROVE  PoolTypeOK' /\ PoolInv' /\ UNCHANGED holds /\ \A c \in Clients : pc'[c] = pc[c]
<1> USE ProcsAssumption, NoProcAssumption, NoPoolAssumption
    DEF PoolTypeOK, PoolInv, ConnectedIsOpen, Procs, Goto, LockFree
<1>1. CASE Connect(o)
  BY <1>1 DEF Connect
<1>2. CASE Ping(o)
  BY <1>2 DEF Ping, poolVars
<1>3. CASE AlreadyConnected(o)
  BY <1>3 DEF AlreadyConnected, poolVars
<1>4. CASE ConnectStore(o)
  BY <1>4 DEF ConnectStore, Unlock
<1>5. CASE ConnectFails(o)
  BY <1>5 DEF ConnectFails, Unlock
<1>6. CASE Disconnect(o)
  BY <1>6 DEF Disconnect
<1>7. CASE DisconnectStore(o)
  BY <1>7 DEF DisconnectStore, Unlock
<1> QED BY <1>1, <1>2, <1>3, <1>4, <1>5, <1>6, <1>7 DEF OwnerStep

\* A step of a client touches neither the mutex nor the pool.
LEMMA PoolClient ==
  ASSUME PoolTypeOK, PoolInv, NEW c \in Clients,
         \/ IsConnected(c)
         \/ (NotConnected(c) \/ NoConnection(c)) /\ Goto(c, "idle")
         \/ Acquire(c)
         \/ Release(c) /\ Goto(c, "idle")
  PROVE  PoolTypeOK' /\ PoolInv' /\ UNCHANGED <<mu, connected, pool, status>>
<1> USE ProcsAssumption, NoProcAssumption, NoPoolAssumption
    DEF PoolTypeOK, PoolInv, ConnectedIsOpen, Procs, Goto
<1>1. CASE IsConnected(c)
  BY <1>1 DEF IsConnected, poolVars
<1>2. CASE (NotConnected(c) \/ NoConnection(c)) /\ Goto(c, "idle")
  BY <1>2 DEF NotConnected, NoConnection, poolVars
<1>3. CASE Acquire(c)
  BY <1>3 DEF Acquire
<1>4. CASE Release(c) /\ Goto(c, "idle")
  BY <1>4 DEF Release, GiveBack
<1> QED BY <1>1, <1>2, <1>3, <1>4

-------------------------------------------------------------------------------
(* The invariant of the store.                                             *)

IInv == TypeOK /\ PoolInv

Replies == {NoReply, Ok, Error} \cup {Found(s) : s \in Snapshots \cup {None}}

\* The rows that a statement has locked, if there is one.
LockedBy(s) == IF s = None THEN {} ELSE s.locked

LEMMA Fields ==
  ASSUME NEW s \in StatementType
  PROVE  s.call \in Requests /\ s.rows \in (SUBSET Keys) \cup {None} /\ s.locked \in SUBSET Keys
  BY DEF StatementType

LEMMA NewStatement ==
  ASSUME NEW q \in Requests
  PROVE  /\ Statement(q) \in StatementType /\ WellFormed(Statement(q))
         /\ Statement(q).call = q /\ Statement(q).rows = None /\ Statement(q).locked = {}
<1>1. Statement(q).call = q /\ Statement(q).rows = None /\ Statement(q).locked = {}
  BY DEF Statement
<1>2. Statement(q) \in StatementType
  BY DEF Statement, StatementType
<1> QED BY <1>1, <1>2 DEF WellFormed

LEMMA LocksApart ==
  ASSUME IInv
  PROVE  \A x, y \in Slots : x # y => LockedBy(stmt[x]) \cap LockedBy(stmt[y]) = {}
  BY DEF IInv, TypeOK, LockedByOther, LockedBy

LEMMA InvStarts == Init => IInv
<1> SUFFICES ASSUME Init PROVE IInv
  OBVIOUS
<1>1. PoolTypeOK /\ PoolInv
  BY PoolStarts DEF Init
<1>2. \A c \in Clients : pc[c] = "idle" /\ c \in Slots
  BY DEF Init, AllIdle, Procs, Slots
<1>3. TypeOK
  BY <1>1, <1>2 DEF TypeOK, Init, WellFormed, Runs, Slots
<1> QED BY <1>1, <1>3 DEF IInv

-------------------------------------------------------------------------------
(* The statements.                                                         *)

\* What the server runs stays in order through a step in which statements end, go
\* on for another slot or lose the rows that are removed.
StmtOK ==
  /\ rows \in [Keys -> Snapshots \cup {None}]
  /\ \A k \in Keys : rows[k] # None => KeyOf(rows[k]) = k
  /\ stmt \in [Slots -> StatementType \cup {None}]
  /\ \A x \in Slots : WellFormed(stmt[x])
  /\ \A l \in Lost : ~Runs(l, "get")
  /\ \A x \in Slots : stmt[x] # None => \A k \in stmt[x].locked : ~LockedByOther(x, k)

\* The calls of the clients, and the statements they wait for.
CallOK ==
  /\ call \in [Clients -> Requests \cup {None}]
  /\ \A c \in Clients : /\ pc[c] = "idle" <=> call[c] = None
                        /\ IF pc[c] = "exec" THEN stmt[c] # None /\ stmt[c].call = call[c]
                           ELSE stmt[c] = None
  /\ reply \in Replies

LEMMA Parts == TypeOK <=> PoolTypeOK /\ CallOK /\ StmtOK
  BY DEF TypeOK, CallOK, StmtOK, Replies

LEMMA WellFormedMonotone ==
  ASSUME NEW s \in StatementType, WellFormed(s),
         \A k \in Keys : rows[k] # None => rows'[k] # None
  PROVE  WellFormed(s)'
  BY NoRequestAssumption DEF WellFormed, Matching, StatementType

\* One statement ends and takes no row away.
LEMMA StatementEnds ==
  ASSUME IInv, NEW x \in Slots, stmt' = [stmt EXCEPT ![x] = None],
         rows' \in [Keys -> Snapshots \cup {None}],
         \A k \in Keys : rows'[k] # None => KeyOf(rows'[k]) = k,
         \A k \in Keys : rows[k] # None => rows'[k] # None
  PROVE  StmtOK'
<1>1. /\ stmt' \in [Slots -> StatementType \cup {None}]
      /\ stmt'[x] = None /\ \A y \in Slots \ {x} : stmt'[y] = stmt[y]
  BY DEF IInv, TypeOK
<1>2. \A y \in Slots : WellFormed(stmt[y])'
  BY <1>1, WellFormedMonotone DEF IInv, TypeOK, WellFormed
<1>3. \A l \in Lost : ~Runs(l, "get")'
  BY <1>1 DEF IInv, TypeOK, Runs, Slots
<1>4. \A y \in Slots : stmt'[y] # None => \A k \in stmt'[y].locked : ~LockedByOther(y, k)'
  BY <1>1 DEF IInv, TypeOK, LockedByOther
<1> QED BY <1>1, <1>2, <1>3, <1>4 DEF StmtOK

\* The statement of one slot is another, and locks no row but those that nobody has.
LEMMA StatementMoves ==
  ASSUME IInv, NEW x \in Slots, UNCHANGED rows,
         NEW s \in StatementType, stmt' = [stmt EXCEPT ![x] = s], WellFormed(s),
         x \in Lost => s.call.op # "get",
         \A k \in s.locked : \A y \in Slots \ {x} : stmt[y] # None => k \notin stmt[y].locked
  PROVE  StmtOK'
<1>1. /\ stmt' \in [Slots -> StatementType \cup {None}]
      /\ stmt'[x] = s /\ \A y \in Slots \ {x} : stmt'[y] = stmt[y]
  BY DEF IInv, TypeOK
<1>2. \A y \in Slots : WellFormed(stmt[y])'
  BY <1>1, WellFormedMonotone DEF IInv, TypeOK, WellFormed
<1>3. \A l \in Lost : ~Runs(l, "get")'
  BY <1>1 DEF IInv, TypeOK, Runs, Slots
<1>4. \A y \in Slots : stmt'[y] # None => \A k \in stmt'[y].locked : ~LockedByOther(y, k)'
  BY <1>1 DEF IInv, TypeOK, LockedByOther
<1>5. UNCHANGED rows /\ rows \in [Keys -> Snapshots \cup {None}]
      /\ \A k \in Keys : rows[k] # None => KeyOf(rows[k]) = k
  BY DEF IInv, TypeOK
<1> QED BY <1>1, <1>2, <1>3, <1>4, <1>5 DEF StmtOK

\* A call returns, and the statements of the others stay with their calls.
LEMMA ClientReturns ==
  ASSUME IInv, NEW c \in Clients, NEW r \in Replies, Return(c, r),
         stmt'[c] = None,
         \A d \in Clients \ {c} : /\ stmt'[d] = None <=> stmt[d] = None
                                  /\ stmt[d] # None => stmt'[d].call = stmt[d].call
  PROVE  CallOK'
<1>1. /\ call' \in [Clients -> Requests \cup {None}]
      /\ call'[c] = None /\ \A d \in Clients \ {c} : call'[d] = call[d]
      /\ pc'[c] = "idle" /\ \A d \in Clients \ {c} : pc'[d] = pc[d]
      /\ reply' = r
  BY DEF IInv, TypeOK, PoolTypeOK, Procs, Return, Goto
<1> QED BY <1>1 DEF CallOK, IInv, TypeOK

LEMMA DoneOK ==
  ASSUME IInv, NEW x \in Slots, NEW r \in Replies, Done(x, r),
         stmt'[x] = None,
         \A y \in Slots \ {x} : /\ stmt'[y] = None <=> stmt[y] = None
                                /\ stmt[y] # None => stmt'[y].call = stmt[y].call
  PROVE  PoolTypeOK' /\ PoolInv' /\ CallOK'
<1>1. CASE x \in Clients /\ Release(x) /\ Return(x, r)
  <2>1. PoolTypeOK' /\ PoolInv'
    BY <1>1, PoolClient DEF IInv, TypeOK, Return
  <2> QED BY <1>1, <2>1, ClientReturns DEF Slots
<1>2. CASE x \in Lost /\ UNCHANGED <<pc, poolVars, call, reply>>
  <2>1. PoolTypeOK' /\ PoolInv'
    BY <1>2 DEF IInv, TypeOK, PoolTypeOK, PoolInv, ConnectedIsOpen, poolVars
  <2>2. \A c \in Clients : c \in Slots \ {x}
    BY <1>2, LostAssumption DEF Slots
  <2> QED BY <1>2, <2>1, <2>2 DEF IInv, TypeOK, CallOK, Replies
<1> QED BY <1>1, <1>2 DEF Done

\* The client stays where it is, or goes on to a statement for its call.
LEMMA InvOwner ==
  ASSUME IInv, NEW o \in Owners, Owner(o)
  PROVE  IInv'
<1>1. PoolTypeOK' /\ PoolInv' /\ \A c \in Clients : pc'[c] = pc[c]
  BY PoolOwner DEF IInv, TypeOK, Owner
<1>2. UNCHANGED <<rows, call, reply, stmt>>
  BY DEF Owner, snapVars
<1>3. CallOK' /\ StmtOK'
  BY <1>1, <1>2
     DEF IInv, TypeOK, CallOK, StmtOK, WellFormed, Matching, Runs, LockedByOther,
         Replies
<1> QED BY <1>1, <1>3, Parts DEF IInv, TypeOK, CallOK, StmtOK, Replies

LEMMA InvClient ==
  ASSUME IInv, NEW c \in Clients, Client(c)
  PROVE  IInv'
<1> SUFFICES PoolTypeOK' /\ PoolInv' /\ CallOK' /\ StmtOK'
  BY DEF IInv, TypeOK, CallOK, StmtOK, Replies
<1>0. c \in Slots /\ pc[c] \in {"idle", "acquire", "exec"} /\ c \in Procs /\ c \notin Lost
  BY LostAssumption DEF Slots, Procs, IInv, TypeOK, PoolTypeOK
<1>1. CASE Begin(c)
  <2>1. PoolTypeOK' /\ PoolInv'
    BY <1>1, PoolClient DEF IInv, TypeOK, Begin
  <2>2. /\ UNCHANGED <<rows, stmt>> /\ reply' = NoReply
        /\ pc[c] = "idle" /\ pc'[c] = "acquire" /\ \A d \in Clients \ {c} : pc'[d] = pc[d]
    BY <1>0, <1>1 DEF Begin, IsConnected, Goto, IInv, TypeOK, PoolTypeOK
  <2>3. PICK q \in Requests : call' = [call EXCEPT ![c] = q]
    BY <1>1 DEF Begin
  <2>4. CallOK'
    BY <2>2, <2>3, NoRequestAssumption DEF IInv, TypeOK, CallOK, Replies
  <2>5. StmtOK'
    BY <2>2 DEF IInv, TypeOK, StmtOK, WellFormed, Matching, Runs, LockedByOther
  <2> QED BY <2>1, <2>4, <2>5
<1>2. CASE AcquireFails(c)
  <2>1. PoolTypeOK' /\ PoolInv'
    BY <1>2, PoolClient DEF IInv, TypeOK, AcquireFails, Return
  <2>2. UNCHANGED <<rows, stmt>> /\ Return(c, Error) /\ stmt[c] = None
    BY <1>2 DEF AcquireFails, NoConnection, IInv, TypeOK
  <2>3. CallOK'
    BY <2>2, ClientReturns DEF Replies
  <2>4. StmtOK'
    BY <2>2 DEF IInv, TypeOK, StmtOK, WellFormed, Matching, Runs, LockedByOther
  <2> QED BY <2>1, <2>3, <2>4
<1>3. CASE AcquireConn(c)
  <2>1. PoolTypeOK' /\ PoolInv'
    BY <1>3, PoolClient DEF IInv, TypeOK, AcquireConn
  <2>2. /\ UNCHANGED <<rows, call, reply>> /\ stmt' = [stmt EXCEPT ![c] = Statement(call[c])]
        /\ pc[c] = "acquire" /\ pc'[c] = "exec" /\ \A d \in Clients \ {c} : pc'[d] = pc[d]
    BY <1>0, <1>3 DEF AcquireConn, Acquire, Goto, IInv, TypeOK, PoolTypeOK
  <2>3. Statement(call[c]) \in StatementType /\ WellFormed(Statement(call[c]))
        /\ Statement(call[c]).locked = {} /\ Statement(call[c]).call = call[c]
    <3>1. call[c] \in Requests
      BY <2>2 DEF IInv, TypeOK
    <3> QED BY <3>1, NewStatement
  <2>4. CallOK'
    BY <1>0, <2>2, <2>3, NoRequestAssumption DEF IInv, TypeOK, CallOK, Slots, Replies
  <2>5. StmtOK'
    BY <1>0, <2>2, <2>3, StatementMoves
  <2> QED BY <2>1, <2>4, <2>5
<1>4. CASE NetworkFails(c)
  <2>1. PoolTypeOK' /\ PoolInv'
    BY <1>4, PoolClient DEF IInv, TypeOK, NetworkFails, Return
  <2>2. PICK l \in Lost : /\ stmt[l] = None
                          /\ stmt' = [stmt EXCEPT ![c] = None, ![l] = stmt[c]]
    BY <1>4 DEF NetworkFails
  <2>3. /\ UNCHANGED rows /\ Return(c, Error) /\ pc[c] = "exec" /\ stmt[c] # None
        /\ l \in Slots /\ l \notin Clients /\ stmt[c] \in StatementType
    BY <1>0, <1>4, LostAssumption
       DEF NetworkFails, Release, GiveBack, IInv, TypeOK, Slots
  <2>4. /\ stmt' \in [Slots -> StatementType \cup {None}]
        /\ stmt'[c] = None /\ stmt'[l] = stmt[c]
        /\ \A y \in Slots \ {c, l} : stmt'[y] = stmt[y]
    BY <1>0, <2>2, <2>3 DEF IInv, TypeOK
  <2>5. CallOK'
    BY <2>3, <2>4, ClientReturns DEF Slots, Replies
  <2>6. StmtOK'
    <3>1. \A y \in Slots : WellFormed(stmt[y])'
      BY <1>0, <2>2, <2>3, <2>4 DEF IInv, TypeOK, WellFormed, Matching
    <3>2. \A m \in Lost : ~Runs(m, "get")'
      BY <1>0, <1>4, <2>3, <2>4 DEF IInv, TypeOK, NetworkFails, Runs, Slots
    <3>3. \A y \in Slots : stmt'[y] # None => \A k \in stmt'[y].locked : ~LockedByOther(y, k)'
      BY <1>0, <2>2, <2>3, <2>4 DEF IInv, TypeOK, LockedByOther
    <3> QED BY <2>3, <2>4, <3>1, <3>2, <3>3 DEF IInv, TypeOK, StmtOK
  <2> QED BY <2>1, <2>5, <2>6
<1> QED BY <1>1, <1>2, <1>3, <1>4 DEF Client

\* A delete that commits ends, and takes its rows from the table and from those
\* that began before.
LEMMA CommitShows ==
  ASSUME IInv, NEW x \in Slots, DeleteCommit(x)
  PROVE  LET K == stmt[x].rows
         IN /\ rows' = [k \in Keys |-> IF k \in K THEN None ELSE rows[k]]
            /\ stmt[x] # None /\ K = stmt[x].locked /\ K \in SUBSET Keys /\ K # None
            /\ stmt[x].call.op = "delete" /\ K \subseteq Matching(stmt[x].call)
            /\ stmt' \in [Slots -> StatementType \cup {None}]
            /\ stmt'[x] = None
            /\ \A y \in Slots \ {x} :
                 /\ stmt'[y] = None <=> stmt[y] = None
                 /\ stmt[y] # None => /\ stmt'[y].call = stmt[y].call
                                      /\ stmt'[y].locked = stmt[y].locked
                                      /\ stmt'[y].rows = IF stmt[y].rows = None THEN None
                                                         ELSE stmt[y].rows \ K
<1> DEFINE K == stmt[x].rows
<1>1. /\ rows' = [k \in Keys |-> IF k \in K THEN None ELSE rows[k]]
      /\ stmt' = [y \in Slots |-> IF y = x THEN None ELSE Removed(K, stmt[y])]
      /\ stmt[x] # None /\ stmt[x].call.op = "delete" /\ K = stmt[x].locked /\ stmt[x].locked \in SUBSET Keys
  BY DEF DeleteCommit, Runs, IInv, TypeOK, StatementType
<1>2. ASSUME NEW y \in Slots \ {x}
      PROVE  /\ stmt'[y] = Removed(K, stmt[y])
             /\ stmt'[y] = None <=> stmt[y] = None
             /\ stmt'[y] \in StatementType \cup {None}
             /\ stmt[y] # None => /\ stmt'[y].call = stmt[y].call
                                  /\ stmt'[y].locked = stmt[y].locked
                                  /\ stmt'[y].rows = IF stmt[y].rows = None THEN None
                                                     ELSE stmt[y].rows \ K
  <2>1. stmt'[y] = Removed(K, stmt[y])
    BY <1>1
  <2>2. CASE stmt[y] = None
    BY <2>1, <2>2 DEF Removed
  <2>3. CASE stmt[y] # None
    <3>1. stmt[y] \in StatementType
      BY <2>3 DEF IInv, TypeOK
    <3>2. CASE stmt[y].rows = None
      BY <2>1, <2>3, <3>1, <3>2 DEF Removed
    <3>3. CASE stmt[y].rows # None
      <4>1. stmt'[y] = [stmt[y] EXCEPT !.rows = @ \ K]
        BY <2>1, <2>3, <3>3 DEF Removed
      <4>2. stmt[y].rows \in SUBSET Keys
        BY <3>1, <3>3, Fields
      <4>3. stmt'[y] \in StatementType
        BY <3>1, <4>1, <4>2 DEF StatementType
      <4> QED BY <2>1, <2>3, <3>1, <3>3, <4>1, <4>3, NoRequestAssumption
                 DEF StatementType
    <3> QED BY <3>2, <3>3
  <2> QED BY <2>2, <2>3
<1>3. stmt'[x] = None /\ stmt' \in [Slots -> StatementType \cup {None}]
  BY <1>1, <1>2
<1>4. K # None /\ K \subseteq Matching(stmt[x].call)
  BY <1>1, NoKeysAssumption DEF IInv, TypeOK, WellFormed
<1> QED BY <1>1, <1>2, <1>3, <1>4

LEMMA InvStatement ==
  ASSUME IInv, NEW x \in Slots, Statements(x)
  PROVE  IInv'
<1> SUFFICES PoolTypeOK' /\ PoolInv' /\ CallOK' /\ StmtOK'
  BY DEF IInv, TypeOK, CallOK, StmtOK, Replies
<1>1. CASE Upsert(x)
  <2> DEFINE s == stmt[x].call.snapshot
  <2>1. s \in Snapshots /\ KeyOf(s) \in Keys
    BY <1>1 DEF Upsert, Runs, IInv, TypeOK, StatementType, Requests, Keys
  <2>2. /\ rows' \in [Keys -> Snapshots \cup {None}]
        /\ \A k \in Keys : rows'[k] # None => KeyOf(rows'[k]) = k
        /\ \A k \in Keys : rows[k] # None => rows'[k] # None
    BY <1>1, <2>1, NoSnapshotAssumption DEF Upsert, Upserted, IInv, TypeOK
  <2>3. stmt' = [stmt EXCEPT ![x] = None] /\ \E r \in Replies : Done(x, r)
    BY <1>1 DEF Upsert, Replies
  <2>4. stmt'[x] = None /\ \A y \in Slots \ {x} : stmt'[y] = stmt[y]
    BY <2>3 DEF IInv, TypeOK
  <2>5. PoolTypeOK' /\ PoolInv' /\ CallOK'
    BY <2>3, <2>4, DoneOK
  <2>6. StmtOK'
    BY <2>2, <2>3, StatementEnds
  <2> QED BY <2>5, <2>6
<1>2. CASE Select(x) \/ Abort(x)
  <2>1. PICK r \in Replies : Done(x, r)
    <3>1. CASE Abort(x)
      BY <3>1 DEF Abort, Replies
    <3>2. CASE Select(x)
      <4>1. PICK s \in LatestRow(stmt[x].call.id) : Done(x, Answer(s))
        BY <3>2 DEF Select
      <4>2. s \in Snapshots \cup {None}
        BY DEF LatestRow, StoredKeys, IInv, TypeOK
      <4>3. Answer(s) \in Replies
        BY <4>2 DEF Answer, Replies
      <4> QED BY <4>1, <4>3
    <3> QED BY <1>2, <3>1, <3>2
  <2>2. stmt' = [stmt EXCEPT ![x] = None] /\ UNCHANGED rows
    BY <1>2 DEF Select, Abort
  <2>3. stmt'[x] = None /\ \A y \in Slots \ {x} : stmt'[y] = stmt[y]
    BY <2>2 DEF IInv, TypeOK
  <2>4. PoolTypeOK' /\ PoolInv' /\ CallOK'
    BY <2>1, <2>3, DoneOK
  <2>5. StmtOK'
    BY <2>2, StatementEnds DEF IInv, TypeOK
  <2> QED BY <2>4, <2>5
<1>3. CASE DeleteBegin(x) \/ DeleteLock(x)
  <2>1. /\ stmt[x] \in StatementType /\ stmt[x].call.op = "delete"
        /\ UNCHANGED <<pc, poolVars, rows, call, reply>>
    BY <1>3 DEF DeleteBegin, DeleteLock, Runs, IInv, TypeOK
  <2>2. PICK s \in StatementType :
          /\ stmt' = [stmt EXCEPT ![x] = s]
          /\ s.call = stmt[x].call /\ WellFormed(s)
          /\ \A k \in s.locked : \A y \in Slots \ {x} : stmt[y] # None => k \notin stmt[y].locked
    <3>1. CASE DeleteBegin(x)
      <4> DEFINE s == [stmt[x] EXCEPT !.rows = Matching(stmt[x].call)]
      <4>1. Matching(stmt[x].call) \in SUBSET Keys /\ stmt[x].locked = {}
        BY <3>1, <2>1, NoRequestAssumption
           DEF DeleteBegin, Matching, IInv, TypeOK, WellFormed
      <4>2. s \in StatementType /\ s.call = stmt[x].call /\ s.locked = {}
            /\ s.rows = Matching(stmt[x].call)
        BY <2>1, <4>1 DEF StatementType
      <4>3. stmt' = [stmt EXCEPT ![x] = s]
        BY <3>1 DEF DeleteBegin, IInv, TypeOK
      <4> QED BY <2>1, <4>2, <4>3 DEF WellFormed
    <3>2. CASE DeleteLock(x)
      <4>1. PICK k \in stmt[x].rows \ stmt[x].locked :
              /\ ~LockedByOther(x, k)
              /\ stmt' = [stmt EXCEPT ![x].locked = @ \cup {k}]
        BY <3>2 DEF DeleteLock
      <4> DEFINE s == [stmt[x] EXCEPT !.locked = @ \cup {k}]
      <4>2. /\ stmt[x] # None /\ stmt[x].rows # None /\ k \in stmt[x].rows
            /\ stmt[x].locked \subseteq stmt[x].rows /\ stmt[x].rows \subseteq Matching(stmt[x].call)
        BY <3>2 DEF DeleteLock, Runs, IInv, TypeOK, WellFormed
      <4>3. k \in Keys
        BY <4>2 DEF Matching
      <4>4. s \in StatementType /\ s.call = stmt[x].call /\ s.rows = stmt[x].rows
            /\ s.locked = stmt[x].locked \cup {k}
        BY <2>1, <4>3 DEF StatementType
      <4>5. WellFormed(s)
        BY <2>1, <4>2, <4>4 DEF WellFormed
      <4>6. stmt' = [stmt EXCEPT ![x] = s]
        BY <4>1 DEF IInv, TypeOK
      <4>7. \A i \in s.locked : \A y \in Slots \ {x} : stmt[y] # None => i \notin stmt[y].locked
        BY <4>1, <4>2, <4>4 DEF LockedByOther, IInv, TypeOK
      <4> QED BY <4>4, <4>5, <4>6, <4>7
    <3> QED BY <1>3, <3>1, <3>2
  <2>3. StmtOK'
    BY <2>1, <2>2, StatementMoves
  <2>4. /\ stmt'[x] # None /\ stmt'[x].call = stmt[x].call /\ stmt[x] # None
        /\ \A y \in Slots \ {x} : stmt'[y] = stmt[y]
    BY <2>1, <2>2, NoRequestAssumption DEF IInv, TypeOK
  <2>5. CallOK'
    BY <2>1, <2>4 DEF IInv, TypeOK, CallOK, Slots, Replies
  <2> QED BY <2>1, <2>3, <2>5
             DEF IInv, TypeOK, PoolTypeOK, PoolInv, ConnectedIsOpen, poolVars
<1>4. CASE DeleteCommit(x)
  <2> DEFINE K == stmt[x].rows
  <2>1. /\ rows' = [k \in Keys |-> IF k \in K THEN None ELSE rows[k]]
        /\ stmt[x] # None /\ K = stmt[x].locked /\ \E r \in Replies : Done(x, r)
    BY <1>4, CommitShows DEF DeleteCommit, Replies
  <2>2. ASSUME NEW y \in Slots \ {x}
        PROVE  /\ stmt'[y] = None <=> stmt[y] = None
               /\ stmt[y] # None => /\ stmt'[y].call = stmt[y].call
                                    /\ stmt'[y].locked = stmt[y].locked
                                    /\ stmt'[y].rows = IF stmt[y].rows = None THEN None
                                                       ELSE stmt[y].rows \ K
    BY <1>4, CommitShows
  <2>3. stmt'[x] = None
    BY <1>4, CommitShows
  <2>4. PoolTypeOK' /\ PoolInv' /\ CallOK'
    BY <2>1, <2>2, <2>3, DoneOK
  <2>5. \A y \in Slots : WellFormed(stmt[y])'
    <3>1. ASSUME NEW y \in Slots \ {x}, stmt[y] # None PROVE WellFormed(stmt[y])'
      <4>1. CASE stmt[y].rows = None
        BY <2>2, <3>1, <4>1 DEF WellFormed, IInv, TypeOK
      <4>2. CASE stmt[y].rows # None
        <5>1. stmt[y].locked \cap K = {}
          BY <2>1, <3>1, LocksApart DEF LockedBy
        <5>2. /\ stmt[y].call.op = "delete" /\ stmt[y].locked \subseteq stmt[y].rows
              /\ stmt[y].rows \subseteq Matching(stmt[y].call)
          BY <3>1, <4>2 DEF WellFormed, IInv, TypeOK
        <5>3. stmt'[y].call = stmt[y].call /\ stmt'[y].locked = stmt[y].locked
              /\ stmt'[y].rows = stmt[y].rows \ K
          BY <2>2, <3>1, <4>2
        <5>4. stmt'[y].rows \subseteq Matching(stmt[y].call)'
          BY <2>1, <5>2, <5>3 DEF Matching
        <5>5. stmt'[y].rows # None
          BY <5>3, <5>4, NoKeysAssumption DEF Matching
        <5> QED BY <5>1, <5>2, <5>3, <5>4, <5>5 DEF WellFormed
      <4> QED BY <4>1, <4>2
    <3> QED BY <2>2, <2>3, <3>1 DEF WellFormed
  <2>6. \A l \in Lost : ~Runs(l, "get")'
    BY <2>2, <2>3 DEF IInv, TypeOK, Runs, Slots
  <2>7. \A y \in Slots : stmt'[y] # None => \A k \in stmt'[y].locked : ~LockedByOther(y, k)'
    BY <2>2, <2>3 DEF IInv, TypeOK, LockedByOther
  <2>8. /\ rows' \in [Keys -> Snapshots \cup {None}]
        /\ \A k \in Keys : rows'[k] # None => KeyOf(rows'[k]) = k
    BY <2>1 DEF IInv, TypeOK
  <2>9. stmt' \in [Slots -> StatementType \cup {None}]
    BY <1>4, CommitShows
  <2> QED BY <2>4, <2>5, <2>6, <2>7, <2>8, <2>9 DEF StmtOK
<1> QED BY <1>1, <1>2, <1>3, <1>4 DEF Statements

LEMMA InvCrash ==
  ASSUME IInv, Crash
  PROVE  IInv'
<1> SUFFICES PoolTypeOK' /\ PoolInv' /\ CallOK' /\ StmtOK'
  BY DEF IInv, TypeOK, CallOK, StmtOK, Replies
<1>1. PoolTypeOK' /\ PoolInv'
  BY PoolRestarts DEF Crash
<1>2. PICK from \in [Lost -> Slots] :
        /\ \A l, m \in Lost : from[l] = from[m] => l = m
        /\ \A l \in Lost : ~Runs(from[l], "get")
        /\ stmt' = [x \in Slots |-> IF x \in Lost THEN stmt[from[x]] ELSE None]
  BY DEF Crash
<1>3. \A x \in Slots : stmt'[x] = IF x \in Lost THEN stmt[from[x]] ELSE None
  BY <1>2
<1>4. CallOK'
  <2>1. \A c \in Clients : stmt'[c] = None /\ pc'[c] = "idle"
    BY <1>3, LostAssumption DEF Crash, AllIdle, Procs, Slots
  <2> QED BY <2>1 DEF Crash, CallOK, Replies
<1>5. UNCHANGED rows
  BY DEF Crash
<1>6. stmt' \in [Slots -> StatementType \cup {None}]
  BY <1>2 DEF IInv, TypeOK
<1>7. \A x \in Slots : WellFormed(stmt[x])'
  BY <1>2, <1>3, <1>5 DEF IInv, TypeOK, WellFormed, Matching
<1>8. \A l \in Lost : ~Runs(l, "get")'
  BY <1>2, <1>3 DEF Runs, Slots
<1>9. \A x \in Slots : stmt'[x] # None => \A k \in stmt'[x].locked : ~LockedByOther(x, k)'
  <2>1. ASSUME NEW x \in Slots, NEW y \in Slots \ {x}, stmt'[x] # None, stmt'[y] # None,
               NEW k \in stmt'[x].locked, k \in stmt'[y].locked
        PROVE  FALSE
    <3>1. /\ x \in Lost /\ y \in Lost /\ from[x] \in Slots /\ from[y] \in Slots /\ from[x] # from[y]
          /\ stmt'[x] = stmt[from[x]] /\ stmt'[y] = stmt[from[y]]
      BY <1>2, <1>3, <2>1
    <3> QED BY <2>1, <3>1 DEF IInv, TypeOK, LockedByOther
  <2> QED BY <2>1 DEF LockedByOther
<1> QED BY <1>1, <1>4, <1>5, <1>6, <1>7, <1>8, <1>9 DEF IInv, TypeOK, StmtOK

LEMMA InvInductive == IInv /\ [Next]_vars => IInv'
<1> SUFFICES ASSUME IInv, [Next]_vars PROVE IInv'
  OBVIOUS
<1>1. CASE UNCHANGED vars
  <2>1. PoolTypeOK' /\ PoolInv'
    BY <1>1 DEF vars, poolVars, IInv, TypeOK, PoolTypeOK, PoolInv, ConnectedIsOpen
  <2>2. CallOK' /\ StmtOK'
    BY <1>1
       DEF vars, snapVars, IInv, TypeOK, CallOK, StmtOK, WellFormed, Matching, Runs,
           LockedByOther, Replies
  <2> QED BY <2>1, <2>2, Parts DEF IInv, TypeOK, CallOK, StmtOK, Replies
<1> QED BY <1>1, InvOwner, InvClient, InvStatement, InvCrash DEF Next

\* Every statement of the server is well formed, whoever waits for it.
THEOREM TypeCorrect == Spec => []TypeOK
<1>1. IInv => TypeOK
  BY DEF IInv
<1> QED BY <1>1, InvStarts, InvInductive, PTL DEF Spec

\* The mutex guards the flag and the pool of the store here as well, whatever
\* connects fail and leave pools open that nothing refers to.
THEOREM ConnectionGuarded == Spec => []ConnectedIsOpen
<1>1. IInv => ConnectedIsOpen
  BY PoolInvImplies DEF IInv, TypeOK
<1> QED BY <1>1, InvStarts, InvInductive, PTL DEF Spec

-------------------------------------------------------------------------------
(* The contract.                                                           *)

\* What a delete of a client has seen, and what others may have asked for.
Seen == [c \in Clients |-> IF stmt[c] = None THEN None ELSE stmt[c].rows]

Doubt == {stmt[l].call : l \in {l \in Lost : stmt[l] # None}}

LEMMA ContractStarts == Init => Contract!Init
<1> SUFFICES ASSUME Init PROVE Contract!Init
  OBVIOUS
<1>1. \A x \in Slots : stmt[x] = None
  BY DEF Init
<1>2. Doubt = {} /\ Seen = [c \in Clients |-> None]
  BY <1>1 DEF Doubt, Seen, Slots
<1> QED BY <1>2
           DEF Init, Contract!Init, Contract!Keys, Contract!KeyOf, Keys, KeyOf, Doubt,
               Seen, NoReply, Contract!NoReply

\* Two ways of saying it of the snapshots.
LEMMA SameTerms ==
  /\ Contract!Keys = Keys
  /\ \A q : Contract!Covered(q, rows) = Matching(q)
  /\ \A id : Contract!Latest(id, rows) = LatestRow(id)
  /\ Contract!NoReply = NoReply /\ Contract!Ok = Ok /\ Contract!Error = Error
  /\ \A s : Contract!Found(s) = Found(s)
  BY
     DEF Contract!Keys, Contract!KeyOf, Contract!Covered, Contract!Latest, Keys, KeyOf,
         Matching, LatestRow, StoredKeys, NoReply, Contract!NoReply, Ok, Contract!Ok,
         Error, Contract!Error, Found, Contract!Found

SeenBy(c) == IF stmt[c] = None THEN None ELSE stmt[c].rows

\* What a step shows of the statements.
LEMMA SeenKept ==
  ASSUME \A c \in Clients : SeenBy(c)' = SeenBy(c)
  PROVE  Seen' = Seen
  BY DEF Seen, SeenBy

LEMMA SeenOne ==
  ASSUME NEW c \in Clients, \A d \in Clients \ {c} : SeenBy(d)' = SeenBy(d)
  PROVE  Seen' = [Seen EXCEPT ![c] = SeenBy(c)']
  BY DEF Seen, SeenBy

LEMMA DoubtKept ==
  ASSUME \A l \in Lost : /\ stmt'[l] = None <=> stmt[l] = None
                         /\ stmt[l] # None => stmt'[l].call = stmt[l].call
  PROVE  Doubt' = Doubt
  BY DEF Doubt

LEMMA DoubtFewer ==
  ASSUME \A l \in Lost : stmt'[l] # None => stmt[l] # None /\ stmt'[l].call = stmt[l].call
  PROVE  Doubt' \in SUBSET Doubt
  BY DEF Doubt

LEMMA Stutters ==
  ASSUME UNCHANGED <<rows, call, reply>>, Seen' = Seen, Doubt' = Doubt
  PROVE  UNCHANGED Contract!vars
  BY DEF Contract!vars, Seen, Doubt

\* A call that ends without an answer.
LEMMA ContractFails ==
  ASSUME IInv, NEW c \in Clients, call[c] # None, Return(c, Error), UNCHANGED rows,
         stmt'[c] = None, \A d \in Clients \ {c} : stmt'[d] = stmt[d],
         Doubt' \in {Doubt, Doubt \cup {call[c]}}
  PROVE  Contract!Next
<1>1. Seen' = [Seen EXCEPT ![c] = None]
  BY SeenOne DEF SeenBy
<1>2. Contract!Fail(c)
  BY <1>1, SameTerms DEF Contract!Fail, Contract!Return, Return, Seen, Doubt
<1> QED BY <1>2 DEF Contract!Next

LEMMA ClientSimulates ==
  ASSUME IInv, NEW c \in Clients, Client(c)
  PROVE  Contract!Next \/ UNCHANGED Contract!vars
<1>0. c \in Slots /\ c \notin Lost
  BY LostAssumption DEF Slots
<1>1. CASE Begin(c)
  <2>1. call[c] = None /\ UNCHANGED <<rows, stmt>> /\ reply' = NoReply
        /\ \E q \in Requests : call' = [call EXCEPT ![c] = q]
    BY <1>1 DEF Begin, IsConnected, IInv, TypeOK
  <2>2. Seen' = Seen /\ Doubt' = Doubt
    BY <2>1 DEF Seen, Doubt
  <2>3. Contract!Begin(c)
    BY <2>1, <2>2, SameTerms DEF Contract!Begin, Seen, Doubt
  <2> QED BY <2>3 DEF Contract!Next
<1>2. CASE AcquireFails(c)
  <2>1. /\ call[c] # None /\ Return(c, Error) /\ UNCHANGED <<rows, stmt>>
        /\ stmt[c] = None
    BY <1>2 DEF AcquireFails, NoConnection, IInv, TypeOK
  <2>2. Doubt' = Doubt
    BY <2>1 DEF Doubt
  <2> QED BY <2>1, <2>2, ContractFails
<1>3. CASE AcquireConn(c)
  <2>1. /\ UNCHANGED <<rows, call, reply>> /\ call[c] \in Requests /\ stmt[c] = None
        /\ stmt'[c] = Statement(call[c]) /\ \A y \in Slots \ {c} : stmt'[y] = stmt[y]
    BY <1>0, <1>3 DEF AcquireConn, Acquire, IInv, TypeOK
  <2>2. SeenBy(c)' = None
    BY <2>1, NewStatement DEF SeenBy
  <2>3. Seen' = Seen /\ Doubt' = Doubt
    BY <1>0, <2>1, <2>2, SeenKept, DoubtKept DEF SeenBy, Slots
  <2> QED BY <2>1, <2>3, Stutters
<1>4. CASE NetworkFails(c)
  <2>1. PICK l \in Lost : /\ stmt[l] = None
                          /\ stmt' = [stmt EXCEPT ![c] = None, ![l] = stmt[c]]
    BY <1>4 DEF NetworkFails
  <2>2. /\ UNCHANGED rows /\ Return(c, Error) /\ call[c] # None
        /\ stmt[c] # None /\ stmt[c].call = call[c] /\ l \notin Clients /\ l \in Slots
    BY <1>0, <1>4, LostAssumption
       DEF NetworkFails, Release, GiveBack, IInv, TypeOK, Slots
  <2>3. /\ stmt'[c] = None /\ stmt'[l] = stmt[c]
        /\ \A y \in Slots \ {c, l} : stmt'[y] = stmt[y]
    BY <1>0, <2>1, <2>2 DEF IInv, TypeOK
  <2>4. Doubt' = Doubt \cup {call[c]}
    <3>1. \A m \in Lost \ {l} : stmt'[m] = stmt[m]
      BY <1>0, <2>3 DEF Slots
    <3>2. Doubt' \subseteq Doubt \cup {call[c]}
      BY <2>2, <2>3, <3>1 DEF Doubt
    <3>3. call[c] \in Doubt'
      BY <2>2, <2>3 DEF Doubt
    <3>4. ASSUME NEW q \in Doubt PROVE q \in Doubt'
      <4>1. PICK m \in Lost : stmt[m] # None /\ q = stmt[m].call
        BY DEF Doubt
      <4>2. stmt'[m] # None /\ q = stmt'[m].call
        BY <2>1, <3>1, <4>1
      <4> QED BY <4>2 DEF Doubt
    <3> QED BY <3>2, <3>3, <3>4
  <2> QED BY <2>2, <2>3, <2>4, ContractFails DEF Slots
<1> QED BY <1>1, <1>2, <1>3, <1>4 DEF Client

LEMMA CrashSimulates ==
  ASSUME IInv, Crash
  PROVE  Contract!Next
<1>1. PICK from \in [Lost -> Slots] :
        stmt' = [x \in Slots |-> IF x \in Lost THEN stmt[from[x]] ELSE None]
  BY DEF Crash
<1>2. \A x \in Slots : stmt'[x] = IF x \in Lost THEN stmt[from[x]] ELSE None
  BY <1>1
<1>3. Seen' = [c \in Clients |-> None]
  BY <1>2, LostAssumption DEF Seen, Slots
<1>4. Doubt' \in SUBSET (Doubt \cup {call[c] : c \in Clients})
  <2>1. ASSUME NEW l \in Lost, stmt'[l] # None
        PROVE  stmt'[l].call \in Doubt \cup {call[c] : c \in Clients}
    <3>1. stmt'[l] = stmt[from[l]] /\ from[l] \in Clients \cup Lost
      BY <1>2, <2>1 DEF Slots
    <3> QED BY <2>1, <3>1 DEF Doubt, IInv, TypeOK
  <2> QED BY <2>1 DEF Doubt
<1>5. Contract!Crash
  BY <1>3, <1>4, SameTerms DEF Crash, Contract!Crash, Seen, Doubt
<1> QED BY <1>5 DEF Contract!Next

\* A statement runs with a client that waits, or with none that does.
LEMMA DoneFor ==
  ASSUME IInv, NEW x \in Slots, NEW r, Done(x, r), stmt[x] # None
  PROVE  \/ /\ x \in Clients /\ x \notin Lost /\ Return(x, r)
            /\ call[x] # None /\ stmt[x].call = call[x]
         \/ /\ x \in Lost /\ x \notin Clients /\ UNCHANGED <<call, reply>>
            /\ stmt[x].call \in Doubt
<1>1. CASE x \in Clients /\ Release(x) /\ Return(x, r)
  BY <1>1, LostAssumption DEF Release, GiveBack, IInv, TypeOK
<1>2. CASE x \in Lost /\ UNCHANGED <<pc, poolVars, call, reply>>
  BY <1>2, LostAssumption DEF Doubt
<1> QED BY <1>1, <1>2 DEF Done

\* A statement that has ended, and shows no more of the others than before.
LEMMA EndedShows ==
  ASSUME IInv, NEW x \in Slots, stmt[x] # None,
         stmt' = [stmt EXCEPT ![x] = None]
  PROVE  /\ stmt'[x] = None /\ \A y \in Slots \ {x} : stmt'[y] = stmt[y]
         /\ SeenBy(x) = None \/ x \notin Clients => Seen' = Seen
         /\ Doubt' \in SUBSET Doubt
         /\ x \notin Lost => Doubt' = Doubt
<1>1. stmt'[x] = None /\ \A y \in Slots \ {x} : stmt'[y] = stmt[y]
  BY DEF IInv, TypeOK
<1>2. SeenBy(x) = None \/ x \notin Clients => Seen' = Seen
  BY <1>1, SeenKept DEF SeenBy, Slots
<1>3. Doubt' \in SUBSET Doubt
  BY <1>1, DoubtFewer DEF Slots
<1>4. x \notin Lost => Doubt' = Doubt
  BY <1>1, DoubtKept DEF Slots
<1> QED BY <1>1, <1>2, <1>3, <1>4

LEMMA StatementSimulates ==
  ASSUME IInv, NEW x \in Slots, Statements(x)
  PROVE  Contract!Next \/ UNCHANGED Contract!vars
<1>1. CASE Upsert(x)
  <2>0. PICK r \in {Ok, Error} : Done(x, r)
    BY <1>1 DEF Upsert
  <2>1. /\ stmt[x] # None /\ stmt[x].call.op = "write"
        /\ stmt' = [stmt EXCEPT ![x] = None] /\ rows' = Upserted(stmt[x].call.snapshot)
    BY <1>1 DEF Upsert, Runs
  <2>2. SeenBy(x) = None
    BY <2>1 DEF SeenBy, IInv, TypeOK, WellFormed
  <2>3. Seen' = Seen /\ Doubt' \in SUBSET Doubt /\ (x \notin Lost => Doubt' = Doubt)
    BY <2>1, <2>2, EndedShows
  <2>4. CASE x \in Clients /\ x \notin Lost /\ Return(x, r) /\ call[x] # None /\ stmt[x].call = call[x]
    <3>1. Contract!WriteSnapshot(x)
      BY <2>1, <2>3, <2>4, SameTerms
         DEF Contract!WriteSnapshot, Contract!Put, Contract!KeyOf, Contract!Return,
             Return, Upserted, KeyOf, Seen, Doubt
    <3> QED BY <2>4, <3>1 DEF Contract!Next
  <2>5. CASE UNCHANGED <<call, reply>> /\ stmt[x].call \in Doubt
    <3>1. Contract!Late
      BY <2>1, <2>3, <2>5
         DEF Contract!Late, Contract!Put, Contract!KeyOf, Upserted, KeyOf, Seen, Doubt
    <3> QED BY <3>1 DEF Contract!Next
  <2> QED BY <2>0, <2>1, <2>4, <2>5, DoneFor
<1>2. CASE Select(x)
  <2>1. /\ stmt[x] # None /\ stmt[x].call.op = "get" /\ x \notin Lost
        /\ stmt' = [stmt EXCEPT ![x] = None] /\ UNCHANGED rows
    BY <1>2 DEF Select, Runs, IInv, TypeOK
  <2>2. PICK s \in LatestRow(stmt[x].call.id) : Done(x, Answer(s))
    BY <1>2 DEF Select
  <2>3. x \in Clients /\ Return(x, Answer(s)) /\ call[x] # None /\ stmt[x].call = call[x]
    BY <2>1, <2>2, DoneFor
  <2>4. SeenBy(x) = None
    BY <2>1 DEF SeenBy, IInv, TypeOK, WellFormed
  <2>5. Seen' = Seen /\ Doubt' = Doubt
    BY <2>1, <2>4, EndedShows
  <2>6. CASE s \in Malformed
    <3>1. Return(x, Error) /\ stmt'[x] = None /\ \A d \in Clients \ {x} : stmt'[d] = stmt[d]
      BY <2>1, <2>3, <2>6, EndedShows DEF Answer, Slots
    <3> QED BY <2>1, <2>3, <2>5, <3>1, ContractFails
  <2>7. CASE s \notin Malformed
    <3>1. s \in Contract!Latest(call[x].id, rows) /\ Return(x, Contract!Found(s))
      BY <2>2, <2>3, <2>7, SameTerms DEF Answer
    <3>2. Contract!GetLatestSnapshot(x)
      BY <2>1, <2>3, <2>5, <3>1
         DEF Contract!GetLatestSnapshot, Contract!Return, Return, Seen, Doubt
    <3> QED BY <2>3, <3>2 DEF Contract!Next
  <2> QED BY <2>6, <2>7
<1>3. CASE Abort(x)
  <2>1. stmt[x] # None /\ Done(x, Error) /\ UNCHANGED rows /\ stmt' = [stmt EXCEPT ![x] = None]
    BY <1>3 DEF Abort
  <2>2. CASE x \in Clients /\ x \notin Lost /\ Return(x, Error) /\ call[x] # None
    BY <2>1, <2>2, EndedShows, ContractFails DEF Slots
  <2>3. CASE x \notin Clients /\ UNCHANGED <<call, reply>>
    <3>1. Contract!Forget
      BY <2>1, <2>3, EndedShows DEF Contract!Forget, Seen, Doubt
    <3> QED BY <3>1 DEF Contract!Next
  <2> QED BY <2>1, <2>2, <2>3, DoneFor
<1>4. CASE DeleteBegin(x) \/ DeleteLock(x)
  <2>1. /\ stmt[x] # None /\ stmt[x] \in StatementType /\ stmt[x].call.op = "delete"
        /\ UNCHANGED <<pc, rows, call, reply>>
    BY <1>4 DEF DeleteBegin, DeleteLock, Runs, IInv, TypeOK
  <2>2. /\ \A y \in Slots \ {x} : stmt'[y] = stmt[y]
        /\ stmt'[x] # None /\ stmt'[x].call = stmt[x].call
        /\ stmt'[x].rows = IF DeleteBegin(x) THEN Matching(stmt[x].call) ELSE stmt[x].rows
        /\ DeleteBegin(x) => stmt[x].rows = None
    <3>1. CASE DeleteBegin(x)
      <4>1. stmt' = [stmt EXCEPT ![x].rows = Matching(stmt[x].call)] /\ stmt[x].rows = None
        BY <3>1 DEF DeleteBegin
      <4>2. stmt'[x] = [stmt[x] EXCEPT !.rows = Matching(stmt[x].call)]
        BY <4>1 DEF IInv, TypeOK
      <4>3. Matching(stmt[x].call) \in SUBSET Keys
        BY DEF Matching
      <4>4. stmt'[x] \in StatementType
        BY <2>1, <4>2, <4>3 DEF StatementType
      <4> QED BY <2>1, <3>1, <4>1, <4>2, <4>4, NoRequestAssumption
                 DEF StatementType, IInv, TypeOK
    <3>2. CASE ~DeleteBegin(x)
      <4>1. PICK k \in stmt[x].rows \ stmt[x].locked : stmt' = [stmt EXCEPT ![x].locked = @ \cup {k}]
        BY <1>4, <3>2 DEF DeleteLock
      <4>2. stmt'[x] = [stmt[x] EXCEPT !.locked = @ \cup {k}]
        BY <4>1 DEF IInv, TypeOK
      <4>3. k \in Keys
        BY <2>1, <4>1, <3>2, <1>4, Fields DEF DeleteLock
      <4>4. stmt'[x] \in StatementType
        BY <2>1, <4>2, <4>3 DEF StatementType
      <4> QED BY <2>1, <3>2, <4>1, <4>2, <4>4, NoRequestAssumption
                 DEF StatementType, IInv, TypeOK
    <3> QED BY <3>1, <3>2
  <2>3. Doubt' = Doubt
    BY <2>1, <2>2, DoubtKept DEF Slots
  <2>4. CASE DeleteBegin(x) /\ x \in Clients
    <3>1. call[x] # None /\ call[x] = stmt[x].call
      BY <2>1, <2>4 DEF IInv, TypeOK
    <3>2. Seen[x] = None /\ Seen' = [Seen EXCEPT ![x] = Matching(call[x])]
      BY <2>1, <2>2, <2>4, <3>1, SeenOne DEF SeenBy, Seen, Slots
    <3>3. Contract!Look(x)
      <4>1. Seen[x] = None /\ Seen' = [Seen EXCEPT ![x] = Contract!Covered(call[x], rows)]
        BY <3>2, SameTerms
      <4> QED BY <2>1, <2>3, <3>1, <4>1 DEF Contract!Look, Seen, Doubt
    <3> QED BY <2>4, <3>3 DEF Contract!Next
  <2>5. CASE ~(DeleteBegin(x) /\ x \in Clients)
    <3>1. Seen' = Seen
      BY <2>1, <2>2, <2>5, SeenKept DEF SeenBy, Slots
    <3> QED BY <2>1, <2>3, <3>1, Stutters
  <2> QED BY <2>4, <2>5
<1>5. CASE DeleteCommit(x)
  <2> DEFINE K == stmt[x].rows
  <2>0. PICK r \in {Ok, Error} : Done(x, r)
    BY <1>5 DEF DeleteCommit
  <2>1. /\ rows' = [k \in Keys |-> IF k \in K THEN None ELSE rows[k]]
        /\ stmt[x] # None /\ stmt[x].call.op = "delete"
        /\ K # None /\ K \subseteq Contract!Covered(stmt[x].call, rows)
        /\ stmt'[x] = None
    BY <1>5, CommitShows, SameTerms DEF DeleteCommit
  <2>2. \A y \in Slots \ {x} :
          /\ stmt'[y] = None <=> stmt[y] = None
          /\ stmt[y] # None => /\ stmt'[y].call = stmt[y].call
                               /\ stmt'[y].rows = IF stmt[y].rows = None THEN None
                                                  ELSE stmt[y].rows \ K
    BY <1>5, CommitShows
  <2>3. rows' = Contract!Without(K, rows)
    BY <2>1, SameTerms DEF Contract!Without
  <2>4. \A d \in Clients \ {x} : SeenBy(d)' = Contract!Gone(K, SeenBy(d))
    BY <2>2 DEF SeenBy, Contract!Gone, Slots
  <2>5. CASE x \in Clients /\ x \notin Lost /\ Return(x, r) /\ call[x] # None /\ stmt[x].call = call[x]
    <3>1. Doubt' = Doubt
      BY <2>2, <2>5, DoubtKept DEF Slots
    <3>2. Seen[x] = K
      BY <2>1, <2>5 DEF Seen
    <3>3. Seen' = [d \in Clients |-> IF d = x THEN None ELSE Contract!Gone(K, Seen[d])]
      BY <2>1, <2>4, <2>5 DEF Seen, SeenBy
    <3>4. K \in SUBSET Contract!Covered(call[x], rows)
      BY <2>1, <2>5
    <3>5. Contract!DeleteSnapshots(x)
      BY <2>1, <2>3, <2>5, <3>1, <3>2, <3>3, <3>4, SameTerms
         DEF Contract!DeleteSnapshots, Contract!Return, Return, Seen, Doubt
    <3> QED BY <2>5, <3>5 DEF Contract!Next
  <2>6. CASE x \notin Clients /\ UNCHANGED <<call, reply>> /\ stmt[x].call \in Doubt
    <3>1. Doubt' \in SUBSET Doubt
      BY <2>1, <2>2, DoubtFewer DEF Slots
    <3>2. Seen' = [d \in Clients |-> Contract!Gone(K, Seen[d])]
      BY <2>4, <2>6 DEF Seen, SeenBy
    <3>3. K \in SUBSET Contract!Covered(stmt[x].call, rows)
      BY <2>1
    <3>4. \E q \in Doubt : /\ q.op = "delete"
                          /\ \E L \in SUBSET Contract!Covered(q, rows) :
                               /\ rows' = Contract!Without(L, rows)
                               /\ Seen' = [d \in Clients |-> Contract!Gone(L, Seen[d])]
      <4> HIDE DEF K
      <4> DEFINE q == stmt[x].call
      <4>1. q \in Doubt /\ q.op = "delete" /\ K \in SUBSET Contract!Covered(q, rows)
        BY <2>1, <2>6, <3>3
      <4> HIDE DEF q
      <4> QED BY <4>1, <2>3, <3>2
    <3>5. Contract!Late
      <4>1. UNCHANGED <<call, reply>>
        BY <2>6
      <4> HIDE DEF K
      <4> QED BY <3>1, <3>4, <4>1 DEF Contract!Late, Seen, Doubt
    <3> QED BY <3>5 DEF Contract!Next
  <2> QED BY <2>0, <2>1, <2>5, <2>6, DoneFor
<1> QED BY <1>1, <1>2, <1>3, <1>4, <1>5 DEF Statements

LEMMA NextSimulates == IInv /\ [Next]_vars => [Contract!Next]_Contract!vars
<1> SUFFICES ASSUME IInv, [Next]_vars PROVE Contract!Next \/ UNCHANGED Contract!vars
  BY DEF Contract!vars
<1>1. CASE UNCHANGED vars
  BY <1>1 DEF vars, snapVars, Contract!vars
<1>2. ASSUME NEW o \in Owners, Owner(o) PROVE UNCHANGED Contract!vars
  BY <1>2 DEF Owner, snapVars, Contract!vars
<1> QED BY <1>1, <1>2, ClientSimulates, StatementSimulates, CrashSimulates DEF Next

\* The store keeps its contract, whatever upserts, selects and deletes the server
\* runs at the same time, and whichever of their clients fail or die.
THEOREM ImplementsSnapshots == Spec => RefinesSnapshots
<1> QED BY InvStarts, InvInductive, ContractStarts, NextSimulates, PTL
        DEF Spec, RefinesSnapshots, Contract!Spec
===============================================================================
