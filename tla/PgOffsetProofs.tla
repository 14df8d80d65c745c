---------------------------- MODULE PgOffsetProofs ----------------------------
(***************************************************************************)
(* Proofs about PgOffsetStore, for any sets of clients, owners,            *)
(* projections, shards and values, any size of the pool and any number of  *)
(* statements that go on without a client: its types, and that it          *)
(* implements Offsets.                                                     *)
(***************************************************************************)
EXTENDS PgOffsetStore, TLAPS

Labels == {"idle", "connect", "dial", "dialed", "connected", "close", "closed", "acquire", "exec"}

Replies == {NoReply, Ok, Error} \cup {Found(v) : v \in Values \cup {None}}

\* Whoever loads the pool after the flag, or sets the flag after the pool, finds
\* one there; a connection is held for as long as a statement is run.
PoolOK ==
  /\ PoolTypeOK
  /\ pc \in [Procs -> Labels]
  /\ connected => pool # None
  /\ \A c \in Clients : /\ pc[c] \in {"idle", "acquire", "exec"}
                        /\ pc[c] = "exec" <=> holds[c] # None
                        /\ pc[c] = "acquire" => pool # None
  /\ \A o \in Owners : /\ pc[o] = "dialed" => holds[o] # None
                       /\ pc[o] = "connected" => pool # None

\* The calls of the clients, and the statements they wait for.
CallOK ==
  /\ call \in [Clients -> O!Requests \cup {None}]
  /\ seen \in [Clients -> SUBSET Keys]
  /\ reply \in Replies
  /\ \A c \in Clients : /\ pc[c] = "idle" <=> call[c] = None
                        /\ IF pc[c] = "exec" THEN stmt[c] # None /\ stmt[c].call = call[c]
                           ELSE stmt[c] = None

\* What the server runs.
StmtOK ==
  /\ table \in [Keys -> Values \cup {None}]
  /\ stmt \in [Slots -> StatementType \cup {None}]
  /\ \A x \in Slots : WellFormed(stmt[x])
  /\ \A l \in Lost : ~Runs(l, "get")
  /\ \A x \in Slots : stmt[x] # None => \A k \in stmt[x].locked : ~LockedByOther(x, k)

\* No row goes away: what there was when a ResetOffset was called is still there
\* when its UPDATE begins, and is among its rows from then on.
ResetInv ==
  \A c \in Clients :
    /\ call[c] # None /\ call[c].op = "reset" => seen[c] \subseteq Matching(call[c])
    /\ stmt[c] # None /\ stmt[c].rows # None => seen[c] \subseteq stmt[c].rows

IInv == PoolOK /\ CallOK /\ StmtOK /\ ResetInv

LEMMA InvTypes == IInv => TypeOK
  BY DEF IInv, PoolOK, CallOK, StmtOK, TypeOK, Labels, Replies

-------------------------------------------------------------------------------
(* Statements and requests.                                                *)

LEMMA Fields ==
  ASSUME NEW s \in StatementType
  PROVE  s.call \in O!Requests /\ s.rows \in (SUBSET Keys) \cup {None} /\ s.locked \in SUBSET Keys
  BY DEF StatementType

LEMMA NewStatement ==
  ASSUME NEW q \in O!Requests
  PROVE  /\ Statement(q) \in StatementType /\ WellFormed(Statement(q))
         /\ Statement(q).call = q /\ Statement(q).rows = None /\ Statement(q).locked = {}
<1>1. Statement(q).call = q /\ Statement(q).rows = None /\ Statement(q).locked = {}
  BY DEF Statement
<1>2. Statement(q) \in StatementType
  BY DEF Statement, StatementType
<1> QED BY <1>1, <1>2 DEF WellFormed

\* What a request says.
LEMMA Requested ==
  ASSUME NEW q \in O!Requests
  PROVE  /\ q.op \in {"write", "get"} => KeyOf(q) \in Keys
         /\ q.op \in {"write", "reset"} => q.value \in Values /\ q.value # None
  BY NoOffsetAssumption DEF O!Requests, KeyOf, Keys

-------------------------------------------------------------------------------
(* What a step of one part leaves of the others.                           *)

\* The table keeps its type and its rows.
Grows ==
  /\ table' \in [Keys -> Values \cup {None}]
  /\ \A k \in Keys : table[k] # None => table'[k] # None

LEMMA WellFormedMonotone ==
  ASSUME NEW s, WellFormed(s), Grows
  PROVE  WellFormed(s)'
  BY DEF WellFormed, Matching, Grows

\* One statement ends.
LEMMA StatementEnds ==
  ASSUME IInv, NEW x \in Slots, stmt' = [stmt EXCEPT ![x] = None], Grows
  PROVE  StmtOK'
<1>1. /\ stmt' \in [Slots -> StatementType \cup {None}]
      /\ stmt'[x] = None /\ \A y \in Slots \ {x} : stmt'[y] = stmt[y]
  BY DEF IInv, StmtOK
<1>2. \A y \in Slots : WellFormed(stmt[y])'
  BY <1>1, WellFormedMonotone DEF IInv, StmtOK, WellFormed
<1>3. \A l \in Lost : ~Runs(l, "get")'
  BY <1>1 DEF IInv, StmtOK, Runs, Slots
<1>4. \A y \in Slots : stmt'[y] # None => \A k \in stmt'[y].locked : ~LockedByOther(y, k)'
  BY <1>1 DEF IInv, StmtOK, LockedByOther
<1> QED BY <1>1, <1>2, <1>3, <1>4 DEF StmtOK, Grows

\* The statement of one slot is another, and locks no row but those that nobody has.
LEMMA StatementMoves ==
  ASSUME IInv, NEW x \in Slots, UNCHANGED table,
         NEW s \in StatementType, stmt' = [stmt EXCEPT ![x] = s], WellFormed(s),
         x \in Lost => s.call.op # "get",
         \A k \in s.locked : \A y \in Slots \ {x} : stmt[y] # None => k \notin stmt[y].locked
  PROVE  StmtOK'
<1>1. /\ stmt' \in [Slots -> StatementType \cup {None}]
      /\ stmt'[x] = s /\ \A y \in Slots \ {x} : stmt'[y] = stmt[y]
  BY DEF IInv, StmtOK
<1>2. Grows
  BY DEF IInv, StmtOK, Grows
<1>3. \A y \in Slots : WellFormed(stmt[y])'
  BY <1>1, <1>2, WellFormedMonotone DEF IInv, StmtOK, WellFormed
<1>4. \A l \in Lost : ~Runs(l, "get")'
  BY <1>1 DEF IInv, StmtOK, Runs, Slots
<1>5. \A y \in Slots : stmt'[y] # None => \A k \in stmt'[y].locked : ~LockedByOther(y, k)'
  BY <1>1 DEF IInv, StmtOK, LockedByOther
<1> QED BY <1>1, <1>2, <1>3, <1>4, <1>5 DEF StmtOK, Grows

\* A call returns, and the statements of the others stay with their calls.
LEMMA ClientReturns ==
  ASSUME IInv, NEW c \in Clients, NEW r \in Replies, Return(c, r), Grows,
         stmt'[c] = None, \A d \in Clients \ {c} : stmt'[d] = stmt[d]
  PROVE  PoolOK' /\ CallOK' /\ ResetInv'
<1>1. /\ call' \in [Clients -> O!Requests \cup {None}]
      /\ call'[c] = None /\ \A d \in Clients \ {c} : call'[d] = call[d]
      /\ seen' \in [Clients -> SUBSET Keys] /\ \A d \in Clients \ {c} : seen'[d] = seen[d]
      /\ pc' \in [Procs -> Labels]
      /\ pc'[c] = "idle" /\ \A g \in Procs \ {c} : pc'[g] = pc[g]
      /\ holds' \in [Procs -> Pools \cup {None}]
      /\ holds'[c] = None /\ \A g \in Procs \ {c} : holds'[g] = holds[g]
      /\ reply' = r /\ UNCHANGED poolVars
  BY DEF IInv, PoolOK, CallOK, PoolTypeOK, Procs, Labels, Return, Release, Goto
<1>2. PoolOK'
  BY <1>1, ProcsAssumption DEF IInv, PoolOK, PoolTypeOK, poolVars, Procs
<1>3. CallOK'
  BY <1>1 DEF IInv, CallOK, Procs
<1>4. ResetInv'
  BY <1>1 DEF IInv, ResetInv, Grows, Matching
<1> QED BY <1>2, <1>3, <1>4

LEMMA DoneOK ==
  ASSUME IInv, NEW x \in Slots, NEW r \in Replies, Done(x, r), Grows,
         stmt' = [stmt EXCEPT ![x] = None]
  PROVE  IInv'
<1>1. stmt'[x] = None /\ \A y \in Slots \ {x} : stmt'[y] = stmt[y]
  BY DEF IInv, StmtOK
<1>2. StmtOK'
  BY StatementEnds
<1>3. CASE x \in Clients /\ Return(x, r)
  BY <1>1, <1>2, <1>3, ClientReturns DEF IInv, Slots
<1>4. CASE x \in Lost /\ UNCHANGED <<poolVars, holds, pc, callVars>>
  <2>1. \A c \in Clients : stmt'[c] = stmt[c]
    BY <1>1, <1>4, LostAssumption DEF Slots, Procs
  <2>2. PoolOK' /\ CallOK'
    BY <1>4, <2>1 DEF IInv, PoolOK, CallOK, PoolTypeOK, poolVars, callVars
  <2>3. ResetInv'
    BY <1>4, <2>1 DEF IInv, ResetInv, Grows, Matching, callVars
  <2> QED BY <1>2, <2>2, <2>3 DEF IInv
<1> QED BY <1>3, <1>4 DEF Done

-------------------------------------------------------------------------------
(* The invariant.                                                          *)

LEMMA InvStarts == Init => IInv
<1> SUFFICES ASSUME Init PROVE IInv
  OBVIOUS
<1>1. PoolOK /\ \A c \in Clients : pc[c] = "idle"
  BY ProcsAssumption DEF Init, PoolInit, PoolTypeOK, PoolOK, Procs, Labels
<1>2. CallOK /\ StmtOK /\ ResetInv
  BY <1>1 DEF Init, CallOK, StmtOK, ResetInv, WellFormed, Runs, Slots, Replies
<1> QED BY <1>1, <1>2 DEF IInv

LEMMA InvOwner ==
  ASSUME IInv, NEW o \in Owners, OwnerStep(o)
  PROVE  IInv'
<1>1. UNCHANGED <<table, stmt, call, seen, reply>>
  BY DEF OwnerStep, callVars
<1>2. PoolOK' /\ \A c \in Clients : pc'[c] = pc[c]
  <2> USE ProcsAssumption, NoPoolAssumption
      DEF IInv, PoolOK, PoolTypeOK, Procs, Labels, Goto, poolVars
  <2>1. CASE Connect(o)
    BY <2>1 DEF Connect
  <2>2. CASE ConnectNewPool(o)
    BY <2>2 DEF ConnectNewPool
  <2>3. CASE ConnectSetPool(o)
    BY <2>3 DEF ConnectSetPool
  <2>4. CASE ConnectStore(o)
    BY <2>4 DEF ConnectStore
  <2>5. CASE DisconnectClosed(o)
    BY <2>5 DEF DisconnectClosed
  <2>6. CASE DisconnectStore(o)
    BY <2>6 DEF DisconnectStore
  <2>7. CASE ConnectFails(o)
    BY <2>7 DEF ConnectFails
  <2>8. CASE Disconnect(o)
    BY <2>8 DEF Disconnect
  <2>9. CASE Ping(o)
    BY <2>9 DEF Ping
  <2> QED BY <2>1, <2>2, <2>3, <2>4, <2>5, <2>6, <2>7, <2>8, <2>9
          DEF OwnerStep, PoolStep, PoolProgress
<1>3. CallOK' /\ StmtOK' /\ ResetInv'
  BY <1>1, <1>2
     DEF IInv, CallOK, StmtOK, ResetInv, WellFormed, Matching, Runs, LockedByOther
<1> QED BY <1>2, <1>3 DEF IInv

\* A call begins, with a request and the rows it has to set.
LEMMA Called ==
  ASSUME NEW c \in Clients, WriteOffset(c) \/ GetCurrentOffset(c) \/ ResetOffset(c)
  PROVE  \E q \in O!Requests :
           Call(c, q, IF q.op = "reset" THEN O!KeysOf(q.projection) ELSE {})
<1>1. CASE WriteOffset(c)
  <2>1. PICK p \in Projections, s \in Shards, v \in Values :
          Call(c, [op |-> "write", projection |-> p, shard |-> s, value |-> v], {})
    BY <1>1 DEF WriteOffset
  <2>2. [op |-> "write", projection |-> p, shard |-> s, value |-> v] \in O!Requests
    BY DEF O!Requests
  <2> QED BY <2>1, <2>2
<1>2. CASE GetCurrentOffset(c)
  <2>1. PICK p \in Projections, s \in Shards :
          Call(c, [op |-> "get", projection |-> p, shard |-> s], {})
    BY <1>2 DEF GetCurrentOffset
  <2>2. [op |-> "get", projection |-> p, shard |-> s] \in O!Requests
    BY DEF O!Requests
  <2> QED BY <2>1, <2>2
<1>3. CASE ResetOffset(c)
  <2>1. PICK p \in Projections, v \in Values :
          Call(c, [op |-> "reset", projection |-> p, value |-> v], O!KeysOf(p))
    BY <1>3 DEF ResetOffset
  <2>2. [op |-> "reset", projection |-> p, value |-> v] \in O!Requests
    BY DEF O!Requests
  <2> QED BY <2>1, <2>2
<1> QED BY <1>1, <1>2, <1>3

LEMMA InvCall ==
  ASSUME IInv, NEW c \in Clients, WriteOffset(c) \/ GetCurrentOffset(c) \/ ResetOffset(c)
  PROVE  IInv'
<1>1. PICK q \in O!Requests : Call(c, q, IF q.op = "reset" THEN O!KeysOf(q.projection) ELSE {})
  BY Called
<1> DEFINE rows == IF q.op = "reset" THEN O!KeysOf(q.projection) ELSE {}
<1>2. rows \in SUBSET Keys /\ (q.op = "reset" => rows = Matching(q))
  BY DEF O!KeysOf, O!Keys, Keys, Matching
<1>3. /\ pc[c] = "idle" /\ connected
      /\ UNCHANGED <<connected, pool, status, leaked, holds, table, stmt>>
      /\ pc' = [pc EXCEPT ![c] = "acquire"]
      /\ call' = [call EXCEPT ![c] = q] /\ seen' = [seen EXCEPT ![c] = rows]
      /\ reply' = NoReply
  BY <1>1 DEF Call, Goto, poolVars
<1> HIDE DEF rows
<1>4. q # None
  BY NoRequestAssumption
<1>5. PoolOK'
  BY <1>3, ProcsAssumption DEF IInv, PoolOK, PoolTypeOK, Procs, Labels
<1>6. CallOK'
  BY <1>2, <1>3, <1>4 DEF IInv, PoolOK, CallOK, Procs, Replies
<1>7. StmtOK'
  BY <1>3 DEF IInv, StmtOK, WellFormed, Matching, Runs, LockedByOther
<1>8. stmt[c] = None
  BY <1>3 DEF IInv, CallOK
<1>9. ResetInv'
  BY <1>2, <1>3, <1>8 DEF IInv, CallOK, ResetInv, Matching
<1> QED BY <1>5, <1>6, <1>7, <1>9 DEF IInv

LEMMA InvGetConnection ==
  ASSUME IInv, NEW c \in Clients, GetConnection(c)
  PROVE  IInv'
<1>1. /\ pc[c] = "acquire" /\ pool \in Pools
      /\ holds' = [holds EXCEPT ![c] = pool] /\ pc' = [pc EXCEPT ![c] = "exec"]
      /\ stmt' = [stmt EXCEPT ![c] = Statement(call[c])]
      /\ UNCHANGED <<connected, pool, status, leaked, table, call, seen, reply>>
  BY DEF IInv, PoolOK, PoolTypeOK, GetConnection, Acquire, Goto, poolVars, callVars
<1>2. c \in Slots /\ c \notin Lost
  BY LostAssumption DEF Slots, Procs
<1>3. call[c] \in O!Requests
  BY <1>1 DEF IInv, CallOK
<1>4. /\ stmt'[c] = Statement(call[c]) /\ stmt'[c].call = call[c] /\ stmt'[c].rows = None
      /\ stmt'[c] # None /\ \A y \in Slots \ {c} : stmt'[y] = stmt[y]
  BY <1>1, <1>2, <1>3, NewStatement, NoRequestAssumption DEF IInv, StmtOK
<1>5. PoolOK'
  BY <1>1, ProcsAssumption, NoPoolAssumption DEF IInv, PoolOK, PoolTypeOK, Procs, Labels
<1>6. CallOK'
  BY <1>1, <1>4 DEF IInv, PoolOK, CallOK, Procs, Slots
<1>7. StmtOK'
  BY <1>1, <1>2, <1>3, NewStatement, StatementMoves
<1>8. ResetInv'
  BY <1>1, <1>4 DEF IInv, ResetInv, Matching, Slots
<1> QED BY <1>5, <1>6, <1>7, <1>8 DEF IInv

LEMMA InvNoConnection ==
  ASSUME IInv, NEW c \in Clients, NoConnection(c)
  PROVE  IInv'
<1>1. Return(c, Error) /\ UNCHANGED <<table, stmt>> /\ stmt[c] = None
  BY DEF NoConnection, IInv, CallOK
<1>2. Grows /\ Error \in Replies
  BY <1>1 DEF IInv, StmtOK, Grows, Replies
<1>3. StmtOK'
  BY <1>1 DEF IInv, StmtOK, WellFormed, Matching, Runs, LockedByOther
<1> QED BY <1>1, <1>2, <1>3, ClientReturns DEF IInv

\* A statement that its call leaves to itself.
LEMMA Abandoned ==
  ASSUME IInv, NEW c \in Clients, NetworkFails(c)
  PROVE  /\ Return(c, Error) /\ UNCHANGED table
         /\ stmt[c] \in StatementType /\ stmt[c] # None /\ stmt[c].call = call[c]
         /\ call[c] # None
         /\ \E l \in Lost \ Clients :
              /\ stmt[l] = None /\ stmt'[l] = stmt[c] /\ stmt'[c] = None
              /\ \A y \in Slots \ {c, l} : stmt'[y] = stmt[y]
              /\ stmt' \in [Slots -> StatementType \cup {None}]
<1>1. pc[c] = "exec" /\ Return(c, Error) /\ UNCHANGED table
  BY DEF NetworkFails
<1>2. stmt[c] # None /\ stmt[c].call = call[c] /\ call[c] # None
  BY <1>1 DEF IInv, CallOK
<1>3. c \in Slots /\ c \notin Lost /\ stmt[c] \in StatementType
  BY <1>2, LostAssumption DEF Slots, Procs, IInv, StmtOK
<1>4. PICK l \in Lost : stmt[l] = None /\ stmt' = [stmt EXCEPT ![c] = None, ![l] = stmt[c]]
  BY DEF NetworkFails
<1>5. l \in Slots /\ l \notin Clients
  BY LostAssumption DEF Slots, Procs
<1>6. /\ stmt'[l] = stmt[c] /\ stmt'[c] = None
      /\ \A y \in Slots \ {c, l} : stmt'[y] = stmt[y]
      /\ stmt' \in [Slots -> StatementType \cup {None}]
  BY <1>3, <1>4, <1>5 DEF IInv, StmtOK
<1> QED BY <1>1, <1>2, <1>3, <1>4, <1>5, <1>6

LEMMA InvNetworkFails ==
  ASSUME IInv, NEW c \in Clients, NetworkFails(c)
  PROVE  IInv'
<1>1. Return(c, Error) /\ UNCHANGED table /\ stmt[c] # None /\ stmt[c] \in StatementType
  BY Abandoned
<1>2. PICK l \in Lost \ Clients :
        /\ stmt[l] = None /\ stmt'[l] = stmt[c] /\ stmt'[c] = None
        /\ \A y \in Slots \ {c, l} : stmt'[y] = stmt[y]
        /\ stmt' \in [Slots -> StatementType \cup {None}]
  BY Abandoned
<1>3. c \in Slots /\ l \in Slots /\ c \notin Lost
  BY LostAssumption DEF Slots, Procs
<1>4. Grows /\ Error \in Replies
  BY <1>1 DEF IInv, StmtOK, Grows, Replies
<1>5. PoolOK' /\ CallOK' /\ ResetInv'
  BY <1>1, <1>2, <1>3, <1>4, ClientReturns DEF Slots
<1>6. \A y \in Slots : WellFormed(stmt[y])'
  BY <1>1, <1>2, <1>3 DEF IInv, StmtOK, WellFormed, Matching
<1>7. \A m \in Lost : ~Runs(m, "get")'
  BY <1>2, <1>3 DEF IInv, StmtOK, NetworkFails, Runs, Slots
<1>8. \A y \in Slots : stmt'[y] # None => \A k \in stmt'[y].locked : ~LockedByOther(y, k)'
  BY <1>1, <1>2, <1>3 DEF IInv, StmtOK, LockedByOther
<1>9. StmtOK'
  BY <1>2, <1>4, <1>6, <1>7, <1>8 DEF StmtOK, Grows
<1> QED BY <1>5, <1>9 DEF IInv

\* An UPDATE begins, or locks one more row.
LEMMA Updating ==
  ASSUME IInv, NEW x \in Slots, UpdateStart(x) \/ UpdateRow(x)
  PROVE  /\ UNCHANGED <<poolVars, holds, pc, table, callVars>>
         /\ stmt[x] # None /\ stmt[x] \in StatementType /\ stmt[x].call.op = "reset"
         /\ \E s \in StatementType :
              /\ stmt' = [stmt EXCEPT ![x] = s]
              /\ s.call = stmt[x].call /\ WellFormed(s)
              /\ s.rows = IF stmt[x].rows = None THEN Matching(stmt[x].call) ELSE stmt[x].rows
              /\ \A k \in s.locked : \A y \in Slots \ {x} : stmt[y] # None => k \notin stmt[y].locked
<1>1. /\ UNCHANGED <<poolVars, holds, pc, table, callVars>>
      /\ stmt[x] # None /\ stmt[x] \in StatementType /\ stmt[x].call.op = "reset"
  BY DEF UpdateStart, UpdateRow, Runs, IInv, StmtOK
<1>2. CASE UpdateStart(x)
  <2> DEFINE s == [stmt[x] EXCEPT !.rows = Matching(stmt[x].call)]
  <2>1. Matching(stmt[x].call) \in SUBSET Keys /\ stmt[x].locked = {} /\ stmt[x].rows = None
    BY <1>1, <1>2 DEF UpdateStart, Matching, IInv, StmtOK, WellFormed
  <2>2. s \in StatementType /\ s.call = stmt[x].call /\ s.locked = {}
        /\ s.rows = Matching(stmt[x].call)
    BY <1>1, <2>1 DEF StatementType
  <2>3. stmt' = [stmt EXCEPT ![x] = s]
    BY <1>2 DEF UpdateStart, IInv, StmtOK
  <2>4. WellFormed(s)
    BY <1>1, <2>2 DEF WellFormed
  <2> QED BY <1>1, <2>1, <2>2, <2>3, <2>4
<1>3. CASE UpdateRow(x)
  <2>1. PICK k \in stmt[x].rows \ stmt[x].locked :
          /\ ~LockedByOther(x, k)
          /\ stmt' = [stmt EXCEPT ![x].locked = @ \cup {k}]
    BY <1>3 DEF UpdateRow
  <2> DEFINE s == [stmt[x] EXCEPT !.locked = @ \cup {k}]
  <2>2. /\ stmt[x].rows # None
        /\ stmt[x].locked \subseteq stmt[x].rows /\ stmt[x].rows \subseteq Matching(stmt[x].call)
    BY <1>1, <1>3 DEF UpdateRow, IInv, StmtOK, WellFormed
  <2>3. k \in Keys /\ k \in stmt[x].rows
    BY <2>1, <2>2 DEF Matching
  <2>4. s \in StatementType /\ s.call = stmt[x].call /\ s.rows = stmt[x].rows
        /\ s.locked = stmt[x].locked \cup {k}
    BY <1>1, <2>3 DEF StatementType
  <2>5. WellFormed(s)
    BY <1>1, <2>2, <2>3, <2>4 DEF WellFormed
  <2>6. stmt' = [stmt EXCEPT ![x] = s]
    BY <2>1 DEF IInv, StmtOK
  <2>7. \A i \in s.locked : \A y \in Slots \ {x} : stmt[y] # None => i \notin stmt[y].locked
    BY <1>1, <2>1, <2>4 DEF LockedByOther, IInv, StmtOK
  <2> QED BY <1>1, <2>2, <2>4, <2>5, <2>6, <2>7
<1> QED BY <1>1, <1>2, <1>3

LEMMA InvUpdate ==
  ASSUME IInv, NEW x \in Slots, UpdateStart(x) \/ UpdateRow(x)
  PROVE  IInv'
<1>1. /\ UNCHANGED <<poolVars, holds, pc, table, callVars>>
      /\ stmt[x] # None /\ stmt[x] \in StatementType /\ stmt[x].call.op = "reset"
  BY Updating
<1>2. PICK s \in StatementType :
        /\ stmt' = [stmt EXCEPT ![x] = s]
        /\ s.call = stmt[x].call /\ WellFormed(s)
        /\ s.rows = IF stmt[x].rows = None THEN Matching(stmt[x].call) ELSE stmt[x].rows
        /\ \A k \in s.locked : \A y \in Slots \ {x} : stmt[y] # None => k \notin stmt[y].locked
  BY Updating
<1>3. stmt'[x] = s /\ s # None /\ \A y \in Slots \ {x} : stmt'[y] = stmt[y]
  BY <1>2, NoRequestAssumption DEF IInv, StmtOK
<1>4. PoolOK'
  BY <1>1 DEF IInv, PoolOK, PoolTypeOK, poolVars
<1>5. CallOK'
  BY <1>1, <1>2, <1>3 DEF IInv, CallOK, callVars, Slots
<1>6. StmtOK'
  BY <1>1, <1>2, StatementMoves
<1>7. ResetInv'
  <2>1. ASSUME NEW c \in Clients, stmt'[c] # None, stmt'[c].rows # None
        PROVE  seen[c] \subseteq stmt'[c].rows
    <3>1. CASE c = x
      <4>1. call[c] = stmt[c].call /\ call[c] # None
        BY <1>1, <3>1 DEF IInv, CallOK
      <4> QED BY <1>1, <1>2, <1>3, <3>1, <4>1 DEF IInv, ResetInv
    <3>2. CASE c # x
      BY <1>3, <2>1, <3>2 DEF IInv, ResetInv, Slots
    <3> QED BY <3>1, <3>2
  <2> QED BY <1>1, <2>1 DEF IInv, ResetInv, Matching, callVars
<1> QED BY <1>4, <1>5, <1>6, <1>7 DEF IInv

\* The steps that end a statement, and what they do to the table.
LEMMA InvUpsert ==
  ASSUME IInv, NEW x \in Slots, Upsert(x)
  PROVE  IInv'
<1>1. stmt[x] # None /\ stmt[x].call.op = "write" /\ stmt[x].call \in O!Requests
  BY DEF Upsert, Runs, IInv, StmtOK, StatementType
<1>2. KeyOf(stmt[x].call) \in Keys /\ stmt[x].call.value \in Values /\ stmt[x].call.value # None
  BY <1>1, Requested
<1>3. Grows
  BY <1>2 DEF Upsert, Excluded, IInv, StmtOK, Grows
<1>4. stmt' = [stmt EXCEPT ![x] = None] /\ \E r \in Replies : Done(x, r)
  BY DEF Upsert, Ended, Replies
<1> QED BY <1>3, <1>4, DoneOK

LEMMA InvSelect ==
  ASSUME IInv, NEW x \in Slots, Select(x)
  PROVE  IInv'
<1>1. stmt[x] # None /\ stmt[x].call.op = "get" /\ stmt[x].call \in O!Requests
  BY DEF Select, Runs, IInv, StmtOK, StatementType
<1>2. table[KeyOf(stmt[x].call)] \in Values \cup {None}
  BY <1>1, Requested DEF IInv, StmtOK
<1>3. Grows
  BY DEF Select, IInv, StmtOK, Grows
<1>4. stmt' = [stmt EXCEPT ![x] = None] /\ \E r \in Replies : Done(x, r)
  BY <1>2 DEF Select, Ended, Replies
<1> QED BY <1>3, <1>4, DoneOK

LEMMA InvAbort ==
  ASSUME IInv, NEW x \in Slots, Abort(x)
  PROVE  IInv'
<1>1. Grows
  BY DEF Abort, IInv, StmtOK, Grows
<1>2. stmt' = [stmt EXCEPT ![x] = None] /\ \E r \in Replies : Done(x, r)
  BY DEF Abort, Ended, Replies
<1> QED BY <1>1, <1>2, DoneOK

\* An UPDATE that commits has its request and its rows.
LEMMA Committing ==
  ASSUME IInv, NEW x \in Slots, UpdateCommit(x)
  PROVE  LET q == stmt[x].call  K == stmt[x].rows
         IN /\ stmt[x] # None /\ q \in O!Requests /\ q.op = "reset"
            /\ K \in SUBSET Matching(q)
            /\ x \in Clients => seen[x] \subseteq K
            /\ table' = [k \in Keys |-> IF k \in K THEN q.value ELSE table[k]]
            /\ Grows
<1> DEFINE q == stmt[x].call
           K == stmt[x].rows
<1>1. stmt[x] # None /\ stmt[x] \in StatementType /\ q.op = "reset" /\ K = stmt[x].locked
  BY DEF UpdateCommit, Runs, IInv, StmtOK
<1>2. K # None
  BY <1>1, NoKeysAssumption, Fields
<1>3. q \in O!Requests /\ K \in SUBSET Matching(q)
  BY <1>1, <1>2, Fields DEF IInv, StmtOK, WellFormed
<1>4. x \in Clients => seen[x] \subseteq K
  BY <1>1, <1>2 DEF IInv, ResetInv
<1>5. table' = [k \in Keys |-> IF k \in K THEN q.value ELSE table[k]]
  BY DEF UpdateCommit
<1>6. q.value \in Values /\ q.value # None
  BY <1>1, <1>3, Requested
<1> HIDE DEF q, K
<1>7. Grows
  BY <1>5, <1>6 DEF IInv, StmtOK, Grows
<1> QED BY <1>1, <1>3, <1>4, <1>5, <1>7 DEF q, K

LEMMA InvUpdateCommit ==
  ASSUME IInv, NEW x \in Slots, UpdateCommit(x)
  PROVE  IInv'
<1>1. Grows
  BY Committing
<1>2. stmt' = [stmt EXCEPT ![x] = None] /\ \E r \in Replies : Done(x, r)
  BY DEF UpdateCommit, Ended, Replies
<1> QED BY <1>1, <1>2, DoneOK

LEMMA InvCrash ==
  ASSUME IInv, Crash
  PROVE  IInv'
<1>1. PoolOK' /\ \A c \in Clients : pc'[c] = "idle"
  BY ProcsAssumption, NoPoolAssumption
     DEF Crash, PoolCrash, PoolOK, PoolTypeOK, Procs, Labels
<1>2. PICK from \in [Lost -> Slots] :
        /\ \A l, m \in Lost : from[l] = from[m] => l = m
        /\ \A l \in Lost : ~Runs(from[l], "get")
        /\ stmt' = [x \in Slots |-> IF x \in Lost THEN stmt[from[x]] ELSE None]
  BY DEF Crash
<1>3. \A x \in Slots : stmt'[x] = IF x \in Lost THEN stmt[from[x]] ELSE None
  BY <1>2
<1>4. \A c \in Clients : stmt'[c] = None
  BY <1>3, LostAssumption DEF Slots, Procs
<1>5. CallOK' /\ ResetInv'
  BY <1>1, <1>4 DEF Crash, CallOK, ResetInv, Replies
<1>6. UNCHANGED table /\ stmt' \in [Slots -> StatementType \cup {None}]
  BY <1>2 DEF Crash, IInv, StmtOK
<1>7. \A x \in Slots : WellFormed(stmt[x])'
  BY <1>2, <1>3, <1>6 DEF IInv, StmtOK, WellFormed, Matching
<1>8. \A l \in Lost : ~Runs(l, "get")'
  BY <1>2, <1>3 DEF Runs, Slots
<1>9. \A x \in Slots : stmt'[x] # None => \A k \in stmt'[x].locked : ~LockedByOther(x, k)'
  <2>1. ASSUME NEW x \in Slots, NEW y \in Slots \ {x}, stmt'[x] # None, stmt'[y] # None,
               NEW k \in stmt'[x].locked, k \in stmt'[y].locked
        PROVE  FALSE
    <3>1. /\ x \in Lost /\ y \in Lost /\ from[x] \in Slots /\ from[y] \in Slots /\ from[x] # from[y]
          /\ stmt'[x] = stmt[from[x]] /\ stmt'[y] = stmt[from[y]]
      BY <1>2, <1>3, <2>1
    <3> QED BY <2>1, <3>1 DEF IInv, StmtOK, LockedByOther
  <2> QED BY <2>1 DEF LockedByOther
<1> QED BY <1>1, <1>5, <1>6, <1>7, <1>8, <1>9 DEF IInv, StmtOK

LEMMA InvInductive == IInv /\ [Next]_vars => IInv'
<1> SUFFICES ASSUME IInv, [Next]_vars PROVE IInv'
  OBVIOUS
<1>1. CASE UNCHANGED vars
  <2>1. PoolOK'
    BY <1>1 DEF vars, poolVars, IInv, PoolOK, PoolTypeOK
  <2>2. CallOK' /\ StmtOK' /\ ResetInv'
    BY <1>1
       DEF vars, callVars, IInv, CallOK, StmtOK, ResetInv, WellFormed, Matching, Runs,
           LockedByOther
  <2> QED BY <2>1, <2>2 DEF IInv
<1>2. ASSUME NEW c \in Clients, ClientStep(c) PROVE IInv'
  BY <1>2, InvCall, InvGetConnection, InvNoConnection, InvNetworkFails DEF ClientStep
<1>3. ASSUME NEW x \in Slots, ServerStep(x) PROVE IInv'
  BY <1>3, InvUpsert, InvSelect, InvUpdate, InvUpdateCommit, InvAbort DEF ServerStep
<1> QED BY <1>1, <1>2, <1>3, InvOwner, InvCrash DEF Next

\* Every state of the store is well typed, and two UPDATEs never lock the same row,
\* those whose calls have failed among them.
THEOREM TypeCorrect == Spec => []TypeOK
<1> QED BY InvStarts, InvInductive, InvTypes, PTL DEF Spec

-------------------------------------------------------------------------------
(* The refinement.                                                         *)

Doubt == {stmt[l].call : l \in {l \in Lost : stmt[l] # None}}

LEMMA ContractStarts == Init => O!Init
<1> SUFFICES ASSUME Init PROVE O!Init
  OBVIOUS
<1>1. Doubt = {}
  BY DEF Init, Doubt, Slots
<1> QED BY <1>1 DEF Init, O!Init, Keys, O!Keys, NoReply, O!NoReply, Doubt

\* The mapped values are those of the store.
LEMMA SameTerms ==
  /\ O!Keys = Keys /\ O!Ok = Ok /\ O!Error = Error /\ O!NoReply = NoReply
  /\ \A v : O!Found(v) = Found(v)
  /\ \A q : O!KeyOf(q) = KeyOf(q)
  /\ \A q : O!KeysOf(q.projection) = Matching(q)
  /\ \A K, v : O!Assign(K, v) = [k \in Keys |-> IF k \in K THEN v ELSE table[k]]
  BY DEF Keys, O!Keys, Ok, O!Ok, Error, O!Error, NoReply, O!NoReply, Found, O!Found,
         KeyOf, O!KeyOf, Matching, O!KeysOf, O!Assign

\* What a step shows of the statements nobody waits for.
LEMMA DoubtKept ==
  ASSUME \A l \in Lost : /\ stmt'[l] = None <=> stmt[l] = None
                         /\ stmt[l] # None => stmt'[l].call = stmt[l].call
  PROVE  Doubt' = Doubt
  BY DEF Doubt

LEMMA DoubtFewer ==
  ASSUME \A l \in Lost : stmt'[l] # None => stmt[l] # None /\ stmt'[l].call = stmt[l].call
  PROVE  Doubt' \in SUBSET Doubt
  BY DEF Doubt

\* A call that ends without an answer.
LEMMA ContractFails ==
  ASSUME NEW c \in Clients, call[c] # None, Return(c, Error), UNCHANGED table,
         Doubt' \in {Doubt, Doubt \cup {call[c]}}
  PROVE  O!Next
<1>1. O!Fail(c)
  BY SameTerms DEF O!Fail, O!Return, Return, Doubt
<1> QED BY <1>1 DEF O!Next

LEMMA ClientSimulates ==
  ASSUME IInv, NEW c \in Clients, ClientStep(c)
  PROVE  O!Next \/ UNCHANGED O!vars
<1>1. CASE WriteOffset(c) \/ GetCurrentOffset(c) \/ ResetOffset(c)
  <2>1. PICK q \in O!Requests : Call(c, q, IF q.op = "reset" THEN O!KeysOf(q.projection) ELSE {})
    BY <1>1, Called
  <2>2. call[c] = None /\ UNCHANGED <<table, stmt>>
    BY <2>1 DEF Call, IInv, CallOK
  <2>3. Doubt' = Doubt
    BY <2>2 DEF Doubt
  <2>4. O!Begin(c, q)
    BY <2>1, <2>2, <2>3, SameTerms DEF Call, O!Begin, Doubt
  <2> QED BY <2>4 DEF O!Next
<1>2. CASE GetConnection(c)
  <2>1. UNCHANGED <<table, callVars>> /\ c \notin Lost
        /\ stmt' = [stmt EXCEPT ![c] = Statement(call[c])]
    BY <1>2, LostAssumption DEF GetConnection, Procs
  <2>2. \A l \in Lost : stmt'[l] = stmt[l]
    BY <2>1 DEF IInv, StmtOK, Slots
  <2>3. Doubt' = Doubt
    BY <2>2, DoubtKept
  <2> QED BY <2>1, <2>3 DEF callVars, O!vars, Doubt
<1>3. CASE NoConnection(c)
  <2>1. call[c] # None /\ Return(c, Error) /\ UNCHANGED <<table, stmt>>
    BY <1>3 DEF NoConnection, IInv, CallOK
  <2>2. Doubt' = Doubt
    BY <2>1 DEF Doubt
  <2> QED BY <2>1, <2>2, ContractFails
<1>4. CASE NetworkFails(c)
  <2>1. /\ Return(c, Error) /\ UNCHANGED table
        /\ stmt[c] # None /\ stmt[c].call = call[c] /\ call[c] # None
    BY <1>4, Abandoned
  <2>2. PICK l \in Lost \ Clients :
          /\ stmt[l] = None /\ stmt'[l] = stmt[c] /\ stmt'[c] = None
          /\ \A y \in Slots \ {c, l} : stmt'[y] = stmt[y]
    BY <1>4, Abandoned
  <2>3. \A m \in Lost \ {l} : stmt'[m] = stmt[m]
    BY <2>2, LostAssumption DEF Slots, Procs
  <2>4. Doubt' = Doubt \cup {call[c]}
    <3>1. Doubt' \subseteq Doubt \cup {call[c]}
      BY <2>1, <2>2, <2>3 DEF Doubt
    <3>2. call[c] \in Doubt'
      BY <2>1, <2>2 DEF Doubt
    <3>3. ASSUME NEW q \in Doubt PROVE q \in Doubt'
      <4>1. PICK m \in Lost : stmt[m] # None /\ q = stmt[m].call
        BY DEF Doubt
      <4>2. stmt'[m] # None /\ q = stmt'[m].call
        BY <2>2, <2>3, <4>1
      <4> QED BY <4>2 DEF Doubt
    <3> QED BY <3>1, <3>2, <3>3
  <2> QED BY <2>1, <2>4, ContractFails
<1> QED BY <1>1, <1>2, <1>3, <1>4 DEF ClientStep

\* A statement runs with a client that waits, or with none that does; it shows no
\* more once it has ended.
LEMMA DoneFor ==
  ASSUME IInv, NEW x \in Slots, NEW r, Done(x, r), stmt[x] # None,
         stmt' = [stmt EXCEPT ![x] = None]
  PROVE  \/ /\ x \in Clients /\ Return(x, r) /\ Doubt' = Doubt
            /\ call[x] # None /\ stmt[x].call = call[x]
         \/ /\ x \notin Clients /\ UNCHANGED <<call, seen, reply>>
            /\ stmt[x].call \in Doubt /\ Doubt' \in SUBSET Doubt
<1>1. stmt'[x] = None /\ \A y \in Slots \ {x} : stmt'[y] = stmt[y]
  BY DEF IInv, StmtOK
<1>2. CASE x \in Clients /\ Return(x, r)
  <2>1. x \notin Lost
    BY <1>2, LostAssumption DEF Procs
  <2>2. Doubt' = Doubt
    BY <1>1, <2>1, DoubtKept DEF Slots
  <2> QED BY <1>2, <2>2 DEF IInv, CallOK
<1>3. CASE x \in Lost /\ UNCHANGED <<poolVars, holds, pc, callVars>>
  <2>1. x \notin Clients
    BY <1>3, LostAssumption DEF Procs
  <2>2. Doubt' \in SUBSET Doubt
    BY <1>1, DoubtFewer DEF Slots
  <2> QED BY <1>3, <2>1, <2>2 DEF Doubt, callVars
<1> QED BY <1>2, <1>3 DEF Done

LEMMA UpsertSimulates ==
  ASSUME IInv, NEW x \in Slots, Upsert(x)
  PROVE  O!Next
<1>1. PICK r \in {Ok, Error} : Done(x, r)
  BY DEF Upsert
<1>2. stmt[x] # None /\ stmt' = [stmt EXCEPT ![x] = None]
  BY DEF Upsert, Ended, Runs
<1>3. stmt[x].call.op = "write"
      /\ table' = O!Assign({KeyOf(stmt[x].call)}, stmt[x].call.value)
  <2>1. stmt[x].call.op = "write" /\ KeyOf(stmt[x].call) \in Keys
    BY <1>2, Fields, Requested DEF Upsert, Runs, IInv, StmtOK
  <2> QED BY <2>1, SameTerms DEF Upsert, Excluded, IInv, StmtOK
<1>4. CASE /\ x \in Clients /\ Return(x, r) /\ Doubt' = Doubt
           /\ call[x] # None /\ stmt[x].call = call[x]
  <2>1. O!WriteOffset(x)
    BY <1>3, <1>4, SameTerms DEF O!WriteOffset, O!Return, Return, Doubt
  <2> QED BY <1>4, <2>1 DEF O!Next
<1>5. CASE /\ UNCHANGED <<call, seen, reply>>
           /\ stmt[x].call \in Doubt /\ Doubt' \in SUBSET Doubt
  <2>1. O!Late
    BY <1>3, <1>5, SameTerms DEF O!Late, Doubt
  <2> QED BY <2>1 DEF O!Next
<1> QED BY <1>1, <1>2, <1>4, <1>5, DoneFor

LEMMA SelectSimulates ==
  ASSUME IInv, NEW x \in Slots, Select(x)
  PROVE  O!Next
<1>1. /\ stmt[x] # None /\ stmt[x].call.op = "get" /\ UNCHANGED table
      /\ stmt' = [stmt EXCEPT ![x] = None] /\ Done(x, Found(table[KeyOf(stmt[x].call)]))
  BY DEF Select, Ended, Runs
<1>2. x \notin Lost
  BY DEF Select, IInv, StmtOK
<1>3. /\ x \in Clients /\ Return(x, Found(table[KeyOf(call[x])])) /\ Doubt' = Doubt
      /\ call[x] # None /\ call[x].op = "get"
  BY <1>1, <1>2, DoneFor DEF Slots
<1>4. O!GetCurrentOffset(x)
  BY <1>1, <1>3, SameTerms DEF O!GetCurrentOffset, O!Return, Return, Doubt
<1> QED BY <1>3, <1>4 DEF O!Next

LEMMA UpdateSimulates ==
  ASSUME IInv, NEW x \in Slots, UpdateStart(x) \/ UpdateRow(x)
  PROVE  UNCHANGED O!vars
<1>1. UNCHANGED <<table, callVars>> /\ stmt[x] # None
  BY Updating
<1>2. PICK s \in StatementType : stmt' = [stmt EXCEPT ![x] = s] /\ s.call = stmt[x].call
  BY Updating
<1>3. stmt'[x] = s /\ s # None /\ \A y \in Slots \ {x} : stmt'[y] = stmt[y]
  BY <1>2, NoRequestAssumption DEF IInv, StmtOK
<1>4. Doubt' = Doubt
  BY <1>1, <1>2, <1>3, DoubtKept DEF Slots
<1> QED BY <1>1, <1>4 DEF O!vars, callVars, Doubt

LEMMA CommitSimulates ==
  ASSUME IInv, NEW x \in Slots, UpdateCommit(x)
  PROVE  O!Next
<1> DEFINE q == stmt[x].call
           K == stmt[x].rows
<1>0. /\ q.op = "reset" /\ stmt[x] # None
      /\ K \in SUBSET Matching(q)
      /\ x \in Clients => seen[x] \subseteq K
      /\ table' = [k \in Keys |-> IF k \in K THEN q.value ELSE table[k]]
  BY Committing
<1>1. PICK r \in {Ok, Error} : Done(x, r)
  BY DEF UpdateCommit
<1>2. stmt' = [stmt EXCEPT ![x] = None]
  BY DEF UpdateCommit, Ended
<1>3. K \in SUBSET O!KeysOf(q.projection) /\ table' = O!Assign(K, q.value)
  BY <1>0, SameTerms
<1>4. CASE /\ x \in Clients /\ Return(x, r) /\ Doubt' = Doubt /\ call[x] # None /\ q = call[x]
  <2> HIDE DEF K
  <2>1. O!ResetOffset(x)
    BY <1>0, <1>3, <1>4, SameTerms DEF O!ResetOffset, O!Return, Return, Doubt
  <2> QED BY <1>4, <2>1 DEF O!Next
<1>5. CASE UNCHANGED <<call, seen, reply>> /\ q \in Doubt /\ Doubt' \in SUBSET Doubt
  <2> HIDE DEF K, q
  <2>1. O!Late
    BY <1>0, <1>3, <1>5 DEF O!Late, Doubt
  <2> QED BY <2>1 DEF O!Next
<1> QED BY <1>0, <1>1, <1>2, <1>4, <1>5, DoneFor

LEMMA AbortSimulates ==
  ASSUME IInv, NEW x \in Slots, Abort(x)
  PROVE  O!Next
<1>1. stmt[x] # None /\ Done(x, Error) /\ UNCHANGED table /\ stmt' = [stmt EXCEPT ![x] = None]
  BY DEF Abort, Ended
<1>2. CASE x \in Clients /\ Return(x, Error) /\ Doubt' = Doubt /\ call[x] # None
  BY <1>1, <1>2, ContractFails
<1>3. CASE UNCHANGED <<call, seen, reply>> /\ Doubt' \in SUBSET Doubt
  <2>1. O!Forget
    BY <1>1, <1>3 DEF O!Forget, Doubt
  <2> QED BY <2>1 DEF O!Next
<1> QED BY <1>1, <1>2, <1>3, DoneFor

LEMMA CrashSimulates ==
  ASSUME IInv, Crash
  PROVE  O!Next
<1>1. PICK from \in [Lost -> Slots] :
        stmt' = [x \in Slots |-> IF x \in Lost THEN stmt[from[x]] ELSE None]
  BY DEF Crash
<1>2. Doubt' \in SUBSET (Doubt \cup {call[c] : c \in Clients})
  <2>1. ASSUME NEW l \in Lost, stmt'[l] # None
        PROVE  stmt'[l].call \in Doubt \cup {call[c] : c \in Clients}
    <3>1. stmt'[l] = stmt[from[l]] /\ from[l] \in Clients \cup Lost
      BY <1>1 DEF Slots
    <3> QED BY <2>1, <3>1 DEF Doubt, IInv, CallOK
  <2> QED BY <2>1 DEF Doubt
<1>3. O!Crash
  BY <1>2, SameTerms DEF Crash, O!Crash, Doubt
<1> QED BY <1>3 DEF O!Next

LEMMA NextSimulates == IInv /\ [Next]_vars => [O!Next]_O!vars
<1> SUFFICES ASSUME IInv, [Next]_vars PROVE O!Next \/ UNCHANGED O!vars
  BY DEF O!vars
<1>1. CASE UNCHANGED vars
  BY <1>1 DEF vars, callVars, O!vars
<1>2. ASSUME NEW o \in Owners, OwnerStep(o) PROVE UNCHANGED O!vars
  BY <1>2 DEF OwnerStep, callVars, O!vars
<1>3. ASSUME NEW x \in Slots, ServerStep(x) PROVE O!Next \/ UNCHANGED O!vars
  BY <1>3, UpsertSimulates, SelectSimulates, UpdateSimulates, CommitSimulates,
     AbortSimulates
     DEF ServerStep
<1> QED BY <1>1, <1>2, <1>3, ClientSimulates, CrashSimulates DEF Next

\* Any number of concurrent callers see a table of offsets whose operations take
\* effect at one moment of the call, or, if it failed or its program died, at any
\* moment after it began or never; and a ResetOffset misses no shard that had an
\* offset when it was called, whatever waits, fails or crashes.
THEOREM ImplementsOffsets == Spec => RefinesOffsets
<1> QED BY InvStarts, InvInductive, ContractStarts, NextSimulates, PTL
        DEF Spec, RefinesOffsets, O!Spec
===============================================================================
