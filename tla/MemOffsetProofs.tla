---------------------------- MODULE MemOffsetProofs ----------------------------
(***************************************************************************)
(* Proofs about MemOffsetStore, for any sets of clients, owners,           *)
(* projections, shards and values and any supply of uuids: its types, and  *)
(* that offsets agree as long as nothing runs beside a ResetOffset.        *)
(***************************************************************************)
EXTENDS MemOffsetStore, TLAPS

PCs == {"idle", "connect", "new", "connected", "clear", "disconnected",
        "write", "get", "read", "assign"}

\* Rows are inserted again in the order of their uuids, so the row index ends at
\* the last one: any set of uuids drawn so far has one.
DrawnInv == \A S \in SUBSET used : S # {} => \E m \in S : \A o \in S : o <= m

\* Where a client can be.
CallInv == \A c \in Clients : pc[c] \in {"idle", "write", "get", "read", "assign"}

\* What a reset that runs alone has done so far: it has read every row of its
\* projection, and has assigned to those it has not to do any more.
ResetInv ==
  \A c \in Clients : pc[c] = "assign" =>
    /\ \A d \in Clients : pc[d] = "assign" => d = c
    /\ offsetRows[c] = RowsOf(key[c][1]) /\ todo[c] \subseteq offsetRows[c]
    /\ \A o \in offsetRows[c] \ todo[c] : value[o] = arg[c]

\* The shards the store can be held to: with the flag, those it has a row of.
Held(k) == KeepRecordsAfterDisconnect => HasRow(k)

\* Of those, only the shards of its projection that have a row can differ
\* meanwhile.
AgreeInv ==
  \A k \in Keys : Held(k) /\ Current(k) # committed[k] =>
    current[k] # None /\ \E c \in Clients : pc[c] = "assign" /\ key[c][1] = k[1]

IInv == TypeOK /\ DrawnInv /\ CallInv /\ (alone => ResetInv /\ AgreeInv)

\* What a step of g leaves of a run in which every reset was alone: no other
\* client is in a reset, and outside of one the offsets agree.
LEMMA AloneStep ==
  ASSUME IInv, NEW g \in Procs, Step(g), alone'
  PROVE  /\ alone /\ ResetInv /\ AgreeInv
         /\ \A d \in Clients \ {g} : pc[d] # "assign"
         /\ g \notin Clients \/ pc[g] # "assign" =>
              \A k \in Keys : Held(k) => Current(k) = committed[k]
<1>1. alone /\ \A d \in Clients \ {g} : pc[d] # "assign"
  BY DEF Step
<1>2. ResetInv /\ AgreeInv
  BY <1>1 DEF IInv
<1> QED BY <1>1, <1>2 DEF AgreeInv

-------------------------------------------------------------------------------
(* The invariant.                                                          *)

LEMMA InvStarts == Init => IInv
<1> SUFFICES ASSUME Init PROVE IInv
  OBVIOUS
<1>1. pc \in [Procs -> PCs] /\ \A c \in Clients : pc[c] = "idle"
  BY DEF Init, Procs, PCs
<1>2. current \in [Keys -> Orderings \cup {None}] /\ committed \in [Keys -> Values \cup {None}]
      /\ \A k \in Keys : current[k] = None /\ committed[k] = None
  BY DEF Init, NoOffsets
<1>3. rowKey \in [Orderings -> Keys \cup {None}] /\ value \in [Orderings -> Values \cup {None}]
  BY DEF Init, NoRow
<1>4. TypeOK
  BY <1>1, <1>2, <1>3 DEF Init, TypeOK, PCs
<1>5. DrawnInv /\ CallInv /\ ResetInv
  BY <1>1 DEF Init, DrawnInv, CallInv, ResetInv
<1>6. AgreeInv
  BY <1>2 DEF AgreeInv, Current
<1> QED BY <1>4, <1>5, <1>6 DEF IInv

LEMMA InvOwner ==
  ASSUME IInv, NEW o \in Owners, OwnerStep(o), Step(o)
  PROVE  IInv'
<1>1. /\ UNCHANGED <<rowKey, value, used, KeepRecordsAfterDisconnect, callVars>>
      /\ connected' \in BOOLEAN /\ allocated' \in BOOLEAN
      /\ \/ UNCHANGED <<table, current, committed>>
         \/ /\ table' = {} /\ current' = NoOffsets
            /\ \/ committed' = NoOffsets
               \/ KeepRecordsAfterDisconnect /\ committed' = committed
      /\ pc' \in [Procs -> PCs] /\ \A c \in Clients : pc'[c] = pc[c]
  <2> USE ProcsAssumption DEF IInv, TypeOK, Procs, PCs, Goto, dbVars
  <2>1. CASE Connect(o)
    BY <2>1 DEF Connect
  <2>2. CASE ConnectNewDB(o)
    BY <2>2 DEF ConnectNewDB, Empty
  <2>3. CASE ConnectStore(o)
    BY <2>3 DEF ConnectStore
  <2>4. CASE Disconnect(o)
    BY <2>4 DEF Disconnect
  <2>5. CASE DisconnectClear(o)
    BY <2>5 DEF DisconnectClear, Empty
  <2>6. CASE DisconnectStore(o)
    BY <2>6 DEF DisconnectStore
  <2>7. CASE Ping(o)
    BY <2>7 DEF Ping
  <2> QED BY <2>1, <2>2, <2>3, <2>4, <2>5, <2>6, <2>7 DEF OwnerStep
<1>2. /\ current' \in [Keys -> Orderings \cup {None}] /\ committed' \in [Keys -> Values \cup {None}]
      /\ table' \subseteq used'
      /\ \A k \in Keys : current'[k] # None => current'[k] \in table' /\ rowKey'[current'[k]] = k
      /\ alone' \in BOOLEAN
  BY <1>1 DEF IInv, TypeOK, NoOffsets, Step
<1>3. TypeOK'
  BY <1>1, <1>2 DEF IInv, TypeOK, PCs, callVars
<1>4. DrawnInv' /\ CallInv'
  BY <1>1 DEF IInv, DrawnInv, CallInv
<1>5. ASSUME alone' PROVE ResetInv' /\ AgreeInv'
  <2>1. /\ \A c \in Clients : pc'[c] # "assign"
        /\ \A k \in Keys : Held(k) => Current(k) = committed[k]
    BY <1>1, <1>5, AloneStep, ProcsAssumption DEF Procs
  <2>2. ASSUME NEW k \in Keys, Held(k)' PROVE Current(k)' = committed'[k]
    <3>1. CASE UNCHANGED <<table, current, committed>>
      BY <1>1, <2>1, <2>2, <3>1 DEF Current, Held, HasRow
    <3>2. CASE current' = NoOffsets /\ committed' = NoOffsets
      BY <3>2 DEF Current, NoOffsets
    <3>3. CASE table' = {} /\ KeepRecordsAfterDisconnect
      BY <1>1, <2>2, <3>3 DEF Held, HasRow
    <3> QED BY <1>1, <3>1, <3>2, <3>3
  <2> QED BY <2>1, <2>2 DEF ResetInv, AgreeInv
<1> QED BY <1>3, <1>4, <1>5 DEF IInv

\* A client that is in no reset goes on, and the database stays as it is.
LEMMA InvOutside ==
  ASSUME IInv, NEW c \in Clients, Step(c),
         UNCHANGED <<dbVars, connected, todo, committed>>,
         pc[c] # "assign", NEW l \in {"idle", "write", "get", "read"}, Goto(c, l),
         key' \in [Clients -> ((Projections \cup {NoName}) \X (Shards \cup {None})) \cup {None}],
         arg' \in [Clients -> Values \cup {None}],
         offsetRows' \in [Clients -> SUBSET used]
  PROVE  IInv'
<1>1. /\ pc' \in [Procs -> PCs]
      /\ pc'[c] = l /\ \A d \in Clients \ {c} : pc'[d] = pc[d]
  BY DEF IInv, TypeOK, Goto, Procs, PCs
<1>2. TypeOK'
  BY <1>1 DEF IInv, TypeOK, PCs, dbVars, Step
<1>3. DrawnInv' /\ CallInv'
  BY <1>1 DEF IInv, DrawnInv, CallInv, dbVars
<1>4. ASSUME alone' PROVE ResetInv' /\ AgreeInv'
  <2>1. /\ \A d \in Clients : pc'[d] # "assign"
        /\ \A k \in Keys : Held(k) => Current(k) = committed[k]
    BY <1>1, <1>4, AloneStep DEF Procs
  <2>2. \A k \in Keys : Held(k)' => Current(k)' = committed'[k]
    BY <2>1 DEF Current, Held, HasRow, dbVars
  <2> QED BY <2>1, <2>2 DEF ResetInv, AgreeInv
<1> QED BY <1>2, <1>3, <1>4 DEF IInv

LEMMA InvCall ==
  ASSUME IInv, NEW c \in Clients, WriteOffset(c) \/ GetCurrentOffset(c) \/ ResetOffset(c), Step(c)
  PROVE  IInv'
<1>1. PICK l \in {"write", "get", "read"},
           k \in (Projections \cup {NoName}) \X (Shards \cup {None}), v \in Values \cup {None} :
        Call(c, l, k, v)
  <2>1. CASE WriteOffset(c)
    BY <2>1 DEF WriteOffset
  <2>2. CASE GetCurrentOffset(c)
    BY <2>2 DEF GetCurrentOffset, Keys
  <2>3. CASE ResetOffset(c)
    BY <2>3 DEF ResetOffset
  <2> QED BY <2>1, <2>2, <2>3
<1>2. /\ key' = [key EXCEPT ![c] = k] /\ arg' = [arg EXCEPT ![c] = v] /\ offsetRows' = offsetRows
      /\ Goto(c, l) /\ pc[c] = "idle" /\ UNCHANGED <<dbVars, connected, todo, committed>>
  BY <1>1 DEF Call
<1>3. /\ key' \in [Clients -> ((Projections \cup {NoName}) \X (Shards \cup {None})) \cup {None}]
      /\ arg' \in [Clients -> Values \cup {None}] /\ offsetRows' \in [Clients -> SUBSET used]
  BY <1>2 DEF IInv, TypeOK
<1> QED BY <1>2, <1>3, InvOutside

\* The types of what Return leaves of a call.
LEMMA Returned ==
  ASSUME IInv, NEW c \in Clients, Return(c)
  PROVE  /\ key' \in [Clients -> ((Projections \cup {NoName}) \X (Shards \cup {None})) \cup {None}]
         /\ arg' \in [Clients -> Values \cup {None}]
         /\ offsetRows' \in [Clients -> SUBSET used]
         /\ pc' \in [Procs -> PCs] /\ pc'[c] = "idle" /\ \A d \in Clients \ {c} : pc'[d] = pc[d]
         /\ UNCHANGED <<todo, connected>>
  BY DEF IInv, TypeOK, Return, Goto, Procs, PCs

LEMMA InvReturn ==
  ASSUME IInv, NEW c \in Clients, WriteAbort(c) \/ GetRead(c), Step(c)
  PROVE  IInv'
<1>1. Return(c) /\ pc[c] # "assign" /\ UNCHANGED <<dbVars, committed>>
  BY DEF WriteAbort, GetRead
<1> QED BY <1>1, Returned, InvOutside DEF Return

LEMMA InvWriteCommit ==
  ASSUME IInv, NEW c \in Clients, WriteCommit(c), Step(c)
  PROVE  IInv'
<1>0. PICK k \in Keys, v \in Values \cup {None} : k = key[c] /\ v = arg[c]
  BY DEF WriteCommit, Insertable, IInv, TypeOK
<1>1. PICK o \in Orderings \ used :
        /\ table' = table \cup {o}
        /\ rowKey' = [rowKey EXCEPT ![o] = k]
        /\ value' = [value EXCEPT ![o] = v]
        /\ current' = [current EXCEPT ![k] = o]
        /\ used' = used \cup {o}
  BY <1>0 DEF WriteCommit, PointTo
<1>2. /\ pc[c] = "write"
      /\ committed' = [committed EXCEPT ![k] = v]
      /\ Return(c) /\ UNCHANGED <<allocated, KeepRecordsAfterDisconnect>>
  BY <1>0 DEF WriteCommit
<1>3. o # None /\ k # None /\ o \in Nat
  BY NoneAssumption, OrderingsAssumption
<1>4. /\ current' \in [Keys -> Orderings \cup {None}] /\ rowKey' \in [Orderings -> Keys \cup {None}]
      /\ value' \in [Orderings -> Values \cup {None}] /\ committed' \in [Keys -> Values \cup {None}]
      /\ table' \subseteq used' /\ used' \subseteq Orderings
  BY <1>1, <1>2 DEF IInv, TypeOK
<1>5. /\ \A q \in used : rowKey'[q] = rowKey[q] /\ value'[q] = value[q]
      /\ rowKey'[o] = k /\ value'[o] = v
      /\ current'[k] = o /\ \A l \in Keys \ {k} : current'[l] = current[l]
      /\ committed'[k] = v /\ \A l \in Keys \ {k} : committed'[l] = committed[l]
  BY <1>1, <1>2 DEF IInv, TypeOK
<1>6. TypeOK'
  <2>1. \A q \in used' : rowKey'[q] # None
    BY <1>1, <1>3, <1>5 DEF IInv, TypeOK
  <2>2. \A l \in Keys : current'[l] # None => current'[l] \in table' /\ rowKey'[current'[l]] = l
    BY <1>1, <1>5 DEF IInv, TypeOK
  <2>3. offsetRows' \in [Clients -> SUBSET used'] /\ todo' \in [Clients -> SUBSET used']
    BY <1>1, <1>2, Returned DEF IInv, TypeOK
  <2> QED BY <1>2, <1>4, <2>1, <2>2, <2>3, Returned DEF IInv, TypeOK, PCs, Step
<1>7. DrawnInv'
  <2> SUFFICES ASSUME NEW S \in SUBSET used', S # {} PROVE \E m \in S : \A q \in S : q <= m
    BY DEF DrawnInv
  <2>1. S \subseteq Nat
    BY <1>4, OrderingsAssumption
  <2>2. CASE S \ {o} = {}
    <3>1. S = {o} /\ o <= o
      BY <1>3, <2>2
    <3> QED BY <3>1
  <2>3. CASE S \ {o} # {}
    <3>1. PICK m \in S \ {o} : \A q \in S \ {o} : q <= m
      BY <1>1, <2>3 DEF IInv, DrawnInv
    <3>2. CASE o \in S /\ m < o
      BY <2>1, <3>1, <3>2
    <3>3. CASE o \notin S \/ ~(m < o)
      BY <1>3, <2>1, <3>1, <3>3
    <3> QED BY <3>2, <3>3
  <2> QED BY <2>2, <2>3
<1>8. CallInv'
  BY <1>2, Returned DEF IInv, CallInv
<1>9. ASSUME alone' PROVE ResetInv' /\ AgreeInv'
  <2>1. /\ \A d \in Clients : pc'[d] # "assign"
        /\ \A l \in Keys : Held(l) => Current(l) = committed[l]
    BY <1>2, <1>9, AloneStep, Returned DEF Procs
  <2>2. Current(k)' = committed'[k]
    BY <1>2, <1>3, <1>5 DEF Current
  <2>3. ASSUME NEW l \in Keys \ {k}, Held(l)' PROVE Current(l)' = committed'[l]
    <3>0. Held(l)
      BY <1>1, <1>2, <1>5, <2>3 DEF Held, HasRow, IInv, TypeOK
    <3>1. current[l] # None => current[l] \in used
      BY DEF IInv, TypeOK
    <3>2. current'[l] = current[l] /\ (current[l] # None => value'[current[l]] = value[current[l]])
      BY <1>5, <3>1
    <3>3. Current(l)' = Current(l)
      BY <3>2 DEF Current
    <3>4. l \in Keys /\ committed'[l] = committed[l]
      BY <1>5
    <3> QED BY <2>1, <3>0, <3>3, <3>4
  <2> QED BY <2>1, <2>2, <2>3 DEF ResetInv, AgreeInv
<1> QED BY <1>6, <1>7, <1>8, <1>9 DEF IInv

LEMMA InvResetRead ==
  ASSUME IInv, NEW c \in Clients, ResetRead(c), Step(c)
  PROVE  IInv'
<1> DEFINE R == RowsOf(key[c][1])
<1>1. /\ pc[c] = "read"
      /\ offsetRows' = [offsetRows EXCEPT ![c] = R]
      /\ todo' = [todo EXCEPT ![c] = R]
      /\ pc' = [pc EXCEPT ![c] = "assign"]
      /\ UNCHANGED <<table, current, rowKey, value, used, allocated, KeepRecordsAfterDisconnect,
                     connected, key, arg, committed>>
  BY DEF ResetRead, Goto, dbVars
<1>2. R \in SUBSET used /\ R' = R
  BY <1>1 DEF RowsOf, IInv, TypeOK
<1> HIDE DEF R
<1>3. /\ pc' \in [Procs -> PCs]
      /\ pc'[c] = "assign" /\ \A d \in Clients \ {c} : pc'[d] = pc[d]
      /\ offsetRows' \in [Clients -> SUBSET used] /\ offsetRows'[c] = R
      /\ todo' \in [Clients -> SUBSET used] /\ todo'[c] = R
  BY <1>1, <1>2 DEF IInv, TypeOK, Procs, PCs
<1>4. TypeOK'
  BY <1>1, <1>3 DEF IInv, TypeOK, PCs, Step
<1>5. DrawnInv' /\ CallInv'
  BY <1>1, <1>3 DEF IInv, DrawnInv, CallInv
<1>6. ASSUME alone' PROVE ResetInv' /\ AgreeInv'
  <2>1. /\ \A d \in Clients \ {c} : pc'[d] # "assign"
        /\ \A k \in Keys : Held(k) => Current(k) = committed[k]
    BY <1>1, <1>3, <1>6, AloneStep DEF Procs
  <2>2. ResetInv'
    BY <1>2, <1>3, <2>1 DEF ResetInv, R
  <2>3. AgreeInv'
    BY <1>1, <2>1 DEF AgreeInv, Current, Held, HasRow
  <2> QED BY <2>2, <2>3
<1> QED BY <1>4, <1>5, <1>6 DEF IInv

LEMMA InvResetAssign ==
  ASSUME IInv, NEW c \in Clients, ResetAssign(c), Step(c)
  PROVE  IInv'
<1>1. PICK o \in todo[c] :
        /\ value' = [value EXCEPT ![o] = arg[c]]
        /\ todo' = [todo EXCEPT ![c] = todo[c] \ {o}]
  BY DEF ResetAssign
<1>2. /\ pc[c] = "assign"
      /\ UNCHANGED <<table, current, rowKey, used, allocated, KeepRecordsAfterDisconnect,
                     connected, pc, key, arg, offsetRows, committed>>
  BY DEF ResetAssign
<1>3. /\ o \in used /\ o \in Orderings
      /\ todo' \in [Clients -> SUBSET used] /\ todo'[c] = todo[c] \ {o}
      /\ value' \in [Orderings -> Values \cup {None}]
      /\ value'[o] = arg[c] /\ \A q \in Orderings \ {o} : value'[q] = value[q]
  BY <1>1 DEF IInv, TypeOK
<1>4. TypeOK'
  BY <1>2, <1>3 DEF IInv, TypeOK, Step
<1>5. DrawnInv' /\ CallInv'
  BY <1>2 DEF IInv, DrawnInv, CallInv
<1>6. ASSUME alone' PROVE ResetInv' /\ AgreeInv'
  <2>1. ResetInv /\ AgreeInv /\ \A d \in Clients \ {c} : pc'[d] # "assign"
    BY <1>2, <1>6, AloneStep DEF Procs
  <2>2. offsetRows[c] \subseteq Orderings /\ offsetRows[c] = RowsOf(key[c][1])
        /\ RowsOf(key[c][1])' = RowsOf(key[c][1])
    BY <1>2, <2>1 DEF ResetInv, RowsOf, IInv, TypeOK
  <2>3. \A q \in offsetRows[c] \ todo'[c] : value'[q] = arg[c]
    BY <1>2, <1>3, <2>1, <2>2 DEF ResetInv
  <2>4. ResetInv'
    <3>1. offsetRows'[c] = RowsOf(key[c][1])' /\ todo'[c] \subseteq offsetRows'[c]
      BY <1>2, <1>3, <2>1, <2>2 DEF ResetInv
    <3> QED BY <1>2, <2>1, <2>3, <3>1 DEF ResetInv
  <2>5. AgreeInv'
    <3> SUFFICES ASSUME NEW k \in Keys, Held(k)', Current(k)' # committed'[k]
                 PROVE  current'[k] # None /\ pc'[c] = "assign" /\ key'[c][1] = k[1]
      BY DEF AgreeInv
    <3>1. CASE Current(k) # committed[k]
      <4>1. Held(k)
        BY <1>2 DEF Held, HasRow
      <4> QED BY <3>1, <4>1, <1>2, <2>1 DEF AgreeInv
    <3>2. CASE Current(k) = committed[k]
      <4>1. current[k] = o
        BY <3>2, <1>2, <1>3 DEF Current, IInv, TypeOK
      <4>2. o \in offsetRows[c] /\ rowKey[o] = k /\ o # None
        BY <1>1, <1>3, <2>1, <4>1, <1>2, NoneAssumption DEF ResetInv, IInv, TypeOK
      <4>3. k[1] = key[c][1]
        BY <2>2, <4>2 DEF RowsOf
      <4> QED BY <1>2, <4>1, <4>2, <4>3
    <3> QED BY <3>1, <3>2
  <2> QED BY <2>4, <2>5
<1> QED BY <1>4, <1>5, <1>6 DEF IInv

LEMMA InvResetCommit ==
  ASSUME IInv, NEW c \in Clients, ResetCommit(c), Step(c)
  PROVE  IInv'
<1> DEFINE of(k) == {o \in offsetRows[c] : rowKey[o] = k}
<1>1. /\ pc[c] = "assign" /\ todo[c] = {}
      /\ table' = table \cup offsetRows[c]
      /\ current' = [k \in Keys |->
           IF of(k) = {} THEN current[k] ELSE CHOOSE o \in of(k) : \A q \in of(k) : q <= o]
      /\ committed' = [k \in Keys |-> IF of(k) = {} THEN committed[k] ELSE arg[c]]
      /\ Return(c)
      /\ UNCHANGED <<rowKey, value, used, allocated, KeepRecordsAfterDisconnect>>
  BY DEF ResetCommit
<1>2. offsetRows[c] \in SUBSET used /\ used \subseteq Orderings /\ arg[c] \in Values \cup {None}
  BY DEF IInv, TypeOK
<1>3. ASSUME NEW k \in Keys, of(k) # {}
      PROVE  current'[k] \in of(k)
  <2>1. \E o \in of(k) : \A q \in of(k) : q <= o
    BY <1>2, <1>3 DEF IInv, DrawnInv
  <2> QED BY <1>1, <1>3, <2>1
<1>4. ASSUME NEW k \in Keys
      PROVE  IF of(k) = {} THEN current'[k] = current[k] /\ committed'[k] = committed[k]
             ELSE /\ current'[k] \in offsetRows[c] /\ rowKey[current'[k]] = k
                  /\ current'[k] # None /\ committed'[k] = arg[c]
  <2>1. of(k) \subseteq offsetRows[c] /\ None \notin offsetRows[c] /\ \A o \in of(k) : rowKey[o] = k
    BY <1>2, NoneAssumption
  <2> QED BY <1>1, <1>3, <2>1
<1>5. DOMAIN current' = Keys /\ DOMAIN committed' = Keys
      /\ current' = [k \in Keys |-> current'[k]] /\ committed' = [k \in Keys |-> committed'[k]]
  BY <1>1
<1>6. ASSUME NEW k \in Keys, of(k) = {} PROVE k \in Keys /\ \A o \in offsetRows[c] : rowKey[o] # k
  BY <1>6
<1> HIDE DEF of
<1>7. TypeOK'
  <2>1. \A k \in Keys : current'[k] \in Orderings \cup {None} /\ committed'[k] \in Values \cup {None}
    BY <1>2, <1>4 DEF IInv, TypeOK
  <2>2. \A k \in Keys : current'[k] # None => current'[k] \in table' /\ rowKey[current'[k]] = k
    BY <1>1, <1>4 DEF IInv, TypeOK
  <2>3. table' \subseteq used
    BY <1>1, <1>2 DEF IInv, TypeOK
  <2>4. current' \in [Keys -> Orderings \cup {None}] /\ committed' \in [Keys -> Values \cup {None}]
    BY <1>5, <2>1
  <2> QED BY <1>1, <2>2, <2>3, <2>4, Returned DEF IInv, TypeOK, PCs, Step
<1>8. DrawnInv' /\ CallInv'
  BY <1>1, Returned DEF IInv, DrawnInv, CallInv
<1>9. ASSUME alone' PROVE ResetInv' /\ AgreeInv'
  <2>1. ResetInv /\ AgreeInv /\ \A d \in Clients : pc'[d] # "assign"
    BY <1>1, <1>9, AloneStep, Returned DEF Procs
  <2>2. \A d \in Clients : pc[d] = "assign" => d = c
    BY <1>1, <2>1 DEF ResetInv
  <2>3. offsetRows[c] = RowsOf(key[c][1]) /\ \A o \in offsetRows[c] : value[o] = arg[c]
    BY <1>1, <2>1 DEF ResetInv
  <2>4. ASSUME NEW k \in Keys, Held(k)' PROVE Current(k)' = committed'[k]
    <3>1. CASE of(k) # {}
      BY <1>1, <1>4, <2>3, <3>1 DEF Current
    <3>2. CASE of(k) = {}
      <4>1. Current(k)' = Current(k) /\ committed'[k] = committed[k]
        BY <1>1, <1>4, <3>2 DEF Current
      <4>2. CASE Current(k) # committed[k]
        <5>1. Held(k)
          BY <1>1, <2>3, <2>4 DEF Held, HasRow, RowsOf
        <5>2. current[k] \in table /\ rowKey[current[k]] = k /\ key[c][1] = k[1]
          BY <2>1, <2>2, <4>2, <5>1 DEF AgreeInv, IInv, TypeOK
        <5>3. current[k] \in offsetRows[c]
          BY <2>3, <5>2 DEF RowsOf
        <5> QED BY <1>6, <3>2, <5>2, <5>3
      <4> QED BY <4>1, <4>2
    <3> QED BY <3>1, <3>2
  <2> QED BY <2>1, <2>4 DEF ResetInv, AgreeInv
<1> QED BY <1>7, <1>8, <1>9 DEF IInv

LEMMA InvInductive == IInv /\ [Next]_vars => IInv'
<1> SUFFICES ASSUME IInv, [Next]_vars PROVE IInv'
  OBVIOUS
<1>1. CASE UNCHANGED vars
  BY <1>1
     DEF vars, dbVars, callVars, IInv, TypeOK, DrawnInv, CallInv, ResetInv, AgreeInv,
         Current, RowsOf, Held, HasRow
<1>2. ASSUME NEW c \in Clients, ClientStep(c), Step(c) PROVE IInv'
  BY <1>2, InvCall, InvReturn, InvWriteCommit, InvResetRead, InvResetAssign,
     InvResetCommit
     DEF ClientStep
<1> QED BY <1>1, <1>2, InvOwner DEF Next

-------------------------------------------------------------------------------
\* Every state of the store is well typed; in particular the row index points to
\* rows of the table that have the key it is asked for.
THEOREM TypeCorrect == Spec => []TypeOK
<1>1. IInv => TypeOK
  BY DEF IInv
<1> QED BY <1>1, InvStarts, InvInductive, PTL DEF Spec

\* GetCurrentOffset finds what the last WriteOffset or ResetOffset has given to a
\* shard, as long as nothing has run beside a ResetOffset, whatever the number of
\* rows that WriteOffset has left behind and the order of their uuids.  A store
\* told to keep its records is held to it where it has a row.
THEOREM OffsetsOfSerialResets == Spec => []OffsetsAgree
<1>1. IInv => OffsetsAgree
  BY DEF IInv, AgreeInv, OffsetsAgree, Held
<1> QED BY <1>1, InvStarts, InvInductive, PTL DEF Spec
==============================================================================
