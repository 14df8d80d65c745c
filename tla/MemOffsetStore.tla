---------------------------- MODULE MemOffsetStore ----------------------------
(***************************************************************************)
(* offsetstore/memory: the offset of each shard of each projection, kept in*)
(* a hashicorp/go-memdb table.                                             *)
(*                                                                         *)
(* The table holds pointers.  WriteOffset adds a row under a fresh uuid and*)
(* points the unique row index (projection, shard) to it; the rows it      *)
(* supersedes stay in the table.  ResetOffset reads all the rows of a      *)
(* projection, assigns to them in place, outside of any transaction and    *)
(* seen by every reader, and then inserts them again in the order of their *)
(* uuids.  A row's value and timestamp are assigned together here.         *)
(***************************************************************************)
EXTENDS Naturals, FiniteSets

CONSTANTS
  Clients,      \* goroutines that write, read and reset offsets
  Owners,       \* goroutines that call Connect, Disconnect and Ping
  Orderings,    \* the uuids that can be drawn (bounds the rows ever written)
  Projections,  \* the projection names, not the empty one
  NoName,       \* the empty projection name, which no index accepts
  Shards,       \* the shard numbers
  Values,       \* the values of offsets
  None

Keys == Projections \X Shards

ASSUME OrderingsAssumption == Orderings \subseteq Nat
ASSUME NoNameAssumption == NoName \notin Projections
ASSUME NoneAssumption == None \notin Orderings \cup Values /\ None \notin Keys
ASSUME ProcsAssumption == Clients \cap Owners = {}

Procs == Clients \cup Owners

VARIABLES
  table,      \* the uuids of the rows in the table
  current,    \* the row index: the uuid of the row of each key, or None
  rowKey,     \* the memory of the row of each uuid: its projection and shard
  value,      \* and its value
  used,       \* the uuids drawn so far
  allocated,  \* whether x.db points to a database
  connected,  \* x.connected
  KeepRecordsAfterDisconnect,
  pc,         \* where each goroutine is
  key,        \* the projection and shard a client writes, reads or resets
  arg,        \* the value it writes or resets to
  offsetRows, \* the uuids of the rows its ResetOffset has read
  todo,       \* those it still has to assign to
  committed,  \* history: the value the last transaction gave to each key, for as
              \* long as the store is to keep it
  alone       \* history: whether nothing else ran while a ResetOffset did

dbVars == <<table, current, rowKey, value, used, allocated, KeepRecordsAfterDisconnect>>
callVars == <<key, arg, offsetRows, todo>>
vars == <<dbVars, connected, pc, callVars, committed, alone>>

NoRow == [o \in Orderings |-> None]
NoOffsets == [k \in Keys |-> None]

\* The value GetCurrentOffset finds: that of the row the row index points to.
Current(k) == IF current[k] = None THEN None ELSE value[current[k]]

HasRow(k) == \E o \in table : rowKey[o] = k

Init ==
  /\ table = {}
  /\ current = NoOffsets
  /\ rowKey = NoRow
  /\ value = NoRow
  /\ used = {}
  /\ allocated = FALSE
  /\ connected = FALSE
  /\ KeepRecordsAfterDisconnect \in BOOLEAN
  /\ pc = [g \in Procs |-> "idle"]
  /\ key = [c \in Clients |-> None]
  /\ arg = [c \in Clients |-> None]
  /\ offsetRows = [c \in Clients |-> {}]
  /\ todo = [c \in Clients |-> {}]
  /\ committed = NoOffsets
  /\ alone = TRUE

Goto(g, label) == pc' = [pc EXCEPT ![g] = label]

\* g takes a step: is another goroutine between the transactions of a reset?
Step(g) == alone' = (alone /\ \A c \in Clients \ {g} : pc[c] # "assign")

-------------------------------------------------------------------------------
(* Connect, Disconnect and Ping.  Connect makes a new database whatever the*)
(* flag is; what a store with the flag had is gone then, though committed  *)
(* says that it is to be kept.                                             *)

Empty == /\ table' = {}
         /\ current' = NoOffsets
         /\ UNCHANGED <<rowKey, value, used, KeepRecordsAfterDisconnect>>

Connect(o) ==
  /\ pc[o] \in {"idle", "connect"}
  /\ Goto(o, IF connected THEN "idle" ELSE "new")
  /\ UNCHANGED <<dbVars, connected, callVars, committed>>

ConnectNewDB(o) ==
  /\ pc[o] = "new"
  /\ Empty
  /\ committed' = IF KeepRecordsAfterDisconnect THEN committed ELSE NoOffsets
  /\ allocated' = TRUE
  /\ Goto(o, "connected")
  /\ UNCHANGED <<connected, callVars>>

ConnectStore(o) ==
  /\ pc[o] = "connected"
  /\ connected' = TRUE
  /\ Goto(o, "idle")
  /\ UNCHANGED <<dbVars, callVars, committed>>

Disconnect(o) ==
  /\ pc[o] = "idle"
  /\ connected
  /\ Goto(o, IF KeepRecordsAfterDisconnect THEN "disconnected" ELSE "clear")
  /\ UNCHANGED <<dbVars, connected, callVars, committed>>

DisconnectClear(o) ==
  /\ pc[o] = "clear"
  /\ Empty
  /\ committed' = NoOffsets
  /\ Goto(o, "disconnected")
  /\ UNCHANGED <<allocated, connected, callVars>>

DisconnectStore(o) ==
  /\ pc[o] = "disconnected"
  /\ connected' = FALSE
  /\ Goto(o, "idle")
  /\ UNCHANGED <<dbVars, callVars, committed>>

Ping(o) ==
  /\ pc[o] = "idle"
  /\ ~connected
  /\ Goto(o, "connect")
  /\ UNCHANGED <<dbVars, connected, callVars, committed>>

-------------------------------------------------------------------------------
(* WriteOffset, GetCurrentOffset and ResetOffset.  A call while the store  *)
(* is not connected returns an error and changes nothing.                  *)

Call(c, label, k, v) ==
  /\ pc[c] = "idle"
  /\ connected
  /\ key' = [key EXCEPT ![c] = k]
  /\ arg' = [arg EXCEPT ![c] = v]
  /\ Goto(c, label)
  /\ UNCHANGED <<dbVars, connected, offsetRows, todo, committed>>

Return(c) ==
  /\ key' = [key EXCEPT ![c] = None]
  /\ arg' = [arg EXCEPT ![c] = None]
  /\ offsetRows' = [offsetRows EXCEPT ![c] = {}]
  /\ Goto(c, "idle")
  /\ UNCHANGED <<todo, connected>>

WriteOffset(c) == \E p \in Projections \cup {NoName}, s \in Shards, v \in Values :
  Call(c, "write", <<p, s>>, v)

\* A unique index accepts a new row for its value; a mutant keeps the old one.
KeepFirst(k, o) == [current EXCEPT ![k] = IF current[k] = None THEN o ELSE current[k]]

PointTo(k, o) == [current EXCEPT ![k] = o]

\* txn.Insert fails on a row without a projection name; a mutant accepts it.
AnyKey(k) == TRUE

Insertable(k) == k \in Keys

WriteCommit(c) ==
  /\ pc[c] = "write"
  /\ Insertable(key[c])
  /\ \E o \in Orderings \ used :
       /\ table' = table \cup {o}
       /\ rowKey' = [rowKey EXCEPT ![o] = key[c]]
       /\ value' = [value EXCEPT ![o] = arg[c]]
       /\ current' = PointTo(key[c], o)
       /\ used' = used \cup {o}
  /\ committed' = [committed EXCEPT ![key[c]] = arg[c]]
  /\ Return(c)
  /\ UNCHANGED <<allocated, KeepRecordsAfterDisconnect>>

WriteAbort(c) ==
  /\ pc[c] = "write"
  /\ ~Insertable(key[c])
  /\ Return(c)
  /\ UNCHANGED <<dbVars, committed>>

GetCurrentOffset(c) == \E k \in Keys : Call(c, "get", k, None)

\* It returns Current(key[c]).
GetRead(c) ==
  /\ pc[c] = "get"
  /\ Return(c)
  /\ UNCHANGED <<dbVars, committed>>

ResetOffset(c) == \E p \in Projections, v \in Values : Call(c, "read", <<p, None>>, v)

\* All the rows of the projection, the superseded ones too; a mutant leaves out
\* those the row index points to.
Superseded(p) == {o \in table : rowKey[o][1] = p /\ current[rowKey[o]] # o}

RowsOf(p) == {o \in table : rowKey[o][1] = p}

ResetRead(c) ==
  /\ pc[c] = "read"
  /\ offsetRows' = [offsetRows EXCEPT ![c] = RowsOf(key[c][1])]
  /\ todo' = [todo EXCEPT ![c] = RowsOf(key[c][1])]
  /\ Goto(c, "assign")
  /\ UNCHANGED <<dbVars, connected, key, arg, committed>>

\* row.Value = value, in the order of the uuids.
ResetAssign(c) ==
  /\ pc[c] = "assign"
  /\ todo[c] # {}
  /\ \E o \in todo[c] :
       /\ \A q \in todo[c] : o <= q
       /\ value' = [value EXCEPT ![o] = arg[c]]
       /\ todo' = [todo EXCEPT ![c] = todo[c] \ {o}]
  /\ UNCHANGED <<table, current, rowKey, used, allocated, KeepRecordsAfterDisconnect,
                 connected, pc, key, arg, offsetRows, committed>>

\* The rows are inserted again, one after the other: the row index ends at the
\* last one of each key.
ResetCommit(c) ==
  LET of(k) == {o \in offsetRows[c] : rowKey[o] = k}
  IN /\ pc[c] = "assign"
     /\ todo[c] = {}
     /\ table' = table \cup offsetRows[c]
     /\ current' = [k \in Keys |->
          IF of(k) = {} THEN current[k] ELSE CHOOSE o \in of(k) : \A q \in of(k) : q <= o]
     /\ committed' = [k \in Keys |-> IF of(k) = {} THEN committed[k] ELSE arg[c]]
     /\ Return(c)
     /\ UNCHANGED <<rowKey, value, used, allocated, KeepRecordsAfterDisconnect>>

-------------------------------------------------------------------------------
OwnerStep(o) == \/ Connect(o) \/ ConnectNewDB(o) \/ ConnectStore(o)
                \/ Disconnect(o) \/ DisconnectClear(o) \/ DisconnectStore(o)
                \/ Ping(o)

ClientStep(c) == \/ WriteOffset(c) \/ WriteCommit(c) \/ WriteAbort(c)
                 \/ GetCurrentOffset(c) \/ GetRead(c)
                 \/ ResetOffset(c) \/ ResetRead(c) \/ ResetAssign(c) \/ ResetCommit(c)

Next == \/ \E o \in Owners : OwnerStep(o) /\ Step(o)
        \/ \E c \in Clients : ClientStep(c) /\ Step(c)

Spec == Init /\ [][Next]_vars

-------------------------------------------------------------------------------
(* Properties.                                                             *)

\* Every variable has its type; in particular the row index points to rows of
\* the table that have the key it is asked for.
TypeOK ==
  /\ table \subseteq used /\ used \subseteq Orderings
  /\ rowKey \in [Orderings -> Keys \cup {None}]
  /\ \A o \in used : rowKey[o] # None
  /\ value \in [Orderings -> Values \cup {None}]
  /\ current \in [Keys -> Orderings \cup {None}]
  /\ \A k \in Keys : current[k] # None => current[k] \in table /\ rowKey[current[k]] = k
  /\ allocated \in BOOLEAN /\ connected \in BOOLEAN /\ alone \in BOOLEAN
  /\ KeepRecordsAfterDisconnect \in BOOLEAN
  /\ pc \in [Procs -> {"idle", "connect", "new", "connected", "clear", "disconnected",
                       "write", "get", "read", "assign"}]
  /\ key \in [Clients -> ((Projections \cup {NoName}) \X (Shards \cup {None})) \cup {None}]
  /\ arg \in [Clients -> Values \cup {None}]
  /\ offsetRows \in [Clients -> SUBSET used]
  /\ todo \in [Clients -> SUBSET used]
  /\ committed \in [Keys -> Values \cup {None}]

\* As long as nothing else runs while a ResetOffset does, the store is a table of
\* offsets: GetCurrentOffset returns what the last WriteOffset of that shard or
\* ResetOffset of that projection gave it, however many superseded rows there
\* are and whatever the order of their uuids.  A store told to keep its records
\* is held to it only where it has a row: OffsetsSurvive is about the others.
OffsetsAgree ==
  alone => \A k \in Keys :
    /\ \A c \in Clients : pc[c] # "assign"
    /\ KeepRecordsAfterDisconnect => HasRow(k)
    => Current(k) = committed[k]

\* "Optional KeepRecordsAfterDisconnect flag when you want offsets to survive
\* reconnects during the same process": a store with the flag has an offset of
\* every shard one was committed for.
OffsetsSurvive ==
  KeepRecordsAfterDisconnect => \A k \in Keys : committed[k] # None => Current(k) # None

\* "Backed by hashicorp/go-memdb for concurrent-safe reads and writes": an offset
\* GetCurrentOffset returns is the one a transaction has committed.
ReadsAreCommitted ==
  [][\A c \in Clients :
       GetRead(c) /\ Current(key[c]) # None => Current(key[c]) = committed[key[c]]]_vars
==============================================================================
