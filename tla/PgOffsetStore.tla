----------------------------- MODULE PgOffsetStore -----------------------------
(***************************************************************************)
(* offsetstore/postgres: the offset of each shard of each projection, a row*)
(* of the table offsets_store.  Each call is one statement outside of a    *)
(* transaction block, on a connection of the pool for as long as it takes: *)
(* an upsert, a select by primary key, or an UPDATE of all the rows of a   *)
(* projection.                                                             *)
(*                                                                         *)
(* Postgres (external) runs the UPDATE in steps: it takes the rows there   *)
(* are when it begins, locks one after the other, waits for those another  *)
(* UPDATE has locked, and shows its new values when it commits.  An upsert *)
(* waits for the UPDATE that has locked its row.  A statement whose client *)
(* is gone goes on: it is an error for its caller and may yet commit.      *)
(***************************************************************************)
EXTENDS PgPool

CONSTANTS
  Projections,  \* the names of the projections
  Shards,       \* the shard numbers
  Values,       \* the values of offsets
  Lost          \* the statements that can go on without a client (a bound)

Keys == Projections \X Shards

Slots == Clients \cup Lost

ASSUME NoOffsetAssumption == None \notin Values
ASSUME LostAssumption == Lost \cap Procs = {}

VARIABLES
  table,  \* the current_offset of each row, or None
  stmt,   \* what the server runs for each client, and for those that are gone
  call,   \* the call a client is in, or None
  seen,   \* history: the rows of the projection when its ResetOffset was called
  reply   \* what the call that ended last returned, until the next begins

callVars == <<call, seen, reply>>
vars == <<poolVars, holds, pc, table, stmt, callVars>>

\* What the store is to a caller: the committed rows, the pending calls and the
\* statements that outlived theirs.
O == INSTANCE Offsets WITH
  offsets <- table,
  doubt <- {stmt[l].call : l \in {l \in Lost : stmt[l] # None}}

\* A statement: its call; of an UPDATE, the rows it is to lock, None before it
\* begins, and those it has locked.
StatementType == [call : O!Requests, rows : (SUBSET Keys) \cup {None}, locked : SUBSET Keys]

ASSUME NoRequestAssumption == None \notin O!Requests \cup StatementType
ASSUME NoKeysAssumption == \A K \in SUBSET Keys : K # None

Statement(q) == [call |-> q, rows |-> None, locked |-> {}]

KeyOf(q) == <<q.projection, q.shard>>

NoReply == <<"none">>
Ok == <<"ok">>
Error == <<"error">>
Found(value) == <<"ok", value>>

Init ==
  /\ PoolInit
  /\ table = [k \in Keys |-> None]
  /\ stmt = [x \in Slots |-> None]
  /\ call = [c \in Clients |-> None]
  /\ seen = [c \in Clients |-> {}]
  /\ reply = NoReply

-------------------------------------------------------------------------------
(* The beginning and the end of a call.  One that finds the store not      *)
(* connected, or a WriteOffset without an offset, returns an error and does*)
(* nothing.                                                                *)

Call(c, q, rows) ==
  /\ pc[c] = "idle"
  /\ connected
  /\ call' = [call EXCEPT ![c] = q]
  /\ seen' = [seen EXCEPT ![c] = rows]
  /\ reply' = NoReply
  /\ Goto(c, "acquire")
  /\ UNCHANGED <<poolVars, holds, table, stmt>>

WriteOffset(c) == \E p \in Projections, s \in Shards, v \in Values :
  Call(c, [op |-> "write", projection |-> p, shard |-> s, value |-> v], {})

GetCurrentOffset(c) == \E p \in Projections, s \in Shards :
  Call(c, [op |-> "get", projection |-> p, shard |-> s], {})

ResetOffset(c) == \E p \in Projections, v \in Values :
  Call(c, [op |-> "reset", projection |-> p, value |-> v], O!KeysOf(p))

\* The connection goes back; a mutant keeps that of a call that fails.
ReleaseOnOk(c, r) ==
  /\ holds' = [holds EXCEPT ![c] = None]
  /\ leaked' = [p \in Pools |-> leaked[p] + IF holds[c] = p /\ r = Error THEN 1 ELSE 0]
  /\ UNCHANGED <<connected, pool, status>>

Release(c, r) == holds' = [holds EXCEPT ![c] = None] /\ UNCHANGED poolVars

Return(c, r) ==
  /\ call' = [call EXCEPT ![c] = None]
  /\ seen' = [seen EXCEPT ![c] = {}]
  /\ reply' = r
  /\ Release(c, r)
  /\ Goto(c, "idle")

GetConnection(c) ==
  /\ pc[c] = "acquire"
  /\ Acquire(c)
  /\ stmt' = [stmt EXCEPT ![c] = Statement(call[c])]
  /\ Goto(c, "exec")
  /\ UNCHANGED <<poolVars, table, callVars>>

\* The pool is closed, or the context is done.
NoConnection(c) ==
  /\ pc[c] = "acquire"
  /\ Return(c, Error)
  /\ UNCHANGED <<table, stmt>>

\* The server is done with a statement; if a client waits for it, its call returns.
Done(x, r) ==
  \/ x \in Clients /\ Return(x, r)
  \/ x \in Lost /\ UNCHANGED <<poolVars, holds, pc, callVars>>

-------------------------------------------------------------------------------
(* Statements.                                                             *)

Runs(x, op) == stmt[x] # None /\ stmt[x].call.op = op

\* The statement and its locks are gone; a mutant leaves its transaction open.
LeftOpen(x) == stmt

Ended(x) == [stmt EXCEPT ![x] = None]

LockedByOther(x, k) == \E y \in Slots \ {x} : stmt[y] # None /\ k \in stmt[y].locked

\* ON CONFLICT DO UPDATE; a mutant does nothing on a conflict.
InsertOnly(q) == IF table[KeyOf(q)] = None THEN q.value ELSE table[KeyOf(q)]

Excluded(q) == q.value

\* The connection may break after the commit.
Upsert(x) ==
  /\ Runs(x, "write")
  /\ ~LockedByOther(x, KeyOf(stmt[x].call))
  /\ table' = [table EXCEPT ![KeyOf(stmt[x].call)] = Excluded(stmt[x].call)]
  /\ stmt' = Ended(x)
  /\ \E r \in {Ok, Error} : Done(x, r)

Select(x) ==
  /\ Runs(x, "get")
  /\ stmt' = Ended(x)
  /\ Done(x, Found(table[KeyOf(stmt[x].call)]))
  /\ UNCHANGED table

\* WHERE projection_name.
Matching(q) == {k \in Keys : k[1] = q.projection /\ table[k] # None}

UpdateStart(x) ==
  /\ Runs(x, "reset") /\ stmt[x].rows = None
  /\ stmt' = [stmt EXCEPT ![x].rows = Matching(stmt[x].call)]
  /\ UNCHANGED <<poolVars, holds, pc, table, callVars>>

UpdateRow(x) ==
  /\ Runs(x, "reset") /\ stmt[x].rows # None
  /\ \E k \in stmt[x].rows \ stmt[x].locked :
       /\ ~LockedByOther(x, k)
       /\ stmt' = [stmt EXCEPT ![x].locked = @ \cup {k}]
  /\ UNCHANGED <<poolVars, holds, pc, table, callVars>>

UpdateCommit(x) ==
  /\ Runs(x, "reset") /\ stmt[x].rows = stmt[x].locked
  /\ table' = [k \in Keys |-> IF k \in stmt[x].rows THEN stmt[x].call.value ELSE table[k]]
  /\ stmt' = Ended(x)
  /\ \E r \in {Ok, Error} : Done(x, r)

\* The server ends a statement with an error: one of two UPDATEs that wait for
\* each other's rows, or because it noticed that its client is gone.
Abort(x) ==
  /\ stmt[x] # None
  /\ stmt' = Ended(x)
  /\ Done(x, Error)
  /\ UNCHANGED table

-------------------------------------------------------------------------------
(* Failures.                                                               *)

\* The network fails or the context is done under a statement that the server goes
\* on with.
NetworkFails(c) ==
  /\ pc[c] = "exec" /\ ~Runs(c, "get")
  /\ \E l \in Lost : /\ stmt[l] = None
                     /\ stmt' = [stmt EXCEPT ![c] = None, ![l] = stmt[c]]
  /\ Return(c, Error)
  /\ UNCHANGED table

\* The program dies; some of its statements go on.
Crash ==
  /\ PoolCrash
  /\ call' = [c \in Clients |-> None]
  /\ seen' = [c \in Clients |-> {}]
  /\ reply' = NoReply
  /\ \E from \in [Lost -> Slots] :
       /\ \A l, m \in Lost : from[l] = from[m] => l = m
       /\ \A l \in Lost : /\ ~Runs(from[l], "get")
                          /\ stmt[l] # None => from[l] = l
       /\ stmt' = [x \in Slots |-> IF x \in Lost THEN stmt[from[x]] ELSE None]
  /\ UNCHANGED table

-------------------------------------------------------------------------------
OwnerProgress(o) == PoolProgress(o) /\ UNCHANGED <<table, stmt, callVars>>

OwnerStep(o) == PoolStep(o) /\ UNCHANGED <<table, stmt, callVars>>

ClientStep(c) == \/ WriteOffset(c) \/ GetCurrentOffset(c) \/ ResetOffset(c)
                 \/ GetConnection(c) \/ NoConnection(c) \/ NetworkFails(c)

ServerStep(x) ==
  \/ Upsert(x) \/ Select(x) \/ UpdateStart(x) \/ UpdateRow(x) \/ UpdateCommit(x) \/ Abort(x)

Next == \/ \E o \in Owners : OwnerStep(o)
        \/ \E c \in Clients : ClientStep(c)
        \/ \E x \in Slots : ServerStep(x)
        \/ Crash

Spec == Init /\ [][Next]_vars

\* A statement waits for an UPDATE that has locked a row it needs.
WaitsFor(x, y) == /\ Runs(x, "reset") /\ Runs(y, "reset") /\ stmt[x].rows # None
                  /\ (stmt[x].rows \ stmt[x].locked) \cap stmt[y].locked # {}

\* Two UPDATEs that wait for each other: Postgres ends one.
Deadlocked(x) == \E y \in Slots \ {x} : WaitsFor(x, y) /\ WaitsFor(y, x)

\* What happens as long as the network works and no context is done.
ClientProgress(c) == \/ GetConnection(c)
                     \/ NoConnection(c) /\ status[pool] # "open"

ServerProgress(x) ==
  \/ Upsert(x) \/ Select(x) \/ UpdateStart(x) \/ UpdateRow(x) \/ UpdateCommit(x)
  \/ Deadlocked(x) /\ Abort(x)

\* Goroutines keep running, and both the pool and the row locks of Postgres serve
\* those who wait in turn.
Fairness == /\ \A o \in Owners : WF_vars(OwnerProgress(o))
            /\ \A c \in Clients : SF_vars(ClientProgress(c))
            /\ \A x \in Slots : SF_vars(ServerProgress(x))

FairSpec == Spec /\ Fairness

-------------------------------------------------------------------------------
(* Properties.                                                             *)

\* What an UPDATE has locked is among the rows it took, which are there.
WellFormed(s) ==
  s # None => IF s.rows = None THEN s.locked = {}
              ELSE /\ s.call.op = "reset"
                   /\ s.locked \subseteq s.rows
                   /\ s.rows \subseteq Matching(s.call)

\* Every client is in a call or idle, and the server has a statement for each that
\* holds a connection; no two UPDATEs have locked the same row.
TypeOK ==
  /\ PoolTypeOK
  /\ pc \in [Procs -> {"idle", "connect", "dial", "dialed", "connected", "close", "closed",
                       "acquire", "exec"}]
  /\ table \in [Keys -> Values \cup {None}]
  /\ stmt \in [Slots -> StatementType \cup {None}]
  /\ call \in [Clients -> O!Requests \cup {None}]
  /\ seen \in [Clients -> SUBSET Keys]
  /\ reply \in {NoReply, Ok, Error} \cup {Found(v) : v \in Values \cup {None}}
  /\ \A c \in Clients :
       /\ pc[c] \in {"idle", "acquire", "exec"}
       /\ pc[c] = "idle" <=> call[c] = None
       /\ pc[c] = "exec" <=> holds[c] # None
       /\ IF pc[c] = "exec" THEN stmt[c] # None /\ stmt[c].call = call[c]
          ELSE stmt[c] = None
  /\ \A l \in Lost : ~Runs(l, "get")
  /\ \A x \in Slots : /\ WellFormed(stmt[x])
                      /\ stmt[x] # None => \A k \in stmt[x].locked : ~LockedByOther(x, k)

\* The store is a table of offsets to any number of concurrent callers, whatever
\* waits, fails, or runs after its caller was told that it failed: WriteOffset,
\* GetCurrentOffset and ResetOffset that return without an error each took effect
\* at one moment of the call, a ResetOffset at every shard that had an offset when
\* it was called, and an offset changes only by a call that asked for it.
RefinesOffsets == O!Spec

\* Every call returns, also when clients wait for a connection while resets wait
\* for each other's rows, or for those of a statement nobody waits for; so does
\* every Disconnect.
EveryCallReturns == /\ \A c \in Clients : []<>(pc[c] = "idle")
                    /\ \A o \in Owners : []<>(pc[o] \notin {"close", "closed"})
==============================================================================
