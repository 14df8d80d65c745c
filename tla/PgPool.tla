-------------------------------- MODULE PgPool --------------------------------
(***************************************************************************)
(* The connection of the Postgres stores: the atomic flag `connected`, the *)
(* pool of connections, and the Connect, Disconnect and Ping that move     *)
(* both.  eventstore/postgres and offsetstore/postgres have it in common   *)
(* and hold no lock.                                                       *)
(*                                                                         *)
(* Actions leave the variables of the modules that extend this one to them.*)
(***************************************************************************)
EXTENDS Naturals, FiniteSets

CONSTANTS
  Clients,          \* goroutines that read and write
  Owners,           \* goroutines that call Connect, Disconnect and Ping
  MaxConnections,   \* the connections of one pool
  Pools,            \* the pools there can be at the same time (a bound)
  None              \* no pool, no row, no argument

ASSUME MaxConnectionsAssumption == MaxConnections \in Nat \ {0}
ASSUME NoPoolAssumption == None \notin Pools
ASSUME ProcsAssumption == Clients \cap Owners = {}

Procs == Clients \cup Owners

VARIABLES
  connected,  \* s.connected
  pool,       \* pg.pool
  status,     \* each pool: "none", "open", "closing" or "closed"
  leaked,     \* how many of its connections nobody will release
  holds,      \* the pool whose connection a client holds, or whose pool an
              \* owner is opening or closing
  pc          \* where each goroutine is

poolVars == <<connected, pool, status, leaked>>

Busy(p) == leaked[p] + Cardinality({c \in Clients : holds[c] = p})

PoolInit ==
  /\ connected = FALSE
  /\ pool = None
  /\ status = [p \in Pools |-> "none"]
  /\ leaked = [p \in Pools |-> 0]
  /\ holds = [g \in Procs |-> None]
  /\ pc = [g \in Procs |-> "idle"]

Goto(g, label) == pc' = [pc EXCEPT ![g] = label]

-------------------------------------------------------------------------------
Connect(o) ==
  /\ pc[o] \in {"idle", "connect"}
  /\ Goto(o, IF connected THEN "idle" ELSE "dial")
  /\ UNCHANGED <<poolVars, holds>>

\* pgxpool.NewWithConfig.
ConnectNewPool(o) ==
  /\ pc[o] = "dial"
  /\ \E p \in Pools :
       /\ status[p] \in {"none", "closed"}
       /\ pool # p /\ \A g \in Procs : holds[g] # p
       /\ status' = [status EXCEPT ![p] = "open"]
       /\ holds' = [holds EXCEPT ![o] = p]
  /\ Goto(o, "dialed")
  /\ UNCHANGED <<connected, pool, leaked>>

\* pool.Ping fails: the error is returned and the pool stays as it is.
ConnectFails(o) ==
  /\ pc[o] = "dialed"
  /\ holds' = [holds EXCEPT ![o] = None]
  /\ Goto(o, "idle")
  /\ UNCHANGED poolVars

ConnectSetPool(o) ==
  /\ pc[o] = "dialed"
  /\ pool' = holds[o]
  /\ holds' = [holds EXCEPT ![o] = None]
  /\ Goto(o, "connected")
  /\ UNCHANGED <<connected, status, leaked>>

ConnectStore(o) ==
  /\ pc[o] = "connected"
  /\ connected' = TRUE
  /\ Goto(o, "idle")
  /\ UNCHANGED <<pool, status, leaked, holds>>

\* pool.Close: no connection is given out any more.
Disconnect(o) ==
  /\ pc[o] = "idle"
  /\ connected
  /\ holds' = [holds EXCEPT ![o] = pool]
  /\ status' = IF status[pool] = "open" THEN [status EXCEPT ![pool] = "closing"]
               ELSE status
  /\ Goto(o, "close")
  /\ UNCHANGED <<connected, pool, leaked>>

\* It returns when all the connections have been released.
DisconnectClosed(o) ==
  /\ pc[o] = "close"
  /\ Busy(holds[o]) = 0
  /\ status' = [status EXCEPT ![holds[o]] = "closed"]
  /\ holds' = [holds EXCEPT ![o] = None]
  /\ Goto(o, "closed")
  /\ UNCHANGED <<connected, pool, leaked>>

DisconnectStore(o) ==
  /\ pc[o] = "closed"
  /\ connected' = FALSE
  /\ Goto(o, "idle")
  /\ UNCHANGED <<pool, status, leaked, holds>>

\* Ping calls Connect, which loads the flag again; a connected Ping changes nothing.
Ping(o) ==
  /\ pc[o] = "idle"
  /\ ~connected
  /\ Goto(o, "connect")
  /\ UNCHANGED <<poolVars, holds>>

-------------------------------------------------------------------------------
\* What an owner does as long as the network works.
PoolProgress(o) == \/ Connect(o) /\ pc[o] = "connect"
                   \/ ConnectNewPool(o) \/ ConnectSetPool(o) \/ ConnectStore(o)
                   \/ DisconnectClosed(o) \/ DisconnectStore(o)

PoolStep(o) == Connect(o) \/ PoolProgress(o) \/ ConnectFails(o) \/ Disconnect(o) \/ Ping(o)

\* The pool has a connection for a client.
Acquire(c) ==
  /\ status[pool] = "open" /\ Busy(pool) < MaxConnections
  /\ holds' = [holds EXCEPT ![c] = pool]

\* The program dies.
PoolCrash ==
  /\ connected' = FALSE
  /\ pool' = None
  /\ status' = [p \in Pools |-> "none"]
  /\ leaked' = [p \in Pools |-> 0]
  /\ holds' = [g \in Procs |-> None]
  /\ pc' = [g \in Procs |-> "idle"]

PoolTypeOK ==
  /\ connected \in BOOLEAN
  /\ pool \in Pools \cup {None}
  /\ status \in [Pools -> {"none", "open", "closing", "closed"}]
  /\ leaked \in [Pools -> Nat]
  /\ holds \in [Procs -> Pools \cup {None}]
==============================================================================
