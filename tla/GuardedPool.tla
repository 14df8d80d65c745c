----------------------------- MODULE GuardedPool -----------------------------
(***************************************************************************)
(* The connection of the Postgres stores that guard it by a mutex:         *)
(* durablestore/postgres and snapshotstore/postgres have it in common.     *)
(* Unlike in PgPool, Connect and Disconnect hold the mutex from the load   *)
(* of the flag to the store of it, across the slow call between them, and  *)
(* every read or write of a client loads the flag under it.                *)
(*                                                                         *)
(* A connection is given back on every path: Exec and pgxscan release it   *)
(* whatever the outcome.  The pool's own pointer is read without the mutex.*)
(***************************************************************************)
EXTENDS Goroutines

CONSTANTS
  MaxConnections,   \* the connections of one pool
  Pools             \* the pools there can be at the same time (a bound)

ASSUME MaxConnectionsAssumption == MaxConnections \in Nat \ {0}
ASSUME NoPoolAssumption == None \notin Pools

VARIABLES
  mu,         \* the owner that holds s.mu across a slow call, or None
  connected,  \* s.connected
  pool,       \* pg.pool
  status,     \* each pool: "none", "open", "closing" or "closed"
  holds       \* the pool whose connection a client holds

poolVars == <<mu, connected, pool, status, holds>>

Busy(p) == Cardinality({c \in Clients : holds[c] = p})

PoolInit ==
  /\ mu = None
  /\ connected = FALSE
  /\ pool = None
  /\ status = [p \in Pools |-> "none"]
  /\ holds = [c \in Clients |-> None]

\* Who asks for the mutex gets it when nobody holds it.  A goroutine that waits
\* for it has done nothing yet: its call begins when it gets it.  A mutant does
\* without the mutex.
NoLock == TRUE

LockFree == mu = None

-------------------------------------------------------------------------------
(* Owners.                                                                 *)

Connect(o) ==
  /\ pc[o] \in {"idle", "connect"} /\ LockFree
  /\ ~connected
  /\ mu' = o
  /\ Goto(o, "dial")
  /\ UNCHANGED <<connected, pool, status, holds>>

\* Ping gives the mutex back before it calls Connect, which may then find the
\* store connected; the Ping of a connected store changes nothing.
Ping(o) ==
  /\ pc[o] = "idle" /\ LockFree
  /\ ~connected
  /\ Goto(o, "connect")
  /\ UNCHANGED poolVars

AlreadyConnected(o) ==
  /\ pc[o] = "connect" /\ LockFree
  /\ connected
  /\ Goto(o, "idle")
  /\ UNCHANGED poolVars

\* The deferred Unlock, on every return.
Unlock(o) == mu' = None /\ Goto(o, "idle")

\* The new pool answers the ping.
ConnectStore(o) ==
  /\ pc[o] = "dial"
  /\ \E p \in Pools \ {pool} :
       /\ status[p] \in {"none", "closed"}
       /\ pool' = p
       /\ status' = [status EXCEPT ![p] = "open"]
  /\ connected' = TRUE
  /\ Unlock(o)
  /\ UNCHANGED holds

\* There is no new pool, or it does not answer the ping: the error is returned and
\* that pool stays open, with nothing that refers to it.
ConnectFails(o) ==
  /\ pc[o] = "dial"
  /\ \/ UNCHANGED status
     \/ \E p \in Pools \ {pool} : /\ status[p] \in {"none", "closed"}
                                  /\ status' = [status EXCEPT ![p] = "open"]
  /\ Unlock(o)
  /\ UNCHANGED <<connected, pool, holds>>

\* pool.Close: no connection is given out any more.
Disconnect(o) ==
  /\ pc[o] = "idle" /\ LockFree
  /\ connected
  /\ mu' = o
  /\ status' = [status EXCEPT ![pool] = "closing"]
  /\ Goto(o, "close")
  /\ UNCHANGED <<connected, pool, holds>>

\* It returns when all the connections have been released.
DisconnectStore(o) ==
  /\ pc[o] = "close"
  /\ Busy(pool) = 0
  /\ status' = [status EXCEPT ![pool] = "closed"]
  /\ connected' = FALSE
  /\ Unlock(o)
  /\ UNCHANGED <<pool, holds>>

OwnerStep(o) ==
  \/ Connect(o) \/ Ping(o) \/ AlreadyConnected(o) \/ ConnectStore(o) \/ ConnectFails(o)
  \/ Disconnect(o) \/ DisconnectStore(o)

-------------------------------------------------------------------------------
(* Clients.  What becomes of the call is for the modules that extend this. *)

\* s.isConnected, where every call begins.
IsConnected(c) ==
  /\ pc[c] = "idle" /\ LockFree
  /\ connected
  /\ Goto(c, "acquire")
  /\ UNCHANGED poolVars

NotConnected(c) ==
  /\ pc[c] = "idle" /\ LockFree
  /\ ~connected
  /\ UNCHANGED poolVars

Acquire(c) ==
  /\ pc[c] = "acquire"
  /\ status[pool] = "open" /\ Busy(pool) < MaxConnections
  /\ holds' = [holds EXCEPT ![c] = pool]
  /\ Goto(c, "exec")
  /\ UNCHANGED <<mu, connected, pool, status>>

\* The pool has been closed since the flag was loaded, or the context is done.
NoConnection(c) ==
  /\ pc[c] = "acquire"
  /\ UNCHANGED poolVars

\* The statement has ended, and the connection goes back; one mutant keeps it,
\* another takes the mutex to give it back.
GiveBack(c) ==
  /\ pc[c] = "exec"
  /\ holds' = [holds EXCEPT ![c] = None]
  /\ UNCHANGED <<mu, connected, pool, status>>

ReleaseNone(c) == pc[c] = "exec" /\ UNCHANGED poolVars

ReleaseLocked(c) == LockFree /\ GiveBack(c)

Release(c) == GiveBack(c)

\* The program dies.
PoolCrash ==
  /\ mu' = None
  /\ connected' = FALSE
  /\ pool' = None
  /\ status' = [p \in Pools |-> "none"]
  /\ holds' = [c \in Clients |-> None]

-------------------------------------------------------------------------------
\* Every goroutine is where a method of the store can be; an owner holds the mutex,
\* and a client a connection, exactly where it has to.
PoolTypeOK ==
  /\ pc \in [Procs -> {"idle", "connect", "dial", "close", "acquire", "exec"}]
  /\ mu \in Owners \cup {None}
  /\ connected \in BOOLEAN
  /\ pool \in Pools \cup {None}
  /\ status \in [Pools -> {"none", "open", "closing", "closed"}]
  /\ holds \in [Clients -> Pools \cup {None}]
  /\ \A o \in Owners : /\ pc[o] \notin {"acquire", "exec"}
                       /\ mu = o <=> pc[o] \in {"dial", "close"}
  /\ \A c \in Clients : /\ pc[c] \in {"idle", "acquire", "exec"}
                        /\ pc[c] = "exec" <=> holds[c] # None

\* "guards connection state transitions": whenever no goroutine holds the mutex,
\* the flag says whether the store's pool is one that gives out connections -
\* whatever Connect, Ping and Disconnect ran at the same time, and failed.  (Pools
\* that failed their ping may be open besides.)
ConnectedIsOpen ==
  mu = None => (connected <=> pool # None /\ status[pool] = "open")
==============================================================================
