---------------------------- MODULE MemStateStore ----------------------------
(***************************************************************************)
(* durablestore/memory: states in a sync.Map, under an atomic flag that    *)
(* each call loads once.  There is no lock: Disconnect removes what Range  *)
(* hands it while other calls go on.                                       *)
(*                                                                         *)
(* The store dies with the program: there is no crash to recover from.     *)
(***************************************************************************)
EXTENDS StateCalls

VARIABLES
  db,         \* d.db: the state of each persistence id, or None
  connected,  \* d.connected
  purge       \* the Range of an owner's Disconnect, or None

memVars == <<db, connected, purge>>

vars == <<pc, callVars, memVars>>

\* A Range: the keys it has to visit, those it may visit, and what is to be gone.
Purge == [must : SUBSET IDs, may : SUBSET IDs, acked : SUBSET States]

Init ==
  /\ CallsInit
  /\ db = [id \in IDs |-> None]
  /\ connected = FALSE
  /\ purge = [o \in Owners |-> None]

Set(f, k, v) == [f EXCEPT ![k] = v]

-------------------------------------------------------------------------------
\* Ping does the same.
Connect(o) ==
  /\ pc[o] = "idle"
  /\ ~connected
  /\ Goto(o, "connect")
  /\ UNCHANGED <<callVars, memVars>>

ConnectStore(o) ==
  /\ pc[o] = "connect"
  /\ connected' = TRUE
  /\ Goto(o, "idle")
  /\ UNCHANGED <<callVars, db, purge>>

\* Range visits the keys there are when it begins, each once, and may visit
\* those stored meanwhile.  `acked` is a history: what had been acknowledged.
Disconnect(o) ==
  /\ pc[o] = "idle"
  /\ connected
  /\ purge' = Set(purge, o, [must |-> {id \in IDs : db[id] # None},
                             may |-> {id \in IDs : db[id] = None},
                             acked |-> acked])
  /\ Goto(o, "range")
  /\ UNCHANGED <<callVars, db, connected>>

\* What callers knew of the states of a persistence id is void.
Forget(id) ==
  /\ acked' = acked \ Of(id, States)
  /\ stale' = [c \in Clients |->
                 IF call[c] # None /\ call[c] = [op |-> "get", id |-> id]
                 THEN stale[c] \ {None} ELSE stale[c]]

DisconnectDelete(o) ==
  /\ pc[o] = "range"
  /\ \E id \in purge[o].must \cup purge[o].may :
       /\ purge' = [purge EXCEPT ![o].must = @ \ {id}, ![o].may = @ \ {id}]
       /\ db' = Set(db, id, None)
       /\ Forget(id)
  /\ UNCHANGED <<pc, call, reply, written, superseded, connected>>

\* A mutant ends with the first key.
FirstKeyDone(o) == Cardinality(purge[o].must \cup purge[o].may) < Cardinality(IDs)

RangeDone(o) == purge[o].must = {}

DisconnectRanged(o) ==
  /\ pc[o] = "range"
  /\ RangeDone(o)
  /\ Goto(o, "ranged")
  /\ UNCHANGED <<callVars, memVars>>

DisconnectStore(o) ==
  /\ pc[o] = "ranged"
  /\ connected' = FALSE
  /\ purge' = Set(purge, o, None)
  /\ Goto(o, "idle")
  /\ UNCHANGED <<callVars, db>>

-------------------------------------------------------------------------------
NotConnected(c) ==
  /\ pc[c] = "idle"
  /\ ~connected
  /\ Fail(c)
  /\ UNCHANGED memVars

WriteState(c, s) ==
  /\ pc[c] = "idle"
  /\ connected
  /\ BeginWrite(c, s)
  /\ Goto(c, "write")
  /\ UNCHANGED memVars

Store(c) ==
  /\ pc[c] = "write"
  /\ db' = Set(db, call[c].state.PersistenceId, call[c].state)
  /\ EndWrite(c)
  /\ UNCHANGED <<connected, purge>>

GetLatestState(c, id) ==
  /\ pc[c] = "idle"
  /\ connected
  /\ BeginGet(c, id)
  /\ Goto(c, "get")
  /\ UNCHANGED memVars

Load(c) ==
  /\ pc[c] = "get"
  /\ EndGet(c, db[call[c].id])
  /\ UNCHANGED memVars

Next ==
  \/ \E o \in Owners : \/ Connect(o) \/ ConnectStore(o)
                       \/ Disconnect(o) \/ DisconnectDelete(o)
                       \/ DisconnectRanged(o) \/ DisconnectStore(o)
  \/ \E c \in Clients : \/ NotConnected(c) \/ Store(c) \/ Load(c)
                        \/ \E s \in States : WriteState(c, s)
                        \/ \E id \in IDs : GetLatestState(c, id)

Spec == Init /\ [][Next]_vars

-------------------------------------------------------------------------------
\* Each goroutine is at a place its method has, in a call of the right kind.
TypeOK ==
  /\ CallsTypeOK
  /\ pc \in [Procs -> {"idle", "connect", "range", "ranged", "write", "get"}]
  /\ \A c \in Clients : /\ pc[c] \in {"idle", "write", "get"}
                        /\ IF pc[c] = "idle" THEN call[c] = None
                           ELSE call[c] # None /\ call[c].op = pc[c]
  /\ db \in [IDs -> States \cup {None}]
  /\ \A id \in IDs : db[id] \in Of(id, written) \cup {None}
  /\ connected \in BOOLEAN
  /\ purge \in [Owners -> Purge \cup {None}]
  /\ \A o \in Owners : IF pc[o] \in {"range", "ranged"} THEN purge[o] \in Purge
                       ELSE purge[o] = None

\* "Calling Disconnect purges every record": when the Range of a Disconnect is
\* over, no state is left that had been acknowledged before it began, whatever
\* was written and whoever else disconnected meanwhile.  (One whose WriteState
\* had only loaded the flag may be.)
PurgesAcknowledged ==
  \A o \in Owners : pc[o] = "ranged" => \A id \in IDs : db[id] \notin purge[o].acked
==============================================================================
