-------------------------- MODULE StateStoresProofs --------------------------
(***************************************************************************)
(* Proofs about the durable state stores, for any set of clients and       *)
(* owners, any states, any size of the pool, and any replicas: what every  *)
(* backend guarantees to whoever holds it as a persistence.StateStore.     *)
(*                                                                         *)
(* Each backend has an inductive invariant of its own, which only its      *)
(* steps have to keep; Inv puts them together.                             *)
(***************************************************************************)
EXTENDS StateStores, FiniteSetTheorems, TLAPS

-------------------------------------------------------------------------------
(* Calls: what their beginnings and ends leave true of what the callers    *)
(* know, whatever store they call.                                         *)

Writers == {c \in Clients : call[c] \in WriteCall}

\* The states whose WriteState is under way, and those that were acknowledged
\* before some WriteState, or replaced.
Open == {s \in States : \E c \in Writers : call[c].state = s}

Settled ==
  {s \in States : s \in acked \cup superseded \/ \E c \in Writers : s \in call[c].before}

\* No two calls write the same state, none writes one that is settled, and each
\* replaces states of its persistence id.
CallsInv ==
  /\ Open \cap Settled = {}
  /\ Open \cup Settled \subseteq written
  /\ \A c, d \in Writers : call[c].state = call[d].state => c = d
  /\ \A c \in Writers : call[c].before \subseteq Of(call[c].state.PersistenceId, States)

\* What a read must not return was replaced, or is None.
StaleInv == \A c \in Clients : stale[c] \subseteq superseded \cup {None}

CallsOK == CallsTypeOK /\ CallsInv /\ StaleInv

LEMMA CallsStart == CallsInit => CallsOK /\ Settled = {} /\ Open = {}
<1> SUFFICES ASSUME CallsInit PROVE CallsOK /\ Settled = {} /\ Open = {}
  OBVIOUS
<1>1. Writers = {}
  BY NoCallAssumption DEF CallsInit, Writers
<1>2. Settled = {} /\ Open = {}
  BY <1>1 DEF CallsInit, Settled, Open
<1>3. CallsTypeOK /\ StaleInv
  BY DEF CallsInit, CallsTypeOK, StaleInv
<1> QED BY <1>1, <1>2, <1>3 DEF CallsOK, CallsInv

\* The kinds of calls exclude each other.
LEMMA CallKinds ==
  /\ WriteCall \cap GetCall = {}
  /\ \A q \in WriteCall : q.op = "write"
  /\ \A q \in GetCall : q.op = "get"
  BY DEF WriteCall, GetCall

\* The calls of the other clients stay as they are.
LEMMA CallsBeginWrite ==
  ASSUME CallsOK, NEW c \in Clients, NEW s \in States, BeginWrite(c, s), call[c] = None
  PROVE  CallsOK' /\ Settled' = Settled /\ Open' = Open \cup {s}
<1>1. call'[c] \in WriteCall /\ call'[c].state = s /\ call'[c].before = Of(s.PersistenceId, acked)
  BY DEF CallsOK, CallsTypeOK, BeginWrite, WriteCall, Of
<1>2. \A d \in Clients \ {c} : call'[d] = call[d]
  BY DEF CallsOK, CallsTypeOK, BeginWrite
<1>3. c \notin Writers /\ Writers' = Writers \cup {c} /\ \A d \in Writers : call'[d] = call[d]
  BY <1>1, <1>2, NoCallAssumption DEF Writers
<1>4. acked' = acked /\ superseded' = superseded /\ stale' = stale /\ written' = written \cup {s}
  BY DEF BeginWrite
<1>5. Settled' = Settled
  <2>1. ASSUME NEW t \in States
        PROVE  (\E d \in Writers' : t \in call'[d].before) <=>
               (\E d \in Writers : t \in call[d].before) \/ t \in Of(s.PersistenceId, acked)
    BY <1>1, <1>2, <1>3 DEF Writers
  <2> QED BY <2>1, <1>4 DEF Settled, Of
<1>6. Open' = Open \cup {s}
  BY <1>1, <1>3 DEF Open
<1>7. s \notin Settled /\ s \notin Open
  BY DEF CallsOK, CallsInv, BeginWrite
<1>8. CallsTypeOK'
  BY <1>1, <1>4 DEF CallsOK, CallsTypeOK, BeginWrite
<1>9. CallsInv'
  <2>1. Open' \cap Settled' = {} /\ Open' \cup Settled' \subseteq written'
    BY <1>4, <1>5, <1>6, <1>7 DEF CallsOK, CallsInv
  <2>2. ASSUME NEW d \in Writers', NEW e \in Writers', call'[d].state = call'[e].state
        PROVE  d = e
    <3>1. \A w \in Writers : call'[w].state \in Open /\ call'[w].state = call[w].state
      BY <1>2, <1>3 DEF Open, Writers, WriteCall
    <3> QED BY <2>2, <3>1, <1>1, <1>3, <1>7 DEF CallsOK, CallsInv
  <2>3. \A d \in Writers' : call'[d].before \subseteq Of(call'[d].state.PersistenceId, States)
    BY <1>1, <1>3 DEF CallsOK, CallsInv, CallsTypeOK, Of
  <2> QED BY <2>1, <2>2, <2>3 DEF CallsInv, Of
<1>10. StaleInv'
  BY <1>4 DEF CallsOK, StaleInv
<1> QED BY <1>5, <1>6, <1>8, <1>9, <1>10 DEF CallsOK

\* A call that ends takes what it knew with it.
LEMMA CallsReturn ==
  ASSUME CallsOK, NEW c \in Clients, Return(c)
  PROVE  /\ call' \in [Clients -> WriteCall \cup GetCall \cup {None}]
         /\ stale' \in [Clients -> SUBSET (States \cup {None})]
         /\ Writers' = Writers \ {c}
         /\ \A d \in Clients \ {c} : call'[d] = call[d] /\ stale'[d] = stale[d]
         /\ call'[c] = None /\ stale'[c] = {}
<1>1. /\ call' \in [Clients -> WriteCall \cup GetCall \cup {None}]
      /\ \A d \in Clients \ {c} : call'[d] = call[d]
      /\ call'[c] = None
  BY DEF CallsOK, CallsTypeOK, Return
<1>2. /\ stale' \in [Clients -> SUBSET (States \cup {None})]
      /\ \A d \in Clients \ {c} : stale'[d] = stale[d]
      /\ stale'[c] = {}
  BY DEF CallsOK, CallsTypeOK, Return
<1> QED BY <1>1, <1>2, NoCallAssumption DEF Writers

LEMMA CallsEndWrite ==
  ASSUME CallsOK, NEW c \in Writers, EndWrite(c)
  PROVE  /\ CallsOK'
         /\ Settled' \subseteq Settled \cup {call[c].state}
         /\ Open' = Open \ {call[c].state}
         /\ call[c].state \in Open
         /\ superseded' \ superseded \subseteq
              Settled \cap Of(call[c].state.PersistenceId, States)
<1>1. c \in Clients /\ call[c].state \in Open /\ call[c].before \subseteq Settled
  BY DEF Writers, WriteCall, Open, Settled
<1>2. Writers' = Writers \ {c} /\ \A d \in Writers' : d \in Clients /\ call'[d] = call[d]
  BY <1>1, CallsReturn DEF EndWrite, Writers
<1>3. /\ acked' = acked \cup {call[c].state} /\ superseded' = superseded \cup call[c].before
      /\ written' = written /\ reply' = {}
  BY DEF EndWrite
<1>4. Settled' \subseteq Settled \cup {call[c].state}
  BY <1>1, <1>2, <1>3 DEF Settled
<1>5. Open' = Open \ {call[c].state}
  BY <1>2 DEF Open, CallsOK, CallsInv
<1>6. CallsTypeOK'
  <2>1. superseded' \subseteq written' /\ acked' \subseteq written'
    BY <1>1, <1>3 DEF CallsOK, CallsInv, CallsTypeOK
  <2> QED BY <1>1, <1>3, <2>1, CallsReturn DEF CallsOK, CallsTypeOK, EndWrite
<1>7. CallsInv'
  BY <1>1, <1>2, <1>3, <1>4, <1>5 DEF CallsOK, CallsInv
<1>8. StaleInv'
  BY <1>1, <1>3, CallsReturn DEF CallsOK, StaleInv, EndWrite
<1>9. superseded' \ superseded \subseteq Settled \cap Of(call[c].state.PersistenceId, States)
  BY <1>1, <1>3 DEF CallsOK, CallsInv
<1> QED BY <1>9, <1>1, <1>4, <1>5, <1>6, <1>7, <1>8 DEF CallsOK

\* A call that is not a WriteState, or that fails.
LEMMA CallsEnd ==
  ASSUME CallsOK, NEW c \in Clients, Return(c), reply' \in SUBSET (States \cup {None}),
         UNCHANGED <<written, acked, superseded>>
  PROVE  /\ CallsOK'
         /\ Settled' \subseteq Settled
         /\ Open' = IF c \in Writers THEN Open \ {call[c].state} ELSE Open
<1>1. Writers' = Writers \ {c} /\ \A d \in Writers' : d \in Clients /\ call'[d] = call[d]
  BY CallsReturn DEF Writers
<1>2. Settled' \subseteq Settled
  BY <1>1 DEF Settled
<1>3. Open' = IF c \in Writers THEN Open \ {call[c].state} ELSE Open
  BY <1>1 DEF Open, CallsOK, CallsInv
<1>4. CallsTypeOK'
  BY CallsReturn DEF CallsOK, CallsTypeOK
<1>5. CallsInv'
  BY <1>1, <1>2, <1>3 DEF CallsOK, CallsInv
<1>6. StaleInv'
  BY CallsReturn DEF CallsOK, StaleInv
<1> QED BY <1>2, <1>3, <1>4, <1>5, <1>6 DEF CallsOK

LEMMA CallsBeginGet ==
  ASSUME CallsOK, NEW c \in Clients, NEW id \in IDs, BeginGet(c, id), call[c] = None
  PROVE  CallsOK' /\ Settled' = Settled /\ Open' = Open
<1>1. /\ call' \in [Clients -> WriteCall \cup GetCall \cup {None}]
      /\ call'[c] \in GetCall
      /\ \A d \in Clients \ {c} : call'[d] = call[d]
  BY DEF CallsOK, CallsTypeOK, BeginGet, GetCall
<1>2. Writers' = Writers /\ \A d \in Writers : call'[d] = call[d]
  BY <1>1, CallKinds, NoCallAssumption DEF Writers
<1>3. Settled' = Settled /\ Open' = Open
  BY <1>2 DEF Settled, Open, BeginGet
<1>4. /\ stale' \in [Clients -> SUBSET (States \cup {None})]
      /\ StaleInv'
  BY DEF CallsOK, CallsTypeOK, StaleInv, BeginGet, Of
<1> QED BY <1>1, <1>2, <1>3, <1>4 DEF CallsOK, CallsTypeOK, CallsInv, BeginGet

LEMMA CallsCrashed ==
  ASSUME CallsOK, CallsCrash
  PROVE  CallsOK' /\ Settled' \subseteq Settled /\ Open' = {}
<1>1. Writers' = {}
  BY NoCallAssumption DEF CallsCrash, Writers
<1>2. Settled' \subseteq Settled /\ Open' = {}
  BY <1>1 DEF CallsCrash, Settled, Open
<1>3. CallsTypeOK' /\ StaleInv'
  BY DEF CallsCrash, CallsOK, CallsTypeOK, StaleInv
<1> QED BY <1>1, <1>2, <1>3 DEF CallsOK, CallsInv, CallsCrash

\* A step returns the latest state if it returns nothing, or ends no call, or ends
\* a GetLatestState of that id with what is not out of date.
LEMMA ReadsNothing ==
  ASSUME reply' = {} \/ UNCHANGED call, call \in [Clients -> WriteCall \cup GetCall \cup {None}]
  PROVE  LatestRead
  BY NoCallAssumption DEF LatestRead, Gets, EndGet, Return

LEMMA ReadsOne ==
  ASSUME CallsOK, NEW c \in Clients, NEW s, EndGet(c, s), call[c] \in GetCall,
         s \in (Of(call[c].id, written) \cup {None}) \ stale[c]
  PROVE  LatestRead
<1> SUFFICES ASSUME NEW d \in Clients, Gets(d, s)
             PROVE  s \in (Of(call[d].id, written) \cup {None}) \ stale[d]
  BY DEF LatestRead, EndGet
<1>1. d = c
  BY NoCallAssumption DEF Gets, EndGet, Return, CallsOK, CallsTypeOK
<1> QED BY <1>1

-------------------------------------------------------------------------------
(* durablestore/memory.                                                    *)

\* What MemStateStore extends is what StateStores extends.
LEMMA MemCalls ==
  /\ Memory!Procs = Procs /\ Memory!IDs = IDs
  /\ Memory!WriteCall = WriteCall /\ Memory!GetCall = GetCall
  /\ \A id, S : Memory!Of(id, S) = Of(id, S)
  /\ Memory!CallsInit <=> CallsInit
  /\ Memory!CallsTypeOK <=> CallsTypeOK
  /\ Memory!CallsTypeOK' <=> CallsTypeOK'
  /\ Memory!CallsCrash <=> CallsCrash
  /\ \A g, label : Memory!Goto(g, label) <=> Goto(g, label)
  /\ \A c, s : Memory!BeginWrite(c, s) <=> BeginWrite(c, s)
  /\ \A c, id : Memory!BeginGet(c, id) <=> BeginGet(c, id)
  /\ \A c : Memory!Return(c) <=> Return(c)
  /\ \A c : Memory!EndWrite(c) <=> EndWrite(c)
  /\ \A c, s : Memory!EndGet(c, s) <=> EndGet(c, s)
  /\ \A c : Memory!Fail(c) <=> Fail(c)
  BY
     DEF Memory!Procs, Procs, Memory!IDs, IDs, Memory!WriteCall, WriteCall,
         Memory!GetCall, GetCall, Memory!Of, Of, Memory!Goto, Goto, Memory!CallsInit,
         CallsInit, Memory!CallsTypeOK, CallsTypeOK, Memory!CallsCrash, CallsCrash,
         Memory!AllIdle, AllIdle, Memory!BeginWrite, BeginWrite, Memory!BeginGet,
         BeginGet, Memory!Return, Return, Memory!EndWrite, EndWrite, Memory!EndGet,
         EndGet, Memory!Fail, Fail

\* The state in the map has not been replaced, and there is one for each
\* persistence id with a state that was acknowledged since the last purge of it.
MapInv ==
  /\ \A id \in IDs : /\ db[id] \notin superseded
                     /\ Of(id, acked) # {} => db[id] # None
  /\ \A c \in Clients : call[c] \in GetCall /\ None \in stale[c] => db[call[c].id] # None

\* A Disconnect has yet to visit the keys that have a state acknowledged before it.
PurgeInv ==
  \A o \in Owners : pc[o] \in {"range", "ranged"} =>
    /\ purge[o].acked \subseteq written \ Open
    /\ \A id \in IDs : db[id] \in purge[o].acked => pc[o] = "range" /\ id \in purge[o].must

MemInv == Memory!TypeOK /\ CallsOK /\ MapInv /\ PurgeInv

LEMMA MemStarts == Memory!Init => MemInv
<1> SUFFICES ASSUME Memory!Init PROVE MemInv
  OBVIOUS
<1>1. CallsOK /\ Settled = {} /\ Open = {}
  BY MemCalls, CallsStart DEF Memory!Init
<1>2. Memory!TypeOK
  BY MemCalls, <1>1, ProcsAssumption
     DEF Memory!TypeOK, CallsOK, Memory!Init, CallsInit, AllIdle, Procs
<1>3. MapInv /\ PurgeInv
  BY MemCalls, NoStateAssumption, NoCallAssumption, ProcsAssumption
     DEF MapInv, PurgeInv, Memory!Init, CallsInit, AllIdle, Procs, Of
<1> QED BY <1>1, <1>2, <1>3 DEF MemInv

-------------------------------------------------------------------------------
(* durablestore/memory: owners.                                            *)

\* The calls and the map stay as they are.
LEMMA MemLifecycle ==
  ASSUME MemInv, NEW o \in Owners,
         \/ Memory!Connect(o) \/ Memory!ConnectStore(o) \/ Memory!DisconnectRanged(o)
         \/ Memory!DisconnectStore(o) \/ Memory!Disconnect(o)
  PROVE  MemInv'
<1> USE ProcsAssumption
        DEF Procs, Memory!Procs, Goto, Memory!Goto, Memory!Set, Memory!memVars,
            callVars, Memory!callVars
<1>1. UNCHANGED <<call, reply, written, acked, superseded, stale, db>>
  BY
     DEF Memory!Connect, Memory!ConnectStore, Memory!Disconnect,
         Memory!DisconnectRanged, Memory!DisconnectStore
<1>2. CallsOK' /\ MapInv' /\ Open' = Open
  BY <1>1
     DEF MemInv, CallsOK, CallsTypeOK, CallsInv, StaleInv, Settled, Open, Writers,
         MapInv
<1>3. /\ pc' = [pc EXCEPT ![o] = pc'[o]] /\ pc'[o] \in {"idle", "connect", "range", "ranged"}
      /\ connected' \in BOOLEAN
  BY
     DEF MemInv, Memory!TypeOK, Memory!Connect, Memory!ConnectStore, Memory!Disconnect,
         Memory!DisconnectRanged, Memory!DisconnectStore
<1>4. /\ purge' = [purge EXCEPT ![o] = purge'[o]]
      /\ IF pc'[o] \in {"range", "ranged"} THEN purge'[o] \in Memory!Purge ELSE purge'[o] = None
  <2>1. CASE Memory!Connect(o) \/ Memory!ConnectStore(o)
    BY MemCalls, <2>1 DEF MemInv, Memory!TypeOK, Memory!Connect, Memory!ConnectStore
  <2>2. CASE Memory!Disconnect(o)
    BY MemCalls, <2>2
       DEF MemInv, Memory!TypeOK, CallsTypeOK, Memory!Disconnect, Memory!Purge
  <2>3. CASE Memory!DisconnectRanged(o) \/ Memory!DisconnectStore(o)
    BY MemCalls, <2>3
       DEF MemInv, Memory!TypeOK, Memory!DisconnectRanged, Memory!DisconnectStore
  <2> QED BY <2>1, <2>2, <2>3
<1>5. Memory!TypeOK'
  BY MemCalls, <1>1, <1>2, <1>3, <1>4 DEF MemInv, Memory!TypeOK, CallsOK
<1>6. ASSUME pc'[o] \in {"range", "ranged"}
      PROVE  /\ purge'[o].acked \subseteq written' \ Open'
             /\ \A id \in IDs : db'[id] \in purge'[o].acked =>
                                  pc'[o] = "range" /\ id \in purge'[o].must
  <2>1. CASE Memory!Disconnect(o)
    <3>1. purge'[o].must = {id \in IDs : db[id] # None} /\ purge'[o].acked = acked
          /\ pc'[o] = "range"
      BY MemCalls, <2>1 DEF MemInv, Memory!TypeOK, Memory!Disconnect
    <3>2. acked \subseteq written \ Open /\ None \notin acked
      BY NoStateAssumption DEF MemInv, CallsOK, CallsInv, CallsTypeOK, Settled
    <3> QED BY <1>1, <1>2, <3>1, <3>2
  <2>2. CASE Memory!DisconnectRanged(o)
    BY <2>2, <1>1, <1>2 DEF MemInv, PurgeInv, Memory!DisconnectRanged, Memory!RangeDone
  <2>3. CASE Memory!Connect(o) \/ Memory!ConnectStore(o) \/ Memory!DisconnectStore(o)
    BY MemCalls, <2>3, <1>6
       DEF MemInv, Memory!TypeOK, Memory!Connect, Memory!ConnectStore,
           Memory!DisconnectStore
  <2> QED BY <2>1, <2>2, <2>3
<1>7. PurgeInv'
  BY MemCalls, <1>1, <1>2, <1>3, <1>4, <1>6 DEF MemInv, PurgeInv, Memory!TypeOK
<1> QED BY <1>2, <1>5, <1>7 DEF MemInv

\* A key goes, and with it what callers knew of its states.
LEMMA MemDelete ==
  ASSUME MemInv, NEW o \in Owners, Memory!DisconnectDelete(o)
  PROVE  MemInv'
<1>1. PICK id \in purge[o].must \cup purge[o].may :
        /\ purge' = [purge EXCEPT ![o].must = @ \ {id}, ![o].may = @ \ {id}]
        /\ db' = Memory!Set(db, id, None)
        /\ Memory!Forget(id)
  BY DEF Memory!DisconnectDelete
<1>2. id \in IDs /\ pc[o] = "range" /\ UNCHANGED <<pc, call, reply, written, superseded, connected>>
      /\ purge[o] \in Memory!Purge
  BY MemCalls DEF MemInv, Memory!TypeOK, Memory!DisconnectDelete, Memory!Purge
<1>3. /\ acked' = acked \ Of(id, States)
      /\ stale' \in [Clients -> SUBSET (States \cup {None})]
      /\ \A c \in Clients : /\ stale'[c] \subseteq stale[c]
                            /\ call[c] # None /\ call[c] = [op |-> "get", id |-> id]
                                 => None \notin stale'[c]
  BY MemCalls, <1>1 DEF Memory!Forget, MemInv, CallsOK, CallsTypeOK
<1>4. CallsOK' /\ Open' = Open
  <2>1. CallsTypeOK' /\ StaleInv'
    BY <1>2, <1>3 DEF MemInv, CallsOK, CallsTypeOK, StaleInv
  <2>2. Writers' = Writers /\ Open' = Open /\ Settled' \subseteq Settled
    BY <1>2, <1>3 DEF Writers, Open, Settled
  <2> QED BY <2>1, <2>2, <1>2 DEF MemInv, CallsOK, CallsInv
<1>5. db' \in [IDs -> States \cup {None}] /\ db'[id] = None
      /\ \A i \in IDs \ {id} : db'[i] = db[i]
  BY MemCalls, <1>1, <1>2 DEF MemInv, Memory!TypeOK, Memory!Set
<1>6. /\ purge'[o].must = purge[o].must \ {id} /\ purge'[o].acked = purge[o].acked
      /\ purge' = [purge EXCEPT ![o] = purge'[o]] /\ purge'[o] \in Memory!Purge
  BY <1>1, <1>2 DEF MemInv, Memory!TypeOK, Memory!Purge
<1>7. Memory!TypeOK'
  BY MemCalls, <1>2, <1>4, <1>5, <1>6 DEF MemInv, Memory!TypeOK, CallsOK
<1>8. MapInv'
  <2>1. \A i \in IDs : /\ db'[i] \notin superseded'
                       /\ Of(i, acked') # {} => db'[i] # None
    BY <1>2, <1>3, <1>5, NoStateAssumption
       DEF MemInv, MapInv, Of, CallsOK, CallsTypeOK
  <2>2. \A c \in Clients :
          call'[c] \in GetCall /\ None \in stale'[c] => db'[call'[c].id] # None
    <3> SUFFICES ASSUME NEW c \in Clients, call[c] \in GetCall, None \in stale'[c]
                 PROVE  db'[call[c].id] # None
      BY <1>2
    <3>1. call[c].id \in IDs /\ call[c] = [op |-> "get", id |-> call[c].id] /\ call[c] # None
      BY NoCallAssumption DEF GetCall
    <3>2. call[c].id # id
      BY <1>3, <3>1
    <3> QED BY <1>3, <1>5, <3>1, <3>2 DEF MemInv, MapInv
  <2> QED BY <2>1, <2>2 DEF MapInv
<1>9. PurgeInv'
  <2> SUFFICES ASSUME NEW q \in Owners, pc[q] \in {"range", "ranged"}
               PROVE  /\ purge'[q].acked \subseteq written' \ Open'
                      /\ \A i \in IDs : db'[i] \in purge'[q].acked =>
                                          pc'[q] = "range" /\ i \in purge'[q].must
    BY <1>2 DEF PurgeInv
  <2>1. purge[q] \in Memory!Purge /\ None \notin purge[q].acked
    BY NoStateAssumption DEF MemInv, Memory!TypeOK, Memory!Purge
  <2>2. purge'[q].acked = purge[q].acked /\ purge[q].must \ {id} \subseteq purge'[q].must
    BY <1>6, <2>1 DEF MemInv, Memory!TypeOK
  <2> QED BY <1>2, <1>4, <1>5, <2>1, <2>2 DEF MemInv, PurgeInv
<1> QED BY <1>4, <1>7, <1>8, <1>9 DEF MemInv

-------------------------------------------------------------------------------
(* durablestore/memory: clients.                                           *)

\* A step of a client that keeps what a purge has to know.
LEMMA PurgeKept ==
  ASSUME MemInv, NEW c \in Clients, pc' = [pc EXCEPT ![c] = pc'[c]], UNCHANGED purge,
         written \subseteq written', Open' \subseteq Open \cup (written' \ written),
         \A id \in IDs : db'[id] = db[id] \/ db'[id] \in Open
  PROVE  PurgeInv'
<1>1. \A o \in Owners : pc'[o] = pc[o]
  BY MemCalls, ProcsAssumption DEF MemInv, Memory!TypeOK, Procs
<1> QED BY <1>1 DEF MemInv, PurgeInv

LEMMA MemWriteState ==
  ASSUME MemInv, NEW c \in Clients, NEW s \in States, Memory!WriteState(c, s)
  PROVE  MemInv'
<1>1. call[c] = None
  BY DEF MemInv, Memory!TypeOK, Memory!WriteState
<1>2. CallsOK' /\ Settled' = Settled /\ Open' = Open \cup {s}
  BY MemCalls, <1>1, CallsBeginWrite DEF MemInv, Memory!WriteState
<1>3. /\ call'[c] \in WriteCall /\ \A d \in Clients \ {c} : call'[d] = call[d]
      /\ UNCHANGED <<acked, superseded, stale, db, connected, purge>>
      /\ written' = written \cup {s} /\ s \notin written
      /\ pc' = [pc EXCEPT ![c] = "write"]
  BY MemCalls
     DEF MemInv, CallsOK, CallsTypeOK, Memory!WriteState, BeginWrite, Goto,
         Memory!memVars, WriteCall, Of
<1>4. Memory!TypeOK'
  BY MemCalls, <1>2, <1>3, CallKinds, NoCallAssumption, ProcsAssumption
     DEF MemInv, Memory!TypeOK, CallsOK, Procs, Of
<1>5. MapInv'
  BY <1>3, CallKinds DEF MemInv, MapInv
<1>6. PurgeInv'
  BY <1>2, <1>3, PurgeKept, ProcsAssumption DEF MemInv, Memory!TypeOK, Procs
<1> QED BY <1>2, <1>4, <1>5, <1>6 DEF MemInv

LEMMA MemGetLatestState ==
  ASSUME MemInv, NEW c \in Clients, NEW id \in IDs, Memory!GetLatestState(c, id)
  PROVE  MemInv'
<1>1. call[c] = None
  BY DEF MemInv, Memory!TypeOK, Memory!GetLatestState
<1>2. CallsOK' /\ Open' = Open
  BY MemCalls, <1>1, CallsBeginGet DEF MemInv, Memory!GetLatestState
<1>3. /\ call'[c] = [op |-> "get", id |-> id]
      /\ stale'[c] = Of(id, superseded) \cup IF Of(id, acked) = {} THEN {} ELSE {None}
      /\ \A d \in Clients \ {c} : call'[d] = call[d] /\ stale'[d] = stale[d]
      /\ UNCHANGED <<written, acked, superseded, db, connected, purge>>
      /\ pc' = [pc EXCEPT ![c] = "get"]
  BY MemCalls
     DEF MemInv, CallsOK, CallsTypeOK, Memory!GetLatestState, BeginGet, Goto,
         Memory!memVars
<1>4. Memory!TypeOK'
  BY MemCalls, <1>2, <1>3, NoCallAssumption, ProcsAssumption
     DEF MemInv, Memory!TypeOK, CallsOK, Procs, Of, GetCall
<1>5. MapInv'
  <2>1. None \in stale'[c] => Of(id, acked) # {}
    BY <1>3, NoStateAssumption DEF MemInv, CallsOK, CallsTypeOK, Of
  <2> QED BY <1>3, <2>1 DEF MemInv, MapInv
<1>6. PurgeInv'
  BY <1>2, <1>3, PurgeKept, ProcsAssumption DEF MemInv, Memory!TypeOK, Procs
<1> QED BY <1>2, <1>4, <1>5, <1>6 DEF MemInv

LEMMA MemStore ==
  ASSUME MemInv, NEW c \in Clients, Memory!Store(c)
  PROVE  MemInv'
<1> DEFINE s == call[c].state
<1>1. c \in Writers
  BY CallKinds DEF MemInv, Memory!TypeOK, CallsOK, CallsTypeOK, Memory!Store, Writers
<1>2. /\ CallsOK'
      /\ Settled' \subseteq Settled \cup {s} /\ Open' = Open \ {s} /\ s \in Open
      /\ superseded' \ superseded \subseteq Settled \cap Of(s.PersistenceId, States)
  BY MemCalls, <1>1, CallsEndWrite DEF Memory!Store, MemInv
<1>3. /\ acked' = acked \cup {s} /\ UNCHANGED <<written, connected, purge>>
      /\ pc' = [pc EXCEPT ![c] = "idle"] /\ Return(c)
      /\ db' = [db EXCEPT ![s.PersistenceId] = s]
  BY MemCalls DEF Memory!Store, EndWrite, Return, Goto, Memory!Set
<1>4. /\ s \in Of(s.PersistenceId, written) /\ s.PersistenceId \in IDs
      /\ s \notin superseded' /\ s # None
      /\ db'[s.PersistenceId] = s
      /\ \A id \in IDs \ {s.PersistenceId} : db'[id] = db[id]
      /\ db' \in [IDs -> States \cup {None}]
  <2>1. s \in States /\ s \in written /\ s \notin Settled
    BY <1>2 DEF MemInv, CallsOK, CallsInv, Open
  <2>2. s \notin superseded'
    BY <1>2, <2>1 DEF Settled
  <2> QED BY MemCalls, <1>3, <2>1, <2>2, NoStateAssumption
             DEF MemInv, Memory!TypeOK, Of, IDs
<1>5. /\ \A d \in Clients \ {c} : call'[d] = call[d] /\ stale'[d] = stale[d]
      /\ call'[c] = None
  BY <1>3, CallsReturn DEF MemInv
<1>6. Memory!TypeOK'
  <2>1. \A d \in Clients : /\ pc'[d] \in {"idle", "write", "get"}
                           /\ IF pc'[d] = "idle" THEN call'[d] = None
                              ELSE call'[d] # None /\ call'[d].op = pc'[d]
    BY MemCalls, <1>3, <1>5 DEF MemInv, Memory!TypeOK, Procs
  <2>2. \A id \in IDs : db'[id] \in Of(id, written') \cup {None}
    BY MemCalls, <1>3, <1>4 DEF MemInv, Memory!TypeOK
  <2>3. pc' \in [Procs -> {"idle", "connect", "range", "ranged", "write", "get"}]
        /\ \A o \in Owners : pc'[o] = pc[o]
    BY MemCalls, <1>3, ProcsAssumption DEF MemInv, Memory!TypeOK, Procs
  <2> QED BY MemCalls, <1>2, <1>3, <1>4, <2>1, <2>2, <2>3
             DEF MemInv, Memory!TypeOK, CallsOK
<1>7. MapInv'
  <2>1. ASSUME NEW id \in IDs
        PROVE  db'[id] \notin superseded' /\ (Of(id, acked') # {} => db'[id] # None)
    <3>1. CASE id = s.PersistenceId
      BY <3>1, <1>4
    <3>2. CASE id # s.PersistenceId
      <4>1. db'[id] = db[id] /\ Of(id, acked') = Of(id, acked)
        BY <3>2, <1>3, <1>4 DEF Of
      <4>2. db[id] \notin superseded' \ superseded
        BY MemCalls, <3>2, <1>2, NoStateAssumption DEF MemInv, Memory!TypeOK, Of
      <4> QED BY <4>1, <4>2 DEF MemInv, MapInv
    <3> QED BY <3>1, <3>2
  <2>2. \A d \in Clients :
          call'[d] \in GetCall /\ None \in stale'[d] => db'[call'[d].id] # None
    BY <1>4, <1>5, NoCallAssumption DEF MemInv, MapInv, GetCall
  <2> QED BY <2>1, <2>2 DEF MapInv
<1>8. PurgeInv'
  BY MemCalls, <1>2, <1>3, <1>4, PurgeKept, ProcsAssumption
     DEF MemInv, Memory!TypeOK, Procs
<1> QED BY <1>2, <1>6, <1>7, <1>8 DEF MemInv

\* A call that ends with no state stored.
LEMMA MemEnds ==
  ASSUME MemInv, NEW c \in Clients, Return(c),
         UNCHANGED <<written, acked, superseded, Memory!memVars>>,
         reply' \in SUBSET (States \cup {None})
  PROVE  MemInv'
<1>1. CallsOK' /\ Open' \subseteq Open
  BY CallsEnd DEF MemInv
<1>2. /\ \A d \in Clients \ {c} : call'[d] = call[d] /\ stale'[d] = stale[d]
      /\ call'[c] = None /\ pc' = [pc EXCEPT ![c] = "idle"]
      /\ UNCHANGED <<db, connected, purge, written, acked, superseded>>
  BY CallsReturn DEF MemInv, Return, Goto, Memory!memVars
<1>3. Memory!TypeOK'
  BY MemCalls, <1>1, <1>2, ProcsAssumption DEF MemInv, Memory!TypeOK, CallsOK, Procs
<1>4. MapInv'
  BY <1>2, NoCallAssumption DEF MemInv, MapInv
<1>5. PurgeInv'
  BY MemCalls, <1>1, <1>2, PurgeKept, ProcsAssumption DEF MemInv, Memory!TypeOK, Procs
<1> QED BY <1>1, <1>3, <1>4, <1>5 DEF MemInv

LEMMA MemInductive == MemInv /\ [Memory!Next]_Memory!vars => MemInv'
<1> SUFFICES ASSUME MemInv, [Memory!Next]_Memory!vars PROVE MemInv'
  OBVIOUS
<1>1. ASSUME NEW c \in Clients, Memory!NotConnected(c) \/ Memory!Load(c) PROVE MemInv'
  <2>1. CASE Memory!NotConnected(c)
    BY MemCalls, <2>1, MemEnds DEF Memory!NotConnected, Fail
  <2>2. CASE Memory!Load(c)
    <3>1. db[call[c].id] \in States \cup {None}
      BY MemCalls, <2>2, CallKinds
         DEF MemInv, Memory!TypeOK, CallsOK, CallsTypeOK, GetCall, Memory!Load
    <3> QED BY MemCalls, <2>2, <3>1, MemEnds DEF Memory!Load, EndGet
  <2> QED BY <1>1, <2>1, <2>2
<1>2. CASE UNCHANGED Memory!vars
  BY <1>2
     DEF Memory!vars, callVars, Memory!callVars, Memory!memVars, MemInv, Memory!TypeOK,
         MapInv, PurgeInv, CallsOK, CallsTypeOK, Memory!CallsTypeOK, CallsInv, StaleInv,
         Settled, Open, Writers
<1> QED BY MemCalls, <1>1, <1>2, MemLifecycle, MemDelete, MemWriteState,
           MemGetLatestState, MemStore
           DEF Memory!Next

LEMMA MemReads ==
  MemInv /\ [Memory!Next]_Memory!vars => [LatestRead]_<<pc, callVars>>
<1> SUFFICES ASSUME MemInv, Memory!Next PROVE LatestRead
  BY DEF Memory!vars, callVars, Memory!callVars
<1>1. call \in [Clients -> WriteCall \cup GetCall \cup {None}]
  BY DEF MemInv, CallsOK, CallsTypeOK
<1>2. ASSUME NEW c \in Clients, Memory!Load(c) PROVE LatestRead
  <2>1. call[c] \in GetCall
    BY <1>1, <1>2, CallKinds DEF MemInv, Memory!TypeOK, Memory!Load
  <2> QED BY MemCalls, <1>2, <2>1, ReadsOne
             DEF Memory!Load, MemInv, CallsOK, StaleInv, MapInv, Memory!TypeOK, GetCall
<1>3. CASE \E c \in Clients : \/ Memory!NotConnected(c) \/ Memory!Store(c)
                              \/ \E s \in States : Memory!WriteState(c, s)
                              \/ \E id \in IDs : Memory!GetLatestState(c, id)
  BY MemCalls, <1>1, <1>3, ReadsNothing
     DEF Memory!NotConnected, Memory!Store, Memory!WriteState, Memory!GetLatestState,
         Fail, EndWrite, BeginWrite, BeginGet
<1>4. CASE \E o \in Owners : \/ Memory!Connect(o) \/ Memory!ConnectStore(o)
                             \/ Memory!Disconnect(o) \/ Memory!DisconnectDelete(o)
                             \/ Memory!DisconnectRanged(o) \/ Memory!DisconnectStore(o)
  BY <1>1, <1>4, ReadsNothing
     DEF Memory!Connect, Memory!ConnectStore, Memory!Disconnect,
         Memory!DisconnectDelete, Memory!DisconnectRanged, Memory!DisconnectStore,
         callVars, Memory!callVars
<1> QED BY MemCalls, <1>2, <1>3, <1>4 DEF Memory!Next

-------------------------------------------------------------------------------
(* durablestore/postgres.                                                  *)

\* What PgStateStore extends is what StateStores extends.
LEMMA PgCalls ==
  /\ Postgres!Procs = Procs /\ Postgres!IDs = IDs
  /\ Postgres!WriteCall = WriteCall /\ Postgres!GetCall = GetCall
  /\ \A id, S : Postgres!Of(id, S) = Of(id, S)
  /\ Postgres!CallsInit <=> CallsInit
  /\ Postgres!CallsTypeOK <=> CallsTypeOK
  /\ Postgres!CallsTypeOK' <=> CallsTypeOK'
  /\ Postgres!CallsCrash <=> CallsCrash
  /\ \A g, label : Postgres!Goto(g, label) <=> Goto(g, label)
  /\ \A c, s : Postgres!BeginWrite(c, s) <=> BeginWrite(c, s)
  /\ \A c, id : Postgres!BeginGet(c, id) <=> BeginGet(c, id)
  /\ \A c : Postgres!Return(c) <=> Return(c)
  /\ \A c : Postgres!EndWrite(c) <=> EndWrite(c)
  /\ \A c, s : Postgres!EndGet(c, s) <=> EndGet(c, s)
  /\ \A c : Postgres!Fail(c) <=> Fail(c)
  /\ \A c, s, t : Postgres!Unmarshal(c, s, t) <=> Unmarshal(c, s, t)
  BY
     DEF Postgres!Procs, Procs, Postgres!IDs, IDs, Postgres!WriteCall, WriteCall,
         Postgres!GetCall, GetCall, Postgres!Of, Of, Postgres!Goto, Goto,
         Postgres!CallsInit, CallsInit, Postgres!CallsTypeOK, CallsTypeOK,
         Postgres!CallsCrash, CallsCrash, Postgres!AllIdle, AllIdle,
         Postgres!BeginWrite, BeginWrite, Postgres!BeginGet, BeginGet, Postgres!Return,
         Return, Postgres!EndWrite, EndWrite, Postgres!EndGet, EndGet, Postgres!Fail,
         Fail, Postgres!Unmarshal, Unmarshal

\* What holds while the mutex is held as well: the flag is up as long as the pool is
\* not closed, the owner that closes it knows it as closing, and who is past the
\* load of the flag has a pool.
PoolInv ==
  /\ connected => pool \in Pools
  /\ \A c \in Clients : pc[c] = "acquire" => pool \in Pools
  /\ Postgres!ConnectedIsOpen
  /\ \A o \in Owners :
       /\ pc[o] = "dial" => ~connected /\ (pool # None => status[pool] # "open")
       /\ pc[o] = "close" => connected /\ status[pool] = "closing"

LEMMA PoolInvImplies == Postgres!PoolTypeOK /\ PoolInv => Postgres!ConnectedIsOpen
  BY DEF PoolInv

\* A store that has just been made, or whose program has restarted.
LEMMA PoolStarts ==
  ASSUME pc = AllIdle, Postgres!PoolInit
  PROVE  Postgres!PoolTypeOK /\ PoolInv
  BY PgCalls, ProcsAssumption, NoProcAssumption
     DEF AllIdle, Postgres!PoolInit, Postgres!PoolTypeOK, PoolInv,
         Postgres!ConnectedIsOpen, Procs

LEMMA PoolRestarts ==
  ASSUME pc' = AllIdle, Postgres!PoolCrash
  PROVE  Postgres!PoolTypeOK' /\ PoolInv'
  BY PgCalls, ProcsAssumption, NoProcAssumption
     DEF AllIdle, Postgres!PoolCrash, Postgres!PoolTypeOK, PoolInv,
         Postgres!ConnectedIsOpen, Procs

LEMMA PoolOwner ==
  ASSUME Postgres!PoolTypeOK, PoolInv, NEW o \in Owners, Postgres!OwnerStep(o)
  PROVE  Postgres!PoolTypeOK' /\ PoolInv' /\ UNCHANGED holds /\ \A c \in Clients : pc'[c] = pc[c]
<1> USE ProcsAssumption, NoProcAssumption, NoPoolAssumption
        DEF Postgres!PoolTypeOK, PoolInv, Postgres!ConnectedIsOpen, Procs,
            Postgres!Procs, Goto, Postgres!Goto, Postgres!LockFree
<1>1. CASE Postgres!Connect(o)
  BY PgCalls, <1>1 DEF Postgres!Connect
<1>2. CASE Postgres!Ping(o)
  BY PgCalls, <1>2 DEF Postgres!Ping, Postgres!poolVars
<1>3. CASE Postgres!AlreadyConnected(o)
  BY PgCalls, <1>3 DEF Postgres!AlreadyConnected, Postgres!poolVars
<1>4. CASE Postgres!ConnectStore(o)
  BY PgCalls, <1>4 DEF Postgres!ConnectStore, Postgres!Unlock
<1>5. CASE Postgres!ConnectFails(o)
  BY PgCalls, <1>5 DEF Postgres!ConnectFails, Postgres!Unlock
<1>6. CASE Postgres!Disconnect(o)
  BY PgCalls, <1>6 DEF Postgres!Disconnect
<1>7. CASE Postgres!DisconnectStore(o)
  BY <1>7 DEF Postgres!DisconnectStore, Postgres!Unlock
<1> QED BY <1>1, <1>2, <1>3, <1>4, <1>5, <1>6, <1>7 DEF Postgres!OwnerStep

\* A step of a client touches neither the mutex nor the pool.
LEMMA PoolClient ==
  ASSUME Postgres!PoolTypeOK, PoolInv, NEW c \in Clients,
         \/ Postgres!IsConnected(c)
         \/ (Postgres!NotConnected(c) \/ Postgres!NoConnection(c)) /\ Goto(c, "idle")
         \/ Postgres!Acquire(c)
         \/ Postgres!Release(c) /\ Goto(c, "idle")
  PROVE  Postgres!PoolTypeOK' /\ PoolInv' /\ UNCHANGED <<mu, connected, pool, status>>
<1> USE ProcsAssumption, NoProcAssumption, NoPoolAssumption
        DEF Postgres!PoolTypeOK, PoolInv, Postgres!ConnectedIsOpen, Procs,
            Postgres!Procs, Goto, Postgres!Goto
<1>1. CASE Postgres!IsConnected(c)
  BY PgCalls, <1>1 DEF Postgres!IsConnected, Postgres!poolVars
<1>2. CASE (Postgres!NotConnected(c) \/ Postgres!NoConnection(c)) /\ Goto(c, "idle")
  BY PgCalls, <1>2 DEF Postgres!NotConnected, Postgres!NoConnection, Postgres!poolVars
<1>3. CASE Postgres!Acquire(c)
  BY PgCalls, <1>3 DEF Postgres!Acquire
<1>4. CASE Postgres!Release(c) /\ Goto(c, "idle")
  BY PgCalls, <1>4 DEF Postgres!Release, Postgres!GiveBack
<1> QED BY <1>1, <1>2, <1>3, <1>4

\* The row of a persistence id is a state written for it that has not been
\* replaced, and is there once one was acknowledged; an upsert that is late is
\* of no call any more and was not acknowledged.
RowsInv ==
  /\ late \subseteq written \ (Open \cup Settled)
  /\ \A id \in IDs : /\ rows[id] \in (Of(id, written) \cup {None}) \ superseded
                     /\ Of(id, acked) # {} => rows[id] # None
  /\ \A c \in Clients : call[c] \in GetCall /\ None \in stale[c] => rows[call[c].id] # None

PgInv == Postgres!TypeOK /\ PoolInv /\ CallsOK /\ RowsInv

LEMMA PgStarts == Postgres!Init => PgInv
<1> SUFFICES ASSUME Postgres!Init PROVE PgInv
  OBVIOUS
<1>1. Postgres!PoolTypeOK /\ PoolInv
  BY PgCalls, PoolStarts DEF Postgres!Init, CallsInit
<1>2. CallsOK /\ Settled = {} /\ Open = {}
  BY PgCalls, CallsStart DEF Postgres!Init
<1>3. Postgres!TypeOK
  BY PgCalls, <1>1, <1>2, NoProcAssumption, ProcsAssumption
     DEF Postgres!TypeOK, CallsOK, Postgres!Init, CallsInit, AllIdle, Procs
<1>4. RowsInv
  BY PgCalls, <1>2, NoStateAssumption, NoCallAssumption
     DEF RowsInv, Postgres!Init, CallsInit, Of
<1> QED BY <1>1, <1>2, <1>3, <1>4 DEF PgInv

\* A step of a client that leaves the table alone keeps what RowsInv says, if it
\* neither acknowledges a state nor makes an upsert late that is.
LEMMA RowsKept ==
  ASSUME PgInv, CallsOK', UNCHANGED rows,
         written \subseteq written', superseded' = superseded, acked' = acked,
         late' \subseteq written' \ (Open' \cup Settled'),
         \A c \in Clients : call'[c] \in GetCall /\ None \in stale'[c] =>
           \/ call'[c] = call[c] /\ stale'[c] = stale[c]
           \/ Of(call'[c].id, acked) # {}
  PROVE  RowsInv'
  BY CallKinds DEF PgInv, RowsInv, Of, GetCall

LEMMA PgWriteState ==
  ASSUME PgInv, NEW c \in Clients, NEW s \in States, Postgres!WriteState(c, s)
  PROVE  PgInv'
<1>1. Postgres!PoolTypeOK' /\ PoolInv'
  BY PoolClient DEF PgInv, Postgres!TypeOK, Postgres!WriteState
<1>2. call[c] = None
  BY DEF PgInv, Postgres!TypeOK, Postgres!WriteState, Postgres!IsConnected
<1>3. CallsOK' /\ Settled' = Settled /\ Open' = Open \cup {s}
  BY PgCalls, <1>2, CallsBeginWrite DEF PgInv, Postgres!WriteState
<1>4. Postgres!TypeOK'
  <2>1. \A d \in Clients : pc'[d] = "idle" <=> call'[d] = None
    BY PgCalls, <1>3, NoCallAssumption
       DEF PgInv, Postgres!TypeOK, Postgres!PoolTypeOK, CallsOK, CallsTypeOK, Procs,
           Postgres!WriteState, Postgres!IsConnected, BeginWrite, Goto, WriteCall, Of
  <2> QED BY PgCalls, <1>1, <1>3, <2>1
             DEF PgInv, Postgres!TypeOK, CallsOK, Postgres!WriteState, BeginWrite
<1>5. RowsInv'
  <2>1. late' \subseteq written' \ (Open' \cup Settled')
    BY PgCalls, <1>3 DEF PgInv, RowsInv, Postgres!WriteState, BeginWrite
  <2>2. \A d \in Clients : call'[d] \in GetCall => call'[d] = call[d] /\ stale'[d] = stale[d]
    BY PgCalls, CallKinds
       DEF PgInv, CallsOK, CallsTypeOK, Postgres!WriteState, BeginWrite
  <2> QED BY PgCalls, <1>3, <2>1, <2>2, RowsKept DEF Postgres!WriteState, BeginWrite
<1> QED BY <1>1, <1>3, <1>4, <1>5 DEF PgInv

LEMMA PgGetLatestState ==
  ASSUME PgInv, NEW c \in Clients, NEW id \in IDs, Postgres!GetLatestState(c, id)
  PROVE  PgInv'
<1>1. Postgres!PoolTypeOK' /\ PoolInv'
  BY PoolClient DEF PgInv, Postgres!TypeOK, Postgres!GetLatestState
<1>2. call[c] = None
  BY DEF PgInv, Postgres!TypeOK, Postgres!GetLatestState, Postgres!IsConnected
<1>3. CallsOK' /\ Settled' = Settled /\ Open' = Open
  BY PgCalls, <1>2, CallsBeginGet DEF PgInv, Postgres!GetLatestState
<1>4. /\ call'[c] = [op |-> "get", id |-> id]
      /\ stale'[c] = Of(id, superseded) \cup IF Of(id, acked) = {} THEN {} ELSE {None}
      /\ \A d \in Clients \ {c} : call'[d] = call[d] /\ stale'[d] = stale[d]
  BY PgCalls DEF PgInv, CallsOK, CallsTypeOK, Postgres!GetLatestState, BeginGet
<1>5. Postgres!TypeOK'
  <2>1. \A d \in Clients : pc'[d] = "idle" <=> call'[d] = None
    BY PgCalls, <1>4, NoCallAssumption
       DEF PgInv, Postgres!TypeOK, Postgres!PoolTypeOK, Procs, Postgres!GetLatestState,
           Postgres!IsConnected, Goto, GetCall
  <2> QED BY PgCalls, <1>1, <1>3, <2>1
             DEF PgInv, Postgres!TypeOK, CallsOK, Postgres!GetLatestState, BeginGet
<1>6. RowsInv'
  <2>1. None \in stale'[c] => Of(call'[c].id, acked) # {}
    BY <1>4, NoStateAssumption DEF PgInv, CallsOK, CallsTypeOK, Of
  <2> QED BY PgCalls, <1>3, <1>4, <2>1, RowsKept
             DEF PgInv, RowsInv, Postgres!GetLatestState, BeginGet
<1> QED BY <1>1, <1>3, <1>5, <1>6 DEF PgInv

\* A call that ends without an acknowledgement, perhaps with a late upsert.
LEMMA PgEnds ==
  ASSUME PgInv, NEW c \in Clients, Return(c), Postgres!PoolTypeOK', PoolInv',
         reply' \in SUBSET (States \cup {None}),
         late' \subseteq late \cup Postgres!Sent(c),
         UNCHANGED <<written, acked, superseded, rows>>
  PROVE  PgInv'
<1>1. CallsOK' /\ Settled' \subseteq Settled
      /\ Open' = IF c \in Writers THEN Open \ {call[c].state} ELSE Open
  BY CallsEnd DEF PgInv
<1>2. Postgres!Sent(c) \subseteq IF c \in Writers THEN {call[c].state} ELSE {}
  <2>1. call[c] \in WriteCall \cup GetCall \cup {None}
    BY DEF PgInv, CallsOK, CallsTypeOK
  <2>2. pc[c] = "exec" => call[c] # None
    BY DEF PgInv, Postgres!TypeOK
  <2>3. pc[c] = "exec" /\ call[c].op = "write" => c \in Writers
    BY <2>1, <2>2, CallKinds DEF Writers
  <2> QED BY <2>3 DEF Postgres!Sent
<1>3. late' \subseteq written' \ (Open' \cup Settled')
  <2>1. c \in Writers => call[c].state \in Open
    BY DEF Open, Writers, WriteCall
  <2>2. Open \subseteq written \ Settled
    BY DEF PgInv, CallsOK, CallsInv
  <2> QED BY <1>1, <1>2, <2>1, <2>2 DEF PgInv, RowsInv
<1>4. Postgres!TypeOK'
  <2>1. \A d \in Clients : pc'[d] = "idle" <=> call'[d] = None
    BY PgCalls, CallsReturn
       DEF PgInv, Postgres!TypeOK, Postgres!PoolTypeOK, Return, Goto, Procs
  <2> QED BY PgCalls, <1>1, <1>3, <2>1 DEF PgInv, Postgres!TypeOK, CallsOK
<1>5. RowsInv'
  BY <1>1, <1>3, CallsReturn, NoCallAssumption, RowsKept DEF PgInv
<1> QED BY <1>1, <1>4, <1>5 DEF PgInv

\* An upsert of a state that was not replaced.
LEMMA Upserts ==
  ASSUME PgInv, NEW s \in Open \cup late
  PROVE  /\ s \in Of(s.PersistenceId, written) /\ s.PersistenceId \in IDs
         /\ s \notin superseded /\ s # None
         /\ Postgres!Upserted(s)[s.PersistenceId] = s
         /\ \A id \in IDs \ {s.PersistenceId} : Postgres!Upserted(s)[id] = rows[id]
         /\ Postgres!Upserted(s) \in [IDs -> States \cup {None}]
  BY PgCalls, NoStateAssumption
     DEF PgInv, Postgres!TypeOK, CallsOK, CallsInv, CallsTypeOK, RowsInv, Settled, Of,
         IDs, Postgres!Upserted

LEMMA PgUpsert ==
  ASSUME PgInv, NEW c \in Clients, Postgres!Upsert(c)
  PROVE  PgInv'
<1> DEFINE s == call[c].state
<1>1. Postgres!PoolTypeOK' /\ PoolInv'
  BY PgCalls, PoolClient DEF PgInv, Postgres!TypeOK, Postgres!Upsert, EndWrite, Return
<1>2. c \in Writers
  BY CallKinds
     DEF PgInv, Postgres!TypeOK, Postgres!PoolTypeOK, CallsOK, CallsTypeOK,
         Postgres!Upsert, Postgres!Release, Postgres!GiveBack, Writers
<1>3. /\ CallsOK'
      /\ Settled' \subseteq Settled \cup {s} /\ Open' = Open \ {s} /\ s \in Open
      /\ superseded' \ superseded \subseteq Settled \cap Of(s.PersistenceId, States)
  BY PgCalls, <1>2, CallsEndWrite DEF PgInv, Postgres!Upsert
<1>4. /\ acked' = acked \cup {s} /\ written' = written /\ late' = late
      /\ rows' = Postgres!Upserted(s)
  BY PgCalls DEF Postgres!Upsert, EndWrite
<1>5. /\ s \in Of(s.PersistenceId, written) /\ s.PersistenceId \in IDs
      /\ s \notin superseded /\ s # None
      /\ rows'[s.PersistenceId] = s
      /\ \A id \in IDs \ {s.PersistenceId} : rows'[id] = rows[id]
      /\ rows' \in [IDs -> States \cup {None}]
  BY <1>3, <1>4, Upserts
<1>6. Postgres!TypeOK'
  <2>1. \A d \in Clients : pc'[d] = "idle" <=> call'[d] = None
    BY CallsReturn
       DEF PgInv, Postgres!TypeOK, Postgres!PoolTypeOK, Postgres!Upsert, EndWrite,
           Postgres!EndWrite, Return, Postgres!Return, Goto, Postgres!Goto, Procs,
           Postgres!Procs
  <2> QED BY PgCalls, <1>1, <1>3, <1>4, <1>5, <2>1 DEF PgInv, Postgres!TypeOK, CallsOK
<1>7. RowsInv'
  <2>1. late' \subseteq written' \ (Open' \cup Settled')
    BY <1>3, <1>4 DEF PgInv, RowsInv
  <2>2. ASSUME NEW id \in IDs
        PROVE  /\ rows'[id] \in (Of(id, written') \cup {None}) \ superseded'
               /\ Of(id, acked') # {} => rows'[id] # None
    <3>1. CASE id = s.PersistenceId
      BY <3>1, <1>3, <1>4, <1>5, NoStateAssumption
         DEF PgInv, CallsOK, CallsInv, CallsTypeOK
    <3>2. CASE id # s.PersistenceId
      <4>1. rows'[id] = rows[id] /\ Of(id, acked') = Of(id, acked)
        BY <3>2, <1>4, <1>5 DEF Of
      <4>2. rows[id] \notin superseded' \ superseded
        BY <3>2, <1>3, NoStateAssumption DEF PgInv, RowsInv, Of
      <4> QED BY <4>1, <4>2, <1>4 DEF PgInv, RowsInv
    <3> QED BY <3>1, <3>2
  <2>3. \A d \in Clients : call'[d] \in GetCall => call'[d] = call[d] /\ stale'[d] = stale[d]
    BY PgCalls, CallsReturn, NoCallAssumption DEF PgInv, Postgres!Upsert, EndWrite
  <2>4. \A d \in Clients :
          call'[d] \in GetCall /\ None \in stale'[d] => rows'[call'[d].id] # None
    BY <2>3, <1>5 DEF PgInv, RowsInv, GetCall
  <2> QED BY <2>1, <2>2, <2>4 DEF RowsInv
<1> QED BY <1>1, <1>3, <1>6, <1>7 DEF PgInv

LEMMA PgLateUpsert ==
  ASSUME PgInv, Postgres!LateUpsert
  PROVE  PgInv'
<1>1. PICK s \in late : /\ rows' = Postgres!Upserted(s) /\ late' = late \ {s}
                          /\ UNCHANGED <<pc, callVars, Postgres!poolVars>>
  BY PgCalls DEF Postgres!LateUpsert, callVars, Postgres!callVars
<1>2. /\ s \in Of(s.PersistenceId, written) /\ s.PersistenceId \in IDs
      /\ s \notin superseded /\ s # None
      /\ rows'[s.PersistenceId] = s
      /\ \A id \in IDs \ {s.PersistenceId} : rows'[id] = rows[id]
      /\ rows' \in [IDs -> States \cup {None}]
  BY <1>1, Upserts
<1>3. Postgres!PoolTypeOK' /\ PoolInv'
  BY <1>1
     DEF PgInv, Postgres!TypeOK, Postgres!PoolTypeOK, PoolInv, Postgres!ConnectedIsOpen,
         Postgres!poolVars
<1>4. CallsOK' /\ Settled' = Settled /\ Open' = Open
  BY <1>1
     DEF PgInv, CallsOK, CallsTypeOK, CallsInv, StaleInv, Settled, Open, Writers,
         callVars
<1>5. Postgres!TypeOK'
  BY PgCalls, <1>1, <1>2, <1>3, <1>4 DEF PgInv, Postgres!TypeOK, CallsOK, callVars
<1>6. RowsInv'
  BY <1>1, <1>2, <1>4 DEF PgInv, RowsInv, GetCall, callVars
<1> QED BY <1>3, <1>4, <1>5, <1>6 DEF PgInv

LEMMA PgCrash ==
  ASSUME PgInv, Postgres!Crash
  PROVE  PgInv'
<1>1. Postgres!PoolTypeOK' /\ PoolInv'
  BY PgCalls, PoolRestarts DEF Postgres!Crash, CallsCrash
<1>2. CallsOK' /\ Settled' \subseteq Settled /\ Open' = {}
  BY PgCalls, CallsCrashed DEF PgInv, Postgres!Crash
<1>3. late' \subseteq late \cup Open
  <2>1. \A c \in Clients : Postgres!Sent(c) \subseteq Open
    <3> TAKE c \in Clients
    <3>1. call[c] \in WriteCall \cup GetCall \cup {None} /\ (pc[c] = "exec" => call[c] # None)
      BY DEF PgInv, Postgres!TypeOK, CallsOK, CallsTypeOK
    <3>2. pc[c] = "exec" /\ call[c].op = "write" => c \in Writers
      BY <3>1, CallKinds DEF Writers
    <3> QED BY <3>2 DEF Postgres!Sent, Open
  <2> QED BY <2>1 DEF Postgres!Crash
<1>4. late' \subseteq written' \ (Open' \cup Settled')
  BY PgCalls, <1>2, <1>3
     DEF PgInv, RowsInv, CallsOK, CallsInv, Postgres!Crash, CallsCrash
<1>5. Postgres!TypeOK'
  BY PgCalls, <1>1, <1>2, <1>4
     DEF PgInv, Postgres!TypeOK, CallsOK, Postgres!Crash, CallsCrash, AllIdle, Procs
<1>6. RowsInv'
  BY PgCalls, <1>2, <1>4, RowsKept, NoCallAssumption
     DEF PgInv, Postgres!Crash, CallsCrash
<1> QED BY <1>1, <1>2, <1>5, <1>6 DEF PgInv

LEMMA PgInductive == PgInv /\ [Postgres!Next]_Postgres!vars => PgInv'
<1> SUFFICES ASSUME PgInv, [Postgres!Next]_Postgres!vars PROVE PgInv'
  OBVIOUS
<1>1. ASSUME NEW o \in Owners, Postgres!Owner(o) PROVE PgInv'
  <2>1. Postgres!PoolTypeOK' /\ PoolInv' /\ \A c \in Clients : pc'[c] = pc[c]
    BY <1>1, PoolOwner DEF PgInv, Postgres!TypeOK, Postgres!Owner
  <2>2. UNCHANGED <<call, reply, written, acked, superseded, stale, rows, late>>
    BY <1>1 DEF Postgres!Owner, callVars, Postgres!callVars
  <2> QED BY PgCalls, <2>1, <2>2
             DEF PgInv, Postgres!TypeOK, RowsInv, CallsOK, CallsTypeOK, CallsInv,
                 StaleInv, Settled, Open, Writers
<1>2. ASSUME NEW c \in Clients, Postgres!Client(c) PROVE PgInv'
  <2>1. CASE Postgres!Refuse(c)
    <3>1. Postgres!PoolTypeOK' /\ PoolInv'
      BY PgCalls, <2>1, PoolClient
         DEF PgInv, Postgres!TypeOK, Postgres!Refuse, Fail, Return
    <3> QED BY PgCalls, <2>1, <3>1, PgEnds DEF Postgres!Refuse, Fail
  <2>2. CASE Postgres!AcquireConn(c)
    <3>1. Postgres!PoolTypeOK' /\ PoolInv'
      BY <2>2, PoolClient DEF PgInv, Postgres!TypeOK, Postgres!AcquireConn
    <3>2. \A d \in Clients : pc'[d] = "idle" <=> pc[d] = "idle"
      BY PgCalls, <2>2
         DEF PgInv, Postgres!TypeOK, Postgres!PoolTypeOK, Postgres!AcquireConn,
             Postgres!Acquire, Goto, Procs
    <3>3. UNCHANGED <<call, reply, written, acked, superseded, stale, rows, late>>
      BY <2>2 DEF Postgres!AcquireConn, callVars, Postgres!callVars
    <3> QED BY PgCalls, <3>1, <3>2, <3>3
               DEF PgInv, Postgres!TypeOK, RowsInv, CallsOK, CallsTypeOK, CallsInv,
                   StaleInv, Settled, Open, Writers
  <2>3. CASE Postgres!Select(c)
    <3>1. Postgres!PoolTypeOK' /\ PoolInv'
      BY PgCalls, <2>3, PoolClient
         DEF PgInv, Postgres!TypeOK, Postgres!Select, Unmarshal, EndGet, Fail, Return
    <3>2. rows[call[c].id] \in States \cup {None}
      BY PgCalls, <2>3, CallKinds
         DEF PgInv, Postgres!TypeOK, Postgres!PoolTypeOK, CallsOK, CallsTypeOK, GetCall,
             Postgres!Select, Postgres!Release, Postgres!GiveBack
    <3> QED BY PgCalls, <2>3, <3>1, <3>2, PgEnds
               DEF Postgres!Select, Unmarshal, EndGet, Fail
  <2>4. CASE Postgres!NetworkFails(c)
    <3>1. Postgres!PoolTypeOK' /\ PoolInv'
      BY PgCalls, <2>4, PoolClient
         DEF PgInv, Postgres!TypeOK, Postgres!NetworkFails, Fail, Return
    <3> QED BY PgCalls, <2>4, <3>1, PgEnds DEF Postgres!NetworkFails, Fail
  <2> QED BY PgCalls, <1>2, <2>1, <2>2, <2>3, <2>4, PgUpsert, PgWriteState,
             PgGetLatestState
             DEF Postgres!Client
<1>3. CASE UNCHANGED Postgres!vars
  BY <1>3
     DEF Postgres!vars, callVars, Postgres!callVars, Postgres!poolVars, PgInv,
         Postgres!TypeOK, Postgres!PoolTypeOK, PoolInv, Postgres!ConnectedIsOpen,
         RowsInv, CallsOK, CallsTypeOK, Postgres!CallsTypeOK, CallsInv, StaleInv,
         Settled, Open, Writers
<1> QED BY <1>1, <1>2, <1>3, PgLateUpsert, PgCrash DEF Postgres!Next

LEMMA PgReads ==
  PgInv /\ [Postgres!Next]_Postgres!vars => [LatestRead]_<<pc, callVars>>
<1> SUFFICES ASSUME PgInv, Postgres!Next PROVE LatestRead
  BY DEF Postgres!vars, callVars, Postgres!callVars
<1>1. call \in [Clients -> WriteCall \cup GetCall \cup {None}]
  BY DEF PgInv, CallsOK, CallsTypeOK
<1>2. ASSUME NEW c \in Clients, Postgres!Select(c) PROVE LatestRead
  <2>1. call[c] \in GetCall
    BY <1>1, <1>2, CallKinds
       DEF PgInv, Postgres!TypeOK, Postgres!PoolTypeOK, Postgres!Select,
           Postgres!Release, Postgres!GiveBack
  <2>2. CASE Postgres!Fail(c)
    BY PgCalls, <1>1, <2>2, ReadsNothing DEF Fail
  <2>3. CASE Postgres!EndGet(c, rows[call[c].id])
    BY PgCalls, <2>1, <2>3, ReadsOne DEF PgInv, CallsOK, StaleInv, RowsInv, GetCall
  <2> QED BY <1>2, <2>2, <2>3 DEF Postgres!Select, Postgres!Unmarshal
<1>3. ASSUME NEW c \in Clients, Postgres!Client(c), ~Postgres!Select(c) PROVE LatestRead
  BY <1>1, <1>3, ReadsNothing
     DEF Postgres!Client, Postgres!Refuse, Postgres!AcquireConn, Postgres!Upsert,
         Postgres!NetworkFails, Postgres!WriteState, Postgres!GetLatestState, Fail,
         Postgres!Fail, EndWrite, Postgres!EndWrite, BeginWrite, Postgres!BeginWrite,
         BeginGet, Postgres!BeginGet, callVars, Postgres!callVars
<1>4. ASSUME ~ \E c \in Clients : Postgres!Client(c) PROVE LatestRead
  BY <1>1, <1>4, ReadsNothing
     DEF Postgres!Next, Postgres!Owner, Postgres!LateUpsert, Postgres!Crash, CallsCrash,
         Postgres!CallsCrash, callVars, Postgres!callVars
<1> QED BY <1>2, <1>3, <1>4

-------------------------------------------------------------------------------
(* durablestore/cassandra.                                                 *)

\* As it extends FiniteSets for itself.
LEMMA CassSets ==
  /\ \A S : Cassandra!IsFiniteSet(S) <=> IsFiniteSet(S)
  /\ \A S : Cassandra!Cardinality(S) = Cardinality(S)
<1>1. \A S : Cassandra!IsFiniteSet(S) <=> IsFiniteSet(S)
  BY DEF Cassandra!IsFiniteSet, IsFiniteSet
<1>2. \A S : Cassandra!Cardinality(S) = Cardinality(S)
  BY DEF Cassandra!Cardinality, Cardinality
<1> QED BY <1>1, <1>2

\* What CassandraStateStore extends is what StateStores extends.
LEMMA CassCalls ==
  /\ Cassandra!Procs = Procs /\ Cassandra!IDs = IDs
  /\ Cassandra!WriteCall = WriteCall /\ Cassandra!GetCall = GetCall
  /\ \A id, S : Cassandra!Of(id, S) = Of(id, S)
  /\ Cassandra!CallsInit <=> CallsInit
  /\ Cassandra!CallsTypeOK <=> CallsTypeOK
  /\ Cassandra!CallsTypeOK' <=> CallsTypeOK'
  /\ Cassandra!CallsCrash <=> CallsCrash
  /\ \A g, label : Cassandra!Goto(g, label) <=> Goto(g, label)
  /\ \A c, s : Cassandra!BeginWrite(c, s) <=> BeginWrite(c, s)
  /\ \A c, id : Cassandra!BeginGet(c, id) <=> BeginGet(c, id)
  /\ \A c : Cassandra!Return(c) <=> Return(c)
  /\ \A c : Cassandra!EndWrite(c) <=> EndWrite(c)
  /\ \A c, s : Cassandra!EndGet(c, s) <=> EndGet(c, s)
  /\ \A c : Cassandra!Fail(c) <=> Fail(c)
  BY
     DEF Cassandra!Procs, Procs, Cassandra!IDs, IDs, Cassandra!WriteCall, WriteCall,
         Cassandra!GetCall, GetCall, Cassandra!Of, Of, Cassandra!Goto, Goto,
         Cassandra!CallsInit, CallsInit, Cassandra!CallsTypeOK, CallsTypeOK,
         Cassandra!CallsCrash, CallsCrash, Cassandra!AllIdle, AllIdle,
         Cassandra!BeginWrite, BeginWrite, Cassandra!BeginGet, BeginGet,
         Cassandra!Return, Return, Cassandra!EndWrite, EndWrite, Cassandra!EndGet,
         EndGet, Cassandra!Fail, Fail

Quorums == {Q \in SUBSET Replicas : Cardinality(Q) >= Consistency}

\* A quorum has the insert, or a newer one.
Kept(s) == \E Q \in Quorums : \A r \in Q : Cassandra!AtLeast(r, s)

Older(t, s) == s.PersistenceId = t.PersistenceId /\ stamp[t] < stamp[s]

\* The inserts of a row are numbered in the order they were sent.
ClockInv ==
  /\ IsFiniteSet(written)
  /\ \A s \in States : s \in written <=> stamp[s] > 0
  /\ \A s \in written : stamp[s] <= Cardinality(Of(s.PersistenceId, written))

\* What was acknowledged is at a quorum, and what was replaced is older than it.
AckInv ==
  /\ \A s \in acked : Kept(s)
  /\ \A t \in superseded : \E s \in acked : Older(t, s)
  /\ \A c \in Writers : \A t \in call[c].before : t \in acked /\ Older(t, call[c].state)

\* The rows hold inserts of their own.
CopiesInv ==
  \A r \in Replicas : \A id \in IDs : copies[r][id] \in Of(id, written) \cup {None}

\* For whatever the select must not return there is a quorum with something newer,
\* and the answer has it as soon as one of that quorum answered.
Fresh(c, t) ==
  \E s \in Of(call[c].id, written) :
    /\ t = None \/ (t \in written /\ stamp[t] < stamp[s])
    /\ \E Q \in Quorums : \A r \in Q : /\ Cassandra!AtLeast(r, s)
                                       /\ r \in answers[c].from => Cassandra!AsNew(answers[c].newest, s)

AnswersInv ==
  \A c \in Clients :
    IF pc[c] = "select"
    THEN /\ answers[c].newest \in Of(call[c].id, written) \cup {None}
         /\ \A t \in stale[c] : Fresh(c, t)
    ELSE answers[c] = Cassandra!NoAnswers

CassInv ==
  /\ Cassandra!TypeOK /\ Cassandra!SessionOpen /\ CallsOK
  /\ ClockInv /\ CopiesInv /\ AckInv /\ AnswersInv

-------------------------------------------------------------------------------
\* Two quorums have a replica in common.
LEMMA QuorumsMeet ==
  ASSUME Cassandra!QuorumsIntersect, NEW Q \in Quorums, NEW R \in Quorums
  PROVE  Q \cap R # {}
<1>1. IsFiniteSet(Replicas) /\ IsFiniteSet(Q) /\ IsFiniteSet(R) /\ Q \cup R \in SUBSET Replicas
  BY CassSets, FS_Subset DEF Cassandra!QuorumsIntersect, Quorums
<1>2. /\ Cardinality(Q \cup R) = Cardinality(Q) + Cardinality(R) - Cardinality(Q \cap R)
      /\ Cardinality(Q \cup R) <= Cardinality(Replicas)
  BY <1>1, FS_Union, FS_Subset
<1>3. /\ Cardinality(Q) \in Nat /\ Cardinality(R) \in Nat /\ Cardinality(Replicas) \in Nat
      /\ Cardinality(Q \cap R) \in Nat
  BY <1>1, FS_CardinalityType, FS_Intersection
<1>4. Cardinality(Q) >= Consistency /\ Cardinality(R) >= Consistency
  BY DEF Quorums
<1>5. Cardinality(Q \cap R) # 0
  BY CassSets, <1>2, <1>3, <1>4 DEF Cassandra!QuorumsIntersect
<1> QED BY <1>5, FS_EmptySet

\* What the store keeps of an insert it keeps through a step that stamps nothing
\* anew and puts nothing older in a row.
LEMMA Monotone ==
  ASSUME CassInv, written \subseteq written', stamp' \in [States -> Nat],
         \A s \in written : stamp'[s] = stamp[s],
         \A s \in written : \A r \in Replicas : Cassandra!AtLeast(r, s) => Cassandra!AtLeast(r, s)'
  PROVE  /\ \A s \in written : Kept(s) => Kept(s)'
         /\ \A c \in Clients : \A t :
              /\ call[c] \in GetCall /\ UNCHANGED <<call[c], answers[c]>>
              /\ answers[c].newest \in Of(call[c].id, written) \cup {None}
              /\ Fresh(c, t)
              => Fresh(c, t)'
<1>1. ASSUME NEW s \in written, Kept(s) PROVE Kept(s)'
  BY <1>1 DEF Kept, Quorums
<1>2. ASSUME NEW c \in Clients, NEW t, UNCHANGED <<call[c], answers[c]>>,
             answers[c].newest \in Of(call[c].id, written) \cup {None}, Fresh(c, t)
      PROVE  Fresh(c, t)'
  <2>1. PICK s \in Of(call[c].id, written) :
          /\ t = None \/ (t \in written /\ stamp[t] < stamp[s])
          /\ \E Q \in Quorums : \A r \in Q :
               Cassandra!AtLeast(r, s) /\ (r \in answers[c].from => Cassandra!AsNew(answers[c].newest, s))
    BY <1>2 DEF Fresh
  <2>2. /\ s \in written
        /\ Cassandra!AsNew(answers[c].newest, s) => Cassandra!AsNew(answers[c].newest, s)'
    BY <1>2 DEF Cassandra!AsNew, Of
  <2>3. PICK Q \in Quorums : \A r \in Q :
          Cassandra!AtLeast(r, s) /\ (r \in answers[c].from => Cassandra!AsNew(answers[c].newest, s))
    BY <2>1
  <2>4. \A r \in Q : /\ Cassandra!AtLeast(r, s)'
                     /\ (r \in answers[c].from => Cassandra!AsNew(answers[c].newest, s))'
    BY <1>2, <2>2, <2>3 DEF Quorums
  <2>5. s \in Of(call'[c].id, written') /\ (t = None \/ (t \in written' /\ stamp'[t] < stamp'[s]))
    BY <1>2, <2>1 DEF Of
  <2> QED BY <2>4, <2>5 DEF Fresh
<1> QED BY <1>1, <1>2

LEMMA CassStarts == Cassandra!Init => CassInv
<1> SUFFICES ASSUME Cassandra!Init PROVE CassInv
  OBVIOUS
<1>1. CallsOK /\ Writers = {}
  BY CassCalls, CallsStart, NoCallAssumption DEF Cassandra!Init, CallsInit, Writers
<1>2. Cassandra!TypeOK /\ Cassandra!SessionOpen
  BY CassCalls, <1>1, ProcsAssumption, NoProcAssumption, NoCallAssumption
     DEF Cassandra!TypeOK, CallsOK, Cassandra!Init, CallsInit, AllIdle, Procs,
         Cassandra!SessionOpen, Cassandra!NoAnswers
<1>3. ClockInv /\ CopiesInv /\ AckInv
  BY CassCalls, <1>1, FS_EmptySet
     DEF ClockInv, CopiesInv, AckInv, Cassandra!Init, CallsInit
<1>4. AnswersInv
  BY CassCalls DEF AnswersInv, Cassandra!Init, CallsInit, AllIdle, Procs
<1> QED BY <1>1, <1>2, <1>3, <1>4 DEF CassInv

-------------------------------------------------------------------------------
(* durablestore/cassandra: owners.                                         *)

LEMMA CassLifecycle ==
  ASSUME CassInv, NEW o \in Owners,
         \/ Cassandra!Ping(o) \/ Cassandra!Connect(o)
         \/ Cassandra!ConnectStore(o) \/ Cassandra!Disconnect(o)
  PROVE  CassInv'
<1>1. UNCHANGED <<call, reply, written, acked, superseded, stale, stamp, copies, answers>>
      /\ \A c \in Clients : pc'[c] = pc[c]
  BY ProcsAssumption
     DEF CassInv, Cassandra!TypeOK, Procs, Cassandra!Procs, Cassandra!Ping,
         Cassandra!Connect, Cassandra!ConnectStore, Cassandra!Disconnect, Goto,
         Cassandra!Goto, callVars, Cassandra!callVars, Cassandra!cassVars
<1>2. CallsOK' /\ ClockInv' /\ CopiesInv' /\ AckInv' /\ AnswersInv'
  <2>1. CallsOK' /\ Writers' = Writers
    BY <1>1
       DEF CassInv, CallsOK, CallsTypeOK, CallsInv, StaleInv, Settled, Open, Writers
  <2>2. ClockInv' /\ CopiesInv'
    BY <1>1 DEF CassInv, ClockInv, CopiesInv
  <2>3. AckInv'
    BY <1>1, <2>1 DEF CassInv, AckInv, Kept, Cassandra!AtLeast, Cassandra!AsNew, Older
  <2>4. AnswersInv'
    <3>1. ASSUME NEW c, NEW t, Fresh(c, t) PROVE Fresh(c, t)'
      BY <1>1, <3>1 DEF Fresh, Cassandra!AtLeast, Cassandra!AsNew
    <3> QED BY <1>1, <3>1 DEF CassInv, AnswersInv
  <2> QED BY <2>1, <2>2, <2>3, <2>4
<1>3. Cassandra!SessionOpen' /\ connected' \in BOOLEAN /\ session' \in {"nil", "open", "closed"}
  <2>1. \/ UNCHANGED <<connected, session>>
        \/ connected' = TRUE /\ session' = "open"
        \/ connected' = FALSE /\ session' = "closed"
    BY
       DEF Cassandra!Ping, Cassandra!Connect, Cassandra!ConnectStore,
           Cassandra!Disconnect, Cassandra!cassVars
  <2>2. Cassandra!SessionOpen /\ connected \in BOOLEAN /\ session \in {"nil", "open", "closed"}
    BY DEF CassInv, Cassandra!TypeOK
  <2>3. CASE UNCHANGED <<connected, session>>
    BY <2>2, <2>3 DEF Cassandra!SessionOpen
  <2>4. CASE connected' = TRUE /\ session' = "open"
    BY <2>4 DEF Cassandra!SessionOpen
  <2>5. CASE connected' = FALSE /\ session' = "closed"
    BY <2>5 DEF Cassandra!SessionOpen
  <2> QED BY <2>1, <2>3, <2>4, <2>5
<1>4. /\ pc' = [pc EXCEPT ![o] = pc'[o]] /\ pc'[o] \in {"idle", "connect", "dial"}
      /\ mu' \in Owners \cup {None}
      /\ \A q \in Owners : pc'[q] = "dial" <=> mu' = q
  <2>1. CASE Cassandra!Ping(o) \/ Cassandra!Disconnect(o)
    BY CassCalls, <2>1, NoProcAssumption
       DEF CassInv, Cassandra!TypeOK, Procs, Cassandra!Ping, Cassandra!Disconnect,
           Cassandra!LockFree, Goto, Cassandra!cassVars
  <2>2. CASE Cassandra!Connect(o) \/ Cassandra!ConnectStore(o)
    BY CassCalls, <2>2, NoProcAssumption
       DEF CassInv, Cassandra!TypeOK, Procs, Cassandra!Connect, Cassandra!ConnectStore,
           Cassandra!LockFree, Goto
  <2> QED BY <2>1, <2>2
<1>5. Cassandra!TypeOK'
  BY CassCalls, <1>1, <1>2, <1>3, <1>4 DEF CassInv, Cassandra!TypeOK, CallsOK, Procs
<1> QED BY <1>2, <1>3, <1>5 DEF CassInv

-------------------------------------------------------------------------------
(* durablestore/cassandra: clients.                                        *)

\* A step of one client leaves the answers to the others good.
LEMMA OthersKept ==
  ASSUME CassInv, NEW c \in Clients, written \subseteq written', stamp' \in [States -> Nat],
         UNCHANGED copies, CallsOK',
         \A s \in written : stamp'[s] = stamp[s],
         \A d \in Clients \ {c} : /\ pc'[d] = pc[d] /\ call'[d] = call[d]
                                  /\ stale'[d] = stale[d] /\ answers'[d] = answers[d],
         IF pc'[c] = "select"
         THEN /\ answers'[c].newest \in Of(call'[c].id, written') \cup {None}
              /\ \A t \in stale'[c] : Fresh(c, t)'
         ELSE answers'[c] = Cassandra!NoAnswers
  PROVE  AnswersInv' /\ \A s \in written : Kept(s) => Kept(s)'
<1>1. \A s \in written : \A r \in Replicas : Cassandra!AtLeast(r, s) => Cassandra!AtLeast(r, s)'
  BY
     DEF Cassandra!AtLeast, Cassandra!AsNew, CassInv, CopiesInv, CallsOK, CallsTypeOK,
         Of, IDs
<1>2. /\ \A s \in written : Kept(s) => Kept(s)'
      /\ \A d \in Clients : \A t :
           /\ call[d] \in GetCall /\ UNCHANGED <<call[d], answers[d]>>
           /\ answers[d].newest \in Of(call[d].id, written) \cup {None}
           /\ Fresh(d, t)
           => Fresh(d, t)'
  BY <1>1, Monotone
<1>3. ASSUME NEW d \in Clients \ {c}, pc[d] = "select"
      PROVE  /\ answers'[d].newest \in Of(call'[d].id, written') \cup {None}
             /\ \A t \in stale'[d] : Fresh(d, t)'
  <2>1. /\ call[d] \in GetCall
        /\ answers[d].newest \in Of(call[d].id, written) \cup {None}
        /\ \A t \in stale[d] : Fresh(d, t)
    BY CassCalls, <1>3 DEF CassInv, Cassandra!TypeOK, AnswersInv
  <2> QED BY <1>2, <2>1 DEF Of
<1>4. \A d \in Clients \ {c} : pc[d] # "select" => answers'[d] = Cassandra!NoAnswers
  BY DEF CassInv, AnswersInv
<1>5. AnswersInv'
  BY <1>3, <1>4 DEF AnswersInv
<1> QED BY <1>2, <1>5

\* The owners and the session have no part in a client's step.
LEMMA ClientTyped ==
  ASSUME CassInv, CallsOK', NEW c \in Clients, UNCHANGED <<mu, connected, session>>,
         pc' = [pc EXCEPT ![c] = pc'[c]], pc'[c] \in {"idle", "insert", "select"},
         pc'[c] = "insert" <=> call'[c] \in WriteCall,
         pc'[c] = "select" <=> call'[c] \in GetCall,
         \A d \in Clients \ {c} : call'[d] = call[d],
         stamp' \in [States -> Nat],
         copies' \in [Replicas -> [IDs -> {s \in States : stamp'[s] > 0} \cup {None}]],
         answers' \in [Clients -> [from : SUBSET Replicas, newest : States \cup {None}]]
  PROVE  Cassandra!TypeOK' /\ Cassandra!SessionOpen' /\ \A d \in Clients \ {c} : pc'[d] = pc[d]
<1>1. /\ \A d \in Clients \ {c} : pc'[d] = pc[d]
      /\ \A o \in Owners : pc'[o] = pc[o]
  BY CassCalls, ProcsAssumption DEF CassInv, Cassandra!TypeOK, Procs
<1>2. pc' \in [Procs -> {"idle", "connect", "dial", "insert", "select"}]
  BY CassCalls DEF CassInv, Cassandra!TypeOK
<1> QED BY CassCalls, <1>1, <1>2
           DEF CassInv, Cassandra!TypeOK, Cassandra!SessionOpen, CallsOK

LEMMA CassWriteState ==
  ASSUME CassInv, NEW c \in Clients, NEW s \in States, Cassandra!WriteState(c, s)
  PROVE  CassInv'
<1> DEFINE id == s.PersistenceId
<1>1. call[c] = None /\ answers[c] = Cassandra!NoAnswers
  BY CassCalls
     DEF CassInv, Cassandra!TypeOK, AnswersInv, Cassandra!WriteState, CallsOK,
         CallsTypeOK
<1>2. CallsOK'
  BY CassCalls, <1>1, CallsBeginWrite DEF CassInv, Cassandra!WriteState
<1>3. /\ call' = [call EXCEPT ![c] = call'[c]] /\ call'[c] \in WriteCall
      /\ call'[c].state = s /\ call'[c].before = Of(id, acked)
      /\ UNCHANGED <<acked, superseded, stale, copies, answers, mu, connected, session>>
      /\ written' = written \cup {s} /\ s \notin written
      /\ pc' = [pc EXCEPT ![c] = "insert"]
  BY CassCalls
     DEF CassInv, CallsOK, CallsTypeOK, Cassandra!WriteState, BeginWrite, Goto,
         WriteCall, Of
<1>4. /\ stamp' = [stamp EXCEPT ![s] = Cardinality(Of(id, written)) + 1]
      /\ IsFiniteSet(Of(id, written)) /\ Cardinality(Of(id, written)) \in Nat
  <2>1. {t \in Of(id, States) : stamp[t] > 0} = Of(id, written)
    BY DEF CassInv, ClockInv, Of, CallsOK, CallsTypeOK
  <2>2. IsFiniteSet(Of(id, written)) /\ Cardinality(Of(id, written)) \in Nat
    BY FS_Subset, FS_CardinalityType DEF CassInv, ClockInv, Of
  <2> QED BY CassCalls, CassSets, <2>1, <2>2 DEF Cassandra!WriteState, Cassandra!Clock
<1>5. /\ stamp' \in [States -> Nat] /\ stamp'[s] = Cardinality(Of(id, written)) + 1
      /\ \A t \in States \ {s} : stamp'[t] = stamp[t]
  BY <1>4 DEF CassInv, Cassandra!TypeOK
<1>6. ClockInv'
  <2>1. IsFiniteSet(written')
    BY <1>3, FS_AddElement DEF CassInv, ClockInv
  <2>2. \A t \in States : t \in written' <=> stamp'[t] > 0
    BY <1>3, <1>4, <1>5 DEF CassInv, ClockInv
  <2>3. Of(id, written') = Of(id, written) \cup {s} /\ s \notin Of(id, written)
    BY <1>3 DEF Of
  <2>4. Cardinality(Of(id, written')) = Cardinality(Of(id, written)) + 1
    BY <1>4, <2>3, FS_AddElement
  <2>5. ASSUME NEW t \in written' PROVE stamp'[t] <= Cardinality(Of(t.PersistenceId, written'))
    <3>1. CASE t = s
      BY <3>1, <1>5, <1>4, <2>4
    <3>2. CASE t # s
      <4>1. t \in written /\ t \in States /\ stamp'[t] = stamp[t] /\ stamp[t] \in Nat
        BY <3>2, <1>3, <1>5 DEF CassInv, Cassandra!TypeOK, CallsOK, CallsTypeOK
      <4>2. stamp[t] <= Cardinality(Of(t.PersistenceId, written))
        BY <4>1 DEF CassInv, ClockInv
      <4>3. CASE t.PersistenceId = id
        BY <4>1, <4>2, <4>3, <1>4, <2>4
      <4>4. CASE t.PersistenceId # id
        BY <4>1, <4>2, <4>4, <1>3 DEF Of
      <4> QED BY <4>3, <4>4
    <3> QED BY <3>1, <3>2
  <2> QED BY <2>1, <2>2, <2>5 DEF ClockInv
<1>7. CopiesInv'
  BY <1>3 DEF CassInv, CopiesInv, Of
<1>8. \A d \in Clients \ {c} :
        call'[d] = call[d] /\ stale'[d] = stale[d] /\ answers'[d] = answers[d]
  BY <1>3 DEF CassInv, CallsOK, CallsTypeOK
<1>9. Cassandra!TypeOK' /\ Cassandra!SessionOpen' /\ \A d \in Clients \ {c} : pc'[d] = pc[d]
  <2>1. copies' \in [Replicas -> [IDs -> {t \in States : stamp'[t] > 0} \cup {None}]]
    BY CassCalls, <1>3, <1>5, <1>4 DEF CassInv, Cassandra!TypeOK
  <2>2. pc'[c] = "insert" /\ call'[c] \notin GetCall
    BY CassCalls, <1>3, CallKinds DEF CassInv, Cassandra!TypeOK, Procs
  <2> QED BY <1>2, <1>3, <1>5, <1>8, <2>1, <2>2, ClientTyped
             DEF CassInv, Cassandra!TypeOK
<1>10. AnswersInv' /\ \A t \in written : Kept(t) => Kept(t)'
  <2>1. /\ pc'[c] # "select" /\ answers'[c] = Cassandra!NoAnswers
        /\ \A t \in written : stamp'[t] = stamp[t]
    BY CassCalls, <1>1, <1>3, <1>5
       DEF CassInv, Cassandra!TypeOK, Procs, CallsOK, CallsTypeOK
  <2> QED BY <1>2, <1>3, <1>5, <1>8, <1>9, <2>1, OthersKept
<1>11. AckInv'
  <2>1. \A t \in acked' : Kept(t)'
    BY <1>3, <1>10 DEF CassInv, AckInv, CallsOK, CallsTypeOK
  <2>2. \A t \in written : t \in States /\ t # s /\ stamp'[t] = stamp[t]
    BY <1>3, <1>5 DEF CassInv, CallsOK, CallsTypeOK
  <2>3. acked \subseteq written /\ superseded \subseteq written
    BY DEF CassInv, CallsOK, CallsTypeOK
  <2>4. \A t \in superseded' : \E u \in acked' : Older(t, u)'
    BY <1>3, <2>2, <2>3 DEF CassInv, AckInv, Older
  <2>5. ASSUME NEW d \in Writers', NEW t \in call'[d].before
        PROVE  t \in acked' /\ Older(t, call[d].state)'
    <3>1. CASE d = c
      <4>1. t \in Of(id, acked) /\ t \in written /\ t.PersistenceId = id
        BY <3>1, <1>3, <2>3 DEF Of
      <4>2. stamp[t] <= Cardinality(Of(t.PersistenceId, written))
        BY <4>1 DEF CassInv, ClockInv
      <4>3. stamp[t] \in Nat
        BY <4>1, <2>2 DEF CassInv, Cassandra!TypeOK
      <4>4. stamp'[t] < stamp'[s]
        BY <4>1, <4>2, <4>3, <2>2, <1>4, <1>5
      <4> QED BY <3>1, <4>1, <4>4, <1>3 DEF Older, Of
    <3>2. CASE d # c
      <4>1. d \in Writers /\ call'[d] = call[d]
        BY <3>2, <1>8 DEF Writers
      <4>2. call[d].state \in Open /\ call[d].state \in written
        BY <4>1 DEF Writers, CassInv, CallsOK, CallsInv, Open, WriteCall
      <4>3. t \in acked /\ Older(t, call[d].state)
        BY <4>1 DEF CassInv, AckInv
      <4> QED BY <4>1, <4>2, <4>3, <2>2, <2>3, <1>3 DEF Older
    <3> QED BY <3>1, <3>2
  <2> QED BY <2>1, <2>4, <2>5 DEF AckInv
<1> QED BY <1>2, <1>6, <1>7, <1>9, <1>10, <1>11 DEF CassInv

LEMMA CassGetLatestState ==
  ASSUME CassInv, NEW c \in Clients, NEW id \in IDs, Cassandra!GetLatestState(c, id)
  PROVE  CassInv'
<1>1. call[c] = None /\ answers[c] = Cassandra!NoAnswers
  BY CassCalls
     DEF CassInv, Cassandra!TypeOK, AnswersInv, Cassandra!GetLatestState, CallsOK,
         CallsTypeOK
<1>2. CallsOK'
  BY CassCalls, <1>1, CallsBeginGet DEF CassInv, Cassandra!GetLatestState
<1>3. /\ call'[c] = [op |-> "get", id |-> id] /\ call'[c] \in GetCall
      /\ stale'[c] = Of(id, superseded) \cup IF Of(id, acked) = {} THEN {} ELSE {None}
      /\ \A d \in Clients \ {c} : call'[d] = call[d] /\ stale'[d] = stale[d]
      /\ UNCHANGED <<written, acked, superseded, mu, connected, session, stamp, copies, answers>>
      /\ pc' = [pc EXCEPT ![c] = "select"]
  BY CassCalls
     DEF CassInv, CallsOK, CallsTypeOK, Cassandra!GetLatestState, BeginGet, Goto,
         Cassandra!cassVars, GetCall
<1>4. pc'[c] = "select" /\ call'[c] \notin WriteCall
  BY CassCalls, <1>3, CallKinds DEF CassInv, Cassandra!TypeOK, Procs
<1>5. Cassandra!TypeOK' /\ Cassandra!SessionOpen' /\ \A d \in Clients \ {c} : pc'[d] = pc[d]
  BY CassCalls, <1>2, <1>3, <1>4, ClientTyped DEF CassInv, Cassandra!TypeOK
<1>6. ASSUME NEW t \in stale'[c] PROVE Fresh(c, t)'
  <2>1. PICK s \in acked :
          s.PersistenceId = id /\ (t = None \/ (t \in written /\ stamp[t] < stamp[s]))
    <3>1. CASE t = None
      BY <3>1, <1>3, NoStateAssumption DEF Of, CassInv, CallsOK, CallsTypeOK
    <3>2. CASE t # None
      BY <3>2, <1>3 DEF Of, CassInv, AckInv, Older, CallsOK, CallsTypeOK
    <3> QED BY <3>1, <3>2
  <2>2. PICK Q \in Quorums : \A r \in Q : Cassandra!AtLeast(r, s)
    BY DEF CassInv, AckInv, Kept
  <2>3. s \in Of(call'[c].id, written') /\ answers'[c].from = {}
    BY <1>1, <1>3, <2>1 DEF Of, Cassandra!NoAnswers, CassInv, CallsOK, CallsTypeOK
  <2> QED BY <1>3, <2>1, <2>2, <2>3 DEF Fresh, Cassandra!AtLeast, Cassandra!AsNew
<1>7. AnswersInv'
  <2>1. stamp' \in [States -> Nat] /\ answers'[c].newest = None
    BY <1>1, <1>3 DEF CassInv, Cassandra!TypeOK, Cassandra!NoAnswers
  <2> QED BY <1>2, <1>3, <1>4, <1>5, <1>6, <2>1, OthersKept
<1>8. ClockInv' /\ CopiesInv'
  BY <1>3 DEF CassInv, ClockInv, CopiesInv
<1>9. AckInv'
  <2>1. Writers' = Writers /\ \A d \in Writers : call'[d] = call[d]
    BY <1>1, <1>3, <1>4, NoCallAssumption DEF Writers
  <2> QED BY <1>3, <2>1
             DEF CassInv, AckInv, Kept, Cassandra!AtLeast, Cassandra!AsNew, Older
<1> QED BY <1>2, <1>5, <1>7, <1>8, <1>9 DEF CassInv

\* A call ends, acknowledged or not.
LEMMA CassReturn ==
  ASSUME CassInv, NEW c \in Clients, Return(c), CallsOK',
         UNCHANGED <<written, mu, connected, session, stamp, copies>>,
         answers' = [answers EXCEPT ![c] = Cassandra!NoAnswers]
  PROVE  /\ Cassandra!TypeOK' /\ Cassandra!SessionOpen' /\ ClockInv' /\ CopiesInv' /\ AnswersInv'
         /\ \A s \in written : Kept(s) => Kept(s)'
<1>1. /\ \A d \in Clients \ {c} :
           call'[d] = call[d] /\ stale'[d] = stale[d] /\ answers'[d] = answers[d]
      /\ call'[c] = None /\ stale'[c] = {}
      /\ pc' = [pc EXCEPT ![c] = "idle"] /\ pc'[c] = "idle"
  BY CassCalls, CallsReturn DEF CassInv, Cassandra!TypeOK, Procs, Return, Goto
<1>2. answers'[c] = Cassandra!NoAnswers
      /\ answers' \in [Clients -> [from : SUBSET Replicas, newest : States \cup {None}]]
  BY DEF CassInv, Cassandra!TypeOK, Cassandra!NoAnswers
<1>3. Cassandra!TypeOK' /\ Cassandra!SessionOpen' /\ \A d \in Clients \ {c} : pc'[d] = pc[d]
  BY CassCalls, <1>1, <1>2, NoCallAssumption, ClientTyped DEF CassInv, Cassandra!TypeOK
<1>4. ClockInv' /\ CopiesInv'
  BY DEF CassInv, ClockInv, CopiesInv
<1>5. stamp' \in [States -> Nat]
  BY DEF CassInv, Cassandra!TypeOK
<1>6. AnswersInv' /\ \A s \in written : Kept(s) => Kept(s)'
  BY <1>1, <1>2, <1>3, <1>5, OthersKept
<1> QED BY <1>3, <1>4, <1>6

LEMMA CassInserted ==
  ASSUME CassInv, NEW c \in Clients, Cassandra!Inserted(c)
  PROVE  CassInv'
<1> DEFINE s == call[c].state
<1>1. c \in Writers /\ EndWrite(c) /\ Return(c) /\ UNCHANGED Cassandra!cassVars
  BY CassCalls DEF CassInv, Cassandra!TypeOK, Cassandra!Inserted, Writers, EndWrite
<1>2. CallsOK' /\ s \in Open /\ s \in written
  BY <1>1, CallsEndWrite DEF CassInv, CallsOK, CallsInv
<1>3. answers' = [answers EXCEPT ![c] = Cassandra!NoAnswers]
      /\ UNCHANGED <<written, mu, connected, session, stamp, copies>>
  BY <1>1
     DEF CassInv, Cassandra!TypeOK, AnswersInv, Cassandra!Inserted, Cassandra!cassVars,
         EndWrite
<1>4. /\ Cassandra!TypeOK' /\ Cassandra!SessionOpen' /\ ClockInv' /\ CopiesInv' /\ AnswersInv'
      /\ \A t \in written : Kept(t) => Kept(t)'
  BY <1>1, <1>2, <1>3, CassReturn
<1>5. AckInv'
  <2>1. Kept(s)
    BY CassSets, CassCalls DEF Kept, Quorums, Cassandra!Inserted
  <2>2. acked' = acked \cup {s} /\ superseded' = superseded \cup call[c].before
    BY <1>1 DEF EndWrite
  <2>3. Writers' = Writers \ {c} /\ \A d \in Writers' : call'[d] = call[d]
    BY <1>1, CallsReturn DEF CassInv, Writers
  <2>4. \A t \in acked' : Kept(t)'
    BY <1>2, <1>4, <2>1, <2>2 DEF CassInv, AckInv, CallsOK, CallsTypeOK
  <2>5. \A t \in superseded' : \E u \in acked' : Older(t, u)'
    BY <1>1, <1>3, <2>2 DEF CassInv, AckInv, Older
  <2>6. \A d \in Writers' : \A t \in call'[d].before : t \in acked' /\ Older(t, call[d].state)'
    BY <1>3, <2>2, <2>3 DEF CassInv, AckInv, Older
  <2> QED BY <2>3, <2>4, <2>5, <2>6 DEF AckInv, Older
<1> QED BY <1>2, <1>4, <1>5 DEF CassInv

\* A call that ends with no insert.
LEMMA CassEnds ==
  ASSUME CassInv, NEW c \in Clients, Return(c), reply' \in SUBSET (States \cup {None}),
         UNCHANGED <<written, acked, superseded, mu, connected, session, stamp, copies>>,
         answers' = [answers EXCEPT ![c] = Cassandra!NoAnswers]
  PROVE  CassInv'
<1>1. CallsOK'
  BY CallsEnd DEF CassInv
<1>2. /\ Cassandra!TypeOK' /\ Cassandra!SessionOpen' /\ ClockInv' /\ CopiesInv' /\ AnswersInv'
      /\ \A s \in written : Kept(s) => Kept(s)'
  BY <1>1, CassReturn
<1>3. Writers' = Writers \ {c} /\ \A d \in Writers' : call'[d] = call[d]
  BY CallsReturn DEF CassInv, Writers
<1>4. AckInv'
  <2>1. \A s \in acked' : Kept(s)'
    BY <1>2 DEF CassInv, AckInv, CallsOK, CallsTypeOK
  <2> QED BY <1>3, <2>1 DEF CassInv, AckInv, Older
<1> QED BY <1>1, <1>2, <1>4 DEF CassInv

\* A replica answers: what it has is as new as what a quorum has that it is of.
LEMMA CassAnswer ==
  ASSUME CassInv, NEW c \in Clients, NEW r \in Replicas, Cassandra!Answer(c, r)
  PROVE  CassInv'
<1> DEFINE id == call[c].id
           old == answers[c].newest
           row == copies[r][id]
<1>1. /\ UNCHANGED <<pc, call, reply, written, acked, superseded, stale, mu, connected, session,
                      stamp, copies>>
      /\ pc[c] = "select" /\ call[c] \in GetCall /\ id \in IDs
  BY CassCalls
     DEF Cassandra!Answer, callVars, Cassandra!callVars, CassInv, Cassandra!TypeOK,
         GetCall, Cassandra!GetCall
<1>2. /\ old \in Of(id, written) \cup {None} /\ row \in Of(id, written) \cup {None}
      /\ \A t \in stale[c] : Fresh(c, t)
      /\ written \subseteq States
  BY <1>1 DEF CassInv, AnswersInv, CopiesInv, CallsOK, CallsTypeOK
<1>3. /\ answers'[c] = [from |-> answers[c].from \cup {r}, newest |-> Cassandra!Newer(old, row)]
      /\ \A d \in Clients \ {c} : answers'[d] = answers[d]
      /\ answers' = [answers EXCEPT ![c] = answers'[c]]
  BY DEF Cassandra!Answer, CassInv, Cassandra!TypeOK
<1>4. Cassandra!Newer(old, row) \in Of(id, written) \cup {None}
  BY <1>2 DEF Cassandra!Newer
<1>5. \A s \in written : Cassandra!AsNew(old, s) \/ Cassandra!AsNew(row, s)
                          => Cassandra!AsNew(Cassandra!Newer(old, row), s)
  <2>1. \A s \in written : stamp[s] \in Nat
    BY <1>2 DEF CassInv, Cassandra!TypeOK
  <2> QED BY <1>2, <2>1 DEF Cassandra!AsNew, Cassandra!Newer, Of
<1>6. CallsOK' /\ Writers' = Writers
  BY <1>1 DEF CassInv, CallsOK, CallsTypeOK, CallsInv, StaleInv, Settled, Open, Writers
<1>7. Cassandra!TypeOK' /\ Cassandra!SessionOpen'
  <2>1. answers' \in [Clients -> [from : SUBSET Replicas, newest : States \cup {None}]]
    BY <1>2, <1>3, <1>4 DEF CassInv, Cassandra!TypeOK, Of
  <2> QED BY CassCalls, <1>1, <1>6, <2>1
             DEF CassInv, Cassandra!TypeOK, Cassandra!SessionOpen, CallsOK
<1>8. ASSUME NEW t \in stale'[c] PROVE Fresh(c, t)'
  <2>1. PICK s \in Of(id, written) :
          /\ t = None \/ (t \in written /\ stamp[t] < stamp[s])
          /\ \E Q \in Quorums : \A q \in Q : /\ Cassandra!AtLeast(q, s)
                                             /\ q \in answers[c].from => Cassandra!AsNew(old, s)
    BY <1>1, <1>2 DEF Fresh
  <2>2. PICK Q \in Quorums : \A q \in Q : /\ Cassandra!AtLeast(q, s)
                                          /\ q \in answers[c].from => Cassandra!AsNew(old, s)
    BY <2>1
  <2>3. s \in written /\ s.PersistenceId = id
    BY <2>1 DEF Of
  <2>4. \A q \in Q : q \in answers'[c].from => Cassandra!AsNew(answers'[c].newest, s)
    <3>1. answers'[c].from = answers[c].from \cup {r}
          /\ answers'[c].newest = Cassandra!Newer(old, row)
      BY <1>3
    <3>2. \A q \in Q : Cassandra!AtLeast(q, s) /\ (q \in answers[c].from => Cassandra!AsNew(old, s))
      BY <2>2
    <3>3. r \in Q => Cassandra!AsNew(row, s)
      BY <2>3, <3>2 DEF Cassandra!AtLeast
    <3>4. Cassandra!AsNew(old, s) \/ Cassandra!AsNew(row, s)
                          => Cassandra!AsNew(Cassandra!Newer(old, row), s)
      BY <1>5, <2>3
    <3> QED BY <3>1, <3>2, <3>3, <3>4
  <2>5. \A q \in Q : /\ Cassandra!AtLeast(q, s)'
                     /\ (q \in answers[c].from => Cassandra!AsNew(answers[c].newest, s))'
    BY <1>1, <2>2, <2>4 DEF Cassandra!AtLeast, Cassandra!AsNew
  <2>6. s \in Of(call'[c].id, written') /\ (t = None \/ (t \in written' /\ stamp'[t] < stamp'[s]))
    BY <1>1, <2>1
  <2> QED BY <2>5, <2>6 DEF Fresh
<1>9. AnswersInv'
  <2>1. /\ answers'[c].newest \in Of(call'[c].id, written') \cup {None}
        /\ pc'[c] = "select" /\ stamp' \in [States -> Nat]
    BY <1>1, <1>3, <1>4 DEF CassInv, Cassandra!TypeOK
  <2> QED BY <1>1, <1>3, <1>6, <1>8, <2>1, OthersKept
<1>10. ClockInv' /\ CopiesInv' /\ AckInv'
  BY <1>1, <1>6
     DEF CassInv, ClockInv, CopiesInv, AckInv, Kept, Cassandra!AtLeast, Cassandra!AsNew,
         Older
<1> QED BY <1>6, <1>7, <1>9, <1>10 DEF CassInv

-------------------------------------------------------------------------------
(* durablestore/cassandra: the cluster, and the end of the program.        *)

LEMMA CassApply ==
  ASSUME CassInv, NEW r \in Replicas, NEW s \in States, Cassandra!Apply(r, s)
  PROVE  CassInv'
<1> DEFINE id == s.PersistenceId
<1>1. /\ UNCHANGED <<pc, call, reply, written, acked, superseded, stale, mu, connected, session,
                      stamp, answers>>
      /\ s \in written /\ id \in IDs /\ written \subseteq States
      /\ \A t \in States : stamp[t] \in Nat
  BY
     DEF Cassandra!Apply, callVars, Cassandra!callVars, CassInv, ClockInv, IDs,
         Cassandra!IDs, Cassandra!TypeOK, CallsOK, CallsTypeOK, Cassandra!CallsTypeOK
<1>2. /\ copies'[r][id] = s
      /\ \A q \in Replicas, i \in IDs : q # r \/ i # id => copies'[q][i] = copies[q][i]
      /\ copies' \in [Replicas -> [IDs -> {t \in States : stamp'[t] > 0} \cup {None}]]
  BY CassCalls, <1>1 DEF Cassandra!Apply, CassInv, Cassandra!TypeOK
<1>3. CallsOK' /\ Writers' = Writers
  BY <1>1 DEF CassInv, CallsOK, CallsTypeOK, CallsInv, StaleInv, Settled, Open, Writers
<1>4. Cassandra!TypeOK' /\ Cassandra!SessionOpen'
  <2>1. Cassandra!SessionOpen'
    BY <1>1 DEF CassInv, Cassandra!SessionOpen
  <2>2. answers' \in [Clients -> [from : SUBSET Replicas, newest : States \cup {None}]]
        /\ stamp' \in [States -> Nat]
    BY <1>1 DEF CassInv, Cassandra!TypeOK
  <2> QED BY CassCalls, <1>1, <1>2, <1>3, <2>1, <2>2
             DEF CassInv, Cassandra!TypeOK, CallsOK
<1>5. ClockInv' /\ CopiesInv'
  <2>1. s \in Of(id, written')
    BY <1>1 DEF Of
  <2>2. \A q \in Replicas : \A i \in IDs : copies'[q][i] \in Of(i, written') \cup {None}
    BY <1>1, <1>2, <2>1 DEF CassInv, CopiesInv
  <2> QED BY <1>1, <2>2 DEF CassInv, ClockInv, CopiesInv
<1>6. ASSUME NEW t \in written, NEW q \in Replicas, Cassandra!AtLeast(q, t)
      PROVE  Cassandra!AtLeast(q, t)'
  <2>1. t \in States /\ t.PersistenceId \in IDs
    BY <1>1 DEF IDs
  <2>2. CASE q = r /\ t.PersistenceId = id
    <3>1. copies[r][id] # None /\ stamp[t] <= stamp[copies[r][id]]
      BY <1>6, <2>2 DEF Cassandra!AtLeast, Cassandra!AsNew
    <3>2. ~(stamp[s] <= stamp[copies[r][id]])
      BY <3>1 DEF Cassandra!Apply, Cassandra!AtLeast, Cassandra!AsNew
    <3>3. stamp[copies[r][id]] \in Nat
      BY CassCalls, <1>1, <3>1 DEF CassInv, Cassandra!TypeOK
    <3> QED BY <1>1, <1>2, <2>1, <2>2, <3>1, <3>2, <3>3, NoStateAssumption
               DEF Cassandra!AtLeast, Cassandra!AsNew
  <2>3. CASE q # r \/ t.PersistenceId # id
    BY <1>1, <1>2, <1>6, <2>1, <2>3 DEF Cassandra!AtLeast, Cassandra!AsNew
  <2> QED BY <2>2, <2>3
<1>7. /\ \A t \in written : Kept(t) => Kept(t)'
      /\ \A c \in Clients : \A t :
           /\ call[c] \in GetCall /\ UNCHANGED <<call[c], answers[c]>>
           /\ answers[c].newest \in Of(call[c].id, written) \cup {None}
           /\ Fresh(c, t)
           => Fresh(c, t)'
  <2>1. stamp' \in [States -> Nat] /\ \A t \in written : stamp'[t] = stamp[t]
    BY <1>1 DEF CassInv, Cassandra!TypeOK
  <2> QED BY <1>1, <1>6, <2>1, Monotone
<1>8. AnswersInv'
  <2>1. ASSUME NEW c \in Clients, pc[c] = "select"
        PROVE  /\ answers[c].newest \in Of(call[c].id, written) \cup {None}
               /\ \A t \in stale[c] : Fresh(c, t)'
    BY CassCalls, <2>1, <1>1, <1>7 DEF CassInv, Cassandra!TypeOK, AnswersInv
  <2> QED BY <1>1, <2>1 DEF CassInv, AnswersInv
<1>9. AckInv'
  BY <1>1, <1>3, <1>7 DEF CassInv, AckInv, Older, CallsOK, CallsTypeOK
<1> QED BY <1>3, <1>4, <1>5, <1>8, <1>9 DEF CassInv

LEMMA CassCrash ==
  ASSUME CassInv, Cassandra!Crash
  PROVE  CassInv'
<1>1. /\ CallsOK' /\ Writers' = {} /\ UNCHANGED <<written, acked, superseded, stamp, copies>>
      /\ call' = [c \in Clients |-> None] /\ pc' = AllIdle
  BY CassCalls, CallsCrashed, NoCallAssumption
     DEF Cassandra!Crash, CassInv, Writers, CallsCrash
<1>2. Cassandra!TypeOK' /\ Cassandra!SessionOpen'
  <2>1. Cassandra!SessionOpen'
    BY DEF Cassandra!Crash, Cassandra!SessionOpen
  <2>2. /\ stamp' \in [States -> Nat]
        /\ copies' \in [Replicas -> [IDs -> {s \in States : stamp'[s] > 0} \cup {None}]]
    BY CassCalls, <1>1 DEF CassInv, Cassandra!TypeOK
  <2>3. answers' \in [Clients -> [from : SUBSET Replicas, newest : States \cup {None}]]
    BY DEF Cassandra!Crash, Cassandra!NoAnswers
  <2>4. /\ pc' \in [Procs -> {"idle", "connect", "dial", "insert", "select"}]
        /\ \A g \in Procs : pc'[g] = "idle"
        /\ \A c \in Clients : call'[c] \notin WriteCall /\ call'[c] \notin GetCall
    BY <1>1, NoCallAssumption DEF AllIdle
  <2> QED BY CassCalls, <1>1, <2>1, <2>2, <2>3, <2>4, NoProcAssumption
             DEF Cassandra!TypeOK, Cassandra!Crash, CallsOK, Procs
<1>3. AnswersInv'
  BY <1>1 DEF AnswersInv, AllIdle, Procs, Cassandra!Crash
<1>4. ClockInv' /\ CopiesInv' /\ AckInv'
  BY <1>1
     DEF CassInv, ClockInv, CopiesInv, AckInv, Kept, Cassandra!AtLeast, Cassandra!AsNew,
         Older
<1> QED BY <1>1, <1>2, <1>3, <1>4 DEF CassInv

LEMMA CassInductive == CassInv /\ [Cassandra!Next]_Cassandra!vars => CassInv'
<1> SUFFICES ASSUME CassInv, [Cassandra!Next]_Cassandra!vars PROVE CassInv'
  OBVIOUS
<1>1. ASSUME NEW c \in Clients,
             \/ Cassandra!NoSession(c) \/ Cassandra!MarshalFails(c)
             \/ Cassandra!Selected(c) \/ Cassandra!QueryFails(c)
      PROVE  CassInv'
  <2>1. answers' = [answers EXCEPT ![c] = Cassandra!NoAnswers]
        /\ UNCHANGED <<written, acked, superseded, mu, connected, session, stamp, copies>>
    BY CassCalls, <1>1
       DEF Cassandra!NoSession, Cassandra!MarshalFails, Cassandra!Selected,
           Cassandra!QueryFails, Fail, EndGet, Cassandra!cassVars, CassInv,
           Cassandra!TypeOK, AnswersInv
  <2>2. Return(c) /\ reply' \in SUBSET (States \cup {None})
    <3>1. answers[c].newest \in States \cup {None}
      BY DEF CassInv, Cassandra!TypeOK
    <3> QED BY CassCalls, <1>1, <3>1
               DEF Cassandra!NoSession, Cassandra!MarshalFails, Cassandra!Selected,
                   Cassandra!QueryFails, Fail, EndGet
  <2> QED BY <2>1, <2>2, CassEnds
<1>2. CASE UNCHANGED Cassandra!vars
  <2>1. UNCHANGED <<pc, call, reply, written, acked, superseded, stale, mu, connected, session,
                    stamp, copies, answers>>
    BY <1>2 DEF Cassandra!vars, callVars, Cassandra!callVars, Cassandra!cassVars
  <2>2. CallsOK' /\ Writers' = Writers
    BY <2>1
       DEF CassInv, CallsOK, CallsTypeOK, CallsInv, StaleInv, Settled, Open, Writers
  <2>3. Cassandra!TypeOK' /\ Cassandra!SessionOpen' /\ ClockInv' /\ CopiesInv'
    BY CassCalls, <2>1, <2>2
       DEF CassInv, Cassandra!TypeOK, Cassandra!SessionOpen, CallsOK, ClockInv,
           CopiesInv
  <2>4. AckInv'
    BY <2>1, <2>2 DEF CassInv, AckInv, Kept, Cassandra!AtLeast, Cassandra!AsNew, Older
  <2>5. AnswersInv'
    <3>1. ASSUME NEW c, NEW t, Fresh(c, t) PROVE Fresh(c, t)'
      BY <2>1, <3>1 DEF Fresh, Cassandra!AtLeast, Cassandra!AsNew
    <3> QED BY <2>1, <3>1 DEF CassInv, AnswersInv
  <2> QED BY <2>2, <2>3, <2>4, <2>5 DEF CassInv
<1> QED BY CassCalls, <1>1, <1>2, CassLifecycle, CassWriteState, CassGetLatestState,
           CassInserted, CassAnswer, CassApply, CassCrash
           DEF Cassandra!Next

LEMMA CassReads ==
  ASSUME Cassandra!QuorumsIntersect
  PROVE  CassInv /\ [Cassandra!Next]_Cassandra!vars => [LatestRead]_<<pc, callVars>>
<1> SUFFICES ASSUME CassInv, Cassandra!Next PROVE LatestRead
  BY DEF Cassandra!vars, callVars, Cassandra!callVars
<1>1. call \in [Clients -> WriteCall \cup GetCall \cup {None}]
  BY DEF CassInv, CallsOK, CallsTypeOK
<1>2. ASSUME NEW c \in Clients, Cassandra!Selected(c) PROVE LatestRead
  <2> DEFINE s == answers[c].newest
  <2>1. /\ s \in Of(call[c].id, written) \cup {None} /\ call[c] \in GetCall
        /\ \A t \in stale[c] : Fresh(c, t)
    BY CassCalls, <1>2 DEF Cassandra!Selected, CassInv, AnswersInv, Cassandra!TypeOK
  <2>2. answers[c].from \in Quorums
    BY CassSets, <1>2
       DEF Cassandra!Selected, Cassandra!Answered, Quorums, CassInv, Cassandra!TypeOK
  <2>3. ASSUME s \in stale[c] PROVE FALSE
    <3>1. PICK u \in Of(call[c].id, written) :
            /\ s = None \/ (s \in written /\ stamp[s] < stamp[u])
            /\ \E Q \in Quorums : \A r \in Q :
                 Cassandra!AtLeast(r, u) /\ (r \in answers[c].from => Cassandra!AsNew(s, u))
      BY <2>1, <2>3 DEF Fresh
    <3>2. PICK Q \in Quorums : \A r \in Q : r \in answers[c].from => Cassandra!AsNew(s, u)
      BY <3>1
    <3>3. Cassandra!AsNew(s, u)
      BY <2>2, <3>2, QuorumsMeet
    <3>4. stamp[u] \in Nat /\ (s \in written => stamp[s] \in Nat)
      BY DEF CassInv, Cassandra!TypeOK, CallsOK, CallsTypeOK, Of
    <3> QED BY <3>1, <3>3, <3>4 DEF Cassandra!AsNew
  <2> QED BY CassCalls, <1>2, <2>1, <2>3, ReadsOne DEF Cassandra!Selected, CassInv
<1>3. CASE \E c \in Clients : \/ Cassandra!NoSession(c) \/ Cassandra!MarshalFails(c)
                              \/ Cassandra!Inserted(c) \/ Cassandra!QueryFails(c)
                              \/ \E s \in States : Cassandra!WriteState(c, s)
                              \/ \E id \in IDs : Cassandra!GetLatestState(c, id)
                              \/ \E r \in Replicas : Cassandra!Answer(c, r)
  BY <1>1, <1>3, ReadsNothing
     DEF Cassandra!NoSession, Cassandra!MarshalFails, Cassandra!Inserted,
         Cassandra!QueryFails, Cassandra!WriteState, Cassandra!GetLatestState,
         Cassandra!Answer, Fail, Cassandra!Fail, EndWrite, Cassandra!EndWrite,
         BeginWrite, Cassandra!BeginWrite, BeginGet, Cassandra!BeginGet, callVars,
         Cassandra!callVars
<1>4. CASE \/ \E o \in Owners : \/ Cassandra!Ping(o) \/ Cassandra!Connect(o)
                                \/ Cassandra!ConnectStore(o) \/ Cassandra!Disconnect(o)
           \/ \E r \in Replicas, s \in States : Cassandra!Apply(r, s)
           \/ Cassandra!Crash
  BY <1>1, <1>4, ReadsNothing
     DEF Cassandra!Ping, Cassandra!Connect, Cassandra!ConnectStore,
         Cassandra!Disconnect, Cassandra!Apply, Cassandra!Crash, CallsCrash,
         Cassandra!CallsCrash, callVars, Cassandra!callVars
<1> QED BY CassCalls, <1>2, <1>3, <1>4 DEF Cassandra!Next

-------------------------------------------------------------------------------
(* Whatever the backend.                                                   *)

Inv ==
  /\ backend = "memory" => MemInv
  /\ backend = "postgres" => PgInv
  /\ backend = "cassandra" => CassInv

LEMMA InvStarts == Init => Inv
  BY MemStarts, PgStarts, CassStarts DEF Init, Inv

\* Only the backend in use takes steps.
LEMMA BackendSteps ==
  ASSUME [Next]_vars
  PROVE  /\ backend' = backend
         /\ backend = "memory" => [Memory!Next]_Memory!vars
         /\ backend = "postgres" => [Postgres!Next]_Postgres!vars
         /\ backend = "cassandra" => [Cassandra!Next]_Cassandra!vars
<1>1. CASE Next
  BY <1>1 DEF Next
<1>2. CASE UNCHANGED vars
  BY <1>2
     DEF vars, memOwn, pgOwn, cassOwn, callVars, Memory!vars, Memory!callVars,
         Memory!memVars, Postgres!vars, Postgres!callVars, Postgres!poolVars,
         Cassandra!vars, Cassandra!callVars, Cassandra!cassVars
<1> QED BY <1>1, <1>2

LEMMA InvInductive == Inv /\ [Next]_vars => Inv'
  BY BackendSteps, MemInductive, PgInductive, CassInductive DEF Inv

\* Every state of the store in use, and of the calls to it, is well typed: in
\* particular a client of Postgres holds a connection exactly while it waits for a
\* statement, and an owner the mutex exactly while it dials or closes.
THEOREM TypeCorrect == Spec => []TypeOK
<1>1. Inv => TypeOK
  BY DEF Inv, MemInv, PgInv, CassInv, TypeOK
<1> QED BY <1>1, InvStarts, InvInductive, PTL DEF Spec

\* "guards connection state transitions": for any number of goroutines that
\* connect, ping and disconnect, the flag of the store says whether the pool it
\* uses, or its session, is open whenever nobody holds the mutex - also when
\* connects fail and leave pools open that nothing refers to.
THEOREM ConnectionGuarded == Spec => []ConnectedIsOpen
<1>1. Inv => ConnectedIsOpen
  BY PoolInvImplies DEF Inv, PgInv, CassInv, Postgres!TypeOK, ConnectedIsOpen
<1> QED BY <1>1, InvStarts, InvInductive, PTL DEF Spec

\* "Calling Disconnect purges every record" that was acknowledged before it, with
\* any number of goroutines that write, and disconnect, at the same time.
THEOREM AcknowledgedPurged == Spec => []PurgesAcknowledged
<1>1. Inv => PurgesAcknowledged
  BY MemCalls DEF Inv, MemInv, PurgeInv, PurgesAcknowledged, Memory!PurgesAcknowledged
<1> QED BY <1>1, InvStarts, InvInductive, PTL DEF Spec

Quorate == backend = "cassandra" => Cassandra!QuorumsIntersect

\* GetLatestState never returns a state that had been replaced: in memory though
\* there is no lock, in Postgres whatever upserts are late, in Cassandra however
\* inserts reach the replicas late, in another order or never, if its quorums
\* intersect; and through restarts of the program.
THEOREM LatestStateRead == Spec /\ Quorate => ReadsLatest
<1>1. Quorate /\ [Next]_vars => Quorate'
  BY BackendSteps DEF Quorate, Cassandra!QuorumsIntersect
<1>2. Inv /\ Quorate /\ [Next]_vars => [LatestRead]_<<pc, callVars>>
  <2> SUFFICES ASSUME Inv, Quorate, Next PROVE [LatestRead]_<<pc, callVars>>
    BY DEF vars, callVars
  <2>1. backend \in {"memory", "postgres", "cassandra"}
    BY DEF Next
  <2> QED BY <2>1, BackendSteps, MemReads, PgReads, CassReads DEF Inv, Quorate
<1> QED BY <1>1, <1>2, InvStarts, InvInductive, PTL DEF Spec, ReadsLatest
==============================================================================
