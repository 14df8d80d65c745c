------------------------- MODULE CassandraStateStore -------------------------
(***************************************************************************)
(* durablestore/cassandra: an INSERT and a SELECT by persistence id at the *)
(* consistency level of the configuration, on a gocql session that         *)
(* WriteState and GetLatestState use without a look at `connected`.        *)
(*                                                                         *)
(* The cluster is external: an insert carries the client's clock (gocql    *)
(* stamps it), goes to every replica, and may get there at any time or     *)
(* never; of the inserts that reach it a replica keeps the newest.         *)
(***************************************************************************)
EXTENDS StateCalls

CONSTANTS
  Replicas,     \* the replicas of a row
  Consistency   \* how many of them a query waits for

VARIABLES
  mu,         \* the owner that holds s.mu across CreateSession, or None
  connected,  \* s.connected
  session,    \* c.session: "nil", "open" or "closed"
  stamp,      \* the timestamps of the inserts sent, as ranks among those of a row
  copies,     \* the row of each persistence id at each replica, or None
  answers     \* the replicas that answered a client's select, and their newest

cassVars == <<mu, connected, session, stamp, copies, answers>>

vars == <<pc, callVars, cassVars>>

NoAnswers == [from |-> {}, newest |-> None]

Init ==
  /\ CallsInit
  /\ mu = None
  /\ connected = FALSE
  /\ session = "nil"
  /\ stamp = [s \in States |-> 0]
  /\ copies = [r \in Replicas |-> [id \in IDs |-> None]]
  /\ answers = [c \in Clients |-> NoAnswers]

QuorumsIntersect ==
  Consistency \in Nat /\ 2 * Consistency > Cardinality(Replicas) /\ IsFiniteSet(Replicas)

-------------------------------------------------------------------------------
LockFree == mu = None

\* Ping gives the mutex back before it calls Connect.
Ping(o) ==
  /\ pc[o] = "idle" /\ LockFree
  /\ ~connected
  /\ Goto(o, "connect")
  /\ UNCHANGED <<callVars, cassVars>>

Connect(o) ==
  /\ pc[o] \in {"idle", "connect"} /\ LockFree
  /\ IF connected THEN Goto(o, "idle") /\ UNCHANGED mu
                  ELSE Goto(o, "dial") /\ mu' = o
  /\ UNCHANGED <<callVars, connected, session, stamp, copies, answers>>

\* CreateSession, or its failure.
ConnectStore(o) ==
  /\ pc[o] = "dial"
  /\ \/ session' = "open" /\ connected' = TRUE
     \/ UNCHANGED <<session, connected>>
  /\ mu' = None
  /\ Goto(o, "idle")
  /\ UNCHANGED <<callVars, stamp, copies, answers>>

Disconnect(o) ==
  /\ pc[o] = "idle" /\ LockFree
  /\ connected
  /\ session' = "closed"
  /\ connected' = FALSE
  /\ UNCHANGED <<pc, callVars, mu, stamp, copies, answers>>

-------------------------------------------------------------------------------
\* A closed session refuses the query; where there was no Connect the call
\* dereferences nil.
NoSession(c) ==
  /\ pc[c] = "idle"
  /\ session # "open"
  /\ Fail(c)
  /\ UNCHANGED cassVars

\* WriteState returns the error of proto.Marshal.
MarshalFails(c) ==
  /\ pc[c] = "idle"
  /\ Malformed # {}
  /\ Fail(c)
  /\ UNCHANGED cassVars

\* The clock of the program (a bound: it does not go back, and no two inserts
\* have the same microsecond).
Clock(id) == Cardinality({s \in Of(id, States) : stamp[s] > 0}) + 1

WriteState(c, s) ==
  /\ pc[c] = "idle"
  /\ session = "open"
  /\ s \notin Malformed
  /\ BeginWrite(c, s)
  /\ stamp' = [stamp EXCEPT ![s] = Clock(s.PersistenceId)]
  /\ Goto(c, "insert")
  /\ UNCHANGED <<mu, connected, session, copies, answers>>

\* A row holds an insert, or a newer one.
AsNew(t, s) == t # None /\ stamp[s] <= stamp[t]

AtLeast(r, s) == AsNew(copies[r][s.PersistenceId], s)

\* An insert reaches a replica; where a newer one is, it changes nothing.
Apply(r, s) ==
  /\ stamp[s] > 0
  /\ ~AtLeast(r, s)
  /\ copies' = [copies EXCEPT ![r][s.PersistenceId] = s]
  /\ UNCHANGED <<pc, callVars, mu, connected, session, stamp, answers>>

Inserted(c) ==
  /\ pc[c] = "insert"
  /\ Cardinality({r \in Replicas : AtLeast(r, call[c].state)}) >= Consistency
  /\ EndWrite(c)
  /\ UNCHANGED cassVars

GetLatestState(c, id) ==
  /\ pc[c] = "idle"
  /\ session = "open"
  /\ BeginGet(c, id)
  /\ Goto(c, "select")
  /\ UNCHANGED cassVars

\* A mutant does not ask for the consistency of the configuration.
AnsweredByOne(c) == answers[c].from # {}

Answered(c) == Cardinality(answers[c].from) >= Consistency

Newer(s, t) == IF t = None \/ (s # None /\ stamp[t] <= stamp[s]) THEN s ELSE t

\* A replica answers a select.
Answer(c, r) ==
  /\ pc[c] = "select"
  /\ ~Answered(c) /\ r \notin answers[c].from
  /\ answers' = [answers EXCEPT ![c] =
                   [from |-> @.from \cup {r}, newest |-> Newer(@.newest, copies[r][call[c].id])]]
  /\ UNCHANGED <<pc, callVars, mu, connected, session, stamp, copies>>

\* Where no replica has a row, gocql.ErrNotFound, which is no error.
Selected(c) ==
  /\ pc[c] = "select"
  /\ Answered(c)
  /\ EndGet(c, answers[c].newest)
  /\ answers' = [answers EXCEPT ![c] = NoAnswers]
  /\ UNCHANGED <<mu, connected, session, stamp, copies>>

\* Too few replicas answer in time, or the session is closed meanwhile.
QueryFails(c) ==
  /\ pc[c] \in {"insert", "select"}
  /\ Fail(c)
  /\ answers' = [answers EXCEPT ![c] = NoAnswers]
  /\ UNCHANGED <<mu, connected, session, stamp, copies>>

\* The program dies; what it sent does not.
Crash ==
  /\ CallsCrash
  /\ mu' = None
  /\ connected' = FALSE
  /\ session' = "nil"
  /\ answers' = [c \in Clients |-> NoAnswers]
  /\ UNCHANGED <<stamp, copies>>

Next ==
  \/ \E o \in Owners : Ping(o) \/ Connect(o) \/ ConnectStore(o) \/ Disconnect(o)
  \/ \E c \in Clients : \/ NoSession(c) \/ MarshalFails(c) \/ Inserted(c) \/ Selected(c) \/ QueryFails(c)
                        \/ \E s \in States : WriteState(c, s)
                        \/ \E id \in IDs : GetLatestState(c, id)
                        \/ \E r \in Replicas : Answer(c, r)
  \/ \E r \in Replicas, s \in States : Apply(r, s)
  \/ Crash

Spec == Init /\ [][Next]_vars

-------------------------------------------------------------------------------
TypeOK ==
  /\ CallsTypeOK
  /\ pc \in [Procs -> {"idle", "connect", "dial", "insert", "select"}]
  /\ \A c \in Clients : /\ pc[c] \in {"idle", "insert", "select"}
                        /\ pc[c] = "insert" <=> call[c] \in WriteCall
                        /\ pc[c] = "select" <=> call[c] \in GetCall
  /\ mu \in Owners \cup {None}
  /\ \A o \in Owners : pc[o] = "dial" <=> mu = o
  /\ connected \in BOOLEAN
  /\ session \in {"nil", "open", "closed"}
  /\ stamp \in [States -> Nat]
  /\ copies \in [Replicas -> [IDs -> {s \in States : stamp[s] > 0} \cup {None}]]
  /\ answers \in [Clients -> [from : SUBSET Replicas, newest : States \cup {None}]]

\* Between a Connect that succeeded and the next Disconnect there is a session
\* to query, whoever else connects, pings and disconnects: without that, no
\* check of the flag would keep a query from a closed session.
SessionOpen == connected <=> session = "open"
==============================================================================
