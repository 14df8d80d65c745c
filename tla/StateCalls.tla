------------------------------ MODULE StateCalls ------------------------------
(***************************************************************************)
(* The callers of a persistence.StateStore: actors that write their state  *)
(* and read it back.  The modules of the implementations extend this one;  *)
(* what they have in common is the interface and what callers rely on.     *)
(*                                                                         *)
(* Besides the calls under way the module keeps what the callers know: the *)
(* states they began to write, those whose WriteState has returned without *)
(* an error, and those that such a write has replaced for good.            *)
(***************************************************************************)
EXTENDS Goroutines

CONSTANT States  \* the states there are to write; each is written once (a
                 \* bound), so that what is read tells which call wrote it

ASSUME StatesAssumption == \A s \in States : {"PersistenceId", "VersionNumber"} \subseteq DOMAIN s
CONSTANT Malformed  \* those whose resulting state proto.Marshal fails on

ASSUME MalformedAssumption == Malformed \subseteq States
ASSUME NoStateAssumption == None \notin States

IDs == {s.PersistenceId : s \in States}

\* A WriteState, with what was acknowledged before it, and a GetLatestState.
WriteCall == [op : {"write"}, state : States, before : SUBSET States]

GetCall == [op : {"get"}, id : IDs]

ASSUME NoCallAssumption == None \notin WriteCall \cup GetCall

VARIABLES
  call,        \* the call a client is in, or None
  reply,       \* {what GetLatestState returned}, when that is what ended last
  written,     \* history: the states a WriteState was called with
  acked,       \* history: those whose WriteState returned nil
  superseded,  \* history: those acknowledged before such a WriteState was called
  stale        \* history: what the GetLatestState of a client must not return

callVars == <<call, reply, written, acked, superseded, stale>>

Of(id, S) == {s \in S : s.PersistenceId = id}

CallsInit ==
  /\ pc = AllIdle
  /\ call = [c \in Clients |-> None]
  /\ reply = {}
  /\ written = {}
  /\ acked = {}
  /\ superseded = {}
  /\ stale = [c \in Clients |-> {}]

-------------------------------------------------------------------------------
(* A call begins.                                                          *)

BeginWrite(c, s) ==
  /\ s \notin written
  /\ call' = [call EXCEPT ![c] = [op |-> "write", state |-> s,
                                  before |-> Of(s.PersistenceId, acked)]]
  /\ written' = written \cup {s}
  /\ reply' = {}
  /\ UNCHANGED <<acked, superseded, stale>>

\* No state, where one was acknowledged, is out of date as well.
BeginGet(c, id) ==
  /\ call' = [call EXCEPT ![c] = [op |-> "get", id |-> id]]
  /\ stale' = [stale EXCEPT ![c] = Of(id, superseded)
                 \cup IF Of(id, acked) = {} THEN {} ELSE {None}]
  /\ reply' = {}
  /\ UNCHANGED <<written, acked, superseded>>

(* A call ends: with nil, with a state or none, or with an error.          *)

Return(c) ==
  /\ Goto(c, "idle")
  /\ call' = [call EXCEPT ![c] = None]
  /\ stale' = [stale EXCEPT ![c] = {}]

EndWrite(c) ==
  /\ Return(c)
  /\ acked' = acked \cup {call[c].state}
  /\ superseded' = superseded \cup call[c].before
  /\ reply' = {}
  /\ UNCHANGED written

EndGet(c, s) ==
  /\ Return(c)
  /\ reply' = {s}
  /\ UNCHANGED <<written, acked, superseded>>

Fail(c) == Return(c) /\ reply' = {} /\ UNCHANGED <<written, acked, superseded>>

\* ToDurableState of what a database has: of a malformed state it has the bytes
\* that proto.Marshal got to, which do not unmarshal.
Unmarshal(c, s, durableState) == IF s \in Malformed THEN Fail(c) ELSE EndGet(c, durableState)

\* The program dies and its callers with it.
CallsCrash ==
  /\ pc' = AllIdle
  /\ call' = [c \in Clients |-> None]
  /\ stale' = [c \in Clients |-> {}]
  /\ reply' = {}
  /\ UNCHANGED <<written, acked, superseded>>

-------------------------------------------------------------------------------
CallsTypeOK ==
  /\ call \in [Clients -> WriteCall \cup GetCall \cup {None}]
  /\ reply \in SUBSET (States \cup {None})
  /\ written \in SUBSET States
  /\ acked \in SUBSET written
  /\ superseded \in SUBSET written
  /\ stale \in [Clients -> SUBSET (States \cup {None})]

\* A GetLatestState of a client returns s.
Gets(c, s) == call[c] \in GetCall /\ EndGet(c, s)

LatestRead ==
  \A c \in Clients : \A s \in reply' :
    Gets(c, s) => s \in (Of(call[c].id, written) \cup {None}) \ stale[c]

\* "GetLatestState fetches the latest durable state": it returns a state as a
\* WriteState of that persistence id was given it, never one that had been
\* replaced when GetLatestState was called - one acknowledged before a later
\* WriteState was called that was acknowledged itself -, and not nothing where a
\* state had been acknowledged.  A WriteState that failed, or that runs beside
\* the GetLatestState, may have taken effect or not, and may yet do so.
ReadsLatest == [][LatestRead]_<<pc, callVars>>
==============================================================================
