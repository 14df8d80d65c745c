------------------------------- MODULE Snapshots -------------------------------
(***************************************************************************)
(* What a persistence.SnapshotStore is to its callers, whatever it keeps   *)
(* the snapshots in: WriteSnapshot and GetLatestSnapshot take effect at one*)
(* moment of the call.  DeleteSnapshots need not, because a snapshot may be*)
(* written while it runs: it takes a look at one moment, removes at a later*)
(* one all that it saw and that is still there, and may remove what else it*)
(* covers.  A call that fails, or whose program dies, may yet take effect. *)
(***************************************************************************)
EXTENDS Naturals

CONSTANTS
  Clients,     \* the goroutines that call the store
  Snapshots,   \* the snapshots they write
  Requests,    \* the calls they make
  None

VARIABLES
  present,  \* the snapshot of each persistence id and sequence number, or None
  call,     \* the request a client waits for, or None
  seen,     \* the keys its DeleteSnapshots saw and that are still there, or None
  reply,    \* what the call that ended last returned, until the next begins
  doubt     \* the requests that ended without an answer and may yet take effect

vars == <<present, call, seen, reply, doubt>>

NoReply == <<"none">>
Ok == <<"ok">>
Error == <<"error">>
Found(s) == <<"ok", s>>

KeyOf(s) == <<s.PersistenceId, s.SequenceNumber>>

Keys == {KeyOf(s) : s \in Snapshots}

\* The keys of a table that a DeleteSnapshots is about.
Covered(q, table) == {k \in Keys : k[1] = q.id /\ k[2] <= q.to /\ table[k] # None}

\* {the snapshot with the highest sequence number}, or {None}.
Latest(id, table) ==
  LET stored == {k \in Keys : k[1] = id /\ table[k] # None}
  IN IF stored = {} THEN {None}
     ELSE {table[k] : k \in {k \in stored : \A l \in stored : l[2] <= k[2]}}

Put(s, table) == [table EXCEPT ![KeyOf(s)] = s]

Without(K, table) == [k \in Keys |-> IF k \in K THEN None ELSE table[k]]

\* What others saw is gone as well.
Gone(K, sight) == IF sight = None THEN None ELSE sight \ K

Init ==
  /\ present = [k \in Keys |-> None]
  /\ call = [c \in Clients |-> None]
  /\ seen = [c \in Clients |-> None]
  /\ reply = NoReply
  /\ doubt = {}

Begin(c) ==
  /\ call[c] = None
  /\ \E q \in Requests : call' = [call EXCEPT ![c] = q]
  /\ reply' = NoReply
  /\ UNCHANGED <<present, seen, doubt>>

Return(c, r) ==
  /\ call[c] # None
  /\ call' = [call EXCEPT ![c] = None]
  /\ reply' = r

\* A call that fails may have taken effect.
WriteSnapshot(c) ==
  /\ \E r \in {Ok, Error} : Return(c, r)
  /\ call[c].op = "write"
  /\ present' = Put(call[c].snapshot, present)
  /\ UNCHANGED <<seen, doubt>>

GetLatestSnapshot(c) ==
  /\ call[c] # None /\ call[c].op = "get"
  /\ \E s \in Latest(call[c].id, present) : Return(c, Found(s))
  /\ UNCHANGED <<present, seen, doubt>>

Look(c) ==
  /\ call[c] # None /\ call[c].op = "delete" /\ seen[c] = None
  /\ seen' = [seen EXCEPT ![c] = Covered(call[c], present)]
  /\ UNCHANGED <<present, call, reply, doubt>>

DeleteSnapshots(c) ==
  /\ \E r \in {Ok, Error} : Return(c, r)
  /\ call[c].op = "delete" /\ seen[c] # None
  /\ \E K \in SUBSET Covered(call[c], present) :
       /\ seen[c] \subseteq K
       /\ present' = Without(K, present)
       /\ seen' = [d \in Clients |-> IF d = c THEN None ELSE Gone(K, seen[d])]
  /\ UNCHANGED doubt

Fail(c) ==
  /\ Return(c, Error)
  /\ doubt' \in {doubt, doubt \cup {call[c]}}
  /\ seen' = [seen EXCEPT ![c] = None]
  /\ UNCHANGED present

\* A request takes effect though nobody waits for it, perhaps not the last time
\* (there may have been several like it), or it never will.
Late ==
  /\ \E q \in doubt :
       \/ /\ q.op = "write"
          /\ present' = Put(q.snapshot, present)
          /\ UNCHANGED seen
       \/ /\ q.op = "delete"
          /\ \E K \in SUBSET Covered(q, present) :
               /\ present' = Without(K, present)
               /\ seen' = [d \in Clients |-> Gone(K, seen[d])]
  /\ doubt' \in SUBSET doubt
  /\ UNCHANGED <<call, reply>>

Forget ==
  /\ doubt' \in SUBSET doubt
  /\ UNCHANGED <<present, call, seen, reply>>

Crash ==
  /\ call' = [c \in Clients |-> None]
  /\ seen' = [c \in Clients |-> None]
  /\ reply' = NoReply
  /\ doubt' \in SUBSET (doubt \cup {call[c] : c \in Clients})
  /\ UNCHANGED present

Next ==
  \/ \E c \in Clients : \/ Begin(c) \/ WriteSnapshot(c) \/ GetLatestSnapshot(c)
                        \/ Look(c) \/ DeleteSnapshots(c) \/ Fail(c)
  \/ Late \/ Forget \/ Crash

Spec == Init /\ [][Next]_vars
==============================================================================
