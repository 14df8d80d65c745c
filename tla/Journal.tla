------------------------------- MODULE Journal -------------------------------
(***************************************************************************)
(* What an events store promises to its callers, whatever keeps the rows:  *)
(* the reading of persistence.EventsStore that both implementations in     *)
(* this repository (eventstore/memory and eventstore/postgres) share.      *)
(*                                                                         *)
(*  - WriteEvents adds all the events of its batch or none of them; when   *)
(*    it returns an error it added none, unless the answer to its commit   *)
(*    can get lost (Uncertain).                                            *)
(*  - DeleteEvents removes nothing but events of its persistence id whose  *)
(*    sequence number is at most its bound; when it succeeds, every such   *)
(*    event that was in the journal when the call began is gone.           *)
(*  - Opening and closing the store removes every event or none, and the   *)
(*    journal is replaced by an empty one only while the store is closed.  *)
(*  - A crash of the program closes the store and forgets its calls.       *)
(***************************************************************************)
EXTENDS Naturals, Sequences

CONSTANTS
  Procs,    \* the goroutines that call WriteEvents and DeleteEvents
  Keys,     \* the identities a stored event can have
  Batches,  \* the batches WriteEvents is called with
  Targets,  \* the (persistence id, sequence number) DeleteEvents is called with
  None,     \* no event, no pending call
  Uncertain \* whether a call that takes effect may return an error

VARIABLES
  journal,  \* the event stored under each key, None when there is none
  open,     \* whether the store accepts calls
  batch,    \* the batch of each process's pending WriteEvents, or None
  target,   \* the target of its pending DeleteEvents, or None
  seen,     \* the keys its pending DeleteEvents has to remove
  reply     \* how its last call ended, "none" while it is pending

vars == <<journal, open, batch, target, seen, reply>>

Empty == [k \in Keys |-> None]

Covers(t, row) == /\ row.PersistenceID = t.PersistenceID
                  /\ row.SequenceNumber <= t.SequenceNumber

CoveredKeys(t) == {k \in Keys : journal[k] # None /\ Covers(t, journal[k])}

Init == /\ journal = Empty
        /\ open = FALSE
        /\ batch = [p \in Procs |-> None]
        /\ target = [p \in Procs |-> None]
        /\ seen = [p \in Procs |-> {}]
        /\ reply = [p \in Procs |-> "none"]

Idle(p) == batch[p] = None /\ target[p] = None

\* Call p is over.  The keys K now hold new events, which no earlier call saw.
Finish(p, r, K) ==
  /\ batch' = [batch EXCEPT ![p] = None]
  /\ target' = [target EXCEPT ![p] = None]
  /\ seen' = [q \in Procs |-> IF q = p THEN {} ELSE seen[q] \ K]
  /\ reply' = [reply EXCEPT ![p] = r]

Answer == IF Uncertain THEN {"ok", "error"} ELSE {"ok"}

BeginWrite(p, b) == /\ Idle(p)
                    /\ batch' = [batch EXCEPT ![p] = b]
                    /\ reply' = [reply EXCEPT ![p] = "none"]
                    /\ UNCHANGED <<journal, open, target, seen>>

BeginDelete(p, t) == /\ Idle(p)
                     /\ target' = [target EXCEPT ![p] = t]
                     /\ seen' = [seen EXCEPT ![p] = CoveredKeys(t)]
                     /\ reply' = [reply EXCEPT ![p] = "none"]
                     /\ UNCHANGED <<journal, open, batch>>

Store(p) == \E b \in Batches, K \in SUBSET Keys :
  /\ batch[p] = b
  /\ \A k \in K : journal[k] = None
  /\ \E f \in [K -> DOMAIN b] :
       /\ \A i \in DOMAIN b : \E k \in K : f[k] = i
       /\ \A k, l \in K : f[k] = f[l] => k = l
       /\ journal' = [k \in Keys |-> IF k \in K THEN b[f[k]] ELSE journal[k]]
  /\ \E r \in Answer : Finish(p, r, K)
  /\ UNCHANGED open

Delete(p) == \E t \in Targets, D \in SUBSET Keys :
  /\ target[p] = t
  /\ D \subseteq CoveredKeys(t)
  /\ \A k \in seen[p] : journal[k] = None \/ k \in D
  /\ journal' = [k \in Keys |-> IF k \in D THEN None ELSE journal[k]]
  /\ \E r \in Answer : Finish(p, r, {})
  /\ UNCHANGED open

Fail(p) == Finish(p, "error", {}) /\ UNCHANGED <<journal, open>>

Open == ~open /\ open' = TRUE /\ UNCHANGED <<journal, batch, target, seen, reply>>

Close == open /\ open' = FALSE /\ UNCHANGED <<journal, batch, target, seen, reply>>

Purge == open /\ journal' = Empty /\ UNCHANGED <<open, batch, target, seen, reply>>

Replace == ~open /\ journal' = Empty /\ UNCHANGED <<open, batch, target, seen, reply>>

Crash == /\ open' = FALSE
         /\ batch' = [p \in Procs |-> None]
         /\ target' = [p \in Procs |-> None]
         /\ seen' = [p \in Procs |-> {}]
         /\ reply' = [p \in Procs |-> "none"]
         /\ UNCHANGED journal

Next == \/ \E p \in Procs : \/ \E b \in Batches : BeginWrite(p, b)
                            \/ \E t \in Targets : BeginDelete(p, t)
                            \/ Store(p)
                            \/ Delete(p)
                            \/ Fail(p)
        \/ Open \/ Close \/ Purge \/ Replace \/ Crash

Spec == Init /\ [][Next]_vars
==============================================================================
