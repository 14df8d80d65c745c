-------------------------------- MODULE Offsets --------------------------------
(***************************************************************************)
(* What an offset store promises to its callers, the reading of            *)
(* offsetstore.OffsetStore that the implementations of this repository are *)
(* measured by: one offset for each shard of each projection.              *)
(*                                                                         *)
(*  - WriteOffset sets the offset of one shard, at one moment of the call. *)
(*  - GetCurrentOffset returns the offset the shard has at one moment of   *)
(*    the call.                                                            *)
(*  - ResetOffset sets, at one moment, the offsets of one projection: of   *)
(*    every shard that had one when the call began, and of some of those   *)
(*    that got their first one since.                                      *)
(*  - A call that fails, or whose program dies, has taken effect, will     *)
(*    never do so, or may yet do so at any moment, over what was written   *)
(*    since.                                                               *)
(*  - Opening and closing the store changes no offset, nor does a crash.   *)
(***************************************************************************)

CONSTANTS
  Clients,      \* the goroutines that call the store
  Projections,  \* the names of the projections
  Shards,       \* the shard numbers
  Values,       \* the values of offsets
  None          \* no offset, no call

VARIABLES
  offsets,  \* the offset of each shard of each projection, or None
  call,     \* the request a client waits for, or None
  seen,     \* the keys its ResetOffset has to set
  reply,    \* what the call that ended last returned, until the next begins
  doubt     \* the requests that ended without an answer and may yet take effect

vars == <<offsets, call, seen, reply, doubt>>

Keys == Projections \X Shards

Requests ==
  [op : {"write"}, projection : Projections, shard : Shards, value : Values]
  \cup [op : {"get"}, projection : Projections, shard : Shards]
  \cup [op : {"reset"}, projection : Projections, value : Values]

KeysOf(projection) == {k \in Keys : k[1] = projection /\ offsets[k] # None}

KeyOf(q) == <<q.projection, q.shard>>

NoReply == <<"none">>
Ok == <<"ok">>
Error == <<"error">>
Found(value) == <<"ok", value>>

Assign(K, value) == [k \in Keys |-> IF k \in K THEN value ELSE offsets[k]]

Init ==
  /\ offsets = [k \in Keys |-> None]
  /\ call = [c \in Clients |-> None]
  /\ seen = [c \in Clients |-> {}]
  /\ reply = NoReply
  /\ doubt = {}

Begin(c, q) ==
  /\ call[c] = None
  /\ call' = [call EXCEPT ![c] = q]
  /\ seen' = [seen EXCEPT ![c] = IF q.op = "reset" THEN KeysOf(q.projection) ELSE {}]
  /\ reply' = NoReply
  /\ UNCHANGED <<offsets, doubt>>

Return(c, r) ==
  /\ call[c] # None
  /\ call' = [call EXCEPT ![c] = None]
  /\ seen' = [seen EXCEPT ![c] = {}]
  /\ reply' = r

WriteOffset(c) ==
  /\ \E r \in {Ok, Error} : Return(c, r)
  /\ call[c].op = "write"
  /\ offsets' = Assign({KeyOf(call[c])}, call[c].value)
  /\ UNCHANGED doubt

GetCurrentOffset(c) ==
  /\ call[c] # None /\ call[c].op = "get"
  /\ Return(c, Found(offsets[KeyOf(call[c])]))
  /\ UNCHANGED <<offsets, doubt>>

ResetOffset(c) ==
  /\ \E r \in {Ok, Error} : Return(c, r)
  /\ call[c].op = "reset"
  /\ \E K \in SUBSET KeysOf(call[c].projection) :
       /\ seen[c] \subseteq K
       /\ offsets' = Assign(K, call[c].value)
  /\ UNCHANGED doubt

Fail(c) ==
  /\ Return(c, Error)
  /\ doubt' \in {doubt, doubt \cup {call[c]}}
  /\ UNCHANGED offsets

\* A request takes effect though nobody waits for it, perhaps not the last time
\* (there may have been several like it), or it never will.
Late ==
  /\ \E q \in doubt :
       \/ q.op = "write" /\ offsets' = Assign({KeyOf(q)}, q.value)
       \/ /\ q.op = "reset"
          /\ \E K \in SUBSET KeysOf(q.projection) : offsets' = Assign(K, q.value)
  /\ doubt' \in SUBSET doubt
  /\ UNCHANGED <<call, seen, reply>>

Forget ==
  /\ doubt' \in SUBSET doubt
  /\ UNCHANGED <<offsets, call, seen, reply>>

Crash ==
  /\ call' = [c \in Clients |-> None]
  /\ seen' = [c \in Clients |-> {}]
  /\ reply' = NoReply
  /\ doubt' \in SUBSET (doubt \cup {call[c] : c \in Clients})
  /\ UNCHANGED offsets

Next ==
  \/ \E c \in Clients :
       \/ \E q \in Requests : Begin(c, q)
       \/ WriteOffset(c) \/ GetCurrentOffset(c) \/ ResetOffset(c) \/ Fail(c)
  \/ Late \/ Forget \/ Crash

Spec == Init /\ [][Next]_vars
==============================================================================
