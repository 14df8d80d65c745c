--------------------------- MODULE DynamoStateStore ---------------------------
(***************************************************************************)
(* durablestore/dynamodb: a PutItem and a GetItem of the table's item of a *)
(* persistence id, on the caller's client: Connect, Disconnect and Ping do *)
(* nothing.                                                                *)
(*                                                                         *)
(* DynamoDB is external: a GetItem that does not ask for consistency reads *)
(* any copy of the item, and the SDK sends again a put that is unanswered, *)
(* which the table may run later all the same.                             *)
(***************************************************************************)
EXTENDS StateCalls

VARIABLES
  item,   \* the item of each persistence id, or None
  older,  \* what copies of it that lag still have
  unanswered  \* the puts the table may run though nobody waits

dynamoVars == <<item, older, unanswered>>

vars == <<pc, callVars, dynamoVars>>

Init ==
  /\ CallsInit
  /\ item = [id \in IDs |-> None]
  /\ older = [id \in IDs |-> {}]
  /\ unanswered = {}

UpsertItem(s) ==
  LET id == s.PersistenceId
  IN /\ item' = [item EXCEPT ![id] = s]
     /\ older' = [older EXCEPT ![id] = @ \cup {item[id]}]

WriteState(c, s) ==
  /\ pc[c] = "idle"
  /\ BeginWrite(c, s)
  /\ Goto(c, "put")
  /\ UNCHANGED dynamoVars

\* Of a malformed state as well: the error of proto.Marshal is dropped.
Put(c) ==
  /\ pc[c] = "put"
  /\ UpsertItem(call[c].state)
  /\ EndWrite(c)
  /\ UNCHANGED unanswered

\* The SDK tries again, or gives up.
PutUnanswered(c) ==
  /\ pc[c] = "put"
  /\ unanswered' = unanswered \cup {call[c].state}
  /\ Fail(c) \/ UNCHANGED <<pc, callVars>>
  /\ UNCHANGED <<item, older>>

LatePut ==
  \E s \in unanswered : /\ UpsertItem(s)
                        /\ unanswered' = unanswered \ {s}
                        /\ UNCHANGED <<pc, callVars>>

GetLatestState(c, id) ==
  /\ pc[c] = "idle"
  /\ BeginGet(c, id)
  /\ Goto(c, "get")
  /\ UNCHANGED dynamoVars

\* The version number is in the item and not in what is made of it (nor is the
\* shard): it has the zero value of its type.
ToDurableState(s) == IF s = None THEN None ELSE [s EXCEPT !.VersionNumber = 0]

Read(c, s) == Unmarshal(c, s, ToDurableState(s))

GetItem(c) ==
  /\ pc[c] = "get"
  /\ \/ Read(c, item[call[c].id])
     \/ \E s \in older[call[c].id] : Read(c, s)
  /\ UNCHANGED dynamoVars

GetFails(c) == pc[c] = "get" /\ Fail(c) /\ UNCHANGED dynamoVars

CopiesCatchUp(id) ==
  /\ older[id] # {}
  /\ older' = [older EXCEPT ![id] = {}]
  /\ UNCHANGED <<pc, callVars, item, unanswered>>

Next ==
  \/ \E c \in Clients : \/ Put(c) \/ PutUnanswered(c) \/ GetItem(c) \/ GetFails(c)
                        \/ \E s \in States : WriteState(c, s)
                        \/ \E id \in IDs : GetLatestState(c, id)
  \/ \E id \in IDs : CopiesCatchUp(id)
  \/ LatePut

Spec == Init /\ [][Next]_vars
==============================================================================
