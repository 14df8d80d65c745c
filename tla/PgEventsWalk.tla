----------------------------- MODULE PgEventsWalk -----------------------------
(***************************************************************************)
(* A caller that lists every persistence id of eventstore/postgres: it     *)
(* passes each nextPageToken to the next call of PersistenceIDs and stops  *)
(* when it gets an empty one, while other goroutines write and delete.     *)
(***************************************************************************)
EXTENDS PgEventsQueries

CONSTANTS
  PageSize,  \* the page size it passes
  NoID       \* the empty page token, before every id

\* The ids stand in the order of the database.  The caller asks for at least one.
ASSUME NoIDAssumption ==
  PersistenceIDs \subseteq Nat /\ NoID \in Nat /\ \A pid \in PersistenceIDs : pid > NoID
ASSUME PageSizeAssumption == PageSize \in Nat \ {0}

VARIABLES
  pageToken, \* the token of its next call
  listed,    \* the ids it got so far
  stable,    \* history: the ids with a committed row at every moment of this walk
  walk       \* "idle", "paging" (between calls), "reading" or "done"

walkVars == <<pageToken, listed, stable, walk>>

IDs == {k[1] : k \in {k \in Keys : table[k] # None}}

\* WHERE persistence_id > pageToken; a mutant takes the token's own id in again.
FromToken(pid, token) == pid >= token

PastToken(pid, token) == pid > token

ByPersistenceID(ids) == {s \in SetToSeqs(ids) : \A i, j \in DOMAIN s : i < j => s[i] < s[j]}

LastID(ids) == IF ids = <<>> THEN NoID ELSE ids[Len(ids)]

\* The last id of the page; a mutant reads one row more and hands out its id.
PeekedToken(ids, pageSize) == LastID(FirstN(ids, pageSize + 1))

NextPageToken(ids, pageSize) == LastID(FirstN(ids, pageSize))

\* SELECT DISTINCT ... ORDER BY persistence_id ASC LIMIT.
PersistenceIDsPage(pageSize, token) ==
  {[ids |-> FirstN(s, pageSize), next |-> NextPageToken(s, pageSize)] :
     s \in ByPersistenceID({pid \in IDs : PastToken(pid, token)})}

StartWalk == /\ walk \in {"idle", "done"}
             /\ pageToken' = NoID
             /\ listed' = {}
             /\ stable' = IDs
             /\ walk' = "paging"
             /\ UNCHANGED vars

\* PersistenceIDs: the load of the flag, then the SELECT.
PageCheck == /\ walk = "paging"
             /\ connected
             /\ walk' = "reading"
             /\ UNCHANGED <<vars, pageToken, listed, stable>>

PageRead ==
  /\ walk = "reading"
  /\ status[pool] = "open" /\ Busy(pool) < MaxConnections
  /\ \E page \in PersistenceIDsPage(PageSize, pageToken) :
       /\ listed' = listed \cup ToSet(page.ids)
       /\ pageToken' = page.next
  /\ walk' = IF pageToken' = NoID THEN "done" ELSE "paging"
  /\ UNCHANGED <<vars, stable>>

\* Not connected, the pool closed or the network gone: the caller gives up.
WalkFails == /\ \/ walk = "paging" /\ ~connected
                \/ walk = "reading"
             /\ pageToken' = NoID
             /\ listed' = {}
             /\ stable' = {}
             /\ walk' = "idle"
             /\ UNCHANGED vars

\* A crash of the program, which alone takes the pool away, ends the walk.
WalkStoreStep ==
  /\ Next
  /\ stable' = stable \cap IDs'
  /\ walk' = IF pool' = None THEN "idle" ELSE walk
  /\ UNCHANGED <<pageToken, listed>>

WInit == Init /\ pageToken = NoID /\ listed = {} /\ stable = {} /\ walk = "idle"

WNext == WalkStoreStep \/ StartWalk \/ PageCheck \/ PageRead \/ WalkFails

-------------------------------------------------------------------------------
(* Properties.                                                             *)

\* A walk to the last page lists every id that had a committed event all along,
\* whatever its number of events and however writes and deletes interleave with
\* the calls of PersistenceIDs.
ListsEveryID == walk = "done" => stable \subseteq listed

\* A walk goes forward and ends: every page has ids, all of them past those of
\* the pages before, or it is the last.
WalkAdvances == [][PageRead =>
  \/ walk' = "done"
  \/ /\ pageToken' > pageToken
     /\ listed' # listed /\ \A pid \in listed' \ listed : pid > pageToken]_<<vars, walkVars>>
==============================================================================
