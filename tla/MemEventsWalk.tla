----------------------------- MODULE MemEventsWalk -----------------------------
(***************************************************************************)
(* A caller that lists every persistence id of eventstore/memory: it passes*)
(* each nextPageToken to the next call of PersistenceIDs and stops when it *)
(* gets an empty one, while other goroutines keep writing and deleting.    *)
(***************************************************************************)
EXTENDS MemEventsQueries

CONSTANT PageSize  \* the page size it passes

ASSUME PageSizeAssumption == PageSize \in Nat

VARIABLES
  pageToken,  \* the token of its next call
  listed,     \* the ids it got so far
  stable,     \* history: the ids with a row at every moment of this walk
  fits,       \* history: no id filled a page with its rows during this walk
  walk        \* "idle", "paging" (between calls), "reading" or "done"

walkVars == <<pageToken, listed, stable, fits, walk>>

WalkInit == pageToken = NoID /\ listed = {} /\ stable = {} /\ fits = TRUE
            /\ walk = "idle"

StartWalk == /\ walk \in {"idle", "done"}
             /\ pageToken' = NoID
             /\ listed' = {}
             /\ stable' = IDs
             /\ fits' = TRUE
             /\ walk' = "paging"
             /\ UNCHANGED vars

\* PersistenceIDs: the load of the flag, then the read transaction.
PageCheck == /\ walk = "paging"
             /\ connected
             /\ walk' = "reading"
             /\ UNCHANGED <<vars, pageToken, listed, stable, fits>>

PageRead ==
  LET page == PersistenceIDs(PageSize, pageToken)
  IN /\ walk = "reading"
     /\ listed' = listed \cup ToSet(page.ids)
     /\ pageToken' = page.nextPageToken
     /\ fits' = (fits /\ \A pid \in IDs : Cardinality(OfID(pid)) < PageSize)
     /\ walk' = IF page.nextPageToken = NoID THEN "done" ELSE "paging"
     /\ UNCHANGED <<vars, stable>>

\* "journal store is not connected": the caller gives up.
WalkFails == /\ walk = "paging"
             /\ ~connected
             /\ pageToken' = NoID
             /\ listed' = {}
             /\ stable' = {}
             /\ fits' = TRUE
             /\ walk' = "idle"
             /\ UNCHANGED vars

StoreStep == Next /\ stable' = stable \cap IDs' /\ UNCHANGED <<pageToken, listed, fits, walk>>

WInit == Init /\ WalkInit

WNext == StoreStep \/ StartWalk \/ PageCheck \/ PageRead \/ WalkFails

WSpec == WInit /\ [][WNext]_<<vars, walkVars>>

-------------------------------------------------------------------------------
(* Properties.                                                             *)

\* "PersistenceIDs supports pagination": a walk to the last page lists every id
\* that had an event all along, however writes and deletes interleave with it.
ListsEveryID == walk = "done" => stable \subseteq listed

\* It does so as long as every id has fewer rows than a page holds: a page then
\* has room for a row past those of its token.
ListsEveryIDThatFits == fits => ListsEveryID

\* What the queries answer depends on the table alone, and every table is reached
\* while neither a walk nor a call is under way: it is enough to look then.
AtRest(P) == walk = "idle" /\ (\A p \in Procs : pc[p] = "idle") => P

\* ReplayEvents gives a recovering actor its whole range: ReplayComplete.
ReplaysComplete == AtRest(ReplayComplete)

\* GetShardEvents leaves no event of a page behind: ShardPageComplete.
ShardPagesComplete == AtRest(ShardPageComplete)

\* An event that cannot be decoded stops no other replay: UnreadableIsLocal.
UnreadableStaysLocal == AtRest(UnreadableIsLocal)

\* A walk goes forward: no call hands out the token it was given, which would
\* have the caller ask for the same page for ever.
WalkAdvances == [][PageRead => pageToken' = NoID \/ pageToken' > pageToken]_<<vars, walkVars>>
==============================================================================
