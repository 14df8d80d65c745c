------------------------------ MODULE Goroutines ------------------------------
(***************************************************************************)
(* The goroutines that share a store: clients read and write through it,   *)
(* owners connect and disconnect it.                                       *)
(***************************************************************************)
EXTENDS Naturals, FiniteSets

CONSTANTS
  Clients,   \* goroutines that read and write
  Owners,    \* goroutines that call Connect, Disconnect and Ping
  None       \* no goroutine, no pool, no call, no record

ASSUME ProcsAssumption == Clients \cap Owners = {}

Procs == Clients \cup Owners

ASSUME NoProcAssumption == None \notin Procs

VARIABLE pc  \* where each goroutine is

AllIdle == [g \in Procs |-> "idle"]

Goto(g, label) == pc' = [pc EXCEPT ![g] = label]
==============================================================================
