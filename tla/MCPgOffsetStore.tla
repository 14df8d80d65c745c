--------------------------- MODULE MCPgOffsetStore ---------------------------
\* A small instance of PgOffsetStore.
EXTENDS PgOffsetStore

\* Bounds: one value is written, and another one set by resets.
Bounds == \A c \in Clients : call[c] # None =>
  /\ call[c].op = "write" => call[c].value = 10
  /\ call[c].op = "reset" => call[c].value = 20
==============================================================================
