------------------------- MODULE MCConnectionPool -------------------------
(* Three connections, three nested handlers, a plain one and two rows:      *)
(* enough to stall the pool with nested handlers alone and through a row,   *)
(* and for a cycle of rows.  Liveness is checked, so no symmetry.           *)
EXTENDS ConnectionPool
===========================================================================
