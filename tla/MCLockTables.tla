----------------------------- MODULE MCLockTables -----------------------------
(* LockTables on small instances: the database d1 inherits the default       *)
(* interval, its source has backups turned off for d2, and d3 turns them off *)
(* for itself.                                                               *)
EXTENDS LockTables

CONSTANTS d1, d2, d3

MCSourceInterval == [d \in Databases |-> IF d = d2 THEN -1 ELSE 0]
MCBaseInterval   == [d \in Databases |-> IF d = d3 THEN -1 ELSE 0]

===============================================================================
