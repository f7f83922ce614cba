------------------------------- MODULE MCBackup -------------------------------
(* Backup on small instances.  The batch b0 is stored at the start.         *)
EXTENDS Backup, TLC

CONSTANTS b0, b1, b2, i1

MCSeed == {b0}
MCBatchOf == [w \in Writer |-> IF w = i1 THEN b1 ELSE b2]

\* Backups differ in nothing.
MCSymmetry == Permutations(Backups)

===============================================================================
