----------------------------- MODULE MCIndexStore -----------------------------
(* IndexStore on small instances: values for the constants a cfg cannot     *)
(* write.  The batches are b0 (stored at the start), b1 and b2; the insert  *)
(* i2 repeats the ids of the insert i1.                                     *)
EXTENDS IndexStore

CONSTANTS b0, b1, b2, i1, i2, e1

MCSeed == {b0}
MCBatchOf == [w \in Writer |-> IF w = e1 THEN b2 ELSE b1]

===============================================================================
