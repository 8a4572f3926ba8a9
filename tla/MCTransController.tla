------------------------- MODULE MCTransController -------------------------
(* Instances of TransController for TLC: the constants that are functions.  *)
EXTENDS TransController

CONSTANTS u1, u2, t0, t1, t2, t3, sA1, sA2, sB1, d1, d2

MCUsrID == [t \in Text |-> IF t = t3 THEN u2 ELSE u1]
OwnUsrID == [t \in Text |-> t]
MCTextID == [t \in Text |-> t]
OneTextID == [t \in Text |-> "id"]
MCTransSize == [t \in Text |-> IF t = t1 THEN 2 ELSE IF t = t0 THEN 0 ELSE 1]
MCSlaveUuid == [s \in Slave |-> IF s = sB1 THEN "B" ELSE "A"]
OneDomain == [s \in Slave |-> d1]
TwoDomains == [s \in Slave |-> IF s = sB1 THEN d2 ELSE d1]
MCConcurrentNum == [s \in Slave |-> 1]

Symmetry == Permutations(CallID) \cup Permutations({sA1, sA2})
=============================================================================
