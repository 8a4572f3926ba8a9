-------------------------- MODULE MCOltTaskManager --------------------------
(***************************************************************************)
(* Instances of OltTaskManager for TLC: two clients that submit two texts, *)
(* alone or together, over and over.                                       *)
(***************************************************************************)
EXTENDS OltTaskManager

CONSTANTS t1, t2

MCRequests == {<<t1>>, <<t2>>, <<t1, t2>>}
=============================================================================
