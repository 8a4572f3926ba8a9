---------------------------- MODULE ReplyService ----------------------------
(***************************************************************************)
(* What the server promises whoever connects to it, whatever the request   *)
(* goes through: a connection is read until the request is complete, then  *)
(* an answer is sent, once, and only then it is closed.  A peer that goes  *)
(* away or sends nonsense before that is closed without an answer.         *)
(***************************************************************************)
CONSTANT Sock

VARIABLE peer

RSInit == peer = [s \in Sock |-> "AWAY"]

\* What may become of a peer in one step.
After == [AWAY |-> {"CONNECTED"}, CONNECTED |-> {"ASKED", "DONE"}, ASKED |-> {"DONE"},
          DONE |-> {"AWAY"}]

RSNext == \E s \in Sock : \E p \in After[peer[s]] : peer' = [peer EXCEPT ![s] = p]

RSSpec == RSInit /\ [][RSNext]_peer
=============================================================================
