---------------------------- MODULE SlaveRegistry ----------------------------
(***************************************************************************)
(* What TransCore promises about the life of a slave: it is registered     *)
(* from its first heartbeat on, and a timer event drops only those whose   *)
(* latest heartbeat is more than the timeout ago, and all of those unless  *)
(* the clock was ever set back.                                            *)
(***************************************************************************)
EXTENDS Integers

CONSTANTS Slave, Timeout, MaxTime, Never

VARIABLES now, set_back, last_pulse

clock == <<now, set_back>>

SRInit == now = 0 /\ set_back = FALSE /\ last_pulse = [s \in Slave |-> Never]

Clock ==
  /\ now' \in 0..MaxTime
  /\ set_back' = (set_back \/ now' < now)
  /\ UNCHANGED last_pulse

Pulse(s) == last_pulse' = [last_pulse EXCEPT ![s] = now] /\ UNCHANGED clock

Drop(s) == last_pulse' = [last_pulse EXCEPT ![s] = Never] /\ UNCHANGED clock

Overdue(s) == last_pulse[s] # Never /\ now - last_pulse[s] > Timeout

Expire ==
  \E gone \in SUBSET {s \in Slave : Overdue(s)} :
    /\ ~set_back => gone = {s \in Slave : Overdue(s)}
    /\ last_pulse' = [s \in Slave |-> IF s \in gone THEN Never ELSE last_pulse[s]]
    /\ UNCHANGED clock

SRNext == Clock \/ Expire \/ \E s \in Slave : Pulse(s) \/ Drop(s)

SRSpec == SRInit /\ [][SRNext]_<<clock, last_pulse>>
=============================================================================
