------------------------------- MODULE Mailbox -------------------------------
(***************************************************************************)
(* What an EventEngine promises to those who post to it, however many      *)
(* workers it has and whichever of them sleep: an event is given to        *)
(* on_event once; a NORMAL event waits for the HIGH ones and for the       *)
(* NORMAL ones posted before it; among HIGH events the latest comes first. *)
(***************************************************************************)
EXTENDS Sequences

CONSTANTS Event, HighPriority

VARIABLES high, normal, posted

MBInit == high = <<>> /\ normal = <<>> /\ posted = {}

Post(e) ==
  /\ e \notin posted
  /\ posted' = posted \cup {e}
  /\ \/ e \in HighPriority /\ high' = <<e>> \o high /\ normal' = normal
     \/ e \notin HighPriority /\ normal' = Append(normal, e) /\ high' = high

Take ==
  /\ UNCHANGED posted
  /\ \/ high # <<>> /\ high' = Tail(high) /\ normal' = normal
     \/ high = <<>> /\ normal # <<>> /\ normal' = Tail(normal) /\ high' = high

MBNext == Take \/ \E e \in Event : Post(e)

MBSpec == MBInit /\ [][MBNext]_<<high, normal, posted>>
=============================================================================
