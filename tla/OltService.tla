----------------------------- MODULE OltService -----------------------------
(***************************************************************************)
(* What the offline service promises about a text and the row it has in    *)
(* the data base, whatever the stages between do: each time the text is    *)
(* taken in it ends once; it ends well when its result is stored and only  *)
(* then, and from then on nobody writes its row; nobody writes the row of  *)
(* a text that is not in work; SUSPEND is written for a text that is set   *)
(* aside, which goes on before it is stored or ends.                       *)
(***************************************************************************)
CONSTANT TextID

VARIABLES work, transstate

OSInit == work = [t \in TextID |-> "OUT"] /\ transstate = [t \in TextID |-> "NEW"]

TakeIn ==
  /\ \E ts \in SUBSET {t \in TextID : work[t] = "OUT"} :
       work' = [t \in TextID |-> IF t \in ts THEN "WORKING" ELSE work[t]]
  /\ UNCHANGED transstate

\* The row of t is written; the data base may fail to do so.
Row(t, s) == transstate' \in {transstate, [transstate EXCEPT ![t] = s]}

\* The text goes on, or is given up.
Report(t) ==
  /\ work[t] \in {"WORKING", "SUSPENDED"}
  /\ work' = [work EXCEPT ![t] = "WORKING"]
  /\ \E s \in {"RUNNING", "CANCEL"} : Row(t, s)

Suspend(t) ==
  /\ work[t] \in {"WORKING", "SUSPENDED"}
  /\ work' = [work EXCEPT ![t] = "SUSPENDED"]
  /\ Row(t, "SUSPEND")

Store(t) ==
  /\ work[t] = "WORKING"
  /\ work' = [work EXCEPT ![t] = "STORED"]
  /\ transstate' = [transstate EXCEPT ![t] = "FINISH"]

Success(t) ==
  /\ work[t] = "STORED"
  /\ work' = [work EXCEPT ![t] = "OUT"]
  /\ UNCHANGED transstate

Failure(t) ==
  /\ work[t] = "WORKING"
  /\ work' = [work EXCEPT ![t] = "OUT"]
  /\ \E s \in {"CANCEL", "NOMONEY"} : Row(t, s)

OSNext ==
  \/ TakeIn
  \/ \E t \in TextID : Report(t) \/ Suspend(t) \/ Store(t) \/ Success(t) \/ Failure(t)

OSSpec == OSInit /\ [][OSNext]_<<work, transstate>>
=============================================================================
