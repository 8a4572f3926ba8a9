----------------------------- MODULE TextService -----------------------------
(***************************************************************************)
(* What the dispatcher promises to whoever submits a text, whatever the    *)
(* slaves, the network and the controller's own lists do: a text is        *)
(* answered at most once, with a success only when every one of its cells  *)
(* has its translation; a cell is translated once, and only while the text *)
(* has not been answered.                                                  *)
(***************************************************************************)
EXTENDS Integers

CONSTANTS Text, TransSize

VARIABLES answer, is_trans

Cells(t) == 0 .. TransSize[t] - 1

TSInit ==
  /\ answer = [t \in Text |-> "NEW"]
  /\ is_trans = [t \in Text |-> {}]

\* The text is turned down, or accepted; one without cells needs no translation.
Submit(t) ==
  /\ answer[t] = "NEW"
  /\ \E res \in {"NO_ALIVE", "DOMAIN_NOT_FIND", "PENDING", "SUCCESS"} :
       /\ res = "PENDING" => Cells(t) # {}
       /\ res = "SUCCESS" => Cells(t) = {}
       /\ answer' = [answer EXCEPT ![t] = res]
  /\ UNCHANGED is_trans

\* One more cell is translated; the last one answers the text in the same step.
Translate(t) ==
  /\ answer[t] = "PENDING"
  /\ \E idx \in Cells(t) \ is_trans[t] :
       is_trans' = [is_trans EXCEPT ![t] = @ \cup {idx}]
  /\ answer' = IF is_trans'[t] = Cells(t)
               THEN [answer EXCEPT ![t] = "SUCCESS"] ELSE answer

Cancel(t) ==
  /\ answer[t] = "PENDING"
  /\ answer' = [answer EXCEPT ![t] = "USR_CANCEL"]
  /\ UNCHANGED is_trans

TSNext == \E t \in Text : Submit(t) \/ Translate(t) \/ Cancel(t)

TSSpec == TSInit /\ [][TSNext]_<<answer, is_trans>>
=============================================================================
