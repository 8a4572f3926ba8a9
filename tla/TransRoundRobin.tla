---------------------------- MODULE TransRoundRobin ----------------------------
(* TransController with a history variable: how many tasks each user was    *)
(* given since another user's UCB last had to wait with a ready cell.       *)
EXTENDS TransController

VARIABLE overtaken  \* [UCB that waits -> [UCB -> tasks it got meanwhile]]

Opened == {c \in CallID : trans_sess_map[c] = NoSession /\ trans_sess_map'[c] # NoSession}

\* The UCBs the step gave a task to (one or none).
Served == {trans_sess_map'[c].ucb : c \in Opened}

\* v is listed in a core with a ready cell before and after the step, and gets no task.
KeepsWaiting(v) ==
  /\ InList(v) /\ ready_blocks(v) # {}
  /\ (InList(v) /\ ready_blocks(v) # {})'
  /\ v \notin Served

\* v and u wait in the list of one core.
SameCore(u, v) == \E d \in Domain : {u, v} \subseteq ToSet(usr_list[d])

RRInit == Init /\ overtaken = [v \in Text |-> [u \in Text |-> 0]]

RRNext ==
  /\ Next
  /\ overtaken' = [v \in Text |-> [u \in Text |->
       IF ~KeepsWaiting(v) THEN 0
       ELSE overtaken[v][u] + (IF u \in Served /\ SameCore(u, v) THEN 1 ELSE 0)]]

RRSpec == RRInit /\ [][RRNext]_<<vars, overtaken>>

\* The rotation of m_usr_list is fair: while a user waits in a core with a ready cell,
\* no other user of that core is given two tasks.
NobodyIsOvertakenTwice == \A v, u \in Text : overtaken[v][u] <= 1
=============================================================================
