------------------------------ MODULE TimeQueue ------------------------------
(***************************************************************************)
(* TimeQueue, the doubly linked list of time stamps with a map beside it,  *)
(* as TransCore uses it to drop the slaves whose heartbeats stay away.     *)
(*                                                                         *)
(* A node is named by its key: m_time_map holds at most one of a key, and  *)
(* Remove frees it.  The queue is one record, so that a handler's calls    *)
(* compose.  One worker thread makes all the calls.                        *)
(***************************************************************************)
EXTENDS Integers, FiniteSets, SequencesExt

CONSTANTS
  Slave,        \* the uuids of the slaves, the keys of the queue
  mp_time_head, mp_time_tail,   \* the two sentinels
  Null,
  Timeout,      \* m_timeout_s
  MaxTime       \* bound: the clock does not go further

ASSUME TimeAssumption == Timeout \in Nat /\ MaxTime \in Nat /\ Null \notin 0..MaxTime

\* The sentinels and Null differ from each other and from every node.
ASSUME NodeAssumption ==
  /\ IsFiniteSet(Slave)
  /\ mp_time_head # mp_time_tail /\ mp_time_head # Null /\ mp_time_tail # Null
  /\ {mp_time_head, mp_time_tail, Null} \cap Slave = {}

VARIABLES
  now,                   \* the wall clock, as time() reads it
  set_back,              \* it was set back at some time (no part of the program)
  last_heartbeat,        \* [Slave -> when it last sent one] (no part of the program)
  m_slave_map,           \* the keys of TransCore's map
  m_slave_timeout_que

vars == <<now, set_back, last_heartbeat, m_slave_map, m_slave_timeout_que>>

EmptyQueue ==
  [m_time_map  |-> {},
   _next       |-> [n \in Slave \cup {mp_time_head} |-> IF n = mp_time_head THEN mp_time_tail ELSE Null],
   _pre        |-> [n \in Slave \cup {mp_time_tail} |-> IF n = mp_time_tail THEN mp_time_head ELSE Null],
   _in_list    |-> [s \in Slave |-> FALSE],
   _time_stamp |-> [s \in Slave |-> 0]]

\* n goes between pre and next.
Link(q, n, pre, next) ==
  [q EXCEPT !._next = [@ EXCEPT ![pre] = n, ![n] = next],
            !._pre  = [@ EXCEPT ![next] = n, ![n] = pre]]

\* Faulty form of Unlink: the node behind still points back to n.
UnlinkForward(q, n) == [q EXCEPT !._next[q._pre[n]] = q._next[n]]

Unlink(q, n) ==
  [q EXCEPT !._next[q._pre[n]] = q._next[n],
            !._pre[q._next[n]] = q._pre[n]]

\* delete node: what a new node of this key will find there.
Free(q, n) ==
  [q EXCEPT !._next[n] = Null, !._pre[n] = Null, !._in_list[n] = FALSE, !._time_stamp[n] = 0]

AppendNode(q, s) ==
  IF s \in q.m_time_map
    THEN q
    ELSE [Link(q, s, q._pre[mp_time_tail], mp_time_tail) EXCEPT
            !.m_time_map = @ \cup {s}, !._in_list[s] = TRUE, !._time_stamp[s] = now]

RemoveNode(q, s) ==
  IF s \notin q.m_time_map
    THEN q
    ELSE Free([(IF q._in_list[s] THEN Unlink(q, s) ELSE q) EXCEPT !.m_time_map = @ \ {s}], s)

\* The first node from s on with a later time stamp than its own, or the tail.
back_node(q, s) ==
  LET walk[n \in q.m_time_map \cup {mp_time_tail}] ==
        IF n = mp_time_tail \/ q._time_stamp[s] < q._time_stamp[n] THEN n ELSE walk[q._next[n]]
  IN walk[s]

\* Faulty form of reorder_with_time: the neighbours are swapped.
ReorderSwapped(q, s) ==
  LET back == back_node(q, s)
      out  == Unlink(q, s)
  IN IF q._next[s] = Null \/ back = s THEN q ELSE Link(out, s, back, out._pre[back])

reorder_with_time(q, s) ==
  LET back == back_node(q, s)
      out  == Unlink(q, s)
  IN IF q._next[s] = Null \/ back = s THEN q ELSE Link(out, s, out._pre[back], back)

\* Faulty form of Refresh: the node keeps its old place.
RefreshInPlace(q, s) == [q EXCEPT !._time_stamp[s] = now]

Refresh(q, s) ==
  IF s \notin q.m_time_map
    THEN q
    ELSE reorder_with_time([q EXCEPT !._time_stamp[s] = now], s)

\* The nodes Check finds: from the front up to the first that is not overdue.
timeout_nodes(q) ==
  LET walk[n \in q.m_time_map \cup {mp_time_tail}] ==
        IF n = mp_time_tail THEN <<>>
        ELSE IF now - q._time_stamp[n] > Timeout THEN <<n>> \o walk[q._next[n]]
        ELSE <<>>
  IN walk[q._next[mp_time_head]]

\* The found nodes are cut off the list and stay in m_time_map.
Check(q) ==
  LET found == timeout_nodes(q)
      beg   == found[1]
      end   == found[Len(found)]
      rest  == q._next[end]
  IN IF found = <<>>
       THEN q
       ELSE [q EXCEPT !._next = [@ EXCEPT ![mp_time_head] = rest, ![end] = Null],
                      !._pre  = [@ EXCEPT ![rest] = mp_time_head, ![beg] = Null],
                      !._in_list = [s \in Slave |-> @[s] /\ s \notin ToSet(found)]]

RemoveEach(q, timeout_vec) ==
  LET after[i \in 0..Len(timeout_vec)] ==
        IF i = 0 THEN q ELSE RemoveNode(after[i - 1], timeout_vec[i])
  IN after[Len(timeout_vec)]

-----------------------------------------------------------------------------
\* Faulty form of PluseSlave: only the first heartbeat is noticed.
PulseOnce(s) ==
  /\ m_slave_timeout_que' = AppendNode(m_slave_timeout_que, s)
  /\ m_slave_map' = m_slave_map \cup {s}

PluseSlave(s) ==
  /\ m_slave_timeout_que' =
       Refresh(IF s \in m_slave_map THEN m_slave_timeout_que ELSE AppendNode(m_slave_timeout_que, s), s)
  /\ m_slave_map' = m_slave_map \cup {s}

\* delete_slave by a failed session; its slave may be one that was dropped long ago.
delete_slave(s) ==
  /\ m_slave_timeout_que' = RemoveNode(m_slave_timeout_que, s)
  /\ m_slave_map' = m_slave_map \ {s}
  /\ UNCHANGED <<now, set_back, last_heartbeat>>

\* Faulty form of CheckSlaveTimeout: the found slaves are dropped, their nodes are not.
CheckOnly ==
  /\ m_slave_timeout_que' = Check(m_slave_timeout_que)
  /\ m_slave_map' = m_slave_map \ ToSet(timeout_nodes(m_slave_timeout_que))

CheckSlaveTimeout ==
  LET timeout_vec == timeout_nodes(m_slave_timeout_que)
  IN /\ m_slave_timeout_que' = RemoveEach(Check(m_slave_timeout_que), timeout_vec)
     /\ m_slave_map' = m_slave_map \ ToSet(timeout_vec)

Heartbeat(s) ==
  /\ PluseSlave(s)
  /\ last_heartbeat' = [last_heartbeat EXCEPT ![s] = now]
  /\ UNCHANGED <<now, set_back>>

OnTimer == CheckSlaveTimeout /\ UNCHANGED <<now, set_back, last_heartbeat>>

\* time() is wall clock time: it goes on, or an administrator sets it back.
Clock ==
  /\ \/ now < MaxTime /\ now' = now + 1 /\ UNCHANGED set_back
     \/ now' \in 0..now - 1 /\ set_back' = TRUE
  /\ UNCHANGED <<last_heartbeat, m_slave_map, m_slave_timeout_que>>

Init ==
  /\ now = 0 /\ set_back = FALSE
  /\ last_heartbeat = [s \in Slave |-> 0]
  /\ m_slave_map = {} /\ m_slave_timeout_que = EmptyQueue

Next == Clock \/ OnTimer \/ \E s \in Slave : Heartbeat(s) \/ delete_slave(s)

Spec == Init /\ [][Next]_vars

-----------------------------------------------------------------------------
(* Properties. *)

\* Every variable has its type.
TypeOK ==
  /\ now \in 0..MaxTime /\ set_back \in BOOLEAN
  /\ last_heartbeat \in [Slave -> 0..MaxTime]
  /\ m_slave_map \subseteq Slave
  /\ m_slave_timeout_que \in
       [m_time_map  : SUBSET Slave,
        _next       : [Slave \cup {mp_time_head} -> Slave \cup {mp_time_tail, Null}],
        _pre        : [Slave \cup {mp_time_tail} -> Slave \cup {mp_time_head, Null}],
        _in_list    : [Slave -> BOOLEAN],
        _time_stamp : [Slave -> 0..MaxTime]]

\* The nodes after the head, as many as there can be; Null stands for what lies behind the tail.
nodes_after_head(q) ==
  LET node[i \in 0..Cardinality(Slave) + 1] ==
        IF i = 0 THEN mp_time_head
        ELSE IF node[i - 1] \in DOMAIN q._next THEN q._next[node[i - 1]] ELSE Null
  IN node

\* Following _next from the head one meets every node of m_time_map once and then the
\* tail, and _pre leads back the same way: nothing is leaked, freed twice or dangling,
\* and the nodes Check returned do not stay behind in the map.
ListMatchesMap ==
  LET q    == m_slave_timeout_que
      node == nodes_after_head(q)
      size == Cardinality(q.m_time_map)
  IN /\ {node[i] : i \in 1..size} = q.m_time_map
     /\ node[size + 1] = mp_time_tail
     /\ \A i \in 1..size + 1 : q._pre[node[i]] = node[i - 1]
     /\ \A s \in Slave : q._in_list[s] <=> s \in q.m_time_map

\* A slave can be given cells exactly as long as it can time out.
MapsAgree == m_slave_map = m_slave_timeout_que.m_time_map

\* What Check relies on when it stops at the first node that is not overdue: no node
\* behind it is.  That needs a clock that was never set back.
NobodyBehindIsOverdue ==
  LET q          == m_slave_timeout_que
      node       == nodes_after_head(q)
      Overdue(s) == now - q._time_stamp[s] > Timeout
  IN ~set_back =>
       \A i, j \in DOMAIN node : i < j /\ {node[i], node[j]} \subseteq Slave /\ Overdue(node[j])
                                   => Overdue(node[i])

\* A timer event drops only slaves whose heartbeats stayed away too long, and all of them
\* as long as the clock was not set back.
Registry == INSTANCE SlaveRegistry WITH
  Never <- Null,
  last_pulse <- [s \in Slave |-> IF s \in m_slave_map THEN last_heartbeat[s] ELSE Null]

ImplementsRegistry == Registry!SRSpec
=============================================================================
