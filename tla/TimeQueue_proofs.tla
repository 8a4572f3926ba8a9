-------------------------- MODULE TimeQueue_proofs --------------------------
(***************************************************************************)
(* For any slaves, timeout and bound of the clock: the pointers of the     *)
(* queue form one list that matches the maps, the list is ordered by time  *)
(* stamp unless the clock was set back, and SlaveRegistry is implemented.  *)
(*                                                                         *)
(* The list is given by a function node, from 0, the head, to n + 1, the   *)
(* tail; each operation is shown to turn one such function into another.   *)
(* The recursive functions of the module (the walks of back_node and       *)
(* timeout_nodes, the loop of CheckSlaveTimeout, nodes_after_head) are     *)
(* shown to exist and then evaluated along the list.                       *)
(***************************************************************************)
EXTENDS TimeQueue, FiniteSetTheorems, WellFoundedInduction, NaturalsInduction, TLAPS

-----------------------------------------------------------------------------
(* Numbers: the first of a set, and what is so of each because it is so of   *)
(* its neighbour.                                                            *)

\* A set of numbers has a least one.
LEMMA FirstNumber ==
  ASSUME NEW S \in SUBSET Nat, S # {}
  PROVE  \E m \in S : \A n \in S : m <= n
<1>1. PICK m \in S : \A n \in S : <<n, m>> \notin OpToRel(<, Nat)
  BY WFMin, NatLessThanWellFounded, Zenon
<1>2. \A n \in S : ~(n < m)
  BY <1>1 DEF OpToRel
<1>3. \A n \in S : n \in Nat /\ m \in Nat
  OBVIOUS
<1> QED BY <1>2, <1>3

\* What is so at a, and next to where it is so, is so up to b.
LEMMA Upward ==
  ASSUME NEW a \in Nat, NEW b \in Nat, NEW S, a \in S,
         \A i \in a..b : i # b /\ i \in S => i + 1 \in S
  PROVE  \A i \in a..b : i \in S
<1> DEFINE Bad == {i \in a..b : i \notin S}
<1>1. SUFFICES ASSUME Bad # {} PROVE FALSE
  OBVIOUS
<1>2. PICK m \in Bad : \A i \in Bad : m <= i
  <2>1. Bad \subseteq Nat
    OBVIOUS
  <2> QED BY <1>1, <2>1, FirstNumber
<1>3. m # a /\ m - 1 \in a..b /\ m - 1 # b /\ m - 1 \notin Bad
  BY <1>2
<1>4. m - 1 \in S
  BY <1>3
<1>5. m - 1 + 1 = m
  BY <1>2
<1> QED BY <1>2, <1>3, <1>4, <1>5

\* The same from b down to a.
LEMMA Downward ==
  ASSUME NEW a \in Nat, NEW b \in Nat, NEW S, b \in S,
         \A i \in a..b : i # b /\ i + 1 \in S => i \in S
  PROVE  \A i \in a..b : i \in S
<1> DEFINE T == {k \in 0..b - a : b - k \in S}
<1>1. SUFFICES ASSUME NEW i \in a..b PROVE i \in S
  OBVIOUS
<1>2. b - a \in Nat /\ 0 \in T
  OBVIOUS
<1>3. ASSUME NEW k \in 0..b - a, k # b - a, k \in T PROVE k + 1 \in T
  <2>1. b - (k + 1) \in a..b /\ b - (k + 1) # b /\ b - (k + 1) + 1 = b - k
    BY <1>3
  <2>2. b - (k + 1) \in S
    BY <1>3, <2>1
  <2> QED BY <1>3, <2>2
<1> HIDE DEF T
<1>4. \A k \in 0..b - a : k \in T
  BY <1>2, <1>3, Upward
<1>5. b - i \in T
  BY <1>4
<1>6. b - (b - i) = i
  OBVIOUS
<1> QED BY <1>5, <1>6 DEF T

-----------------------------------------------------------------------------
(* Lists: from the head to the tail over n nodes, and back.                  *)

QueueTyped(q) ==
  q \in [m_time_map  : SUBSET Slave,
         _next       : [Slave \cup {mp_time_head} -> Slave \cup {mp_time_tail, Null}],
         _pre        : [Slave \cup {mp_time_tail} -> Slave \cup {mp_time_head, Null}],
         _in_list    : [Slave -> BOOLEAN],
         _time_stamp : [Slave -> 0..MaxTime]]

Chain(q, n, node) ==
  /\ n \in Nat /\ node \in [0..n + 1 -> Slave \cup {mp_time_head, mp_time_tail}]
  /\ node[0] = mp_time_head /\ node[n + 1] = mp_time_tail
  /\ \A i \in 1..n : node[i] \in Slave
  /\ \A i, j \in 1..n : node[i] = node[j] => i = j
  /\ \A i \in 0..n : q._next[node[i]] = node[i + 1]
  /\ \A i \in 1..n + 1 : q._pre[node[i]] = node[i - 1]

Members(n, node) == {node[i] : i \in 1..n}

LEMMA Nodes ==
  /\ mp_time_head \notin Slave /\ mp_time_tail \notin Slave /\ Null \notin Slave
  /\ mp_time_head # mp_time_tail /\ mp_time_head # Null /\ mp_time_tail # Null
BY NodeAssumption DEF NodeAssumption

\* No node is twice in a list, the sentinels included.
LEMMA NodesDiffer ==
  ASSUME NEW q, NEW n, NEW node, Chain(q, n, node), NEW i \in 0..n + 1, NEW j \in 0..n + 1,
         node[i] = node[j]
  PROVE  i = j
<1>1. i \in 1..n \/ i = 0 \/ i = n + 1
  BY DEF Chain
<1>2. j \in 1..n \/ j = 0 \/ j = n + 1
  BY DEF Chain
<1>3. \A k \in 1..n : node[k] # mp_time_head /\ node[k] # mp_time_tail
  BY Nodes DEF Chain
<1>4. node[0] = mp_time_head /\ node[n + 1] = mp_time_tail /\ mp_time_head # mp_time_tail
  BY Nodes DEF Chain
<1>5. CASE i \in 1..n
  <2>1. j \in 1..n
    BY <1>2, <1>3, <1>4, <1>5
  <2> QED BY <1>5, <2>1 DEF Chain
<1>6. CASE i = 0
  BY <1>2, <1>3, <1>4, <1>6
<1>7. CASE i = n + 1
  BY <1>2, <1>3, <1>4, <1>7
<1> QED BY <1>1, <1>5, <1>6, <1>7

\* The list without its p-th node, and with s before its b-th.
Without(n, node, p) == [i \in 0..n |-> IF i < p THEN node[i] ELSE node[i + 1]]
With(n, node, b, s) ==
  [i \in 0..n + 2 |-> IF i < b THEN node[i] ELSE IF i = b THEN s ELSE node[i - 1]]

\* A record of the type that differs in the two pointers only.
SameBut(q, r) ==
  /\ r.m_time_map = q.m_time_map /\ r._in_list = q._in_list /\ r._time_stamp = q._time_stamp

\* Unlink takes the p-th node out of the list.
LEMMA Unlinking ==
  ASSUME NEW q, QueueTyped(q), NEW n, NEW node, Chain(q, n, node), NEW p \in 1..n,
         NEW r, r = Unlink(q, node[p])
  PROVE  QueueTyped(r) /\ SameBut(q, r) /\ Chain(r, n - 1, Without(n, node, p))
<1>1. /\ n \in Nat /\ p \in Nat /\ node[p] \in Slave
      /\ q._pre[node[p]] = node[p - 1] /\ q._next[node[p]] = node[p + 1]
      /\ node[p - 1] \in Slave \cup {mp_time_head} /\ node[p + 1] \in Slave \cup {mp_time_tail}
  <2>1. n \in Nat /\ p \in Nat /\ p \in 0..n /\ p \in 1..n + 1
    BY DEF Chain
  <2>2. p - 1 = 0 \/ p - 1 \in 1..n
    BY <2>1
  <2>3. p + 1 = n + 1 \/ p + 1 \in 1..n
    BY <2>1
  <2> QED BY <2>1, <2>2, <2>3 DEF Chain
<1>2. PICK x : x = node[p - 1]
  OBVIOUS
<1>3. PICK y : y = node[p + 1]
  OBVIOUS
<1>4. r = [q EXCEPT !._next[x] = y, !._pre[y] = x]
  BY <1>1, <1>2, <1>3 DEF Unlink
<1>5. /\ r._next = [q._next EXCEPT ![x] = y] /\ r._pre = [q._pre EXCEPT ![y] = x]
      /\ SameBut(q, r)
  BY <1>4 DEF QueueTyped, SameBut
<1>6. QueueTyped(r)
  <2>1. q._next \in [Slave \cup {mp_time_head} -> Slave \cup {mp_time_tail, Null}]
    BY DEF QueueTyped
  <2>2. q._pre \in [Slave \cup {mp_time_tail} -> Slave \cup {mp_time_head, Null}]
    BY DEF QueueTyped
  <2>3. [q._next EXCEPT ![x] = y] \in [Slave \cup {mp_time_head} -> Slave \cup {mp_time_tail, Null}]
    BY <1>1, <1>3, <2>1
  <2>4. [q._pre EXCEPT ![y] = x] \in [Slave \cup {mp_time_tail} -> Slave \cup {mp_time_head, Null}]
    BY <1>1, <1>2, <2>2
  <2>5. r = [q EXCEPT !._next = [q._next EXCEPT ![x] = y], !._pre = [q._pre EXCEPT ![y] = x]]
    BY <1>4
  <2>6. PICK f : f = [q._next EXCEPT ![x] = y]
    OBVIOUS
  <2>7. PICK g : g = [q._pre EXCEPT ![y] = x]
    OBVIOUS
  <2>8. r = [q EXCEPT !._next = f, !._pre = g]
    BY <2>5, <2>6, <2>7
  <2> QED BY <2>3, <2>4, <2>6, <2>7, <2>8 DEF QueueTyped
<1>7. PICK m : m = Without(n, node, p)
  OBVIOUS
<1>8. /\ m \in [0..n -> Slave \cup {mp_time_head, mp_time_tail}]
      /\ \A i \in 0..n : i < p => m[i] = node[i]
      /\ \A i \in 0..n : ~(i < p) => m[i] = node[i + 1]
  <2>1. \A i \in 0..n : i \in 0..n + 1 /\ i + 1 \in 0..n + 1
    BY <1>1
  <2> QED BY <1>7, <2>1 DEF Without, Chain
<1>9. /\ m[0] = mp_time_head /\ m[n] = mp_time_tail /\ \A i \in 1..n - 1 : m[i] \in Slave
  <2>1. node[0] = mp_time_head /\ node[n + 1] = mp_time_tail /\ \A i \in 1..n : node[i] \in Slave
    BY DEF Chain
  <2>2. 0 \in 0..n /\ 0 < p /\ n \in 0..n /\ ~(n < p)
    BY <1>1
  <2>3. ASSUME NEW i \in 1..n - 1 PROVE m[i] \in Slave
    <3>1. i \in 0..n /\ i \in 1..n /\ i + 1 \in 1..n
      BY <1>1
    <3> QED BY <1>8, <2>1, <3>1
  <2> QED BY <1>8, <2>1, <2>2, <2>3
<1>10. \A i, j \in 1..n - 1 : m[i] = m[j] => i = j
  <2> SUFFICES ASSUME NEW i \in 1..n - 1, NEW j \in 1..n - 1, m[i] = m[j] PROVE i = j
    OBVIOUS
  <2>1. PICK k \in 1..n : m[i] = node[k] /\ k = IF i < p THEN i ELSE i + 1
    <3>1. i \in 0..n /\ i \in 1..n /\ i + 1 \in 1..n
      BY <1>1
    <3> QED BY <1>8, <3>1
  <2>2. PICK l \in 1..n : m[j] = node[l] /\ l = IF j < p THEN j ELSE j + 1
    <3>1. j \in 0..n /\ j \in 1..n /\ j + 1 \in 1..n
      BY <1>1
    <3> QED BY <1>8, <3>1
  <2>3. k = l
    <3>1. node[k] = node[l]
      BY <2>1, <2>2
    <3> QED BY <3>1 DEF Chain
  <2> QED BY <1>1, <2>1, <2>2, <2>3
<1>11. ASSUME NEW i \in 0..n - 1 PROVE r._next[m[i]] = m[i + 1]
  <2>1. CASE i = p - 1
    BY <1>1, <1>2, <1>3, <1>5, <1>8, <2>1 DEF QueueTyped
  <2>2. CASE i # p - 1
    <3>1. PICK k \in 0..n : m[i] = node[k] /\ m[i + 1] = node[k + 1] /\ k # p - 1
      <4>1. CASE i < p - 1
        <5>1. i \in 0..n /\ i + 1 \in 0..n /\ i < p /\ i + 1 < p
          BY <1>1, <4>1
        <5>2. m[i] = node[i] /\ m[i + 1] = node[i + 1]
          BY <1>8, <5>1
        <5> QED BY <2>2, <5>1, <5>2
      <4>2. CASE ~(i < p - 1)
        <5>1. i \in 0..n /\ i + 1 \in 0..n /\ ~(i < p) /\ ~(i + 1 < p) /\ i + 1 # p - 1
          BY <1>1, <2>2, <4>2
        <5>2. m[i] = node[i + 1] /\ m[i + 1] = node[i + 1 + 1]
          BY <1>8, <5>1
        <5> QED BY <5>1, <5>2
      <4> QED BY <4>1, <4>2
    <3>2. k \in 0..n + 1 /\ p - 1 \in 0..n + 1
      BY <1>1
    <3>3. node[k] # x
      BY <1>2, <3>1, <3>2, NodesDiffer
    <3>4. q._next[node[k]] = node[k + 1] /\ node[k] \in DOMAIN q._next
      <4>1. k = 0 \/ k \in 1..n
        BY <1>1
      <4> QED BY <4>1 DEF Chain, QueueTyped
    <3> QED BY <1>5, <3>1, <3>3, <3>4
  <2> QED BY <2>1, <2>2
<1>12. ASSUME NEW i \in 1..n PROVE r._pre[m[i]] = m[i - 1]
  <2>1. CASE i = p
    <3>1. m[i] = y /\ m[i - 1] = x
      BY <1>1, <1>2, <1>3, <1>8, <2>1
    <3> QED BY <1>1, <1>3, <1>5, <3>1 DEF QueueTyped
  <2>2. CASE i # p
    <3>1. PICK k \in 1..n + 1 : m[i] = node[k] /\ m[i - 1] = node[k - 1] /\ k # p + 1
      <4>1. CASE i < p
        <5>1. i \in 0..n /\ i \in 1..n + 1 /\ i - 1 \in 0..n /\ i - 1 < p /\ i # p + 1
          BY <1>1, <4>1
        <5>2. m[i] = node[i] /\ m[i - 1] = node[i - 1]
          BY <1>8, <4>1, <5>1
        <5> QED BY <5>1, <5>2
      <4>2. CASE ~(i < p)
        <5>1. i + 1 \in 1..n + 1 /\ ~(i < p) /\ ~(i - 1 < p) /\ i + 1 # p + 1 /\ i - 1 \in 0..n
              /\ i - 1 + 1 = i /\ i + 1 - 1 = i /\ i \in 0..n
          BY <1>1, <2>2, <4>2
        <5>2. m[i] = node[i + 1] /\ m[i - 1] = node[i]
          BY <1>8, <5>1
        <5> QED BY <5>1, <5>2
      <4> QED BY <4>1, <4>2
    <3>2. k \in 0..n + 1 /\ p + 1 \in 0..n + 1
      BY <1>1
    <3>3. node[k] # y
      BY <1>3, <3>1, <3>2, NodesDiffer
    <3>4. q._pre[node[k]] = node[k - 1] /\ node[k] \in DOMAIN q._pre
      <4>1. k = n + 1 \/ k \in 1..n
        BY <1>1
      <4> QED BY <4>1 DEF Chain, QueueTyped
    <3> QED BY <1>5, <3>1, <3>3, <3>4
  <2> QED BY <2>1, <2>2
<1>13. Chain(r, n - 1, m)
  <2>1. n - 1 \in Nat /\ n - 1 + 1 = n
    BY <1>1
  <2> QED BY <1>8, <1>9, <1>10, <1>11, <1>12, <2>1 DEF Chain
<1> QED BY <1>5, <1>6, <1>7, <1>13

\* Link puts s before the b-th node.
LEMMA Linking ==
  ASSUME NEW q, QueueTyped(q), NEW n, NEW node, Chain(q, n, node), NEW b \in 1..n + 1,
         NEW s \in Slave \ Members(n, node), NEW r, r = Link(q, s, node[b - 1], node[b])
  PROVE  QueueTyped(r) /\ SameBut(q, r) /\ Chain(r, n + 1, With(n, node, b, s))
<1>1. /\ n \in Nat /\ b \in Nat
      /\ node[b - 1] \in Slave \cup {mp_time_head} /\ node[b] \in Slave \cup {mp_time_tail}
      /\ \A i \in 0..n + 1 : node[i] # s
  <2>1. n \in Nat /\ b \in Nat /\ \A i \in 1..n : node[i] # s
    BY DEF Chain, Members
  <2>2. \A i \in 0..n + 1 : i = 0 \/ i = n + 1 \/ i \in 1..n
    BY <2>1
  <2>3. (b - 1 = 0 \/ b - 1 \in 1..n) /\ (b = n + 1 \/ b \in 1..n)
    BY <2>1
  <2> QED BY <2>1, <2>2, <2>3, Nodes DEF Chain
<1>2. PICK x : x = node[b - 1]
  OBVIOUS
<1>3. PICK y : y = node[b]
  OBVIOUS
<1>4. PICK f : f = [q._next EXCEPT ![x] = s, ![s] = y]
  OBVIOUS
<1>5. PICK g : g = [q._pre EXCEPT ![y] = s, ![s] = x]
  OBVIOUS
<1>6. r = [q EXCEPT !._next = f, !._pre = g]
  BY <1>2, <1>3, <1>4, <1>5 DEF Link
<1>7. /\ q._next \in [Slave \cup {mp_time_head} -> Slave \cup {mp_time_tail, Null}]
      /\ q._pre \in [Slave \cup {mp_time_tail} -> Slave \cup {mp_time_head, Null}]
  BY DEF QueueTyped
<1>8. /\ f \in [Slave \cup {mp_time_head} -> Slave \cup {mp_time_tail, Null}]
      /\ g \in [Slave \cup {mp_time_tail} -> Slave \cup {mp_time_head, Null}]
  BY <1>1, <1>2, <1>3, <1>4, <1>5, <1>7
<1>9. r._next = f /\ r._pre = g /\ SameBut(q, r)
  BY <1>6 DEF QueueTyped, SameBut
<1>10. QueueTyped(r)
  BY <1>6, <1>8 DEF QueueTyped
<1>11. PICK m : m = With(n, node, b, s)
  OBVIOUS
<1>12. /\ m \in [0..n + 2 -> Slave \cup {mp_time_head, mp_time_tail}]
       /\ \A i \in 0..n + 2 : i < b => m[i] = node[i]
       /\ m[b] = s
       /\ \A i \in 0..n + 2 : i > b => m[i] = node[i - 1]
  <2>1. \A i \in 0..n + 2 : /\ i < b => i \in 0..n + 1 
                            /\ i > b => i - 1 \in 0..n + 1
                            /\ ~(i < b) /\ ~(i = b) => i > b
                            /\ i > b => ~(i < b) /\ ~(i = b)
    BY <1>1
  <2>2. b \in 0..n + 2 /\ ~(b < b)
    BY <1>1
  <2>3. \A i \in 0..n + 1 : node[i] \in Slave \cup {mp_time_head, mp_time_tail}
    BY DEF Chain
  <2> QED BY <1>11, <2>1, <2>2, <2>3 DEF With
\* Which node of the old list the i-th of the new one is.
<1>13. /\ m[0] = mp_time_head /\ m[n + 2] = mp_time_tail
       /\ \A i \in 1..n + 1 : m[i] \in Slave
  <2>1. node[0] = mp_time_head /\ node[n + 1] = mp_time_tail /\ \A i \in 1..n : node[i] \in Slave
    BY DEF Chain
  <2>2. 0 \in 0..n + 2 /\ 0 < b /\ n + 2 \in 0..n + 2 /\ n + 2 > b /\ n + 2 - 1 = n + 1
    BY <1>1
  <2>3. ASSUME NEW i \in 1..n + 1 PROVE m[i] \in Slave
    <3>1. i \in 0..n + 2 /\ (i < b => i \in 1..n) /\ (i > b => i - 1 \in 1..n) /\ (i < b \/ i = b \/ i > b)
      BY <1>1
    <3> QED BY <1>12, <2>1, <3>1
  <2>4. m[0] = node[0]
    BY <1>12, <2>2
  <2>5. m[n + 2] = node[n + 1]
    <3>1. PICK k \in 0..n + 2 : k = n + 2 /\ k > b /\ k - 1 = n + 1
      BY <1>1, <2>2
    <3>2. m[k] = node[k - 1]
      BY <1>12, <3>1
    <3> QED BY <3>1, <3>2
  <2> QED BY <2>1, <2>2, <2>3, <2>4, <2>5
<1>14. \A i, j \in 1..n + 1 : m[i] = m[j] => i = j
  <2> SUFFICES ASSUME NEW i \in 1..n + 1, NEW j \in 1..n + 1, m[i] = m[j] PROVE i = j
    OBVIOUS
  <2>1. /\ i = b \/ (i < b /\ i \in 0..n + 2 /\ i \in 1..n) \/ (i > b /\ i \in 0..n + 2 /\ i - 1 \in 1..n)
        /\ j = b \/ (j < b /\ j \in 0..n + 2 /\ j \in 1..n) \/ (j > b /\ j \in 0..n + 2 /\ j - 1 \in 1..n)
    BY <1>1
  <2>2. \A k \in 1..n : node[k] # s
    BY <1>1
  <2>3. \A k, l \in 1..n : node[k] = node[l] => k = l
    BY DEF Chain
  <2>4. CASE i = b
    BY <1>12, <2>1, <2>2, <2>4
  <2>5. CASE j = b
    BY <1>12, <2>1, <2>2, <2>5
  <2>6. CASE i < b /\ j < b
    BY <1>1, <1>12, <2>1, <2>3, <2>6
  <2>7. CASE i < b /\ j > b
    <3>1. node[i] = node[j - 1] /\ i \in 1..n /\ j - 1 \in 1..n
      BY <1>1, <1>12, <2>1, <2>7
    <3> QED BY <1>1, <2>3, <2>7, <3>1
  <2>8. CASE i > b /\ j < b
    <3>1. node[i - 1] = node[j] /\ i - 1 \in 1..n /\ j \in 1..n
      BY <1>1, <1>12, <2>1, <2>8
    <3>2. i - 1 = j
      BY <2>3, <3>1
    <3> QED BY <1>1, <2>8, <3>2
  <2>9. CASE i > b /\ j > b
    <3>1. node[i - 1] = node[j - 1] /\ i - 1 \in 1..n /\ j - 1 \in 1..n
      BY <1>1, <1>12, <2>1, <2>9
    <3>2. i - 1 = j - 1
      BY <2>3, <3>1
    <3> QED BY <1>1, <3>2
  <2> QED BY <1>1, <2>1, <2>4, <2>5, <2>6, <2>7, <2>8, <2>9
<1>15. x # s /\ y # s /\ b - 1 \in 0..n + 1 /\ b \in 0..n + 1
  BY <1>1, <1>2, <1>3
<1>16. ASSUME NEW i \in 0..n + 1 PROVE r._next[m[i]] = m[i + 1]
  <2>1. i \in 0..n + 2 /\ i + 1 \in 0..n + 2
    BY <1>1
  <2>2. CASE i = b - 1
    <3>1. m[i] = x /\ m[i + 1] = s
      BY <1>1, <1>2, <1>12, <2>1, <2>2
    <3> QED BY <1>1, <1>2, <1>4, <1>7, <1>9, <1>15, <3>1
  <2>3. CASE i = b
    <3>1. m[i] = s /\ i + 1 > b /\ i + 1 - 1 = b
      BY <1>1, <1>12, <2>3
    <3>2. m[i + 1] = y
      BY <1>3, <1>12, <2>1, <3>1
    <3> QED BY <1>4, <1>7, <1>9, <3>1, <3>2
  <2>4. CASE i # b - 1 /\ i # b
    <3>1. PICK k \in 0..n : m[i] = node[k] /\ m[i + 1] = node[k + 1] /\ k # b - 1
      <4>1. CASE i < b
        <5>1. i \in 0..n /\ i < b /\ i + 1 < b
          BY <1>1, <2>4, <4>1
        <5>2. m[i] = node[i] /\ m[i + 1] = node[i + 1]
          BY <1>12, <2>1, <5>1
        <5> QED BY <2>4, <5>1, <5>2
      <4>2. CASE ~(i < b)
        <5>1. i - 1 \in 0..n /\ i > b /\ i + 1 > b /\ i + 1 - 1 = i - 1 + 1 /\ i - 1 # b - 1
          BY <1>1, <2>4, <4>2
        <5>2. m[i] = node[i - 1] /\ m[i + 1] = node[i - 1 + 1]
          BY <1>12, <2>1, <5>1
        <5> QED BY <5>1, <5>2
      <4> QED BY <4>1, <4>2
    <3>2. k \in 0..n + 1 /\ b - 1 \in 0..n + 1
      BY <1>1
    <3>3. node[k] # x /\ node[k] # s
      BY <1>1, <1>2, <3>1, <3>2, NodesDiffer
    <3>4. q._next[node[k]] = node[k + 1] /\ node[k] \in DOMAIN q._next
      <4>1. k = 0 \/ k \in 1..n
        BY <1>1
      <4> QED BY <1>7, <4>1 DEF Chain
    <3> QED BY <1>4, <1>7, <1>9, <3>1, <3>3, <3>4
  <2> QED BY <2>2, <2>3, <2>4
<1>17. ASSUME NEW i \in 1..n + 2 PROVE r._pre[m[i]] = m[i - 1]
  <2>1. i \in 0..n + 2 /\ i - 1 \in 0..n + 2
    BY <1>1
  <2>2. CASE i = b + 1
    <3>1. i > b /\ i - 1 = b
      BY <1>1, <2>2
    <3>2. m[i] = y /\ m[i - 1] = s
      BY <1>3, <1>12, <2>1, <3>1
    <3> QED BY <1>1, <1>3, <1>5, <1>7, <1>9, <1>15, <3>2
  <2>3. CASE i = b
    <3>1. m[i] = s /\ i - 1 < b
      BY <1>1, <1>12, <2>3
    <3>2. m[i - 1] = x
      BY <1>2, <1>12, <2>1, <2>3, <3>1
    <3> QED BY <1>5, <1>7, <1>9, <3>1, <3>2
  <2>4. CASE i # b + 1 /\ i # b
    <3>1. PICK k \in 1..n + 1 : m[i] = node[k] /\ m[i - 1] = node[k - 1] /\ k # b
      <4>1. CASE i < b
        <5>1. i \in 1..n + 1 /\ i < b /\ i - 1 < b
          BY <1>1, <4>1
        <5>2. m[i] = node[i] /\ m[i - 1] = node[i - 1]
          BY <1>12, <2>1, <5>1
        <5> QED BY <2>4, <5>1, <5>2
      <4>2. CASE ~(i < b)
        <5>1. i - 1 \in 1..n + 1 /\ i > b /\ i - 1 > b /\ i - 1 # b
          BY <1>1, <2>4, <4>2
        <5>2. m[i] = node[i - 1] /\ m[i - 1] = node[i - 1 - 1]
          BY <1>12, <2>1, <5>1
        <5> QED BY <5>1, <5>2
      <4> QED BY <4>1, <4>2
    <3>2. k \in 0..n + 1 /\ b \in 0..n + 1
      BY <1>1
    <3>3. node[k] # y /\ node[k] # s
      BY <1>1, <1>3, <3>1, <3>2, NodesDiffer
    <3>4. q._pre[node[k]] = node[k - 1] /\ node[k] \in DOMAIN q._pre
      <4>1. k = n + 1 \/ k \in 1..n
        BY <1>1
      <4> QED BY <1>7, <4>1 DEF Chain
    <3> QED BY <1>5, <1>7, <1>9, <3>1, <3>3, <3>4
  <2> QED BY <2>2, <2>3, <2>4
<1>18. Chain(r, n + 1, m)
  <2>1. n + 1 \in Nat /\ n + 1 + 1 = n + 2
    BY <1>1
  <2> QED BY <1>12, <1>13, <1>14, <1>16, <1>17, <2>1 DEF Chain
<1> QED BY <1>9, <1>10, <1>11, <1>18

\* A list stays one when pointers off the list change.
LEMMA ChainStays ==
  ASSUME NEW q, NEW n, NEW node, Chain(q, n, node), NEW r,
         \A i \in 0..n : r._next[node[i]] = q._next[node[i]],
         \A i \in 1..n + 1 : r._pre[node[i]] = q._pre[node[i]]
  PROVE  Chain(r, n, node)
BY DEF Chain

\* The members of the shorter list.
LEMMA MembersWithout ==
  ASSUME NEW q, NEW n, NEW node, Chain(q, n, node), NEW p \in 1..n
  PROVE  Members(n - 1, Without(n, node, p)) = Members(n, node) \ {node[p]}
<1>1. PICK m : m = Without(n, node, p)
  OBVIOUS
<1>2. n \in Nat /\ p \in Nat
  BY DEF Chain
<1>3. \A i \in 0..n : m[i] = IF i < p THEN node[i] ELSE node[i + 1]
  BY <1>1 DEF Without
<1>4. ASSUME NEW i \in 1..n - 1 PROVE m[i] \in Members(n, node) \ {node[p]}
  <2>1. i \in 0..n /\ i \in 1..n /\ i + 1 \in 1..n /\ (i < p => i # p) /\ (~(i < p) => i + 1 # p)
    BY <1>2
  <2>2. \A k \in 1..n : k # p => node[k] # node[p]
    BY DEF Chain
  <2> QED BY <1>3, <2>1, <2>2 DEF Members
<1>5. ASSUME NEW i \in 1..n, node[i] # node[p] PROVE node[i] \in Members(n - 1, m)
  <2>1. i # p
    BY <1>5
  <2>2. CASE i < p
    <3>1. i \in 1..n - 1 /\ i \in 0..n
      BY <1>2, <2>2
    <3> QED BY <1>3, <2>2, <3>1 DEF Members
  <2>3. CASE ~(i < p)
    <3>1. i - 1 \in 1..n - 1 /\ i - 1 \in 0..n /\ ~(i - 1 < p) /\ i - 1 + 1 = i
      BY <1>2, <2>1, <2>3
    <3>2. m[i - 1] = node[i]
      BY <1>3, <3>1
    <3> QED BY <3>1, <3>2 DEF Members
  <2> QED BY <2>2, <2>3
<1> QED BY <1>1, <1>4, <1>5 DEF Members

\* The members of the longer list.
LEMMA MembersWith ==
  ASSUME NEW q, NEW n, NEW node, Chain(q, n, node), NEW b \in 1..n + 1, NEW s
  PROVE  Members(n + 1, With(n, node, b, s)) = Members(n, node) \cup {s}
<1>1. PICK m : m = With(n, node, b, s)
  OBVIOUS
<1>2. n \in Nat /\ b \in Nat
  BY DEF Chain
<1>3. \A i \in 0..n + 2 : m[i] = IF i < b THEN node[i] ELSE IF i = b THEN s ELSE node[i - 1]
  BY <1>1 DEF With
<1>4. ASSUME NEW i \in 1..n + 1 PROVE m[i] \in Members(n, node) \cup {s}
  <2>1. i \in 0..n + 2 /\ (i < b => i \in 1..n) /\ (~(i < b) /\ i # b => i - 1 \in 1..n)
    BY <1>2
  <2> QED BY <1>3, <2>1 DEF Members
<1>5. s \in Members(n + 1, m)
  <2>1. b \in 0..n + 2 /\ b \in 1..n + 1 /\ ~(b < b)
    BY <1>2
  <2>2. m[b] = s
    BY <1>3, <2>1
  <2> QED BY <2>1, <2>2 DEF Members
<1>6. ASSUME NEW i \in 1..n PROVE node[i] \in Members(n + 1, m)
  <2>1. CASE i < b
    <3>1. i \in 1..n + 1 /\ i \in 0..n + 2
      BY <1>2
    <3> QED BY <1>3, <2>1, <3>1 DEF Members
  <2>2. CASE ~(i < b)
    <3>1. i + 1 \in 1..n + 1 /\ i + 1 \in 0..n + 2 /\ ~(i + 1 < b) /\ i + 1 # b /\ i + 1 - 1 = i
      BY <1>2, <2>2
    <3>2. m[i + 1] = node[i]
      BY <1>3, <3>1
    <3> QED BY <3>1, <3>2 DEF Members
  <2> QED BY <2>1, <2>2
<1> QED BY <1>1, <1>4, <1>5, <1>6 DEF Members

-----------------------------------------------------------------------------
(* Walks: the first node from the i-th on that a walk stops at.              *)

\* S has the places where a walk stops, the tail among them.
Stop(S, n, i, b) == b \in S /\ b \in i..n + 1 /\ \A j \in i..b - 1 : j \notin S

\* A walk stops.
LEMMA StopExists ==
  ASSUME NEW n \in Nat, NEW S, n + 1 \in S, NEW i \in 0..n + 1
  PROVE  \E b \in i..n + 1 : Stop(S, n, i, b)
<1> DEFINE T == {b \in i..n + 1 : b \in S}
<1>1. T \in SUBSET Nat /\ n + 1 \in T
  OBVIOUS
<1>2. PICK b \in T : \A c \in T : b <= c
  <2>1. T # {}
    BY <1>1
  <2> QED BY <1>1, <2>1, FirstNumber
<1>3. \A j \in i..b - 1 : j \notin S
  BY <1>2
<1>4. b \in i..n + 1 /\ b \in S
  BY <1>2
<1> QED BY <1>3, <1>4 DEF Stop

\* It stops at one place.
LEMMA StopIsOne ==
  ASSUME NEW n \in Nat, NEW S, NEW i \in 0..n + 1, NEW b, NEW c, Stop(S, n, i, b), Stop(S, n, i, c)
  PROVE  b = c
<1>1. b \in i..n + 1 /\ c \in i..n + 1 /\ b \in S /\ c \in S
  BY DEF Stop
<1>2. ~(b < c)
  <2>1. b < c => b \in i..c - 1
    BY <1>1
  <2> QED BY <1>1, <2>1 DEF Stop
<1>3. ~(c < b)
  <2>1. c < b => c \in i..b - 1
    BY <1>1
  <2> QED BY <1>1, <2>1 DEF Stop
<1> QED BY <1>1, <1>2, <1>3

\* A walk that does not stop here stops where the walk from the next node does.
LEMMA StopSteps ==
  ASSUME NEW n \in Nat, NEW S, NEW i \in 0..n, NEW b
  PROVE  /\ i \in S => Stop(S, n, i, i)
         /\ i \notin S => (Stop(S, n, i, b) <=> Stop(S, n, i + 1, b))
<1>1. i \in S => Stop(S, n, i, i)
  BY DEF Stop
<1>2. ASSUME i \notin S, Stop(S, n, i, b) PROVE Stop(S, n, i + 1, b)
  <2>1. b \in S /\ b \in i..n + 1 /\ b # i /\ \A j \in i..b - 1 : j \notin S
    BY <1>2 DEF Stop
  <2>2. b \in i + 1..n + 1 /\ \A j \in i + 1..b - 1 : j \in i..b - 1
    BY <2>1
  <2> QED BY <2>1, <2>2 DEF Stop
<1>3. ASSUME i \notin S, Stop(S, n, i + 1, b) PROVE Stop(S, n, i, b)
  <2>1. b \in S /\ b \in i + 1..n + 1 /\ \A j \in i + 1..b - 1 : j \notin S
    BY <1>3 DEF Stop
  <2>2. b \in i..n + 1 /\ \A j \in i..b - 1 : j = i \/ j \in i + 1..b - 1
    BY <2>1
  <2> QED BY <1>3, <2>1, <2>2 DEF Stop
<1> QED BY <1>1, <1>2, <1>3

-----------------------------------------------------------------------------
(* back_node finds the first node from s on with a later stamp, or the tail. *)

IsList(q, n, node) ==
  /\ Chain(q, n, node) /\ Members(n, node) = q.m_time_map
  /\ \A s \in Slave : q._in_list[s] <=> s \in q.m_time_map

Later(q, n, node, s) ==
  {i \in 1..n + 1 : i = n + 1 \/ q._time_stamp[s] < q._time_stamp[node[i]]}

\* What a walk does at x when it goes on in the function w.
BackStep(q, s, x, w) ==
  IF x = mp_time_tail \/ q._time_stamp[s] < q._time_stamp[x] THEN x ELSE w[q._next[x]]

\* The recursion of back_node defines a function.
LEMMA BackWalk ==
  ASSUME NEW q, NEW n, NEW node, IsList(q, n, node), NEW s \in Slave
  PROVE  \E w : w = [x \in q.m_time_map \cup {mp_time_tail} |-> BackStep(q, s, x, w)]
<1> DEFINE S == Later(q, n, node, s)
           D == q.m_time_map \cup {mp_time_tail}
<1>1. n \in Nat /\ n + 1 \in S /\ D = {node[i] : i \in 1..n + 1}
  <2>1. n \in Nat /\ n + 1 \in S /\ node[n + 1] = mp_time_tail
    BY DEF IsList, Chain, Later
  <2>2. q.m_time_map = {node[i] : i \in 1..n}
    BY DEF IsList, Members
  <2>3. \A i \in 1..n + 1 : i \in 1..n \/ i = n + 1
    BY <2>1
  <2>4. \A i \in 1..n : i \in 1..n + 1
    BY <2>1
  <2> QED BY <2>1, <2>2, <2>3, <2>4
<1> DEFINE w == [x \in D |-> LET i == CHOOSE j \in 1..n + 1 : node[j] = x
                             IN node[CHOOSE b \in i..n + 1 : Stop(S, n, i, b)]]
<1> HIDE DEF S
<1>2. ASSUME NEW i \in 1..n + 1, NEW b, Stop(S, n, i, b) PROVE w[node[i]] = node[b]
  <2>1. node[i] \in D
    BY <1>1
  <2>2. PICK k : k = CHOOSE j \in 1..n + 1 : node[j] = node[i]
    OBVIOUS
  <2>3. k \in 1..n + 1 /\ node[k] = node[i]
    BY <2>2
  <2>4. k = i
    <3>1. k \in 0..n + 1 /\ i \in 0..n + 1 /\ Chain(q, n, node)
      BY <1>1, <2>3 DEF IsList
    <3> QED BY <2>3, <3>1, NodesDiffer
  <2>5. PICK c : c = CHOOSE d \in i..n + 1 : Stop(S, n, i, d)
    OBVIOUS
  <2>6. b \in i..n + 1
    BY <1>2 DEF Stop
  <2>7. Stop(S, n, i, c)
    BY <1>2, <2>5, <2>6
  <2>8. c = b
    <3>1. i \in 0..n + 1
      BY <1>1
    <3> QED BY <1>1, <1>2, <2>7, <3>1, StopIsOne
  <2>9. w[node[i]] = node[CHOOSE d \in k..n + 1 : Stop(S, n, k, d)]
    BY <2>1, <2>2
  <2> QED BY <2>4, <2>5, <2>8, <2>9
<1> HIDE DEF w
<1>3. ASSUME NEW x \in D PROVE w[x] = BackStep(q, s, x, w)
  <2>1. PICK i \in 1..n + 1 : x = node[i]
    BY <1>1
  <2>2. PICK b \in i..n + 1 : Stop(S, n, i, b)
    <3>1. i \in 0..n + 1
      BY <1>1
    <3> QED BY <1>1, <3>1, StopExists
  <2>3. w[x] = node[b]
    BY <1>2, <2>1, <2>2
  <2>4. i \in S <=> x = mp_time_tail \/ q._time_stamp[s] < q._time_stamp[x]
    <3>1. x = mp_time_tail <=> i = n + 1
      <4>1. Chain(q, n, node) /\ node[n + 1] = mp_time_tail /\ i \in 0..n + 1 /\ n + 1 \in 0..n + 1
        BY <1>1 DEF IsList, Chain
      <4> QED BY <2>1, <4>1, NodesDiffer
    <3> QED BY <2>1, <3>1 DEF S, Later
  <2>5. CASE i \in S
    <3>1. Stop(S, n, i, i)
      BY <1>1, <2>5 DEF Stop
    <3>2. w[x] = x
      BY <1>2, <2>1, <3>1
    <3> QED BY <2>4, <2>5, <3>2 DEF BackStep
  <2>6. CASE i \notin S
    <3>1. i # n + 1 /\ i \in 0..n /\ i + 1 \in 1..n + 1
      BY <1>1, <2>6
    <3>2. Stop(S, n, i + 1, b)
      BY <1>1, <2>2, <2>6, <3>1, StopSteps
    <3>3. w[node[i + 1]] = node[b]
      BY <1>2, <3>1, <3>2
    <3>4. q._next[x] = node[i + 1]
      BY <2>1, <3>1 DEF IsList, Chain
    <3> QED BY <2>3, <2>4, <2>6, <3>3, <3>4 DEF BackStep
  <2> QED BY <2>5, <2>6
<1>4. w = [x \in D |-> BackStep(q, s, x, w)]
  <2>1. w = [x \in D |-> w[x]]
    BY DEF w
  <2> QED BY <1>3, <2>1
<1> QED BY <1>4

\* It is the b-th node, where a walk from the p-th stops.
LEMMA BackNode ==
  ASSUME NEW q, NEW n, NEW node, IsList(q, n, node), NEW p \in 1..n, NEW b,
         Stop(Later(q, n, node, node[p]), n, p, b)
  PROVE  back_node(q, node[p]) = node[b]
<1> DEFINE s == node[p]
           D == q.m_time_map \cup {mp_time_tail}
           w == CHOOSE f : f = [x \in D |-> BackStep(q, s, x, f)]
           S == Later(q, n, node, s)
<1>1. n \in Nat /\ s \in Slave /\ s \in D
  BY DEF IsList, Chain, Members
<1>2. w = [x \in D |-> BackStep(q, s, x, w)]
  BY <1>1, BackWalk
<1>3. back_node(q, s) = w[s]
  BY DEF back_node, BackStep
<1>4. \A x \in D : w[x] = BackStep(q, s, x, w)
  BY <1>2
<1>5. b \in S /\ b \in p..n + 1 /\ \A j \in p..b - 1 : j \notin S
  BY DEF Stop
<1> DEFINE Good == {i \in p..b : w[node[i]] = node[b]}
<1>6. b \in Good
  <2>1. node[b] \in D /\ (node[b] = mp_time_tail \/ q._time_stamp[s] < q._time_stamp[node[b]])
    BY <1>1, <1>5 DEF Later, IsList, Chain, Members
  <2>2. w[node[b]] = node[b]
    BY <1>4, <2>1 DEF BackStep
  <2> QED BY <1>5, <2>2
<1>7. ASSUME NEW i \in p..b, i # b, i + 1 \in Good PROVE i \in Good
  <2>1. i \in 1..n /\ i \notin S /\ i \in 0..n
    BY <1>1, <1>5, <1>7
  <2>2. node[i] \in D /\ node[i] # mp_time_tail /\ q._next[node[i]] = node[i + 1]
    BY <2>1, Nodes DEF IsList, Chain, Members
  <2>3. ~(q._time_stamp[s] < q._time_stamp[node[i]])
    BY <1>1, <2>1 DEF Later
  <2>4. w[node[i]] = w[node[i + 1]]
    BY <1>4, <2>2, <2>3 DEF BackStep
  <2> QED BY <1>7, <2>4
<1> HIDE DEF Good, w
<1>8. \A i \in p..b : i \in Good
  <2>1. p \in Nat /\ b \in Nat
    BY <1>1, <1>5
  <2> QED BY <1>6, <1>7, <2>1, Downward
<1>9. w[s] = node[b]
  <2>1. p \in p..b
    BY <1>1, <1>5
  <2> QED BY <1>8, <2>1 DEF Good
<1> QED BY <1>3, <1>9

-----------------------------------------------------------------------------
(* Check finds the nodes from the front up to the first that is not overdue. *)

OnTime(q, n, node) == {i \in 1..n + 1 : i = n + 1 \/ ~(now - q._time_stamp[node[i]] > Timeout)}

\* The nodes from the i-th up to the one before the b-th.
Section(node, i, b) == [j \in 1..b - i |-> node[i + j - 1]]

FoundStep(q, x, w) ==
  IF x = mp_time_tail THEN <<>>
  ELSE IF now - q._time_stamp[x] > Timeout THEN <<x>> \o w[q._next[x]]
  ELSE <<>>

\* One node before a section makes a longer section.
LEMMA SectionGrows ==
  ASSUME NEW i \in Nat, NEW b \in Nat, i < b, NEW node
  PROVE  <<node[i]>> \o Section(node, i + 1, b) = Section(node, i, b)
<1>1. PICK t : t = Section(node, i + 1, b)
  OBVIOUS
<1>2. PICK k \in Nat : k = b - i /\ k - 1 = b - (i + 1) /\ k - 1 \in Nat
  OBVIOUS
<1>3. t = [j \in 1..k - 1 |-> node[i + 1 + j - 1]]
  BY <1>1, <1>2 DEF Section
<1> DEFINE V == {node[j] : j \in Int}
<1>4. t \in Seq(V) /\ Len(t) = k - 1 /\ \A j \in 1..k - 1 : t[j] = node[i + 1 + j - 1]
  <2>1. \A j \in 1..k - 1 : node[i + 1 + j - 1] \in V
    OBVIOUS
  <2> HIDE DEF V
  <2> QED BY <1>2, <1>3, <2>1
<1>5. PICK u : u = <<node[i]>> \o t
  OBVIOUS
<1>6. <<node[i]>> \in Seq(V) /\ Len(<<node[i]>>) = 1 /\ <<node[i]>>[1] = node[i]
  OBVIOUS
<1> HIDE DEF V
<1>7. /\ u \in Seq(V) /\ Len(u) = k /\ u[1] = node[i]
      /\ \A j \in 2..k : u[j] = t[j - 1]
  BY <1>2, <1>4, <1>5, <1>6
<1>8. ASSUME NEW j \in 1..k PROVE u[j] = node[i + j - 1]
  <2>1. CASE j = 1
    BY <1>7, <2>1
  <2>2. CASE j # 1
    <3>1. PICK l \in 1..k - 1 : l = j - 1 /\ j \in 2..k /\ i + 1 + l - 1 = i + j - 1
      BY <1>2, <2>2
    <3> QED BY <1>4, <1>7, <3>1
  <2> QED BY <2>1, <2>2
<1>9. u = [j \in 1..k |-> node[i + j - 1]]
  <2>1. DOMAIN u = 1..k
    BY <1>2, <1>7
  <2>2. u = [j \in DOMAIN u |-> u[j]]
    BY <1>7
  <2> QED BY <1>8, <2>1, <2>2
<1> QED BY <1>1, <1>2, <1>5, <1>9 DEF Section

\* The recursion of timeout_nodes defines a function.
LEMMA FoundWalk ==
  ASSUME NEW q, NEW n, NEW node, IsList(q, n, node)
  PROVE  \E w : w = [x \in q.m_time_map \cup {mp_time_tail} |-> FoundStep(q, x, w)]
<1> DEFINE S == OnTime(q, n, node)
           D == q.m_time_map \cup {mp_time_tail}
<1>1. n \in Nat /\ n + 1 \in S /\ D = {node[i] : i \in 1..n + 1}
  <2>1. n \in Nat /\ n + 1 \in S /\ node[n + 1] = mp_time_tail
    BY DEF IsList, Chain, OnTime
  <2>2. q.m_time_map = {node[i] : i \in 1..n}
    BY DEF IsList, Members
  <2>3. \A i \in 1..n + 1 : i \in 1..n \/ i = n + 1
    BY <2>1
  <2>4. \A i \in 1..n : i \in 1..n + 1
    BY <2>1
  <2> QED BY <2>1, <2>2, <2>3, <2>4
<1> DEFINE w == [x \in D |-> LET i == CHOOSE j \in 1..n + 1 : node[j] = x
                             IN Section(node, i, CHOOSE b \in i..n + 1 : Stop(S, n, i, b))]
<1> HIDE DEF S
<1>2. ASSUME NEW i \in 1..n + 1, NEW b, Stop(S, n, i, b) PROVE w[node[i]] = Section(node, i, b)
  <2>1. node[i] \in D
    BY <1>1
  <2>2. PICK k : k = CHOOSE j \in 1..n + 1 : node[j] = node[i]
    OBVIOUS
  <2>3. k \in 1..n + 1 /\ node[k] = node[i]
    BY <2>2
  <2>4. k = i
    <3>1. k \in 0..n + 1 /\ i \in 0..n + 1 /\ Chain(q, n, node)
      BY <1>1, <2>3 DEF IsList
    <3> QED BY <2>3, <3>1, NodesDiffer
  <2>5. PICK c : c = CHOOSE d \in i..n + 1 : Stop(S, n, i, d)
    OBVIOUS
  <2>6. b \in i..n + 1
    BY <1>2 DEF Stop
  <2>7. Stop(S, n, i, c)
    BY <1>2, <2>5, <2>6
  <2>8. c = b
    <3>1. i \in 0..n + 1
      BY <1>1
    <3> QED BY <1>1, <1>2, <2>7, <3>1, StopIsOne
  <2>9. w[node[i]] = Section(node, k, CHOOSE d \in k..n + 1 : Stop(S, n, k, d))
    BY <2>1, <2>2
  <2> QED BY <2>4, <2>5, <2>8, <2>9
<1> HIDE DEF w
<1>3. ASSUME NEW x \in D PROVE w[x] = FoundStep(q, x, w)
  <2>1. PICK i \in 1..n + 1 : x = node[i]
    BY <1>1
  <2>2. PICK b \in i..n + 1 : Stop(S, n, i, b)
    <3>1. i \in 0..n + 1
      BY <1>1
    <3> QED BY <1>1, <3>1, StopExists
  <2>3. w[x] = Section(node, i, b)
    BY <1>2, <2>1, <2>2
  <2>4. i \in S <=> x = mp_time_tail \/ ~(now - q._time_stamp[x] > Timeout)
    <3>1. x = mp_time_tail <=> i = n + 1
      <4>1. Chain(q, n, node) /\ node[n + 1] = mp_time_tail /\ i \in 0..n + 1 /\ n + 1 \in 0..n + 1
        BY <1>1 DEF IsList, Chain
      <4> QED BY <2>1, <4>1, NodesDiffer
    <3> QED BY <2>1, <3>1 DEF S, OnTime
  <2>5. CASE i \in S
    <3>1. Stop(S, n, i, i)
      BY <1>1, <2>5 DEF Stop
    <3>2. w[x] = Section(node, i, i)
      BY <1>2, <2>1, <3>1
    <3>3. Section(node, i, i) = <<>>
      <4>1. 1..i - i = {}
        BY <1>1
      <4> QED BY <4>1 DEF Section
    <3> QED BY <2>4, <2>5, <3>2, <3>3 DEF FoundStep
  <2>6. CASE i \notin S
    <3>1. i # n + 1 /\ i \in 0..n /\ i + 1 \in 1..n + 1 /\ i \in Nat
      BY <1>1, <2>6
    <3>2. Stop(S, n, i + 1, b)
      BY <1>1, <2>2, <2>6, <3>1, StopSteps
    <3>3. w[node[i + 1]] = Section(node, i + 1, b)
      BY <1>2, <3>1, <3>2
    <3>4. q._next[x] = node[i + 1]
      BY <2>1, <3>1 DEF IsList, Chain
    <3>5. b \in Nat /\ i < b
      BY <1>1, <3>1, <3>2 DEF Stop
    <3>6. <<x>> \o w[q._next[x]] = Section(node, i, b)
      BY <2>1, <3>1, <3>3, <3>4, <3>5, SectionGrows
    <3> QED BY <2>3, <2>4, <2>6, <3>6 DEF FoundStep
  <2> QED BY <2>5, <2>6
<1>4. w = [x \in D |-> FoundStep(q, x, w)]
  <2>1. w = [x \in D |-> w[x]]
    BY DEF w
  <2> QED BY <1>3, <2>1
<1> QED BY <1>4

\* Check finds the nodes before the b-th, where a walk from the front stops.
LEMMA TimeoutNodes ==
  ASSUME NEW q, NEW n, NEW node, IsList(q, n, node), NEW b, Stop(OnTime(q, n, node), n, 1, b)
  PROVE  timeout_nodes(q) = Section(node, 1, b)
<1> DEFINE D == q.m_time_map \cup {mp_time_tail}
           w == CHOOSE f : f = [x \in D |-> FoundStep(q, x, f)]
           S == OnTime(q, n, node)
<1>1. n \in Nat /\ q._next[mp_time_head] = node[1]
  BY DEF IsList, Chain
<1>2. w = [x \in D |-> FoundStep(q, x, w)]
  BY FoundWalk
<1>3. timeout_nodes(q) = w[node[1]]
  BY <1>1 DEF timeout_nodes, FoundStep
<1>4. \A x \in D : w[x] = FoundStep(q, x, w)
  BY <1>2
<1>5. b \in S /\ b \in 1..n + 1 /\ \A j \in 1..b - 1 : j \notin S
  BY DEF Stop
<1> DEFINE Good == {i \in 1..b : w[node[i]] = Section(node, i, b)}
<1>6. b \in Good
  <2>1. node[b] \in D /\ (node[b] = mp_time_tail \/ ~(now - q._time_stamp[node[b]] > Timeout))
    BY <1>1, <1>5 DEF OnTime, IsList, Chain, Members
  <2>2. w[node[b]] = <<>>
    BY <1>4, <2>1 DEF FoundStep
  <2>3. Section(node, b, b) = <<>>
    <3>1. 1..b - b = {}
      BY <1>1, <1>5
    <3> QED BY <3>1 DEF Section
  <2> QED BY <1>5, <2>2, <2>3
<1>7. ASSUME NEW i \in 1..b, i # b, i + 1 \in Good PROVE i \in Good
  <2>1. i \in 1..n /\ i \notin S /\ i \in 0..n /\ i \in Nat /\ b \in Nat /\ i < b
    BY <1>1, <1>5, <1>7
  <2>2. node[i] \in D /\ node[i] # mp_time_tail /\ q._next[node[i]] = node[i + 1]
    BY <2>1, Nodes DEF IsList, Chain, Members
  <2>3. now - q._time_stamp[node[i]] > Timeout
    BY <1>1, <2>1 DEF OnTime
  <2>4. w[node[i]] = <<node[i]>> \o w[node[i + 1]]
    BY <1>4, <2>2, <2>3 DEF FoundStep
  <2>5. w[node[i + 1]] = Section(node, i + 1, b)
    BY <1>7
  <2> QED BY <2>1, <2>4, <2>5, SectionGrows
<1> HIDE DEF Good, w
<1>8. \A i \in 1..b : i \in Good
  <2>1. 1 \in Nat /\ b \in Nat
    BY <1>1, <1>5
  <2> QED BY <1>6, <1>7, <2>1, Downward
<1>9. w[node[1]] = Section(node, 1, b)
  <2>1. 1 \in 1..b
    BY <1>1, <1>5
  <2> QED BY <1>8, <2>1 DEF Good
<1> QED BY <1>3, <1>9

-----------------------------------------------------------------------------
(* The operations, on lists.                                                 *)

\* What the other proofs use of a list.
LEMMA ListFacts ==
  ASSUME NEW q, QueueTyped(q), NEW n, NEW node, IsList(q, n, node)
  PROVE  /\ n \in Nat /\ Chain(q, n, node)
         /\ q.m_time_map = {node[i] : i \in 1..n} /\ q.m_time_map \subseteq Slave
         /\ \A i \in 1..n : node[i] \in Slave /\ node[i] \in q.m_time_map
         /\ node[0] = mp_time_head /\ node[n + 1] = mp_time_tail
<1>1. n \in Nat /\ Chain(q, n, node) /\ q.m_time_map = {node[i] : i \in 1..n}
  BY DEF IsList, Chain, Members
<1>2. q.m_time_map \subseteq Slave
  BY DEF QueueTyped
<1> QED BY <1>1, <1>2 DEF Chain

\* AppendNode puts a new node at the end.
LEMMA Appending ==
  ASSUME NEW q, QueueTyped(q), NEW n, NEW node, IsList(q, n, node), NEW s \in Slave,
         s \notin q.m_time_map, now \in 0..MaxTime, NEW r, r = AppendNode(q, s)
  PROVE  /\ QueueTyped(r) /\ IsList(r, n + 1, With(n, node, n + 1, s))
         /\ r.m_time_map = q.m_time_map \cup {s}
         /\ r._time_stamp = [q._time_stamp EXCEPT ![s] = now]
<1>1. n \in Nat /\ Chain(q, n, node) /\ node[n + 1] = mp_time_tail /\ n + 1 \in 1..n + 1
  BY ListFacts
<1>2. q._pre[mp_time_tail] = node[n + 1 - 1]
  <2>1. \A i \in 1..n + 1 : q._pre[node[i]] = node[i - 1]
    BY DEF IsList, Chain
  <2>2. PICK k \in 1..n + 1 : k = n + 1
    BY <1>1
  <2>3. q._pre[node[k]] = node[k - 1]
    BY <2>1
  <2> QED BY <1>1, <2>2, <2>3
<1>3. PICK u : u = Link(q, s, node[n + 1 - 1], node[n + 1])
  OBVIOUS
<1>4. QueueTyped(u) /\ SameBut(q, u) /\ Chain(u, n + 1, With(n, node, n + 1, s))
  <2>1. s \in Slave \ Members(n, node)
    BY DEF IsList
  <2> QED BY <1>1, <1>3, <2>1, Linking
<1>5. r = [u EXCEPT !.m_time_map = @ \cup {s}, !._in_list[s] = TRUE, !._time_stamp[s] = now]
  BY <1>1, <1>2, <1>3 DEF AppendNode
<1>6. /\ r.m_time_map = u.m_time_map \cup {s} /\ r._in_list = [u._in_list EXCEPT ![s] = TRUE]
      /\ r._time_stamp = [u._time_stamp EXCEPT ![s] = now]
      /\ r._next = u._next /\ r._pre = u._pre
  BY <1>4, <1>5 DEF QueueTyped
<1>7. QueueTyped(r)
  <2>1. PICK M : M = u.m_time_map \cup {s}
    OBVIOUS
  <2>2. PICK L : L = [u._in_list EXCEPT ![s] = TRUE]
    OBVIOUS
  <2>3. PICK T : T = [u._time_stamp EXCEPT ![s] = now]
    OBVIOUS
  <2>4. M \in SUBSET Slave /\ L \in [Slave -> BOOLEAN] /\ T \in [Slave -> 0..MaxTime]
    BY <1>4, <2>1, <2>2, <2>3 DEF QueueTyped
  <2>5. r = [u EXCEPT !.m_time_map = M, !._in_list = L, !._time_stamp = T]
    BY <1>5, <2>1, <2>2, <2>3
  <2> QED BY <1>4, <2>4, <2>5 DEF QueueTyped
<1>8. Chain(r, n + 1, With(n, node, n + 1, s))
  BY <1>4, <1>6 DEF Chain
<1>9. Members(n + 1, With(n, node, n + 1, s)) = q.m_time_map \cup {s}
  BY <1>1, MembersWith DEF IsList
<1>10. \A x \in Slave : r._in_list[x] <=> x \in r.m_time_map
  <2>1. /\ u._in_list = q._in_list /\ u.m_time_map = q.m_time_map /\ u._in_list \in [Slave -> BOOLEAN]
    BY <1>4 DEF SameBut, QueueTyped
  <2>2. \A x \in Slave : q._in_list[x] <=> x \in q.m_time_map
    BY DEF IsList
  <2> QED BY <1>6, <2>1, <2>2
<1> QED BY <1>4, <1>6, <1>7, <1>8, <1>9, <1>10 DEF IsList, SameBut

\* RemoveNode takes a node out and frees it.
LEMMA Removing ==
  ASSUME NEW q, QueueTyped(q), NEW n, NEW node, IsList(q, n, node), NEW p \in 1..n,
         NEW r, r = RemoveNode(q, node[p])
  PROVE  /\ QueueTyped(r) /\ IsList(r, n - 1, Without(n, node, p))
         /\ r.m_time_map = q.m_time_map \ {node[p]}
         /\ r._time_stamp = [q._time_stamp EXCEPT ![node[p]] = 0]
<1>1. PICK s : s = node[p]
  OBVIOUS
<1>2. n \in Nat /\ p \in Nat /\ Chain(q, n, node) /\ s \in Slave /\ s \in q.m_time_map /\ q._in_list[s]
  BY <1>1, ListFacts DEF IsList
<1>3. PICK u : u = Unlink(q, s)
  OBVIOUS
<1>4. PICK m : m = Without(n, node, p)
  OBVIOUS
<1>5. QueueTyped(u) /\ SameBut(q, u) /\ Chain(u, n - 1, m)
  BY <1>1, <1>2, <1>3, <1>4, Unlinking
<1>6. r = Free([u EXCEPT !.m_time_map = @ \ {s}], s)
  BY <1>1, <1>2, <1>3 DEF RemoveNode
<1>7. /\ r.m_time_map = u.m_time_map \ {s} /\ r._in_list = [u._in_list EXCEPT ![s] = FALSE]
      /\ r._time_stamp = [u._time_stamp EXCEPT ![s] = 0]
      /\ r._next = [u._next EXCEPT ![s] = Null] /\ r._pre = [u._pre EXCEPT ![s] = Null]
  BY <1>2, <1>5, <1>6 DEF QueueTyped, Free
<1>8. QueueTyped(r)
  <2>1. PICK M : M = u.m_time_map \ {s}
    OBVIOUS
  <2>2. PICK L : L = [u._in_list EXCEPT ![s] = FALSE]
    OBVIOUS
  <2>3. PICK T : T = [u._time_stamp EXCEPT ![s] = 0]
    OBVIOUS
  <2>4. PICK f : f = [u._next EXCEPT ![s] = Null]
    OBVIOUS
  <2>5. PICK g : g = [u._pre EXCEPT ![s] = Null]
    OBVIOUS
  <2>6. 0 \in 0..MaxTime
    BY TimeAssumption DEF TimeAssumption
  <2>7. /\ M \in SUBSET Slave /\ L \in [Slave -> BOOLEAN] /\ T \in [Slave -> 0..MaxTime]
    BY <1>5, <2>1, <2>2, <2>3, <2>6 DEF QueueTyped
  <2>8. /\ f \in [Slave \cup {mp_time_head} -> Slave \cup {mp_time_tail, Null}]
        /\ g \in [Slave \cup {mp_time_tail} -> Slave \cup {mp_time_head, Null}]
    BY <1>5, <2>4, <2>5 DEF QueueTyped
  <2>9. r = [u EXCEPT !.m_time_map = M, !._next = f, !._pre = g, !._in_list = L, !._time_stamp = T]
    BY <1>6, <2>1, <2>2, <2>3, <2>4, <2>5 DEF Free
  <2> QED BY <1>5, <2>7, <2>8, <2>9 DEF QueueTyped
<1>9. Members(n - 1, m) = q.m_time_map \ {s}
  BY <1>1, <1>2, <1>4, MembersWithout DEF IsList
<1>10. Chain(r, n - 1, m)
  <2>1. \A i \in 0..n : m[i] # s
    <3>1. \A i \in 1..n - 1 : m[i] # s
      BY <1>9 DEF Members
    <3>2. m[0] = mp_time_head /\ m[n - 1 + 1] = mp_time_tail /\ n - 1 + 1 = n
      BY <1>2, <1>5 DEF Chain
    <3>3. \A i \in 0..n : i = 0 \/ i = n \/ i \in 1..n - 1
      BY <1>2
    <3> QED BY <1>2, <3>1, <3>2, <3>3, Nodes
  <2>2. \A i \in 0..n - 1 : r._next[m[i]] = u._next[m[i]]
    <3> SUFFICES ASSUME NEW i \in 0..n - 1 PROVE r._next[m[i]] = u._next[m[i]]
      OBVIOUS
    <3>1. i \in 0..n /\ (i = 0 \/ i \in 1..n - 1)
      BY <1>2
    <3>2. m[i] \in Slave \cup {mp_time_head} /\ m[i] # s
      BY <1>5, <2>1, <3>1 DEF Chain
    <3> QED BY <1>5, <1>7, <3>2 DEF QueueTyped
  <2>3. \A i \in 1..n - 1 + 1 : r._pre[m[i]] = u._pre[m[i]]
    <3> SUFFICES ASSUME NEW i \in 1..n - 1 + 1 PROVE r._pre[m[i]] = u._pre[m[i]]
      OBVIOUS
    <3>1. i \in 0..n /\ (i = n - 1 + 1 \/ i \in 1..n - 1)
      BY <1>2
    <3>2. m[i] \in Slave \cup {mp_time_tail} /\ m[i] # s
      BY <1>5, <2>1, <3>1 DEF Chain
    <3> QED BY <1>5, <1>7, <3>2 DEF QueueTyped
  <2> QED BY <1>5, <2>2, <2>3, ChainStays
<1>11. \A x \in Slave : r._in_list[x] <=> x \in r.m_time_map
  <2>1. /\ u._in_list = q._in_list /\ u.m_time_map = q.m_time_map /\ u._in_list \in [Slave -> BOOLEAN]
    BY <1>5 DEF SameBut, QueueTyped
  <2>2. \A x \in Slave : q._in_list[x] <=> x \in q.m_time_map
    BY DEF IsList
  <2> QED BY <1>7, <2>1, <2>2
<1> QED BY <1>1, <1>4, <1>5, <1>7, <1>8, <1>9, <1>10, <1>11 DEF IsList, SameBut

\* reorder_with_time moves a node behind the last one in line that is not later.
LEMMA Reordering ==
  ASSUME NEW q, QueueTyped(q), NEW n, NEW node, IsList(q, n, node), NEW p \in 1..n, NEW b,
         Stop(Later(q, n, node, node[p]), n, p, b), NEW r, r = reorder_with_time(q, node[p])
  PROVE  /\ b \in p + 1..n + 1
         /\ QueueTyped(r) /\ IsList(r, n, With(n - 1, Without(n, node, p), b - 1, node[p]))
         /\ SameBut(q, r)
<1>1. PICK s : s = node[p]
  OBVIOUS
<1>2. n \in Nat /\ p \in Nat /\ Chain(q, n, node) /\ s \in Slave /\ s \in q.m_time_map
  BY <1>1, ListFacts
<1>3. b \in p + 1..n + 1
  <2>1. b \in p..n + 1 /\ b \in Later(q, n, node, s)
    BY <1>1 DEF Stop
  <2>2. b # p
    <3>1. q._time_stamp[s] \in Int
      BY <1>2, TimeAssumption DEF QueueTyped, TimeAssumption
    <3> QED BY <1>1, <1>2, <2>1, <3>1 DEF Later
  <2> QED BY <1>2, <2>1, <2>2
<1>4. back_node(q, s) = node[b]
  BY <1>1, BackNode
<1>5. q._next[s] # Null /\ node[b] # s
  <2>1. p \in 0..n + 1 /\ b \in 0..n + 1 /\ p \in 0..n /\ p + 1 \in 0..n + 1 /\ b # p
    BY <1>2, <1>3
  <2>2. q._next[s] = node[p + 1] /\ node[p + 1] \in Slave \cup {mp_time_head, mp_time_tail}
    BY <1>1, <1>2, <2>1 DEF Chain
  <2>3. node[b] # s
    BY <1>1, <1>2, <2>1, NodesDiffer
  <2> QED BY <2>2, <2>3, Nodes
<1>6. PICK u : u = Unlink(q, s)
  OBVIOUS
<1>7. PICK m : m = Without(n, node, p)
  OBVIOUS
<1>8. QueueTyped(u) /\ SameBut(q, u) /\ Chain(u, n - 1, m)
  BY <1>1, <1>2, <1>6, <1>7, Unlinking
<1>9. PICK c \in 1..n - 1 + 1 : c = b - 1
  BY <1>2, <1>3
<1>10. m[c] = node[b]
  <2>1. c \in 0..n /\ ~(c < p) /\ c + 1 = b
    BY <1>2, <1>3, <1>9
  <2> QED BY <1>7, <2>1 DEF Without
<1>11. u._pre[m[c]] = m[c - 1]
  BY <1>8, <1>9 DEF Chain
<1>12. r = Link(u, s, m[c - 1], m[c])
  BY <1>1, <1>4, <1>5, <1>6, <1>10, <1>11 DEF reorder_with_time
<1>13. Members(n - 1, m) = q.m_time_map \ {s}
  BY <1>1, <1>2, <1>7, MembersWithout DEF IsList
<1>14. QueueTyped(r) /\ SameBut(u, r) /\ Chain(r, n - 1 + 1, With(n - 1, m, c, s))
  <2>1. s \in Slave \ Members(n - 1, m)
    BY <1>2, <1>13
  <2> QED BY <1>8, <1>9, <1>12, <2>1, Linking
<1>15. Members(n - 1 + 1, With(n - 1, m, c, s)) = q.m_time_map
  <2>1. Members(n - 1 + 1, With(n - 1, m, c, s)) = Members(n - 1, m) \cup {s}
    BY <1>8, <1>9, MembersWith
  <2> QED BY <1>2, <1>13, <2>1
<1>16. SameBut(q, r)
  BY <1>8, <1>14 DEF SameBut
<1>17. n - 1 + 1 = n
  BY <1>2
<1>18. IsList(r, n, With(n - 1, m, c, s))
  BY <1>14, <1>15, <1>16, <1>17 DEF IsList, SameBut
<1> QED BY <1>1, <1>3, <1>7, <1>9, <1>14, <1>16, <1>18

\* The i first nodes, and the list behind them.
FirstNodes(node, i) == {node[j] : j \in 1..i}
Rest(n, node, k) == [i \in 0..n - k + 1 |-> IF i = 0 THEN mp_time_head ELSE node[i + k]]

\* c without the nodes of G, which are no longer in its list.
Freed(c, G) ==
  [m_time_map  |-> c.m_time_map \ G,
   _next       |-> [x \in Slave \cup {mp_time_head} |-> IF x \in G THEN Null ELSE c._next[x]],
   _pre        |-> [x \in Slave \cup {mp_time_tail} |-> IF x \in G THEN Null ELSE c._pre[x]],
   _in_list    |-> [x \in Slave |-> IF x \in G THEN FALSE ELSE c._in_list[x]],
   _time_stamp |-> [x \in Slave |-> IF x \in G THEN 0 ELSE c._time_stamp[x]]]

\* Nothing freed, nothing changed.
LEMMA FreedNothing ==
  ASSUME NEW c, QueueTyped(c)
  PROVE  Freed(c, {}) = c
<1>1. /\ c._next = [x \in Slave \cup {mp_time_head} |-> c._next[x]]
      /\ c._pre = [x \in Slave \cup {mp_time_tail} |-> c._pre[x]]
      /\ c._in_list = [x \in Slave |-> c._in_list[x]]
      /\ c._time_stamp = [x \in Slave |-> c._time_stamp[x]]
  BY DEF QueueTyped
<1>2. c = [m_time_map |-> c.m_time_map, _next |-> c._next, _pre |-> c._pre,
           _in_list |-> c._in_list, _time_stamp |-> c._time_stamp]
  BY DEF QueueTyped
<1>3. /\ Freed(c, {}).m_time_map = c.m_time_map /\ Freed(c, {})._next = c._next
      /\ Freed(c, {})._pre = c._pre /\ Freed(c, {})._in_list = c._in_list
      /\ Freed(c, {})._time_stamp = c._time_stamp
  BY <1>1 DEF Freed
<1>4. Freed(c, {}) =
        [m_time_map |-> Freed(c, {}).m_time_map, _next |-> Freed(c, {})._next, _pre |-> Freed(c, {})._pre,
         _in_list |-> Freed(c, {})._in_list, _time_stamp |-> Freed(c, {})._time_stamp]
  BY DEF Freed
<1> QED BY <1>2, <1>3, <1>4

\* Freed nodes keep the type.
LEMMA FreedTyped ==
  ASSUME NEW c, QueueTyped(c), NEW G
  PROVE  QueueTyped(Freed(c, G))
<1>1. PICK f : f = [x \in Slave \cup {mp_time_head} |-> IF x \in G THEN Null ELSE c._next[x]]
  OBVIOUS
<1>2. PICK g : g = [x \in Slave \cup {mp_time_tail} |-> IF x \in G THEN Null ELSE c._pre[x]]
  OBVIOUS
<1>3. PICK L : L = [x \in Slave |-> IF x \in G THEN FALSE ELSE c._in_list[x]]
  OBVIOUS
<1>4. PICK T : T = [x \in Slave |-> IF x \in G THEN 0 ELSE c._time_stamp[x]]
  OBVIOUS
<1>5. PICK M : M = c.m_time_map \ G
  OBVIOUS
<1>6. Freed(c, G) = [m_time_map |-> M, _next |-> f, _pre |-> g, _in_list |-> L, _time_stamp |-> T]
  BY <1>1, <1>2, <1>3, <1>4, <1>5 DEF Freed
<1>7. /\ f \in [Slave \cup {mp_time_head} -> Slave \cup {mp_time_tail, Null}]
      /\ g \in [Slave \cup {mp_time_tail} -> Slave \cup {mp_time_head, Null}]
  BY <1>1, <1>2 DEF QueueTyped
<1>8. 0 \in 0..MaxTime
  BY TimeAssumption DEF TimeAssumption
<1>9. M \in SUBSET Slave /\ L \in [Slave -> BOOLEAN] /\ T \in [Slave -> 0..MaxTime]
  BY <1>3, <1>4, <1>5, <1>8 DEF QueueTyped
<1> QED BY <1>6, <1>7, <1>9 DEF QueueTyped

\* RemoveNode of a node that Check cut off only frees it.
LEMMA FreeingOne ==
  ASSUME NEW c, QueueTyped(c), NEW F, NEW s \in Slave, s \in c.m_time_map, s \notin F, ~c._in_list[s]
  PROVE  RemoveNode(Freed(c, F), s) = Freed(c, F \cup {s})
<1>1. PICK a : a = Freed(c, F)
  OBVIOUS
<1>2. PICK d : d = Freed(c, F \cup {s})
  OBVIOUS
<1>3. PICK r : r = RemoveNode(a, s)
  OBVIOUS
<1>4. s \in a.m_time_map /\ ~a._in_list[s]
  BY <1>1 DEF Freed
<1>5. r = Free([a EXCEPT !.m_time_map = @ \ {s}], s)
  BY <1>3, <1>4 DEF RemoveNode
<1>6. QueueTyped(a)
  BY <1>1, FreedTyped
<1>7. /\ r.m_time_map = a.m_time_map \ {s} /\ r._in_list = [a._in_list EXCEPT ![s] = FALSE]
      /\ r._time_stamp = [a._time_stamp EXCEPT ![s] = 0]
      /\ r._next = [a._next EXCEPT ![s] = Null] /\ r._pre = [a._pre EXCEPT ![s] = Null]
  BY <1>5, <1>6 DEF QueueTyped, Free
<1>8. r.m_time_map = d.m_time_map
  BY <1>1, <1>2, <1>7 DEF Freed
<1>9. r._next = d._next
  <2>1. PICK D : D = Slave \cup {mp_time_head}
    OBVIOUS
  <2>2. a._next = [x \in D |-> IF x \in F THEN Null ELSE c._next[x]]
    BY <1>1, <2>1 DEF Freed
  <2>3. d._next = [x \in D |-> IF x \in F \cup {s} THEN Null ELSE c._next[x]]
    BY <1>2, <2>1 DEF Freed
  <2>4. [a._next EXCEPT ![s] = Null] = [x \in D |-> IF x = s THEN Null ELSE a._next[x]]
    BY <2>2
  <2>5. \A x \in D : (IF x = s THEN Null ELSE a._next[x]) = IF x \in F \cup {s} THEN Null ELSE c._next[x]
    BY <2>2
  <2> QED BY <1>7, <2>3, <2>4, <2>5
<1>10. r._pre = d._pre
  <2>1. PICK D : D = Slave \cup {mp_time_tail}
    OBVIOUS
  <2>2. a._pre = [x \in D |-> IF x \in F THEN Null ELSE c._pre[x]]
    BY <1>1, <2>1 DEF Freed
  <2>3. d._pre = [x \in D |-> IF x \in F \cup {s} THEN Null ELSE c._pre[x]]
    BY <1>2, <2>1 DEF Freed
  <2>4. [a._pre EXCEPT ![s] = Null] = [x \in D |-> IF x = s THEN Null ELSE a._pre[x]]
    BY <2>2
  <2>5. \A x \in D : (IF x = s THEN Null ELSE a._pre[x]) = IF x \in F \cup {s} THEN Null ELSE c._pre[x]
    BY <2>2
  <2> QED BY <1>7, <2>3, <2>4, <2>5
<1>11. r._in_list = d._in_list
  <2>1. a._in_list = [x \in Slave |-> IF x \in F THEN FALSE ELSE c._in_list[x]]
    BY <1>1 DEF Freed
  <2>2. d._in_list = [x \in Slave |-> IF x \in F \cup {s} THEN FALSE ELSE c._in_list[x]]
    BY <1>2 DEF Freed
  <2>3. [a._in_list EXCEPT ![s] = FALSE] = [x \in Slave |-> IF x = s THEN FALSE ELSE a._in_list[x]]
    BY <2>1
  <2>4. \A x \in Slave :
          (IF x = s THEN FALSE ELSE a._in_list[x]) = IF x \in F \cup {s} THEN FALSE ELSE c._in_list[x]
    BY <2>1
  <2>5. r._in_list = [x \in Slave |-> IF x = s THEN FALSE ELSE a._in_list[x]]
    BY <1>7, <2>3
  <2> QED BY <2>2, <2>4, <2>5
<1>12. r._time_stamp = d._time_stamp
  <2>1. a._time_stamp = [x \in Slave |-> IF x \in F THEN 0 ELSE c._time_stamp[x]]
    BY <1>1 DEF Freed
  <2>2. d._time_stamp = [x \in Slave |-> IF x \in F \cup {s} THEN 0 ELSE c._time_stamp[x]]
    BY <1>2 DEF Freed
  <2>3. [a._time_stamp EXCEPT ![s] = 0] = [x \in Slave |-> IF x = s THEN 0 ELSE a._time_stamp[x]]
    BY <2>1
  <2>4. \A x \in Slave :
          (IF x = s THEN 0 ELSE a._time_stamp[x]) = IF x \in F \cup {s} THEN 0 ELSE c._time_stamp[x]
    BY <2>1
  <2> QED BY <1>7, <2>2, <2>3, <2>4
<1>13. d = [m_time_map |-> d.m_time_map, _next |-> d._next, _pre |-> d._pre,
            _in_list |-> d._in_list, _time_stamp |-> d._time_stamp]
  BY <1>2 DEF Freed
<1>14. r = [m_time_map |-> r.m_time_map, _next |-> r._next, _pre |-> r._pre,
            _in_list |-> r._in_list, _time_stamp |-> r._time_stamp]
  BY <1>5, <1>6 DEF QueueTyped, Free
<1> QED BY <1>1, <1>2, <1>3, <1>8, <1>9, <1>10, <1>11, <1>12, <1>13, <1>14

\* The loop of CheckSlaveTimeout frees the nodes one after the other.
LEMMA RemovingEach ==
  ASSUME NEW c, QueueTyped(c), NEW k \in Nat, NEW node,
         \A i \in 1..k : node[i] \in Slave /\ node[i] \in c.m_time_map /\ ~c._in_list[node[i]],
         \A i, j \in 1..k : node[i] = node[j] => i = j
  PROVE  RemoveEach(c, Section(node, 1, k + 1)) = Freed(c, FirstNodes(node, k))
<1>1. PICK vec : vec = Section(node, 1, k + 1)
  OBVIOUS
<1>2. k + 1 - 1 = k /\ vec = [i \in 1..k |-> node[1 + i - 1]]
  <2>1. k + 1 - 1 = k
    OBVIOUS
  <2> QED BY <1>1, <2>1 DEF Section
<1>3. Len(vec) = k /\ \A i \in 1..k : vec[i] = node[i]
  <2>1. \A i \in 1..k : 1 + i - 1 = i
    OBVIOUS
  <2>2. \A i \in 1..k : vec[i] = node[i]
    BY <1>2, <2>1
  <2>3. vec \in Seq({node[i] : i \in 1..k}) /\ DOMAIN vec = 1..k
    BY <1>2, <2>1
  <2> QED BY <2>2, <2>3
<1> DEFINE Step(i, w) == IF i = 0 THEN c ELSE RemoveNode(w[i - 1], vec[i])
           w0 == [i \in 0..k |-> Freed(c, FirstNodes(node, i))]
           after == CHOOSE w : w = [i \in 0..k |-> Step(i, w)]
<1>4. Freed(c, FirstNodes(node, 0)) = c
  <2>1. FirstNodes(node, 0) = {}
    BY DEF FirstNodes
  <2> QED BY <2>1, FreedNothing
<1>5. ASSUME NEW i \in 1..k
      PROVE  RemoveNode(Freed(c, FirstNodes(node, i - 1)), vec[i]) = Freed(c, FirstNodes(node, i))
  <2>1. PICK s : s = node[i]
    OBVIOUS
  <2>2. s \in Slave /\ s \in c.m_time_map /\ ~c._in_list[s] /\ vec[i] = s
    BY <1>3, <2>1
  <2>3. s \notin FirstNodes(node, i - 1)
    <3>1. \A j \in 1..i - 1 : j \in 1..k /\ j # i
      OBVIOUS
    <3> QED BY <2>1, <3>1 DEF FirstNodes
  <2>4. FirstNodes(node, i) = FirstNodes(node, i - 1) \cup {s}
    <3>1. \A j \in 1..i : j = i \/ j \in 1..i - 1
      OBVIOUS
    <3>2. i \in 1..i /\ \A j \in 1..i - 1 : j \in 1..i
      OBVIOUS
    <3> QED BY <2>1, <3>1, <3>2 DEF FirstNodes
  <2> QED BY <2>2, <2>3, <2>4, FreeingOne
<1>6. w0 = [i \in 0..k |-> Step(i, w0)]
  <2>1. ASSUME NEW i \in 0..k PROVE w0[i] = Step(i, w0)
    <3>1. CASE i = 0
      BY <1>4, <3>1
    <3>2. CASE i # 0
      <4>1. i \in 1..k /\ i - 1 \in 0..k
        BY <3>2
      <4>2. w0[i - 1] = Freed(c, FirstNodes(node, i - 1)) /\ w0[i] = Freed(c, FirstNodes(node, i))
        BY <4>1
      <4> QED BY <1>5, <3>2, <4>1, <4>2
    <3> QED BY <3>1, <3>2
  <2> HIDE DEF Step
  <2> QED BY <2>1
<1> HIDE DEF w0
<1>7. after = [i \in 0..k |-> Step(i, after)]
  BY <1>6
<1>8. RemoveEach(c, vec) = after[k]
  BY <1>3 DEF RemoveEach
<1> HIDE DEF after
<1> DEFINE Good == {i \in 0..k : after[i] = Freed(c, FirstNodes(node, i))}
<1>9. 0 \in Good
  BY <1>4, <1>7
<1>10. ASSUME NEW i \in 0..k, i # k, i \in Good PROVE i + 1 \in Good
  <2>1. PICK j \in 1..k : j = i + 1 /\ j - 1 = i /\ j \in 0..k /\ j # 0
    BY <1>10
  <2>2. after[j] = RemoveNode(after[j - 1], vec[j])
    BY <1>7, <2>1
  <2>3. after[j] = Freed(c, FirstNodes(node, j))
    BY <1>5, <1>10, <2>1, <2>2
  <2> QED BY <2>1, <2>3
<1> HIDE DEF Good
<1>11. \A i \in 0..k : i \in Good
  <2>1. 0 \in Nat
    OBVIOUS
  <2> QED BY <1>9, <1>10, <2>1, Upward
<1>12. after[k] = Freed(c, FirstNodes(node, k))
  <2>1. k \in 0..k
    OBVIOUS
  <2> QED BY <1>11, <2>1 DEF Good
<1> QED BY <1>1, <1>8, <1>12

\* Check cuts the k first nodes off the list and leaves them in the map.
LEMMA Cutting ==
  ASSUME NEW q, QueueTyped(q), NEW n, NEW node, IsList(q, n, node), NEW k \in 1..n,
         timeout_nodes(q) = Section(node, 1, k + 1), NEW c, c = Check(q)
  PROVE  /\ QueueTyped(c) /\ Chain(c, n - k, Rest(n, node, k))
         /\ c.m_time_map = q.m_time_map /\ c._time_stamp = q._time_stamp
         /\ \A s \in Slave : c._in_list[s] <=> s \in q.m_time_map \ FirstNodes(node, k)
<1>1. /\ n \in Nat /\ k \in Nat /\ Chain(q, n, node) /\ QueueTyped(q)
      /\ node[0] = mp_time_head /\ node[n + 1] = mp_time_tail
      /\ \A i \in 1..n : node[i] \in Slave
  BY ListFacts
<1>2. PICK found : found = Section(node, 1, k + 1)
  OBVIOUS
<1>3. found = [i \in 1..k |-> node[i]]
  <2>1. k + 1 - 1 = k /\ \A i \in 1..k : 1 + i - 1 = i
    BY <1>1
  <2> QED BY <1>2, <2>1 DEF Section
<1>4. found \in Seq({node[i] : i \in 1..k}) /\ Len(found) = k /\ found # <<>>
  <2>1. found \in Seq({node[i] : i \in 1..k}) /\ DOMAIN found = 1..k
    BY <1>1, <1>3
  <2> QED BY <1>1, <2>1
<1>5. ToSet(found) = FirstNodes(node, k)
  BY <1>3 DEF ToSet, FirstNodes
<1>6. found[1] = node[1] /\ found[Len(found)] = node[k]
  BY <1>1, <1>3, <1>4
<1>7. q._next[node[k]] = node[k + 1]
  <2>1. k \in 0..n
    BY <1>1
  <2> QED BY <1>1, <2>1 DEF Chain
<1>8. PICK beg : beg = node[1]
  OBVIOUS
<1>9. PICK end : end = node[k]
  OBVIOUS
<1>10. PICK y : y = node[k + 1]
  OBVIOUS
<1>11. /\ beg \in Slave /\ end \in Slave /\ y \in Slave \cup {mp_time_tail} /\ beg # y
  <2>1. /\ 1 \in 1..n /\ k \in 1..n /\ (k + 1 \in 1..n \/ k + 1 = n + 1)
        /\ 1 \in 0..n + 1 /\ k + 1 \in 0..n + 1 /\ k + 1 # 1
    BY <1>1
  <2>2. beg # y
    BY <1>1, <1>8, <1>10, <2>1, NodesDiffer
  <2> QED BY <1>1, <1>8, <1>9, <1>10, <2>1, <2>2
<1>12. PICK f : f = [q._next EXCEPT ![mp_time_head] = y, ![end] = Null]
  OBVIOUS
<1>13. PICK g : g = [q._pre EXCEPT ![y] = mp_time_head, ![beg] = Null]
  OBVIOUS
<1>14. PICK L : L = [s \in Slave |-> q._in_list[s] /\ s \notin FirstNodes(node, k)]
  OBVIOUS
<1>15. c = [q EXCEPT !._next = f, !._pre = g, !._in_list = L]
  BY <1>2, <1>4, <1>5, <1>6, <1>7, <1>8, <1>9, <1>10, <1>12, <1>13, <1>14 DEF Check
<1>16. /\ q._next \in [Slave \cup {mp_time_head} -> Slave \cup {mp_time_tail, Null}]
       /\ q._pre \in [Slave \cup {mp_time_tail} -> Slave \cup {mp_time_head, Null}]
  BY DEF QueueTyped
<1>17. /\ f \in [Slave \cup {mp_time_head} -> Slave \cup {mp_time_tail, Null}]
       /\ g \in [Slave \cup {mp_time_tail} -> Slave \cup {mp_time_head, Null}]
       /\ L \in [Slave -> BOOLEAN]
  BY <1>11, <1>12, <1>13, <1>14, <1>16
<1>18. QueueTyped(c)
  BY <1>15, <1>17 DEF QueueTyped
<1>19. /\ c.m_time_map = q.m_time_map /\ c._time_stamp = q._time_stamp
       /\ c._next = f /\ c._pre = g /\ c._in_list = L
  BY <1>15 DEF QueueTyped
<1>20. \A s \in Slave : c._in_list[s] <=> s \in q.m_time_map \ FirstNodes(node, k)
  BY <1>14, <1>19 DEF IsList
<1>21. PICK m : m = Rest(n, node, k)
  OBVIOUS
<1>22. /\ m[0] = mp_time_head
       /\ \A i \in 1..n - k + 1 : m[i] = node[i + k] /\ i + k \in k + 1..n + 1 /\ i + k \in 0..n + 1
       /\ m = [i \in 0..n - k + 1 |-> m[i]]
  <2>1. /\ 0 \in 0..n - k + 1
        /\ \A i \in 1..n - k + 1 : i \in 0..n - k + 1 /\ i # 0 /\ i + k \in k + 1..n + 1 /\ i + k \in 0..n + 1
    BY <1>1
  <2> QED BY <1>21, <2>1 DEF Rest
<1>23. ASSUME NEW i \in 1..n - k PROVE i \in 1..n - k + 1 /\ m[i] \in Slave
  <2>1. i \in 1..n - k + 1 /\ i + k \in 1..n
    BY <1>1
  <2> QED BY <1>1, <1>22, <2>1
<1>24. m[n - k + 1] = mp_time_tail
  <2>1. PICK i \in 1..n - k + 1 : i = n - k + 1 /\ i + k = n + 1
    BY <1>1
  <2>2. m[i] = node[i + k]
    BY <1>22
  <2> QED BY <1>1, <2>1, <2>2
<1>25. m \in [0..n - k + 1 -> Slave \cup {mp_time_head, mp_time_tail}]
  <2>1. \A i \in 0..n - k + 1 : i = 0 \/ i = n - k + 1 \/ i \in 1..n - k
    BY <1>1
  <2>2. \A i \in 0..n - k + 1 : m[i] \in Slave \cup {mp_time_head, mp_time_tail}
    BY <1>22, <1>23, <1>24, <2>1
  <2> QED BY <1>22, <2>2
<1>26. \A i, j \in 1..n - k : m[i] = m[j] => i = j
  <2> SUFFICES ASSUME NEW i \in 1..n - k, NEW j \in 1..n - k, m[i] = m[j] PROVE i = j
    OBVIOUS
  <2>1. node[i + k] = node[j + k] /\ i + k \in 0..n + 1 /\ j + k \in 0..n + 1
    BY <1>22, <1>23
  <2>2. i + k = j + k
    BY <1>1, <2>1, NodesDiffer
  <2> QED BY <1>1, <2>2
<1>27. ASSUME NEW i \in 0..n - k PROVE c._next[m[i]] = m[i + 1]
  <2>0. PICK l \in 1..n - k + 1 : l = i + 1
    BY <1>1
  <2>1. m[i + 1] = node[i + 1 + k]
    BY <1>22, <2>0
  <2>2. CASE i = 0
    <3>1. m[i + 1] = y
      BY <1>1, <1>10, <2>1, <2>2
    <3> QED BY <1>11, <1>12, <1>16, <1>19, <1>22, <2>2, <3>1, Nodes
  <2>3. CASE i # 0
    <3>1. PICK j \in 1..n : /\ j = i + k /\ j + 1 = i + 1 + k /\ j # k
                           /\ j \in 0..n /\ j \in 0..n + 1 /\ k \in 0..n + 1
      BY <1>1, <2>3
    <3>2. m[i] = node[j]
      <4>1. i \in 1..n - k + 1
        BY <1>1, <2>3
      <4> QED BY <1>22, <3>1, <4>1
    <3>3. node[j] # end /\ node[j] # mp_time_head /\ node[j] \in Slave
      BY <1>1, <1>9, <3>1, NodesDiffer, Nodes
    <3>4. q._next[node[j]] = node[j + 1]
      BY <1>1, <3>1 DEF Chain
    <3> QED BY <1>12, <1>16, <1>19, <2>1, <3>1, <3>2, <3>3, <3>4
  <2> QED BY <2>2, <2>3
<1>28. ASSUME NEW i \in 1..n - k + 1 PROVE c._pre[m[i]] = m[i - 1]
  <2>1. m[i] = node[i + k]
    BY <1>22
  <2>2. CASE i = 1
    <3>1. m[i] = y /\ m[i - 1] = mp_time_head
      <4>1. i + k = k + 1 /\ i - 1 = 0
        BY <1>1, <2>2
      <4> QED BY <1>10, <1>22, <2>1, <4>1
    <3> QED BY <1>11, <1>13, <1>16, <1>19, <3>1
  <2>3. CASE i # 1
    <3>1. PICK j \in 1..n + 1 : /\ j = i + k /\ j - 1 = i - 1 + k /\ j # k + 1 /\ j # 1
                               /\ j \in 0..n + 1 /\ k + 1 \in 0..n + 1 /\ 1 \in 0..n + 1
      BY <1>1, <2>3
    <3>2. m[i] = node[j] /\ m[i - 1] = node[j - 1]
      <4>1. PICK l \in 1..n - k + 1 : l = i - 1
        BY <1>1, <2>3
      <4>2. m[l] = node[l + k]
        BY <1>22
      <4> QED BY <2>1, <3>1, <4>1, <4>2
    <3>3. node[j] # y /\ node[j] # beg
      BY <1>1, <1>8, <1>10, <3>1, NodesDiffer
    <3>4. q._pre[node[j]] = node[j - 1] /\ node[j] \in DOMAIN q._pre
      <4>1. j = n + 1 \/ j \in 1..n
        BY <1>1, <3>1
      <4> QED BY <1>1, <1>16, <3>1, <4>1 DEF Chain
    <3> QED BY <1>13, <1>16, <1>19, <3>2, <3>3, <3>4
  <2> QED BY <2>2, <2>3
<1>29. Chain(c, n - k, m)
  <2>1. n - k \in Nat
    BY <1>1
  <2> QED BY <1>22, <1>23, <1>24, <1>25, <1>26, <1>27, <1>28, <2>1 DEF Chain
<1> QED BY <1>18, <1>19, <1>20, <1>21, <1>29

\* Check and the loop together leave the list behind the found nodes.
LEMMA Checking ==
  ASSUME NEW q, QueueTyped(q), NEW n, NEW node, IsList(q, n, node), NEW b,
         Stop(OnTime(q, n, node), n, 1, b), NEW r, r = RemoveEach(Check(q), timeout_nodes(q))
  PROVE  /\ b \in 1..n + 1 /\ ToSet(timeout_nodes(q)) = FirstNodes(node, b - 1)
         /\ QueueTyped(r) /\ IsList(r, n - (b - 1), Rest(n, node, b - 1))
         /\ r.m_time_map = q.m_time_map \ FirstNodes(node, b - 1)
         /\ \A s \in Slave : r._time_stamp[s] =
                               IF s \in FirstNodes(node, b - 1) THEN 0 ELSE q._time_stamp[s]
<1>1. /\ n \in Nat /\ Chain(q, n, node) /\ q.m_time_map = {node[i] : i \in 1..n}
      /\ \A i \in 1..n : node[i] \in Slave /\ node[i] \in q.m_time_map
      /\ node[0] = mp_time_head
  BY ListFacts
<1>2. b \in 1..n + 1
  BY DEF Stop
<1>3. PICK k \in 0..n : k = b - 1 /\ b = k + 1
  BY <1>1, <1>2
<1>4. timeout_nodes(q) = Section(node, 1, k + 1)
  BY <1>3, TimeoutNodes
<1>5. ToSet(timeout_nodes(q)) = FirstNodes(node, k)
  <2>1. Section(node, 1, k + 1) = [i \in 1..k |-> node[i]]
    <3>1. k + 1 - 1 = k /\ \A i \in 1..k : 1 + i - 1 = i
      OBVIOUS
    <3> QED BY <3>1 DEF Section
  <2> QED BY <1>4, <2>1 DEF ToSet, FirstNodes
<1>6. PICK G : G = FirstNodes(node, k)
  OBVIOUS
<1>7. PICK c : c = Check(q)
  OBVIOUS
<1>8. PICK m : m = Rest(n, node, k)
  OBVIOUS
<1>9. /\ QueueTyped(c) /\ Chain(c, n - k, m)
      /\ c.m_time_map = q.m_time_map /\ c._time_stamp = q._time_stamp
      /\ \A s \in Slave : c._in_list[s] <=> s \in q.m_time_map \ G
  <2>1. CASE k = 0
    <3>1. timeout_nodes(q) = <<>>
      <4>1. 1..0 + 1 - 1 = {}
        OBVIOUS
      <4> QED BY <1>4, <2>1, <4>1 DEF Section
    <3>2. c = q
      BY <1>7, <3>1 DEF Check
    <3>3. G = {}
      BY <1>6, <2>1 DEF FirstNodes
    <3>4. m = node /\ n - k = n
      <4>1. n - k = n /\ \A i \in 0..n + 1 : i + k = i
        BY <1>1, <2>1
      <4>2. node = [i \in 0..n + 1 |-> node[i]]
        BY <1>1 DEF Chain
      <4>3. m = [i \in 0..n + 1 |-> node[i]]
        BY <1>1, <1>8, <4>1 DEF Rest
      <4> QED BY <4>1, <4>2, <4>3
    <3> QED BY <1>1, <3>2, <3>3, <3>4 DEF IsList
  <2>2. CASE k # 0
    <3>1. k \in 1..n
      BY <2>2
    <3> QED BY <1>4, <1>6, <1>7, <1>8, <3>1, Cutting
  <2> QED BY <2>1, <2>2
<1>10. r = Freed(c, G)
  <2>1. \A i \in 1..k : i \in 1..n
    BY <1>1
  <2>2. \A i \in 1..k : node[i] \in Slave /\ node[i] \in c.m_time_map /\ ~c._in_list[node[i]]
    <3> SUFFICES ASSUME NEW i \in 1..k
                 PROVE  node[i] \in Slave /\ node[i] \in c.m_time_map /\ ~c._in_list[node[i]]
      OBVIOUS
    <3>1. node[i] \in Slave /\ node[i] \in q.m_time_map /\ node[i] \in G
      BY <1>1, <1>6, <2>1 DEF FirstNodes
    <3> QED BY <1>9, <3>1
  <2>3. \A i, j \in 1..k : node[i] = node[j] => i = j
    BY <1>1, <2>1 DEF Chain
  <2>4. k \in Nat
    OBVIOUS
  <2>5. RemoveEach(c, Section(node, 1, k + 1)) = Freed(c, G)
    BY <1>6, <1>9, <2>2, <2>3, <2>4, RemovingEach
  <2> QED BY <1>4, <1>7, <2>5
<1>11. QueueTyped(r)
  BY <1>9, <1>10, FreedTyped
<1>12. /\ r.m_time_map = q.m_time_map \ G
       /\ \A s \in Slave : r._time_stamp[s] = IF s \in G THEN 0 ELSE q._time_stamp[s]
       /\ \A s \in Slave : r._in_list[s] <=> s \in r.m_time_map
       /\ \A x \in Slave \cup {mp_time_head} : x \notin G => r._next[x] = c._next[x]
       /\ \A x \in Slave \cup {mp_time_tail} : x \notin G => r._pre[x] = c._pre[x]
  BY <1>9, <1>10 DEF Freed
<1>13. n - k \in Nat /\ \A i \in 1..n - k : i + k \in 1..n /\ i + k \notin 1..k
  BY <1>1
<1>14. \A i \in 1..n - k : m[i] = node[i + k]
  <2>1. \A i \in 1..n - k : i \in 0..n - k + 1 /\ i # 0
    BY <1>13
  <2> QED BY <1>8, <2>1 DEF Rest
<1>15. \A i \in 1..n - k : m[i] \in Slave /\ m[i] \notin G
  <2> SUFFICES ASSUME NEW i \in 1..n - k PROVE m[i] \in Slave /\ m[i] \notin G
    OBVIOUS
  <2>1. PICK l \in 1..n : l = i + k /\ l \notin 1..k
    BY <1>13
  <2>2. m[i] = node[l]
    BY <1>14, <2>1
  <2>3. \A j \in 1..k : j \in 1..n /\ j # l
    BY <1>1, <2>1
  <2>4. node[l] \notin G
    BY <1>1, <1>6, <2>1, <2>3 DEF FirstNodes, Chain
  <2> QED BY <1>1, <2>1, <2>2, <2>4
<1>16. mp_time_head \notin G /\ mp_time_tail \notin G
  <2>1. \A j \in 1..k : j \in 1..n
    BY <1>1
  <2> QED BY <1>1, <1>6, <2>1, Nodes DEF FirstNodes
<1>17. Chain(r, n - k, m)
  <2>1. \A i \in 0..n - k : r._next[m[i]] = c._next[m[i]]
    <3> SUFFICES ASSUME NEW i \in 0..n - k PROVE r._next[m[i]] = c._next[m[i]]
      OBVIOUS
    <3>1. i = 0 \/ i \in 1..n - k
      BY <1>13
    <3>2. m[i] \in Slave \cup {mp_time_head} /\ m[i] \notin G
      BY <1>9, <1>15, <1>16, <3>1 DEF Chain
    <3> QED BY <1>12, <3>2
  <2>2. \A i \in 1..n - k + 1 : r._pre[m[i]] = c._pre[m[i]]
    <3> SUFFICES ASSUME NEW i \in 1..n - k + 1 PROVE r._pre[m[i]] = c._pre[m[i]]
      OBVIOUS
    <3>1. i = n - k + 1 \/ i \in 1..n - k
      BY <1>13
    <3>2. m[i] \in Slave \cup {mp_time_tail} /\ m[i] \notin G
      BY <1>9, <1>15, <1>16, <3>1 DEF Chain
    <3> QED BY <1>12, <3>2
  <2> QED BY <1>9, <2>1, <2>2, ChainStays
<1>18. Members(n - k, m) = q.m_time_map \ G
  <2>1. \A i \in 1..n - k : m[i] \in q.m_time_map \ G
    BY <1>1, <1>13, <1>14, <1>15
  <2>2. ASSUME NEW x \in q.m_time_map \ G PROVE x \in Members(n - k, m)
    <3>1. PICK j \in 1..n : x = node[j]
      BY <1>1
    <3>2. j \notin 1..k
      BY <1>6, <2>2, <3>1 DEF FirstNodes
    <3>3. PICK i \in 1..n - k : i = j - k /\ i + k = j
      BY <1>1, <3>2
    <3>4. m[i] = x
      BY <1>14, <3>1, <3>3
    <3> QED BY <3>4 DEF Members
  <2> QED BY <2>1, <2>2 DEF Members
<1>19. IsList(r, n - k, m)
  BY <1>12, <1>17, <1>18 DEF IsList
<1> QED BY <1>2, <1>3, <1>5, <1>6, <1>8, <1>11, <1>12, <1>19

-----------------------------------------------------------------------------
(* The order of the stamps, which a clock that goes on keeps.                *)

InOrder(stamp, n, node) == \A i, j \in 1..n : i <= j => stamp[node[i]] <= stamp[node[j]]

\* Other stamps do not matter.
LEMMA OrderSame ==
  ASSUME NEW n, NEW node, NEW stamp, InOrder(stamp, n, node), NEW new,
         \A i \in 1..n : new[node[i]] = stamp[node[i]]
  PROVE  InOrder(new, n, node)
BY DEF InOrder

\* The order stays when a node leaves.
LEMMA OrderWithout ==
  ASSUME NEW n \in Nat, NEW node, NEW stamp, InOrder(stamp, n, node), NEW p \in 1..n
  PROVE  InOrder(stamp, n - 1, Without(n, node, p))
<1>1. PICK m : m = Without(n, node, p)
  OBVIOUS
<1>2. \A i \in 0..n : m[i] = IF i < p THEN node[i] ELSE node[i + 1]
  BY <1>1 DEF Without
<1>3. ASSUME NEW i \in 1..n - 1, NEW j \in 1..n - 1, i <= j PROVE stamp[m[i]] <= stamp[m[j]]
  <2>1. PICK k \in 1..n : m[i] = node[k] /\ k = IF i < p THEN i ELSE i + 1
    <3>1. i \in 0..n /\ i \in 1..n /\ i + 1 \in 1..n
      OBVIOUS
    <3> QED BY <1>2, <3>1
  <2>2. PICK l \in 1..n : m[j] = node[l] /\ l = IF j < p THEN j ELSE j + 1
    <3>1. j \in 0..n /\ j \in 1..n /\ j + 1 \in 1..n
      OBVIOUS
    <3> QED BY <1>2, <3>1
  <2>3. k <= l
    BY <1>3, <2>1, <2>2
  <2> QED BY <2>1, <2>2, <2>3 DEF InOrder
<1> QED BY <1>1, <1>3 DEF InOrder

\* The order stays when a node with the time as its stamp comes last.
LEMMA OrderWith ==
  ASSUME NEW n \in Nat, NEW node, \A i \in 1..n : node[i] \in Slave,
         NEW stamp \in [Slave -> 0..MaxTime], InOrder(stamp, n, node),
         NEW s \in Slave, \A i \in 1..n : node[i] # s, now \in 0..MaxTime,
         \A i \in 1..n : stamp[node[i]] <= now
  PROVE  InOrder([stamp EXCEPT ![s] = now], n + 1, With(n, node, n + 1, s))
<1>1. PICK m : m = With(n, node, n + 1, s)
  OBVIOUS
<1>2. PICK new : new = [stamp EXCEPT ![s] = now]
  OBVIOUS
<1>3. new[s] = now /\ \A i \in 1..n : new[node[i]] = stamp[node[i]]
  BY <1>2
<1>4. m[n + 1] = s /\ \A i \in 1..n : m[i] = node[i]
  <2>1. n + 1 \in 0..n + 2 /\ ~(n + 1 < n + 1) /\ \A i \in 1..n : i \in 0..n + 2 /\ i < n + 1
    OBVIOUS
  <2> QED BY <1>1, <2>1 DEF With
<1>5. ASSUME NEW i \in 1..n + 1, NEW j \in 1..n + 1, i <= j PROVE new[m[i]] <= new[m[j]]
  <2>1. CASE j \in 1..n
    <3>1. i \in 1..n
      BY <1>5, <2>1
    <3> QED BY <1>3, <1>4, <1>5, <2>1, <3>1 DEF InOrder
  <2>2. CASE j = n + 1 /\ i \in 1..n
    BY <1>3, <1>4, <2>2
  <2>3. CASE j = n + 1 /\ i = n + 1
    BY <1>3, <1>4, <2>3
  <2> QED BY <2>1, <2>2, <2>3
<1> QED BY <1>1, <1>2, <1>5 DEF InOrder

\* The order stays when the first nodes leave.
LEMMA OrderRest ==
  ASSUME NEW n \in Nat, NEW node, NEW stamp, InOrder(stamp, n, node), NEW k \in 0..n
  PROVE  InOrder(stamp, n - k, Rest(n, node, k))
<1>1. PICK m : m = Rest(n, node, k)
  OBVIOUS
<1>2. \A i \in 1..n - k : m[i] = node[i + k] /\ i + k \in 1..n
  <2>1. \A i \in 1..n - k : i \in 0..n - k + 1 /\ i # 0 /\ i + k \in 1..n
    OBVIOUS
  <2> QED BY <1>1, <2>1 DEF Rest
<1>3. ASSUME NEW i \in 1..n - k, NEW j \in 1..n - k, i <= j PROVE stamp[m[i]] <= stamp[m[j]]
  <2>1. PICK a \in 1..n : a = i + k
    BY <1>2
  <2>2. PICK b \in 1..n : b = j + k
    BY <1>2
  <2>3. m[i] = node[a] /\ m[j] = node[b]
    BY <1>2, <2>1, <2>2
  <2>4. a <= b
    BY <1>3, <2>1, <2>2
  <2> QED BY <2>3, <2>4 DEF InOrder
<1> QED BY <1>1, <1>3 DEF InOrder

\* The list in the queue, ordered unless the clock was set back.
Listed(q, n, node) == IsList(q, n, node) /\ (~set_back => InOrder(q._time_stamp, n, node))

\* The new node comes last.
LEMMA AppendingInOrder ==
  ASSUME NEW q, QueueTyped(q), NEW n, NEW node, Listed(q, n, node), NEW s \in Slave,
         s \notin q.m_time_map, now \in 0..MaxTime,
         ~set_back => \A x \in Slave : q._time_stamp[x] <= now, NEW r, r = AppendNode(q, s)
  PROVE  /\ QueueTyped(r) /\ Listed(r, n + 1, With(n, node, n + 1, s))
         /\ r.m_time_map = q.m_time_map \cup {s}
         /\ r._time_stamp = [q._time_stamp EXCEPT ![s] = now]
<1>1. IsList(q, n, node)
  BY DEF Listed
<1>2. /\ QueueTyped(r) /\ IsList(r, n + 1, With(n, node, n + 1, s))
      /\ r.m_time_map = q.m_time_map \cup {s}
      /\ r._time_stamp = [q._time_stamp EXCEPT ![s] = now]
  BY <1>1, Appending
<1>3. ASSUME ~set_back PROVE InOrder(r._time_stamp, n + 1, With(n, node, n + 1, s))
  <2>1. /\ n \in Nat /\ \A i \in 1..n : node[i] \in Slave /\ node[i] \in q.m_time_map
        /\ q._time_stamp \in [Slave -> 0..MaxTime]
    BY <1>1, ListFacts DEF QueueTyped
  <2>2. /\ \A i \in 1..n : node[i] # s
        /\ \A i \in 1..n : q._time_stamp[node[i]] <= now
    BY <1>3, <2>1
  <2> QED BY <1>2, <1>3, <2>1, <2>2, OrderWith DEF Listed
<1> QED BY <1>2, <1>3 DEF Listed

\* Refresh gives a node its new stamp and its place, the last unless the clock was set back.
LEMMA Refreshing ==
  ASSUME NEW q, QueueTyped(q), NEW n, NEW node, Listed(q, n, node), NEW s \in q.m_time_map,
         now \in 0..MaxTime,
         ~set_back => \A x \in Slave : q._time_stamp[x] <= now, NEW r, r = Refresh(q, s)
  PROVE  /\ QueueTyped(r) /\ \E k, m : Listed(r, k, m)
         /\ r.m_time_map = q.m_time_map
         /\ r._time_stamp = [q._time_stamp EXCEPT ![s] = now]
<1>1. /\ IsList(q, n, node) /\ n \in Nat /\ s \in Slave
      /\ q.m_time_map = {node[i] : i \in 1..n} /\ Chain(q, n, node)
      /\ \A i \in 1..n : node[i] \in Slave
  BY ListFacts DEF Listed
<1>2. PICK p \in 1..n : node[p] = s
  BY <1>1
<1>3. PICK T : T = [q._time_stamp EXCEPT ![s] = now]
  OBVIOUS
<1>4. T \in [Slave -> 0..MaxTime] /\ q._time_stamp \in [Slave -> 0..MaxTime]
  BY <1>3 DEF QueueTyped
<1>5. PICK u : u = [q EXCEPT !._time_stamp = T]
  OBVIOUS
<1>6. r = reorder_with_time(u, s)
  BY <1>3, <1>5 DEF Refresh
<1>7. QueueTyped(u)
  BY <1>4, <1>5 DEF QueueTyped
<1>8. /\ u.m_time_map = q.m_time_map /\ u._next = q._next /\ u._pre = q._pre
      /\ u._in_list = q._in_list /\ u._time_stamp = T
  BY <1>5 DEF QueueTyped
<1>9. IsList(u, n, node)
  BY <1>1, <1>8 DEF IsList, Chain
<1>10. PICK b : Stop(Later(u, n, node, s), n, p, b)
  <2>1. n + 1 \in Later(u, n, node, s) /\ p \in 0..n + 1
    BY <1>1 DEF Later
  <2> QED BY <1>1, <2>1, StopExists
<1>11. PICK m : m = Without(n, node, p)
  OBVIOUS
<1>12. /\ b \in p + 1..n + 1 /\ QueueTyped(r) /\ IsList(r, n, With(n - 1, m, b - 1, s))
       /\ SameBut(u, r)
  BY <1>2, <1>6, <1>7, <1>9, <1>10, <1>11, Reordering
<1>13. r.m_time_map = q.m_time_map /\ r._time_stamp = T
  BY <1>8, <1>12 DEF SameBut
<1>14. ASSUME ~set_back PROVE InOrder(T, n, With(n - 1, m, b - 1, s))
  <2>1. b = n + 1
    <3>1. \A i \in 1..n : ~(T[s] < T[node[i]])
      <4> SUFFICES ASSUME NEW i \in 1..n PROVE ~(T[s] < T[node[i]])
        OBVIOUS
      <4>1. T[s] = now /\ T[s] \in Int
        BY <1>1, <1>3, <1>4
      <4>2. T[node[i]] = now \/ T[node[i]] = q._time_stamp[node[i]]
        BY <1>1, <1>3, <1>4
      <4>3. q._time_stamp[node[i]] <= now /\ q._time_stamp[node[i]] \in Int /\ now \in Int
        BY <1>1, <1>4, <1>14
      <4> QED BY <4>1, <4>2, <4>3
    <3>2. b \in Later(u, n, node, s)
      BY <1>10 DEF Stop
    <3> QED BY <1>1, <1>8, <3>1, <3>2 DEF Later
  <2>2. InOrder(q._time_stamp, n - 1, m)
    BY <1>1, <1>11, <1>14, OrderWithout DEF Listed
  <2>3. \A i \in 1..n - 1 : m[i] \in Slave /\ m[i] # s
    <3>1. Members(n - 1, m) = q.m_time_map \ {s}
      BY <1>1, <1>2, <1>11, MembersWithout DEF IsList
    <3>2. \A i \in 1..n - 1 : m[i] \in q.m_time_map \ {s}
      BY <3>1 DEF Members
    <3> QED BY <3>2 DEF QueueTyped
  <2>4. \A i \in 1..n - 1 : q._time_stamp[m[i]] <= now
    BY <1>14, <2>3
  <2>5. n - 1 \in Nat /\ n - 1 + 1 = n /\ b - 1 = n
    BY <1>1, <2>1
  <2>6. InOrder([q._time_stamp EXCEPT ![s] = now], n - 1 + 1, With(n - 1, m, n - 1 + 1, s))
    BY <1>1, <1>4, <2>2, <2>3, <2>4, <2>5, OrderWith
  <2> QED BY <1>3, <2>5, <2>6
<1>15. Listed(r, n, With(n - 1, m, b - 1, s))
  BY <1>12, <1>13, <1>14 DEF Listed
<1> QED BY <1>3, <1>12, <1>13, <1>15

\* A heartbeat of s: the list holds s, and its stamp is the time.
LEMMA Pulsing ==
  ASSUME NEW q, QueueTyped(q), NEW n, NEW node, Listed(q, n, node), NEW s \in Slave,
         now \in 0..MaxTime, ~set_back => \A x \in Slave : q._time_stamp[x] <= now,
         NEW r, r = Refresh(IF s \in q.m_time_map THEN q ELSE AppendNode(q, s), s)
  PROVE  /\ QueueTyped(r) /\ \E k, m : Listed(r, k, m)
         /\ r.m_time_map = q.m_time_map \cup {s}
         /\ r._time_stamp = [q._time_stamp EXCEPT ![s] = now]
<1>1. CASE s \in q.m_time_map
  BY <1>1, Refreshing
<1>2. CASE s \notin q.m_time_map
  <2>1. PICK u : u = AppendNode(q, s)
    OBVIOUS
  <2>2. PICK m : m = With(n, node, n + 1, s)
    OBVIOUS
  <2>3. PICK k : /\ QueueTyped(u) /\ Listed(u, k, m) /\ u.m_time_map = q.m_time_map \cup {s}
                 /\ u._time_stamp = [q._time_stamp EXCEPT ![s] = now]
    BY <1>2, <2>1, <2>2, AppendingInOrder
  <2>4. q._time_stamp \in [Slave -> 0..MaxTime]
    BY DEF QueueTyped
  <2>5. ~set_back => \A x \in Slave : u._time_stamp[x] <= now
    BY <2>3, <2>4
  <2>6. r = Refresh(u, s) /\ s \in u.m_time_map
    BY <1>2, <2>1, <2>3
  <2>7. /\ QueueTyped(r) /\ \E i, l : Listed(r, i, l)
        /\ r.m_time_map = u.m_time_map
        /\ r._time_stamp = [u._time_stamp EXCEPT ![s] = now]
    BY <2>3, <2>5, <2>6, Refreshing
  <2>8. [u._time_stamp EXCEPT ![s] = now] = [q._time_stamp EXCEPT ![s] = now]
    BY <2>3, <2>4
  <2> QED BY <2>3, <2>7, <2>8
<1> QED BY <1>1, <1>2

\* RemoveNode of a node that may be gone already.
LEMMA Deleting ==
  ASSUME NEW q, QueueTyped(q), NEW n, NEW node, Listed(q, n, node), NEW s \in Slave,
         NEW r, r = RemoveNode(q, s)
  PROVE  /\ QueueTyped(r) /\ \E k, m : Listed(r, k, m)
         /\ r.m_time_map = q.m_time_map \ {s}
         /\ \A x \in Slave : x # s => r._time_stamp[x] = q._time_stamp[x]
         /\ \A x \in Slave : r._time_stamp[x] \in {0, q._time_stamp[x]}
<1>1. CASE s \notin q.m_time_map
  <2>1. r = q
    BY <1>1 DEF RemoveNode
  <2> QED BY <1>1, <2>1
<1>2. CASE s \in q.m_time_map
  <2>1. /\ IsList(q, n, node) /\ n \in Nat /\ Chain(q, n, node)
        /\ q.m_time_map = {node[i] : i \in 1..n} /\ q._time_stamp \in [Slave -> 0..MaxTime]
    BY ListFacts DEF Listed, QueueTyped
  <2>2. PICK p \in 1..n : node[p] = s
    BY <1>2, <2>1
  <2>3. PICK m : m = Without(n, node, p)
    OBVIOUS
  <2>4. /\ QueueTyped(r) /\ IsList(r, n - 1, m) /\ r.m_time_map = q.m_time_map \ {s}
        /\ r._time_stamp = [q._time_stamp EXCEPT ![s] = 0]
    BY <2>1, <2>2, <2>3, Removing
  <2>5. ASSUME ~set_back PROVE InOrder(r._time_stamp, n - 1, m)
    <3>1. InOrder(q._time_stamp, n - 1, m)
      BY <2>1, <2>3, <2>5, OrderWithout DEF Listed
    <3>2. \A i \in 1..n - 1 : m[i] \in q.m_time_map \ {s}
      BY <2>4 DEF IsList, Members
    <3>3. \A i \in 1..n - 1 : r._time_stamp[m[i]] = q._time_stamp[m[i]]
      BY <2>1, <2>4, <3>2
    <3> QED BY <3>1, <3>3, OrderSame
  <2>6. Listed(r, n - 1, m)
    BY <2>4, <2>5 DEF Listed
  <2> QED BY <2>1, <2>4, <2>6
<1> QED BY <1>1, <1>2

\* A timer event: the others keep their stamps.
LEMMA Expiring ==
  ASSUME NEW q, QueueTyped(q), NEW n, NEW node, Listed(q, n, node), NEW b,
         Stop(OnTime(q, n, node), n, 1, b), NEW r, r = RemoveEach(Check(q), timeout_nodes(q))
  PROVE  /\ QueueTyped(r) /\ \E k, m : Listed(r, k, m)
         /\ r.m_time_map = q.m_time_map \ ToSet(timeout_nodes(q))
         /\ \A x \in r.m_time_map : r._time_stamp[x] = q._time_stamp[x]
         /\ \A x \in Slave : r._time_stamp[x] \in {0, q._time_stamp[x]}
<1>1. IsList(q, n, node) /\ n \in Nat
  BY ListFacts DEF Listed
<1>2. PICK G : G = FirstNodes(node, b - 1)
  OBVIOUS
<1>3. PICK m : m = Rest(n, node, b - 1)
  OBVIOUS
<1>4. /\ b \in 1..n + 1 /\ ToSet(timeout_nodes(q)) = G
      /\ QueueTyped(r) /\ IsList(r, n - (b - 1), m) /\ r.m_time_map = q.m_time_map \ G
      /\ \A s \in Slave : r._time_stamp[s] = IF s \in G THEN 0 ELSE q._time_stamp[s]
  BY <1>1, <1>2, <1>3, Checking
<1>5. \A x \in r.m_time_map : r._time_stamp[x] = q._time_stamp[x]
  BY <1>4 DEF QueueTyped
<1>6. ASSUME ~set_back PROVE InOrder(r._time_stamp, n - (b - 1), m)
  <2>1. b - 1 \in 0..n
    BY <1>1, <1>4
  <2>2. InOrder(q._time_stamp, n - (b - 1), m)
    BY <1>1, <1>3, <1>6, <2>1, OrderRest DEF Listed
  <2>3. \A i \in 1..n - (b - 1) : m[i] \in r.m_time_map
    BY <1>4 DEF IsList, Members
  <2> QED BY <1>5, <2>2, <2>3, OrderSame
<1>7. Listed(r, n - (b - 1), m)
  BY <1>4, <1>6 DEF Listed
<1> QED BY <1>4, <1>5, <1>7

-----------------------------------------------------------------------------
(* The invariant, and that every step keeps it.                              *)

\* Some list of nodes leads from the head to the tail over m_time_map.  The stamps are
\* those of the heartbeats; they are ordered along the list, and none lies in the
\* future, as long as the clock was not set back.
QueueInv ==
  /\ now \in 0..MaxTime /\ set_back \in BOOLEAN /\ last_heartbeat \in [Slave -> 0..MaxTime]
  /\ QueueTyped(m_slave_timeout_que)
  /\ MapsAgree
  /\ \E n, node : Listed(m_slave_timeout_que, n, node)
  /\ \A s \in m_slave_map : m_slave_timeout_que._time_stamp[s] = last_heartbeat[s]
  /\ ~set_back => \A s \in Slave : m_slave_timeout_que._time_stamp[s] <= now

\* The constructor links the sentinels.
LEMMA InvInit == Init => QueueInv
<1> SUFFICES ASSUME Init PROVE QueueInv
  OBVIOUS
<1> DEFINE q == m_slave_timeout_que
           node == [i \in 0..1 |-> IF i = 0 THEN mp_time_head ELSE mp_time_tail]
<1>1. q = EmptyQueue /\ 0 \in 0..MaxTime
  BY TimeAssumption DEF Init, TimeAssumption
<1>2. /\ q.m_time_map = {} /\ \A s \in Slave : ~q._in_list[s]
      /\ \A s \in Slave : q._time_stamp[s] = 0
      /\ q._next[mp_time_head] = mp_time_tail /\ q._pre[mp_time_tail] = mp_time_head
  BY <1>1 DEF EmptyQueue
<1>3. QueueTyped(q)
  <2>1. PICK f : f = [n \in Slave \cup {mp_time_head} |-> IF n = mp_time_head THEN mp_time_tail ELSE Null]
    OBVIOUS
  <2>2. PICK g : g = [n \in Slave \cup {mp_time_tail} |-> IF n = mp_time_tail THEN mp_time_head ELSE Null]
    OBVIOUS
  <2>3. PICK L : L = [s \in Slave |-> FALSE]
    OBVIOUS
  <2>4. PICK T : T = [s \in Slave |-> 0]
    OBVIOUS
  <2>5. q = [m_time_map |-> {}, _next |-> f, _pre |-> g, _in_list |-> L, _time_stamp |-> T]
    BY <1>1, <2>1, <2>2, <2>3, <2>4 DEF EmptyQueue
  <2>6. /\ f \in [Slave \cup {mp_time_head} -> Slave \cup {mp_time_tail, Null}]
        /\ g \in [Slave \cup {mp_time_tail} -> Slave \cup {mp_time_head, Null}]
        /\ L \in [Slave -> BOOLEAN] /\ T \in [Slave -> 0..MaxTime]
    BY <1>1, <2>1, <2>2, <2>3, <2>4
  <2> QED BY <2>5, <2>6 DEF QueueTyped
<1>4. 1..0 = {} /\ 0..0 = {0} /\ 0 + 1 = 1 /\ 1..1 = {1}
  OBVIOUS
<1>5. /\ node \in [0..1 -> Slave \cup {mp_time_head, mp_time_tail}]
      /\ node[0] = mp_time_head /\ node[1] = mp_time_tail
  OBVIOUS
<1> HIDE DEF node
<1>6. Chain(q, 0, node)
  BY <1>2, <1>4, <1>5 DEF Chain
<1>7. Members(0, node) = q.m_time_map
  BY <1>2, <1>4 DEF Members
<1>8. IsList(q, 0, node) /\ InOrder(q._time_stamp, 0, node)
  BY <1>2, <1>4, <1>6, <1>7 DEF IsList, InOrder
<1>9. \E n, l : Listed(q, n, l)
  BY <1>8 DEF Listed
<1>10. /\ now = 0 /\ set_back = FALSE /\ last_heartbeat = [s \in Slave |-> 0] /\ m_slave_map = {}
  BY DEF Init
<1> HIDE DEF q
<1>11. \A s \in Slave : q._time_stamp[s] <= now
  BY <1>2, <1>10
<1> QED BY <1>1, <1>2, <1>3, <1>9, <1>10, <1>11 DEF QueueInv, MapsAgree, q

LEMMA InvClock == ASSUME QueueInv, Clock PROVE QueueInv'
<1> DEFINE q == m_slave_timeout_que
<1>1. UNCHANGED <<last_heartbeat, m_slave_map, m_slave_timeout_que>>
  BY DEF Clock
<1>2. PICK n, node : Listed(q, n, node)
  BY DEF QueueInv
<1>3. now' \in 0..MaxTime /\ set_back' \in BOOLEAN /\ (~set_back' => ~set_back /\ now' >= now)
  <2>1. now \in 0..MaxTime /\ MaxTime \in Nat /\ set_back \in BOOLEAN
    BY TimeAssumption DEF QueueInv, TimeAssumption
  <2>2. CASE now < MaxTime /\ now' = now + 1 /\ UNCHANGED set_back
    BY <2>1, <2>2
  <2>3. CASE now' \in 0..now - 1 /\ set_back' = TRUE
    BY <2>1, <2>3
  <2> QED BY <2>2, <2>3 DEF Clock
<1>4. Listed(q, n, node)'
  <2>1. IsList(q, n, node) /\ (~set_back => InOrder(q._time_stamp, n, node))
    BY <1>2 DEF Listed
  <2>2. IsList(q', n, node) /\ (~set_back => InOrder(q'._time_stamp, n, node))
    BY <1>1, <2>1
  <2> QED BY <1>3, <2>2 DEF Listed
<1>5. ASSUME ~set_back' PROVE \A s \in Slave : q'._time_stamp[s] <= now'
  <2> SUFFICES ASSUME NEW s \in Slave PROVE q'._time_stamp[s] <= now'
    OBVIOUS
  <2>1. q._time_stamp[s] <= now /\ q._time_stamp[s] \in 0..MaxTime /\ now \in 0..MaxTime
    BY <1>3, <1>5 DEF QueueInv, QueueTyped
  <2> QED BY <1>1, <1>3, <1>5, <2>1
<1> QED BY <1>1, <1>3, <1>4, <1>5 DEF QueueInv, QueueTyped, MapsAgree

LEMMA InvOnTimer == ASSUME QueueInv, OnTimer PROVE QueueInv'
<1> DEFINE q == m_slave_timeout_que
<1>1. UNCHANGED <<now, set_back, last_heartbeat>>
  BY DEF OnTimer
<1>2. PICK n, node : Listed(q, n, node)
  BY DEF QueueInv
<1>3. QueueTyped(q) /\ n \in Nat
  BY <1>2, ListFacts DEF QueueInv, Listed
<1>4. PICK b : Stop(OnTime(q, n, node), n, 1, b)
  <2>1. n + 1 \in OnTime(q, n, node) /\ 1 \in 0..n + 1
    BY <1>3 DEF OnTime
  <2> QED BY <1>3, <2>1, StopExists
<1>5. PICK r : r = RemoveEach(Check(q), timeout_nodes(q))
  OBVIOUS
<1>6. q' = r /\ m_slave_map' = m_slave_map \ ToSet(timeout_nodes(q))
  BY <1>5 DEF OnTimer, CheckSlaveTimeout
<1>7. /\ QueueTyped(r) /\ \E k, m : Listed(r, k, m)
      /\ r.m_time_map = q.m_time_map \ ToSet(timeout_nodes(q))
      /\ \A x \in r.m_time_map : r._time_stamp[x] = q._time_stamp[x]
      /\ \A x \in Slave : r._time_stamp[x] \in {0, q._time_stamp[x]}
  BY <1>2, <1>3, <1>4, <1>5, Expiring
<1>8. \E k, m : Listed(q, k, m)'
  <2>1. PICK k, m : Listed(r, k, m)
    BY <1>7
  <2>2. IsList(q', k, m) /\ (~set_back' => InOrder(q'._time_stamp, k, m))
    BY <1>1, <1>6, <2>1 DEF Listed
  <2>3. Listed(q, k, m)'
    BY <2>2 DEF Listed
  <2> QED BY <2>3
<1>9. MapsAgree'
  BY <1>6, <1>7 DEF QueueInv, MapsAgree
<1>10. \A s \in m_slave_map' : q'._time_stamp[s] = last_heartbeat'[s]
  BY <1>1, <1>6, <1>7 DEF QueueInv, MapsAgree
<1>11. ~set_back' => \A s \in Slave : q'._time_stamp[s] <= now'
  <2> SUFFICES ASSUME ~set_back, NEW s \in Slave PROVE r._time_stamp[s] <= now
    BY <1>1, <1>6
  <2>1. q._time_stamp[s] <= now /\ now \in 0..MaxTime
    BY DEF QueueInv
  <2> QED BY <1>7, <2>1
<1>12. QueueTyped(q')
  BY <1>6, <1>7
<1> QED BY <1>1, <1>8, <1>9, <1>10, <1>11, <1>12 DEF QueueInv, QueueTyped

LEMMA InvHeartbeat == ASSUME QueueInv, NEW s \in Slave, Heartbeat(s) PROVE QueueInv'
<1> DEFINE q == m_slave_timeout_que
<1>1. UNCHANGED <<now, set_back>> /\ last_heartbeat' = [last_heartbeat EXCEPT ![s] = now]
  BY DEF Heartbeat
<1>2. PICK n, node : Listed(q, n, node)
  BY DEF QueueInv
<1>3. PICK r : r = Refresh(IF s \in q.m_time_map THEN q ELSE AppendNode(q, s), s)
  OBVIOUS
<1>4. q' = r /\ m_slave_map' = m_slave_map \cup {s}
  BY <1>3 DEF Heartbeat, PluseSlave, QueueInv, MapsAgree
<1>5. /\ QueueTyped(r) /\ \E k, m : Listed(r, k, m)
      /\ r.m_time_map = q.m_time_map \cup {s}
      /\ r._time_stamp = [q._time_stamp EXCEPT ![s] = now]
  <2>1. QueueTyped(q) /\ now \in 0..MaxTime /\ (~set_back => \A x \in Slave : q._time_stamp[x] <= now)
    BY DEF QueueInv
  <2> QED BY <1>2, <1>3, <2>1, Pulsing
<1>6. \E k, m : Listed(q, k, m)'
  <2>1. PICK k, m : Listed(r, k, m)
    BY <1>5
  <2>2. IsList(q', k, m) /\ (~set_back' => InOrder(q'._time_stamp, k, m))
    BY <1>1, <1>4, <2>1 DEF Listed
  <2>3. Listed(q, k, m)'
    BY <2>2 DEF Listed
  <2> QED BY <2>3
<1>7. MapsAgree'
  BY <1>4, <1>5 DEF QueueInv, MapsAgree
<1>8. /\ q._time_stamp \in [Slave -> 0..MaxTime] /\ last_heartbeat \in [Slave -> 0..MaxTime]
      /\ m_slave_map \subseteq Slave /\ now \in 0..MaxTime
  BY DEF QueueInv, QueueTyped, MapsAgree
<1>9. \A x \in m_slave_map' : q'._time_stamp[x] = last_heartbeat'[x]
  BY <1>1, <1>4, <1>5, <1>8 DEF QueueInv
<1>10. ~set_back' => \A x \in Slave : q'._time_stamp[x] <= now'
  <2> SUFFICES ASSUME ~set_back, NEW x \in Slave PROVE r._time_stamp[x] <= now
    BY <1>1, <1>4
  <2>1. q._time_stamp[x] <= now
    BY DEF QueueInv
  <2> QED BY <1>5, <1>8, <2>1
<1>11. last_heartbeat' \in [Slave -> 0..MaxTime]
  BY <1>1, <1>8
<1>12. QueueTyped(q')
  BY <1>4, <1>5
<1>13. now' \in 0..MaxTime /\ set_back' \in BOOLEAN
  BY <1>1 DEF QueueInv
<1> QED BY <1>6, <1>7, <1>9, <1>10, <1>11, <1>12, <1>13 DEF QueueInv, QueueTyped

LEMMA InvDelete == ASSUME QueueInv, NEW s \in Slave, delete_slave(s) PROVE QueueInv'
<1> DEFINE q == m_slave_timeout_que
<1>1. UNCHANGED <<now, set_back, last_heartbeat>>
  BY DEF delete_slave
<1>2. PICK n, node : Listed(q, n, node)
  BY DEF QueueInv
<1>3. PICK r : r = RemoveNode(q, s)
  OBVIOUS
<1>4. q' = r /\ m_slave_map' = m_slave_map \ {s}
  BY <1>3 DEF delete_slave
<1>5. /\ QueueTyped(r) /\ \E k, m : Listed(r, k, m)
      /\ r.m_time_map = q.m_time_map \ {s}
      /\ \A x \in Slave : x # s => r._time_stamp[x] = q._time_stamp[x]
      /\ \A x \in Slave : r._time_stamp[x] \in {0, q._time_stamp[x]}
  <2>1. QueueTyped(q)
    BY DEF QueueInv
  <2> QED BY <1>2, <1>3, <2>1, Deleting
<1>6. \E k, m : Listed(q, k, m)'
  <2>1. PICK k, m : Listed(r, k, m)
    BY <1>5
  <2>2. IsList(q', k, m) /\ (~set_back' => InOrder(q'._time_stamp, k, m))
    BY <1>1, <1>4, <2>1 DEF Listed
  <2>3. Listed(q, k, m)'
    BY <2>2 DEF Listed
  <2> QED BY <2>3
<1>7. MapsAgree'
  BY <1>4, <1>5 DEF QueueInv, MapsAgree
<1>8. \A x \in m_slave_map' : q'._time_stamp[x] = last_heartbeat'[x]
  BY <1>1, <1>4, <1>5 DEF QueueInv, MapsAgree, QueueTyped
<1>9. ~set_back' => \A x \in Slave : q'._time_stamp[x] <= now'
  <2> SUFFICES ASSUME ~set_back, NEW x \in Slave PROVE r._time_stamp[x] <= now
    BY <1>1, <1>4
  <2>1. q._time_stamp[x] <= now /\ now \in 0..MaxTime
    BY DEF QueueInv
  <2> QED BY <1>5, <2>1
<1>10. QueueTyped(q')
  BY <1>4, <1>5
<1>11. now' \in 0..MaxTime /\ set_back' \in BOOLEAN /\ last_heartbeat' \in [Slave -> 0..MaxTime]
  BY <1>1 DEF QueueInv
<1> QED BY <1>6, <1>7, <1>8, <1>9, <1>10, <1>11 DEF QueueInv, QueueTyped

LEMMA InvNext == QueueInv /\ [Next]_vars => QueueInv'
<1> SUFFICES ASSUME QueueInv, [Next]_vars PROVE QueueInv'
  OBVIOUS
<1>1. CASE UNCHANGED vars
  <2>1. PICK n, node : Listed(m_slave_timeout_que, n, node)
    BY DEF QueueInv
  <2>2. Listed(m_slave_timeout_que, n, node)'
    BY <1>1, <2>1 DEF vars, Listed, IsList, InOrder, Chain, Members
  <2> QED BY <1>1, <2>2 DEF vars, QueueInv, QueueTyped, MapsAgree
<1>2. CASE Next
  BY <1>2, InvClock, InvOnTimer, InvHeartbeat, InvDelete DEF Next
<1> QED BY <1>1, <1>2

\* The list, the maps, the stamps and the heartbeats fit together after every handler:
\* what Append, Remove, Refresh, Check and reorder_with_time do to the pointers keeps
\* one list from the head to the tail.
THEOREM QueueInvariance == Spec => []QueueInv
BY InvInit, InvNext, PTL DEF Spec

\* No pointer leaves the nodes, the sentinels and NULL, and no stamp is out of bounds.
THEOREM QueueTypeCorrect == Spec => []TypeOK
<1>1. QueueInv => TypeOK
  BY DEF QueueInv, QueueTyped, MapsAgree, TypeOK
<1> QED BY <1>1, QueueInvariance, PTL

\* TransCore's map and m_time_map hold the same slaves: whoever can be given cells can
\* time out (PluseSlave, delete_slave, CheckSlaveTimeout).
THEOREM QueueMapsAgree == Spec => []MapsAgree
<1>1. QueueInv => MapsAgree
  BY DEF QueueInv
<1> QED BY <1>1, QueueInvariance, PTL

-----------------------------------------------------------------------------
(* What the invariant says of the nodes one meets from the head on.          *)

\* The list is as long as m_time_map is large.
LEMMA MembersCounted ==
  ASSUME NEW q, QueueTyped(q), NEW n, NEW node, IsList(q, n, node)
  PROVE  Cardinality(q.m_time_map) = n /\ Cardinality(Slave) \in Nat /\ n <= Cardinality(Slave)
<1>1. /\ n \in Nat /\ q.m_time_map = {node[i] : i \in 1..n} /\ q.m_time_map \subseteq Slave
      /\ \A i, j \in 1..n : node[i] = node[j] => i = j
  BY ListFacts DEF Chain
<1>2. PICK f : f = [i \in 1..n |-> node[i]]
  OBVIOUS
<1>3. f \in Bijection(1..n, q.m_time_map)
  BY <1>1, <1>2 DEF Bijection, Injection, Surjection, IsInjective
<1>4. ExistsBijection(1..n, q.m_time_map)
  BY <1>3 DEF ExistsBijection
<1>5. IsFiniteSet(1..n) /\ Cardinality(1..n) = n
  BY <1>1, FS_Interval
<1>6. Cardinality(q.m_time_map) = n
  BY <1>4, <1>5, FS_Bijection
<1>7. IsFiniteSet(Slave) /\ Cardinality(Slave) \in Nat
  BY NodeAssumption, FS_CardinalityType DEF NodeAssumption
<1>8. Cardinality(q.m_time_map) <= Cardinality(Slave)
  BY <1>1, <1>7, FS_Subset
<1> QED BY <1>6, <1>7, <1>8

\* The walk of nodes_after_head meets the nodes of the list, and no slave behind them.
LEMMA NodesAfterHead ==
  ASSUME NEW q, QueueTyped(q), NEW n, NEW node, IsList(q, n, node)
  PROVE  /\ DOMAIN nodes_after_head(q) = 0..Cardinality(Slave) + 1
         /\ \A i \in 0..n + 1 : nodes_after_head(q)[i] = node[i]
         /\ \A i \in 0..Cardinality(Slave) + 1 : i > n => nodes_after_head(q)[i] \notin Slave
<1>1. PICK C \in Nat : C = Cardinality(Slave) /\ n <= C
  BY MembersCounted
<1>2. /\ n \in Nat /\ node[0] = mp_time_head /\ node[n + 1] = mp_time_tail
      /\ \A i \in 0..n : q._next[node[i]] = node[i + 1]
      /\ \A i \in 1..n : node[i] \in Slave
      /\ DOMAIN q._next = Slave \cup {mp_time_head}
  BY ListFacts DEF IsList, Chain, QueueTyped
<1> DEFINE Step(i, w) == IF i = 0 THEN mp_time_head
                         ELSE IF w[i - 1] \in DOMAIN q._next THEN q._next[w[i - 1]] ELSE Null
           w0 == [i \in 0..C + 1 |-> IF i <= n + 1 THEN node[i] ELSE Null]
           w == CHOOSE f : f = [i \in 0..C + 1 |-> Step(i, f)]
<1>3. w0 = [i \in 0..C + 1 |-> Step(i, w0)]
  <2>1. ASSUME NEW i \in 0..C + 1 PROVE w0[i] = Step(i, w0)
    <3>1. CASE i = 0
      BY <1>2, <3>1
    <3>2. CASE i # 0 /\ i <= n + 1
      <4>1. PICK j \in 0..n : j = i - 1 /\ j + 1 = i /\ j \in 0..C + 1 /\ j <= n + 1
        BY <1>1, <1>2, <3>2
      <4>2. w0[j] = node[j] /\ w0[i] = node[i]
        BY <3>2, <4>1
      <4>3. node[j] \in DOMAIN q._next
        <5>1. j = 0 \/ j \in 1..n
          BY <4>1
        <5> QED BY <1>2, <5>1
      <4> QED BY <1>2, <3>2, <4>1, <4>2, <4>3
    <3>3. CASE i > n + 1
      <4>1. PICK j \in 0..C + 1 : j = i - 1 /\ j >= n + 1 /\ ~(i <= n + 1)
        BY <1>1, <1>2, <3>3
      <4>2. w0[j] \in {mp_time_tail, Null}
        <5>1. j = n + 1 \/ ~(j <= n + 1)
          BY <1>2, <4>1
        <5> QED BY <1>2, <5>1
      <4>3. w0[j] \notin DOMAIN q._next /\ w0[i] = Null
        BY <1>2, <4>1, <4>2, Nodes
      <4> QED BY <1>2, <3>3, <4>1, <4>3
    <3> QED BY <1>2, <3>1, <3>2, <3>3
  <2> HIDE DEF Step
  <2> QED BY <2>1
<1> HIDE DEF w0
<1>4. w = [i \in 0..C + 1 |-> Step(i, w)]
  BY <1>3
<1>5. nodes_after_head(q) = w
  BY <1>1 DEF nodes_after_head
<1> HIDE DEF w
<1> DEFINE Good == {i \in 0..n + 1 : w[i] = node[i]}
<1>6. \A i \in 0..n + 1 : i \in Good
  <2>1. 0 \in Good
    BY <1>1, <1>2, <1>4
  <2>2. ASSUME NEW i \in 0..n + 1, i # n + 1, i \in Good PROVE i + 1 \in Good
    <3>1. PICK j \in 1..n + 1 : j = i + 1 /\ j - 1 = i /\ j # 0 /\ j \in 0..C + 1 /\ i \in 0..n
      BY <1>1, <1>2, <2>2
    <3>2. w[i] = node[i] /\ node[i] \in DOMAIN q._next
      <4>1. i = 0 \/ i \in 1..n
        BY <3>1
      <4> QED BY <1>2, <2>2, <4>1
    <3>3. w[j] = q._next[node[i]]
      BY <1>4, <3>1, <3>2
    <3> QED BY <1>2, <3>1, <3>3
  <2>3. 0 \in Nat /\ n + 1 \in Nat
    BY <1>2
  <2> HIDE DEF Good
  <2> QED BY <2>1, <2>2, <2>3, Upward
<1>7. \A i \in 0..n + 1 : w[i] = node[i]
  BY <1>6
<1> HIDE DEF Good
<1> DEFINE Behind == {i \in n + 1..C + 1 : w[i] \in {mp_time_tail, Null}}
<1>8. \A i \in n + 1..C + 1 : i \in Behind
  <2>1. n + 1 \in Behind
    BY <1>1, <1>2, <1>7
  <2>2. ASSUME NEW i \in n + 1..C + 1, i # C + 1, i \in Behind PROVE i + 1 \in Behind
    <3>1. PICK j \in n + 1..C + 1 : j = i + 1 /\ j - 1 = i /\ j # 0 /\ j \in 0..C + 1
      BY <1>1, <1>2, <2>2
    <3>2. w[i] \notin DOMAIN q._next
      BY <1>2, <2>2, Nodes
    <3>3. w[j] = Null
      BY <1>4, <3>1, <3>2
    <3> QED BY <3>1, <3>3
  <2>3. n + 1 \in Nat /\ C + 1 \in Nat
    BY <1>1, <1>2
  <2> HIDE DEF Behind
  <2> QED BY <2>1, <2>2, <2>3, Upward
<1>9. \A i \in 0..C + 1 : i > n => w[i] \notin Slave
  <2>1. \A i \in 0..C + 1 : i > n => i \in n + 1..C + 1
    BY <1>2
  <2> QED BY <1>8, <2>1, Nodes
<1>10. DOMAIN w = 0..C + 1
  BY <1>4
<1> QED BY <1>1, <1>5, <1>7, <1>9, <1>10

LEMMA InvListMatchesMap == QueueInv => ListMatchesMap
<1> SUFFICES ASSUME QueueInv PROVE ListMatchesMap
  OBVIOUS
<1>1. PICK q : q = m_slave_timeout_que
  OBVIOUS
<1>2. QueueTyped(q) /\ \E n, node : IsList(q, n, node)
  BY <1>1 DEF QueueInv, Listed
<1>3. PICK n, node : IsList(q, n, node)
  BY <1>2
<1>4. PICK met : met = nodes_after_head(q)
  OBVIOUS
<1>5. /\ n \in Nat /\ q.m_time_map = {node[i] : i \in 1..n} /\ node[n + 1] = mp_time_tail
      /\ \A i \in 1..n + 1 : q._pre[node[i]] = node[i - 1]
      /\ \A s \in Slave : q._in_list[s] <=> s \in q.m_time_map
  <2>1. n \in Nat /\ q.m_time_map = {node[i] : i \in 1..n} /\ node[n + 1] = mp_time_tail
    BY <1>2, <1>3, ListFacts
  <2>2. \A i \in 1..n + 1 : q._pre[node[i]] = node[i - 1]
    BY <1>3 DEF IsList, Chain
  <2> QED BY <1>3, <2>1, <2>2 DEF IsList
<1>6. Cardinality(q.m_time_map) = n /\ \A i \in 0..n + 1 : met[i] = node[i]
  BY <1>2, <1>3, <1>4, MembersCounted, NodesAfterHead
<1>7. {met[i] : i \in 1..n} = q.m_time_map
  <2>1. \A i \in 1..n : met[i] = node[i]
    BY <1>5, <1>6
  <2> QED BY <1>5, <2>1
<1>8. met[n + 1] = mp_time_tail
  <2>1. n + 1 \in 0..n + 1
    BY <1>5
  <2> QED BY <1>5, <1>6, <2>1
<1>9. \A i \in 1..n + 1 : q._pre[met[i]] = met[i - 1]
  <2>1. \A i \in 1..n + 1 : i \in 0..n + 1 /\ i - 1 \in 0..n + 1
    BY <1>5
  <2> QED BY <1>5, <1>6, <2>1
<1>10. PICK size : size = Cardinality(q.m_time_map) /\ size = n
  BY <1>6
<1>11. /\ {met[i] : i \in 1..size} = q.m_time_map /\ met[size + 1] = mp_time_tail
       /\ \A i \in 1..size + 1 : q._pre[met[i]] = met[i - 1]
       /\ \A s \in Slave : q._in_list[s] <=> s \in q.m_time_map
  BY <1>5, <1>7, <1>8, <1>9, <1>10
<1> QED BY <1>1, <1>4, <1>10, <1>11, Zenon DEF ListMatchesMap

LEMMA InvNobodyBehind == QueueInv => NobodyBehindIsOverdue
<1> DEFINE q == m_slave_timeout_que
           met == nodes_after_head(q)
           Overdue(s) == now - q._time_stamp[s] > Timeout
<1> SUFFICES ASSUME QueueInv, ~set_back, NEW i \in DOMAIN met, NEW j \in DOMAIN met, i < j,
                    met[i] \in Slave, met[j] \in Slave, Overdue(met[j])
             PROVE  Overdue(met[i])
  BY DEF NobodyBehindIsOverdue
<1>1. PICK n, node : Listed(q, n, node)
  BY DEF QueueInv
<1>2. QueueTyped(q) /\ IsList(q, n, node) /\ InOrder(q._time_stamp, n, node) /\ n \in Nat
  BY <1>1, ListFacts DEF QueueInv, Listed
<1>3. PICK C \in Nat : C = Cardinality(Slave) /\ n <= C
  BY <1>2, MembersCounted
<1>4. /\ DOMAIN met = 0..C + 1 /\ \A k \in 0..n + 1 : met[k] = node[k]
      /\ \A k \in 0..C + 1 : k > n => met[k] \notin Slave
  BY <1>2, <1>3, NodesAfterHead
<1>5. i \in 1..n /\ j \in 1..n
  <2>1. i \in 0..C + 1 /\ j \in 0..C + 1 /\ ~(i > n) /\ ~(j > n)
    BY <1>4
  <2>2. i # 0
    <3>1. met[0] = mp_time_head
      <4>1. 0 \in 0..n + 1
        BY <1>2
      <4> QED BY <1>2, <1>4, <4>1, ListFacts
    <3> QED BY <3>1, Nodes
  <2> QED BY <1>2, <2>1, <2>2
<1>6. met[i] = node[i] /\ met[j] = node[j]
  BY <1>2, <1>4, <1>5
<1>7. q._time_stamp[node[i]] <= q._time_stamp[node[j]]
  BY <1>2, <1>5 DEF InOrder
<1>8. /\ q._time_stamp[met[i]] \in Int /\ q._time_stamp[met[j]] \in Int
      /\ now \in Int /\ Timeout \in Int
  BY TimeAssumption DEF QueueInv, QueueTyped, TimeAssumption
<1> QED BY <1>6, <1>7, <1>8

\* Following _next from the head one meets every node of m_time_map once and then the
\* tail, and _pre leads back: no node is leaked, freed twice or dangling, for any slaves.
THEOREM QueueListMatchesMap == Spec => []ListMatchesMap
BY InvListMatchesMap, QueueInvariance, PTL

\* Check may stop at the first node that is not overdue, unless the clock was set back.
THEOREM QueueNobodyBehindIsOverdue == Spec => []NobodyBehindIsOverdue
BY InvNobodyBehind, QueueInvariance, PTL

-----------------------------------------------------------------------------
(* The refinement of SlaveRegistry.                                          *)

LEMMA RegistryInit == Init => Registry!SRInit
BY DEF Init, Registry!SRInit

Pulses == [s \in Slave |-> IF s \in m_slave_map THEN last_heartbeat[s] ELSE Null]

\* The found nodes are overdue, and with ordered stamps no other node is.
LEMMA RegistryOnTimer == ASSUME QueueInv, OnTimer PROVE Registry!Expire
<1> DEFINE q == m_slave_timeout_que
<1>1. PICK gone : gone = ToSet(timeout_nodes(q))
  OBVIOUS
<1>2. PICK n, node : Listed(q, n, node)
  BY DEF QueueInv
<1>3. /\ QueueTyped(q) /\ n \in Nat /\ IsList(q, n, node)
      /\ q.m_time_map = {node[i] : i \in 1..n} /\ \A i \in 1..n : node[i] \in Slave
      /\ m_slave_map = q.m_time_map /\ q.m_time_map \subseteq Slave
      /\ \A s \in m_slave_map : q._time_stamp[s] = last_heartbeat[s]
  BY <1>2, ListFacts DEF QueueInv, Listed, MapsAgree
<1>4. PICK b : Stop(OnTime(q, n, node), n, 1, b)
  <2>1. n + 1 \in OnTime(q, n, node) /\ 1 \in 0..n + 1
    BY <1>3 DEF OnTime
  <2> QED BY <1>3, <2>1, StopExists
<1>5. b \in 1..n + 1 /\ gone = FirstNodes(node, b - 1)
  BY <1>1, <1>3, <1>4, Checking
<1>6. \A s \in Slave : Registry!Overdue(s) <=> s \in m_slave_map /\ now - q._time_stamp[s] > Timeout
  <2> SUFFICES ASSUME NEW s \in Slave
               PROVE  Registry!Overdue(s) <=> s \in m_slave_map /\ now - q._time_stamp[s] > Timeout
    OBVIOUS
  <2>1. last_heartbeat[s] \in 0..MaxTime
    BY DEF QueueInv
  <2>2. last_heartbeat[s] # Null
    BY <2>1, TimeAssumption DEF TimeAssumption
  <2>3. CASE s \in m_slave_map
    BY <1>3, <2>2, <2>3 DEF Registry!Overdue
  <2>4. CASE s \notin m_slave_map
    BY <2>4 DEF Registry!Overdue
  <2> QED BY <2>3, <2>4
<1>7. ASSUME NEW s \in gone PROVE s \in Slave /\ Registry!Overdue(s)
  <2>1. PICK i \in 1..b - 1 : s = node[i]
    BY <1>5 DEF FirstNodes
  <2>2. i \in 1..n /\ i \notin OnTime(q, n, node)
    BY <1>3, <1>4, <1>5, <2>1 DEF Stop
  <2>3. now - q._time_stamp[s] > Timeout
    BY <1>3, <2>1, <2>2 DEF OnTime
  <2> QED BY <1>3, <1>6, <2>1, <2>2, <2>3
<1>8. ASSUME ~set_back, NEW s \in Slave, Registry!Overdue(s) PROVE s \in gone
  <2>1. s \in m_slave_map /\ now - q._time_stamp[s] > Timeout
    BY <1>6, <1>8
  <2>2. PICK j \in 1..n : s = node[j]
    BY <1>3, <2>1
  <2>3. ASSUME j >= b PROVE FALSE
    <3>1. b \in 1..n /\ b <= j /\ b \in OnTime(q, n, node) /\ b # n + 1
      BY <1>3, <1>4, <1>5, <2>3 DEF Stop
    <3>2. ~(now - q._time_stamp[node[b]] > Timeout)
      BY <3>1 DEF OnTime
    <3>3. q._time_stamp[node[b]] <= q._time_stamp[node[j]]
      BY <1>2, <1>8, <3>1 DEF Listed, InOrder
    <3>4. /\ q._time_stamp[node[b]] \in Int /\ q._time_stamp[node[j]] \in Int
          /\ now \in Int /\ Timeout \in Int
      BY <1>3, <3>1, TimeAssumption DEF QueueInv, QueueTyped, TimeAssumption
    <3> QED BY <2>1, <2>2, <3>2, <3>3, <3>4
  <2>4. j \in 1..b - 1
    BY <1>3, <1>5, <2>3
  <2> QED BY <1>5, <2>2, <2>4 DEF FirstNodes
<1>9. UNCHANGED <<now, set_back, last_heartbeat>> /\ m_slave_map' = m_slave_map \ gone
  BY <1>1 DEF OnTimer, CheckSlaveTimeout
<1>10. Pulses' = [s \in Slave |-> IF s \in gone THEN Null ELSE Pulses[s]]
  BY <1>9 DEF Pulses
<1>11. gone \in SUBSET {s \in Slave : Registry!Overdue(s)}
  BY <1>7
<1>12. ~set_back => gone = {s \in Slave : Registry!Overdue(s)}
  BY <1>7, <1>8
<1> QED BY <1>9, <1>10, <1>11, <1>12 DEF Registry!Expire, Registry!clock, Pulses

LEMMA RegistryNext ==
  ASSUME QueueInv, [Next]_vars PROVE [Registry!SRNext]_<<Registry!clock, Pulses>>
<1>1. CASE UNCHANGED vars
  BY <1>1 DEF vars, Registry!clock, Pulses
<1>2. CASE Clock
  <2>1. UNCHANGED <<last_heartbeat, m_slave_map>> /\ Pulses' = Pulses
    BY <1>2 DEF Clock, Pulses
  <2>2. now' \in 0..MaxTime /\ set_back' = (set_back \/ now' < now)
    <3>1. now \in 0..MaxTime /\ MaxTime \in Nat /\ set_back \in BOOLEAN
      BY TimeAssumption DEF QueueInv, TimeAssumption
    <3>2. CASE now < MaxTime /\ now' = now + 1 /\ UNCHANGED set_back
      <4>1. now' \in 0..MaxTime /\ ~(now' < now)
        BY <3>1, <3>2
      <4> QED BY <3>1, <3>2, <4>1
    <3>3. CASE now' \in 0..now - 1 /\ set_back' = TRUE
      <4>1. now' \in 0..MaxTime /\ now' < now
        BY <3>1, <3>3
      <4> QED BY <3>3, <4>1
    <3> QED BY <1>2, <3>2, <3>3 DEF Clock
  <2>3. Registry!Clock
    BY <2>1, <2>2 DEF Registry!Clock, Pulses
  <2> QED BY <2>3 DEF Registry!SRNext
<1>3. CASE OnTimer
  BY <1>3, RegistryOnTimer DEF Registry!SRNext
<1>4. ASSUME NEW s \in Slave, Heartbeat(s) PROVE Registry!SRNext
  <2>1. UNCHANGED <<now, set_back>> /\ m_slave_map' = m_slave_map \cup {s}
        /\ last_heartbeat' = [last_heartbeat EXCEPT ![s] = now]
    BY <1>4 DEF Heartbeat, PluseSlave
  <2>2. Pulses' = [Pulses EXCEPT ![s] = now]
    BY <2>1 DEF Pulses, QueueInv
  <2>3. Registry!Pulse(s)
    BY <2>1, <2>2 DEF Registry!Pulse, Registry!clock, Pulses
  <2> QED BY <2>3 DEF Registry!SRNext
<1>5. ASSUME NEW s \in Slave, delete_slave(s) PROVE Registry!SRNext
  <2>1. UNCHANGED <<now, set_back, last_heartbeat>> /\ m_slave_map' = m_slave_map \ {s}
    BY <1>5 DEF delete_slave
  <2>2. Pulses' = [Pulses EXCEPT ![s] = Null]
    BY <2>1 DEF Pulses
  <2>3. Registry!Drop(s)
    BY <2>1, <2>2 DEF Registry!Drop, Registry!clock, Pulses
  <2> QED BY <2>3 DEF Registry!SRNext
<1> QED BY <1>1, <1>2, <1>3, <1>4, <1>5 DEF Next

\* A timer event drops only slaves whose heartbeats stayed away too long, and every one
\* of them unless the clock was set back; a heartbeat registers a slave again.
THEOREM QueueImplementsRegistry == Spec => ImplementsRegistry
<1>1. QueueInv /\ [Next]_vars => [Registry!SRNext]_<<Registry!clock, Pulses>>
  BY RegistryNext
<1> QED BY <1>1, RegistryInit, QueueInvariance, PTL
        DEF Spec, ImplementsRegistry, Registry!SRSpec, Pulses
=============================================================================
