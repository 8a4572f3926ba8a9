------------------------ MODULE TransController_proofs ------------------------
(***************************************************************************)
(* What holds of the dispatcher for any set of texts, slaves and calls,    *)
(* whatever ids the texts carry: types, slots, lists that leave no slave   *)
(* idle beside a ready cell, and a rotation that starves nobody.           *)
(***************************************************************************)
EXTENDS TransRoundRobin, SequenceTheorems, FiniteSetTheorems, WellFoundedInduction, TLAPS

-----------------------------------------------------------------------------
(* The list operations of UsrControlBlock and TransCore. *)

\* Sending the first elements of a list to its end leaves a list of the same things.
LEMMA RotateType ==
  ASSUME NEW S, NEW l \in Seq(S), NEW k \in DOMAIN l
  PROVE  Rotate(l, k) \in Seq(S)
BY DEF Rotate

\* Erasing an iterator's element leaves a list of the same things.
LEMMA RemoveAtType ==
  ASSUME NEW S, NEW l \in Seq(S), NEW k \in DOMAIN l
  PROVE  RemoveAt(l, k) \in Seq(S)
BY DEF RemoveAt

\* An iterator a find returns points into its list, at an element with what was sought.
LEMMA FirstAtInDomain ==
  ASSUME NEW l, NEW P, NEW i \in FirstAt(l, P)
  PROVE  i \in DOMAIN l /\ i \in P
BY DEF FirstAt

\* The same for the two finds of the code.
LEMMA FindUcb ==
  ASSUME TypeOK, NEW d \in Domain, NEW usr, NEW i \in find_ucb(d, usr)
  PROVE  /\ i \in DOMAIN usr_list[d] /\ usr_list[d][i] \in Text
         /\ UsrID[usr_list[d][i]] = usr
BY FirstAtInDomain DEF find_ucb, TypeOK

LEMMA FindTextBlock ==
  ASSUME TypeOK, NEW u \in Text, NEW tid, NEW j \in find_text_block(u, tid)
  PROVE  /\ j \in DOMAIN text_block_list[u] /\ text_block_list[u][j] \in Text
         /\ TextID[text_block_list[u][j]] = tid
BY FirstAtInDomain DEF find_text_block, TypeOK

\* An element in l that satisfies P is found.
LEMMA FirstAtFinds ==
  ASSUME NEW S, NEW l \in Seq(S), NEW P, DOMAIN l \cap P # {}
  PROVE  FirstAt(l, P) # {}
<1> DEFINE T == DOMAIN l \cap P
<1>1. T \subseteq Nat /\ T # {}
  OBVIOUS
<1>2. PICK i \in T : \A k \in T : <<k, i>> \notin OpToRel(<, Nat)
  BY <1>1, WFMin, NatLessThanWellFounded, Zenon
<1>3. \A k \in T : ~(k < i)
  BY <1>1, <1>2 DEF OpToRel
<1>4. \A k \in T : i <= k
  BY <1>1, <1>3
<1> QED BY <1>4 DEF FirstAt

\* The part of a list behind its k-th element.
LEMMA Behind ==
  ASSUME NEW S, NEW l \in Seq(S), NEW k \in DOMAIN l
  PROVE  /\ SubSeq(l, k + 1, Len(l)) \in Seq(S)
         /\ Len(SubSeq(l, k + 1, Len(l))) = Len(l) - k
         /\ \A i \in 1 .. Len(l) - k : SubSeq(l, k + 1, Len(l))[i] = l[i + k]
<1> DEFINE n == Len(l)
           a == SubSeq(l, k + 1, n)
<1>1. n \in Nat /\ k \in 1 .. n /\ \A i \in 1 .. n : l[i] \in S
  OBVIOUS
<1>2. k + 1 \in Int /\ n \in Int /\ \A i \in k + 1 .. n : l[i] \in S
  BY <1>1
<1>3. /\ a \in Seq(S) /\ Len(a) = IF k + 1 <= n THEN n - (k + 1) + 1 ELSE 0
      /\ \A i \in 1 .. n - (k + 1) + 1 : a[i] = l[(k + 1) + i - 1]
  BY <1>2, SubSeqProperties
<1>4. /\ n - (k + 1) + 1 = n - k /\ (~(k + 1 <= n) => n - k = 0)
      /\ \A i \in 1 .. n - k : (k + 1) + i - 1 = i + k
  BY <1>1
<1> HIDE DEF a
<1>5. a \in Seq(S) /\ Len(a) = n - k /\ \A i \in 1 .. n - k : a[i] = l[i + k]
  BY <1>1, <1>3, <1>4
<1> QED BY <1>5 DEF a

\* Where the elements are after a rotation.
LEMMA RotateElements ==
  ASSUME NEW S, NEW l \in Seq(S), NEW k \in DOMAIN l
  PROVE  /\ Len(l) \in Nat /\ k \in 1 .. Len(l) /\ Len(Rotate(l, k)) = Len(l)
         /\ DOMAIN l = 1 .. Len(l) /\ DOMAIN Rotate(l, k) = 1 .. Len(l)
         /\ \A i \in 1 .. Len(l) :
              Rotate(l, k)[i] = IF i <= Len(l) - k THEN l[i + k] ELSE l[i - (Len(l) - k)]
<1> DEFINE n == Len(l)
           r == Rotate(l, k)
           a == SubSeq(l, k + 1, n)
           b == SubSeq(l, 1, k)
<1>1. n \in Nat /\ k \in 1 .. n /\ DOMAIN l = 1 .. n /\ \A i \in 1 .. n : l[i] \in S
  OBVIOUS
<1>2. /\ a \in Seq(S) /\ Len(a) = n - k
      /\ \A i \in 1 .. n - k : a[i] = l[i + k]
  BY Behind
<1>3. b \in Seq(S) /\ Len(b) = k /\ \A i \in 1 .. k : b[i] = l[i]
  BY <1>1
<1>4. /\ r \in Seq(S) /\ Len(r) = (n - k) + k
      /\ \A i \in 1 .. (n - k) + k : r[i] = IF i <= n - k THEN a[i] ELSE b[i - (n - k)]
  <2>1. r = a \o b
    BY DEF Rotate
  <2> HIDE DEF a, b, r, n
  <2>2. /\ r \in Seq(S) /\ Len(r) = Len(a) + Len(b)
        /\ \A i \in 1 .. Len(a) + Len(b) : r[i] = IF i <= Len(a) THEN a[i] ELSE b[i - Len(a)]
    BY <1>2, <1>3, <2>1, ConcatProperties
  <2> QED BY <1>2, <1>3, <2>2
<1>5. (n - k) + k = n /\ \A i \in 1 .. n : i > n - k => i - (n - k) \in 1 .. k
  BY <1>1
<1> HIDE DEF a, b, r
<1>6. \A i \in 1 .. n : r[i] = IF i <= n - k THEN l[i + k] ELSE l[i - (n - k)]
  BY <1>1, <1>2, <1>3, <1>4, <1>5
<1>7. Len(r) = n /\ DOMAIN r = 1 .. n
  BY <1>1, <1>4, <1>5
<1> QED BY <1>1, <1>6, <1>7 DEF r, n

\* A rotation keeps what is in the list, and how often.
LEMMA RotateContent ==
  ASSUME NEW S, NEW l \in Seq(S), NEW k \in DOMAIN l
  PROVE  /\ ToSet(Rotate(l, k)) = ToSet(l)
         /\ IsInjective(l) => IsInjective(Rotate(l, k))
<1> DEFINE n == Len(l)
           r == Rotate(l, k)
<1>1. /\ n \in Nat /\ k \in 1 .. n /\ Len(r) = n /\ DOMAIN l = 1 .. n /\ DOMAIN r = 1 .. n
      /\ \A i \in 1 .. n : r[i] = IF i <= n - k THEN l[i + k] ELSE l[i - (n - k)]
  BY RotateElements
<1> HIDE DEF r
<1>2. ASSUME NEW e \in ToSet(r) PROVE e \in ToSet(l)
  BY <1>1, <1>2 DEF ToSet
<1>3. ASSUME NEW e \in ToSet(l) PROVE e \in ToSet(r)
  <2>1. PICK i \in 1 .. n : e = l[i]
    BY <1>1, <1>3 DEF ToSet
  <2>2. CASE i > k
    <3>1. PICK m \in 1 .. n : m = i - k
      BY <1>1, <2>1, <2>2
    <3>2. m <= n - k /\ m + k = i
      BY <1>1, <2>1, <3>1
    <3>3. r[m] = l[i]
      BY <1>1, <3>2
    <3> QED BY <1>1, <2>1, <3>3 DEF ToSet
  <2>3. CASE i <= k
    <3>1. PICK m \in 1 .. n : m = i + (n - k)
      BY <1>1, <2>1, <2>3
    <3>2. ~(m <= n - k) /\ m - (n - k) = i
      BY <1>1, <2>1, <3>1
    <3>3. r[m] = l[i]
      BY <1>1, <3>2
    <3> QED BY <1>1, <2>1, <3>3 DEF ToSet
  <2> QED BY <1>1, <2>1, <2>2, <2>3
<1>4. ASSUME IsInjective(l), NEW a \in 1 .. n, NEW b \in 1 .. n, r[a] = r[b] PROVE a = b
  <2> DEFINE from(i) == IF i <= n - k THEN i + k ELSE i - (n - k)
  <2>1. from(a) \in 1 .. n /\ from(b) \in 1 .. n
    BY <1>1
  <2>2. r[a] = l[from(a)] /\ r[b] = l[from(b)]
    BY <1>1
  <2>3. from(a) = from(b)
    BY <1>1, <1>4, <2>1, <2>2 DEF IsInjective
  <2> QED BY <1>1, <2>3
<1>5. ToSet(r) = ToSet(l) /\ (IsInjective(l) => IsInjective(r))
  BY <1>1, <1>2, <1>3, <1>4 DEF IsInjective
<1> QED BY <1>5 DEF r

\* Where the elements are after one was erased.
LEMMA RemoveAtElements ==
  ASSUME NEW S, NEW l \in Seq(S), NEW k \in DOMAIN l
  PROVE  /\ Len(l) \in Nat /\ k \in 1 .. Len(l)
         /\ DOMAIN l = 1 .. Len(l) /\ DOMAIN RemoveAt(l, k) = 1 .. Len(l) - 1
         /\ \A i \in 1 .. Len(l) - 1 : RemoveAt(l, k)[i] = IF i < k THEN l[i] ELSE l[i + 1]
<1> DEFINE n == Len(l)
           r == RemoveAt(l, k)
           a == SubSeq(l, 1, k - 1)
           b == SubSeq(l, k + 1, n)
<1>1. n \in Nat /\ k \in 1 .. n /\ DOMAIN l = 1 .. n /\ \A i \in 1 .. n : l[i] \in S
  OBVIOUS
<1>2. a \in Seq(S) /\ Len(a) = k - 1 /\ \A i \in 1 .. k - 1 : a[i] = l[i]
  BY <1>1
<1>3. b \in Seq(S) /\ Len(b) = n - k /\ \A i \in 1 .. n - k : b[i] = l[i + k]
  BY Behind
<1>4. /\ r \in Seq(S) /\ Len(r) = (k - 1) + (n - k)
      /\ \A i \in 1 .. (k - 1) + (n - k) : r[i] = IF i <= k - 1 THEN a[i] ELSE b[i - (k - 1)]
  <2>1. r = a \o b
    BY DEF RemoveAt
  <2> HIDE DEF a, b, r, n
  <2>2. /\ r \in Seq(S) /\ Len(r) = Len(a) + Len(b)
        /\ \A i \in 1 .. Len(a) + Len(b) : r[i] = IF i <= Len(a) THEN a[i] ELSE b[i - Len(a)]
    BY <1>2, <1>3, <2>1, ConcatProperties
  <2> QED BY <1>2, <1>3, <2>2
<1>5. /\ (k - 1) + (n - k) = n - 1
      /\ \A i \in 1 .. n - 1 : i >= k => i - (k - 1) \in 1 .. n - k /\ (i - (k - 1)) + k = i + 1
  BY <1>1
<1> HIDE DEF a, b, r
<1>6. \A i \in 1 .. n - 1 : r[i] = IF i < k THEN l[i] ELSE l[i + 1]
  <2> SUFFICES ASSUME NEW i \in 1 .. n - 1 PROVE r[i] = IF i < k THEN l[i] ELSE l[i + 1]
    OBVIOUS
  <2>1. CASE i < k
    BY <1>1, <1>2, <1>4, <1>5, <2>1
  <2>2. CASE i >= k
    <3>1. r[i] = b[i - (k - 1)]
      BY <1>1, <1>4, <1>5, <2>2
    <3>2. b[i - (k - 1)] = l[(i - (k - 1)) + k]
      BY <1>3, <1>5, <2>2
    <3> QED BY <1>1, <1>5, <2>2, <3>1, <3>2
  <2> QED BY <1>1, <2>1, <2>2
<1>7. Len(r) = n - 1 /\ DOMAIN r = 1 .. n - 1
  BY <1>1, <1>4, <1>5
<1> QED BY <1>1, <1>6, <1>7 DEF r, n

\* Erasing an element of a list without repetitions takes it out, and nothing else.
LEMMA RemoveAtContent ==
  ASSUME NEW S, NEW l \in Seq(S), NEW k \in DOMAIN l
  PROVE  /\ ToSet(RemoveAt(l, k)) \subseteq ToSet(l)
         /\ IsInjective(l) => /\ IsInjective(RemoveAt(l, k))
                              /\ ToSet(RemoveAt(l, k)) = ToSet(l) \ {l[k]}
<1> DEFINE n == Len(l)
           r == RemoveAt(l, k)
<1>1. /\ n \in Nat /\ k \in 1 .. n /\ DOMAIN l = 1 .. n /\ DOMAIN r = 1 .. n - 1
      /\ \A i \in 1 .. n - 1 : r[i] = IF i < k THEN l[i] ELSE l[i + 1]
  BY RemoveAtElements
<1> HIDE DEF r
<1>2. ToSet(r) \subseteq ToSet(l)
  BY <1>1 DEF ToSet
<1>3. ASSUME IsInjective(l), NEW a \in 1 .. n - 1, NEW b \in 1 .. n - 1, r[a] = r[b] PROVE a = b
  BY <1>1, <1>3 DEF IsInjective
<1>4. ASSUME IsInjective(l) PROVE l[k] \notin ToSet(r)
  BY <1>1, <1>4 DEF IsInjective, ToSet
<1>5. ASSUME NEW e \in ToSet(l), e # l[k] PROVE e \in ToSet(r)
  <2>1. PICK i \in 1 .. n : e = l[i]
    BY <1>1, <1>5 DEF ToSet
  <2>2. CASE i < k
    BY <1>1, <2>1, <2>2 DEF ToSet
  <2>3. CASE i > k
    <3>1. i - 1 \in 1 .. n - 1 /\ r[i - 1] = l[i]
      BY <1>1, <2>1, <2>3
    <3> QED BY <1>1, <2>1, <3>1 DEF ToSet
  <2> QED BY <1>1, <1>5, <2>1, <2>2, <2>3
<1>6. ASSUME IsInjective(l) PROVE IsInjective(r) /\ ToSet(r) = ToSet(l) \ {l[k]}
  BY <1>1, <1>2, <1>3, <1>4, <1>5, <1>6 DEF IsInjective
<1> QED BY <1>2, <1>6 DEF r

\* Appending adds the element.
LEMMA AppendContent ==
  ASSUME NEW S, NEW l \in Seq(S), NEW e \in S
  PROVE  /\ ToSet(Append(l, e)) = ToSet(l) \cup {e}
         /\ IsInjective(l) /\ e \notin ToSet(l) => IsInjective(Append(l, e))
<1> DEFINE n == Len(l)
           r == Append(l, e)
<1>1. /\ n \in Nat /\ DOMAIN l = 1 .. n /\ DOMAIN r = 1 .. n + 1
      /\ r[n + 1] = e /\ \A i \in 1 .. n : r[i] = l[i]
  OBVIOUS
<1>2. ToSet(r) = ToSet(l) \cup {e}
  BY <1>1 DEF ToSet
<1>3. ASSUME IsInjective(l), e \notin ToSet(l), NEW a \in 1 .. n + 1, NEW b \in 1 .. n + 1, r[a] = r[b]
      PROVE  a = b
  <2>1. \A i \in 1 .. n : l[i] # e
    BY <1>1, <1>3 DEF ToSet
  <2> QED BY <1>1, <1>3, <2>1 DEF IsInjective
<1> QED BY <1>1, <1>2, <1>3 DEF IsInjective

\* A text that is in a UCB is found there.
LEMMA BlockIsFound ==
  ASSUME TypeOK, NEW u \in Text, NEW t \in ToSet(text_block_list[u])
  PROVE  find_text_block(u, TextID[t]) # {}
<1> DEFINE P == {i \in DOMAIN text_block_list[u] : TextID[text_block_list[u][i]] = TextID[t]}
<1>1. text_block_list[u] \in Seq(Text)
  BY DEF TypeOK
<1>2. DOMAIN text_block_list[u] \cap P # {}
  BY DEF ToSet
<1> QED BY <1>1, <1>2, FirstAtFinds DEF find_text_block

-----------------------------------------------------------------------------
(* What the handlers do to the lists and sessions. *)

\* The step stores the translation of a cell in block b, the j-th of u, and answers its
\* text when that was the last cell.
CellTranslated(u, j, b, cell) ==
  /\ j \in DOMAIN text_block_list[u] /\ text_block_list[u][j] = b
  /\ is_trans' = [is_trans EXCEPT ![b] = @ \cup {cell}]
  /\ \/ UNCHANGED <<text_block_list, answer>> /\ ~(Cells(b) \subseteq is_trans'[b])
     \/ /\ text_block_list' = [text_block_list EXCEPT ![u] = RemoveAt(@, j)]
        /\ answer' = [answer EXCEPT ![b] = "SUCCESS"]
        /\ Cells(b) \subseteq is_trans'[b]

\* What Success does: nothing, or that to the block it finds.
LEMMA SuccessBlock ==
  ASSUME TypeOK, NEW u \in Text, NEW tid, NEW cell, Success(u, tid, cell)
  PROVE  \/ /\ find_text_block(u, tid) = {}
            /\ UNCHANGED <<is_trans, text_block_list, answer>>
         \/ \E b \in Text : \E j : TextID[b] = tid /\ CellTranslated(u, j, b, cell)
<1>1. \A j \in find_text_block(u, tid) :
        /\ j \in DOMAIN text_block_list[u] /\ text_block_list[u][j] \in Text
        /\ TextID[text_block_list[u][j]] = tid
  BY FindTextBlock
<1> QED BY <1>1 DEF Success, finish_translation, CellTranslated

\* What Failed does to the block it finds.
LEMMA FailedBlock ==
  ASSUME TypeOK, NEW u \in Text, NEW tid, NEW cell, Failed(u, tid, cell)
  PROVE  \/ UNCHANGED untrans_idx_set /\ find_text_block(u, tid) = {}
         \/ \E b \in Text : \E j \in DOMAIN text_block_list[u] :
              /\ text_block_list[u][j] = b /\ TextID[b] = tid
              /\ untrans_idx_set' = [untrans_idx_set EXCEPT ![b] = @ \cup {cell}]
<1>1. \A j \in find_text_block(u, tid) :
        /\ j \in DOMAIN text_block_list[u] /\ text_block_list[u][j] \in Text
        /\ TextID[text_block_list[u][j]] = tid
  BY FindTextBlock
<1> QED BY <1>1 DEF Failed

\* What EraseEmptyUcb does to the list of the core.
LEMMA ErasedUcb ==
  ASSUME TypeOK, NEW d \in Domain, NEW u, EraseEmptyUcb(d, u)
  PROVE  \/ UNCHANGED usr_list
         \/ \E i \in DOMAIN usr_list[d] :
              usr_list' = [usr_list EXCEPT ![d] = RemoveAt(@, i)]
<1>1. \A i \in find_ucb(d, UsrID[u]) : i \in DOMAIN usr_list[d]
  BY FindUcb
<1> QED BY <1>1 DEF EraseEmptyUcb

\* Erasing one element of one of the lists leaves it a list of texts.
LEMMA EraseType ==
  ASSUME TypeOK
  PROVE  /\ \A u \in Text : \A j \in DOMAIN text_block_list[u] :
              RemoveAt(text_block_list[u], j) \in Seq(Text)
         /\ \A d \in Domain : \A i \in DOMAIN usr_list[d] :
              RemoveAt(usr_list[d], i) \in Seq(Text)
<1>1. usr_list \in [Domain -> Seq(Text)] /\ text_block_list \in [Text -> Seq(Text)]
  BY DEF TypeOK
<1> QED BY <1>1, RemoveAtType

\* A session that is not CLOSING is a session.
LEMMA LiveSession ==
  ASSUME TypeOK, NEW c \in CallID, trans_sess_map[c] # NoSession
  PROVE  /\ trans_sess_map[c] \in TransSession
         /\ \A st \in {"CONNECT", "SENDING", "RECVING", "CLOSING"} :
              [trans_sess_map[c] EXCEPT !.state = st] \in TransSession
BY DEF TypeOK, TransSession

\* GetReadyTask leaves ready_core a configured core or none.
LEMMA RunReadyTasksType ==
  ASSUME NEW d \in Domain, RunReadyTasks(d)
  PROVE  ready_core' \in Domain \cup {NoDomain}
BY DEF RunReadyTasks

\* The types of what the lists hold.
LEMMA TypeFacts ==
  ASSUME TypeOK
  PROVE  /\ usr_list \in [Domain -> Seq(Text)] /\ text_block_list \in [Text -> Seq(Text)]
         /\ untrans_idx_set \in [Text -> SUBSET Nat] /\ is_trans \in [Text -> SUBSET Nat]
         /\ answer \in [Text -> Answers]
         /\ trans_sess_map \in [CallID -> TransSession \cup {NoSession}]
         /\ \A u \in Text : ToSet(text_block_list[u]) \subseteq Text
         /\ \A d \in Domain : ToSet(usr_list[d]) \subseteq Text
<1>1. usr_list \in [Domain -> Seq(Text)] /\ text_block_list \in [Text -> Seq(Text)]
  BY DEF TypeOK
<1>2. \A u \in Text : ToSet(text_block_list[u]) \subseteq Text
  BY <1>1 DEF ToSet
<1>3. \A d \in Domain : ToSet(usr_list[d]) \subseteq Text
  BY <1>1 DEF ToSet
<1> QED BY <1>1, <1>2, <1>3 DEF TypeOK

-----------------------------------------------------------------------------
(* Type correctness. *)

LEMMA TypeInit == Init => TypeOK
BY ConfigAssumption DEF Init, TypeOK, Answers

LEMMA TypeGetReadyTask == TypeOK /\ GetReadyTask => TypeOK'
<1> SUFFICES ASSUME TypeOK,
                    NEW d \in Domain \cap {ready_core},
                    NEW s \in idle_slaves(d),
                    NEW i \in FirstAt(usr_list[d], ready_ucbs(d)),
                    NEW u \in {usr_list[d][i]},
                    NEW j \in FirstAt(text_block_list[u], ready_blocks(u)),
                    NEW t \in {text_block_list[u][j]},
                    NEW idx \in untrans_idx_set[t], NEW c \in CallID,
                    HandOut(d, s, i, u, j, t, idx, c)
             PROVE  TypeOK'
  BY DEF GetReadyTask
<1>1. i \in DOMAIN usr_list[d] /\ u \in Text
  BY FirstAtInDomain DEF TypeOK
<1>2. j \in DOMAIN text_block_list[u] /\ t \in Text
  BY <1>1, FirstAtInDomain DEF TypeOK
<1>3. idx \in Nat /\ s \in Slave /\ idel_num[s] - 1 \in Nat
  BY <1>2 DEF TypeOK, idle_slaves
<1>4. usr_list' \in [Domain -> Seq(Text)]
  BY <1>1, RotateType DEF TypeOK, HandOut
<1>5. text_block_list' \in [Text -> Seq(Text)]
  BY <1>1, <1>2, RotateType DEF TypeOK, HandOut, CreateTask
<1>6. untrans_idx_set' \in [Text -> SUBSET Nat] /\ idel_num' \in [Slave -> Nat]
  BY <1>2, <1>3 DEF TypeOK, HandOut, CreateTask
<1>7. trans_sess_map' \in [CallID -> TransSession \cup {NoSession}]
  BY <1>1, <1>2, <1>3 DEF TypeOK, TransSession, HandOut, call_slave_for_trans
<1> QED BY <1>4, <1>5, <1>6, <1>7, RunReadyTasksType DEF TypeOK, HandOut

LEMMA TypeSlaves ==
  /\ \A s \in Slave : TypeOK /\ on_slave_pluse(s) => TypeOK'
  /\ \A overdue : TypeOK /\ on_timer(overdue) => TypeOK'
<1>1. ASSUME NEW s \in Slave, TypeOK, on_slave_pluse(s) PROVE TypeOK'
  <2>1. SlaveDomain[s] \in Domain /\ ConcurrentNum[s] \in Nat
    BY ConfigAssumption
  <2>2. ready_core' \in Domain \cup {NoDomain} /\ domaintype' \in Domain
    BY <1>1, <2>1, RunReadyTasksType DEF on_slave_pluse
  <2>3. slave_map' \subseteq Slave /\ idel_num' \in [Slave -> Nat]
    BY <1>1, <2>1 DEF on_slave_pluse, PluseSlave, TypeOK
  <2> QED BY <1>1, <2>2, <2>3 DEF on_slave_pluse, TypeOK, text_vars
<1>2. ASSUME NEW overdue, TypeOK, on_timer(overdue) PROVE TypeOK'
  BY <1>2 DEF on_timer, TypeOK, text_vars
<1> QED BY <1>1, <1>2

LEMMA TypeSubmit == \A t \in Text : TypeOK /\ on_trans_submit(t) => TypeOK'
<1> SUFFICES ASSUME NEW t \in Text, TypeOK, on_trans_submit(t) PROVE TypeOK'
  OBVIOUS
<1>1. CASE RefuseSubmit(t)
  BY <1>1 DEF on_trans_submit, RefuseSubmit, finish_translation, TypeOK, Answers
<1>2. CASE SubmitTranslation(t)
  <2>1. usr_list' \in [Domain -> Seq(Text)] /\ text_block_list' \in [Text -> Seq(Text)]
    <3>1. \A d \in Domain : \A i \in find_ucb(d, UsrID[t]) : usr_list[d][i] \in Text
      BY FindUcb
    <3>2. PICK d \in Domain :
             \/ /\ usr_list' = [usr_list EXCEPT ![d] = Append(@, t)]
                /\ text_block_list' = [text_block_list EXCEPT ![t] = <<t>>]
             \/ \E i \in find_ucb(d, UsrID[t]) :
                  /\ text_block_list' = [text_block_list EXCEPT ![usr_list[d][i]] = Append(@, t)]
                  /\ UNCHANGED usr_list
      BY <1>2 DEF SubmitTranslation
    <3>3. usr_list \in [Domain -> Seq(Text)] /\ text_block_list \in [Text -> Seq(Text)]
      BY DEF TypeOK
    <3>4. CASE /\ usr_list' = [usr_list EXCEPT ![d] = Append(@, t)]
               /\ text_block_list' = [text_block_list EXCEPT ![t] = <<t>>]
      BY <3>3, <3>4
    <3>5. ASSUME NEW i \in find_ucb(d, UsrID[t]), UNCHANGED usr_list,
                 text_block_list' = [text_block_list EXCEPT ![usr_list[d][i]] = Append(@, t)]
          PROVE  /\ usr_list' \in [Domain -> Seq(Text)]
                 /\ text_block_list' \in [Text -> Seq(Text)]
      <4> DEFINE u == usr_list[d][i]
      <4>1. u \in Text
        BY <3>1
      <4>2. Append(text_block_list[u], t) \in Seq(Text)
        BY <3>3, <4>1
      <4> QED BY <3>3, <3>5, <4>1, <4>2
    <3> QED BY <3>2, <3>4, <3>5
  <2>2. text_state' \in [Text -> {"READY", "SUSPEND"}] /\ answer' \in [Text -> Answers]
    BY <1>2 DEF SubmitTranslation, TypeOK, Answers
  <2>3. untrans_idx_set' \in [Text -> SUBSET Nat]
    BY <1>2, ConfigAssumption DEF SubmitTranslation, TypeOK, Cells
  <2>4. ready_core' \in Domain \cup {NoDomain}
    BY <1>2, RunReadyTasksType DEF SubmitTranslation
  <2> QED BY <1>2, <2>1, <2>2, <2>3, <2>4 DEF on_trans_submit, SubmitTranslation, TypeOK
<1> QED BY <1>1, <1>2 DEF on_trans_submit

\* What the three requests about a submitted text have in common: the block they found.
LEMMA TypeControl ==
  /\ \A usr, tid : TypeOK /\ on_trans_suspend(usr, tid) => TypeOK'
  /\ \A usr, tid : TypeOK /\ on_trans_rerun(usr, tid) => TypeOK'
  /\ \A usr, tid : TypeOK /\ on_trans_cancel(usr, tid) => TypeOK'
<1>1. ASSUME NEW usr, NEW tid, TypeOK, on_trans_suspend(usr, tid) PROVE TypeOK'
  <2>1. ready_core' \in Domain \cup {NoDomain}
    BY <1>1, RunReadyTasksType DEF on_trans_suspend
  <2>2. text_state' \in [Text -> {"READY", "SUSPEND"}]
    BY <1>1 DEF on_trans_suspend, TypeOK
  <2> QED BY <1>1, <2>1, <2>2 DEF on_trans_suspend, TypeOK
<1>2. ASSUME NEW usr, NEW tid, TypeOK, on_trans_rerun(usr, tid) PROVE TypeOK'
  <2>1. ready_core' \in Domain \cup {NoDomain}
    BY <1>2, RunReadyTasksType DEF on_trans_rerun
  <2>2. text_state' \in [Text -> {"READY", "SUSPEND"}]
    BY <1>2 DEF on_trans_rerun, TypeOK
  <2> QED BY <1>2, <2>1, <2>2 DEF on_trans_rerun, TypeOK
<1>3. ASSUME NEW usr, NEW tid, TypeOK, on_trans_cancel(usr, tid) PROVE TypeOK'
  <2> PICK d \in Domain : \E i \in find_ucb(d, usr) :
          \E u \in {usr_list[d][i]} : \E j \in find_text_block(u, tid) :
            /\ text_block_list' = [text_block_list EXCEPT ![u] = RemoveAt(@, j)]
            /\ usr_list' = IF text_block_list'[u] = <<>>
                           THEN [usr_list EXCEPT ![d] = RemoveAt(@, i)] ELSE usr_list
            /\ finish_translation(text_block_list[u][j], "USR_CANCEL")
            /\ RunReadyTasks(d)
    BY <1>3 DEF on_trans_cancel
  <2>1. PICK i \in find_ucb(d, usr) :
          \E u \in {usr_list[d][i]} : \E j \in find_text_block(u, tid) :
            /\ text_block_list' = [text_block_list EXCEPT ![u] = RemoveAt(@, j)]
            /\ usr_list' = IF text_block_list'[u] = <<>>
                           THEN [usr_list EXCEPT ![d] = RemoveAt(@, i)] ELSE usr_list
            /\ finish_translation(text_block_list[u][j], "USR_CANCEL")
            /\ RunReadyTasks(d)
    OBVIOUS
  <2>2. i \in DOMAIN usr_list[d] /\ usr_list[d][i] \in Text
    BY <1>3, FindUcb
  <2>3. usr_list' \in [Domain -> Seq(Text)]
    <3>1. usr_list \in [Domain -> Seq(Text)]
      BY <1>3 DEF TypeOK
    <3>2. \/ usr_list' = [usr_list EXCEPT ![d] = RemoveAt(@, i)]
          \/ usr_list' = usr_list
      BY <2>1
    <3> QED BY <1>3, <2>2, <3>1, <3>2, EraseType
  <2>4. text_block_list' \in [Text -> Seq(Text)]
    <3> DEFINE u == usr_list[d][i]
    <3>1. PICK j \in find_text_block(u, tid) :
            text_block_list' = [text_block_list EXCEPT ![u] = RemoveAt(@, j)]
      BY <2>1
    <3>2. j \in DOMAIN text_block_list[u]
      BY <1>3, <2>2, FindTextBlock
    <3>3. text_block_list \in [Text -> Seq(Text)]
      BY <1>3 DEF TypeOK
    <3> QED BY <1>3, <2>2, <3>1, <3>2, <3>3, EraseType
  <2>5. answer' \in [Text -> Answers]
    BY <1>3, <2>1, <2>2, FindTextBlock DEF TypeOK, finish_translation, Answers
  <2>6. ready_core' \in Domain \cup {NoDomain}
    BY <2>1, RunReadyTasksType
  <2> QED BY <1>3, <2>3, <2>4, <2>5, <2>6 DEF on_trans_cancel, TypeOK
<1> QED BY <1>1, <1>2, <1>3

LEMMA TypeSuccess ==
  ASSUME TypeOK, NEW c \in CallID, on_recv_packet(c)
  PROVE  /\ usr_list' \in [Domain -> Seq(Text)]
         /\ text_block_list' \in [Text -> Seq(Text)]
         /\ is_trans' \in [Text -> SUBSET Nat]
         /\ answer' \in [Text -> Answers]
<1> DEFINE se == trans_sess_map[c]
<1>1. se \in TransSession
  BY LiveSession DEF on_recv_packet, InState
<1>2. se.ucb \in Text /\ se.cell \in Nat /\ SlaveDomain[se.slave] \in Domain
  BY <1>1, ConfigAssumption DEF TransSession
<1>3. usr_list \in [Domain -> Seq(Text)] /\ text_block_list \in [Text -> Seq(Text)]
  BY DEF TypeOK
<1>4. Success(se.ucb, TextID[se.text], se.cell) /\ EraseEmptyUcb(SlaveDomain[se.slave], se.ucb)
  BY DEF on_recv_packet
<1>5. text_block_list' \in [Text -> Seq(Text)]
  <2> DEFINE u == se.ucb
  <2>1. \/ text_block_list' = text_block_list
        \/ \E j \in DOMAIN text_block_list[u] :
             text_block_list' = [text_block_list EXCEPT ![u] = RemoveAt(@, j)]
    BY <1>2, <1>4, SuccessBlock DEF CellTranslated
  <2> QED BY <1>2, <1>3, <2>1, EraseType
<1>6. is_trans' \in [Text -> SUBSET Nat] /\ answer' \in [Text -> Answers]
  <2>1. is_trans \in [Text -> SUBSET Nat] /\ answer \in [Text -> Answers]
    BY DEF TypeOK
  <2>2. PICK u, tid, k : u = se.ucb /\ tid = TextID[se.text] /\ k = se.cell
    OBVIOUS
  <2>3. \/ UNCHANGED <<is_trans, text_block_list, answer>>
        \/ \E b \in Text : \E j : CellTranslated(u, j, b, k)
    BY <1>2, <1>4, <2>2, SuccessBlock
  <2>4. CASE UNCHANGED <<is_trans, text_block_list, answer>>
    BY <2>1, <2>4
  <2>5. ASSUME NEW b \in Text, NEW j, CellTranslated(u, j, b, k)
        PROVE  is_trans' \in [Text -> SUBSET Nat] /\ answer' \in [Text -> Answers]
    <3>1. is_trans' = [is_trans EXCEPT ![b] = @ \cup {k}] /\ k \in Nat
      BY <1>2, <2>2, <2>5 DEF CellTranslated
    <3>2. answer' = answer \/ answer' = [answer EXCEPT ![b] = "SUCCESS"]
      BY <2>5 DEF CellTranslated
    <3> QED BY <2>1, <3>1, <3>2 DEF Answers
  <2> QED BY <2>3, <2>4, <2>5
<1>7. usr_list' \in [Domain -> Seq(Text)]
  <2> DEFINE d == SlaveDomain[se.slave]
  <2>1. \/ usr_list' = usr_list
        \/ \E i \in DOMAIN usr_list[d] : usr_list' = [usr_list EXCEPT ![d] = RemoveAt(@, i)]
    BY <1>2, <1>4, ErasedUcb
  <2> QED BY <1>2, <1>3, <2>1, EraseType
<1> QED BY <1>5, <1>6, <1>7

LEMMA TypeSession == \A c \in CallID : TypeOK /\ Session(c) => TypeOK'
<1> SUFFICES ASSUME NEW c \in CallID, TypeOK, Session(c) PROVE TypeOK'
  OBVIOUS
<1> DEFINE se == trans_sess_map[c]
<1>1. CASE on_connected(c)
  BY <1>1, LiveSession DEF on_connected, InState, SetState, TypeOK, text_vars
<1>2. CASE on_send_packet(c)
  BY <1>2, LiveSession DEF on_send_packet, InState, SetState, TypeOK, text_vars
<1>3. CASE on_recv_packet(c)
  <2>1. se \in TransSession
    BY <1>3, LiveSession DEF on_recv_packet, InState
  <2>2. trans_sess_map' \in [CallID -> TransSession \cup {NoSession}]
    BY <1>3, LiveSession DEF on_recv_packet, InState, SetState, TypeOK
  <2>3. idel_num' \in [Slave -> Nat]
    BY <1>3, <2>1 DEF on_recv_packet, TypeOK, TransSession
  <2>4. ready_core' \in Domain \cup {NoDomain}
    BY <1>3, <2>1, RunReadyTasksType, ConfigAssumption DEF on_recv_packet, TransSession
  <2> QED BY <1>3, <2>2, <2>3, <2>4, TypeSuccess DEF on_recv_packet, TypeOK
<1>4. CASE on_session_failed(c)
  <2>1. se \in TransSession
    BY <1>4, LiveSession DEF on_session_failed, Live
  <2>2. trans_sess_map' \in [CallID -> TransSession \cup {NoSession}]
    BY <1>4, LiveSession DEF on_session_failed, Live, SetState, TypeOK
  <2>3. ready_core' \in Domain \cup {NoDomain}
    BY <1>4, <2>1, RunReadyTasksType, ConfigAssumption DEF on_session_failed, TransSession
  <2>4. untrans_idx_set' \in [Text -> SUBSET Nat]
    <3>1. se.ucb \in Text /\ se.cell \in Nat
      BY <2>1 DEF TransSession
    <3>2. Failed(se.ucb, TextID[se.text], se.cell)
      BY <1>4 DEF on_session_failed
    <3>3. \/ untrans_idx_set' = untrans_idx_set
          \/ \E b \in Text :
               untrans_idx_set' = [untrans_idx_set EXCEPT ![b] = @ \cup {se.cell}]
      BY <3>1, <3>2, FailedBlock
    <3>4. untrans_idx_set \in [Text -> SUBSET Nat]
      BY DEF TypeOK
    <3> QED BY <3>1, <3>3, <3>4
  <2>5. slave_map' \subseteq Slave
    BY <1>4 DEF on_session_failed, delete_slave, TypeOK
  <2> QED BY <1>4, <2>2, <2>3, <2>4, <2>5 DEF on_session_failed, TypeOK
<1>5. CASE on_close_sock(c)
  BY <1>5 DEF on_close_sock, TypeOK, text_vars
<1> QED BY <1>1, <1>2, <1>3, <1>4, <1>5 DEF Session

LEMMA TypeNext == TypeOK /\ [Next]_vars => TypeOK'
<1> SUFFICES ASSUME TypeOK, [Next]_vars PROVE TypeOK'
  OBVIOUS
<1>1. CASE UNCHANGED vars
  BY <1>1 DEF vars, text_vars, TypeOK
<1>2. ASSUME NEW t \in Text, Request(t) PROVE TypeOK'
  BY <1>2, TypeSubmit, TypeControl DEF Request
<1> QED BY <1>1, <1>2, TypeGetReadyTask, TypeSlaves, TypeSession DEF Next

\* In every behaviour the variables keep their types, so that m_idel_num, a size_t, never
\* goes below zero and every iterator that is used points at something.
THEOREM TypeCorrect == Spec => []TypeOK
BY TypeInit, TypeNext, PTL DEF Spec
-----------------------------------------------------------------------------
(* Slots.  SlotsAccounted is inductive with the types. *)

\* The tasks of a slave are finitely many when the sessions are.
LEMMA TasksOnFinite ==
  ASSUME IsFiniteSet(CallID), NEW s
  PROVE  IsFiniteSet(TasksOn(s)) /\ Cardinality(TasksOn(s)) \in Nat
<1>1. TasksOn(s) \subseteq CallID
  BY DEF TasksOn
<1> QED BY <1>1, FS_Subset, FS_CardinalityType

\* A step that leaves the slaves and the running tasks alone leaves the account alone.
LEMMA SameTasks ==
  ASSUME SlotsAccounted, idel_num' = idel_num, slave_map' \subseteq slave_map,
         \A s \in slave_map' : TasksOn(s)' = TasksOn(s)
  PROVE  SlotsAccounted'
BY DEF SlotsAccounted

LEMMA SlotsGetReadyTask ==
  IsFiniteSet(CallID) /\ TypeOK /\ SlotsAccounted /\ GetReadyTask => SlotsAccounted'
<1> SUFFICES ASSUME IsFiniteSet(CallID), TypeOK, SlotsAccounted,
                    NEW d \in Domain \cap {ready_core},
                    NEW s \in idle_slaves(d),
                    NEW i \in FirstAt(usr_list[d], ready_ucbs(d)),
                    NEW u \in {usr_list[d][i]},
                    NEW j \in FirstAt(text_block_list[u], ready_blocks(u)),
                    NEW t \in {text_block_list[u][j]},
                    NEW idx \in untrans_idx_set[t], NEW c \in CallID,
                    HandOut(d, s, i, u, j, t, idx, c)
             PROVE  SlotsAccounted'
  BY DEF GetReadyTask
<1>1. s \in slave_map /\ s \in Slave /\ idel_num \in [Slave -> Nat] /\ slave_map \subseteq Slave
  BY DEF idle_slaves, TypeOK
<1>2. slave_map' = slave_map /\ idel_num' = [idel_num EXCEPT ![s] = @ - 1]
  BY DEF HandOut
<1> DEFINE new == [state |-> "CONNECT", ucb |-> u, text |-> t, cell |-> idx, slave |-> s]
<1>3. trans_sess_map[c] = NoSession /\ trans_sess_map' = [trans_sess_map EXCEPT ![c] = new]
  BY DEF HandOut, call_slave_for_trans
<1>4. new # NoSession
  <2>1. u \in Text /\ t \in Text /\ idx \in Nat
    BY FirstAtInDomain DEF TypeOK
  <2>2. new \in TransSession
    BY <1>1, <2>1 DEF TransSession
  <2> QED BY <2>2, SessionAssumption
<1>5. TasksOn(s)' = TasksOn(s) \cup {c} /\ c \notin TasksOn(s)
  BY <1>3, <1>4 DEF TasksOn, Live, TypeOK
<1>6. \A r \in slave_map : r # s => TasksOn(r)' = TasksOn(r)
  BY <1>3, <1>4 DEF TasksOn, Live, TypeOK
<1>7. Cardinality(TasksOn(s)') = Cardinality(TasksOn(s)) + 1
  BY <1>5, TasksOnFinite, FS_AddElement
<1>8. idel_num[s]' + Cardinality(TasksOn(s)') = idel_num[s] + Cardinality(TasksOn(s))
  BY <1>1, <1>2, <1>7, TasksOnFinite
<1>9. \A r \in slave_map : r # s => idel_num'[r] = idel_num[r]
  BY <1>1, <1>2
<1> QED BY <1>1, <1>2, <1>6, <1>8, <1>9 DEF SlotsAccounted

LEMMA SlotsSlaves ==
  /\ \A s \in Slave : IsFiniteSet(CallID) /\ TypeOK /\ SlotsAccounted /\ on_slave_pluse(s) => SlotsAccounted'
  /\ \A overdue : SlotsAccounted /\ on_timer(overdue) => SlotsAccounted'
<1>1. ASSUME NEW s \in Slave, IsFiniteSet(CallID), TypeOK, SlotsAccounted, on_slave_pluse(s)
      PROVE  SlotsAccounted'
  <2>1. \A r : TasksOn(r)' = TasksOn(r)
    BY <1>1 DEF on_slave_pluse, TasksOn, Live
  <2>2. CASE UNCHANGED <<slave_map, idel_num>>
    BY <1>1, <2>1, <2>2 DEF SlotsAccounted
  <2>3. CASE /\ \A c \in CallID : trans_sess_map[c] # NoSession => trans_sess_map[c].slave # s
             /\ slave_map' = slave_map \cup {s}
             /\ idel_num' = [idel_num EXCEPT ![s] = ConcurrentNum[s]]
    <3>1. TasksOn(s) = {}
      BY <2>3 DEF TasksOn, Live
    <3>2. idel_num'[s] = ConcurrentNum[s] /\ ConcurrentNum[s] \in Nat
      BY <1>1, <2>3, ConfigAssumption DEF TypeOK
    <3>3. \A r \in slave_map : r # s => idel_num'[r] = idel_num[r]
      BY <1>1, <2>3 DEF TypeOK
    <3>4. idel_num'[s] + Cardinality(TasksOn(s)') = ConcurrentNum[s]
      BY <2>1, <3>1, <3>2, FS_EmptySet
    <3> QED BY <1>1, <2>1, <2>3, <3>3, <3>4 DEF SlotsAccounted
  <2> QED BY <1>1, <2>2, <2>3 DEF on_slave_pluse, PluseSlave
<1>2. ASSUME NEW overdue, SlotsAccounted, on_timer(overdue) PROVE SlotsAccounted'
  <2>1. \A r : TasksOn(r)' = TasksOn(r)
    BY <1>2 DEF on_timer, TasksOn, Live
  <2> QED BY <1>2, <2>1, SameTasks DEF on_timer
<1> QED BY <1>1, <1>2

LEMMA SlotsSession ==
  \A c \in CallID :
    IsFiniteSet(CallID) /\ TypeOK /\ SlotsAccounted /\ Session(c) => SlotsAccounted'
<1> SUFFICES ASSUME NEW c \in CallID, IsFiniteSet(CallID), TypeOK, SlotsAccounted, Session(c)
             PROVE  SlotsAccounted'
  OBVIOUS
<1> DEFINE se == trans_sess_map[c]
<1>0. /\ trans_sess_map \in [CallID -> TransSession \cup {NoSession}]
      /\ idel_num \in [Slave -> Nat] /\ slave_map \subseteq Slave
  BY DEF TypeOK
<1>1. ASSUME \/ InState(c, "CONNECT") /\ SetState(c, "SENDING")
             \/ InState(c, "SENDING") /\ SetState(c, "RECVING"),
             UNCHANGED <<slave_map, idel_num>>
      PROVE  SlotsAccounted'
  <2>1. se \in TransSession /\ Live(c)
    BY <1>1, LiveSession DEF InState, Live
  <2>2. /\ trans_sess_map'[c] # NoSession /\ trans_sess_map'[c].state # "CLOSING"
        /\ trans_sess_map'[c].slave = se.slave
        /\ \A b \in CallID : b # c => trans_sess_map'[b] = trans_sess_map[b]
    BY <1>0, <1>1, <2>1, LiveSession, SessionAssumption DEF SetState, InState, TransSession
  <2>3. \A s : TasksOn(s)' = TasksOn(s)
    BY <2>1, <2>2 DEF TasksOn, Live
  <2> QED BY <1>1, <2>3, SameTasks
<1>2. ASSUME Live(c), SetState(c, "CLOSING")
      PROVE  /\ se \in TransSession /\ c \in TasksOn(se.slave)
             /\ \A s : TasksOn(s)' = TasksOn(s) \ {c}
             /\ \A s : s # se.slave => TasksOn(s)' = TasksOn(s)
  <2>1. se \in TransSession
    BY <1>2, LiveSession DEF Live
  <2>2. /\ trans_sess_map'[c].state = "CLOSING"
        /\ \A b \in CallID : b # c => trans_sess_map'[b] = trans_sess_map[b]
    BY <1>0, <1>2, <2>1 DEF SetState, TransSession
  <2>3. \A s : TasksOn(s)' = TasksOn(s) \ {c}
    BY <2>2 DEF TasksOn, Live
  <2>4. \A s : s # se.slave => c \notin TasksOn(s)
    BY DEF TasksOn
  <2> QED BY <1>2, <2>1, <2>3, <2>4 DEF TasksOn
<1>3. CASE on_recv_packet(c)
  <2>1. Live(c) /\ SetState(c, "CLOSING")
    BY <1>3 DEF on_recv_packet, InState, Live
  <2>2. PICK s : s = se.slave
    OBVIOUS
  <2>3. slave_map' = slave_map /\ idel_num' = [idel_num EXCEPT ![s] = @ + 1]
    BY <1>3, <2>2 DEF on_recv_packet
  <2>4. s \in Slave /\ c \in TasksOn(s) /\ TasksOn(s)' = TasksOn(s) \ {c}
    BY <1>2, <2>1, <2>2 DEF TransSession
  <2>5. Cardinality(TasksOn(s)') = Cardinality(TasksOn(s)) - 1
    BY <2>4, TasksOnFinite, FS_RemoveElement
  <2>6. idel_num'[s] + Cardinality(TasksOn(s)') = idel_num[s] + Cardinality(TasksOn(s))
    BY <1>0, <2>3, <2>4, <2>5, TasksOnFinite
  <2>7. \A r \in slave_map : r # s => idel_num'[r] = idel_num[r] /\ TasksOn(r)' = TasksOn(r)
    BY <1>0, <1>2, <2>1, <2>2, <2>3
  <2> QED BY <2>3, <2>6, <2>7 DEF SlotsAccounted
<1>4. CASE on_session_failed(c)
  <2>1. Live(c) /\ SetState(c, "CLOSING")
    BY <1>4 DEF on_session_failed
  <2>2. slave_map' \subseteq slave_map \ {se.slave} /\ idel_num' = idel_num
    BY <1>4 DEF on_session_failed, delete_slave
  <2>3. \A s \in slave_map' : TasksOn(s)' = TasksOn(s)
    BY <1>2, <2>1, <2>2
  <2> QED BY <2>2, <2>3, SameTasks
<1>5. CASE on_close_sock(c)
  <2>1. \A s : TasksOn(s)' = TasksOn(s)
    BY <1>0, <1>5 DEF on_close_sock, InState, TasksOn, Live
  <2> QED BY <1>5, <2>1, SameTasks DEF on_close_sock
<1>6. CASE on_connected(c) \/ on_send_packet(c)
  <2>1. UNCHANGED <<slave_map, idel_num>>
    BY <1>6 DEF on_connected, on_send_packet
  <2>2. \/ InState(c, "CONNECT") /\ SetState(c, "SENDING")
        \/ InState(c, "SENDING") /\ SetState(c, "RECVING")
    BY <1>6 DEF on_connected, on_send_packet
  <2> QED BY <1>1, <2>1, <2>2
<1> QED BY <1>3, <1>4, <1>5, <1>6 DEF Session

LEMMA SlotsNext ==
  IsFiniteSet(CallID) /\ TypeOK /\ SlotsAccounted /\ [Next]_vars => SlotsAccounted'
<1> SUFFICES ASSUME IsFiniteSet(CallID), TypeOK, SlotsAccounted, [Next]_vars
             PROVE  SlotsAccounted'
  OBVIOUS
<1>1. CASE UNCHANGED vars
  BY <1>1 DEF vars, SlotsAccounted, TasksOn, Live
<1>2. ASSUME NEW t \in Text, Request(t) PROVE SlotsAccounted'
  <2>1. UNCHANGED <<slave_map, idel_num, trans_sess_map>>
    BY <1>2 DEF Request, on_trans_submit, on_trans_suspend, on_trans_rerun, on_trans_cancel
  <2> QED BY <2>1 DEF SlotsAccounted, TasksOn, Live
<1> QED BY <1>1, <1>2, SlotsGetReadyTask, SlotsSlaves, SlotsSession DEF Next

\* A registered slave's free slots and the tasks running on it always make up its
\* concurrent_num: FailedTask, the timeouts and a slave that comes back under its old
\* uuid never leak a slot or give one back twice.
THEOREM SlotsNeverLeak ==
  ASSUME IsFiniteSet(CallID)
  PROVE  Spec => []SlotsAccounted
<1>1. Init => SlotsAccounted
  BY DEF Init, SlotsAccounted
<1>2. TypeOK /\ SlotsAccounted /\ [Next]_vars => SlotsAccounted'
  BY SlotsNext
<1> QED BY <1>1, <1>2, TypeInit, TypeNext, PTL DEF Spec

-----------------------------------------------------------------------------
(* The lists.  A step of the controller leaves each block in one UCB, each  *)
(* UCB in the list of one core, and no core with work and an idle slave,    *)
(* whatever ids the texts carry.                                            *)

\* A core lists one UCB of a user at most, and no UCB is listed by two cores.
ListsHeld ==
  /\ \A d \in Domain : /\ IsInjective(usr_list[d])
                       /\ \A u, v \in ToSet(usr_list[d]) : UsrID[u] = UsrID[v] => u = v
  /\ \A d, e \in Domain : ToSet(usr_list[d]) \cap ToSet(usr_list[e]) # {} => d = e

\* If the UCB of a task is still listed, it is in the core of the task's slave.
TasksAtHome ==
  \A c \in CallID : Live(c) =>
    /\ answer[trans_sess_map[c].ucb] # "NEW"
    /\ \A d \in Domain : trans_sess_map[c].ucb \in ToSet(usr_list[d])
                           => d = SlaveDomain[trans_sess_map[c].slave]

\* A user's blocks and tasks are in that user's UCBs.
OwnersHeld ==
  /\ \A u \in Text : \A t \in ToSet(text_block_list[u]) : UsrID[t] = UsrID[u]
  /\ \A c \in CallID : Live(c) => UsrID[trans_sess_map[c].text] = UsrID[trans_sess_map[c].ucb]

Held == UcbsHeld /\ BlocksHeld /\ ListsHeld /\ TasksAtHome /\ OwnersHeld

\* Only the core that GetReadyTask runs for may have a task to hand out.
NobodyWaits == \A d \in Domain : HasReadyTask(d) => ready_core = d

ListInv == TypeOK /\ Held /\ NobodyWaits

\* A core has a task to hand out when it has an idle slave and lists a UCB with a block
\* with a ready cell, before the step and after it.
LEMMA TaskIsReady ==
  \A d \in Domain :
    /\ HasReadyTask(d) <=> /\ idle_slaves(d) # {}
                           /\ \E u \in ToSet(usr_list[d]) :
                                \E t \in ToSet(text_block_list[u]) : HasReadyCell(t)
    /\ HasReadyTask(d)' <=> /\ idle_slaves(d)' # {}
                            /\ \E u \in ToSet(usr_list'[d]) :
                                 \E t \in ToSet(text_block_list'[u]) : HasReadyCell(t)'
BY DEF HasReadyTask, ready_ucbs, ready_blocks, ToSet

\* The step brings core d neither an idle slave, nor a UCB, nor a ready block.
NothingNew(d) ==
  /\ idle_slaves(d)' \subseteq idle_slaves(d)
  /\ ToSet(usr_list'[d]) \subseteq ToSet(usr_list[d])
  /\ \A u \in ToSet(usr_list'[d]) : \A t \in ToSet(text_block_list'[u]) :
       t \in ToSet(text_block_list[u]) /\ (HasReadyCell(t)' => HasReadyCell(t))

\* A handler that ends with GetReadyTask for core d, and changes nothing for the better
\* in the others, leaves no core waiting.
LEMMA HandlerRuns ==
  ASSUME NobodyWaits, NEW d \in Domain, ready_core \in {d, NoDomain}, RunReadyTasks(d),
         \A e \in Domain : e # d => NothingNew(e)
  PROVE  NobodyWaits'
<1>1. ASSUME NEW e \in Domain, e # d PROVE ~HasReadyTask(e)'
  <2>1. HasReadyTask(e)' => HasReadyTask(e)
    BY <1>1, TaskIsReady DEF NothingNew
  <2>2. HasReadyTask(e) => ready_core = e
    BY DEF NobodyWaits
  <2> QED BY <1>1, <2>1, <2>2, ConfigAssumption
<1>2. HasReadyTask(d)' => ready_core' = d
  BY DEF RunReadyTasks
<1>3. \A e \in Domain : HasReadyTask(e)' => ready_core' = e
  BY <1>1, <1>2
<1> QED BY <1>3 DEF NobodyWaits

\* A step that does not run GetReadyTask gives no core anything new.
LEMMA NobodyRuns ==
  ASSUME NobodyWaits, ready_core' = ready_core, \A e \in Domain : NothingNew(e)
  PROVE  NobodyWaits'
<1>1. \A e \in Domain : HasReadyTask(e)' => HasReadyTask(e)
  BY TaskIsReady DEF NothingNew
<1> QED BY <1>1 DEF NobodyWaits

\* A session that is live after a step of a session was so before, with the same task.
LEMMA SessionKeeps ==
  ASSUME TypeOK, NEW c \in CallID, Session(c)
  PROVE  \A b \in CallID : Live(b)' =>
           /\ Live(b) /\ trans_sess_map[b].ucb \in Text /\ trans_sess_map[b].text \in Text
           /\ trans_sess_map'[b].ucb = trans_sess_map[b].ucb
           /\ trans_sess_map'[b].text = trans_sess_map[b].text
           /\ trans_sess_map'[b].cell = trans_sess_map[b].cell
           /\ trans_sess_map'[b].slave = trans_sess_map[b].slave
<1>1. \A b \in CallID : Live(b) => trans_sess_map[b] \in TransSession
  BY LiveSession DEF Live
<1>2. \A b \in CallID : b # c => trans_sess_map'[b] = trans_sess_map[b]
  BY TypeFacts DEF Session, on_connected, on_send_packet, on_recv_packet, on_session_failed,
                   on_close_sock, SetState
<1>3. Live(c)' => /\ Live(c) /\ trans_sess_map[c] \in TransSession
                  /\ trans_sess_map'[c].ucb = trans_sess_map[c].ucb
                  /\ trans_sess_map'[c].text = trans_sess_map[c].text
                  /\ trans_sess_map'[c].cell = trans_sess_map[c].cell
                  /\ trans_sess_map'[c].slave = trans_sess_map[c].slave
  <2>1. CASE on_close_sock(c)
    BY <2>1, TypeFacts DEF on_close_sock, Live
  <2>2. CASE Live(c) /\ \E st \in {"SENDING", "RECVING", "CLOSING"} : SetState(c, st)
    <3>1. trans_sess_map[c] \in TransSession
      BY <1>1, <2>2
    <3>2. PICK st \in {"SENDING", "RECVING", "CLOSING"} : SetState(c, st)
      BY <2>2
    <3>3. trans_sess_map'[c] = [trans_sess_map[c] EXCEPT !.state = st]
      BY <3>2, TypeFacts DEF SetState
    <3> QED BY <2>2, <3>1, <3>3 DEF TransSession
  <2> QED BY <2>1, <2>2 DEF Session, on_connected, on_send_packet, on_recv_packet,
                            on_session_failed, InState, Live
<1>4. ASSUME NEW b \in CallID, Live(b)', b # c PROVE Live(b) /\ trans_sess_map[b] \in TransSession
  BY <1>1, <1>2, <1>4 DEF Live
<1> QED BY <1>2, <1>3, <1>4 DEF TransSession

\* Taking texts out of the UCBs, answering them on the way out, keeps each text in one UCB.
LEMMA BlocksTakenOut ==
  ASSUME TypeOK, BlocksHeld, NEW u \in Text, NEW j \in DOMAIN text_block_list[u], NEW res,
         NEW b, b = text_block_list[u][j],
         text_block_list' = [text_block_list EXCEPT ![u] = RemoveAt(@, j)],
         answer' = [answer EXCEPT ![b] = res]
  PROVE  /\ BlocksHeld'
         /\ Pending(b) /\ b \in Text
         /\ ToSet(text_block_list'[u]) = ToSet(text_block_list[u]) \ {b}
         /\ \A v \in Text : v # u => text_block_list'[v] = text_block_list[v]
<1>1. b \in ToSet(text_block_list[u]) /\ b \in Text
  BY TypeFacts DEF ToSet
<1>2. /\ ToSet(text_block_list'[u]) = ToSet(text_block_list[u]) \ {b}
      /\ IsInjective(text_block_list'[u])
  BY TypeFacts, RemoveAtContent DEF BlocksHeld
<1>3. \A v \in Text : v # u => text_block_list'[v] = text_block_list[v]
  BY TypeFacts
<1>4. Pending(b) /\ \A v \in Text : b \in ToSet(text_block_list[v]) => v = u
  BY <1>1 DEF BlocksHeld
<1>5. \A t \in Text : t # b => Pending(t)' = Pending(t)
  BY TypeFacts DEF Pending
<1>6. \A v \in Text : ToSet(text_block_list'[v]) = ToSet(text_block_list[v]) \ {b}
  BY <1>2, <1>3, <1>4
<1>7. \A v \in Text : IsInjective(text_block_list'[v])
  BY <1>2, <1>3 DEF BlocksHeld
<1>8. ASSUME NEW v \in Text, NEW t \in ToSet(text_block_list'[v])
      PROVE  Pending(t)' /\ \A w \in Text : t \in ToSet(text_block_list'[w]) => w = v
  <2>1. t \in ToSet(text_block_list[v]) /\ t # b /\ t \in Text
    BY <1>6, <1>8, TypeFacts
  <2> QED BY <1>5, <1>6, <2>1 DEF BlocksHeld
<1> QED BY <1>1, <1>2, <1>3, <1>4, <1>7, <1>8 DEF BlocksHeld

\* A step gives one text an answer, its first or the one after PENDING, or none.
LEMMA AnswerStep ==
  ASSUME TypeOK, BlocksHeld, [Next]_vars
  PROVE  \/ answer' = answer
         \/ \E t \in Text : \E res : /\ answer[t] \in {"NEW", "PENDING"} /\ res # "NEW"
                                     /\ answer' = [answer EXCEPT ![t] = res]
<1> DEFINE AnswersOne ==
             \/ answer' = answer
             \/ \E t \in Text : \E res : /\ answer[t] \in {"NEW", "PENDING"} /\ res # "NEW"
                                         /\ answer' = [answer EXCEPT ![t] = res]
<1>1. ASSUME NEW u \in Text, NEW j \in DOMAIN text_block_list[u], NEW b, b = text_block_list[u][j],
             NEW res, res # "NEW", answer' = [answer EXCEPT ![b] = res]
      PROVE  AnswersOne
  <2>1. b \in ToSet(text_block_list[u]) /\ b \in Text
    BY <1>1, TypeFacts DEF ToSet
  <2>2. answer[b] = "PENDING"
    BY <2>1 DEF BlocksHeld, Pending
  <2> QED BY <1>1, <2>1, <2>2
<1>2. ASSUME NEW t \in Text, on_trans_submit(t) PROVE AnswersOne
  <2>1. answer[t] = "NEW" /\ \E res : res # "NEW" /\ answer' = [answer EXCEPT ![t] = res]
    BY <1>2 DEF on_trans_submit, RefuseSubmit, SubmitTranslation, finish_translation
  <2> QED BY <1>2, <2>1
<1>3. ASSUME NEW usr, NEW tid, on_trans_cancel(usr, tid) PROVE AnswersOne
  <2>1. PICK d \in Domain : \E i \in find_ucb(d, usr) :
          \E u \in {usr_list[d][i]} : \E j \in find_text_block(u, tid) :
            /\ answer' = [answer EXCEPT ![text_block_list[u][j]] = "USR_CANCEL"]
            /\ UNCHANGED is_trans
    BY <1>3 DEF on_trans_cancel, finish_translation
  <2>2. PICK i \in find_ucb(d, usr) :
          \E u \in {usr_list[d][i]} : \E j \in find_text_block(u, tid) :
            answer' = [answer EXCEPT ![text_block_list[u][j]] = "USR_CANCEL"]
    BY <2>1
  <2>3. PICK u, j : /\ u = usr_list[d][i] /\ j \in find_text_block(u, tid)
                    /\ answer' = [answer EXCEPT ![text_block_list[u][j]] = "USR_CANCEL"]
    BY <2>2
  <2>4. u \in Text /\ j \in DOMAIN text_block_list[u]
    BY <2>3, FindUcb, FindTextBlock
  <2> QED BY <1>1, <2>3, <2>4
<1>4. ASSUME NEW c \in CallID, on_recv_packet(c) PROVE AnswersOne
  <2>1. PICK u, tid, k : u = trans_sess_map[c].ucb /\ Success(u, tid, k)
    BY <1>4 DEF on_recv_packet
  <2>2. u \in Text
    BY <1>4, <2>1, LiveSession DEF on_recv_packet, InState, TransSession
  <2>3. \/ answer' = answer
        \/ \E b \in Text : \E j : CellTranslated(u, j, b, k)
    BY <2>1, <2>2, SuccessBlock
  <2>4. ASSUME NEW b \in Text, NEW j, CellTranslated(u, j, b, k) PROVE AnswersOne
    <3>1. j \in DOMAIN text_block_list[u] /\ b = text_block_list[u][j]
      BY <2>4 DEF CellTranslated
    <3>2. answer' = answer \/ answer' = [answer EXCEPT ![b] = "SUCCESS"]
      BY <2>4 DEF CellTranslated
    <3> QED BY <1>1, <2>2, <3>1, <3>2
  <2> QED BY <2>3, <2>4
<1>5. ASSUME \/ UNCHANGED vars \/ GetReadyTask
             \/ \E s \in Slave : on_slave_pluse(s)
             \/ \E overdue : on_timer(overdue)
             \/ \E usr, tid : on_trans_suspend(usr, tid) \/ on_trans_rerun(usr, tid)
             \/ \E c \in CallID : \/ on_connected(c) \/ on_send_packet(c)
                                  \/ on_session_failed(c) \/ on_close_sock(c)
      PROVE  answer' = answer
  BY <1>5 DEF vars, text_vars, GetReadyTask, HandOut, on_slave_pluse, on_timer, on_trans_suspend,
              on_trans_rerun, on_connected, on_send_packet, on_session_failed, on_close_sock
<1> HIDE DEF AnswersOne
<1>6. AnswersOne
  <2>1. answer' = answer => AnswersOne
    BY DEF AnswersOne
  <2>2. ASSUME NEW t \in Text, Request(t) PROVE AnswersOne
    BY <1>2, <1>3, <1>5, <2>1, <2>2 DEF Request
  <2>3. ASSUME NEW c \in CallID, Session(c) PROVE AnswersOne
    BY <1>4, <1>5, <2>1, <2>3 DEF Session
  <2> QED BY <1>5, <2>1, <2>2, <2>3 DEF Next
<1> QED BY <1>6 DEF AnswersOne

\* No answer is taken back.
LEMMA AnswersStay ==
  ASSUME TypeOK, BlocksHeld, [Next]_vars
  PROVE  /\ \A t \in Text : answer[t] # "NEW" => answer'[t] # "NEW"
         /\ \A t \in Text : answer[t] = "USR_CANCEL" => answer'[t] = "USR_CANCEL"
BY AnswerStep, TypeFacts

\* A list of nothing is empty.
LEMMA NothingListed ==
  ASSUME NEW S, NEW l \in Seq(S), ToSet(l) = {}
  PROVE  l = <<>>
<1>1. ~(1 \in DOMAIN l)
  BY DEF ToSet
<1> QED BY <1>1

\* A step that takes things out of the lists or turns the lists round, and starts no task.
LEMMA HeldShrinks ==
  ASSUME TypeOK, TypeOK', Held, BlocksHeld', [Next]_vars,
         \A d \in Domain : /\ ToSet(usr_list'[d]) \subseteq ToSet(usr_list[d])
                           /\ IsInjective(usr_list'[d]),
         \A u \in Text : ToSet(text_block_list'[u]) \subseteq ToSet(text_block_list[u]),
         \A c \in CallID : Live(c)' =>
           /\ Live(c) /\ trans_sess_map[c].ucb \in Text
           /\ trans_sess_map'[c].ucb = trans_sess_map[c].ucb
           /\ trans_sess_map'[c].text = trans_sess_map[c].text
           /\ trans_sess_map'[c].slave = trans_sess_map[c].slave
  PROVE  Held'
<1>1. \A t \in Text : answer[t] # "NEW" => answer'[t] # "NEW"
  BY AnswersStay DEF Held
<1>2. UcbsHeld'
  <2>1. \A u \in Text : text_block_list[u] = <<>> => text_block_list'[u] = <<>>
    <3> SUFFICES ASSUME NEW u \in Text, text_block_list[u] = <<>> PROVE text_block_list'[u] = <<>>
      OBVIOUS
    <3>1. text_block_list'[u] \in Seq(Text)
      BY DEF TypeOK
    <3>2. ToSet(text_block_list'[u]) = {}
      BY DEF ToSet
    <3> QED BY <3>1, <3>2, NothingListed
  <2> QED BY <1>1, <2>1 DEF Held, UcbsHeld
<1>3. ListsHeld'
  BY DEF Held, ListsHeld
<1>4. TasksAtHome'
  BY <1>1 DEF Held, TasksAtHome
<1>5. OwnersHeld'
  BY DEF Held, OwnersHeld
<1> QED BY <1>2, <1>3, <1>4, <1>5 DEF Held

\* A step that changes neither lists nor answers, and starts no task.
LEMMA HeldQuiet ==
  ASSUME TypeOK, TypeOK', Held, [Next]_vars, UNCHANGED <<usr_list, text_block_list, answer>>,
         \A c \in CallID : Live(c)' =>
           /\ Live(c) /\ trans_sess_map[c].ucb \in Text
           /\ trans_sess_map'[c].ucb = trans_sess_map[c].ucb
           /\ trans_sess_map'[c].text = trans_sess_map[c].text
           /\ trans_sess_map'[c].slave = trans_sess_map[c].slave
  PROVE  Held'
<1>1. BlocksHeld'
  BY DEF Held, BlocksHeld, Pending
<1> QED BY <1>1, HeldShrinks DEF Held, ListsHeld

\* The same of a step that leaves the sessions alone too.
LEMMA HeldStays ==
  ASSUME TypeOK, TypeOK', Held, [Next]_vars,
         UNCHANGED <<usr_list, text_block_list, answer, trans_sess_map>>
  PROVE  Held'
<1>1. \A c \in CallID : Live(c)' => /\ Live(c) /\ trans_sess_map'[c] = trans_sess_map[c]
                                    /\ trans_sess_map[c].ucb \in Text
  BY LiveSession DEF Live, TransSession
<1> QED BY <1>1, HeldQuiet

\* Heartbeats and timeouts.
LEMMA SlavesRun ==
  ASSUME ListInv
  PROVE  /\ \A s \in Slave : on_slave_pluse(s) => NobodyWaits'
         /\ \A overdue : on_timer(overdue) => NobodyWaits'
<1>1. ASSUME NEW s \in Slave, on_slave_pluse(s) PROVE NobodyWaits'
  <2>1. SlaveDomain[s] \in Domain
    BY ConfigAssumption
  <2>2. ASSUME NEW e \in Domain, e # SlaveDomain[s] PROVE NothingNew(e)
    <3>1. idle_slaves(e)' \subseteq idle_slaves(e)
      BY <1>1, <2>2 DEF on_slave_pluse, PluseSlave, idle_slaves, ListInv, TypeOK
    <3> QED BY <1>1, <3>1 DEF on_slave_pluse, text_vars, NothingNew, HasReadyCell
  <2>3. ready_core = NoDomain /\ RunReadyTasks(SlaveDomain[s])
    BY <1>1 DEF on_slave_pluse, Waiting
  <2> QED BY <2>1, <2>2, <2>3, HandlerRuns DEF ListInv
<1>2. ASSUME NEW overdue, on_timer(overdue) PROVE NobodyWaits'
  <2>1. \A e \in Domain : NothingNew(e)
    BY <1>2 DEF on_timer, text_vars, NothingNew, HasReadyCell, idle_slaves
  <2> QED BY <1>2, <2>1, NobodyRuns DEF ListInv, on_timer
<1> QED BY <1>1, <1>2

\* A task that is handed out turns the lists round and takes one cell and one slot.
LEMMA ListGetReadyTask ==
  ASSUME ListInv, GetReadyTask
  PROVE  Held' /\ NobodyWaits'
<1>0. /\ TypeOK /\ NobodyWaits
      /\ UcbsHeld /\ BlocksHeld /\ ListsHeld /\ TasksAtHome /\ OwnersHeld
  BY DEF ListInv, Held
<1> SUFFICES ASSUME NEW d \in Domain \cap {ready_core},
                    NEW s \in idle_slaves(d),
                    NEW i \in FirstAt(usr_list[d], ready_ucbs(d)),
                    NEW u \in {usr_list[d][i]},
                    NEW j \in FirstAt(text_block_list[u], ready_blocks(u)),
                    NEW t \in {text_block_list[u][j]},
                    NEW idx \in untrans_idx_set[t], NEW c \in CallID,
                    HandOut(d, s, i, u, j, t, idx, c)
             PROVE  Held' /\ NobodyWaits'
  BY DEF GetReadyTask
<1> DEFINE new == [state |-> "CONNECT", ucb |-> u, text |-> t, cell |-> idx, slave |-> s]
<1>1. /\ i \in DOMAIN usr_list[d] /\ u \in ToSet(usr_list[d]) /\ u \in Text
      /\ j \in DOMAIN text_block_list[u] /\ t \in ToSet(text_block_list[u]) /\ t \in Text
  BY <1>0, FirstAtInDomain, TypeFacts DEF ToSet
<1>2. idx \in Nat /\ s \in Slave /\ SlaveDomain[s] = d /\ idel_num \in [Slave -> Nat]
  BY <1>0, <1>1 DEF TypeOK, idle_slaves
<1>3. /\ new \in TransSession /\ new # NoSession
      /\ new.ucb = u /\ new.text = t /\ new.slave = s
  BY <1>1, <1>2, SessionAssumption DEF TransSession
<1>4. /\ trans_sess_map'[c] = new
      /\ \A b \in CallID : b # c => trans_sess_map'[b] = trans_sess_map[b] /\ Live(b)' = Live(b)
  BY <1>0, TypeFacts DEF HandOut, call_slave_for_trans, Live
<1> HIDE DEF new
<1>5. \A r \in Domain : ToSet(usr_list'[r]) = ToSet(usr_list[r]) /\ IsInjective(usr_list'[r])
  <2>1. /\ ToSet(Rotate(usr_list[d], i)) = ToSet(usr_list[d])
        /\ IsInjective(usr_list[d]) => IsInjective(Rotate(usr_list[d], i))
    BY <1>0, <1>1, TypeFacts, RotateContent
  <2> QED BY <1>0, <2>1, TypeFacts DEF HandOut, ListsHeld
<1>6. \A v \in Text : ToSet(text_block_list'[v]) = ToSet(text_block_list[v])
  <2>1. ToSet(Rotate(text_block_list[u], j)) = ToSet(text_block_list[u])
    BY <1>0, <1>1, TypeFacts, RotateContent
  <2> QED BY <1>0, <1>1, <2>1, TypeFacts DEF HandOut, CreateTask
<1>7. answer' = answer /\ text_state' = text_state /\ RunReadyTasks(d) /\ slave_map' = slave_map
  BY DEF HandOut
<1>8. Pending(t) /\ answer[u] # "NEW"
  BY <1>0, <1>1 DEF BlocksHeld, UcbsHeld
<1>9. ListsHeld'
  BY <1>0, <1>5 DEF ListsHeld
<1>10. TasksAtHome'
  <2>1. ASSUME NEW b \in CallID, Live(b)'
        PROVE  /\ answer'[trans_sess_map'[b].ucb] # "NEW"
               /\ \A e \in Domain : trans_sess_map'[b].ucb \in ToSet(usr_list'[e])
                                      => e = SlaveDomain[trans_sess_map'[b].slave]
    <3>1. CASE b = c
      BY <1>0, <1>1, <1>2, <1>3, <1>4, <1>5, <1>7, <1>8, <3>1 DEF ListsHeld
    <3>2. CASE b # c
      BY <1>0, <1>4, <1>5, <1>7, <2>1, <3>2 DEF TasksAtHome
    <3> QED BY <3>1, <3>2
  <2> QED BY <2>1 DEF TasksAtHome
<1>11. UcbsHeld' /\ BlocksHeld' /\ OwnersHeld'
  <2>1. \A v \in Text : text_block_list[v] = <<>> => text_block_list'[v] = <<>>
    BY <1>0, <1>1, TypeFacts DEF HandOut, CreateTask
  <2>2. UcbsHeld'
    BY <1>0, <1>5, <1>7, <2>1 DEF UcbsHeld
  <2>3. \A v \in Text : IsInjective(text_block_list[v]) => IsInjective(text_block_list'[v])
    <3>1. IsInjective(text_block_list[u]) => IsInjective(Rotate(text_block_list[u], j))
      BY <1>0, <1>1, TypeFacts, RotateContent
    <3> QED BY <1>0, <1>1, <3>1, TypeFacts DEF HandOut, CreateTask
  <2>4. BlocksHeld'
    BY <1>0, <1>6, <1>7, <2>3 DEF BlocksHeld, Pending
  <2>5. ASSUME NEW b \in CallID, Live(b)'
        PROVE  UsrID[trans_sess_map'[b].text] = UsrID[trans_sess_map'[b].ucb]
    BY <1>0, <1>1, <1>3, <1>4, <2>5 DEF OwnersHeld
  <2> QED BY <1>0, <1>6, <2>2, <2>4, <2>5 DEF OwnersHeld
<1>12. NobodyWaits'
  <2>1. \A e \in Domain : NothingNew(e)
    <3>1. \A r \in Slave : idel_num'[r] > 0 => idel_num[r] > 0
      BY <1>2 DEF HandOut
    <3>2. \A e \in Domain : idle_slaves(e)' \subseteq idle_slaves(e)
      BY <1>0, <1>7, <3>1 DEF idle_slaves, TypeOK
    <3>3. \A r \in Text : HasReadyCell(r)' => HasReadyCell(r)
      BY <1>0, <1>1, <1>7, TypeFacts DEF HandOut, CreateTask, HasReadyCell
    <3> QED BY <1>0, <1>5, <1>6, <3>2, <3>3, TypeFacts DEF NothingNew
  <2> QED BY <1>0, <1>7, <2>1, HandlerRuns
<1> QED BY <1>9, <1>10, <1>11, <1>12 DEF Held

\* Where an accepted text goes: into the UCB its user has in the core of m_domaintype,
\* or into one of its own that is put at the end of that core's list.
SubmittedTo(t, d, u) ==
  /\ UsrID[u] = UsrID[t] /\ u \in ToSet(usr_list'[d])
  /\ ToSet(text_block_list'[u]) = ToSet(text_block_list[u]) \cup {t}
  /\ IsInjective(text_block_list'[u]) /\ (answer[u] # "NEW" \/ u = t)
  /\ \A v \in Text : v # u => text_block_list'[v] = text_block_list[v]
  /\ \A e \in Domain : e # d => usr_list'[e] = usr_list[e]
  /\ \/ usr_list' = usr_list
     \/ /\ u = t /\ IsInjective(usr_list'[d])
        /\ ToSet(usr_list'[d]) = ToSet(usr_list[d]) \cup {t}
        /\ \A v \in ToSet(usr_list[d]) : UsrID[v] # UsrID[t]

LEMMA SubmitStep ==
  ASSUME TypeOK, UcbsHeld, BlocksHeld, ListsHeld, NEW t \in Text, answer[t] = "NEW", SubmitTranslation(t)
  PROVE  \E d \in Domain : \E u \in Text : SubmittedTo(t, d, u) /\ RunReadyTasks(d)
<1>0. /\ TypeOK /\ text_block_list[t] = <<>>
      /\ \A d \in Domain : t \notin ToSet(usr_list[d])
      /\ \A u \in Text : t \notin ToSet(text_block_list[u]) /\ IsInjective(text_block_list[u])
  BY DEF UcbsHeld, BlocksHeld, Pending
<1>1. PICK d \in Domain :
        /\ RunReadyTasks(d)
        /\ \/ /\ find_ucb(d, UsrID[t]) = {}
              /\ usr_list' = [usr_list EXCEPT ![d] = Append(@, t)]
              /\ text_block_list' = [text_block_list EXCEPT ![t] = <<t>>]
           \/ \E i \in find_ucb(d, UsrID[t]) :
                /\ text_block_list' = [text_block_list EXCEPT ![usr_list[d][i]] = Append(@, t)]
                /\ UNCHANGED usr_list
  BY DEF SubmitTranslation
<1>2. CASE /\ find_ucb(d, UsrID[t]) = {}
           /\ usr_list' = [usr_list EXCEPT ![d] = Append(@, t)]
           /\ text_block_list' = [text_block_list EXCEPT ![t] = <<t>>]
  <2>1. ASSUME NEW v \in ToSet(usr_list[d]), UsrID[v] = UsrID[t] PROVE FALSE
    <3> DEFINE P == {i \in DOMAIN usr_list[d] : UsrID[usr_list[d][i]] = UsrID[t]}
    <3>1. DOMAIN usr_list[d] \cap P # {}
      BY <2>1 DEF ToSet
    <3>2. usr_list[d] \in Seq(Text)
      BY <1>0, TypeFacts
    <3> QED BY <1>2, <3>1, <3>2, FirstAtFinds DEF find_ucb
  <2>2. /\ ToSet(usr_list'[d]) = ToSet(usr_list[d]) \cup {t} /\ IsInjective(usr_list'[d])
    BY <1>0, <1>2, TypeFacts, AppendContent DEF ListsHeld
  <2>3. \A e \in Domain : e # d => usr_list'[e] = usr_list[e]
    BY <1>0, <1>2, TypeFacts
  <2>4. /\ ToSet(text_block_list'[t]) = ToSet(text_block_list[t]) \cup {t}
        /\ IsInjective(text_block_list'[t])
    <3>1. text_block_list'[t] = Append(text_block_list[t], t)
      BY <1>0, <1>2, TypeFacts
    <3>2. /\ text_block_list[t] \in Seq(Text)
          /\ IsInjective(text_block_list[t]) /\ t \notin ToSet(text_block_list[t])
      BY <1>0, TypeFacts
    <3> QED BY <3>1, <3>2, AppendContent
  <2>5. \A v \in Text : v # t => text_block_list'[v] = text_block_list[v]
    BY <1>0, <1>2, TypeFacts
  <2> QED BY <1>1, <2>1, <2>2, <2>3, <2>4, <2>5 DEF SubmittedTo
<1>3. ASSUME NEW i \in find_ucb(d, UsrID[t]), UNCHANGED usr_list, NEW u, u = usr_list[d][i],
             text_block_list' = [text_block_list EXCEPT ![u] = Append(@, t)]
      PROVE  u \in Text /\ SubmittedTo(t, d, u)
  <2>1. u \in Text /\ u \in ToSet(usr_list[d]) /\ UsrID[u] = UsrID[t] /\ answer[u] # "NEW"
    BY <1>0, <1>3, FindUcb DEF ToSet, UcbsHeld
  <2>2. /\ ToSet(text_block_list'[u]) = ToSet(text_block_list[u]) \cup {t}
        /\ IsInjective(text_block_list'[u])
    BY <1>0, <1>3, <2>1, TypeFacts, AppendContent
  <2>3. \A v \in Text : v # u => text_block_list'[v] = text_block_list[v]
    BY <1>0, <1>3, <2>1, TypeFacts
  <2> QED BY <1>3, <2>1, <2>2, <2>3 DEF SubmittedTo
<1> QED BY <1>1, <1>2, <1>3

\* A text that is refused changes no list; one that is taken goes into its user's UCB.
LEMMA ListSubmit ==
  ASSUME ListInv, TypeOK', NEW t \in Text, on_trans_submit(t)
  PROVE  Held' /\ NobodyWaits'
<1>0. /\ TypeOK /\ Held /\ NobodyWaits
      /\ UcbsHeld /\ BlocksHeld /\ ListsHeld /\ TasksAtHome /\ OwnersHeld
      /\ [Next]_vars
  BY DEF ListInv, Held, Next, Request
<1>1. answer[t] = "NEW" /\ trans_sess_map' = trans_sess_map
      /\ slave_map' = slave_map /\ idel_num' = idel_num /\ ready_core = NoDomain
  BY DEF on_trans_submit, Waiting
<1>2. /\ \A c : Live(c)' = Live(c)
      /\ \A c \in CallID : Live(c) => /\ trans_sess_map[c].text \in Text /\ trans_sess_map[c].ucb \in Text
                                      /\ answer[trans_sess_map[c].ucb] # "NEW"
      /\ \A e : idle_slaves(e)' = idle_slaves(e)
  <2>1. \A c \in CallID : Live(c) => trans_sess_map[c].text \in Text /\ trans_sess_map[c].ucb \in Text
    BY <1>0, LiveSession DEF Live, TransSession
  <2> QED BY <1>0, <1>1, <2>1 DEF Live, idle_slaves, TasksAtHome
<1>3. /\ \A u \in Text : t \notin ToSet(text_block_list[u])
      /\ \A d \in Domain : t \notin ToSet(usr_list[d])
  BY <1>0, <1>1 DEF BlocksHeld, UcbsHeld, Pending
<1>4. CASE RefuseSubmit(t)
  <2>1. /\ UNCHANGED <<usr_list, text_block_list, text_state, untrans_idx_set, ready_core>>
        /\ answer'[t] # "NEW" /\ \A r \in Text : r # t => answer'[r] = answer[r]
    BY <1>0, <1>4, TypeFacts DEF RefuseSubmit, finish_translation
  <2>2. \A u \in Text : \A r \in ToSet(text_block_list[u]) : r # t /\ r \in Text
    BY <1>0, <1>3, TypeFacts
  <2>3. BlocksHeld'
    BY <1>0, <2>1, <2>2 DEF BlocksHeld, Pending
  <2>4. Held'
    BY <1>0, <1>1, <1>2, <2>1, <2>3, HeldShrinks DEF ListsHeld
  <2>5. NobodyWaits'
    <3>1. \A e \in Domain : NothingNew(e)
      BY <1>2, <2>1 DEF NothingNew, HasReadyCell
    <3> QED BY <1>0, <2>1, <3>1, NobodyRuns
  <2> QED BY <2>4, <2>5
<1>5. CASE SubmitTranslation(t)
  <2>1. PICK d \in Domain, u \in Text : SubmittedTo(t, d, u) /\ RunReadyTasks(d)
    BY <1>0, <1>1, <1>5, SubmitStep
  <2>2. /\ answer'[t] = "PENDING" /\ \A r \in Text : r # t => answer'[r] = answer[r]
        /\ \A r \in Text : r # t => HasReadyCell(r)' = HasReadyCell(r)
    BY <1>0, <1>5, TypeFacts DEF SubmitTranslation, HasReadyCell, TypeOK
  <2>3. /\ ToSet(text_block_list'[u]) = ToSet(text_block_list[u]) \cup {t}
        /\ \A v \in Text : v # u => ToSet(text_block_list'[v]) = ToSet(text_block_list[v])
        /\ UsrID[u] = UsrID[t] /\ u \in ToSet(usr_list'[d])
        /\ \A e \in Domain : e # d => ToSet(usr_list'[e]) = ToSet(usr_list[e])
        /\ \A e \in Domain : ToSet(usr_list[e]) \subseteq ToSet(usr_list'[e])
        /\ \A e \in Domain : ToSet(usr_list'[e]) \subseteq ToSet(usr_list[e]) \cup {t}
    BY <2>1 DEF SubmittedTo
  <2>4. ListsHeld'
    <3>1. CASE usr_list' = usr_list
      BY <1>0, <3>1 DEF ListsHeld
    <3>2. CASE usr_list' # usr_list
      <4>1. /\ \A e \in Domain : e # d => usr_list'[e] = usr_list[e]
            /\ IsInjective(usr_list'[d])
            /\ ToSet(usr_list'[d]) = ToSet(usr_list[d]) \cup {t}
            /\ \A v \in ToSet(usr_list[d]) : UsrID[v] # UsrID[t]
        BY <2>1, <3>2 DEF SubmittedTo
      <4>2. \A e \in Domain : /\ IsInjective(usr_list'[e])
                              /\ \A v, w \in ToSet(usr_list'[e]) : UsrID[v] = UsrID[w] => v = w
        BY <1>0, <4>1 DEF ListsHeld
      <4>3. ASSUME NEW e \in Domain, NEW f \in Domain, NEW v \in ToSet(usr_list'[e]), v \in ToSet(usr_list'[f])
            PROVE  e = f
        <5>1. CASE v = t
          BY <1>3, <4>1, <4>3, <5>1
        <5>2. CASE v # t
          BY <1>0, <2>3, <4>3, <5>2 DEF ListsHeld
        <5> QED BY <5>1, <5>2
      <4> QED BY <4>2, <4>3 DEF ListsHeld
    <3> QED BY <3>1, <3>2
  <2>5. TasksAtHome'
    <3> SUFFICES ASSUME NEW c \in CallID, Live(c)
                 PROVE  /\ answer'[trans_sess_map[c].ucb] # "NEW"
                        /\ \A e \in Domain : trans_sess_map[c].ucb \in ToSet(usr_list'[e])
                                               => e = SlaveDomain[trans_sess_map[c].slave]
      BY <1>1, <1>2 DEF TasksAtHome
    <3>1. trans_sess_map[c].ucb # t /\ trans_sess_map[c].ucb \in Text
      BY <1>1, <1>2
    <3> QED BY <1>0, <2>2, <2>3, <3>1 DEF TasksAtHome
  <2>6. UcbsHeld' /\ BlocksHeld' /\ OwnersHeld'
    <3>1. UcbsHeld'
      <4> SUFFICES ASSUME NEW v \in Text, answer'[v] = "NEW"
                   PROVE  text_block_list'[v] = <<>> /\ \A e \in Domain : v \notin ToSet(usr_list'[e])
        BY DEF UcbsHeld
      <4>1. v # t /\ answer[v] = "NEW"
        BY <2>2
      <4>2. v # u
        BY <1>0, <2>1, <2>3, <4>1 DEF SubmittedTo, UcbsHeld
      <4> QED BY <1>0, <2>1, <2>3, <4>1, <4>2 DEF SubmittedTo, UcbsHeld
    <3>2. \A v \in Text : IsInjective(text_block_list'[v])
      BY <1>0, <2>1 DEF SubmittedTo, BlocksHeld
    <3>3. ASSUME NEW v \in Text, NEW r \in ToSet(text_block_list'[v])
          PROVE  Pending(r)' /\ \A w \in Text : r \in ToSet(text_block_list'[w]) => w = v
      <4>1. CASE r = t
        BY <1>3, <2>2, <2>3, <3>3, <4>1 DEF Pending
      <4>2. CASE r # t
        <5>1. r \in ToSet(text_block_list[v]) /\ r \in Text
          <6>1. r \in ToSet(text_block_list[v])
            BY <2>3, <3>3, <4>2
          <6> QED BY <1>0, <6>1, TypeFacts
        <5> QED BY <1>0, <2>2, <2>3, <4>2, <5>1 DEF BlocksHeld, Pending
      <4> QED BY <4>1, <4>2
    <3>4. OwnersHeld'
      <4>1. \A v \in Text : \A r \in ToSet(text_block_list'[v]) : UsrID[r] = UsrID[v]
        BY <1>0, <2>3 DEF OwnersHeld
      <4> QED BY <1>0, <1>1, <1>2, <4>1 DEF OwnersHeld
    <3> QED BY <3>1, <3>2, <3>3, <3>4 DEF BlocksHeld
  <2>7. NobodyWaits'
    <3>1. ASSUME NEW e \in Domain, e # d PROVE NothingNew(e)
      <4>1. ASSUME NEW v \in ToSet(usr_list'[e]), NEW r \in ToSet(text_block_list'[v])
            PROVE  r \in ToSet(text_block_list[v]) /\ (HasReadyCell(r)' => HasReadyCell(r))
        <5>1. v \in ToSet(usr_list[e]) /\ v \in Text
          BY <1>0, <2>3, <3>1, <4>1, TypeFacts
        <5>2. v # u
          BY <2>3, <2>4, <3>1, <4>1 DEF ListsHeld
        <5>3. r \in ToSet(text_block_list[v]) /\ r # t /\ r \in Text
          BY <1>0, <1>3, <2>3, <4>1, <5>1, <5>2, TypeFacts
        <5> QED BY <2>2, <5>3
      <4> QED BY <1>2, <2>3, <3>1, <4>1 DEF NothingNew
    <3> QED BY <1>0, <1>1, <2>1, <3>1, HandlerRuns
  <2> QED BY <2>4, <2>5, <2>6, <2>7 DEF Held
<1> QED BY <1>4, <1>5 DEF on_trans_submit

\* Suspending takes ready blocks away; running again makes one ready in the core that
\* GetReadyTask then runs for.
LEMMA ListSuspendRerun ==
  ASSUME ListInv, NEW usr, NEW tid,
         on_trans_suspend(usr, tid) \/ on_trans_rerun(usr, tid)
  PROVE  NobodyWaits'
<1>0. TypeOK /\ BlocksHeld /\ ListsHeld /\ NobodyWaits
  BY DEF ListInv, Held
<1>1. PICK d \in Domain : \E i \in find_ucb(d, usr) :
        \E u \in {usr_list[d][i]} : \E j \in find_text_block(u, tid) : \E st \in {"SUSPEND", "READY"} :
          /\ text_state' = [text_state EXCEPT ![text_block_list[u][j]] = st]
          /\ ready_core = NoDomain /\ RunReadyTasks(d)
          /\ UNCHANGED <<slave_map, idel_num, usr_list, text_block_list, untrans_idx_set>>
  BY DEF on_trans_suspend, on_trans_rerun, Controllable, Waiting
<1>2. PICK i \in find_ucb(d, usr) :
        \E u \in {usr_list[d][i]} : \E j \in find_text_block(u, tid) : \E st \in {"SUSPEND", "READY"} :
          text_state' = [text_state EXCEPT ![text_block_list[u][j]] = st]
  BY <1>1
<1>3. PICK u, j, b, st : /\ u = usr_list[d][i] /\ j \in find_text_block(u, tid)
                         /\ b = text_block_list[u][j]
                         /\ text_state' = [text_state EXCEPT ![b] = st]
  BY <1>2
<1>4. /\ u \in Text /\ u \in ToSet(usr_list[d])
      /\ b \in Text /\ b \in ToSet(text_block_list[u])
  BY <1>0, <1>3, FindUcb, FindTextBlock DEF ToSet
<1>5. \A e : idle_slaves(e)' = idle_slaves(e)
  BY <1>1 DEF idle_slaves
<1>6. \A r \in Text : r # b => HasReadyCell(r)' = HasReadyCell(r)
  BY <1>0, <1>1, <1>3 DEF HasReadyCell, TypeOK
<1>7. ASSUME NEW e \in Domain, e # d PROVE NothingNew(e)
  <2>1. ASSUME NEW v \in ToSet(usr_list[e]), NEW r \in ToSet(text_block_list[v])
        PROVE  HasReadyCell(r)' => HasReadyCell(r)
    <3>1. v \in Text /\ r \in Text /\ v # u
      BY <1>0, <1>4, <1>7, <2>1, TypeFacts DEF ListsHeld
    <3>2. r # b
      BY <1>0, <1>4, <2>1, <3>1 DEF BlocksHeld
    <3> QED BY <1>6, <3>1, <3>2
  <2> QED BY <1>1, <1>5, <2>1 DEF NothingNew
<1> QED BY <1>0, <1>1, <1>7, HandlerRuns

\* A cancelled text goes, and its UCB with it when that was the last one.
LEMMA ListCancel ==
  ASSUME ListInv, TypeOK', [Next]_vars, NEW usr, NEW tid, on_trans_cancel(usr, tid)
  PROVE  Held' /\ NobodyWaits'
<1>0. TypeOK /\ Held /\ BlocksHeld /\ ListsHeld /\ NobodyWaits
  BY DEF ListInv, Held
<1>1. PICK d \in Domain : \E i \in find_ucb(d, usr) :
        \E u \in {usr_list[d][i]} : \E j \in find_text_block(u, tid) :
          /\ text_block_list' = [text_block_list EXCEPT ![u] = RemoveAt(@, j)]
          /\ usr_list' = IF text_block_list'[u] = <<>>
                         THEN [usr_list EXCEPT ![d] = RemoveAt(@, i)] ELSE usr_list
          /\ answer' = [answer EXCEPT ![text_block_list[u][j]] = "USR_CANCEL"]
          /\ UNCHANGED <<slave_map, idel_num, text_state, untrans_idx_set, trans_sess_map>>
          /\ ready_core = NoDomain /\ RunReadyTasks(d)
  BY DEF on_trans_cancel, finish_translation, Controllable, Waiting
<1>2. PICK i \in find_ucb(d, usr) :
        \E u \in {usr_list[d][i]} : \E j \in find_text_block(u, tid) :
          /\ text_block_list' = [text_block_list EXCEPT ![u] = RemoveAt(@, j)]
          /\ usr_list' = IF text_block_list'[u] = <<>>
                         THEN [usr_list EXCEPT ![d] = RemoveAt(@, i)] ELSE usr_list
          /\ answer' = [answer EXCEPT ![text_block_list[u][j]] = "USR_CANCEL"]
  BY <1>1
<1>3. PICK u, j, b :
        /\ u = usr_list[d][i] /\ j \in find_text_block(u, tid) /\ b = text_block_list[u][j]
        /\ text_block_list' = [text_block_list EXCEPT ![u] = RemoveAt(@, j)]
        /\ usr_list' = IF text_block_list'[u] = <<>>
                       THEN [usr_list EXCEPT ![d] = RemoveAt(@, i)] ELSE usr_list
        /\ answer' = [answer EXCEPT ![b] = "USR_CANCEL"]
  BY <1>2
<1>4. /\ i \in DOMAIN usr_list[d] /\ j \in DOMAIN text_block_list[u]
      /\ u \in Text /\ u \in ToSet(usr_list[d])
      /\ b \in Text /\ b \in ToSet(text_block_list[u])
  BY <1>0, <1>3, FindUcb, FindTextBlock DEF ToSet
<1>5. /\ BlocksHeld'
      /\ ToSet(text_block_list'[u]) = ToSet(text_block_list[u]) \ {b}
      /\ \A v \in Text : v # u => text_block_list'[v] = text_block_list[v]
  <2>1. /\ j \in DOMAIN text_block_list[u] /\ b = text_block_list[u][j]
        /\ text_block_list' = [text_block_list EXCEPT ![u] = RemoveAt(@, j)]
        /\ answer' = [answer EXCEPT ![b] = "USR_CANCEL"]
    BY <1>3, <1>4
  <2> QED BY <1>0, <1>4, <2>1, BlocksTakenOut
<1>6. /\ \A e \in Domain : ToSet(usr_list'[e]) \subseteq ToSet(usr_list[e]) /\ IsInjective(usr_list'[e])
  <2>1. /\ ToSet(RemoveAt(usr_list[d], i)) = ToSet(usr_list[d]) \ {u}
        /\ IsInjective(RemoveAt(usr_list[d], i))
    BY <1>0, <1>3, <1>4, TypeFacts, RemoveAtContent DEF ListsHeld
  <2>2. CASE usr_list' = usr_list
    BY <1>0, <2>2 DEF ListsHeld
  <2>3. CASE text_block_list'[u] = <<>> /\ usr_list' = [usr_list EXCEPT ![d] = RemoveAt(@, i)]
    BY <1>0, <2>1, <2>3, TypeFacts DEF ListsHeld
  <2> QED BY <1>3, <2>2, <2>3
<1>7. /\ trans_sess_map' = trans_sess_map /\ \A c : Live(c)' = Live(c)
      /\ \A c \in CallID : Live(c) => trans_sess_map[c].ucb \in Text /\ trans_sess_map[c].text \in Text
  <2>1. trans_sess_map' = trans_sess_map
    BY <1>1
  <2> QED BY <1>0, <2>1, LiveSession DEF Live, TransSession
<1>8. Held'
  BY <1>0, <1>4, <1>5, <1>6, <1>7, HeldShrinks
<1>9. NobodyWaits'
  <2>1. \A e \in Domain : NothingNew(e)
    <3>1. \A e : idle_slaves(e)' = idle_slaves(e)
      BY <1>1 DEF idle_slaves
    <3>2. \A r : HasReadyCell(r)' = HasReadyCell(r)
      BY <1>1 DEF HasReadyCell
    <3>3. \A e \in Domain : ToSet(usr_list'[e]) \subseteq Text
      BY <1>0, <1>6, TypeFacts
    <3>4. \A v \in Text : \A r \in ToSet(text_block_list'[v]) : r \in ToSet(text_block_list[v])
      BY <1>5
    <3> QED BY <1>6, <3>1, <3>2, <3>3, <3>4 DEF NothingNew
  <2> QED BY <1>0, <1>1, <2>1, HandlerRuns
<1> QED BY <1>8, <1>9

\* Sessions that move on, or whose socket was closed.
LEMMA ListMoves ==
  ASSUME ListInv, TypeOK', NEW c \in CallID,
         on_connected(c) \/ on_send_packet(c) \/ on_close_sock(c)
  PROVE  Held' /\ NobodyWaits'
<1>0. TypeOK /\ Held /\ NobodyWaits /\ [Next]_vars
  BY DEF ListInv, Next, Session
<1>1. UNCHANGED <<domaintype, slave_map, idel_num, usr_list, text_vars, ready_core>>
  BY DEF on_connected, on_send_packet, on_close_sock
<1>2. \A b \in CallID : Live(b)' =>
        /\ Live(b) /\ trans_sess_map[b].ucb \in Text /\ trans_sess_map[b].text \in Text
        /\ trans_sess_map'[b].ucb = trans_sess_map[b].ucb
        /\ trans_sess_map'[b].text = trans_sess_map[b].text
        /\ trans_sess_map'[b].slave = trans_sess_map[b].slave
  BY <1>0, SessionKeeps DEF Session
<1>3. Held'
  BY <1>0, <1>1, <1>2, HeldQuiet DEF text_vars
<1>4. NobodyWaits'
  <2>1. \A e \in Domain : NothingNew(e)
    BY <1>1 DEF text_vars, NothingNew, HasReadyCell, idle_slaves
  <2> QED BY <1>0, <1>1, <2>1, NobodyRuns
<1> QED BY <1>3, <1>4

\* The cell of a failed session goes back to a block that only its own core can list.
LEMMA ListFailed ==
  ASSUME ListInv, TypeOK', NEW c \in CallID, on_session_failed(c)
  PROVE  Held' /\ NobodyWaits'
<1>0. /\ TypeOK /\ Held /\ NobodyWaits
      /\ UcbsHeld /\ BlocksHeld /\ ListsHeld /\ TasksAtHome /\ OwnersHeld
      /\ [Next]_vars
  BY DEF ListInv, Held, Next, Session
<1>1. PICK t, u, k, d : /\ t = trans_sess_map[c].text /\ u = trans_sess_map[c].ucb
                        /\ k = trans_sess_map[c].cell
                        /\ d = SlaveDomain[trans_sess_map[c].slave]
  OBVIOUS
<1>2. /\ Live(c) /\ Failed(u, TextID[t], k) /\ ready_core = NoDomain /\ RunReadyTasks(d)
      /\ UNCHANGED <<idel_num, usr_list, text_block_list, text_state, answer>>
      /\ slave_map' \subseteq slave_map
  BY <1>1 DEF on_session_failed, delete_slave, Waiting
<1>3. t \in Text /\ u \in Text /\ k \in Nat /\ d \in Domain
  BY <1>0, <1>1, <1>2, LiveSession, ConfigAssumption DEF Live, TransSession
<1>4. \A b \in CallID : Live(b)' =>
        /\ Live(b) /\ trans_sess_map[b].ucb \in Text /\ trans_sess_map[b].text \in Text
        /\ trans_sess_map'[b].ucb = trans_sess_map[b].ucb
        /\ trans_sess_map'[b].text = trans_sess_map[b].text
        /\ trans_sess_map'[b].slave = trans_sess_map[b].slave
  BY <1>0, SessionKeeps DEF Session
<1>5. \A e : idle_slaves(e)' \subseteq idle_slaves(e)
  BY <1>2 DEF idle_slaves
<1>6. Held'
  BY <1>0, <1>2, <1>4, HeldQuiet
<1>7. NobodyWaits'
  <2>1. ASSUME NEW e \in Domain, e # d PROVE NothingNew(e)
    <3>1. ASSUME NEW v \in ToSet(usr_list[e]), NEW r \in ToSet(text_block_list[v])
          PROVE  HasReadyCell(r)' => HasReadyCell(r)
      <4>1. v \in Text /\ r \in Text
        BY <1>0, <3>1, TypeFacts
      <4>2. v # u
        BY <1>0, <1>1, <1>2, <1>3, <2>1, <3>1 DEF TasksAtHome
      <4>3. r \notin ToSet(text_block_list[u])
        BY <1>0, <1>3, <3>1, <4>1, <4>2 DEF BlocksHeld
      <4>4. \/ untrans_idx_set' = untrans_idx_set
            \/ \E b \in Text : /\ b \in ToSet(text_block_list[u])
                               /\ untrans_idx_set' = [untrans_idx_set EXCEPT ![b] = @ \cup {k}]
        BY <1>0, <1>2, <1>3, FailedBlock DEF ToSet
      <4>5. untrans_idx_set'[r] = untrans_idx_set[r]
        BY <1>0, <4>1, <4>3, <4>4, TypeFacts
      <4> QED BY <1>2, <4>5 DEF HasReadyCell
    <3> QED BY <1>2, <1>5, <3>1 DEF NothingNew
  <2> QED BY <1>0, <1>2, <1>3, <2>1, HandlerRuns
<1> QED BY <1>6, <1>7

\* A translated text goes from its UCB, and perhaps a UCB of its user from the list.
LEMMA ListSuccess ==
  ASSUME ListInv, TypeOK', NEW c \in CallID, on_recv_packet(c)
  PROVE  Held' /\ NobodyWaits'
<1>0. /\ TypeOK /\ Held /\ NobodyWaits /\ BlocksHeld /\ ListsHeld /\ [Next]_vars
  BY DEF ListInv, Held, Next, Session
<1>1. PICK t, u, k, d, s : /\ t = trans_sess_map[c].text /\ u = trans_sess_map[c].ucb
                           /\ k = trans_sess_map[c].cell
                           /\ s = trans_sess_map[c].slave /\ d = SlaveDomain[s]
  OBVIOUS
<1>2. /\ Live(c) /\ Success(u, TextID[t], k) /\ EraseEmptyUcb(d, u)
      /\ ready_core = NoDomain /\ RunReadyTasks(d)
      /\ UNCHANGED <<slave_map, text_state, untrans_idx_set>>
      /\ idel_num' = [idel_num EXCEPT ![s] = @ + 1]
  BY <1>1 DEF on_recv_packet, InState, Live, Waiting
<1>3. u \in Text /\ d \in Domain /\ s \in Slave
  BY <1>0, <1>1, <1>2, LiveSession, ConfigAssumption DEF Live, TransSession
<1>4. \A b \in CallID : Live(b)' =>
        /\ Live(b) /\ trans_sess_map[b].ucb \in Text
        /\ trans_sess_map'[b].ucb = trans_sess_map[b].ucb
        /\ trans_sess_map'[b].text = trans_sess_map[b].text
        /\ trans_sess_map'[b].slave = trans_sess_map[b].slave
  BY <1>0, SessionKeeps DEF Session
<1>5. BlocksHeld' /\ \A v \in Text : ToSet(text_block_list'[v]) \subseteq ToSet(text_block_list[v])
  <2>1. CASE UNCHANGED <<text_block_list, answer>>
    BY <1>0, <2>1 DEF BlocksHeld, Pending
  <2>2. ASSUME NEW b \in Text, NEW j, j \in DOMAIN text_block_list[u], text_block_list[u][j] = b,
               text_block_list' = [text_block_list EXCEPT ![u] = RemoveAt(@, j)],
               answer' = [answer EXCEPT ![b] = "SUCCESS"]
        PROVE  BlocksHeld' /\ \A v \in Text : ToSet(text_block_list'[v]) \subseteq ToSet(text_block_list[v])
    <3>1. /\ BlocksHeld'
          /\ ToSet(text_block_list'[u]) = ToSet(text_block_list[u]) \ {b}
          /\ \A v \in Text : v # u => text_block_list'[v] = text_block_list[v]
      BY <1>0, <1>3, <2>2, BlocksTakenOut
    <3> QED BY <3>1
  <2>3. \/ UNCHANGED <<is_trans, text_block_list, answer>>
        \/ \E b \in Text : \E j : CellTranslated(u, j, b, k)
    BY <1>0, <1>2, <1>3, SuccessBlock
  <2> QED BY <2>1, <2>2, <2>3 DEF CellTranslated
<1>6. \A e \in Domain : ToSet(usr_list'[e]) \subseteq ToSet(usr_list[e]) /\ IsInjective(usr_list'[e])
  <2>1. \A i \in DOMAIN usr_list[d] : /\ ToSet(RemoveAt(usr_list[d], i)) \subseteq ToSet(usr_list[d])
                                      /\ IsInjective(RemoveAt(usr_list[d], i))
    BY <1>0, <1>3, TypeFacts, RemoveAtContent DEF ListsHeld
  <2>2. \/ usr_list' = usr_list
        \/ \E i \in DOMAIN usr_list[d] : usr_list' = [usr_list EXCEPT ![d] = RemoveAt(@, i)]
    BY <1>0, <1>2, <1>3, ErasedUcb
  <2>3. CASE usr_list' = usr_list
    BY <1>0, <2>3 DEF ListsHeld
  <2>4. ASSUME NEW i \in DOMAIN usr_list[d], usr_list' = [usr_list EXCEPT ![d] = RemoveAt(@, i)]
        PROVE  \A e \in Domain : ToSet(usr_list'[e]) \subseteq ToSet(usr_list[e]) /\ IsInjective(usr_list'[e])
    BY <1>0, <1>3, <2>1, <2>4, TypeFacts DEF ListsHeld
  <2> QED BY <2>2, <2>3, <2>4
<1>7. Held'
  BY <1>0, <1>4, <1>5, <1>6, HeldShrinks
<1>8. NobodyWaits'
  <2>1. ASSUME NEW e \in Domain, e # d PROVE NothingNew(e)
    <3>1. idle_slaves(e)' \subseteq idle_slaves(e)
      BY <1>0, <1>1, <1>2, <1>3, <2>1 DEF idle_slaves, TypeOK
    <3>2. \A r : HasReadyCell(r)' = HasReadyCell(r)
      BY <1>2 DEF HasReadyCell
    <3>3. ToSet(usr_list'[e]) \subseteq Text
      BY <1>0, <1>6, TypeFacts
    <3> QED BY <1>5, <1>6, <3>1, <3>2, <3>3 DEF NothingNew
  <2> QED BY <1>0, <1>2, <1>3, <2>1, HandlerRuns
<1> QED BY <1>7, <1>8

LEMMA ListNext == ASSUME ListInv, [Next]_vars PROVE ListInv'
<1>0. TypeOK /\ TypeOK' /\ Held
  BY TypeNext DEF ListInv
<1>1. Held' /\ NobodyWaits'
  <2>1. CASE UNCHANGED vars
    <3>1. NobodyWaits'
      BY <2>1 DEF ListInv, NobodyWaits, vars, text_vars, HasReadyTask, idle_slaves,
                  ready_ucbs, ready_blocks, HasReadyCell
    <3> QED BY <1>0, <2>1, <3>1, HeldStays DEF vars, text_vars
  <2>2. CASE GetReadyTask
    BY <2>2, ListGetReadyTask
  <2>3. ASSUME NEW s \in Slave, on_slave_pluse(s) PROVE Held' /\ NobodyWaits'
    BY <1>0, <2>3, HeldStays, SlavesRun DEF on_slave_pluse, text_vars
  <2>4. ASSUME NEW overdue, on_timer(overdue) PROVE Held' /\ NobodyWaits'
    BY <1>0, <2>4, HeldStays, SlavesRun DEF on_timer, text_vars
  <2>5. ASSUME NEW t \in Text, Request(t) PROVE Held' /\ NobodyWaits'
    <3>1. CASE on_trans_suspend(UsrID[t], TextID[t]) \/ on_trans_rerun(UsrID[t], TextID[t])
      BY <1>0, <3>1, HeldStays, ListSuspendRerun DEF on_trans_suspend, on_trans_rerun
    <3> QED BY <1>0, <2>5, <3>1, ListSubmit, ListCancel DEF Request
  <2>6. ASSUME NEW c \in CallID, Session(c) PROVE Held' /\ NobodyWaits'
    BY <1>0, <2>6, ListMoves, ListFailed, ListSuccess DEF Session
  <2> QED BY <2>1, <2>2, <2>3, <2>4, <2>5, <2>6 DEF Next
<1> QED BY <1>0, <1>1 DEF ListInv

LEMMA ListInit == Init => ListInv
<1> SUFFICES ASSUME Init PROVE Held /\ NobodyWaits
  BY TypeInit DEF ListInv
<1>1. /\ \A d \in Domain : ToSet(usr_list[d]) = {} /\ IsInjective(usr_list[d])
      /\ \A u \in Text : /\ text_block_list[u] = <<>> /\ IsInjective(text_block_list[u])
                         /\ ToSet(text_block_list[u]) = {}
      /\ \A c \in CallID : ~Live(c)
  BY DEF Init, ToSet, IsInjective, Live
<1>2. UcbsHeld /\ BlocksHeld /\ ListsHeld /\ TasksAtHome /\ OwnersHeld
  BY <1>1 DEF UcbsHeld, BlocksHeld, ListsHeld, TasksAtHome, OwnersHeld
<1>3. NobodyWaits
  BY DEF Init, NobodyWaits, HasReadyTask, idle_slaves
<1> QED BY <1>2, <1>3 DEF Held

\* No handler forgets GetReadyTask, or runs it for the wrong core: the controller never
\* goes back to its queue with a cell to translate and an idle slave in one core, even
\* when texts share their ids and results are stored in the wrong blocks.
THEOREM NoSlaveIdles == Spec => []NoIdleSlaveWithReadyCell
<1>1. ListInv => NoIdleSlaveWithReadyCell
  BY ConfigAssumption DEF ListInv, NobodyWaits, NoIdleSlaveWithReadyCell, Waiting
<1> QED BY <1>1, ListInit, ListNext, PTL DEF Spec

-----------------------------------------------------------------------------
(* Round robin.  A user who was given a task while another one waited is    *)
(* behind that one in the list until the other gets a task too.             *)

\* Every place of u in the list is behind every place of v.
Ordered(l, v, u) == \A a, b \in DOMAIN l : l[a] = v /\ l[b] = u => a < b

Rounds ==
  /\ overtaken \in [Text -> [Text -> Nat]]
  /\ \A v, u \in Text :
       /\ overtaken[v][u] <= 1
       /\ overtaken[v][u] # 0 => \A d \in Domain : Ordered(usr_list[d], v, u)

\* When the first k elements go to the end, whoever is behind the k-th comes before
\* them, and keeps the order to the others.
LEMMA RotateOrder ==
  ASSUME NEW S, NEW l \in Seq(S), NEW k \in DOMAIN l, NEW v, NEW u,
         \A a \in DOMAIN l : l[a] = v => a > k,
         \A a, b \in DOMAIN l : l[a] = v /\ l[b] = u /\ b > k => a < b
  PROVE  Ordered(Rotate(l, k), v, u)
<1> DEFINE n == Len(l)
           r == Rotate(l, k)
<1>1. /\ n \in Nat /\ k \in 1 .. n /\ DOMAIN l = 1 .. n /\ DOMAIN r = 1 .. n
      /\ \A i \in 1 .. n : r[i] = IF i <= n - k THEN l[i + k] ELSE l[i - (n - k)]
  BY RotateElements
<1> HIDE DEF n, r
<1> SUFFICES ASSUME NEW a \in 1 .. n, NEW b \in 1 .. n, r[a] = v, r[b] = u PROVE a < b
  BY <1>1 DEF Ordered, r
<1>2. a <= n - k
  <2> SUFFICES ASSUME a > n - k PROVE FALSE
    BY <1>1
  <2>1. r[a] = l[a - (n - k)] /\ a - (n - k) \in 1 .. n /\ a - (n - k) <= k
    BY <1>1
  <2> QED BY <1>1, <2>1
<1>3. CASE b > n - k
  BY <1>1, <1>2, <1>3
<1>4. CASE b <= n - k
  <2>1. a + k \in 1 .. n /\ b + k \in 1 .. n /\ b + k > k
    BY <1>1, <1>2, <1>4
  <2>2. l[a + k] = v /\ l[b + k] = u
    BY <1>1, <1>2, <1>4
  <2>3. a + k < b + k
    BY <1>1, <2>1, <2>2
  <2> QED BY <1>1, <2>3
<1> QED BY <1>1, <1>3, <1>4

\* Erasing an element changes the order of no others.
LEMMA RemoveAtOrder ==
  ASSUME NEW S, NEW l \in Seq(S), NEW k \in DOMAIN l, NEW v, NEW u, Ordered(l, v, u)
  PROVE  Ordered(RemoveAt(l, k), v, u)
<1> DEFINE n == Len(l)
           r == RemoveAt(l, k)
           from(i) == IF i < k THEN i ELSE i + 1
<1>1. /\ n \in Nat /\ k \in 1 .. n /\ DOMAIN l = 1 .. n /\ DOMAIN r = 1 .. n - 1
      /\ \A i \in 1 .. n - 1 : r[i] = IF i < k THEN l[i] ELSE l[i + 1]
  BY RemoveAtElements
<1> HIDE DEF n, r
<1> SUFFICES ASSUME NEW a \in 1 .. n - 1, NEW b \in 1 .. n - 1, r[a] = v, r[b] = u PROVE a < b
  BY <1>1 DEF Ordered, r
<1>2. from(a) \in 1 .. n /\ from(b) \in 1 .. n /\ l[from(a)] = v /\ l[from(b)] = u
  BY <1>1
<1>3. from(a) < from(b)
  BY <1>1, <1>2 DEF Ordered
<1> QED BY <1>1, <1>3

\* A new element comes behind all the others.
LEMMA AppendOrder ==
  ASSUME NEW S, NEW l \in Seq(S), NEW e \in S, NEW v, NEW u, Ordered(l, v, u), v # e
  PROVE  Ordered(Append(l, e), v, u)
<1> DEFINE n == Len(l)
           r == Append(l, e)
<1>1. /\ n \in Nat /\ DOMAIN l = 1 .. n /\ DOMAIN r = 1 .. n + 1
      /\ r[n + 1] = e /\ \A i \in 1 .. n : r[i] = l[i]
  OBVIOUS
<1> HIDE DEF n, r
<1> SUFFICES ASSUME NEW a \in 1 .. n + 1, NEW b \in 1 .. n + 1, r[a] = v, r[b] = u PROVE a < b
  BY <1>1 DEF Ordered, r
<1>2. a \in 1 .. n
  BY <1>1
<1>3. CASE b = n + 1
  BY <1>1, <1>2, <1>3
<1>4. CASE b \in 1 .. n
  BY <1>1, <1>2, <1>4 DEF Ordered
<1> QED BY <1>1, <1>3, <1>4

\* Only GetReadyTask opens a session.
LEMMA NobodyServed ==
  ASSUME TypeOK, [Next]_vars, ~GetReadyTask
  PROVE  Served = {}
<1>1. ASSUME NEW c \in CallID, trans_sess_map[c] = NoSession
      PROVE  trans_sess_map'[c] = NoSession
  <2>1. CASE trans_sess_map' = trans_sess_map
    BY <1>1, <2>1
  <2>2. ASSUME NEW b \in CallID, Session(b) PROVE trans_sess_map'[c] = NoSession
    <3>1. CASE on_close_sock(b)
      BY <1>1, <3>1, TypeFacts DEF on_close_sock
    <3>2. CASE trans_sess_map[b] # NoSession /\ \E st : SetState(b, st)
      BY <1>1, <3>2, TypeFacts DEF SetState
    <3> QED BY <2>2, <3>1, <3>2 DEF Session, on_connected, on_send_packet, on_recv_packet,
                                    on_session_failed, InState, Live
  <2>3. ASSUME NEW t \in Text, Request(t) PROVE trans_sess_map' = trans_sess_map
    BY <2>3 DEF Request, on_trans_submit, on_trans_suspend, on_trans_rerun, on_trans_cancel
  <2>4. ASSUME \/ UNCHANGED vars
               \/ \E s \in Slave : on_slave_pluse(s)
               \/ \E overdue : on_timer(overdue)
        PROVE  trans_sess_map' = trans_sess_map
    BY <2>4 DEF vars, on_slave_pluse, on_timer
  <2> QED BY <2>1, <2>2, <2>3, <2>4 DEF Next
<1> QED BY <1>1 DEF Served, Opened

\* The list of a core stays, loses one UCB, or gets a new one at its end.
ListChanges(d) ==
  \/ usr_list'[d] = usr_list[d]
  \/ \E k \in DOMAIN usr_list[d] : usr_list'[d] = RemoveAt(usr_list[d], k)
  \/ \E t \in Text : answer[t] = "NEW" /\ usr_list'[d] = Append(usr_list[d], t)

LEMMA OtherSteps ==
  ASSUME TypeOK, [Next]_vars, ~GetReadyTask, NEW d \in Domain
  PROVE  ListChanges(d)
<1>0. usr_list \in [Domain -> Seq(Text)]
  BY TypeFacts
<1>1. CASE usr_list' = usr_list
  BY <1>1 DEF ListChanges
<1>2. ASSUME NEW e \in Domain, NEW k \in DOMAIN usr_list[e],
             usr_list' = [usr_list EXCEPT ![e] = RemoveAt(@, k)]
      PROVE  ListChanges(d)
  BY <1>0, <1>2 DEF ListChanges
<1>3. ASSUME NEW t \in Text, on_trans_submit(t) PROVE ListChanges(d)
  <2>1. answer[t] = "NEW" /\ (RefuseSubmit(t) \/ SubmitTranslation(t))
    BY <1>3 DEF on_trans_submit
  <2>2. \/ usr_list' = usr_list
        \/ \E e \in Domain : usr_list' = [usr_list EXCEPT ![e] = Append(@, t)]
    BY <2>1 DEF RefuseSubmit, SubmitTranslation
  <2>3. ASSUME NEW e \in Domain, usr_list' = [usr_list EXCEPT ![e] = Append(@, t)]
        PROVE  ListChanges(d)
    BY <1>0, <2>1, <2>3 DEF ListChanges
  <2> QED BY <1>1, <2>2, <2>3
<1>4. ASSUME NEW usr, NEW tid, on_trans_cancel(usr, tid) PROVE ListChanges(d)
  <2>1. \E e \in Domain : \E i \in find_ucb(e, usr) :
          usr_list' = [usr_list EXCEPT ![e] = RemoveAt(@, i)] \/ usr_list' = usr_list
    BY <1>4 DEF on_trans_cancel
  <2>2. \A e \in Domain : \A i \in find_ucb(e, usr) : i \in DOMAIN usr_list[e]
    BY FindUcb
  <2> QED BY <1>1, <1>2, <2>1, <2>2
<1>5. ASSUME NEW c \in CallID, on_recv_packet(c) PROVE ListChanges(d)
  <2>1. PICK e, u : /\ e = SlaveDomain[trans_sess_map[c].slave]
                    /\ EraseEmptyUcb(e, u)
    BY <1>5 DEF on_recv_packet
  <2>2. e \in Domain
    BY <1>5, <2>1, LiveSession, ConfigAssumption DEF on_recv_packet, InState, TransSession
  <2>3. \/ UNCHANGED usr_list
        \/ \E i \in DOMAIN usr_list[e] : usr_list' = [usr_list EXCEPT ![e] = RemoveAt(@, i)]
    BY <2>1, <2>2, ErasedUcb
  <2> QED BY <1>1, <1>2, <2>2, <2>3
<1>6. ASSUME \/ UNCHANGED vars
             \/ \E s \in Slave : on_slave_pluse(s)
             \/ \E overdue : on_timer(overdue)
             \/ \E usr, tid : on_trans_suspend(usr, tid) \/ on_trans_rerun(usr, tid)
             \/ \E c \in CallID : \/ on_connected(c) \/ on_send_packet(c)
                                  \/ on_session_failed(c) \/ on_close_sock(c)
      PROVE  usr_list' = usr_list
  BY <1>6 DEF vars, on_slave_pluse, on_timer, on_trans_suspend,
              on_trans_rerun, on_connected, on_send_packet, on_session_failed, on_close_sock
<1>7. ASSUME NEW t \in Text, Request(t) PROVE ListChanges(d)
  BY <1>1, <1>3, <1>4, <1>6, <1>7 DEF Request
<1>8. ASSUME NEW c \in CallID, Session(c) PROVE ListChanges(d)
  BY <1>1, <1>5, <1>6, <1>8 DEF Session
<1> QED BY <1>1, <1>6, <1>7, <1>8 DEF Next

\* A step without a task for anybody counts nothing and keeps the order of who waits.
LEMMA RoundsOther ==
  ASSUME ListInv, Rounds, [Next]_vars, ~GetReadyTask,
         NEW v \in Text, NEW u \in Text, KeepsWaiting(v), overtaken[v][u] # 0,
         NEW d \in Domain
  PROVE  Ordered(usr_list'[d], v, u)
<1>1. TypeOK /\ UcbsHeld /\ Ordered(usr_list[d], v, u) /\ usr_list[d] \in Seq(Text)
  BY TypeFacts DEF ListInv, Held, Rounds
<1>2. answer[v] # "NEW"
  BY <1>1 DEF KeepsWaiting, InList, UcbsHeld
<1>3. ListChanges(d)
  BY <1>1, OtherSteps
<1>4. ASSUME NEW t \in Text, answer[t] = "NEW", usr_list'[d] = Append(usr_list[d], t)
      PROVE  Ordered(usr_list'[d], v, u)
  BY <1>1, <1>2, <1>4, AppendOrder
<1>5. ASSUME NEW k \in DOMAIN usr_list[d], usr_list'[d] = RemoveAt(usr_list[d], k)
      PROVE  Ordered(usr_list'[d], v, u)
  BY <1>1, <1>5, RemoveAtOrder
<1> QED BY <1>1, <1>3, <1>4, <1>5 DEF ListChanges

\* Who is given a task was the first in the list with a ready cell: whoever waits with
\* one is behind, was not overtaken by that user before, and is in front of it now.
LEMMA RoundsServe ==
  ASSUME ListInv, Rounds, GetReadyTask, NEW v \in Text, NEW u \in Text, KeepsWaiting(v)
  PROVE  /\ u \in Served /\ SameCore(u, v) => overtaken[v][u] = 0
         /\ overtaken[v][u] # 0 \/ (u \in Served /\ SameCore(u, v)) =>
              \A d \in Domain : Ordered(usr_list'[d], v, u)
<1>0. TypeOK /\ ListsHeld
  BY DEF ListInv, Held
<1> SUFFICES ASSUME NEW d \in Domain \cap {ready_core},
                    NEW s \in idle_slaves(d),
                    NEW i \in FirstAt(usr_list[d], ready_ucbs(d)),
                    NEW w \in {usr_list[d][i]},
                    NEW j \in FirstAt(text_block_list[w], ready_blocks(w)),
                    NEW t \in {text_block_list[w][j]},
                    NEW idx \in untrans_idx_set[t], NEW c \in CallID,
                    HandOut(d, s, i, w, j, t, idx, c)
             PROVE  /\ u \in Served /\ SameCore(u, v) => overtaken[v][u] = 0
                    /\ overtaken[v][u] # 0 \/ (u \in Served /\ SameCore(u, v)) =>
                         \A e \in Domain : Ordered(usr_list'[e], v, u)
  BY DEF GetReadyTask
<1> DEFINE l == usr_list[d]
<1>1. /\ l \in Seq(Text) /\ i \in DOMAIN l /\ w = l[i] /\ w \in Text
      /\ t \in Text /\ idx \in Nat /\ s \in Slave
      /\ \A k \in DOMAIN l \cap ready_ucbs(d) : i <= k
  BY <1>0, FirstAtInDomain, TypeFacts DEF FirstAt, TypeOK, idle_slaves
<1>2. usr_list'[d] = Rotate(l, i) /\ \A e \in Domain : e # d => usr_list'[e] = usr_list[e]
  BY <1>0, TypeFacts DEF HandOut
\* The one session that is opened is for w.
<1>3. Served = {w}
  <2> DEFINE new == [state |-> "CONNECT", ucb |-> w, text |-> t, cell |-> idx, slave |-> s]
  <2>1. new \in TransSession /\ new # NoSession /\ new.ucb = w
    BY <1>1, SessionAssumption DEF TransSession
  <2>2. /\ trans_sess_map[c] = NoSession /\ trans_sess_map'[c] = new
        /\ \A b \in CallID : b # c => trans_sess_map'[b] = trans_sess_map[b]
    BY <1>0, TypeFacts DEF HandOut, call_slave_for_trans
  <2> HIDE DEF new
  <2>3. Opened = {c}
    BY <2>1, <2>2 DEF Opened
  <2> QED BY <2>1, <2>2, <2>3 DEF Served
<1>4. v # w /\ ready_blocks(v) # {}
  BY <1>3 DEF KeepsWaiting
\* The places of v in this list are behind the i-th.
<1>5. \A a \in DOMAIN l : l[a] = v => a > i
  <2> SUFFICES ASSUME NEW a \in DOMAIN l, l[a] = v PROVE a > i
    OBVIOUS
  <2>1. a \in ready_ucbs(d)
    BY <1>4 DEF ready_ucbs
  <2>2. i <= a /\ a # i
    BY <1>1, <1>4, <2>1
  <2> QED BY <1>1, <2>2
<1>6. \A e \in Domain : e # d => w \notin ToSet(usr_list[e])
  BY <1>0, <1>1 DEF ListsHeld, ToSet
<1>7. \A b \in DOMAIN l : l[b] = w => b = i
  BY <1>0, <1>1 DEF ListsHeld, IsInjective
<1>8. u \in Served /\ SameCore(u, v) => u = w /\ \E a \in DOMAIN l : l[a] = v
  BY <1>3, <1>6 DEF SameCore, ToSet
<1>9. overtaken[v][u] # 0 => \A e \in Domain : Ordered(usr_list[e], v, u)
  BY DEF Rounds
<1> HIDE DEF l
<1>10. ASSUME u \in Served, SameCore(u, v), overtaken[v][u] # 0 PROVE FALSE
  <2>1. PICK a \in DOMAIN l : l[a] = v
    BY <1>8, <1>10
  <2>2. l[i] = u /\ i \in DOMAIN l /\ Ordered(l, v, u)
    BY <1>1, <1>8, <1>9, <1>10 DEF l
  <2>3. a < i /\ a > i
    BY <1>5, <2>1, <2>2 DEF Ordered
  <2> QED BY <1>1, <2>1, <2>3
<1>11. ASSUME overtaken[v][u] # 0 \/ (u \in Served /\ SameCore(u, v)), NEW e \in Domain
       PROVE  Ordered(usr_list'[e], v, u)
  <2>1. CASE e = d
    <3>1. \A a, b \in DOMAIN l : l[a] = v /\ l[b] = u /\ b > i => a < b
      <4>1. CASE u = w
        BY <1>1, <1>7, <4>1
      <4>2. CASE u # w
        BY <1>8, <1>9, <1>11, <4>2 DEF Ordered, l
      <4> QED BY <4>1, <4>2
    <3>2. Ordered(Rotate(l, i), v, u)
      BY <1>1, <1>5, <3>1, RotateOrder
    <3> QED BY <1>2, <2>1, <3>2
  <2>2. CASE e # d
    <3>1. usr_list'[e] = usr_list[e]
      BY <1>2, <2>2
    <3>2. CASE overtaken[v][u] # 0
      BY <1>9, <3>1, <3>2
    <3>3. CASE u = w
      BY <1>6, <2>2, <3>1, <3>3 DEF Ordered, ToSet
    <3> QED BY <1>8, <1>11, <3>2, <3>3
  <2> QED BY <2>1, <2>2
<1> QED BY <1>10, <1>11

LEMMA RoundsNext == ASSUME ListInv, Rounds, RRNext PROVE Rounds'
<1>0. [Next]_vars /\ TypeOK
  BY DEF RRNext, ListInv
<1>1. \A v, u \in Text : overtaken[v][u] \in Nat /\ overtaken[v][u] <= 1
  BY DEF Rounds
<1>2. \A v, u \in Text :
        overtaken'[v][u] = IF ~KeepsWaiting(v) THEN 0
                           ELSE overtaken[v][u] + (IF u \in Served /\ SameCore(u, v) THEN 1 ELSE 0)
  BY DEF RRNext
<1>3. ASSUME NEW v \in Text, NEW u \in Text
      PROVE  /\ overtaken'[v][u] \in Nat /\ overtaken'[v][u] <= 1
             /\ overtaken'[v][u] # 0 => \A d \in Domain : Ordered(usr_list'[d], v, u)
  <2>1. CASE ~KeepsWaiting(v)
    BY <1>2, <2>1
  <2>2. CASE KeepsWaiting(v) /\ ~GetReadyTask
    <3>1. Served = {}
      BY <1>0, <2>2, NobodyServed
    <3>2. overtaken'[v][u] = overtaken[v][u]
      BY <1>1, <1>2, <2>2, <3>1
    <3>3. overtaken[v][u] # 0 => \A d \in Domain : Ordered(usr_list'[d], v, u)
      BY <1>0, <2>2, RoundsOther
    <3> QED BY <1>1, <3>2, <3>3
  <2>3. CASE KeepsWaiting(v) /\ GetReadyTask
    <3>1. /\ u \in Served /\ SameCore(u, v) => overtaken[v][u] = 0
          /\ overtaken[v][u] # 0 \/ (u \in Served /\ SameCore(u, v)) =>
               \A d \in Domain : Ordered(usr_list'[d], v, u)
      BY <2>3, RoundsServe
    <3>2. CASE u \in Served /\ SameCore(u, v)
      BY <1>2, <2>3, <3>1, <3>2
    <3>3. CASE ~(u \in Served /\ SameCore(u, v))
      BY <1>1, <1>2, <2>3, <3>1, <3>3
    <3> QED BY <3>2, <3>3
  <2> QED BY <2>1, <2>2, <2>3
<1>4. overtaken' \in [Text -> [Text -> Nat]]
  BY <1>1 DEF RRNext
<1> QED BY <1>3, <1>4 DEF Rounds

\* The rotation of m_usr_list starves nobody: while a user waits in a core with a ready
\* cell, no other user of that core is given two tasks, whatever is submitted, cancelled
\* or lost meanwhile.
THEOREM NobodyStarves == RRSpec => []NobodyIsOvertakenTwice
<1>1. RRInit => ListInv /\ Rounds
  <2>1. RRInit => Rounds
    BY DEF RRInit, Rounds
  <2> QED BY <2>1, ListInit DEF RRInit
<1>2. ListInv /\ Rounds /\ [RRNext]_<<vars, overtaken>> => (ListInv /\ Rounds)'
  <2> SUFFICES ASSUME ListInv, Rounds, [RRNext]_<<vars, overtaken>> PROVE ListInv' /\ Rounds'
    OBVIOUS
  <2>1. [Next]_vars
    BY DEF RRNext
  <2>2. ListInv'
    BY <2>1, ListNext
  <2>3. CASE UNCHANGED <<vars, overtaken>>
    BY <2>2, <2>3 DEF Rounds, Ordered, vars
  <2>4. CASE RRNext
    BY <2>2, <2>4, RoundsNext
  <2> QED BY <2>2, <2>3, <2>4
<1>3. Rounds => NobodyIsOvertakenTwice
  BY DEF Rounds, NobodyIsOvertakenTwice
<1> QED BY <1>1, <1>2, <1>3, PTL DEF RRSpec
=============================================================================
