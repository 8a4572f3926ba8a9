-------------------------- MODULE EventEngine_proofs --------------------------
(***************************************************************************)
(* No lost wakeup, and the refinement of Mailbox, for any number of        *)
(* workers, posters and events.                                            *)
(***************************************************************************)
EXTENDS EventEngine, FiniteSetTheorems, SequenceTheorems, TLAPS

IInv == TypeOK /\ WaitersCounted /\ NoEventBesideSleeper

Places == {"run", "wait", "woken", "handle"}

\* notify_one lets one sleeping thread go, if there is one, and no other thread moves.
LEMMA NotifyOne ==
  ASSUME NEW p \in [Worker -> Places], {w \in Worker : p[w] = "wait"} = Sleeping, notify_one(p)
  PROVE  /\ pc' \in [Worker -> Places]
         /\ Waiters' = {w \in Worker : p[w] \in {"wait", "woken"}}
         /\ Sleeping # {} => \E w \in Worker : pc'[w] = "woken"
<1>1. CASE Sleeping = {} /\ pc' = p
  BY <1>1 DEF Waiters
<1>2. ASSUME NEW w \in Sleeping, pc' = [p EXCEPT ![w] = "woken"]
      PROVE  /\ pc' \in [Worker -> Places]
             /\ Waiters' = {v \in Worker : p[v] \in {"wait", "woken"}}
             /\ \E v \in Worker : pc'[v] = "woken"
  <2>1. w \in Worker /\ p[w] = "wait"
    OBVIOUS
  <2> QED BY <1>2, <2>1 DEF Waiters, Places
<1> QED BY <1>1, <1>2 DEF notify_one

\* The waiters are finitely many when the workers are.
LEMMA WaitersFinite ==
  ASSUME IsFiniteSet(Worker)
  PROVE  IsFiniteSet(Waiters) /\ Cardinality(Waiters) \in Nat
<1>1. Waiters \subseteq Worker
  BY DEF Waiters
<1> QED BY <1>1, FS_Subset, FS_CardinalityType

\* What pop_element does; it is called with the number of the other waiters.
LEMMA PopElement ==
  ASSUME IsFiniteSet(Worker), IInv, NEW w \in Worker, pc[w] \in {"run", "woken"},
         NEW count \in Nat, count = Cardinality(Waiters \ {w}), pop_element(w, count)
  PROVE  IInv'
<1>1. /\ TypeOK /\ pc \in [Worker -> Places] /\ w \notin Sleeping
      /\ m_elem_deque \in Seq(Event)
  BY DEF IInv, TypeOK, Sleeping, Places
<1>2. need_notify' = need_notify /\ posted' = posted /\ handled' = handled
  BY DEF pop_element
<1>3. CASE FallAsleep(w, count)
  <2>1. /\ pc' = [pc EXCEPT ![w] = "wait"] /\ m_wait_count' = count + 1
        /\ m_elem_deque' = <<>> /\ event_vec' = event_vec
    BY <1>3 DEF FallAsleep
  <2>2. Waiters' = (Waiters \ {w}) \cup {w}
    BY <1>1, <2>1 DEF Waiters
  <2>3. Cardinality(Waiters') = count + 1
    <3>1. IsFiniteSet(Waiters \ {w})
      BY WaitersFinite, FS_RemoveElement
    <3> QED BY <2>2, <3>1, FS_AddElement
  <2>4. TypeOK'
    BY <1>1, <1>2, <2>1 DEF TypeOK
  <2> QED BY <2>1, <2>3, <2>4 DEF IInv, WaitersCounted, NoEventBesideSleeper
<1>4. CASE TakeFront(w, count)
  <2> DEFINE p == [pc EXCEPT ![w] = "handle"]
  <2>1. /\ m_elem_deque # <<>> /\ m_elem_deque' = Tail(m_elem_deque) /\ m_wait_count' = count
        /\ event_vec' = [event_vec EXCEPT ![w] = <<Head(m_elem_deque)>>]
        /\ pc' = p \/ notify_one(p)
        /\ count > 0 /\ m_elem_deque' # <<>> => notify_one(p)
    BY <1>4 DEF TakeFront
  <2>2. /\ p \in [Worker -> Places] /\ {v \in Worker : p[v] = "wait"} = Sleeping
        /\ {v \in Worker : p[v] \in {"wait", "woken"}} = Waiters \ {w}
    BY <1>1 DEF Sleeping, Waiters, Places
  <2>3. pc' \in [Worker -> Places] /\ Waiters' = Waiters \ {w}
    <3>1. CASE pc' = p
      BY <2>2, <3>1 DEF Waiters
    <3>2. CASE notify_one(p)
      BY <2>2, <3>2, NotifyOne
    <3> QED BY <2>1, <3>1, <3>2
  <2>4. TypeOK'
    <3>1. Head(m_elem_deque) \in Event /\ Tail(m_elem_deque) \in Seq(Event)
      BY <1>1, <2>1
    <3>2. <<Head(m_elem_deque)>> \in Seq(Event)
      BY <3>1
    <3>3. event_vec' \in [Worker -> Seq(Event)]
      BY <1>1, <2>1, <3>2 DEF TypeOK
    <3>4. m_elem_deque' \in Seq(Event) /\ m_wait_count' \in Nat /\ pc' \in [Worker -> Places]
      BY <2>1, <2>3, <3>1
    <3> QED BY <1>1, <1>2, <3>3, <3>4 DEF TypeOK, Places
  <2>5. NoEventBesideSleeper'
    <3> SUFFICES ASSUME m_elem_deque' # <<>>, Sleeping' # {}
                 PROVE  \E v \in Worker : pc'[v] \in {"run", "woken"}
      BY DEF NoEventBesideSleeper
    <3>1. PICK v \in Waiters \ {w} : TRUE
      BY <2>3 DEF Sleeping, Waiters
    <3>2. count > 0
      <4>1. IsFiniteSet(Waiters \ {w})
        BY WaitersFinite, FS_RemoveElement
      <4>2. count # 0
        BY <3>1, <4>1, FS_EmptySet
      <4> QED BY <4>2
    <3>3. notify_one(p)
      BY <2>1, <3>2
    <3>4. CASE Sleeping # {}
      BY <2>2, <3>3, <3>4, NotifyOne
    <3>5. CASE Sleeping = {}
      <4>1. pc' = p
        BY <3>3, <3>5 DEF notify_one
      <4> QED BY <2>2, <3>5, <4>1 DEF Sleeping
    <3> QED BY <3>4, <3>5
  <2> QED BY <2>1, <2>3, <2>4, <2>5 DEF IInv, WaitersCounted
<1> QED BY <1>3, <1>4 DEF pop_element

LEMMA InvPost ==
  ASSUME IsFiniteSet(Worker), IInv, NEW p \in Poster, NEW e \in Event, PostEvent(p, e)
  PROVE  IInv'
<1>1. pc' = pc /\ m_wait_count' = m_wait_count /\ need_notify' = [need_notify EXCEPT ![p] = m_wait_count > 0]
  BY DEF PostEvent, NeedNotify
<1>2. TypeOK'
  BY <1>1 DEF IInv, TypeOK, PostEvent, Push, NeedNotify
<1>3. Waiters' = Waiters /\ Sleeping' = Sleeping
  BY <1>1 DEF Waiters, Sleeping
<1>4. Sleeping # {} => m_wait_count > 0
  <2>1. Sleeping \subseteq Waiters
    BY DEF Sleeping, Waiters
  <2>2. Sleeping # {} => Cardinality(Waiters) # 0
    BY <2>1, WaitersFinite, FS_EmptySet
  <2> QED BY <2>2, WaitersFinite DEF IInv, WaitersCounted
<1>5. Sleeping # {} => need_notify'[p]
  BY <1>1, <1>4 DEF IInv, TypeOK
<1> QED BY <1>1, <1>2, <1>3, <1>5 DEF IInv, WaitersCounted, NoEventBesideSleeper

LEMMA InvNotify ==
  ASSUME IInv, NEW p \in Poster, Notify(p)
  PROVE  IInv'
<1>1. pc \in [Worker -> Places] /\ {w \in Worker : pc[w] = "wait"} = Sleeping
  BY DEF IInv, TypeOK, Places, Sleeping
<1>2. /\ pc' \in [Worker -> Places] /\ Waiters' = Waiters
      /\ Sleeping # {} => \E w \in Worker : pc'[w] = "woken"
  BY <1>1, NotifyOne DEF Notify, Waiters
<1>3. TypeOK'
  BY <1>2 DEF IInv, TypeOK, Notify, Places
<1>4. Sleeping = {} => Sleeping' = {}
  BY DEF Notify, notify_one, Sleeping
<1> QED BY <1>2, <1>3, <1>4 DEF IInv, WaitersCounted, NoEventBesideSleeper, Notify

LEMMA InvWorker ==
  ASSUME IsFiniteSet(Worker), IInv, NEW w \in Worker, WorkerStep(w)
  PROVE  IInv'
<1>0. TypeOK /\ pc \in [Worker -> Places] /\ m_wait_count = Cardinality(Waiters)
  BY DEF IInv, TypeOK, Places, WaitersCounted
<1>1. CASE PopFront(w)
  <2>1. Waiters \ {w} = Waiters
    BY <1>1 DEF PopFront, Waiters
  <2> QED BY <1>0, <1>1, <2>1, WaitersFinite, PopElement DEF PopFront
<1>2. CASE Resume(w)
  <2>1. w \in Waiters
    BY <1>2 DEF Resume, Waiters
  <2>2. Cardinality(Waiters \ {w}) = m_wait_count - 1
    BY <1>0, <2>1, WaitersFinite, FS_RemoveElement
  <2>3. m_wait_count - 1 \in Nat
    BY <2>2, WaitersFinite, FS_RemoveElement, FS_CardinalityType
  <2> QED BY <1>2, <2>2, <2>3, PopElement DEF Resume
<1>3. CASE SpuriousWakeup(w)
  <2>1. pc' = [pc EXCEPT ![w] = "woken"] /\ pc[w] = "wait"
    BY <1>3 DEF SpuriousWakeup
  <2>2. Waiters' = Waiters /\ pc'[w] = "woken"
    BY <1>0, <2>1 DEF Waiters
  <2>3. TypeOK'
    BY <1>0, <1>3 DEF TypeOK, SpuriousWakeup
  <2> QED BY <1>3, <2>2, <2>3 DEF IInv, WaitersCounted, NoEventBesideSleeper, SpuriousWakeup
<1>4. CASE OnEvent(w)
  <2>1. pc' = [pc EXCEPT ![w] = "run"] /\ pc[w] = "handle"
    BY <1>4 DEF OnEvent
  <2>2. Waiters' = Waiters /\ pc'[w] = "run"
    BY <1>0, <2>1 DEF Waiters
  <2>3. TypeOK'
    <3>1. \A i \in DOMAIN event_vec[w] : event_vec[w][i] \in Event
      BY <1>0 DEF TypeOK
    <3>2. handled' \subseteq Event
      BY <1>0, <1>4, <3>1 DEF TypeOK, OnEvent
    <3>3. <<>> \in Seq(Event)
      OBVIOUS
    <3>4. event_vec' \in [Worker -> Seq(Event)]
      BY <1>0, <1>4, <3>3 DEF TypeOK, OnEvent
    <3>5. pc' \in [Worker -> Places]
      BY <1>0, <2>1 DEF Places
    <3> QED BY <1>0, <1>4, <3>2, <3>4, <3>5 DEF TypeOK, OnEvent, Places
  <2> QED BY <1>4, <2>2, <2>3 DEF IInv, WaitersCounted, NoEventBesideSleeper, OnEvent
<1> QED BY <1>1, <1>2, <1>3, <1>4 DEF WorkerStep

LEMMA InvInit == Init => IInv
<1> SUFFICES ASSUME Init PROVE IInv
  OBVIOUS
<1>1. TypeOK
  BY DEF Init, TypeOK
<1>2. Waiters = {} /\ m_wait_count = 0
  BY DEF Init, Waiters
<1>3. NoEventBesideSleeper
  BY DEF Init, NoEventBesideSleeper
<1> QED BY <1>1, <1>2, <1>3, FS_EmptySet DEF IInv, WaitersCounted

LEMMA InvNext == ASSUME IsFiniteSet(Worker), IInv, [Next]_vars PROVE IInv'
<1>1. CASE UNCHANGED vars
  BY <1>1 DEF vars, IInv, TypeOK, WaitersCounted, Waiters, NoEventBesideSleeper, Sleeping
<1>2. CASE Next
  BY <1>2, InvPost, InvNotify, InvWorker DEF Next
<1> QED BY <1>1, <1>2

\* Types, the count of waiters and NoEventBesideSleeper are inductive together.
THEOREM Invariance == ASSUME IsFiniteSet(Worker) PROVE Spec => []IInv
<1>1. IInv /\ [Next]_vars => IInv'
  BY InvNext
<1> QED BY <1>1, InvInit, PTL DEF Spec

\* m_wait_count is the number of threads inside the wait of pop_element.
THEOREM WaitCountIsExact == ASSUME IsFiniteSet(Worker) PROVE Spec => []WaitersCounted
<1>1. IInv => WaitersCounted
  BY DEF IInv
<1> QED BY <1>1, Invariance, PTL

\* No wakeup is lost: an event in the deque always has somebody coming for it.
THEOREM NoLostWakeup == ASSUME IsFiniteSet(Worker) PROVE Spec => []NoEventBesideSleeper
<1>1. IInv => NoEventBesideSleeper
  BY DEF IInv
<1> QED BY <1>1, Invariance, PTL
-----------------------------------------------------------------------------
(* Refinement.  The HIGH events are the first k of the deque. *)

InFront(l, k) == k \in Nat /\ k <= Len(l) /\ {i \in DOMAIN l : l[i] \in HighPriority} = 1 .. k

\* The two parts of a list that is cut after its k-th element.
LEMMA Cut ==
  ASSUME NEW l \in Seq(Event), NEW k \in 0 .. Len(l)
  PROVE  /\ SubSeq(l, 1, k) \in Seq(Event) /\ Len(SubSeq(l, 1, k)) = k
         /\ \A i \in 1 .. k : SubSeq(l, 1, k)[i] = l[i]
         /\ SubSeq(l, k + 1, Len(l)) \in Seq(Event) /\ Len(SubSeq(l, k + 1, Len(l))) = Len(l) - k
         /\ \A i \in 1 .. Len(l) - k : SubSeq(l, k + 1, Len(l))[i] = l[i + k]
<1> DEFINE n == Len(l)
           a == SubSeq(l, k + 1, n)
           b == SubSeq(l, 1, k)
<1>1. n \in Nat /\ k \in Int /\ k + 1 \in Int /\ n \in Int /\ 1 \in Int /\ \A i \in 1 .. n : l[i] \in Event
  OBVIOUS
<1>2. /\ a \in Seq(Event) /\ Len(a) = IF k + 1 <= n THEN n - (k + 1) + 1 ELSE 0
      /\ \A i \in 1 .. n - (k + 1) + 1 : a[i] = l[(k + 1) + i - 1]
  BY <1>1, SubSeqProperties
<1>3. /\ b \in Seq(Event) /\ Len(b) = IF 1 <= k THEN k - 1 + 1 ELSE 0
      /\ \A i \in 1 .. k - 1 + 1 : b[i] = l[1 + i - 1]
  BY <1>1, SubSeqProperties
<1> HIDE DEF a, b
<1>4. a \in Seq(Event) /\ Len(a) = n - k /\ \A i \in 1 .. n - k : a[i] = l[i + k]
  BY <1>1, <1>2
<1>5. b \in Seq(Event) /\ Len(b) = k /\ \A i \in 1 .. k : b[i] = l[i]
  BY <1>1, <1>3
<1> QED BY <1>4, <1>5 DEF a, b

\* Lists of the same length with the same elements are the same.
LEMMA SameList ==
  ASSUME NEW a \in Seq(Event), NEW b \in Seq(Event), Len(a) = Len(b),
         \A i \in 1 .. Len(b) : a[i] = b[i]
  PROVE  a = b
BY SeqEqual

\* A HIGH event is pushed before the others of its kind.
LEMMA PushedHigh ==
  ASSUME NEW l \in Seq(Event), NEW k, InFront(l, k), NEW e \in Event \cap HighPriority,
         NEW m, m = <<e>> \o l
  PROVE  /\ m \in Seq(Event) /\ InFront(m, k + 1)
         /\ SubSeq(m, 1, k + 1) = <<e>> \o SubSeq(l, 1, k)
         /\ SubSeq(m, k + 1 + 1, Len(m)) = SubSeq(l, k + 1, Len(l))
<1> DEFINE n == Len(l)
<1>1. n \in Nat /\ k \in 0 .. n /\ DOMAIN l = 1 .. n
  BY DEF InFront
<1>2. /\ m \in Seq(Event) /\ Len(m) = n + 1 /\ DOMAIN m = 1 .. n + 1 /\ m[1] = e
      /\ \A i \in 1 .. n : m[i + 1] = l[i]
  OBVIOUS
<1>3. InFront(m, k + 1)
  <2>1. \A i \in 1 .. n : l[i] \in HighPriority <=> i <= k
    BY <1>1 DEF InFront
  <2>2. ASSUME NEW i \in 1 .. n + 1 PROVE m[i] \in HighPriority <=> i <= k + 1
    <3>1. CASE i = 1
      BY <1>1, <1>2, <3>1
    <3>2. CASE i # 1
      <4>1. i - 1 \in 1 .. n /\ m[i] = l[i - 1]
        BY <1>1, <1>2, <3>2
      <4> QED BY <1>1, <2>1, <4>1
    <3> QED BY <3>1, <3>2
  <2> QED BY <1>1, <1>2, <2>2 DEF InFront
<1>4. k + 1 \in 0 .. Len(m)
  BY <1>3 DEF InFront
<1>0. PICK a, b, c, d : /\ a = SubSeq(l, 1, k) /\ b = SubSeq(l, k + 1, n)
                        /\ c = SubSeq(m, 1, k + 1) /\ d = SubSeq(m, k + 1 + 1, Len(m))
  OBVIOUS
<1>5. /\ a \in Seq(Event) /\ Len(a) = k /\ \A i \in 1 .. k : a[i] = l[i]
      /\ b \in Seq(Event) /\ Len(b) = n - k /\ \A i \in 1 .. n - k : b[i] = l[i + k]
  BY <1>0, <1>1, Cut
<1>6. /\ c \in Seq(Event) /\ Len(c) = k + 1 /\ \A i \in 1 .. k + 1 : c[i] = m[i]
      /\ d \in Seq(Event) /\ Len(d) = n - k /\ \A i \in 1 .. n - k : d[i] = m[i + (k + 1)]
  <2>1. /\ c \in Seq(Event) /\ Len(c) = k + 1 /\ \A i \in 1 .. k + 1 : c[i] = m[i]
        /\ d \in Seq(Event) /\ Len(d) = Len(m) - (k + 1)
        /\ \A i \in 1 .. Len(m) - (k + 1) : d[i] = m[i + (k + 1)]
    BY <1>0, <1>2, <1>4, Cut
  <2>2. Len(m) - (k + 1) = n - k
    BY <1>1, <1>2
  <2> QED BY <2>1, <2>2
<1>7. c = <<e>> \o a
  <2>1. /\ <<e>> \o a \in Seq(Event) /\ Len(<<e>> \o a) = k + 1 /\ (<<e>> \o a)[1] = e
        /\ \A i \in 1 .. k : (<<e>> \o a)[i + 1] = l[i]
    BY <1>1, <1>5
  <2>2. \A i \in 1 .. k + 1 : i # 1 => i - 1 \in 1 .. k /\ (<<e>> \o a)[i] = l[i - 1] /\ m[i] = l[i - 1]
    BY <1>1, <1>2, <2>1
  <2>3. c \in Seq(Event) /\ Len(c) = k + 1 /\ \A i \in 1 .. k + 1 : c[i] = m[i]
    BY <1>6
  <2>4. \A i \in 1 .. k + 1 : c[i] = (<<e>> \o a)[i]
    BY <1>2, <2>1, <2>2, <2>3
  <2> QED BY <2>1, <2>3, <2>4, SameList
<1>8. d = b
  <2>1. d \in Seq(Event) /\ b \in Seq(Event) /\ Len(d) = n - k /\ Len(b) = n - k
    BY <1>1, <1>2, <1>5, <1>6
  <2>2. \A i \in 1 .. n - k : d[i] = m[i + (k + 1)] /\ b[i] = l[i + k]
    BY <1>1, <1>2, <1>5, <1>6
  <2>3. \A i \in 1 .. n - k : m[i + (k + 1)] = l[i + k]
    BY <1>1, <1>2
  <2> QED BY <2>1, <2>2, <2>3, SameList
<1> QED BY <1>0, <1>2, <1>3, <1>7, <1>8

\* A NORMAL event is pushed behind all the others.
LEMMA PushedNormal ==
  ASSUME NEW l \in Seq(Event), NEW k, InFront(l, k), NEW e \in Event, e \notin HighPriority
  PROVE  /\ Append(l, e) \in Seq(Event) /\ InFront(Append(l, e), k)
         /\ SubSeq(Append(l, e), 1, k) = SubSeq(l, 1, k)
         /\ SubSeq(Append(l, e), k + 1, Len(Append(l, e))) = Append(SubSeq(l, k + 1, Len(l)), e)
<1> SUFFICES ASSUME NEW m, m = Append(l, e)
             PROVE  /\ m \in Seq(Event) /\ InFront(m, k)
                    /\ SubSeq(m, 1, k) = SubSeq(l, 1, k)
                    /\ SubSeq(m, k + 1, Len(m)) = Append(SubSeq(l, k + 1, Len(l)), e)
  BY Zenon
<1> DEFINE n == Len(l)
<1>1. n \in Nat /\ k \in 0 .. n /\ DOMAIN l = 1 .. n
  BY DEF InFront
<1>2. /\ m \in Seq(Event) /\ Len(m) = n + 1 /\ DOMAIN m = 1 .. n + 1 /\ m[n + 1] = e
      /\ \A i \in 1 .. n : m[i] = l[i]
  OBVIOUS
<1>3. InFront(m, k)
  BY <1>1, <1>2 DEF InFront
<1>4. k \in 0 .. Len(m)
  BY <1>3 DEF InFront
<1>0. PICK a, b, c, d : /\ a = SubSeq(l, 1, k) /\ b = SubSeq(l, k + 1, n)
                        /\ c = SubSeq(m, 1, k) /\ d = SubSeq(m, k + 1, Len(m))
  OBVIOUS
<1>5. /\ a \in Seq(Event) /\ Len(a) = k /\ \A i \in 1 .. k : a[i] = l[i]
      /\ b \in Seq(Event) /\ Len(b) = n - k /\ \A i \in 1 .. n - k : b[i] = l[i + k]
  BY <1>0, <1>1, Cut
<1>6. /\ c \in Seq(Event) /\ Len(c) = k /\ \A i \in 1 .. k : c[i] = m[i]
      /\ d \in Seq(Event) /\ Len(d) = n - k + 1 /\ \A i \in 1 .. n - k + 1 : d[i] = m[i + k]
  <2>1. /\ c \in Seq(Event) /\ Len(c) = k /\ \A i \in 1 .. k : c[i] = m[i]
        /\ d \in Seq(Event) /\ Len(d) = Len(m) - k
        /\ \A i \in 1 .. Len(m) - k : d[i] = m[i + k]
    BY <1>0, <1>2, <1>4, Cut
  <2>2. Len(m) - k = n - k + 1
    BY <1>1, <1>2
  <2> QED BY <2>1, <2>2
<1>7. c = a
  <2>1. \A i \in 1 .. k : c[i] = a[i]
    BY <1>1, <1>2, <1>5, <1>6
  <2> QED BY <1>5, <1>6, <2>1, SameList
<1>8. d = Append(b, e)
  <2>1. /\ b \in Seq(Event) /\ Len(b) = n - k /\ d \in Seq(Event) /\ Len(d) = n - k + 1
        /\ \A i \in 1 .. n - k + 1 : d[i] = m[i + k]
        /\ \A i \in 1 .. n - k : b[i] = l[i + k]
    BY <1>1, <1>2, <1>5, <1>6
  <2>2. /\ Append(b, e) \in Seq(Event) /\ Len(Append(b, e)) = n - k + 1
        /\ Append(b, e)[n - k + 1] = e /\ \A i \in 1 .. n - k : Append(b, e)[i] = l[i + k]
    BY <1>1, <2>1
  <2>3. ASSUME NEW i \in 1 .. n - k + 1 PROVE d[i] = Append(b, e)[i]
    <3>1. CASE i = n - k + 1
      BY <1>1, <1>2, <2>1, <2>2, <3>1
    <3>2. CASE i # n - k + 1
      <4>1. i \in 1 .. n - k /\ i + k \in 1 .. n
        BY <1>1, <3>2
      <4> QED BY <1>2, <2>1, <2>2, <2>3, <4>1
    <3> QED BY <3>1, <3>2
  <2> QED BY <2>1, <2>2, <2>3, SameList
<1> QED BY <1>0, <1>2, <1>3, <1>7, <1>8

\* The front of the deque is a HIGH event as long as there is one.
LEMMA TakenFront ==
  ASSUME NEW l \in Seq(Event), l # <<>>, NEW k, InFront(l, k), NEW m, m = Tail(l)
  PROVE  /\ m \in Seq(Event)
         /\ k > 0 => /\ InFront(m, k - 1) /\ SubSeq(l, 1, k) # <<>>
                     /\ SubSeq(m, 1, k - 1) = Tail(SubSeq(l, 1, k))
                     /\ SubSeq(m, k - 1 + 1, Len(m)) = SubSeq(l, k + 1, Len(l))
         /\ k = 0 => /\ InFront(m, 0) /\ SubSeq(l, 1, 0) = <<>> /\ SubSeq(m, 1, 0) = <<>>
                     /\ SubSeq(l, 0 + 1, Len(l)) # <<>>
                     /\ SubSeq(m, 0 + 1, Len(m)) = Tail(SubSeq(l, 0 + 1, Len(l)))
<1> DEFINE n == Len(l)
<1>1. n \in Nat /\ k \in 0 .. n /\ DOMAIN l = 1 .. n /\ n > 0
  BY DEF InFront
<1>2. /\ m \in Seq(Event) /\ Len(m) = n - 1 /\ DOMAIN m = 1 .. n - 1
      /\ \A i \in 1 .. n - 1 : m[i] = l[i + 1]
  <2>1. /\ m \in Seq(Event) /\ Len(m) = Len(l) - 1
        /\ \A i \in 1 .. Len(l) - 1 : m[i] = l[i + 1]
    BY HeadTailProperties
  <2>2. DOMAIN m = 1 .. Len(m)
    BY <2>1
  <2> QED BY <2>1, <2>2
<1>3. \A i \in 1 .. n : l[i] \in HighPriority <=> i <= k
  BY <1>1 DEF InFront
<1>0. PICK a, b : a = SubSeq(l, 1, k) /\ b = SubSeq(l, k + 1, n)
  OBVIOUS
<1>4. /\ a \in Seq(Event) /\ Len(a) = k /\ \A i \in 1 .. k : a[i] = l[i]
      /\ b \in Seq(Event) /\ Len(b) = n - k /\ \A i \in 1 .. n - k : b[i] = l[i + k]
  BY <1>0, <1>1, Cut
<1>5. CASE k > 0
  <2>1. InFront(m, k - 1)
    <3>1. \A i \in 1 .. n - 1 : m[i] \in HighPriority <=> i <= k - 1
      BY <1>1, <1>2, <1>3
    <3> QED BY <1>1, <1>2, <1>5, <3>1 DEF InFront
  <2>2. PICK c, d : c = SubSeq(m, 1, k - 1) /\ d = SubSeq(m, k - 1 + 1, Len(m))
    OBVIOUS
  <2>3. k - 1 \in 0 .. Len(m)
    BY <2>1 DEF InFront
  <2>4. /\ c \in Seq(Event) /\ Len(c) = k - 1 /\ \A i \in 1 .. k - 1 : c[i] = m[i]
        /\ d \in Seq(Event) /\ Len(d) = n - k /\ \A i \in 1 .. n - k : d[i] = m[i + (k - 1)]
    <3>1. /\ c \in Seq(Event) /\ Len(c) = k - 1 /\ \A i \in 1 .. k - 1 : c[i] = m[i]
          /\ d \in Seq(Event) /\ Len(d) = Len(m) - (k - 1)
          /\ \A i \in 1 .. Len(m) - (k - 1) : d[i] = m[i + (k - 1)]
      BY <1>2, <2>2, <2>3, Cut
    <3>2. Len(m) - (k - 1) = n - k
      BY <1>1, <1>2
    <3> QED BY <3>1, <3>2
  <2>5. c = Tail(a) /\ a # <<>>
    <3>1. a # <<>> /\ Tail(a) \in Seq(Event) /\ Len(Tail(a)) = k - 1
      BY <1>1, <1>4, <1>5
    <3>2. \A i \in 1 .. k - 1 : Tail(a)[i] = a[i + 1]
      BY <1>4, <3>1
    <3>3. \A i \in 1 .. k - 1 : c[i] = Tail(a)[i]
      BY <1>1, <1>2, <1>4, <2>4, <3>2
    <3> QED BY <2>4, <3>1, <3>3, SameList
  <2>6. d = b
    <3>1. \A i \in 1 .. n - k : d[i] = b[i]
      BY <1>1, <1>2, <1>4, <2>4
    <3> QED BY <1>4, <2>4, <3>1, SameList
  <2>7. k # 0
    BY <1>5
  <2> QED BY <1>0, <1>2, <2>1, <2>2, <2>5, <2>6, <2>7, Zenon
<1>6. CASE k = 0
  <2>1. InFront(m, 0)
    BY <1>1, <1>2, <1>3, <1>6 DEF InFront
  <2>2. PICK c, d : c = SubSeq(m, 1, 0) /\ d = SubSeq(m, 0 + 1, Len(m))
    OBVIOUS
  <2>3. 0 \in 0 .. Len(m)
    BY <2>1 DEF InFront
  <2>4. /\ c \in Seq(Event) /\ Len(c) = 0
        /\ d \in Seq(Event) /\ Len(d) = n - 1 /\ \A i \in 1 .. n - 1 : d[i] = m[i]
    <3>1. /\ c \in Seq(Event) /\ Len(c) = 0
          /\ d \in Seq(Event) /\ Len(d) = Len(m) - 0 /\ \A i \in 1 .. Len(m) - 0 : d[i] = m[i + 0]
      BY <1>2, <2>2, <2>3, Cut
    <3> QED BY <1>1, <1>2, <3>1
  <2>5. a = <<>> /\ c = <<>>
    BY <1>4, <1>6, <2>4
  <2>6. b # <<>> /\ d = Tail(b)
    <3>1. b # <<>> /\ Tail(b) \in Seq(Event) /\ Len(Tail(b)) = n - 1
      BY <1>1, <1>4, <1>6
    <3>2. \A i \in 1 .. n - 1 : Tail(b)[i] = b[i + 1]
      BY <1>1, <1>4, <1>6, <3>1
    <3>3. \A i \in 1 .. n - 1 : d[i] = Tail(b)[i]
      BY <1>1, <1>2, <1>4, <1>6, <2>4, <3>2
    <3> QED BY <2>4, <3>1, <3>3, SameList
  <2> QED BY <1>0, <1>2, <1>6, <2>1, <2>2, <2>5, <2>6
<1> QED BY <1>1, <1>2, <1>5, <1>6

\* The HIGH events stand in front; then they can be counted.
HighsInFront == \E k : InFront(m_elem_deque, k)

LEMMA CountInFront ==
  \A k : /\ InFront(m_elem_deque, k) => HighCount = k
         /\ InFront(m_elem_deque', k) => HighCount' = k
<1>1. \A k \in Nat : Cardinality(1 .. k) = k
  BY FS_Interval
<1>2. ASSUME NEW k, InFront(m_elem_deque, k) PROVE HighCount = k
  <2>1. k \in Nat /\ HighCount = Cardinality(1 .. k)
    BY <1>2, Zenon DEF InFront, HighCount
  <2> QED BY <1>1, <2>1
<1>3. ASSUME NEW k, InFront(m_elem_deque', k) PROVE HighCount' = k
  <2>1. k \in Nat /\ HighCount' = Cardinality(1 .. k)
    BY <1>3, Zenon DEF InFront, HighCount
  <2> QED BY <1>1, <2>1
<1> QED BY <1>2, <1>3

MInv == TypeOK /\ HighsInFront

\* A step that leaves the deque and the posted events alone does not show.
LEMMA QuietBox ==
  ASSUME UNCHANGED <<m_elem_deque, posted>>
  PROVE  UNCHANGED <<SubSeq(m_elem_deque, 1, HighCount),
                     SubSeq(m_elem_deque, HighCount + 1, Len(m_elem_deque)), posted>>
BY DEF HighCount

LEMMA PostImplements ==
  ASSUME MInv, NEW p \in Poster, NEW e \in Event, PostEvent(p, e)
  PROVE  HighsInFront' /\ Box!Post(e)
<1>1. m_elem_deque \in Seq(Event)
  BY DEF MInv, TypeOK
<1>2. PICK k : InFront(m_elem_deque, k)
  BY DEF MInv, HighsInFront
<1>3. HighCount = k
  BY <1>2, CountInFront
<1>4. e \notin posted /\ posted' = posted \cup {e}
  BY DEF PostEvent
<1>5. CASE e \in HighPriority
  <2>1. m_elem_deque' = <<e>> \o m_elem_deque
    BY <1>5 DEF PostEvent, Push
  <2>2. /\ InFront(m_elem_deque', k + 1)
        /\ SubSeq(m_elem_deque', 1, k + 1) = <<e>> \o SubSeq(m_elem_deque, 1, k)
        /\ SubSeq(m_elem_deque', k + 1 + 1, Len(m_elem_deque')) = SubSeq(m_elem_deque, k + 1, Len(m_elem_deque))
    BY <1>1, <1>2, <1>5, <2>1, PushedHigh
  <2>3. HighCount' = k + 1
    BY <2>2, CountInFront
  <2> QED BY <1>3, <1>4, <1>5, <2>2, <2>3 DEF Box!Post, HighsInFront
<1>6. CASE e \notin HighPriority
  <2>1. m_elem_deque' = Append(m_elem_deque, e)
    BY <1>6 DEF PostEvent, Push
  <2>2. /\ InFront(m_elem_deque', k)
        /\ SubSeq(m_elem_deque', 1, k) = SubSeq(m_elem_deque, 1, k)
        /\ SubSeq(m_elem_deque', k + 1, Len(m_elem_deque')) = Append(SubSeq(m_elem_deque, k + 1, Len(m_elem_deque)), e)
    BY <1>1, <1>2, <1>6, <2>1, PushedNormal, Zenon
  <2>3. HighCount' = k
    BY <2>2, CountInFront
  <2> QED BY <1>3, <1>4, <1>6, <2>2, <2>3 DEF Box!Post, HighsInFront
<1> QED BY <1>5, <1>6

LEMMA TakeImplements ==
  ASSUME MInv, NEW w \in Worker, NEW count, TakeFront(w, count), posted' = posted
  PROVE  HighsInFront' /\ Box!Take
<1>1. m_elem_deque \in Seq(Event) /\ m_elem_deque # <<>> /\ m_elem_deque' = Tail(m_elem_deque)
  BY DEF MInv, TypeOK, TakeFront
<1>2. PICK k : InFront(m_elem_deque, k)
  BY DEF MInv, HighsInFront
<1>3. HighCount = k /\ k \in Nat
  BY <1>1, <1>2, CountInFront DEF InFront
<1>4. CASE k > 0
  <2>1. /\ InFront(m_elem_deque', k - 1) /\ SubSeq(m_elem_deque, 1, k) # <<>>
        /\ SubSeq(m_elem_deque', 1, k - 1) = Tail(SubSeq(m_elem_deque, 1, k))
        /\ SubSeq(m_elem_deque', k - 1 + 1, Len(m_elem_deque')) = SubSeq(m_elem_deque, k + 1, Len(m_elem_deque))
    BY <1>1, <1>2, <1>4, TakenFront
  <2>2. HighCount' = k - 1
    BY <2>1, CountInFront
  <2> QED BY <1>3, <2>1, <2>2 DEF Box!Take, HighsInFront
<1>5. CASE k = 0
  <2>1. /\ InFront(m_elem_deque', 0)
        /\ SubSeq(m_elem_deque, 1, 0) = <<>> /\ SubSeq(m_elem_deque', 1, 0) = <<>>
        /\ SubSeq(m_elem_deque, 0 + 1, Len(m_elem_deque)) # <<>>
        /\ SubSeq(m_elem_deque', 0 + 1, Len(m_elem_deque')) = Tail(SubSeq(m_elem_deque, 0 + 1, Len(m_elem_deque)))
    BY <1>1, <1>2, <1>5, TakenFront
  <2>2. HighCount' = 0
    BY <2>1, CountInFront
  <2> QED BY <1>3, <1>5, <2>1, <2>2 DEF Box!Take, HighsInFront
<1> QED BY <1>3, <1>4, <1>5

\* Every step of the engine is a step of the mailbox or does not show there.
LEMMA StepImplements ==
  ASSUME MInv, [Next]_vars
  PROVE  /\ HighsInFront'
         /\ Box!MBNext \/ UNCHANGED <<SubSeq(m_elem_deque, 1, HighCount),
                                      SubSeq(m_elem_deque, HighCount + 1, Len(m_elem_deque)), posted>>
<1>1. CASE UNCHANGED <<m_elem_deque, posted>>
  BY <1>1, QuietBox DEF MInv, HighsInFront
<1>2. ASSUME NEW p \in Poster, NEW e \in Event, PostEvent(p, e) PROVE HighsInFront' /\ Box!MBNext
  BY <1>2, PostImplements DEF Box!MBNext
<1>3. ASSUME NEW w \in Worker, WorkerStep(w), ~UNCHANGED <<m_elem_deque, posted>>
      PROVE  HighsInFront' /\ Box!MBNext
  <2>1. posted' = posted
    BY <1>3 DEF WorkerStep, PopFront, Resume, pop_element, SpuriousWakeup, OnEvent
  <2>2. TakeFront(w, m_wait_count) \/ TakeFront(w, m_wait_count - 1)
    BY <1>3, <2>1 DEF WorkerStep, PopFront, Resume, pop_element, FallAsleep, SpuriousWakeup, OnEvent
  <2> QED BY <2>1, <2>2, TakeImplements DEF Box!MBNext
<1>4. ASSUME NEW p \in Poster, Notify(p) PROVE UNCHANGED <<m_elem_deque, posted>>
  BY <1>4 DEF Notify
<1>5. UNCHANGED vars => UNCHANGED <<m_elem_deque, posted>>
  BY DEF vars
<1> QED BY <1>1, <1>2, <1>3, <1>4, <1>5 DEF Next

\* The variables keep their types: m_wait_count, a size_t, never goes below zero.
THEOREM TypeCorrect == ASSUME IsFiniteSet(Worker) PROVE Spec => []TypeOK
<1>1. IInv => TypeOK
  BY DEF IInv
<1> QED BY <1>1, Invariance, PTL

\* However many workers there are, and however late their wakeups come, they take the
\* events in the order Mailbox promises, each of them once.
THEOREM Implements == ASSUME IsFiniteSet(Worker) PROVE Spec => ImplementsMailbox
<1>1. Init => HighsInFront /\ Box!MBInit
  <2> SUFFICES ASSUME Init PROVE HighsInFront /\ Box!MBInit
    OBVIOUS
  <2>1. m_elem_deque = <<>> /\ posted = {}
    BY DEF Init
  <2>2. InFront(m_elem_deque, 0)
    BY <2>1 DEF InFront
  <2>3. HighCount = 0
    BY <2>2, CountInFront
  <2> QED BY <2>1, <2>2, <2>3 DEF HighsInFront, Box!MBInit
<1>2. TypeOK /\ HighsInFront /\ [Next]_vars =>
        HighsInFront' /\ [Box!MBNext]_<<SubSeq(m_elem_deque, 1, HighCount),
                                        SubSeq(m_elem_deque, HighCount + 1, Len(m_elem_deque)), posted>>
  BY StepImplements DEF MInv
<1> QED BY <1>1, <1>2, TypeCorrect, PTL DEF Spec, ImplementsMailbox, Box!MBSpec
=============================================================================
