---------------------------- MODULE RWLock_proofs ----------------------------
(* For any finite set of threads: the lock excludes, its counters count and *)
(* no wakeup is lost.                                                       *)
EXTENDS RWLock, FiniteSetTheorems, TLAPS

LockInv == LockTypeOK /\ CountersCount /\ Exclusion /\ NobodySleepsBesideAFreeLock

Inside == {"reading"}
Writers == {"writing"}
RWaiting == {"rwait", "rwoken"}
WWaiting == {"wwait", "wwoken"}

Move(t, p) == at' = [at EXCEPT ![t] = p]

\* t moves to p, and of the others some that sleep are woken.
Moves(t, p) ==
  /\ at' \in [Thread -> Place] /\ at'[t] = p
  /\ \A u \in Thread \ {t} :
       \/ at'[u] = at[u]
       \/ at[u] = "rwait" /\ at'[u] = "rwoken"
       \/ at[u] = "wwait" /\ at'[u] = "wwoken"

\* The sets the lock counts, which do not tell a sleeping thread from a woken one.
Counted == {Inside, Writers, RWaiting, WWaiting}

\* The flag and the counters follow the move of t to p.
Follows(t, p) ==
  LET In(S) == (IF p \in S THEN 1 ELSE 0) - (IF at[t] \in S THEN 1 ELSE 0)
  IN /\ m_hold_flag' = m_hold_flag + In(Inside) - In(Writers)
     /\ m_read_wait_cnt' = m_read_wait_cnt + In(RWaiting)
     /\ m_write_wait_cnt' = m_write_wait_cnt + In(WWaiting)

-----------------------------------------------------------------------------
\* A thread that moves enters the sets of its new place and leaves the others.
LEMMA Moving ==
  ASSUME at \in [Thread -> Place], NEW t \in Thread, NEW p \in Place, Moves(t, p),
         NEW S \in Counted
  PROVE  Threads(S)' = IF p \in S THEN Threads(S) \cup {t} ELSE Threads(S) \ {t}
BY DEF Threads, Moves, Counted, Inside, Writers, RWaiting, WWaiting

LEMMA Finite ==
  ASSUME NEW S
  PROVE  IsFiniteSet(Threads(S)) /\ Cardinality(Threads(S)) \in Nat
         /\ (Cardinality(Threads(S)) = 0 <=> Threads(S) = {})
<1>1. Threads(S) \subseteq Thread
  BY DEF Threads
<1>2. IsFiniteSet(Threads(S))
  BY <1>1, FS_Subset, ThreadAssumption
<1> QED BY <1>2, FS_CardinalityType, FS_EmptySet

\* What a move does to the number of threads in a set of places.
LEMMA Counting ==
  ASSUME at \in [Thread -> Place], NEW t \in Thread, NEW p \in Place, Moves(t, p),
         NEW S \in Counted
  PROVE  LET n == Cardinality(Threads(S))
         IN Cardinality(Threads(S))' =
              CASE p \in S /\ at[t] \notin S -> n + 1
                [] p \notin S /\ at[t] \in S -> n - 1
                [] OTHER -> n
<1> DEFINE T == Threads(S)
<1>0. T' = IF p \in S THEN T \cup {t} ELSE T \ {t}
  BY Moving
<1>1. IsFiniteSet(T) /\ Cardinality(T) \in Nat
  BY Finite
<1>2. t \in T <=> at[t] \in S
  BY DEF Threads
<1> HIDE DEF T
<1>3. Cardinality(T \cup {t}) = IF t \in T THEN Cardinality(T) ELSE Cardinality(T) + 1
  BY <1>1, FS_AddElement
<1>4. Cardinality(T \ {t}) = IF t \in T THEN Cardinality(T) - 1 ELSE Cardinality(T)
  BY <1>1, FS_RemoveElement
<1>5. Cardinality(T)' = CASE p \in S /\ at[t] \notin S -> Cardinality(T) + 1
                          [] p \notin S /\ at[t] \in S -> Cardinality(T) - 1
                          [] OTHER -> Cardinality(T)
  <2>1. Cardinality(T)' = Cardinality(T')
    OBVIOUS
  <2> QED BY <2>1, <1>0, <1>2, <1>3, <1>4
<1> QED BY <1>5 DEF T

-----------------------------------------------------------------------------
\* What LockInv says of the thread a step moves, and of the ones it leaves alone.
LEMMA Holding ==
  ASSUME LockInv, NEW t \in Thread
  PROVE  /\ at[t] = "writing" => /\ m_hold_flag = -1 /\ Threads(Writers) = {t}
                                 /\ Threads(Inside) = {}
         /\ at[t] = "reading" => m_hold_flag > 0 /\ Threads(Writers) = {}
         /\ m_hold_flag = 0 => Threads(Writers) = {} /\ Threads(Inside) = {}
         /\ m_hold_flag >= 0 => Threads(Writers) = {}
         /\ m_hold_flag >= -1
         /\ at[t] \in RWaiting => m_read_wait_cnt > 0
         /\ at[t] \in WWaiting => m_write_wait_cnt > 0
<1> USE DEF LockInv, Inside, Writers, RWaiting, WWaiting
<1>1. Cardinality(Threads({"reading"})) \in Nat
      /\ (Cardinality(Threads({"reading"})) = 0 <=> Threads({"reading"}) = {})
  BY Finite
<1>2. Cardinality(Threads({"rwait", "rwoken"})) \in Nat
      /\ (Cardinality(Threads({"rwait", "rwoken"})) = 0 <=> Threads({"rwait", "rwoken"}) = {})
  BY Finite
<1>3. Cardinality(Threads({"wwait", "wwoken"})) \in Nat
      /\ (Cardinality(Threads({"wwait", "wwoken"})) = 0 <=> Threads({"wwait", "wwoken"}) = {})
  BY Finite
<1>4. ASSUME at[t] = "writing"
      PROVE  m_hold_flag = -1 /\ Threads(Writers) = {t} /\ Threads(Inside) = {}
  BY <1>4 DEF Exclusion, CountersCount, Threads, LockTypeOK
<1>5. ASSUME at[t] = "reading"
      PROVE  m_hold_flag > 0 /\ Threads(Writers) = {}
  <2>1. Threads(Writers) = {}
    BY <1>5 DEF Exclusion, Threads
  <2>2. t \in Threads({"reading"})
    BY <1>5 DEF Threads
  <2> QED BY <2>1, <2>2, <1>1 DEF CountersCount
<1>6. m_hold_flag >= 0 => Threads(Writers) = {}
  BY DEF CountersCount
<1>7. m_hold_flag = 0 => Threads(Inside) = {}
  BY <1>1, <1>6 DEF CountersCount
<1>8. m_hold_flag >= -1
  BY <1>1 DEF CountersCount
<1>9. at[t] \in RWaiting => m_read_wait_cnt > 0
  <2>1. at[t] \in RWaiting => t \in Threads({"rwait", "rwoken"})
    BY DEF Threads
  <2> QED BY <2>1, <1>2 DEF CountersCount
<1>10. at[t] \in WWaiting => m_write_wait_cnt > 0
  <2>1. at[t] \in WWaiting => t \in Threads({"wwait", "wwoken"})
    BY DEF Threads
  <2> QED BY <2>1, <1>3 DEF CountersCount
<1> QED BY <1>4, <1>5, <1>6, <1>7, <1>8, <1>9, <1>10

\* A move keeps LockInv when the flag and the counters follow it, nobody enters beside
\* a writer, and nobody falls asleep beside a free lock.
LEMMA MovesWell ==
  ASSUME LockInv, NEW t \in Thread, NEW p \in Place, Moves(t, p), Follows(t, p),
         p = "writing" => m_hold_flag = 0,
         p = "reading" => m_hold_flag >= 0,
         NobodySleepsBesideAFreeLock'
  PROVE  LockInv'
<1> USE DEF LockInv, Inside, Writers, RWaiting, WWaiting, Follows, Counted
<1>0. at \in [Thread -> Place] /\ LockTypeOK
  BY DEF LockTypeOK
<1>1. /\ at' \in [Thread -> Place] /\ at'[t] = p
      /\ \A u \in Thread \ {t} : \A q \in {"reading", "writing"} : at'[u] = q <=> at[u] = q
  BY DEF Moves
<1>2. Cardinality(Threads({"rwait", "rwoken"}))' = m_read_wait_cnt'
  <2>1. Cardinality(Threads({"rwait", "rwoken"})) = m_read_wait_cnt
    BY DEF CountersCount
  <2> QED BY <2>1, <1>0, Counting DEF LockTypeOK
<1>3. Cardinality(Threads({"wwait", "wwoken"}))' = m_write_wait_cnt'
  <2>1. Cardinality(Threads({"wwait", "wwoken"})) = m_write_wait_cnt
    BY DEF CountersCount
  <2> QED BY <2>1, <1>0, Counting DEF LockTypeOK
<1>4. Exclusion'
  BY <1>0, <1>1, Holding DEF Exclusion, Threads
<1>5. m_hold_flag' = IF Threads({"writing"})' # {} THEN -1
                     ELSE Cardinality(Threads({"reading"}))'
  <2>1. Threads({"writing"})' = IF p = "writing" THEN Threads({"writing"}) \cup {t}
                                ELSE Threads({"writing"}) \ {t}
    BY <1>0, Moving
  <2>2. LET n == Cardinality(Threads({"reading"}))
        IN Cardinality(Threads({"reading"}))' =
              CASE p = "reading" /\ at[t] # "reading" -> n + 1
                [] p # "reading" /\ at[t] = "reading" -> n - 1
                [] OTHER -> n
    BY <1>0, Counting
  <2>3. Cardinality(Threads({"reading"})) \in Nat
        /\ (Threads({"reading"}) = {} <=> Cardinality(Threads({"reading"})) = 0)
    BY Finite
  <2>4. m_hold_flag = IF Threads({"writing"}) # {} THEN -1
                      ELSE Cardinality(Threads({"reading"}))
    BY DEF CountersCount
  <2>5. CASE at[t] = "writing"
    <3>1. m_hold_flag = -1 /\ Threads({"writing"}) = {t} /\ Threads({"reading"}) = {}
      BY <2>5, Holding
    <3> QED BY <3>1, <2>1, <2>2, <2>3, <2>5
  <2>6. CASE at[t] # "writing" /\ p = "writing"
    <3>1. Threads({"writing"})' # {} /\ m_hold_flag = 0
      BY <2>1, <2>6
    <3>2. at[t] # "reading"
      BY <3>1, Holding
    <3> QED BY <3>1, <3>2, <2>6
  <2>7. CASE at[t] # "writing" /\ p # "writing"
    <3>1. t \notin Threads({"writing"})
      BY <2>7 DEF Threads
    <3>2. Threads({"writing"})' = Threads({"writing"})
      BY <3>1, <2>1, <2>7
    <3>3. CASE p = "reading" \/ at[t] = "reading"
      <4>1. Threads({"writing"}) = {}
        BY <3>3, Holding
      <4> QED BY <4>1, <3>2, <2>2, <2>3, <2>4, <2>7
    <3>4. CASE p # "reading" /\ at[t] # "reading"
      BY <3>2, <3>4, <2>2, <2>4, <2>7, <1>0 DEF LockTypeOK
    <3> QED BY <3>3, <3>4
  <2> QED BY <2>5, <2>6, <2>7
<1>6. LockTypeOK'
  <2>1. at[t] \in RWaiting => m_read_wait_cnt > 0
    BY Holding
  <2>2. at[t] \in WWaiting => m_write_wait_cnt > 0
    BY Holding
  <2> QED BY <2>1, <2>2, <1>0, <1>1 DEF LockTypeOK
<1> QED BY <1>2, <1>3, <1>4, <1>5, <1>6 DEF CountersCount

LEMMA MovedWell ==
  ASSUME LockInv, NEW t \in Thread, NEW p \in Place, Move(t, p), Follows(t, p),
         p = "writing" => m_hold_flag = 0,
         p = "reading" => m_hold_flag >= 0,
         NobodySleepsBesideAFreeLock'
  PROVE  LockInv'
<1>1. Moves(t, p)
  BY DEF LockInv, LockTypeOK, Move, Moves
<1> QED BY <1>1, MovesWell

-----------------------------------------------------------------------------
\* When readers wait uncounted, or nobody waits, the counters show it.
LEMMA Asleep ==
  ASSUME LockInv
  PROVE  /\ m_read_wait_cnt = 0 => Threads({"rwait"}) = {}
         /\ m_write_wait_cnt = 0 => Threads({"wwait"}) = {} /\ Threads({"wwoken"}) = {}
<1>1. Cardinality(Threads({"rwait", "rwoken"})) = 0 => Threads({"rwait", "rwoken"}) = {}
  BY Finite
<1>2. Cardinality(Threads({"wwait", "wwoken"})) = 0 => Threads({"wwait", "wwoken"}) = {}
  BY Finite
<1> QED BY <1>1, <1>2 DEF LockInv, CountersCount, Threads

LEMMA LockInitial == LockInit => LockInv
<1> SUFFICES ASSUME LockInit PROVE LockInv
  OBVIOUS
<1> USE DEF LockInit
<1>1. \A S : S \subseteq Place \ {"out"} => Threads(S) = {}
  BY DEF Threads, Place
<1>2. Cardinality({}) = 0
  BY FS_EmptySet
<1>3. Threads({"reading"}) = {} /\ Threads({"writing"}) = {} /\ Threads({"rwait", "rwoken"}) = {}
      /\ Threads({"wwait", "wwoken"}) = {} /\ Threads({"rwait"}) = {} /\ Threads({"wwait"}) = {}
  BY DEF Threads
<1> QED BY <1>2, <1>3 DEF LockInv, LockTypeOK, CountersCount, Exclusion, Place,
                          NobodySleepsBesideAFreeLock

LEMMA ReadLockStep == ASSUME LockInv, NEW t \in Thread, ReadLock(t) PROVE LockInv'
<1> USE DEF Place, Inside, Writers, RWaiting, WWaiting, Follows
<1>0. /\ at \in [Thread -> Place] /\ at[t] = "out"
      /\ m_hold_flag \in Int /\ m_read_wait_cnt \in Nat /\ m_write_wait_cnt \in Nat
  BY DEF LockInv, LockTypeOK, ReadLock
<1>1. CASE Move(t, "reading")
  <2>1. MayRead /\ m_hold_flag' = m_hold_flag + 1 /\ UNCHANGED <<m_read_wait_cnt, m_write_wait_cnt>>
    BY <1>0, <1>1 DEF ReadLock, Move
  <2>2. NobodySleepsBesideAFreeLock'
    BY <1>0, <1>1, <2>1, Asleep DEF LockInv, NobodySleepsBesideAFreeLock, Threads, Move, MayRead
  <2> QED BY <1>0, <1>1, <2>1, <2>2, MovedWell DEF MayRead, ReadLock
<1>2. CASE Move(t, "rwait")
  <2>1. ~MayRead /\ m_read_wait_cnt' = m_read_wait_cnt + 1 /\ UNCHANGED <<m_hold_flag, m_write_wait_cnt>>
    BY <1>0, <1>2 DEF ReadLock, Move
  <2>2. NobodySleepsBesideAFreeLock'
    BY <1>0, <1>2, <2>1 DEF LockInv, NobodySleepsBesideAFreeLock, Threads, Move, MayRead
  <2> QED BY <1>0, <1>2, <2>1, <2>2, MovedWell DEF ReadLock
<1> QED BY <1>1, <1>2 DEF ReadLock, Move

LEMMA ReadRetestStep == ASSUME LockInv, NEW t \in Thread, ReadRetest(t) PROVE LockInv'
<1> USE DEF Place, Inside, Writers, RWaiting, WWaiting, Follows
<1>0. /\ at \in [Thread -> Place] /\ at[t] = "rwoken"
      /\ m_hold_flag \in Int /\ m_read_wait_cnt \in Nat /\ m_write_wait_cnt \in Nat
  BY DEF LockInv, LockTypeOK, ReadRetest
<1>1. CASE Move(t, "reading")
  <2>1. MayRead /\ m_hold_flag' = m_hold_flag + 1 /\ m_read_wait_cnt' = m_read_wait_cnt - 1
        /\ m_write_wait_cnt' = m_write_wait_cnt
    BY <1>0, <1>1 DEF ReadRetest, Move
  <2>2. NobodySleepsBesideAFreeLock'
    BY <1>0, <1>1, <2>1, Asleep DEF LockInv, NobodySleepsBesideAFreeLock, Threads, Move, MayRead
  <2> QED BY <1>0, <1>1, <2>1, <2>2, MovedWell DEF MayRead
<1>2. CASE Move(t, "rwait")
  <2>1. ~MayRead /\ UNCHANGED <<m_hold_flag, m_read_wait_cnt, m_write_wait_cnt>>
    BY <1>0, <1>2 DEF ReadRetest, Move
  <2>2. NobodySleepsBesideAFreeLock'
    BY <1>0, <1>2, <2>1 DEF LockInv, NobodySleepsBesideAFreeLock, Threads, Move, MayRead
  <2> QED BY <1>0, <1>2, <2>1, <2>2, MovedWell
<1> QED BY <1>1, <1>2 DEF ReadRetest, Move

LEMMA WriteLockStep == ASSUME LockInv, NEW t \in Thread, WriteLock(t) PROVE LockInv'
<1> USE DEF Place, Inside, Writers, RWaiting, WWaiting, Follows
<1>0. /\ at \in [Thread -> Place] /\ at[t] = "out"
      /\ m_hold_flag \in Int /\ m_read_wait_cnt \in Nat /\ m_write_wait_cnt \in Nat
  BY DEF LockInv, LockTypeOK, WriteLock
<1>1. CASE Move(t, "writing")
  <2>1. MayWrite /\ m_hold_flag' = m_hold_flag - 1 /\ UNCHANGED <<m_read_wait_cnt, m_write_wait_cnt>>
    BY <1>0, <1>1 DEF WriteLock, Move
  <2>2. NobodySleepsBesideAFreeLock'
    BY <1>0, <1>1, <2>1 DEF LockInv, NobodySleepsBesideAFreeLock, Threads, Move, MayWrite
  <2> QED BY <1>0, <1>1, <2>1, <2>2, MovedWell DEF MayWrite
<1>2. CASE Move(t, "wwait")
  <2>1. ~MayWrite /\ m_write_wait_cnt' = m_write_wait_cnt + 1 /\ UNCHANGED <<m_hold_flag, m_read_wait_cnt>>
    BY <1>0, <1>2 DEF WriteLock, Move
  <2>2. NobodySleepsBesideAFreeLock'
    BY <1>0, <1>2, <2>1 DEF LockInv, NobodySleepsBesideAFreeLock, Threads, Move, MayWrite
  <2> QED BY <1>0, <1>2, <2>1, <2>2, MovedWell
<1> QED BY <1>1, <1>2 DEF WriteLock, Move

LEMMA WriteRetestStep == ASSUME LockInv, NEW t \in Thread, WriteRetest(t) PROVE LockInv'
<1> USE DEF Place, Inside, Writers, RWaiting, WWaiting, Follows
<1>0. /\ at \in [Thread -> Place] /\ at[t] = "wwoken"
      /\ m_hold_flag \in Int /\ m_read_wait_cnt \in Nat /\ m_write_wait_cnt \in Nat
  BY DEF LockInv, LockTypeOK, WriteRetest
<1>1. CASE Move(t, "writing")
  <2>1. MayWrite /\ m_hold_flag' = m_hold_flag - 1 /\ m_write_wait_cnt' = m_write_wait_cnt - 1
        /\ m_read_wait_cnt' = m_read_wait_cnt
    BY <1>0, <1>1 DEF WriteRetest, Move
  <2>2. NobodySleepsBesideAFreeLock'
    BY <1>0, <1>1, <2>1 DEF LockInv, NobodySleepsBesideAFreeLock, Threads, Move, MayWrite
  <2> QED BY <1>0, <1>1, <2>1, <2>2, MovedWell DEF MayWrite
<1>2. CASE Move(t, "wwait")
  <2>1. ~MayWrite /\ UNCHANGED <<m_hold_flag, m_read_wait_cnt, m_write_wait_cnt>>
    BY <1>0, <1>2 DEF WriteRetest, Move
  <2>2. NobodySleepsBesideAFreeLock'
    BY <1>0, <1>2, <2>1 DEF LockInv, NobodySleepsBesideAFreeLock, Threads, Move, MayWrite
  <2> QED BY <1>0, <1>2, <2>1, <2>2, MovedWell
<1> QED BY <1>1, <1>2 DEF WriteRetest, Move

LEMMA WakeUpStep == ASSUME LockInv, NEW t \in Thread, SpuriousWakeup(t) PROVE LockInv'
<1> USE DEF Place, Inside, Writers, RWaiting, WWaiting, Follows
<1>0. /\ at \in [Thread -> Place] /\ UNCHANGED <<m_hold_flag, m_read_wait_cnt, m_write_wait_cnt>>
      /\ m_hold_flag \in Int /\ m_read_wait_cnt \in Nat /\ m_write_wait_cnt \in Nat
  BY DEF LockInv, LockTypeOK, SpuriousWakeup
<1>1. CASE at[t] = "rwait" /\ Move(t, "rwoken")
  <2>1. NobodySleepsBesideAFreeLock'
    BY <1>0, <1>1 DEF LockInv, NobodySleepsBesideAFreeLock, Threads, Move
  <2> QED BY <1>0, <1>1, <2>1, MovedWell
<1>2. CASE at[t] = "wwait" /\ Move(t, "wwoken")
  <2>1. NobodySleepsBesideAFreeLock'
    BY <1>0, <1>2 DEF LockInv, NobodySleepsBesideAFreeLock, Threads, Move
  <2> QED BY <1>0, <1>2, <2>1, MovedWell
<1> QED BY <1>1, <1>2 DEF SpuriousWakeup, Move

\* An unlock: readers leave with the flag one lower, the writer one higher.
LEMMA LeaveStep ==
  ASSUME LockInv, NEW t \in Thread, NEW hold, Leave(t, hold),
         \/ at[t] = "reading" /\ hold = m_hold_flag - 1
         \/ at[t] = "writing" /\ hold = m_hold_flag + 1
  PROVE  LockInv'
<1> USE DEF Place, Inside, Writers, RWaiting, WWaiting, Follows
<1>0. /\ at \in [Thread -> Place] /\ hold \in Int
      /\ m_hold_flag \in Int /\ m_read_wait_cnt \in Nat /\ m_write_wait_cnt \in Nat
      /\ m_hold_flag' = hold /\ UNCHANGED <<m_read_wait_cnt, m_write_wait_cnt>>
  BY DEF LockInv, LockTypeOK, Leave
<1>1. Follows(t, "out")
  BY <1>0
<1>2. hold >= 0
  BY <1>0, Holding
<1>3. SUFFICES Moves(t, "out") /\ NobodySleepsBesideAFreeLock'
  BY <1>1, <1>3, MovesWell
<1>4. CASE hold = 0 /\ m_write_wait_cnt > 0 /\ NotifyOneWriter(t)
  <2>1. CASE \E w \in Threads({"wwait"}) : at' = [at EXCEPT ![t] = "out", ![w] = "wwoken"]
    <3> PICK w \in Threads({"wwait"}) : at' = [at EXCEPT ![t] = "out", ![w] = "wwoken"]
      BY <2>1
    <3>1. w \in Thread /\ at[w] = "wwait" /\ w # t
      BY DEF Threads
    <3>2. w \in Threads({"wwoken"})'
      BY <1>0, <3>1 DEF Threads
    <3> QED BY <1>0, <1>4, <3>1, <3>2 DEF Moves, NobodySleepsBesideAFreeLock
  <2>2. CASE Threads({"wwait"}) = {} /\ at' = [at EXCEPT ![t] = "out"]
    BY <1>0, <1>4, <2>2 DEF Moves, NobodySleepsBesideAFreeLock, Threads
  <2> QED BY <1>4, <2>1, <2>2 DEF NotifyOneWriter
<1>5. CASE m_write_wait_cnt = 0 /\ NotifyAllReaders(t)
  <2>1. Threads({"wwait"}) = {}
    BY <1>5, Asleep
  <2> QED BY <1>0, <1>5, <2>1 DEF NotifyAllReaders, Moves, NobodySleepsBesideAFreeLock, Threads
<1>6. CASE /\ at' = [at EXCEPT ![t] = "out"]
           /\ ~(hold = 0 /\ m_write_wait_cnt > 0)
           /\ ~(hold >= 0 /\ m_write_wait_cnt = 0 /\ m_read_wait_cnt > 0)
  <2>1. m_write_wait_cnt = 0 => Threads({"rwait"}) = {} /\ Threads({"wwait"}) = {}
    BY <1>0, <1>2, <1>6, Asleep
  <2> QED BY <1>0, <1>2, <1>6, <2>1 DEF Moves, NobodySleepsBesideAFreeLock, Threads
<1> QED BY <1>4, <1>5, <1>6 DEF Leave

\* Every step of the lock keeps LockInv.
LEMMA LockStep == LockInv /\ [LockNext]_lockvars => LockInv'
<1> SUFFICES ASSUME LockInv, [LockNext]_lockvars PROVE LockInv'
  OBVIOUS
<1>1. CASE UNCHANGED lockvars
  BY <1>1 DEF lockvars, LockInv, LockTypeOK, CountersCount, Exclusion,
              NobodySleepsBesideAFreeLock, Threads
<1>2. ASSUME NEW t \in Thread, ReadUnlock(t) \/ WriteUnlock(t)
      PROVE  LockInv'
  BY <1>2, LeaveStep DEF ReadUnlock, WriteUnlock
<1> QED BY <1>1, <1>2, ReadLockStep, ReadRetestStep, WriteLockStep, WriteRetestStep, WakeUpStep
        DEF LockNext

-----------------------------------------------------------------------------
\* The inductive invariant of the lock (Common/RWLock.cc).
THEOREM LockInvariance == LockSpec => []LockInv
<1> QED BY LockInitial, LockStep, PTL DEF LockSpec

\* A writer is alone inside, whatever the number of threads (ReadLock, WriteLock).
THEOREM LockExcludes == LockSpec => []Exclusion
<1>1. LockInv => Exclusion
  BY DEF LockInv
<1> QED BY <1>1, LockInvariance, PTL

\* No wakeup is lost (ReadUnlock, WriteUnlock).
THEOREM NoWakeupIsLost == LockSpec => []NobodySleepsBesideAFreeLock
<1>1. LockInv => NobodySleepsBesideAFreeLock
  BY DEF LockInv
<1> QED BY <1>1, LockInvariance, PTL
=============================================================================
