------------------------------- MODULE RWLock -------------------------------
(* The lock of Common/RWLock.cc that prefers writers. Every method holds    *)
(* m_mutex from its first to its last statement except inside a wait, so a  *)
(* method is one step up to its return or its wait, and every look at the   *)
(* condition after a wait is one more.                                      *)
EXTENDS Integers, FiniteSets

CONSTANT Thread

ASSUME ThreadAssumption == IsFiniteSet(Thread)

VARIABLES
  m_hold_flag,       \* readers inside, or -1 for a writer
  m_read_wait_cnt,
  m_write_wait_cnt,
  at                 \* where each thread is

lockvars == <<m_hold_flag, m_read_wait_cnt, m_write_wait_cnt, at>>

\* A waiting thread sleeps on its condition variable until it is woken, and
\* looks at the condition again when it has m_mutex back.
Place == {"out", "rwait", "rwoken", "reading", "wwait", "wwoken", "writing"}

Threads(places) == {t \in Thread : at[t] \in places}
InMethod(t) == at[t] \in {"rwait", "rwoken", "wwait", "wwoken"}

LockInit ==
  /\ m_hold_flag = 0 /\ m_read_wait_cnt = 0 /\ m_write_wait_cnt = 0
  /\ at = [t \in Thread |-> "out"]

MayRead == m_hold_flag >= 0 /\ m_write_wait_cnt = 0
MayWrite == m_hold_flag = 0

\* Mutant: a reader waits without counting itself.
WaitUncounted(t) ==
  /\ at[t] = "out"
  /\ UNCHANGED <<m_write_wait_cnt, m_read_wait_cnt>>
  /\ \/ /\ MayRead
        /\ m_hold_flag' = m_hold_flag + 1
        /\ at' = [at EXCEPT ![t] = "reading"]
     \/ /\ ~MayRead
        /\ at' = [at EXCEPT ![t] = "rwait"]
        /\ UNCHANGED m_hold_flag

ReadLock(t) ==
  /\ at[t] = "out"
  /\ UNCHANGED m_write_wait_cnt
  /\ \/ /\ MayRead
        /\ m_hold_flag' = m_hold_flag + 1
        /\ at' = [at EXCEPT ![t] = "reading"]
        /\ UNCHANGED m_read_wait_cnt
     \/ /\ ~MayRead
        /\ m_read_wait_cnt' = m_read_wait_cnt + 1
        /\ at' = [at EXCEPT ![t] = "rwait"]
        /\ UNCHANGED m_hold_flag

\* The loop of ReadLock after its wait.
ReadRetest(t) ==
  /\ at[t] = "rwoken"
  /\ UNCHANGED m_write_wait_cnt
  /\ \/ /\ MayRead
        /\ m_hold_flag' = m_hold_flag + 1
        /\ m_read_wait_cnt' = m_read_wait_cnt - 1
        /\ at' = [at EXCEPT ![t] = "reading"]
     \/ /\ ~MayRead
        /\ at' = [at EXCEPT ![t] = "rwait"]
        /\ UNCHANGED <<m_hold_flag, m_read_wait_cnt>>

WriteLock(t) ==
  /\ at[t] = "out"
  /\ UNCHANGED m_read_wait_cnt
  /\ \/ /\ MayWrite
        /\ m_hold_flag' = m_hold_flag - 1
        /\ at' = [at EXCEPT ![t] = "writing"]
        /\ UNCHANGED m_write_wait_cnt
     \/ /\ ~MayWrite
        /\ m_write_wait_cnt' = m_write_wait_cnt + 1
        /\ at' = [at EXCEPT ![t] = "wwait"]
        /\ UNCHANGED m_hold_flag

\* Mutant: an if where the wait needs a while.
TakeWithoutLooking(t) ==
  /\ at[t] = "wwoken"
  /\ m_hold_flag' = m_hold_flag - 1
  /\ m_write_wait_cnt' = m_write_wait_cnt - 1
  /\ at' = [at EXCEPT ![t] = "writing"]
  /\ UNCHANGED m_read_wait_cnt

WriteRetest(t) ==
  /\ at[t] = "wwoken"
  /\ UNCHANGED m_read_wait_cnt
  /\ \/ /\ MayWrite
        /\ m_hold_flag' = m_hold_flag - 1
        /\ m_write_wait_cnt' = m_write_wait_cnt - 1
        /\ at' = [at EXCEPT ![t] = "writing"]
     \/ /\ ~MayWrite
        /\ at' = [at EXCEPT ![t] = "wwait"]
        /\ UNCHANGED <<m_hold_flag, m_write_wait_cnt>>

\* notify_one wakes one thread asleep on m_write_cond, if there is one.
NotifyOneWriter(t) ==
  \/ \E w \in Threads({"wwait"}) :
       at' = [at EXCEPT ![t] = "out", ![w] = "wwoken"]
  \/ /\ Threads({"wwait"}) = {}
     /\ at' = [at EXCEPT ![t] = "out"]

\* Mutant: notify_one where notify_all is needed.
NotifyOneReader(t) ==
  \/ \E r \in Threads({"rwait"}) :
       at' = [at EXCEPT ![t] = "out", ![r] = "rwoken"]
  \/ /\ Threads({"rwait"}) = {}
     /\ at' = [at EXCEPT ![t] = "out"]

NotifyAllReaders(t) ==
  at' = [u \in Thread |-> IF u = t THEN "out"
                          ELSE IF at[u] = "rwait" THEN "rwoken" ELSE at[u]]

\* Mutant: waiting readers are woken before waiting writers.
LeaveToReaders(t, hold) ==
  /\ m_hold_flag' = hold
  /\ UNCHANGED <<m_read_wait_cnt, m_write_wait_cnt>>
  /\ \/ /\ m_read_wait_cnt > 0
        /\ NotifyAllReaders(t)
     \/ /\ m_read_wait_cnt = 0 /\ hold = 0 /\ m_write_wait_cnt > 0
        /\ NotifyOneWriter(t)
     \/ /\ m_read_wait_cnt = 0 /\ ~(hold = 0 /\ m_write_wait_cnt > 0)
        /\ at' = [at EXCEPT ![t] = "out"]

\* Whom an unlock that leaves hold wakes, and t leaves.
Leave(t, hold) ==
  /\ m_hold_flag' = hold
  /\ UNCHANGED <<m_read_wait_cnt, m_write_wait_cnt>>
  /\ \/ /\ hold = 0 /\ m_write_wait_cnt > 0
        /\ NotifyOneWriter(t)
     \/ /\ hold >= 0 /\ m_write_wait_cnt = 0 /\ m_read_wait_cnt > 0
        /\ NotifyAllReaders(t)
     \/ /\ ~(hold = 0 /\ m_write_wait_cnt > 0)
        /\ ~(hold >= 0 /\ m_write_wait_cnt = 0 /\ m_read_wait_cnt > 0)
        /\ at' = [at EXCEPT ![t] = "out"]

ReadUnlock(t) == at[t] = "reading" /\ Leave(t, m_hold_flag - 1)
WriteUnlock(t) == at[t] = "writing" /\ Leave(t, m_hold_flag + 1)

\* A condition variable may wake a thread nobody notified.
SpuriousWakeup(t) ==
  /\ \/ at[t] = "rwait" /\ at' = [at EXCEPT ![t] = "rwoken"]
     \/ at[t] = "wwait" /\ at' = [at EXCEPT ![t] = "wwoken"]
  /\ UNCHANGED <<m_hold_flag, m_read_wait_cnt, m_write_wait_cnt>>

LockNext ==
  \E t \in Thread :
    \/ ReadLock(t) \/ ReadRetest(t) \/ ReadUnlock(t)
    \/ WriteLock(t) \/ WriteRetest(t) \/ WriteUnlock(t)
    \/ SpuriousWakeup(t)

LockSpec == LockInit /\ [][LockNext]_lockvars

-----------------------------------------------------------------------------
LockTypeOK ==
  /\ m_hold_flag \in Int /\ m_read_wait_cnt \in Nat /\ m_write_wait_cnt \in Nat
  /\ at \in [Thread -> Place]

\* A writer is alone inside: neither a reader nor a second writer is with it
\* (ReadLock, WriteLock and their loops after a wait).
Exclusion ==
  \A t, u \in Thread : at[t] = "writing" /\ u # t => at[u] \notin {"reading", "writing"}

\* The counters count: m_hold_flag the threads inside, the others those in a wait.
CountersCount ==
  /\ m_hold_flag = IF Threads({"writing"}) # {} THEN -1 ELSE Cardinality(Threads({"reading"}))
  /\ m_read_wait_cnt = Cardinality(Threads({"rwait", "rwoken"}))
  /\ m_write_wait_cnt = Cardinality(Threads({"wwait", "wwoken"}))

\* No wakeup is lost: a reader sleeps only while a writer is inside or waits, and
\* a writer sleeps beside a free lock only if another writer is on its way to it.
NobodySleepsBesideAFreeLock ==
  /\ Threads({"rwait"}) # {} => m_hold_flag < 0 \/ m_write_wait_cnt > 0
  /\ Threads({"wwait"}) # {} => m_hold_flag # 0 \/ Threads({"wwoken"}) # {}
=============================================================================
