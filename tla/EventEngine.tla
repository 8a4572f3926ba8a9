----------------------------- MODULE EventEngine -----------------------------
(***************************************************************************)
(* EventEngine and its BlockingDeque: any number of threads post events,   *)
(* the worker threads take them one by one and handle them.                *)
(*                                                                         *)
(* Every access to the deque is made under m_mutex, so what a thread does  *)
(* between taking and leaving it is one step; the notify of a poster comes *)
(* after it has left the mutex and is a step of its own.  A worker that    *)
(* was woken must take the mutex again before it looks at the deque, and   *)
(* boost allows a wait to end without a notify.                            *)
(***************************************************************************)
EXTENDS Integers, FiniteSets, Sequences

CONSTANTS
  Worker,        \* the threads of m_thread_group
  Poster,        \* the threads that call PostEvent: workers of other engines
  Event,         \* the events; each is posted at most once
  HighPriority   \* those with EVENT_PRIORITY_HIGH

ASSUME PriorityAssumption == HighPriority \subseteq Event

VARIABLES
  m_elem_deque,
  m_wait_count,
  pc,           \* [Worker -> where it is in run, see TypeOK]
  event_vec,    \* [Worker -> the event it handles]
  need_notify,  \* [Poster -> it has pushed and will notify]
  posted,       \* the events that were posted
  handled       \* the events on_event has returned from

vars == <<m_elem_deque, m_wait_count, pc, event_vec, need_notify, posted, handled>>

Sleeping == {w \in Worker : pc[w] = "wait"}

Waiters == {w \in Worker : pc[w] \in {"wait", "woken"}}

\* m_cond.notify_one by a thread that leaves the program counters as p: some sleeping
\* thread is woken; without one nothing happens, and nothing is remembered.
notify_one(p) ==
  \/ Sleeping = {} /\ pc' = p
  \/ \E w \in Sleeping : pc' = [p EXCEPT ![w] = "woken"]

-----------------------------------------------------------------------------
\* Faulty form of NeedNotify: off by one.
NotifyMany == m_wait_count > 1

NeedNotify == m_wait_count > 0

\* Faulty form of Push: the priority is not looked at.
PushLast(e) == m_elem_deque' = Append(m_elem_deque, e)

Push(e) ==
  m_elem_deque' = IF e \in HighPriority THEN <<e>> \o m_elem_deque
                                        ELSE Append(m_elem_deque, e)

\* PushFront or PushBack, up to the end of the mutex's scope.
PostEvent(p, e) ==
  /\ ~need_notify[p]
  /\ e \notin posted
  /\ Push(e)
  /\ posted' = posted \cup {e}
  /\ need_notify' = [need_notify EXCEPT ![p] = NeedNotify]
  /\ UNCHANGED <<m_wait_count, pc, event_vec, handled>>

Notify(p) ==
  /\ need_notify[p]
  /\ need_notify' = [need_notify EXCEPT ![p] = FALSE]
  /\ notify_one(pc)
  /\ UNCHANGED <<m_elem_deque, m_wait_count, event_vec, posted, handled>>

\* pop_element finds an element; count is m_wait_count without this thread.
TakeFront(w, count) ==
  /\ m_elem_deque # <<>>
  /\ event_vec' = [event_vec EXCEPT ![w] = <<Head(m_elem_deque)>>]
  /\ m_elem_deque' = Tail(m_elem_deque)
  /\ m_wait_count' = count
  /\ IF count > 0 /\ m_elem_deque' # <<>> THEN notify_one([pc EXCEPT ![w] = "handle"])
                                          ELSE pc' = [pc EXCEPT ![w] = "handle"]

\* Faulty form of FallAsleep: the thread waits uncounted.
SleepUncounted(w, count) ==
  /\ m_elem_deque = <<>>
  /\ m_wait_count' = count
  /\ pc' = [pc EXCEPT ![w] = "wait"]
  /\ UNCHANGED <<m_elem_deque, event_vec>>

\* pop_element finds nothing and waits.
FallAsleep(w, count) ==
  /\ m_elem_deque = <<>>
  /\ m_wait_count' = count + 1
  /\ pc' = [pc EXCEPT ![w] = "wait"]
  /\ UNCHANGED <<m_elem_deque, event_vec>>

pop_element(w, count) ==
  /\ TakeFront(w, count) \/ FallAsleep(w, count)
  /\ UNCHANGED <<need_notify, posted, handled>>

\* Faulty form of Resume: m_wait_count is not counted down.
ResumeUncounted(w) == pc[w] = "woken" /\ pop_element(w, m_wait_count)

\* Faulty form of PopFront: it counts down without having waited.
PopUncounted(w) == pc[w] = "run" /\ pop_element(w, m_wait_count - 1)

PopFront(w) == pc[w] = "run" /\ pop_element(w, m_wait_count)

Resume(w) == pc[w] = "woken" /\ pop_element(w, m_wait_count - 1)

SpuriousWakeup(w) ==
  /\ pc[w] = "wait"
  /\ pc' = [pc EXCEPT ![w] = "woken"]
  /\ UNCHANGED <<m_elem_deque, m_wait_count, event_vec, need_notify, posted, handled>>

\* on_event returns for every event of event_vec, and run takes its next turn.
OnEvent(w) ==
  /\ pc[w] = "handle"
  /\ handled' = handled \cup {event_vec[w][i] : i \in DOMAIN event_vec[w]}
  /\ event_vec' = [event_vec EXCEPT ![w] = <<>>]
  /\ pc' = [pc EXCEPT ![w] = "run"]
  /\ UNCHANGED <<m_elem_deque, m_wait_count, need_notify, posted>>

-----------------------------------------------------------------------------
Init ==
  /\ m_elem_deque = <<>>
  /\ m_wait_count = 0
  /\ pc = [w \in Worker |-> "run"]
  /\ event_vec = [w \in Worker |-> <<>>]
  /\ need_notify = [p \in Poster |-> FALSE]
  /\ posted = {}
  /\ handled = {}

WorkerStep(w) == PopFront(w) \/ Resume(w) \/ SpuriousWakeup(w) \/ OnEvent(w)

Next ==
  \/ \E p \in Poster, e \in Event : PostEvent(p, e)
  \/ \E p \in Poster : Notify(p)
  \/ \E w \in Worker : WorkerStep(w)

Spec == Init /\ [][Next]_vars

\* Threads that can run do run.  Nothing is assumed of who posts, of which thread a
\* notify wakes, or of spurious wakeups.
Fairness ==
  /\ \A p \in Poster : WF_vars(Notify(p))
  /\ \A w \in Worker : WF_vars(PopFront(w) \/ Resume(w) \/ OnEvent(w))

FairSpec == Spec /\ Fairness

-----------------------------------------------------------------------------
(* Properties. *)

\* Every variable has its type.
TypeOK ==
  /\ m_elem_deque \in Seq(Event)
  /\ m_wait_count \in Nat
  /\ pc \in [Worker -> {"run", "wait", "woken", "handle"}]
  /\ event_vec \in [Worker -> Seq(Event)]
  /\ need_notify \in [Poster -> BOOLEAN]
  /\ posted \subseteq Event
  /\ handled \subseteq Event

\* m_wait_count, a size_t, counts the threads inside wait, those that were woken and
\* have not the mutex yet included; it never wraps around.
WaitersCounted == m_wait_count = Cardinality(Waiters)

\* No event lies in the deque beside a sleeping worker, unless somebody who is not busy
\* with a handler is on the way: a worker about to look, or a poster about to notify.
\* A long handler never holds up an event another worker could take.
NoEventBesideSleeper ==
  m_elem_deque # <<>> /\ Sleeping # {} =>
    \/ \E w \in Worker : pc[w] \in {"run", "woken"}
    \/ \E p \in Poster : need_notify[p]

\* Every posted event is handled.
PostedIsHandled == \A e \in Event : e \in posted ~> e \in handled

\* The engine implements Mailbox: the HIGH events are as many as there are in the deque
\* and stand in front, the NORMAL ones follow.
HighCount == Cardinality({i \in DOMAIN m_elem_deque : m_elem_deque[i] \in HighPriority})

Box == INSTANCE Mailbox WITH
  high <- SubSeq(m_elem_deque, 1, HighCount),
  normal <- SubSeq(m_elem_deque, HighCount + 1, Len(m_elem_deque))

ImplementsMailbox == Box!MBSpec
=============================================================================
