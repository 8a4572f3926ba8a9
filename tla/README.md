# Formal models of the translation server

TLA+ models of the server in `src/src`: a C++ program that takes texts from
users, cuts them into sentences, has the sentences translated by external
*slaves* and puts the results together again. TLC checks the models on small
instances; TLAPS proves some of the results for every value of the constants.
Line numbers are those of the files under `src/src`.

| module | what it is |
| --- | --- |
| `TransController` | the dispatcher: texts, users, slaves, sessions |
| `TextService` | what the dispatcher promises to a submitter; `TransController` implements it |
| `TransRoundRobin` | the dispatcher with a history variable: who is given tasks while another user waits |
| `MCTransController`, `MCTransRoundRobin` | instances of the two for TLC |
| `TransController_proofs` | types; no slot of a slave leaks; no idle slave beside a ready cell; nobody overtaken twice |
| `TransService_proofs` | bookkeeping, one place per cell, results fit, pending texts scheduled; the refinement of `TextService` |
| `TimeQueue` | heartbeats and timeouts of the slaves, on the pointers of the list |
| `SlaveRegistry` | what they amount to; `TimeQueue` implements it |
| `TimeQueue_proofs` | the pointers form one ordered list that matches the maps; the refinement of `SlaveRegistry` |
| `EventEngine` | event queue and worker threads |
| `Mailbox` | what an engine promises to posters; `EventEngine` implements it |
| `EventEngine_proofs` | types, no lost wakeup, exact wait count; the refinement of `Mailbox` |
| `OltTaskManager`, `MCOltTaskManager` | the stages of an offline text |
| `OltService` | what a text's row and its end amount to; `OltTaskManager` implements it |
| `OltTaskManager_proofs` | its maps, messages and texts; the refinement of `OltService` |
| `NetDriver` | sockets: accept, receive, send, close |
| `UsrSessManager` | sessions of users and the real time process, on `NetDriver` |
| `ReplyService` | what a peer sees of the server; `UsrSessManager` implements it |
| `UsrSessManager_proofs` | its sessions, sockets and texts; the refinement of `ReplyService` |
| `RWLock` | the lock that prefers writers |
| `AfterTreatManager`, `MCAfterTreatManager` | after-treatment dictionaries in memory and in the database, under `RWLock` |
| `RWLock_proofs` | exclusion and no lost wakeup |
| `AfterTreatManager_proofs` | the same around the dictionaries; types; memory and database agree |

## 1. Inventory

### How the parts interact

Nearly every component is a singleton derived from `EventEngine`: a blocking
deque of events and one or more worker threads that take an event and run
`on_event`. Components share almost no memory. They call each other by posting
an event that carries a call id and a pointer to the caller, and are answered by
an event with that call id. One-worker engines (both `TransController`s,
`OltTaskManager`, the session managers; `EventEngine.cc:61` asserts it for
whoever generates call ids) need no lock for their own state. The exceptions to
message passing are the dictionaries, templates and after-treatment tables,
which any thread reads under an `RWLock`, and the pool of database connections.

    user --TCP-- NetDriver -- UsrSessManager -- RttTransProcess -- LTransTextProcessor
                    |               |                 |-- PreProcessor, PostProcessor
                    |               |                 `-- TransController (RTT) -- slaves
                    |               `-- OltTransProcess -- OltTaskManager
                    |                                       |-- TextHandler, Pre-, PostProcessor
                    |                                       `-- TransController (OLT) -- slaves
                    `-- SerSessManager -- PulseProcess (heartbeats) --> both TransControllers
                                        `-- TransControlProcess ------> OLT TransController
    CTimer --30 s, HIGH--> both TransControllers

### Components

| component | state | operations | what is hard | what makes it correct |
| --- | --- | --- | --- | --- |
| **TransController** (`TransController/`) | per domain a `TransCore`: slaves, list of UCBs (users) with lists of text blocks; per call id a session | heartbeat, timer, submit, suspend, rerun, cancel; connect/send/receive/close of a session | results that come after a cancel, a timeout or a re-registration; lookups repeated by id; the round robin | every cell in one place; one answer per text; slots do not leak; no idle slave beside waiting cells; users are not starved |
| **TimeQueue** (`Timer/TimeQueue.h`) | list ordered by time stamp, map beside it | Append, Remove, Refresh, Check | nodes cut off and still in the map; wall clock | a slave is dropped when overdue and not before |
| **EventEngine**, **BlockingDeque** | deque, mutex, condition, wait count | PostEvent, PopFront, run | notifies after the unlock, several workers, spurious wakeups | no lost wakeup; each event handled once; priorities |
| **OltTaskManager** | transactions by call id, text id to call id | submit, five stages, success, error | answers in the wrong stage, duplicate ids, missing returns | each accepted text ends once; the two maps agree |
| **UsrSessManager**, **SerSessManager**, **CProcess** | sessions by call id, one process in each | new socket, receive, process, send, close | peer closes while a process runs; answers without a session | one answer per request, every session and socket is given back |
| **NetDriver** | sockets by id, asynchronous operations | listen, connect, send, receive, close, completions | completion races close; recycled ids; missing or wrong answers | one answer per request; no handler after delete |
| **CTimer** | registered engines | alarm every 30 s | HIGH events overtake | - |
| **PreProcessor**, **PostProcessor**, **TextHandler**, **LTransTextProcessor**, **GeneralOperation** | none between events | one request, one answer | - | every request answered |
| **RWLock** | hold flag, two wait counts, two conditions | lock, unlock | whom to wake; writer preference | exclusion, no lost wakeup |
| **DictLibrary**, **TemplateLibrary**, **AfterTreatment** | maps of dictionaries, words, index | create, modify, delete, match | memory changed under the lock, database after it | the maps agree; memory equals database |
| **DBConnPool** | deque of connections | Runable | all connections held | a connection is always given back |
| **SipRPC**, **Log**, **Configurator**, conversions, `LanguageTools`, TinyXml, json | - | - | - | - |

`PROJECT.json` lists all of them under `components` with the reason for those
that are not modelled, and under `hazards` what is hard to test in the code, at
its line, with the properties that watch over it.

## 2. The dispatcher

### `TransController`

One instance (`TransType` RTT or OLT). Its handlers run one at a time, so an
action is a handler, with one exception: the loop of `GetReadyTask` at the end of
nearly every handler is taken one task per step. `ready_core` names the core the
loop runs for; while it is set no other handler starts.

| code | model |
| --- | --- |
| `m_domaintype` (`TransController.cc:205`) | `domaintype` |
| `TransCore::m_slave_map` of all cores, `TransSlave::m_idel_num` | `slave_map`, `idel_num` |
| `TransCore::m_usr_list` | `usr_list[d]`; a UCB is named by the text it was made for, so a UCB that left the list keeps its identity for the tasks that point to it |
| `UsrControlBlock::m_text_block_list` | `text_block_list[u]` |
| `TextBlock`: state, `m_untrans_idx_set` | `text_state`, `untrans_idx_set` |
| translated cells of a `TransText` | `is_trans` |
| `TransResult` events | `answer` |
| `m_trans_sess_map` | `trans_sess_map` |
| `on_slave_pluse` .. `on_close_sock` | actions of the same names |

`Slave` is a set of `TransSlave` *objects*. Several may have one uuid, one after
the other, because the code deletes by uuid (`TransCore.cc:109`) what may be a
newer object than the one a task holds. Likewise `Text` is a set of objects and
`TextID` may give two of them one id.

Left out: the reports to the database (written, never read here), `GetTransSent`
(reads only), the licence counter of `ENABLE_SOFT_PROTECT`, the loop that retries
a `Connect` that fails locally (see the hazards), and the order of the slave map,
which is by random uuid: any idle slave may be taken. Events may arrive in any
order; that includes the orders the HIGH priority causes.

### Runs

| run | instance | shows |
| --- | --- | --- |
| `dispatch_olt` | 1 user, texts of 2 and 1 cells, 3 slaves of one slot (two objects of one uuid), suspend, rerun, cancel | types, slots, bookkeeping, one place per cell, pending texts are scheduled, no idle slave beside a ready cell, refinement of `TextService` |
| `dispatch_rtt_live` | texts of 0, 2 and 1 cells, one slave, fairness | every accepted text is answered with a success |
| `dispatch_round_robin` | RTT, 3 users, 2 domains with 2 slaves and 1, heartbeats move `m_domaintype` | while a user waits in a core no other user of it gets two tasks; no idle slave beside a ready cell |
| `dispatch_same_id` | two texts with one id | **violation** of `ResultFitsBlock` |
| `dispatch_lost_text` | cancel with tasks running | **violation** of `ReturnedCellIsReachable` |

What the two violations say of the code (details under `findings`):

1. *Same id.* A task's result is stored in whatever block has the task's text
   id now (`UsrControlBlock.cc:132`). Cancel a text and submit a shorter one with
   the same id while a cell is at a slave: `TransText.cc:104` asserts. With unique ids
   it never does (`ResultsFit`).
2. *Lost text.* When a task ends on a UCB that is empty, `SuccessTask`
   (`TransCore.cc:240`) erases *the* UCB of that user from the list, also when
   that is a newer one holding pending texts. Needs a cancel, so only the OLT
   instance is exposed; `PendingIsScheduled` says that without one nothing is lost, and
   `NothingLostInRTT` that the RTT instance never loses a cell.

Two remarks that need no run. `on_trans_submit` and the control requests use the
domain of the latest heartbeat (`m_domaintype`), while the comments at
`TransController.cc:253`, `297`, `343` and `383` say they look the core up by domain:
with two domains in one instance a text may be put beside slaves of another domain,
and a cancel may not find it. `MAX_TRANS_TIMES_PER_SENT` (`TransController.h:28`) is
defined and never used: a cell that its slave refuses is tried for ever.

### Bounds, and why they are enough

Call ids are reused once their session is gone, and there are enough of them
(slots plus `MaxClosing`) that `call_slave_for_trans` never lacks one: the runs
check deadlock with everything done still leaving heartbeats possible, and
`NoIdleSlaveWithReadyCell` would fail if the loop got stuck. `MaxClosing = 1`
bounds the sessions that only wait for the confirmation of a close; they hold
nothing. Two cells in one text and a second text are what it takes for results
of one text to interleave, for a UCB to be emptied and refilled, and for the
rotation inside a UCB to matter; two objects with one uuid for a slave that comes
back; three users for one being overtaken while two compete, and a second domain for
their texts to be spread over two cores. Symmetry is used in safety runs only, over
call ids and the two objects of one uuid.

### Fairness

`dispatch_rtt_live` assumes of the program that its worker runs (`GetReadyTask`
is weakly fair; strong fairness of closing stands for the driver answering a
close among other events). Of the outside world it assumes that slaves of every
domain keep sending heartbeats and that a cell tried again and again is not
refused for ever. The code justifies no more: it has no timeout on a request and
no limit of retries. Nothing is assumed of failures and timer events: any number
may happen. `dispatch_round_robin` needs no fairness, it is an invariant.

### Proofs

`TransController_proofs` assumes nothing of the ids. It proves for all constants:

- `TypeCorrect`, in particular that `m_idel_num` never goes below zero, the assertion of
  `ReduceIdelNum`; and, for finitely many call ids, `SlotsNeverLeak`: free slots plus
  tasks under way are `concurrent_num`. The latter is inductive given the types because a
  slave object that is not registered takes no task, and registers only when none of its
  tasks is left (a new `TransSlave` has none).
- `NoSlaveIdles` (`NoIdleSlaveWithReadyCell`). The inductive invariant is

      ListInv == TypeOK /\ Held /\ NobodyWaits

  `NobodyWaits` says that only the core the loop of `GetReadyTask` runs for has a task to
  hand out. A heartbeat, an ended task, a submit and a rerun are the steps that make a
  core ready, and each of them starts that loop; the proof goes through every other step
  to show that it makes no core ready. `Held` is what that needs to know of the data:
  a block is in one UCB, once, and its text is pending (`BlocksHeld`), unmade UCBs are
  empty (`UcbsHeld`), a listed UCB is listed once and in one core (`ListsHeld`), a task
  works for the core of its slave (`TasksAtHome`), and blocks and tasks are in UCBs of
  their own user (`OwnersHeld`). The last three are why the lookups by user id and the
  loop for the slave's core look at the right list.
- `NobodyStarves` (`NobodyIsOvertakenTwice` of `TransRoundRobin`). The count alone is not
  inductive; `Rounds` relates it to the positions in `m_usr_list`: a user who was given a
  task while another one waited is *behind* that one in the list (`Ordered`) until the
  other gets one too. `GetReadyTask` moves everybody up to the one it serves to the end, in
  order, and serves the first with a ready cell, so one that waits with a ready cell is not
  among those moved, and one behind it is not the one served (`RotateOrder`); erasing a
  UCB keeps the order of the rest and a new UCB comes last (`RemoveAtOrder`,
  `AppendOrder`). That a UCB is listed once and in one core is `ListInv`, so the
  theorem holds for any interleaving of submits, cancels, failures and lost heartbeats.

`TransService_proofs` proves the rest under `OwnTextIDs`: no user has two texts with one
id (what other users call theirs does not matter, because every lookup by text id is in
the UCB of one user). Run `dispatch_same_id` is the counterexample without it. The inductive
invariant adds the cells and the tasks to `ListInv`:

    IInv == ListInv /\ CellInv        CellInv == TasksHeld /\ CellsHeld /\ EachCellOnce

Every task finds its block in the UCB it holds, even an unlisted one (`TasksHeld`), and no
text waits with all cells done (`CellsHeld`). Without these `EachCellOnce` is not
inductive: a result for a block that was found twice, or not at all, would break it. From
`IInv` follow `BooksAreKept`, `EachCellHasOnePlace` and `ResultsFit` (the assertion of
`TransText::SetTransResult`: however late a result comes, the block found by its id has the
cell). `Implements` maps every step to a step of `TextService` or a stutter.

    SchedInv == IInv /\ UsersHeld

gives `PendingStaysScheduled` (`PendingIsScheduled`): a pending text is in a block of a
listed UCB as long as its user cancelled nothing. `UsersHeld` follows the traces a cancel
leaves: a task outlives its text, and a UCB with blocks drops off the lists, only when
their user cancelled something. `NothingLostInRTT` adds that the RTT instance
takes no cancel, so that there a cell taken back from a failed session is always in a listed
UCB (`ReturnedCellIsReachable`); `dispatch_lost_text` violates the same property in the OLT
instance.

Only model-checked: liveness (`PendingIsAnswered`), which is beyond TLAPS here.

## 3. The time queue

`TimeQueue` models the list at the level of its pointers (`_next`, `_pre`,
`_in_list`) with `m_time_map` beside it, and `TransCore::m_slave_map` with the
three handlers that use both. The queue is one record and a handler composes the
operators as the code composes the calls: `PluseSlave` is Append then Refresh,
`CheckSlaveTimeout` is Check, which cuts the overdue nodes off the list and leaves
them in the map, then Remove of each. `delete_slave` may be called for a slave
that is long gone. `last_heartbeat` and `set_back` are history variables.

Run `time_queue` (3 slaves, timeout 1, clock 0..5): list, map and slave map agree
after every handler; behind a node that is not overdue there is none that is; and
`SlaveRegistry` is implemented: no slave is dropped before its timeout, and the
first timer event after it drops it. The last two hold only while the wall clock
is not set back. The comments at `TimeQueue.h:94` and `286` state them without
that condition; with it dropped TLC finds at once a new slave that hides, overdue,
behind an older node with a later stamp until the clock has caught up. Timeout 1
and clock 5 let a slave expire, come back and expire again; three nodes are the
least for an inner node to move. `TransController` abstracts all of this: its
`on_timer` may drop any registered slaves.

The failure of `time()` itself is left out.

### Proofs

`TimeQueue_proofs` proves all five properties for any finite set of slaves, any timeout
and any bound of the clock. The invariant is

    QueueInv == types /\ MapsAgree /\ (some list leads over m_time_map, Listed)
                /\ stamps are those of the heartbeats /\ (~set_back => no stamp lies ahead)

A list is a function `node` from 0 (the head) to n + 1 (the tail) that `_next` follows
forwards and `_pre` backwards; `Listed` adds that the stamps do not fall along it unless
the clock was set back. Stated over such a function, each operation of the code turns one
list into another: `Linking` and `Unlinking` are the pointer assignments, `Appending`,
`Removing`, `Reordering` and `Checking` the methods. That no stamp lies ahead is what
makes `Refresh` put the node at the end; without it the order is not inductive.
`Check` leaves its nodes in the map, off the list, and only the loop of `Remove` that
follows makes list and map agree again; `Checking` treats the two together.

The recursive functions (the walks of `back_node` and `timeout_nodes`, the loop
`RemoveEach`, `nodes_after_head`) are `CHOOSE`s of a function that satisfies an equation:
for each the proof gives one that does, then evaluates it along the list by induction over a
set of indices (`Upward`, `Downward`), which needs no induction theorem with an operator
parameter. The walks are defined on `m_time_map` and the tail, where the code walks.

## 4. The event engine

`EventEngine` models workers in `pop_element` and `run`, and posters that push
under the mutex and notify after leaving it. A woken worker is still counted in
`m_wait_count` until it has the mutex; waits may end spuriously. `Mailbox` is the
promise: HIGH events first and among them the latest first, NORMAL ones in order,
each handled once.

Run `event_engine` (3 workers, 2 posters, 4 events, 2 of them HIGH): no event lies
in the deque beside a sleeping worker unless a poster or a worker is on the way;
the wait count is exact; `Mailbox` is implemented; every posted event is handled
under weak fairness of each worker and each notify, which is what a thread
scheduler gives. One worker woken twice, two posters notifying one sleeper and
a third worker looking meanwhile are all in it. Every event is posted once, which
bounds the run; the system then goes on only with spurious wakeups.

`EventEngine_proofs` proves the types, the first two and the refinement for any number of
posters and events and finitely many workers. `NoEventBesideSleeper` alone is not inductive:
whether a poster notifies depends on `m_wait_count`, so `WaitersCounted` goes with it.
`Implements` maps the deque to the two queues of `Mailbox`: the HIGH events are the first
`HighCount` of it, the NORMAL ones the rest. The invariant it needs is that the HIGH events
are in front (`HighsInFront`), so that a push at the front is a push on the first queue
and the pop at the front takes from the second only when the first is empty.

Only model-checked: `PostedIsHandled`.

The model also shows that the notify at the end of `pop_element` (line 185) is not
needed for any of these properties: a push that finds a waiter always notifies.

## 5. The offline pipeline

`OltTaskManager` has one worker, so an action is a handler. A transaction is a record
of text id and state by call id (`m_transaction_map`), with `m_tid_cid_map` beside it.
What lies in the queues between the manager and `TextHandler`, `PreProcessor`, the OLT
dispatcher and `PostProcessor` is one set `messages`; a transaction has one message
(`OneMessageEach`, checked and proved), so the order of a queue shows only between
transactions, whose engines may be of any speed. A `TransText` is named by the call id it
was made with: that is the pointer the transaction keeps and deletes at its end. `live` is
the texts in memory, `undefined` becomes true when memory is used that is not, and
`transstate` is the column of the row. Each engine's step is what it does with the text as
far as the manager can tell: it succeeds or fails, and the row is written or not. The
dispatcher is what `TextService` says of it, one answer per text, and here its users'
requests count, because each writes the row of a text that the dispatcher holds
(`TransController.cc:269`, `:313`, `:401`): a cancel answers the text, a suspend sets it
aside, a resume has it go on. A suspended text gets no new tasks, but those that are out
may still end it, so `translated` is possible in either state.

`insert_transaction`, `on_trans_end` and the state checks are kept as they are coded:
the second map's answer that nobody looks at (line 467), the missing return after an
unknown text id (`FromEndIterator`, line 189), the check of the state before that of the
result. The proofs show that none of these is ever reached.

`OltService` is the promise: a text that is taken in ends once, well when its result is
stored and only then, and its row is written by nobody else and never after FINISH.
SUSPEND is written only as a text is set aside, and a text that is set aside goes on before
it is stored or ends. That a row says SUSPEND does not mean that its text is suspended: the
write of a resume may fail, and a late result writes nothing.

Run `olt_tasks`: two clients submit two texts alone or together, again and again, with
three call ids that come round; every stage fails or not, the database drops writes, users
cancel, suspend and resume. Two texts in one list and a client that submits the one while the other is in work
are what it takes for ids to be confused; three call ids for one to be reused while
another is held. Fairness: the worker handles what is in its queue and each engine answers
what it has (weak, per transaction); clients and users need do nothing. No fairness is
assumed of the dispatcher for a text it has accepted: a suspended text stays there until
its user resumes or cancels it, for ever if he does neither, and one that is lost there
(section 3, `dispatch_lost_text`) as well. So `EveryTextEnds` says that a transaction ends
unless the dispatcher keeps its text from some time on; when the dispatcher gives a text
back is the matter of `dispatch_rtt_live`.

The constant `Resubmits` says whether a client may submit an id that is in work. It is
FALSE in the run: the front end is taken to submit the rows it has just made, which the
server does not check. With TRUE TLC finds `MapsAgree` violated at once: the second transaction is
accepted, the map of text ids keeps naming the first, and the first end frees the id for
both. Nothing in `OltTaskManager.cc` prevents it.

`OltTaskManager_proofs` proves for any clients, ids and lists, with `Resubmits` FALSE, that

    IInv == TypeOK /\ MapsAgree /\ OneMessageEach /\ TextsOwned /\ RequestsFree

is inductive, and from it each conjunct and `Implements`. `OneMessageEach` is what makes
the rest inductive: because a transaction's only message is at the stage its state names,
a handler can do no more than send the text on or end the transaction with it (lemma
`Handling`), and these two keep everything (`Moved`, `EndedWell`). `RequestsFree` (no id
that is in work is in a request, nor in two places of the requests) is needed for the one
step that makes transactions; `TakesIn` says what that step comes to when it holds.

Only model-checked: `EveryTextEnds`. A crash leaves texts in work where they are, and
nothing loads them again (line 578), so there is no recovery to model.

## 6. Sessions of users on their sockets

`UsrSessManager` extends `NetDriver`: the sessions post requests that the driver takes
from the same set `messages`, and the completions answer them. `NetDriver` has the map of
connections, the set of ids in use (`UidGenerator` gives freed ids out again; here at
once), the connection that waits for a peer, and for a connection what operation it has
pending and for which call id. `Listen` takes an id for the acceptor (`ListenSock`) and one for
the connection that waits. An accept may fail: then the id of the connection given up stays
in use for ever, as in `Acceptor.cc:69`. The code has 2^31 ids; when the few of `Sock` are
lost, nobody is accepted any more. Closing one answers its pending operation with an error, as
a cancelled handler does. The driver is one thread; what a peer does (connect, send all of
a packet, send nonsense, go away) is the choice of `handle_accept`, `handle_read` and
`handle_write`.

A session is a record of state, socket, process and text id. The real time translation
and the segmentation are modelled handler by handler; the thirty or so processes that ask
one engine and wait are the process `ASK`. A packet's content is the choice among them.
`texts` is the `TransText`s in memory by their ids.

`ReplyService` is what a peer sees: connected, its request read, the one answer sent or
given up, closed; then its id may be another's.

Run `usr_sessions`: two call ids, five socket ids (the acceptor, two connections, the one that
waits, and one to be lost; a third peer gets the id of a closed one), two texts. `SocketsOwned`
says that every open socket has one owner and that no id in use comes again, and not that
every id in use is somebody's: a failed accept loses one. `OneThingEach` is the centre:
a session has exactly one request, operation or answer under way, and it is the one its
state waits for. From it follows that no late answer ever finds a session that has gone on,
which the code checks for everywhere and handles in ways that would not all be right
(the inverted null test at `SessionManager.cc:126`, a send answered as a receive at
`AsyncNetDriver.cc:322`). Fairness: the threads run, engines answer, and a write ends, well
or not; a peer need neither connect nor send. `RequestsEnd` therefore says nothing of a
session that waits for its request: the code has no timeout for it
(`SessionManager.cc:181`), and a silent peer keeps its session.

Run `usr_blank_text`, a **violation**: with texts of blanks allowed, the answer to a text
without sentences makes `RttTransProcess::on_trans_end` log sentence number 0, which the
assertion in `TransText.cc:139` stops (`findings`).

`UsrSessManager_proofs` proves the five invariants and the refinement for any sockets, call
ids and texts, blank texts or not, from the assumptions `NetAssumption` and `UsrAssumption`
(the names for "no call id" and "no text" are not names of one, and the acceptor has an id). The inductive invariant is

    IInv == TypeOK /\ SessionsFit /\ Jobs /\ Sockets /\ TextsOwned /\ NeverUndefined

`Jobs` and `Sockets` are `OneThingEach` and `SocketsOwned` without counting. `SessionsFit` says
that a session has a process only in state PROCESS and a text only for a process that has one;
without it nothing says that the text an engine answers for is the one the handler deletes.
Nearly every handler and engine does the same thing, `Turns`: it replaces what is under way for
one session by the next thing that session waits for. Lemma `Turning` shows once that this keeps
the invariant and that the peers see nothing of it; a handler's proof is that it is such a turn.
What is left are the steps of the network and `on_close_sock`, and all a peer ever sees are four
of them: it connects, its request is complete or its connection over, its answer is sent, it is
closed. `Seen` is what a peer sees in terms of what is under way on its socket, and `StepSeen` is
the step of the refinement.

Only model-checked: `RequestsEnd`.

Seen on the way and left to the reader: a text whose translation fails is never freed
(`RttTransProcess.cc:288`; in the model `Leak`), nor is the event data of a message without a
session (`UsrSessManager.cc:345`). Left out: `Connect`, which only the dispatcher uses, framing,
byte order, the contents of packets. The composition of these sessions with the dispatcher
is by `TextService`: one answer per text.

## 7. The lock and the after-treatment dictionaries

`RWLock` models each method of `Common/RWLock.cc` up to its return or its wait, and each look
after a wait as a step of its own; `m_mutex` makes these atomic. Sleeping (`rwait`,
`wwait`) and woken but without the mutex (`rwoken`, `wwoken`) differ, notify_one picks any
sleeper, waits end spuriously.

`AfterTreatManager` extends it: workers of `GeneralOperation` take a request, the write lock,
change memory and database, answer; workers of `PostProcessor` take the read lock and look
words up. A handler's work is atomic under the write lock except where its order shows
outside: a word file is in memory first (`InsertWords`) and then in the database, statement
by statement (`InsertStatements`), and a restart may come after any statement of any request
(`Interrupted`). The memory is the two maps of dictionaries and in each the two maps of words;
the database is the two tables with their `isdeleted`; ids are given as the code gives them,
so that after a restart the ids of deleted words come again (`AfterDictionary.cc:450`).

Every statement may fail, those of `Initialize` that read the words of a dictionary included
(`FailsAt` names the requests whose statements may), and a request may name any id. What the
code then does is modelled, sound or not:

- A refused INSERT of `CreateDict` still enters the dictionary in `m_dict_info_map`
  (`AfterTreatManager.cc:140`), under the id the request came with, which is any.
- `ModifyDict` has moved the dictionary before its statement, and `m_dict_info_map` follows
  only on success (`AfterTreatManager.cc:164`).
- `DeleteDict`, `DeleteWord` and `ModifyWord` have changed memory before a statement that fails.
- `RecoverWord` undeletes whatever row has the id, mounts its word in the dictionary named,
  and mounts an empty word (`Empty`) with an uninitialised id when it could not read one
  (`AfterDictionary.cc:559`). So a dictionary can hold a word of another, and an id twice.
- `RecoverDict` without a row enters a dictionary with an uninitialised id and no domain, in
  a group nobody looks at (`Nowhere`).

After any of these memory and database differ about that dictionary until the next restart. So
the properties exempt these dictionaries, and only these: the history variable `amiss`
holds those that since the last start a failed statement, or a request with the id of something
else, concerned. What is left to show is that the damage stays there: no other
dictionary, no other word and not the lock is affected, however such requests, good ones and
readers mix. A refused insertion needs no exemption: there the code undoes what it did.
`left_behind` is a second history variable: rows the database keeps although memory refused them.

Run `after_treat`: two workers on each side, two requests and any number of texts, one
restart, two domains, two pairs, files of two words in statements of one word (`GROUPNUM` is
100 in the code; 1 makes a file of two words fail between its statements), a dictionary with
a word and a deleted one to begin with. Whenever no writer is inside, the four maps agree and
memory and database say the same but for `left_behind`; whenever a reader is inside, every word
it can find is stored; the lock excludes, loses no wakeup, and everybody gets through. Two
requests and a restart are enough to make a second dictionary and then fail with the first, name
a word of the other, or overtake a woken writer; with three requests, but without liveness
and with interchangeable workers as `SYMMETRY`, TLC finds 431,094 states and no error. Safety is
proved for any number of them. Fairness: a worker that holds the lock finishes, that is,
its statements end, and a woken thread looks again. Nothing is assumed of the lock itself, and
with bounded requests writers cannot come for ever: the lock prefers them, and an endless
stream of them starves readers.

Run `after_load_file`, a **violation**: a file whose last word of a statement is one to leave out
makes a statement that cannot be parsed; the file is refused and forgotten, and its words in
the statements before stay in the database, though the comment at `AfterDictionary.cc:489`
says that all must succeed (`findings`).

Seen and not modelled: `DeleteWord` goes on with an iterator over a vector it may have
destroyed (`AfterDictionary.cc:342-356`); the source key of a dictionary is not made anew
after `ModifyDict`. One user stands for all of them, names, active flags,
queries by page and the replacement of text itself are left out.

`RWLock_proofs` proves for any finite set of threads that

    LockInv == LockTypeOK /\ CountersCount /\ Exclusion /\ NobodySleepsBesideAFreeLock

is inductive. Without `CountersCount` neither of the last two is: who may enter and whom an
unlock wakes is decided by the three counters alone. Every method moves one thread from one
place to another and may wake others, which changes none of the counted sets; lemma
`MovesWell` does the counting once for all methods. `AfterTreatManager_proofs` carries the
result over: a step of `AfterTreatManager` is a step of the lock, leaves it alone, or is a
restart, which begins with a new one. So `Exclusion` and `NobodySleepsBesideAFreeLock` hold
around the dictionaries for any numbers of workers, dictionaries and requests.

The same module proves what the lock is for: `AfterTypeCorrect`, `MapsAlwaysAgree`,
`OnlyStoredIsUsed` and `AllStoredIsUsed`, for any dictionaries, words, files, workers and restarts
and whichever statements fail. `AfterTyped` is the inductive type invariant. The other is

    AfterInv == (\A d \in DictID \ amiss : Well(d, UnderWay(d))) /\ (\A g \in Pool : OpOK(g))

`Well` says of a dictionary that it is in memory exactly when it is not deleted, in the group
of its row's domain and no other, that its map of words and its map of ids agree, and that
memory and rows are the same but for `left_behind`, with one exception: the words a file has
already in memory and not yet in the database, or without an id (`UnderWay`). `OpOK` says
of the worker between these two steps that it holds the lock, that its words are new and
differ and that their ids do. Neither is inductive without the other: what `InsertStatements`
may forget after a failure are exactly the words `UnderWay`.

Nothing is assumed of the dictionaries amiss, so each handler has two things to show. That it
leaves every other dictionary as it was: `SameMaps` and `SameRows` say so of memory and rows, and
lemmas `Concerning` and `Sparing` draw the conclusion once for all handlers. And that the
dictionary it is about is well afterwards or amiss. The dictionaries amiss only become more until
a restart, and a restart makes both invariants true whatever was before (`Started`): nothing is
under way, every live row is loaded, and one whose pair is mounted already stays in the table
and joins `left_behind` (`NotMounted`). So a stop after any statement of any request is covered.
The assumption `DatabaseAssumption` says of the rows found at the start that words belong to a
dictionary and have ids above zero; words that are stored twice then count as left behind
from the start.

Only model-checked: `EverybodyGetsThrough`. `AWholeFileOrNothing` is false (see above).

## 8. Not modelled, and why

- **DictLibrary**, **TemplateLibrary**: the scheme of `AfterTreatManager`, maps and statements
  under an `RWLock`. Their changes come through one worker each, so what is left of the
  hazards is the statement that fails: `DictManager.cc:143` returns its result and leaves in
  memory what the database has refused.
- **DBConnPool**: a worker blocks in `PopFront` until a connection is free, and a holder
  reconnects for ever while the database is away. Nothing in `src/` bounds that, so there is
  no property of it to state; the models take it that statements end.
- **SQL statements** other than the row states and the after-treatment tables, **text formats**,
  **sentence splitting**, **LanguageTools**, **TinyXml**, **json**, **Log**, **Configurator**: sequential
  text processing or I/O without state the rest depends on. By lines this is most of the
  repository: `LanguageTools` and the bundled parsers alone are more than half of it.
- **SipRPC**: one blocking HTTP request at a time, off by default.
- **SerSessManager's** connecting side and the bytes of the heartbeat packets.
- **Crash recovery** of the dispatcher and the offline pipeline: nothing is kept, and
  `load_unfinish_text` does nothing (`OltTaskManager.cc:578`).

## 9. What could come next

Every invariant and every refinement the passing runs check is proved for all constants.
Liveness (`PendingIsAnswered`, `PostedIsHandled`, `EveryTextEnds`, `RequestsEnd`,
`EverybodyGetsThrough`) stays with TLC: it is out of the reach of the provers used here.

The runs are few on purpose; a model of `DictLibrary` would be the next component.
