--------------------------- MODULE TransController ---------------------------
(***************************************************************************)
(* One instance of the translation dispatcher: TransController with the    *)
(* TransCores, UsrControlBlocks (UCBs), TextBlocks, TransSlaves and        *)
(* TransSessions it owns (src/TransController).  A TransText is submitted, *)
(* cut into cells (sentences), each cell is sent to a translation slave    *)
(* over a session of its own, and the text is answered when all its cells  *)
(* are translated, when it is refused or when its user cancels it.         *)
(*                                                                         *)
(* The controller is one EventEngine with one worker thread: a handler     *)
(* runs alone, so an action is a handler.  The loop of GetReadyTask, which *)
(* nearly every handler ends with, is taken one task per step while        *)
(* ready_core names the core it runs for; no other handler can start       *)
(* before it ends.                                                         *)
(***************************************************************************)
EXTENDS Integers, SequencesExt

CONSTANTS
  TransType,    \* "RTT" or "OLT": which of the two instances this is
  Domain,       \* the configured domains; each has a TransCore
  NoDomain,     \* a domain that is not configured, and "no core"
  Text,         \* the TransText objects; each is submitted at most once
  UsrID,        \* [Text -> user]
  TextID,       \* [Text -> text id]; two objects may carry the same id
  TransSize,    \* [Text -> number of cells]
  Slave,        \* the TransSlave objects; a uuid may have several in its life
  SlaveUuid,    \* [Slave -> uuid]
  SlaveDomain,  \* [Slave -> the domain in its pulse]
  ConcurrentNum,\* [Slave -> concurrent_num of its first pulse]
  CallID,       \* the call ids sessions are known by
  NoSession,
  MaxClosing    \* bound: sessions whose socket is being closed at one time

ASSUME ConfigAssumption ==
  /\ TransType \in {"RTT", "OLT"}
  /\ NoDomain \notin Domain
  /\ TransSize \in [Text -> Nat]
  /\ SlaveDomain \in [Slave -> Domain]
  /\ ConcurrentNum \in [Slave -> Nat]
  /\ MaxClosing \in Nat \ {0}

VARIABLES
  domaintype,      \* m_domaintype: the core every request is looked up in
  slave_map,       \* the TransSlave objects registered in some core
  idel_num,        \* [Slave -> free slots]
  usr_list,        \* [Domain -> m_usr_list]; a UCB is named by the text it was made for
  text_block_list, \* [UCB -> m_text_block_list]; a block is named by its text
  text_state,      \* [Text -> "READY" or "SUSPEND"]
  untrans_idx_set, \* [Text -> the cells waiting for a slave]
  is_trans,        \* [Text -> the cells that have their translation]
  answer,          \* [Text -> what finish_translation posted]
  trans_sess_map,  \* [CallID -> session]
  ready_core       \* the core GetReadyTask runs for, NoDomain between events

text_vars == <<text_block_list, text_state, untrans_idx_set, is_trans, answer>>
vars == <<domaintype, slave_map, idel_num, usr_list, text_vars,
          trans_sess_map, ready_core>>

Cells(t) == 0 .. TransSize[t] - 1

TransSession == [state: {"CONNECT", "SENDING", "RECVING", "CLOSING"},
                 ucb: Text, text: Text, cell: Nat, slave: Slave]

ASSUME SessionAssumption == NoSession \notin TransSession

Answers == {"NEW", "PENDING", "SUCCESS", "NO_ALIVE", "DOMAIN_NOT_FIND", "USR_CANCEL"}

-----------------------------------------------------------------------------
(* The containers.  A find returns the set of positions an iterator may    *)
(* have: one position, or none when the code returns end().                *)

FirstAt(l, P) == {i \in DOMAIN l \cap P : \A j \in DOMAIN l \cap P : i <= j}

find_ucb(d, usr) ==
  FirstAt(usr_list[d], {i \in DOMAIN usr_list[d] : UsrID[usr_list[d][i]] = usr})

find_text_block(u, tid) ==
  FirstAt(text_block_list[u],
          {i \in DOMAIN text_block_list[u] : TextID[text_block_list[u][i]] = tid})

\* Faulty form of Rotate: the front is looked at and stays where it is.
StayInFront(l, k) == l

\* The list after its first k elements went, one by one, to its end.
Rotate(l, k) == SubSeq(l, k + 1, Len(l)) \o SubSeq(l, 1, k)

\* A block CreateTask can take a cell from, and the first one in a UCB.
HasReadyCell(t) == text_state[t] = "READY" /\ untrans_idx_set[t] # {}

ready_blocks(u) ==
  {j \in DOMAIN text_block_list[u] : HasReadyCell(text_block_list[u][j])}

ready_ucbs(d) == {i \in DOMAIN usr_list[d] : ready_blocks(usr_list[d][i]) # {}}

\* Faulty form of idle_slaves: GetIdelNum is not asked.
AnySlave(d) == {s \in slave_map : SlaveDomain[s] = d}

idle_slaves(d) == {s \in slave_map : SlaveDomain[s] = d /\ idel_num[s] > 0}

\* The condition on which the loop of GetReadyTask produces another task.
HasReadyTask(d) == idle_slaves(d) # {} /\ ready_ucbs(d) # {}

Waiting == ready_core = NoDomain

\* Faulty forms of RunReadyTasks: one task an event; the core of m_domaintype.
OneReadyTask(d) == ready_core' = IF Waiting /\ HasReadyTask(d)' THEN d ELSE NoDomain

RunDomaintype(d) ==
  ready_core' = IF domaintype' \in Domain /\ HasReadyTask(domaintype)'
                THEN domaintype' ELSE NoDomain

\* The handler's call of GetReadyTask and call_slave_for_trans for core d.
RunReadyTasks(d) == ready_core' = IF HasReadyTask(d)' THEN d ELSE NoDomain

Live(c) == trans_sess_map[c] # NoSession /\ trans_sess_map[c].state # "CLOSING"

-----------------------------------------------------------------------------
(* One turn of GetReadyTask that finds a task: the UCBs before the first   *)
(* one with a ready cell are passed over, that UCB goes to the end of the  *)
(* list, and inside it the block the cell is taken from does the same.     *)
(* The slave is any idle one of the core (the code takes the lowest uuid). *)
(* The session call_slave_for_trans opens for the task is part of the step.*)
CreateTask(u, j, t, idx) ==
  /\ text_block_list' = [text_block_list EXCEPT ![u] = Rotate(@, j)]
  /\ untrans_idx_set' = [untrans_idx_set EXCEPT ![t] = @ \ {idx}]

call_slave_for_trans(c, u, t, idx, s) ==
  /\ trans_sess_map[c] = NoSession
  /\ trans_sess_map' = [trans_sess_map EXCEPT ![c] =
       [state |-> "CONNECT", ucb |-> u, text |-> t, cell |-> idx, slave |-> s]]

HandOut(d, s, i, u, j, t, idx, c) ==
  /\ \A k \in untrans_idx_set[t] : idx <= k
  /\ usr_list' = [usr_list EXCEPT ![d] = Rotate(@, i)]
  /\ CreateTask(u, j, t, idx)
  /\ idel_num' = [idel_num EXCEPT ![s] = @ - 1]
  /\ call_slave_for_trans(c, u, t, idx, s)
  /\ UNCHANGED <<domaintype, slave_map, text_state, is_trans, answer>>
  /\ RunReadyTasks(d)

GetReadyTask ==
  \E d \in Domain \cap {ready_core} : \E s \in idle_slaves(d) :
    \E i \in FirstAt(usr_list[d], ready_ucbs(d)) : \E u \in {usr_list[d][i]} :
      \E j \in FirstAt(text_block_list[u], ready_blocks(u)) :
        \E t \in {text_block_list[u][j]} : \E idx \in untrans_idx_set[t], c \in CallID :
          HandOut(d, s, i, u, j, t, idx, c)

(* A heartbeat.  The first one makes a TransSlave with all its slots free; *)
(* a later one changes nothing of it (TransSlave::Refresh is empty).       *)
(* Every heartbeat of a configured domain moves m_domaintype to it.        *)
PluseSlave(s) ==
  \/ /\ \E r \in slave_map : SlaveUuid[r] = SlaveUuid[s] /\ SlaveDomain[r] = SlaveDomain[s]
     /\ UNCHANGED <<slave_map, idel_num>>
  \/ /\ \A r \in slave_map : ~(SlaveUuid[r] = SlaveUuid[s] /\ SlaveDomain[r] = SlaveDomain[s])
     /\ \A c \in CallID : trans_sess_map[c] # NoSession => trans_sess_map[c].slave # s
     /\ slave_map' = slave_map \cup {s}
     /\ idel_num' = [idel_num EXCEPT ![s] = ConcurrentNum[s]]

on_slave_pluse(s) ==
  /\ Waiting
  /\ domaintype' = SlaveDomain[s]
  /\ PluseSlave(s)
  /\ UNCHANGED <<usr_list, text_vars, trans_sess_map>>
  /\ RunReadyTasks(SlaveDomain[s])

\* Faulty form of delete_slave: the slave is logged but not erased.
KeepSlave(s) == UNCHANGED slave_map

\* delete_slave erases by uuid in the core of the slave it is given: that may be
\* another, newer TransSlave object of the same uuid.
delete_slave(s) ==
  slave_map' = {r \in slave_map :
                  ~(SlaveUuid[r] = SlaveUuid[s] /\ SlaveDomain[r] = SlaveDomain[s])}

(* The timer: any registered slave may be overdue.  No task is handed out, *)
(* and the sessions of a slave that is dropped go on.                      *)
on_timer(overdue) ==
  /\ Waiting
  /\ overdue \subseteq slave_map
  /\ slave_map' = slave_map \ overdue
  /\ UNCHANGED <<domaintype, idel_num, usr_list, text_vars, trans_sess_map, ready_core>>

-----------------------------------------------------------------------------
(* Requests.  All of them are looked up in the core of m_domaintype, the   *)
(* domain of the latest heartbeat, whatever domain the text or the request *)
(* names.                                                                  *)

finish_translation(t, res) == answer' = [answer EXCEPT ![t] = res]

CheckAlive(d) == \E s \in slave_map : SlaveDomain[s] = d

RefuseSubmit(t) ==
  /\ \/ domaintype = NoDomain /\ finish_translation(t, "DOMAIN_NOT_FIND")
     \/ domaintype # NoDomain /\ ~CheckAlive(domaintype) /\ finish_translation(t, "NO_ALIVE")
     \/ /\ domaintype # NoDomain /\ CheckAlive(domaintype)
        /\ TransSize[t] = 0               \* ERR_NO_NEED_TRANS is answered as a success
        /\ finish_translation(t, "SUCCESS")
  /\ UNCHANGED <<usr_list, text_block_list, text_state, untrans_idx_set, is_trans, ready_core>>

SubmitTranslation(t) ==
  \E d \in Domain \cap {domaintype} :
    /\ CheckAlive(d) /\ TransSize[t] > 0
    /\ \/ /\ find_ucb(d, UsrID[t]) = {}
          /\ usr_list' = [usr_list EXCEPT ![d] = Append(@, t)]
          /\ text_block_list' = [text_block_list EXCEPT ![t] = <<t>>]
       \/ \E i \in find_ucb(d, UsrID[t]) :
            /\ text_block_list' = [text_block_list EXCEPT ![usr_list[d][i]] = Append(@, t)]
            /\ UNCHANGED usr_list
    /\ text_state' = [text_state EXCEPT ![t] = "READY"]
    /\ untrans_idx_set' = [untrans_idx_set EXCEPT ![t] = Cells(t)]
    /\ answer' = [answer EXCEPT ![t] = "PENDING"]
    /\ UNCHANGED is_trans
    /\ RunReadyTasks(d)

on_trans_submit(t) ==
  /\ Waiting
  /\ answer[t] = "NEW"
  /\ UNCHANGED <<domaintype, slave_map, idel_num, trans_sess_map>>
  /\ RefuseSubmit(t) \/ SubmitTranslation(t)

\* The requests of TransControlProcess reach the OLT instance only.  One that finds
\* no such user or text is answered with an error and changes nothing.
Controllable(d) == Waiting /\ TransType = "OLT" /\ d = domaintype

on_trans_suspend(usr, tid) ==
  \E d \in Domain : \E i \in find_ucb(d, usr) :
    \E u \in {usr_list[d][i]} : \E j \in find_text_block(u, tid) :
      /\ Controllable(d)
      /\ text_state' = [text_state EXCEPT ![text_block_list[u][j]] = "SUSPEND"]
      /\ UNCHANGED <<domaintype, slave_map, idel_num, usr_list, text_block_list,
                     untrans_idx_set, is_trans, answer, trans_sess_map>>
      /\ RunReadyTasks(d)

on_trans_rerun(usr, tid) ==
  \E d \in Domain : \E i \in find_ucb(d, usr) :
    \E u \in {usr_list[d][i]} : \E j \in find_text_block(u, tid) :
      /\ Controllable(d)
      /\ text_state' = [text_state EXCEPT ![text_block_list[u][j]] = "READY"]
      /\ UNCHANGED <<domaintype, slave_map, idel_num, usr_list, text_block_list,
                     untrans_idx_set, is_trans, answer, trans_sess_map>>
      /\ RunReadyTasks(d)

on_trans_cancel(usr, tid) ==
  \E d \in Domain : \E i \in find_ucb(d, usr) :
    \E u \in {usr_list[d][i]} : \E j \in find_text_block(u, tid) :
      /\ Controllable(d)
      /\ text_block_list' = [text_block_list EXCEPT ![u] = RemoveAt(@, j)]
      /\ usr_list' = IF text_block_list'[u] = <<>>
                     THEN [usr_list EXCEPT ![d] = RemoveAt(@, i)] ELSE usr_list
      /\ finish_translation(text_block_list[u][j], "USR_CANCEL")
      /\ UNCHANGED <<domaintype, slave_map, idel_num, text_state, untrans_idx_set,
                     is_trans, trans_sess_map>>
      /\ RunReadyTasks(d)

-----------------------------------------------------------------------------
(* Sessions.  A session waits for the answer of the one network request it *)
(* has outstanding; on_net drops an answer that does not fit its state, so *)
(* the answers handled are those of the outstanding request.               *)

InState(c, st) == Waiting /\ trans_sess_map[c] # NoSession /\ trans_sess_map[c].state = st

SetState(c, st) == trans_sess_map' = [trans_sess_map EXCEPT ![c].state = st]

\* Bounds the sessions that are only waiting for their socket to be closed.
MayClose == Cardinality({c \in CallID : trans_sess_map[c] # NoSession /\ ~Live(c)}) < MaxClosing

\* The connection stands and BuildSendPacket succeeded: the request is sent.
on_connected(c) ==
  /\ InState(c, "CONNECT")
  /\ SetState(c, "SENDING")
  /\ UNCHANGED <<domaintype, slave_map, idel_num, usr_list, text_vars, ready_core>>

on_send_packet(c) ==
  /\ InState(c, "SENDING")
  /\ SetState(c, "RECVING")
  /\ UNCHANGED <<domaintype, slave_map, idel_num, usr_list, text_vars, ready_core>>

\* Faulty form of Success: a text is taken for translated when no cell waits.
AnswerEarly(u, tid, cell) ==
  \/ find_text_block(u, tid) = {} /\ UNCHANGED <<is_trans, text_block_list, answer>>
  \/ \E j \in find_text_block(u, tid) : \E b \in {text_block_list[u][j]} :
       /\ is_trans' = [is_trans EXCEPT ![b] = @ \cup {cell}]
       /\ IF untrans_idx_set[b] = {}
          THEN /\ text_block_list' = [text_block_list EXCEPT ![u] = RemoveAt(@, j)]
               /\ finish_translation(b, "SUCCESS")
          ELSE UNCHANGED <<text_block_list, answer>>

\* Faulty form of Success: a text is answered and its block stays in the UCB.
KeepBlock(u, tid, cell) ==
  \/ find_text_block(u, tid) = {} /\ UNCHANGED <<is_trans, text_block_list, answer>>
  \/ \E j \in find_text_block(u, tid) : \E b \in {text_block_list[u][j]} :
       /\ is_trans' = [is_trans EXCEPT ![b] = @ \cup {cell}]
       /\ IF Cells(b) \subseteq is_trans'[b] THEN finish_translation(b, "SUCCESS") ELSE UNCHANGED answer
       /\ UNCHANGED text_block_list

\* UsrControlBlock::Success: the block is found again by its text id.
Success(u, tid, cell) ==
  \/ /\ find_text_block(u, tid) = {}
     /\ UNCHANGED <<is_trans, text_block_list, answer>>
  \/ \E j \in find_text_block(u, tid) : \E b \in {text_block_list[u][j]} :
       /\ is_trans' = [is_trans EXCEPT ![b] = @ \cup {cell}]
       /\ IF Cells(b) \subseteq is_trans'[b]
          THEN /\ text_block_list' = [text_block_list EXCEPT ![u] = RemoveAt(@, j)]
               /\ finish_translation(b, "SUCCESS")
          ELSE UNCHANGED <<text_block_list, answer>>

\* Faulty form of EraseEmptyUcb: the UCB is erased whether or not it is empty.
EraseUcb(d, u) ==
  \/ find_ucb(d, UsrID[u]) = {} /\ UNCHANGED usr_list
  \/ \E i \in find_ucb(d, UsrID[u]) : usr_list' = [usr_list EXCEPT ![d] = RemoveAt(@, i)]

\* TransCore::SuccessTask on the UCB: when it is empty, the UCB its user has in the
\* list is erased, whether or not that is the same one.
EraseEmptyUcb(d, u) ==
  \/ /\ text_block_list'[u] # <<>> \/ find_ucb(d, UsrID[u]) = {}
     /\ UNCHANGED usr_list
  \/ /\ text_block_list'[u] = <<>>
     /\ \E i \in find_ucb(d, UsrID[u]) :
          usr_list' = [usr_list EXCEPT ![d] = RemoveAt(@, i)]

\* on_session_success: the slave answered and the answer was parsed.
on_recv_packet(c) ==
  /\ InState(c, "RECVING") /\ MayClose
  /\ \E se \in {trans_sess_map[c]} :
       /\ Success(se.ucb, TextID[se.text], se.cell)
       /\ EraseEmptyUcb(SlaveDomain[se.slave], se.ucb)
       /\ idel_num' = [idel_num EXCEPT ![se.slave] = @ + 1]
       /\ SetState(c, "CLOSING")
       /\ UNCHANGED <<domaintype, slave_map, text_state, untrans_idx_set>>
       /\ RunReadyTasks(SlaveDomain[se.slave])

\* Faulty form of Failed: the cell is not put back.
LoseCell(u, tid, cell) == UNCHANGED untrans_idx_set

\* UsrControlBlock::Failed: the cell goes back to the block that has the text id.
Failed(u, tid, cell) ==
  \/ /\ find_text_block(u, tid) = {}
     /\ UNCHANGED untrans_idx_set
  \/ \E j \in find_text_block(u, tid) :
       untrans_idx_set' = [untrans_idx_set EXCEPT ![text_block_list[u][j]] = @ \cup {cell}]

\* Connecting, building, sending, receiving or parsing failed: the slave is dropped.
\* Its slot is not given back, the object is gone.
on_session_failed(c) ==
  /\ Waiting /\ Live(c) /\ MayClose
  /\ \E se \in {trans_sess_map[c]} :
       /\ Failed(se.ucb, TextID[se.text], se.cell)
       /\ delete_slave(se.slave)
       /\ SetState(c, "CLOSING")
       /\ UNCHANGED <<domaintype, idel_num, usr_list, text_block_list, text_state, is_trans, answer>>
       /\ RunReadyTasks(SlaveDomain[se.slave])

on_close_sock(c) ==
  /\ InState(c, "CLOSING")
  /\ trans_sess_map' = [trans_sess_map EXCEPT ![c] = NoSession]
  /\ UNCHANGED <<domaintype, slave_map, idel_num, usr_list, text_vars, ready_core>>

-----------------------------------------------------------------------------
Init ==
  /\ domaintype \in Domain \cup {NoDomain}   \* ("all", "chinese"): configured or not
  /\ slave_map = {}
  /\ idel_num = [s \in Slave |-> 0]
  /\ usr_list = [d \in Domain |-> <<>>]
  /\ text_block_list = [u \in Text |-> <<>>]
  /\ text_state = [t \in Text |-> "READY"]
  /\ untrans_idx_set = [t \in Text |-> {}]
  /\ is_trans = [t \in Text |-> {}]
  /\ answer = [t \in Text |-> "NEW"]
  /\ trans_sess_map = [c \in CallID |-> NoSession]
  /\ ready_core = NoDomain

Request(t) ==
  \/ on_trans_submit(t)
  \/ on_trans_suspend(UsrID[t], TextID[t])
  \/ on_trans_rerun(UsrID[t], TextID[t])
  \/ on_trans_cancel(UsrID[t], TextID[t])

Session(c) ==
  \/ on_connected(c)
  \/ on_send_packet(c)
  \/ on_recv_packet(c)
  \/ on_session_failed(c)
  \/ on_close_sock(c)

Next ==
  \/ GetReadyTask
  \/ \E s \in Slave : on_slave_pluse(s)
  \/ \E overdue \in SUBSET slave_map : on_timer(overdue)
  \/ \E t \in Text : Request(t)
  \/ \E c \in CallID : Session(c)

Spec == Init /\ [][Next]_vars

-----------------------------------------------------------------------------
(* Fairness.  The worker thread does not stop, and the queue delivers every *)
(* posted event.  Of the outside world it is assumed that slaves of every   *)
(* domain keep sending heartbeats, that a closed socket is reported, and    *)
(* that a cell which is tried again and again is not refused for ever by    *)
(* every slave (each of the three network requests succeeds once it is made *)
(* often enough): the code has no timeout on a request and no retry limit.  *)

TasksFor(t, idx) ==
  {c \in CallID : Live(c) /\ trans_sess_map[c].text = t /\ trans_sess_map[c].cell = idx}

Fairness ==
  /\ WF_vars(GetReadyTask)
  /\ \A d \in Domain : SF_vars(\E s \in Slave : SlaveDomain[s] = d /\ on_slave_pluse(s))
  /\ \A c \in CallID : SF_vars(on_close_sock(c))
  /\ \A t \in Text : \A idx \in Cells(t) :
       /\ SF_vars(\E c \in TasksFor(t, idx) : on_connected(c))
       /\ SF_vars(\E c \in TasksFor(t, idx) : on_send_packet(c))
       /\ SF_vars(\E c \in TasksFor(t, idx) : on_recv_packet(c))

FairSpec == Spec /\ Fairness

-----------------------------------------------------------------------------
(* Properties. *)

\* Every variable has its type; what is not just bookkeeping in it: the free slots of a
\* slave (a size_t) never go below zero, the assertion of TransSlave::ReduceIdelNum.
TypeOK ==
  /\ domaintype \in Domain \cup {NoDomain}
  /\ slave_map \subseteq Slave
  /\ idel_num \in [Slave -> Nat]
  /\ usr_list \in [Domain -> Seq(Text)]
  /\ text_block_list \in [Text -> Seq(Text)]
  /\ text_state \in [Text -> {"READY", "SUSPEND"}]
  /\ untrans_idx_set \in [Text -> SUBSET Nat]
  /\ is_trans \in [Text -> SUBSET Nat]
  /\ answer \in [Text -> Answers]
  /\ trans_sess_map \in [CallID -> TransSession \cup {NoSession}]
  /\ ready_core \in Domain \cup {NoDomain}

Pending(t) == answer[t] = "PENDING"

TasksOn(s) == {c \in CallID : Live(c) /\ trans_sess_map[c].slave = s}

\* No slot of a registered slave leaks or is given back twice, however its tasks end
\* and however often the slave is dropped and comes back (TransSlave::m_idel_num).
SlotsAccounted ==
  \A s \in slave_map : idel_num[s] + Cardinality(TasksOn(s)) = ConcurrentNum[s]

\* Every cell of a text that waits for its answer is in exactly one place: waiting in
\* m_untrans_idx_set, on its way in exactly one session, or translated.
EachCellOnce ==
  \A t \in Text : Pending(t) => \A idx \in Cells(t) :
    /\ idx \notin untrans_idx_set[t] \cap is_trans[t]
    /\ idx \in untrans_idx_set[t] \cup is_trans[t] <=> TasksFor(t, idx) = {}
    /\ \A c1, c2 \in TasksFor(t, idx) : c1 = c2

\* A UCB that has not been made is in no list and holds nothing.
UcbsHeld ==
  \A u \in Text : answer[u] = "NEW" =>
    text_block_list[u] = <<>> /\ \A d \in Domain : u \notin ToSet(usr_list[d])

\* The blocks hold texts that wait for their answer, each of them once.
BlocksHeld ==
  \A u \in Text :
    /\ IsInjective(text_block_list[u])
    /\ \A t \in ToSet(text_block_list[u]) :
         Pending(t) /\ \A v \in Text : t \in ToSet(text_block_list[v]) => v = u

\* A task is for a cell its text has, and while the text waits for its answer the UCB
\* the task goes back to has the block.
TasksHeld ==
  \A c \in CallID : Live(c) => \E t \in {trans_sess_map[c].text} :
    /\ trans_sess_map[c].cell \in Cells(t)
    /\ answer[t] # "NEW"
    /\ Pending(t) => t \in ToSet(text_block_list[trans_sess_map[c].ucb])

\* Only cells the text has are waiting or translated, none before it is submitted; a
\* text does not go on waiting for its answer when all of them are translated.
CellsHeld ==
  \A t \in Text :
    /\ untrans_idx_set[t] \cup is_trans[t] \subseteq Cells(t)
    /\ answer[t] = "NEW" => is_trans[t] = {}
    /\ Pending(t) => ~(Cells(t) \subseteq is_trans[t])

\* Wherever its UCB is, listed or erased under it, a block is held by exactly one UCB as
\* long as its text waits and no longer, and every task can find the block it is for:
\* cancelling and submitting in between neither duplicates a block nor orphans a task.
Bookkeeping == UcbsHeld /\ BlocksHeld /\ TasksHeld /\ CellsHeld

InList(u) == \E d \in Domain : u \in ToSet(usr_list[d])

Scheduled(t) == \E u \in Text : InList(u) /\ t \in ToSet(text_block_list[u])

\* A text that waits for its answer is in a block of a listed UCB, where GetReadyTask
\* and the requests can find it, unless its user cancelled some text (SuccessTask may
\* then erase the wrong UCB); so the RTT instance, which has no cancel, loses none.
PendingIsScheduled ==
  \A t \in Text : Pending(t) =>
    \/ Scheduled(t)
    \/ \E other \in Text : UsrID[other] = UsrID[t] /\ answer[other] = "USR_CANCEL"

\* Whenever the controller goes back to its event queue, no core has both an idle
\* slave and a cell it could translate: no handler forgets GetReadyTask.
NoIdleSlaveWithReadyCell == Waiting => \A d \in Domain : ~HasReadyTask(d)

\* The assertion in TransText::SetTransResult: the block a result is stored in has the
\* cell.  Broken when a cancelled text is submitted again, shorter, under its old id;
\* holds while no user has two texts of one id.
ResultFitsBlock ==
  \A c \in CallID : InState(c, "RECVING") =>
    \A j \in find_text_block(trans_sess_map[c].ucb, TextID[trans_sess_map[c].text]) :
      trans_sess_map[c].cell \in Cells(text_block_list[trans_sess_map[c].ucb][j])

\* What on_connected says of a failed session: its cell is taken back, to be handed to
\* another slave.  Broken when SuccessTask erased the UCB the cell went back to, which
\* takes a cancel; holds in the RTT instance.
ReturnedCellIsReachable ==
  \A t \in Text : Pending(t) /\ untrans_idx_set[t] # {} => Scheduled(t)

\* Under Fairness every text the RTT instance accepted is answered with a success,
\* through any number of failed sessions, dropped slaves and timeouts.
PendingIsAnswered == \A t \in Text : Pending(t) ~> answer[t] = "SUCCESS"

\* The controller implements TextService.
Service == INSTANCE TextService
ImplementsTextService == Service!TSSpec
=============================================================================
