------------------------- MODULE TransService_proofs -------------------------
(***************************************************************************)
(* TransController implements TextService, keeps its books and leaves no   *)
(* text unscheduled, for any set of texts, slaves and calls, as long as no *)
(* user has two texts under one id.                                        *)
(***************************************************************************)
EXTENDS TransController_proofs

\* Text ids are UUIDs the server draws (TransText::GenerateTextUUID), or come from the
\* client; a text that a user submits under the id of an earlier one, cancelled or not,
\* breaks what is proved here (ResultFitsBlock).  What other users call theirs is all one.
OwnTextIDs ==
  \A t, b \in Text : UsrID[t] = UsrID[b] /\ TextID[t] = TextID[b] => t = b

CellInv == TasksHeld /\ CellsHeld /\ EachCellOnce

IInv == ListInv /\ CellInv

LEMMA Parts ==
  ASSUME IInv
  PROVE  /\ TypeOK /\ Bookkeeping /\ EachCellOnce
         /\ ListsHeld /\ TasksAtHome /\ OwnersHeld
BY DEF IInv, ListInv, Held, CellInv, Bookkeeping

-----------------------------------------------------------------------------
(* What each action does to cells and tasks. *)

\* A step that touches neither blocks, cells, answers nor sessions keeps the invariant.
LEMMA SameCells ==
  ASSUME Bookkeeping, EachCellOnce,
         UNCHANGED <<text_block_list, untrans_idx_set, is_trans, answer, trans_sess_map>>
  PROVE  CellInv'
BY DEF CellInv, Bookkeeping, TasksHeld, CellsHeld, EachCellOnce, TasksFor, Live, Pending

\* The step answers the text b of the j-th block of u, which leaves the UCB; cells,
\* tasks and answers of all other texts stay as they are.
AnswersBlock(u, j, b, res) ==
  /\ j \in DOMAIN text_block_list[u] /\ b = text_block_list[u][j]
  /\ res \in {"SUCCESS", "USR_CANCEL"}
  /\ text_block_list' = [text_block_list EXCEPT ![u] = RemoveAt(@, j)]
  /\ answer' = [answer EXCEPT ![b] = res]
  /\ untrans_idx_set' = untrans_idx_set
  /\ is_trans'[b] \subseteq Cells(b)
  /\ \A r \in Text : r # b => is_trans'[r] = is_trans[r]
  /\ \A c \in CallID : Live(c)' =>
       /\ Live(c)
       /\ trans_sess_map'[c].text = trans_sess_map[c].text
       /\ trans_sess_map'[c].cell = trans_sess_map[c].cell
       /\ trans_sess_map'[c].ucb = trans_sess_map[c].ucb
  /\ \A r \in Text, k \in Nat : r # b => TasksFor(r, k)' = TasksFor(r, k)

\* Its own tasks no longer matter, and the invariant holds for the others.
LEMMA BlockAnswered ==
  ASSUME TypeOK, Bookkeeping, EachCellOnce,
         NEW u \in Text, NEW j, NEW b, NEW res, AnswersBlock(u, j, b, res)
  PROVE  CellInv'
<1>1. /\ Pending(b) /\ b \in Text
      /\ ToSet(text_block_list'[u]) = ToSet(text_block_list[u]) \ {b}
      /\ \A v \in Text : v # u => text_block_list'[v] = text_block_list[v]
  <2>1. /\ j \in DOMAIN text_block_list[u] /\ b = text_block_list[u][j]
        /\ text_block_list' = [text_block_list EXCEPT ![u] = RemoveAt(@, j)]
        /\ answer' = [answer EXCEPT ![b] = res]
    BY DEF AnswersBlock
  <2>2. BlocksHeld
    BY DEF Bookkeeping
  <2> QED BY <2>1, <2>2, BlocksTakenOut
<1>2. /\ answer'[b] = res /\ res # "NEW" /\ ~Pending(b)'
      /\ \A r \in Text : r # b => answer'[r] = answer[r] /\ Pending(r)' = Pending(r)
  BY <1>1, TypeFacts DEF Pending, AnswersBlock
<1>3. TasksHeld'
  <2> SUFFICES ASSUME NEW c \in CallID, Live(c)'
               PROVE  \E r \in {trans_sess_map'[c].text} :
                        /\ trans_sess_map'[c].cell \in Cells(r) /\ answer'[r] # "NEW"
                        /\ Pending(r)' => r \in ToSet(text_block_list'[trans_sess_map'[c].ucb])
    BY DEF TasksHeld
  <2>1. PICK r, v : r = trans_sess_map[c].text /\ v = trans_sess_map[c].ucb
    OBVIOUS
  <2>2. /\ Live(c) /\ r \in Text /\ v \in Text
        /\ trans_sess_map'[c].text = r /\ trans_sess_map'[c].ucb = v
        /\ trans_sess_map'[c].cell = trans_sess_map[c].cell
    <3>1. /\ Live(c) /\ trans_sess_map'[c].text = r /\ trans_sess_map'[c].ucb = v
          /\ trans_sess_map'[c].cell = trans_sess_map[c].cell
      BY <2>1 DEF AnswersBlock
    <3> QED BY <2>1, <3>1, LiveSession DEF Live, TransSession
  <2>3. /\ trans_sess_map[c].cell \in Cells(r) /\ answer[r] # "NEW"
        /\ Pending(r) => r \in ToSet(text_block_list[v])
    BY <2>1, <2>2 DEF Bookkeeping, TasksHeld
  <2>4. answer'[r] # "NEW" /\ (Pending(r)' => r # b /\ Pending(r))
    BY <1>2, <2>2, <2>3
  <2>5. Pending(r)' => r \in ToSet(text_block_list'[v])
    BY <1>1, <2>2, <2>3, <2>4
  <2> QED BY <2>2, <2>3, <2>4, <2>5
<1>4. CellsHeld'
  <2> SUFFICES ASSUME NEW r \in Text
               PROVE  /\ untrans_idx_set'[r] \cup is_trans'[r] \subseteq Cells(r)
                      /\ answer'[r] = "NEW" => is_trans'[r] = {}
                      /\ Pending(r)' => ~(Cells(r) \subseteq is_trans'[r])
    BY DEF CellsHeld
  <2>1. CASE r = b
    BY <1>2, <2>1 DEF Bookkeeping, CellsHeld, AnswersBlock
  <2>2. CASE r # b
    BY <1>2, <2>2 DEF Bookkeeping, CellsHeld, AnswersBlock
  <2> QED BY <2>1, <2>2
<1>5. EachCellOnce'
  <2> SUFFICES ASSUME NEW r \in Text, Pending(r)', NEW k \in Cells(r)
               PROVE  /\ k \notin untrans_idx_set'[r] \cap is_trans'[r]
                      /\ k \in untrans_idx_set'[r] \cup is_trans'[r] <=> TasksFor(r, k)' = {}
                      /\ \A c1, c2 \in TasksFor(r, k)' : c1 = c2
    BY DEF EachCellOnce
  <2>1. r # b /\ Pending(r)
    BY <1>2
  <2>2. k \in Nat
    BY ConfigAssumption DEF Cells
  <2> QED BY <2>1, <2>2 DEF EachCellOnce, AnswersBlock
<1> QED BY <1>3, <1>4, <1>5 DEF CellInv

LEMMA InvGetReadyTask == IInv /\ GetReadyTask => CellInv'
<1> SUFFICES ASSUME TypeOK, Bookkeeping, EachCellOnce,
                    NEW d \in Domain \cap {ready_core},
                    NEW s \in idle_slaves(d),
                    NEW i \in FirstAt(usr_list[d], ready_ucbs(d)),
                    NEW u \in {usr_list[d][i]},
                    NEW j \in FirstAt(text_block_list[u], ready_blocks(u)),
                    NEW t \in {text_block_list[u][j]},
                    NEW idx \in untrans_idx_set[t], NEW c \in CallID,
                    HandOut(d, s, i, u, j, t, idx, c)
             PROVE  CellInv'
  BY Parts DEF GetReadyTask
<1> DEFINE new == [state |-> "CONNECT", ucb |-> u, text |-> t, cell |-> idx, slave |-> s]
<1>1. /\ i \in DOMAIN usr_list[d] /\ u \in ToSet(usr_list[d]) /\ u \in Text
      /\ j \in DOMAIN text_block_list[u] /\ t \in ToSet(text_block_list[u]) /\ t \in Text
  BY FirstAtInDomain, TypeFacts DEF ToSet
<1>2. Pending(t) /\ idx \in Cells(t) /\ idx \in Nat /\ s \in Slave
  BY <1>1, TypeFacts DEF Bookkeeping, BlocksHeld, CellsHeld, idle_slaves, TypeOK
<1>3. /\ new \in TransSession /\ new # NoSession
      /\ new.state = "CONNECT" /\ new.ucb = u /\ new.text = t /\ new.cell = idx
  BY <1>1, <1>2, SessionAssumption DEF TransSession
<1>4. /\ trans_sess_map[c] = NoSession /\ trans_sess_map'[c] = new
      /\ \A b \in CallID : b # c => trans_sess_map'[b] = trans_sess_map[b]
  BY TypeFacts DEF HandOut, call_slave_for_trans
<1> HIDE DEF new
<1>5. \A v \in Text : ToSet(text_block_list'[v]) = ToSet(text_block_list[v])
  <2>1. ToSet(Rotate(text_block_list[u], j)) = ToSet(text_block_list[u])
    BY <1>1, TypeFacts, RotateContent
  <2> QED BY <1>1, <2>1, TypeFacts DEF HandOut, CreateTask
<1>6. /\ untrans_idx_set'[t] = untrans_idx_set[t] \ {idx}
      /\ \A r \in Text : r # t => untrans_idx_set'[r] = untrans_idx_set[r]
      /\ is_trans' = is_trans /\ answer' = answer
  BY <1>1, TypeFacts DEF HandOut, CreateTask
<1>7. /\ ~Live(c) /\ Live(c)'
      /\ \A b \in CallID : b # c => Live(b)' = Live(b)
  BY <1>3, <1>4 DEF Live
<1>8. TasksHeld'
  <2>1. ASSUME NEW b \in CallID, Live(b)', b # c
        PROVE  \E r \in {trans_sess_map'[b].text} :
                 /\ trans_sess_map'[b].cell \in Cells(r) /\ answer'[r] # "NEW"
                 /\ Pending(r)' => r \in ToSet(text_block_list'[trans_sess_map'[b].ucb])
    <3>1. Live(b) /\ trans_sess_map'[b] = trans_sess_map[b] /\ trans_sess_map[b].ucb \in Text
      BY <1>4, <1>7, <2>1, LiveSession DEF Live, TransSession
    <3> QED BY <1>5, <1>6, <3>1 DEF Bookkeeping, TasksHeld, Pending
  <2>2. answer[t] # "NEW"
    BY <1>2 DEF Pending
  <2> QED BY <1>1, <1>2, <1>3, <1>4, <1>5, <1>6, <2>1, <2>2 DEF TasksHeld
<1>9. CellsHeld'
  BY <1>6 DEF Bookkeeping, CellsHeld, Pending
<1>10. EachCellOnce'
  <2>1. /\ \A r \in Text, k \in Nat : r # t \/ k # idx => TasksFor(r, k)' = TasksFor(r, k)
        /\ TasksFor(t, idx)' = TasksFor(t, idx) \cup {c}
    BY <1>3, <1>4, <1>7 DEF TasksFor
  <2>2. TasksFor(t, idx) = {} /\ idx \notin is_trans[t]
    BY <1>1, <1>2 DEF EachCellOnce
  <2>3. \A r \in Text : Cells(r) \subseteq Nat
    BY ConfigAssumption DEF Cells
  <2> SUFFICES ASSUME NEW r \in Text, Pending(r), NEW k \in Cells(r)
               PROVE  /\ k \notin untrans_idx_set'[r] \cap is_trans[r]
                      /\ k \in untrans_idx_set'[r] \cup is_trans[r] <=> TasksFor(r, k)' = {}
                      /\ \A c1, c2 \in TasksFor(r, k)' : c1 = c2
    BY <1>6 DEF EachCellOnce, Pending
  <2>4. CASE r = t /\ k = idx
    BY <1>6, <2>1, <2>2, <2>4
  <2>5. CASE r # t \/ k # idx
    <3>1. TasksFor(r, k)' = TasksFor(r, k)
      BY <2>1, <2>3, <2>5
    <3>2. k \in untrans_idx_set'[r] <=> k \in untrans_idx_set[r]
      BY <1>6, <2>5
    <3> QED BY <3>1, <3>2 DEF EachCellOnce
  <2> QED BY <2>4, <2>5
<1> QED BY <1>8, <1>9, <1>10 DEF CellInv

LEMMA InvSlaves ==
  /\ \A s \in Slave : IInv /\ on_slave_pluse(s) => CellInv'
  /\ \A overdue : IInv /\ on_timer(overdue) => CellInv'
BY SameCells, Parts DEF on_slave_pluse, on_timer, text_vars

LEMMA InvSubmit == \A t \in Text : IInv /\ on_trans_submit(t) => CellInv'
<1> SUFFICES ASSUME NEW t \in Text, TypeOK, ListsHeld, Bookkeeping, EachCellOnce, on_trans_submit(t)
             PROVE  CellInv'
  BY Parts
<1>1. answer[t] = "NEW" /\ trans_sess_map' = trans_sess_map
  BY DEF on_trans_submit
<1>2. is_trans[t] = {}
  BY <1>1 DEF Bookkeeping, CellsHeld
<1>3. \A c \in CallID : Live(c) => trans_sess_map[c].text # t /\ trans_sess_map[c].text \in Text
  <2>1. \A c \in CallID : Live(c) => trans_sess_map[c].text \in Text
    BY LiveSession DEF Live, TransSession
  <2>2. \A c \in CallID : Live(c) => answer[trans_sess_map[c].text] # "NEW"
    BY DEF Bookkeeping, TasksHeld
  <2> QED BY <1>1, <2>1, <2>2
<1>4. /\ \A c \in CallID : Live(c)' = Live(c)
      /\ \A r, k : TasksFor(r, k)' = TasksFor(r, k)
      /\ \A k : TasksFor(t, k) = {}
  BY <1>1, <1>3 DEF Live, TasksFor
<1>5. CASE RefuseSubmit(t)
  <2>1. /\ UNCHANGED <<text_block_list, untrans_idx_set, is_trans>>
        /\ answer'[t] # "NEW" /\ answer'[t] # "PENDING"
        /\ \A r \in Text : r # t => answer'[r] = answer[r]
    BY <1>5, TypeFacts DEF RefuseSubmit, finish_translation
  <2>2. \A r \in Text : Pending(r)' => r # t /\ Pending(r)
    BY <2>1 DEF Pending
  <2>3. CellsHeld'
    BY <2>1, <2>2 DEF Bookkeeping, CellsHeld
  <2>4. TasksHeld'
    BY <1>1, <1>3, <1>4, <2>1, <2>2 DEF Bookkeeping, TasksHeld
  <2>5. EachCellOnce'
    BY <1>4, <2>1, <2>2 DEF EachCellOnce
  <2> QED BY <2>3, <2>4, <2>5 DEF CellInv
<1>6. CASE SubmitTranslation(t)
  <2>1. /\ TransSize[t] > 0 /\ is_trans' = is_trans
        /\ answer'[t] = "PENDING" /\ \A r \in Text : r # t => answer'[r] = answer[r]
        /\ untrans_idx_set'[t] = Cells(t)
        /\ \A r \in Text : r # t => untrans_idx_set'[r] = untrans_idx_set[r]
    BY <1>6, TypeFacts DEF SubmitTranslation
  <2>2. PICK d \in Domain, u \in Text : SubmittedTo(t, d, u)
    BY <1>1, <1>6, SubmitStep DEF Bookkeeping
  <2>3. /\ ToSet(text_block_list'[u]) = ToSet(text_block_list[u]) \cup {t}
        /\ \A v \in Text : v # u => text_block_list'[v] = text_block_list[v]
    BY <2>2 DEF SubmittedTo
  <2>4. TasksHeld'
    <3> SUFFICES ASSUME NEW c \in CallID, Live(c)'
                 PROVE  \E r \in {trans_sess_map'[c].text} :
                          /\ trans_sess_map'[c].cell \in Cells(r) /\ answer'[r] # "NEW"
                          /\ Pending(r)' => r \in ToSet(text_block_list'[trans_sess_map'[c].ucb])
      BY DEF TasksHeld
    <3> DEFINE r == trans_sess_map[c].text
               v == trans_sess_map[c].ucb
    <3>1. Live(c) /\ r # t /\ r \in Text /\ v \in Text
      BY <1>3, <1>4, LiveSession DEF Live, TransSession
    <3>2. trans_sess_map[c].cell \in Cells(r) /\ answer[r] # "NEW" /\ (Pending(r) => r \in ToSet(text_block_list[v]))
      BY <3>1 DEF Bookkeeping, TasksHeld
    <3>3. ToSet(text_block_list[v]) \subseteq ToSet(text_block_list'[v])
      BY <2>3, <3>1
    <3> QED BY <1>1, <2>1, <3>1, <3>2, <3>3 DEF Pending
  <2>5. CellsHeld'
    <3>1. 0 \in Cells(t)
      BY <2>1, ConfigAssumption DEF Cells
    <3>2. ~(Cells(t) \subseteq is_trans'[t])
      BY <1>2, <2>1, <3>1
    <3> QED BY <1>2, <2>1, <3>2 DEF Bookkeeping, CellsHeld, Pending
  <2>6. EachCellOnce'
    <3> SUFFICES ASSUME NEW r \in Text, Pending(r)', NEW k \in Cells(r)
                 PROVE  /\ k \notin untrans_idx_set'[r] \cap is_trans'[r]
                        /\ k \in untrans_idx_set'[r] \cup is_trans'[r] <=> TasksFor(r, k)' = {}
                        /\ \A c1, c2 \in TasksFor(r, k)' : c1 = c2
      BY DEF EachCellOnce
    <3>1. CASE r = t
      BY <1>2, <1>4, <2>1, <3>1
    <3>2. CASE r # t
      BY <1>4, <2>1, <3>2 DEF EachCellOnce, Pending
    <3> QED BY <3>1, <3>2
  <2> QED BY <2>4, <2>5, <2>6 DEF CellInv
<1> QED BY <1>5, <1>6 DEF on_trans_submit

\* A cancelled text leaves its UCB answered; the cells of the others stay where they are.
LEMMA InvControl ==
  /\ \A usr, tid : IInv /\ on_trans_suspend(usr, tid) => CellInv'
  /\ \A usr, tid : IInv /\ on_trans_rerun(usr, tid) => CellInv'
  /\ \A usr, tid : IInv /\ on_trans_cancel(usr, tid) => CellInv'
<1>1. \A usr, tid : IInv /\ on_trans_suspend(usr, tid) => CellInv'
  BY SameCells, Parts DEF on_trans_suspend
<1>2. \A usr, tid : IInv /\ on_trans_rerun(usr, tid) => CellInv'
  BY SameCells, Parts DEF on_trans_rerun
<1>3. ASSUME NEW usr, NEW tid, TypeOK, Bookkeeping, EachCellOnce, on_trans_cancel(usr, tid)
      PROVE  CellInv'
  <2>1. PICK d \in Domain : \E i \in find_ucb(d, usr) :
          \E u \in {usr_list[d][i]} : \E j \in find_text_block(u, tid) :
            /\ text_block_list' = [text_block_list EXCEPT ![u] = RemoveAt(@, j)]
            /\ answer' = [answer EXCEPT ![text_block_list[u][j]] = "USR_CANCEL"]
            /\ UNCHANGED <<untrans_idx_set, is_trans, trans_sess_map>>
    BY <1>3 DEF on_trans_cancel, finish_translation
  <2>2. PICK i \in find_ucb(d, usr) :
          \E u \in {usr_list[d][i]} : \E j \in find_text_block(u, tid) :
            /\ text_block_list' = [text_block_list EXCEPT ![u] = RemoveAt(@, j)]
            /\ answer' = [answer EXCEPT ![text_block_list[u][j]] = "USR_CANCEL"]
    BY <2>1
  <2>3. PICK u, j : /\ u = usr_list[d][i] /\ j \in find_text_block(u, tid)
                    /\ text_block_list' = [text_block_list EXCEPT ![u] = RemoveAt(@, j)]
                    /\ answer' = [answer EXCEPT ![text_block_list[u][j]] = "USR_CANCEL"]
    BY <2>2
  <2>4. i \in DOMAIN usr_list[d] /\ u \in Text /\ j \in DOMAIN text_block_list[u]
    BY <1>3, <2>3, FindUcb, FindTextBlock
  <2>5. PICK b : b = text_block_list[u][j]
    OBVIOUS
  <2>6. b \in Text
    BY <1>3, <2>4, <2>5, TypeFacts
  <2>7. is_trans'[b] \subseteq Cells(b) /\ \A r \in Text : r # b => is_trans'[r] = is_trans[r]
    BY <1>3, <2>1, <2>6 DEF Bookkeeping, CellsHeld
  <2>8. /\ \A c \in CallID : Live(c)' =>
           /\ Live(c)
           /\ trans_sess_map'[c].text = trans_sess_map[c].text
           /\ trans_sess_map'[c].cell = trans_sess_map[c].cell
           /\ trans_sess_map'[c].ucb = trans_sess_map[c].ucb
        /\ \A r \in Text, k \in Nat : r # b => TasksFor(r, k)' = TasksFor(r, k)
    BY <2>1 DEF Live, TasksFor
  <2>9. answer' = [answer EXCEPT ![b] = "USR_CANCEL"] /\ untrans_idx_set' = untrans_idx_set
    BY <2>1, <2>3, <2>5
  <2>10. AnswersBlock(u, j, b, "USR_CANCEL")
    BY <2>3, <2>4, <2>5, <2>7, <2>8, <2>9 DEF AnswersBlock
  <2> QED BY <1>3, <2>4, <2>10, BlockAnswered
<1> QED BY <1>1, <1>2, <1>3, Parts

\* A session that changes its state keeps its task, and drops it when it starts closing.
LEMMA SessionStep ==
  ASSUME TypeOK, NEW c \in CallID, Live(c),
         NEW st \in {"SENDING", "RECVING", "CLOSING"}, SetState(c, st)
  PROVE  /\ trans_sess_map[c] \in TransSession
         /\ \A b \in CallID : Live(b)' =>
              /\ Live(b)
              /\ trans_sess_map'[b].text = trans_sess_map[b].text
              /\ trans_sess_map'[b].cell = trans_sess_map[b].cell
              /\ trans_sess_map'[b].ucb = trans_sess_map[b].ucb
         /\ st # "CLOSING" => \A r, k : TasksFor(r, k)' = TasksFor(r, k)
         /\ st = "CLOSING" => \A r, k : TasksFor(r, k)' = TasksFor(r, k) \ {c}
<1>1. trans_sess_map[c] \in TransSession
  BY LiveSession DEF Live
<1>2. /\ trans_sess_map'[c] \in TransSession /\ trans_sess_map'[c].state = st
      /\ trans_sess_map'[c].text = trans_sess_map[c].text
      /\ trans_sess_map'[c].cell = trans_sess_map[c].cell
      /\ trans_sess_map'[c].ucb = trans_sess_map[c].ucb
      /\ \A b \in CallID : b # c => trans_sess_map'[b] = trans_sess_map[b]
  BY <1>1, TypeFacts DEF SetState, TransSession
<1>3. Live(c)' <=> st # "CLOSING"
  BY <1>2, SessionAssumption DEF Live
<1>4. \A b \in CallID : b # c => Live(b)' = Live(b)
  BY <1>2 DEF Live
<1>5. st # "CLOSING" => \A r, k : TasksFor(r, k)' = TasksFor(r, k)
  BY <1>2, <1>3, <1>4 DEF TasksFor
<1>6. st = "CLOSING" => \A r, k : TasksFor(r, k)' = TasksFor(r, k) \ {c}
  BY <1>2, <1>3, <1>4 DEF TasksFor
<1>7. \A b \in CallID : Live(b)' =>
        /\ Live(b)
        /\ trans_sess_map'[b].text = trans_sess_map[b].text
        /\ trans_sess_map'[b].cell = trans_sess_map[b].cell
        /\ trans_sess_map'[b].ucb = trans_sess_map[b].ucb
  BY <1>2, <1>3, <1>4
<1> QED BY <1>1, <1>5, <1>6, <1>7

\* What the end of a task finds: its text still waits and has the block and not yet the
\* cell, or its text was answered meanwhile and the block is gone.
LEMMA TaskEnds ==
  ASSUME OwnTextIDs, IInv, NEW c \in CallID, Live(c),
         NEW t, t = trans_sess_map[c].text, NEW u, u = trans_sess_map[c].ucb,
         NEW k, k = trans_sess_map[c].cell
  PROVE  /\ t \in Text /\ u \in Text /\ k \in Cells(t) /\ k \in Nat
         /\ find_text_block(u, TextID[t]) = {} => ~Pending(t)
         /\ \A b \in Text : b \in ToSet(text_block_list[u]) /\ TextID[b] = TextID[t] => b = t /\ Pending(t)
         /\ Pending(t) => k \notin untrans_idx_set[t] \cup is_trans[t]
         /\ Pending(t) => TasksFor(t, k) = {c}
<1>1. t \in Text /\ u \in Text
  BY LiveSession, Parts DEF Live, TransSession
<1>2. k \in Cells(t) /\ (Pending(t) => t \in ToSet(text_block_list[u]))
  BY Parts DEF Bookkeeping, TasksHeld
<1>3. k \in Nat
  BY <1>1, <1>2, ConfigAssumption DEF Cells
<1>4. find_text_block(u, TextID[t]) = {} => ~Pending(t)
  BY <1>1, <1>2, BlockIsFound, Parts
<1>5. \A b \in Text : b \in ToSet(text_block_list[u]) /\ TextID[b] = TextID[t] => b = t /\ Pending(t)
  <2> SUFFICES ASSUME NEW b \in Text, b \in ToSet(text_block_list[u]), TextID[b] = TextID[t]
               PROVE  b = t /\ Pending(t)
    OBVIOUS
  <2>1. UsrID[b] = UsrID[u] /\ UsrID[t] = UsrID[u]
    BY <1>1, Parts DEF OwnersHeld
  <2>2. b = t
    BY <1>1, <2>1 DEF OwnTextIDs
  <2> QED BY <1>1, <2>2, Parts DEF Bookkeeping, BlocksHeld
<1>6. c \in TasksFor(t, k)
  BY DEF TasksFor
<1>7. Pending(t) => k \notin untrans_idx_set[t] \cup is_trans[t] /\ TasksFor(t, k) = {c}
  BY <1>1, <1>2, <1>6, Parts DEF EachCellOnce
<1> QED BY <1>1, <1>2, <1>3, <1>4, <1>5, <1>7

\* The step of on_session_success, as seen from its text.
LEMMA SuccessStep ==
  ASSUME OwnTextIDs, IInv, NEW c \in CallID, on_recv_packet(c),
         NEW t, t = trans_sess_map[c].text, NEW u, u = trans_sess_map[c].ucb,
         NEW k, k = trans_sess_map[c].cell
  PROVE  \/ ~Pending(t) /\ UNCHANGED <<is_trans, text_block_list, answer>>
         \/ Pending(t) /\ \E j : CellTranslated(u, j, t, k)
<1>1. Live(c) /\ Success(u, TextID[t], k)
  BY DEF on_recv_packet, InState, Live
<1>2. t \in Text /\ u \in Text
  BY <1>1, TaskEnds
<1>3. find_text_block(u, TextID[t]) = {} => ~Pending(t)
  BY <1>1, TaskEnds
<1>4. ASSUME NEW b \in Text, NEW j, TextID[b] = TextID[t], CellTranslated(u, j, b, k)
      PROVE  b = t /\ Pending(t)
  <2>1. b \in ToSet(text_block_list[u])
    BY <1>4 DEF CellTranslated, ToSet
  <2> QED BY <1>1, <1>4, <2>1, TaskEnds
<1>5. \/ /\ find_text_block(u, TextID[t]) = {}
         /\ UNCHANGED <<is_trans, text_block_list, answer>>
      \/ \E b \in Text : \E j : TextID[b] = TextID[t] /\ CellTranslated(u, j, b, k)
  BY <1>1, <1>2, SuccessBlock, Parts
<1> QED BY <1>3, <1>4, <1>5

LEMMA InvSuccess ==
  ASSUME OwnTextIDs, IInv, NEW c \in CallID, on_recv_packet(c)
  PROVE  CellInv'
<1>0. TypeOK /\ Bookkeeping /\ EachCellOnce
  BY Parts
<1>1. PICK t, u, k : /\ t = trans_sess_map[c].text /\ u = trans_sess_map[c].ucb
                     /\ k = trans_sess_map[c].cell
  OBVIOUS
<1>2. Live(c) /\ SetState(c, "CLOSING") /\ untrans_idx_set' = untrans_idx_set
  BY DEF on_recv_packet, InState, Live
<1>3. /\ t \in Text /\ u \in Text /\ k \in Cells(t) /\ k \in Nat
      /\ Pending(t) => k \notin untrans_idx_set[t] \cup is_trans[t]
      /\ Pending(t) => TasksFor(t, k) = {c}
  BY <1>1, <1>2, TaskEnds
<1>4. /\ \A b \in CallID : Live(b)' =>
           /\ Live(b)
           /\ trans_sess_map'[b].text = trans_sess_map[b].text
           /\ trans_sess_map'[b].cell = trans_sess_map[b].cell
           /\ trans_sess_map'[b].ucb = trans_sess_map[b].ucb
      /\ \A r, i : TasksFor(r, i)' = TasksFor(r, i) \ {c}
  BY <1>0, <1>2, SessionStep
<1>5. \A r, i : r # t \/ i # k => TasksFor(r, i)' = TasksFor(r, i)
  BY <1>1, <1>4 DEF TasksFor
<1>6. \/ ~Pending(t) /\ UNCHANGED <<is_trans, text_block_list, answer>>
      \/ Pending(t) /\ \E j : CellTranslated(u, j, t, k)
  BY <1>1, SuccessStep
<1>7. ASSUME text_block_list' = text_block_list, answer' = answer,
             \/ ~Pending(t) /\ is_trans' = is_trans
             \/ /\ Pending(t) /\ ~(Cells(t) \subseteq is_trans'[t])
                /\ is_trans' = [is_trans EXCEPT ![t] = @ \cup {k}]
      PROVE  CellInv'
  <2>0. /\ text_block_list' = text_block_list /\ answer' = answer
        /\ \A r : Pending(r)' = Pending(r)
    BY <1>7 DEF Pending
  <2>1. TasksHeld'
    BY <1>0, <1>4, <2>0 DEF Bookkeeping, TasksHeld
  <2>2. \A r \in Text : r # t \/ ~Pending(t) => is_trans'[r] = is_trans[r]
    BY <1>0, <1>3, <1>7, TypeFacts
  <2>3. Pending(t) => is_trans'[t] = is_trans[t] \cup {k} /\ ~(Cells(t) \subseteq is_trans'[t])
    BY <1>0, <1>3, <1>7, TypeFacts
  <2>4. CellsHeld'
    <3> SUFFICES ASSUME NEW r \in Text
                 PROVE  /\ untrans_idx_set[r] \cup is_trans'[r] \subseteq Cells(r)
                        /\ answer[r] = "NEW" => is_trans'[r] = {}
                        /\ Pending(r) => ~(Cells(r) \subseteq is_trans'[r])
      BY <1>2, <2>0 DEF CellsHeld
    <3>1. CASE r = t /\ Pending(t)
      BY <1>0, <1>3, <2>3, <3>1 DEF Bookkeeping, CellsHeld, Pending
    <3>2. CASE r # t \/ ~Pending(t)
      BY <1>0, <2>2, <3>2 DEF Bookkeeping, CellsHeld
    <3> QED BY <3>1, <3>2
  <2>5. EachCellOnce'
    <3> SUFFICES ASSUME NEW r \in Text, Pending(r), NEW i \in Cells(r)
                 PROVE  /\ i \notin untrans_idx_set[r] \cap is_trans'[r]
                        /\ i \in untrans_idx_set[r] \cup is_trans'[r] <=> TasksFor(r, i)' = {}
                        /\ \A c1, c2 \in TasksFor(r, i)' : c1 = c2
      BY <1>2, <2>0 DEF EachCellOnce
    <3>1. CASE r = t /\ i = k
      BY <1>3, <1>4, <2>3, <3>1
    <3>2. CASE r # t \/ i # k
      <4>1. TasksFor(r, i)' = TasksFor(r, i) /\ (i \in is_trans'[r] <=> i \in is_trans[r])
        BY <1>5, <2>2, <2>3, <3>2
      <4> QED BY <1>0, <4>1 DEF EachCellOnce
    <3> QED BY <3>1, <3>2
  <2> QED BY <2>1, <2>4, <2>5 DEF CellInv
<1>8. ASSUME NEW j, CellTranslated(u, j, t, k), Pending(t),
             text_block_list' = [text_block_list EXCEPT ![u] = RemoveAt(@, j)],
             answer' = [answer EXCEPT ![t] = "SUCCESS"]
      PROVE  CellInv'
  <2>1. is_trans'[t] = is_trans[t] \cup {k} /\ \A r \in Text : r # t => is_trans'[r] = is_trans[r]
    BY <1>0, <1>3, <1>8, TypeFacts DEF CellTranslated
  <2>2. is_trans'[t] \subseteq Cells(t)
    BY <1>0, <1>3, <2>1 DEF Bookkeeping, CellsHeld
  <2>3. j \in DOMAIN text_block_list[u] /\ t = text_block_list[u][j]
    BY <1>8 DEF CellTranslated
  <2>4. AnswersBlock(u, j, t, "SUCCESS")
    BY <1>2, <1>4, <1>5, <1>8, <2>1, <2>2, <2>3 DEF AnswersBlock
  <2> QED BY <1>0, <1>3, <2>4, BlockAnswered
<1> QED BY <1>6, <1>7, <1>8 DEF CellTranslated

\* The cell of a failed session goes back where it came from, if its text still waits.
LEMMA InvFailed ==
  ASSUME OwnTextIDs, IInv, NEW c \in CallID, on_session_failed(c)
  PROVE  CellInv'
<1>0. TypeOK /\ Bookkeeping /\ EachCellOnce
  BY Parts
<1>1. PICK t, u, k : /\ t = trans_sess_map[c].text /\ u = trans_sess_map[c].ucb
                     /\ k = trans_sess_map[c].cell
  OBVIOUS
<1>2. /\ Live(c) /\ SetState(c, "CLOSING") /\ Failed(u, TextID[t], k)
      /\ text_block_list' = text_block_list
      /\ is_trans' = is_trans /\ answer' = answer
  BY <1>1 DEF on_session_failed
<1>3. /\ t \in Text /\ u \in Text /\ k \in Cells(t) /\ k \in Nat
      /\ find_text_block(u, TextID[t]) = {} => ~Pending(t)
      /\ \A b \in Text : b \in ToSet(text_block_list[u]) /\ TextID[b] = TextID[t] => b = t /\ Pending(t)
      /\ Pending(t) => k \notin untrans_idx_set[t] \cup is_trans[t]
      /\ Pending(t) => TasksFor(t, k) = {c}
  BY <1>1, <1>2, TaskEnds
<1>4. /\ \A b \in CallID : Live(b)' =>
           /\ Live(b)
           /\ trans_sess_map'[b].text = trans_sess_map[b].text
           /\ trans_sess_map'[b].cell = trans_sess_map[b].cell
           /\ trans_sess_map'[b].ucb = trans_sess_map[b].ucb
      /\ \A r, i : TasksFor(r, i)' = TasksFor(r, i) \ {c}
  BY <1>0, <1>2, SessionStep
<1>5. \A r, i : r # t \/ i # k => TasksFor(r, i)' = TasksFor(r, i)
  BY <1>1, <1>4 DEF TasksFor
<1>6. \A r : Pending(r)' = Pending(r)
  BY <1>2 DEF Pending
<1>7. /\ \A r \in Text : r # t \/ ~Pending(t) => untrans_idx_set'[r] = untrans_idx_set[r]
      /\ Pending(t) => untrans_idx_set'[t] = untrans_idx_set[t] \cup {k}
  <2>1. \/ UNCHANGED untrans_idx_set /\ find_text_block(u, TextID[t]) = {}
        \/ \E b \in Text : \E j \in DOMAIN text_block_list[u] :
             /\ text_block_list[u][j] = b /\ TextID[b] = TextID[t]
             /\ untrans_idx_set' = [untrans_idx_set EXCEPT ![b] = @ \cup {k}]
    BY <1>0, <1>2, <1>3, FailedBlock
  <2>2. CASE UNCHANGED untrans_idx_set /\ find_text_block(u, TextID[t]) = {}
    BY <1>3, <2>2
  <2>3. ASSUME NEW b \in Text, NEW j \in DOMAIN text_block_list[u],
               text_block_list[u][j] = b, TextID[b] = TextID[t],
               untrans_idx_set' = [untrans_idx_set EXCEPT ![b] = @ \cup {k}]
        PROVE  /\ Pending(t)
               /\ untrans_idx_set' = [untrans_idx_set EXCEPT ![t] = @ \cup {k}]
    <3>1. b \in ToSet(text_block_list[u])
      BY <2>3 DEF ToSet
    <3>2. b = t /\ Pending(t)
      BY <1>3, <2>3, <3>1
    <3> QED BY <2>3, <3>2
  <2>4. CASE Pending(t) /\ untrans_idx_set' = [untrans_idx_set EXCEPT ![t] = @ \cup {k}]
    BY <1>0, <1>3, <2>4, TypeFacts
  <2> QED BY <2>1, <2>2, <2>3, <2>4
<1>8. TasksHeld'
  BY <1>0, <1>2, <1>4, <1>6 DEF Bookkeeping, TasksHeld
<1>9. CellsHeld'
  <2> SUFFICES ASSUME NEW r \in Text
               PROVE  /\ untrans_idx_set'[r] \cup is_trans[r] \subseteq Cells(r)
                      /\ answer[r] = "NEW" => is_trans[r] = {}
                      /\ Pending(r) => ~(Cells(r) \subseteq is_trans[r])
    BY <1>2, <1>6 DEF CellsHeld
  <2>1. CASE r = t /\ Pending(t)
    BY <1>0, <1>3, <1>7, <2>1 DEF Bookkeeping, CellsHeld
  <2>2. CASE r # t \/ ~Pending(t)
    BY <1>0, <1>7, <2>2 DEF Bookkeeping, CellsHeld
  <2> QED BY <2>1, <2>2
<1>10. EachCellOnce'
  <2> SUFFICES ASSUME NEW r \in Text, Pending(r), NEW i \in Cells(r)
               PROVE  /\ i \notin untrans_idx_set'[r] \cap is_trans[r]
                      /\ i \in untrans_idx_set'[r] \cup is_trans[r] <=> TasksFor(r, i)' = {}
                      /\ \A c1, c2 \in TasksFor(r, i)' : c1 = c2
    BY <1>2, <1>6 DEF EachCellOnce
  <2>1. CASE r = t /\ i = k
    BY <1>3, <1>4, <1>7, <2>1
  <2>2. CASE r # t \/ i # k
    <3>1. TasksFor(r, i)' = TasksFor(r, i) /\ (i \in untrans_idx_set'[r] <=> i \in untrans_idx_set[r])
      BY <1>3, <1>5, <1>7, <2>2
    <3> QED BY <1>0, <3>1 DEF EachCellOnce
  <2> QED BY <2>1, <2>2
<1> QED BY <1>8, <1>9, <1>10 DEF CellInv

\* A session that goes on keeps its task; a socket that is closed had none any more.
LEMMA InvMoves ==
  ASSUME IInv, NEW c \in CallID, on_connected(c) \/ on_send_packet(c) \/ on_close_sock(c)
  PROVE  CellInv'
<1>0. TypeOK /\ Bookkeeping /\ EachCellOnce
  BY Parts
<1>1. /\ text_block_list' = text_block_list
      /\ untrans_idx_set' = untrans_idx_set /\ is_trans' = is_trans /\ answer' = answer
  BY DEF on_connected, on_send_packet, on_close_sock, text_vars
<1>2. /\ \A b \in CallID : Live(b)' =>
           /\ Live(b)
           /\ trans_sess_map'[b].text = trans_sess_map[b].text
           /\ trans_sess_map'[b].cell = trans_sess_map[b].cell
           /\ trans_sess_map'[b].ucb = trans_sess_map[b].ucb
      /\ \A r, k : TasksFor(r, k)' = TasksFor(r, k)
  <2>1. CASE on_connected(c)
    <3>1. Live(c) /\ SetState(c, "SENDING")
      BY <2>1 DEF on_connected, InState, Live
    <3> QED BY <1>0, <3>1, SessionStep
  <2>2. CASE on_send_packet(c)
    <3>1. Live(c) /\ SetState(c, "RECVING")
      BY <2>2 DEF on_send_packet, InState, Live
    <3> QED BY <1>0, <3>1, SessionStep
  <2>3. CASE on_close_sock(c)
    <3>1. ~Live(c) /\ trans_sess_map' = [trans_sess_map EXCEPT ![c] = NoSession]
      BY <2>3 DEF on_close_sock, InState, Live
    <3>2. /\ ~Live(c)'
          /\ \A b \in CallID : b # c => trans_sess_map'[b] = trans_sess_map[b] /\ Live(b)' = Live(b)
      BY <1>0, <3>1, TypeFacts DEF Live
    <3> QED BY <3>1, <3>2 DEF TasksFor
  <2> QED BY <2>1, <2>2, <2>3
<1>3. \A r : Pending(r)' = Pending(r)
  BY <1>1 DEF Pending
<1>4. CellsHeld'
  BY <1>0, <1>1, <1>3 DEF Bookkeeping, CellsHeld
<1>5. TasksHeld'
  BY <1>0, <1>1, <1>2, <1>3 DEF Bookkeeping, TasksHeld
<1>6. EachCellOnce'
  BY <1>0, <1>1, <1>2, <1>3 DEF EachCellOnce
<1> QED BY <1>4, <1>5, <1>6 DEF CellInv

-----------------------------------------------------------------------------
(* The invariant, and the theorems. *)

LEMMA InvInit == Init => IInv
<1> SUFFICES ASSUME Init PROVE CellInv
  BY ListInit DEF IInv
<1>1. \A t \in Text : answer[t] = "NEW" /\ ~Pending(t)
  BY DEF Init, Pending
<1>2. EachCellOnce
  BY <1>1 DEF EachCellOnce
<1>3. TasksHeld
  BY DEF Init, TasksHeld, Live
<1>4. CellsHeld
  BY <1>1 DEF Init, CellsHeld
<1> QED BY <1>2, <1>3, <1>4 DEF CellInv

LEMMA InvNext == ASSUME OwnTextIDs, IInv, [Next]_vars PROVE IInv'
<1>1. ListInv'
  BY ListNext DEF IInv
<1>2. CellInv'
  <2>1. CASE UNCHANGED vars
    BY <2>1, SameCells, Parts DEF vars, text_vars
  <2>2. CASE GetReadyTask
    BY <2>2, InvGetReadyTask
  <2>3. ASSUME NEW s \in Slave, on_slave_pluse(s) PROVE CellInv'
    BY <2>3, InvSlaves
  <2>4. ASSUME NEW overdue, on_timer(overdue) PROVE CellInv'
    BY <2>4, InvSlaves
  <2>5. ASSUME NEW t \in Text, Request(t) PROVE CellInv'
    BY <2>5, InvSubmit, InvControl DEF Request
  <2>6. ASSUME NEW c \in CallID, Session(c) PROVE CellInv'
    BY <2>6, InvSuccess, InvFailed, InvMoves DEF Session
  <2> QED BY <2>1, <2>2, <2>3, <2>4, <2>5, <2>6 DEF Next
<1> QED BY <1>1, <1>2 DEF IInv

\* The invariant holds in every behaviour.
THEOREM Invariance == ASSUME OwnTextIDs PROVE Spec => []IInv
<1>1. IInv /\ [Next]_vars => IInv'
  BY InvNext
<1> QED BY <1>1, InvInit, PTL DEF Spec

\* Blocks and tasks belong together in every behaviour: whatever requests, failures,
\* heartbeats and timeouts come in between, no block is in two UCBs or in none, and no
\* task loses the block it is for.
THEOREM BooksAreKept == ASSUME OwnTextIDs PROVE Spec => []Bookkeeping
<1>1. IInv => Bookkeeping
  BY Parts
<1> QED BY <1>1, Invariance, PTL

\* No cell is lost, translated twice or on its way twice, however its sessions end.
THEOREM EachCellHasOnePlace == ASSUME OwnTextIDs PROVE Spec => []EachCellOnce
<1>1. IInv => EachCellOnce
  BY Parts
<1> QED BY <1>1, Invariance, PTL

\* A result is stored in the block it was made for, the assertion of SetTransResult,
\* unless one user submits two texts under one id.
THEOREM ResultsFit == ASSUME OwnTextIDs PROVE Spec => []ResultFitsBlock
<1>1. IInv => ResultFitsBlock
  <2> SUFFICES ASSUME IInv, NEW c \in CallID, InState(c, "RECVING"),
                      NEW t, t = trans_sess_map[c].text, NEW u, u = trans_sess_map[c].ucb,
                      NEW j \in find_text_block(u, TextID[t])
               PROVE  trans_sess_map[c].cell \in Cells(text_block_list[u][j])
    BY DEF ResultFitsBlock
  <2>1. Live(c)
    BY DEF InState, Live
  <2>2. t \in Text /\ u \in Text /\ trans_sess_map[c].cell \in Cells(t)
        /\ \A b \in Text : b \in ToSet(text_block_list[u]) /\ TextID[b] = TextID[t] => b = t
    BY <2>1, TaskEnds
  <2>3. /\ text_block_list[u][j] \in Text /\ text_block_list[u][j] \in ToSet(text_block_list[u])
        /\ TextID[text_block_list[u][j]] = TextID[t]
    BY <2>2, FindTextBlock, Parts DEF ToSet
  <2> QED BY <2>2, <2>3
<1> QED BY <1>1, Invariance, PTL

-----------------------------------------------------------------------------
(* Refinement. *)

\* Refused, or taken and answered only if there is nothing to translate.
LEMMA SubmitImplements ==
  ASSUME NEW t \in Text, on_trans_submit(t)
  PROVE  Service!Submit(t)
<1>1. /\ answer[t] = "NEW" /\ is_trans' = is_trans
      /\ \E res \in {"NO_ALIVE", "DOMAIN_NOT_FIND", "PENDING", "SUCCESS"} :
           /\ res = "PENDING" => TransSize[t] > 0
           /\ res = "SUCCESS" => TransSize[t] = 0
           /\ answer' = [answer EXCEPT ![t] = res]
  BY DEF on_trans_submit, RefuseSubmit, SubmitTranslation, finish_translation
<1>2. /\ TransSize[t] > 0 => Service!Cells(t) # {}
      /\ TransSize[t] = 0 => Service!Cells(t) = {}
  BY ConfigAssumption DEF Service!Cells
<1> QED BY <1>1, <1>2 DEF Service!Submit

LEMMA CancelImplements ==
  ASSUME IInv, NEW usr, NEW tid, on_trans_cancel(usr, tid)
  PROVE  \E t \in Text : Service!Cancel(t)
<1>1. PICK d \in Domain : \E i \in find_ucb(d, usr) :
        \E u \in {usr_list[d][i]} : \E j \in find_text_block(u, tid) :
          /\ answer' = [answer EXCEPT ![text_block_list[u][j]] = "USR_CANCEL"]
          /\ UNCHANGED is_trans
  BY DEF on_trans_cancel, finish_translation
<1>2. PICK i \in find_ucb(d, usr) :
        \E u \in {usr_list[d][i]} : \E j \in find_text_block(u, tid) :
          /\ answer' = [answer EXCEPT ![text_block_list[u][j]] = "USR_CANCEL"]
          /\ UNCHANGED is_trans
  BY <1>1
<1>3. PICK u, j, b : /\ u = usr_list[d][i] /\ j \in find_text_block(u, tid)
                     /\ b = text_block_list[u][j]
                     /\ answer' = [answer EXCEPT ![b] = "USR_CANCEL"] /\ UNCHANGED is_trans
  BY <1>2
<1>4. u \in Text /\ j \in DOMAIN text_block_list[u] /\ b \in Text
  BY <1>3, FindUcb, FindTextBlock, Parts
<1>5. Pending(b)
  BY <1>3, <1>4, Parts DEF Bookkeeping, BlocksHeld, ToSet
<1> QED BY <1>3, <1>4, <1>5 DEF Pending, Service!Cancel

\* A result is a new cell of a text that still waits, or it is dropped.
LEMMA SuccessImplements ==
  ASSUME OwnTextIDs, IInv, NEW c \in CallID, on_recv_packet(c)
  PROVE  (\E t \in Text : Service!Translate(t)) \/ UNCHANGED <<answer, is_trans>>
<1>1. PICK t, u, k : /\ t = trans_sess_map[c].text /\ u = trans_sess_map[c].ucb
                     /\ k = trans_sess_map[c].cell
  OBVIOUS
<1>2. Live(c)
  BY DEF on_recv_packet, InState, Live
<1>3. /\ t \in Text /\ k \in Cells(t)
      /\ Pending(t) => k \notin untrans_idx_set[t] \cup is_trans[t]
  BY <1>1, <1>2, TaskEnds
<1>4. \/ ~Pending(t) /\ UNCHANGED <<is_trans, text_block_list, answer>>
      \/ Pending(t) /\ \E j : CellTranslated(u, j, t, k)
  BY <1>1, SuccessStep
<1>5. ASSUME NEW j, CellTranslated(u, j, t, k), Pending(t) PROVE Service!Translate(t)
  <2>1. /\ is_trans' = [is_trans EXCEPT ![t] = @ \cup {k}]
        /\ \/ answer' = answer /\ ~(Cells(t) \subseteq is_trans'[t])
           \/ answer' = [answer EXCEPT ![t] = "SUCCESS"] /\ Cells(t) \subseteq is_trans'[t]
    BY <1>5 DEF CellTranslated
  <2>2. is_trans'[t] \subseteq Cells(t)
    <3>1. is_trans[t] \subseteq Cells(t)
      BY <1>3, Parts DEF Bookkeeping, CellsHeld
    <3> QED BY <1>3, <2>1, <3>1, TypeFacts, Parts
  <2>3. Cells(t) = Service!Cells(t) /\ k \in Cells(t) \ is_trans[t]
    BY <1>3, <1>5 DEF Cells, Service!Cells
  <2>4. answer' = IF is_trans'[t] = Cells(t)
                  THEN [answer EXCEPT ![t] = "SUCCESS"] ELSE answer
    BY <2>1, <2>2
  <2> QED BY <1>5, <2>1, <2>3, <2>4 DEF Pending, Service!Translate
<1> QED BY <1>3, <1>4, <1>5

\* Every step of the controller is a step of the service or does not show there.
LEMMA StepImplements ==
  ASSUME OwnTextIDs, IInv, [Next]_vars
  PROVE  [Service!TSNext]_<<answer, is_trans>>
<1> USE DEF Service!TSNext
<1>1. CASE UNCHANGED vars
  BY <1>1 DEF vars, text_vars
<1>2. CASE GetReadyTask
  BY <1>2 DEF GetReadyTask, HandOut
<1>3. ASSUME NEW s \in Slave, on_slave_pluse(s) PROVE UNCHANGED <<answer, is_trans>>
  BY <1>3 DEF on_slave_pluse, text_vars
<1>4. ASSUME NEW overdue, on_timer(overdue) PROVE UNCHANGED <<answer, is_trans>>
  BY <1>4 DEF on_timer, text_vars
<1>5. ASSUME NEW t \in Text, Request(t) PROVE Service!TSNext \/ UNCHANGED <<answer, is_trans>>
  <2>1. CASE on_trans_submit(t)
    BY <2>1, SubmitImplements
  <2>2. CASE on_trans_suspend(UsrID[t], TextID[t])
    BY <2>2 DEF on_trans_suspend
  <2>3. CASE on_trans_rerun(UsrID[t], TextID[t])
    BY <2>3 DEF on_trans_rerun
  <2>4. CASE on_trans_cancel(UsrID[t], TextID[t])
    BY <2>4, CancelImplements
  <2> QED BY <1>5, <2>1, <2>2, <2>3, <2>4 DEF Request
<1>6. ASSUME NEW c \in CallID, Session(c) PROVE Service!TSNext \/ UNCHANGED <<answer, is_trans>>
  <2>1. CASE on_recv_packet(c)
    BY <2>1, SuccessImplements
  <2>2. CASE ~on_recv_packet(c)
    BY <1>6, <2>2 DEF Session, on_connected, on_send_packet, on_session_failed, on_close_sock, text_vars
  <2> QED BY <2>1, <2>2
<1> QED BY <1>1, <1>2, <1>3, <1>4, <1>5, <1>6 DEF Next

\* The dispatcher keeps what TextService promises: a text is answered once, with a
\* success only when every cell has its translation, and results that come after a
\* cancellation change nothing.
THEOREM Implements == ASSUME OwnTextIDs PROVE Spec => ImplementsTextService
<1>1. Init => Service!TSInit
  BY DEF Init, Service!TSInit
<1>2. IInv /\ [Next]_vars => [Service!TSNext]_<<answer, is_trans>>
  BY StepImplements
<1> QED BY <1>1, <1>2, Invariance, PTL DEF Spec, ImplementsTextService, Service!TSSpec

-----------------------------------------------------------------------------
(* Scheduling: what is in a block is found again through the lists.  Besides *)
(* the invariant above that takes what a task and a UCB that is off the     *)
(* lists leave behind.                                                      *)

Cancelled(usr) == \E other \in Text : UsrID[other] = usr /\ answer[other] = "USR_CANCEL"

\* A text that waits is in a block; a task outlives its text, and a UCB with blocks is
\* off the lists, only when their user cancelled something.
UsersHeld ==
  /\ \A c \in CallID : Live(c) =>
       Pending(trans_sess_map[c].text) \/ Cancelled(UsrID[trans_sess_map[c].text])
  /\ \A t \in Text : Pending(t) => \E u \in Text : t \in ToSet(text_block_list[u])
  /\ \A u \in Text : ToSet(text_block_list[u]) # {} => InList(u) \/ Cancelled(UsrID[u])

SchedInv == IInv /\ UsersHeld

\* Who cancelled a text has cancelled it for good.
LEMMA CancelledStays ==
  ASSUME IInv, [Next]_vars
  PROVE  \A usr : Cancelled(usr) => Cancelled(usr)'
BY AnswersStay, Parts DEF Cancelled, Bookkeeping

\* Steps that change no list, block, answer or task.
LEMMA SchedQuiet ==
  ASSUME SchedInv, UNCHANGED <<usr_list, text_block_list, answer, trans_sess_map>>
  PROVE  UsersHeld'
BY DEF SchedInv, UsersHeld, Live, Pending, Cancelled, InList

LEMMA SchedGetReadyTask ==
  ASSUME OwnTextIDs, SchedInv, GetReadyTask
  PROVE  UsersHeld'
<1>0. TypeOK /\ Bookkeeping /\ ListsHeld /\ TasksAtHome /\ OwnersHeld /\ UsersHeld
  BY Parts DEF SchedInv
<1> SUFFICES ASSUME NEW d \in Domain \cap {ready_core},
                    NEW s \in idle_slaves(d),
                    NEW i \in FirstAt(usr_list[d], ready_ucbs(d)),
                    NEW u \in {usr_list[d][i]},
                    NEW j \in FirstAt(text_block_list[u], ready_blocks(u)),
                    NEW t \in {text_block_list[u][j]},
                    NEW idx \in untrans_idx_set[t], NEW c \in CallID,
                    HandOut(d, s, i, u, j, t, idx, c)
             PROVE  UsersHeld'
  BY DEF GetReadyTask
<1> DEFINE new == [state |-> "CONNECT", ucb |-> u, text |-> t, cell |-> idx, slave |-> s]
<1>1. /\ i \in DOMAIN usr_list[d] /\ u \in ToSet(usr_list[d]) /\ u \in Text
      /\ j \in DOMAIN text_block_list[u] /\ t \in ToSet(text_block_list[u]) /\ t \in Text
  BY <1>0, FirstAtInDomain, TypeFacts DEF ToSet
<1>2. idx \in Nat /\ s \in Slave
  BY <1>0, <1>1 DEF TypeOK, idle_slaves
<1>3. /\ new \in TransSession /\ new # NoSession
      /\ new.text = t
  BY <1>1, <1>2, SessionAssumption DEF TransSession
<1>4. /\ trans_sess_map'[c] = new
      /\ \A b \in CallID : b # c => trans_sess_map'[b] = trans_sess_map[b] /\ Live(b)' = Live(b)
  BY <1>0, TypeFacts DEF HandOut, call_slave_for_trans, Live
<1> HIDE DEF new
<1>5. \A r \in Domain : ToSet(usr_list'[r]) = ToSet(usr_list[r])
  <2>1. ToSet(Rotate(usr_list[d], i)) = ToSet(usr_list[d])
    BY <1>0, <1>1, TypeFacts, RotateContent
  <2> QED BY <1>0, <2>1, TypeFacts DEF HandOut
<1>6. \A v \in Text : ToSet(text_block_list'[v]) = ToSet(text_block_list[v])
  <2>1. ToSet(Rotate(text_block_list[u], j)) = ToSet(text_block_list[u])
    BY <1>0, <1>1, TypeFacts, RotateContent
  <2> QED BY <1>0, <1>1, <2>1, TypeFacts DEF HandOut, CreateTask
<1>7. answer' = answer
  BY DEF HandOut
<1>8. Pending(t)
  BY <1>0, <1>1 DEF Bookkeeping, BlocksHeld
<1>9. UsersHeld'
  <2>1. \A r : Pending(r)' = Pending(r) /\ Cancelled(r)' = Cancelled(r)
    BY <1>7 DEF Pending, Cancelled
  <2>2. \A v \in Text : InList(v)' = InList(v)
    BY <1>5 DEF InList
  <2>3. ASSUME NEW b \in CallID, Live(b)', NEW r, r = trans_sess_map'[b].text
        PROVE  Pending(r)' \/ Cancelled(UsrID[r])'
    <3>1. CASE b = c
      BY <1>0, <1>1, <1>3, <1>4, <1>8, <2>1, <2>3, <3>1 DEF UsersHeld
    <3>2. CASE b # c
      BY <1>0, <1>4, <2>1, <2>3, <3>2 DEF UsersHeld
    <3> QED BY <3>1, <3>2
  <2>4. /\ \A r \in Text : Pending(r)' => \E v \in Text : r \in ToSet(text_block_list'[v])
        /\ \A v \in Text : ToSet(text_block_list'[v]) # {} => InList(v)' \/ Cancelled(UsrID[v])'
    BY <1>0, <1>6, <2>1, <2>2 DEF UsersHeld
  <2> QED BY <2>3, <2>4 DEF UsersHeld
<1> QED BY <1>9

LEMMA SchedSubmit ==
  ASSUME OwnTextIDs, SchedInv, NEW t \in Text, on_trans_submit(t)
  PROVE  UsersHeld'
<1>0. TypeOK /\ Bookkeeping /\ ListsHeld /\ TasksAtHome /\ OwnersHeld /\ UsersHeld
  BY Parts DEF SchedInv
<1>1. answer[t] = "NEW" /\ trans_sess_map' = trans_sess_map
  BY DEF on_trans_submit
<1>2. /\ \A c : Live(c)' = Live(c)
      /\ \A c \in CallID : Live(c) => /\ trans_sess_map[c].text \in Text
                                      /\ answer[trans_sess_map[c].text] # "NEW"
  <2>1. \A c \in CallID : Live(c) => trans_sess_map[c].text \in Text
    BY <1>0, LiveSession DEF Live, TransSession
  <2> QED BY <1>0, <1>1, <2>1 DEF Live, Bookkeeping, TasksHeld
<1>3. CASE RefuseSubmit(t)
  <2>1. /\ UNCHANGED <<usr_list, text_block_list>>
        /\ answer'[t] # "NEW" /\ answer'[t] # "PENDING" /\ answer'[t] # "USR_CANCEL"
        /\ \A r \in Text : r # t => answer'[r] = answer[r]
    BY <1>0, <1>3, TypeFacts DEF RefuseSubmit, finish_translation
  <2>2. /\ \A r \in Text : Pending(r)' <=> Pending(r)
        /\ \A usr : Cancelled(usr)' = Cancelled(usr)
    BY <1>1, <2>1 DEF Pending, Cancelled
  <2>3. UsersHeld'
    <3>1. ASSUME NEW c \in CallID, Live(c)', NEW r, r = trans_sess_map'[c].text
          PROVE  Pending(r)' \/ Cancelled(UsrID[r])'
      BY <1>0, <1>1, <1>2, <2>2, <3>1 DEF UsersHeld
    <3> QED BY <1>0, <2>1, <2>2, <3>1 DEF UsersHeld, InList
  <2> QED BY <2>3
<1>4. CASE SubmitTranslation(t)
  <2>1. PICK d \in Domain, u \in Text : SubmittedTo(t, d, u)
    BY <1>0, <1>1, <1>4, SubmitStep DEF Bookkeeping
  <2>2. /\ answer'[t] = "PENDING" /\ \A r \in Text : r # t => answer'[r] = answer[r]
    BY <1>0, <1>4, TypeFacts DEF SubmitTranslation
  <2>3. /\ \A r \in Text : r # t => Pending(r)' = Pending(r)
        /\ \A usr : Cancelled(usr)' = Cancelled(usr)
    BY <1>1, <2>2 DEF Pending, Cancelled
  <2>4. /\ ToSet(text_block_list'[u]) = ToSet(text_block_list[u]) \cup {t}
        /\ \A v \in Text : v # u => ToSet(text_block_list'[v]) = ToSet(text_block_list[v])
        /\ UsrID[u] = UsrID[t] /\ u \in ToSet(usr_list'[d])
        /\ \A e \in Domain : ToSet(usr_list[e]) \subseteq ToSet(usr_list'[e])
    BY <2>1 DEF SubmittedTo
  <2>5. UsersHeld'
    <3>1. ASSUME NEW c \in CallID, Live(c)', NEW r, r = trans_sess_map'[c].text
          PROVE  Pending(r)' \/ Cancelled(UsrID[r])'
      <4>1. r # t /\ r \in Text /\ r = trans_sess_map[c].text /\ Live(c)
        BY <1>1, <1>2, <3>1
      <4> QED BY <1>0, <1>1, <2>3, <4>1 DEF UsersHeld
    <3>2. \A v \in Text : InList(v) => InList(v)'
      BY <2>4 DEF InList
    <3>3. InList(u)'
      BY <2>4 DEF InList
    <3>4. /\ \A r \in Text : Pending(r)' => \E v \in Text : r \in ToSet(text_block_list'[v])
          /\ \A v \in Text : ToSet(text_block_list'[v]) # {} => InList(v)' \/ Cancelled(UsrID[v])'
      <4>1. ASSUME NEW r \in Text, Pending(r)' PROVE \E v \in Text : r \in ToSet(text_block_list'[v])
        <5>1. CASE r = t
          BY <2>4, <5>1
        <5>2. CASE r # t
          <6>1. PICK v \in Text : r \in ToSet(text_block_list[v])
            BY <1>0, <2>3, <4>1, <5>2 DEF UsersHeld
          <6> QED BY <2>4, <6>1
        <5> QED BY <5>1, <5>2
      <4>2. \A v \in Text : ToSet(text_block_list'[v]) # {} => InList(v)' \/ Cancelled(UsrID[v])'
        BY <1>0, <2>3, <2>4, <3>2, <3>3 DEF UsersHeld
      <4> QED BY <4>1, <4>2
    <3> QED BY <3>1, <3>4 DEF UsersHeld
  <2> QED BY <2>5
<1> QED BY <1>3, <1>4 DEF on_trans_submit

\* Whose UCB goes, or whose task goes on without its text, has cancelled it.
LEMMA SchedCancel ==
  ASSUME OwnTextIDs, SchedInv, NEW usr, NEW tid, on_trans_cancel(usr, tid)
  PROVE  UsersHeld'
<1>0. TypeOK /\ Bookkeeping /\ ListsHeld /\ TasksAtHome /\ OwnersHeld /\ UsersHeld
  BY Parts DEF SchedInv
<1>1. PICK d \in Domain : \E i \in find_ucb(d, usr) :
        \E u \in {usr_list[d][i]} : \E j \in find_text_block(u, tid) :
          /\ text_block_list' = [text_block_list EXCEPT ![u] = RemoveAt(@, j)]
          /\ usr_list' = IF text_block_list'[u] = <<>>
                         THEN [usr_list EXCEPT ![d] = RemoveAt(@, i)] ELSE usr_list
          /\ answer' = [answer EXCEPT ![text_block_list[u][j]] = "USR_CANCEL"]
          /\ UNCHANGED trans_sess_map
  BY DEF on_trans_cancel, finish_translation
<1>2. PICK i \in find_ucb(d, usr) :
        \E u \in {usr_list[d][i]} : \E j \in find_text_block(u, tid) :
          /\ text_block_list' = [text_block_list EXCEPT ![u] = RemoveAt(@, j)]
          /\ usr_list' = IF text_block_list'[u] = <<>>
                         THEN [usr_list EXCEPT ![d] = RemoveAt(@, i)] ELSE usr_list
          /\ answer' = [answer EXCEPT ![text_block_list[u][j]] = "USR_CANCEL"]
  BY <1>1
<1>3. PICK u, j, b :
        /\ u = usr_list[d][i] /\ j \in find_text_block(u, tid) /\ b = text_block_list[u][j]
        /\ text_block_list' = [text_block_list EXCEPT ![u] = RemoveAt(@, j)]
        /\ usr_list' = IF text_block_list'[u] = <<>>
                       THEN [usr_list EXCEPT ![d] = RemoveAt(@, i)] ELSE usr_list
        /\ answer' = [answer EXCEPT ![b] = "USR_CANCEL"]
  BY <1>2
<1>4. /\ i \in DOMAIN usr_list[d] /\ j \in DOMAIN text_block_list[u]
      /\ u \in Text /\ u \in ToSet(usr_list[d])
      /\ b \in Text /\ b \in ToSet(text_block_list[u])
  BY <1>0, <1>3, FindUcb, FindTextBlock DEF ToSet
<1>5. /\ ToSet(text_block_list'[u]) = ToSet(text_block_list[u]) \ {b}
      /\ \A v \in Text : v # u => text_block_list'[v] = text_block_list[v]
  <2>1. /\ j \in DOMAIN text_block_list[u] /\ b = text_block_list[u][j]
        /\ text_block_list' = [text_block_list EXCEPT ![u] = RemoveAt(@, j)]
        /\ answer' = [answer EXCEPT ![b] = "USR_CANCEL"]
    BY <1>3, <1>4
  <2> QED BY <1>0, <1>4, <2>1, BlocksTakenOut DEF Bookkeeping
<1>6. /\ \A e \in Domain : \A v \in ToSet(usr_list[e]) : v # u => v \in ToSet(usr_list'[e])
      /\ text_block_list'[u] # <<>> => usr_list' = usr_list
  <2>1. ToSet(RemoveAt(usr_list[d], i)) = ToSet(usr_list[d]) \ {u}
    BY <1>0, <1>3, <1>4, TypeFacts, RemoveAtContent DEF ListsHeld
  <2>2. CASE usr_list' = usr_list
    BY <2>2
  <2>3. CASE text_block_list'[u] = <<>> /\ usr_list' = [usr_list EXCEPT ![d] = RemoveAt(@, i)]
    BY <1>0, <2>1, <2>3, TypeFacts
  <2> QED BY <1>3, <2>2, <2>3
<1>7. /\ \A r \in Text : Pending(r)' => r # b /\ Pending(r)
      /\ \A r \in Text : Pending(r) /\ r # b => Pending(r)'
      /\ \A q : Cancelled(q) => Cancelled(q)'
      /\ Cancelled(UsrID[b])'
  <2>1. answer \in [Text -> Answers]
    BY <1>0, TypeFacts
  <2>2. /\ answer'[b] = "USR_CANCEL" /\ \A r \in Text : r # b => answer'[r] = answer[r]
    BY <1>3, <1>4, <2>1
  <2>3. \A q : Cancelled(q) => Cancelled(q)'
    BY <2>2 DEF Cancelled
  <2> QED BY <1>4, <2>2, <2>3 DEF Pending, Cancelled
<1>8. /\ trans_sess_map' = trans_sess_map /\ \A c : Live(c)' = Live(c)
      /\ \A c \in CallID : Live(c) => trans_sess_map[c].text \in Text
  <2>1. trans_sess_map' = trans_sess_map
    BY <1>1
  <2> QED BY <1>0, <2>1, LiveSession DEF Live, TransSession
<1>9. UsersHeld'
  <2>1. \A v \in Text : \A r \in ToSet(text_block_list'[v]) : r \in ToSet(text_block_list[v])
    BY <1>5
  <2>2. ASSUME NEW c \in CallID, Live(c)', NEW r, r = trans_sess_map'[c].text
        PROVE  Pending(r)' \/ Cancelled(UsrID[r])'
    <3>1. Live(c) /\ r = trans_sess_map[c].text /\ r \in Text
      BY <1>8, <2>2
    <3>2. Pending(r) \/ Cancelled(UsrID[r])
      BY <1>0, <3>1 DEF UsersHeld
    <3> QED BY <1>7, <1>8, <3>1, <3>2
  <2>3. ASSUME NEW v \in Text, ToSet(text_block_list'[v]) # {} PROVE InList(v)' \/ Cancelled(UsrID[v])'
    <3>1. InList(v) \/ Cancelled(UsrID[v])
      BY <1>0, <2>1, <2>3 DEF UsersHeld
    <3>2. CASE InList(v)
      <4>1. v = u => usr_list' = usr_list
        BY <1>6, <2>3 DEF ToSet
      <4> QED BY <1>6, <3>2, <4>1 DEF InList
    <3> QED BY <1>7, <3>1, <3>2
  <2>4. ASSUME NEW r \in Text, Pending(r)' PROVE \E v \in Text : r \in ToSet(text_block_list'[v])
    <3>1. r # b /\ \E v \in Text : r \in ToSet(text_block_list[v])
      BY <1>0, <1>7, <2>4 DEF UsersHeld
    <3> QED BY <1>5, <3>1
  <2> QED BY <2>2, <2>3, <2>4 DEF UsersHeld
<1> QED BY <1>9

\* A session that moves on, fails or is closed touches no list, block or answer.
LEMMA SchedMoves ==
  ASSUME SchedInv, NEW c \in CallID, Session(c), ~on_recv_packet(c)
  PROVE  UsersHeld'
<1>0. TypeOK /\ UsersHeld
  BY Parts DEF SchedInv
<1>1. UNCHANGED <<usr_list, text_block_list, answer>>
  BY DEF Session, on_connected, on_send_packet, on_session_failed, on_close_sock, text_vars
<1>2. \A b \in CallID : Live(b)' => Live(b) /\ trans_sess_map'[b].text = trans_sess_map[b].text
  BY <1>0, SessionKeeps
<1>3. \A r : Pending(r)' = Pending(r) /\ Cancelled(r)' = Cancelled(r) /\ InList(r)' = InList(r)
  BY <1>1 DEF Pending, Cancelled, InList
<1>4. ASSUME NEW b \in CallID, Live(b)', NEW r, r = trans_sess_map'[b].text
      PROVE  Pending(r)' \/ Cancelled(UsrID[r])'
  BY <1>0, <1>2, <1>3, <1>4 DEF UsersHeld
<1> QED BY <1>0, <1>1, <1>3, <1>4 DEF UsersHeld

\* The UCB that SuccessTask erases is the one the task came from, unless that is off the
\* list, which takes a cancellation by the same user.
LEMMA SchedSuccess ==
  ASSUME OwnTextIDs, SchedInv, NEW c \in CallID, on_recv_packet(c)
  PROVE  UsersHeld'
<1>0. /\ IInv /\ TypeOK /\ Bookkeeping /\ EachCellOnce
      /\ ListsHeld /\ TasksAtHome /\ OwnersHeld /\ UsersHeld
  BY Parts DEF SchedInv
<1>1. PICK t, u, k, d : /\ t = trans_sess_map[c].text /\ u = trans_sess_map[c].ucb
                        /\ k = trans_sess_map[c].cell
                        /\ d = SlaveDomain[trans_sess_map[c].slave]
  OBVIOUS
<1>2. Live(c) /\ EraseEmptyUcb(d, u) /\ SetState(c, "CLOSING")
  BY <1>1 DEF on_recv_packet, InState, Live
<1>3. /\ t \in Text /\ u \in Text /\ k \in Cells(t) /\ k \in Nat
      /\ Pending(t) => TasksFor(t, k) = {c}
  BY <1>0, <1>1, <1>2, TaskEnds
<1>4. d \in Domain
  BY <1>0, <1>1, <1>2, LiveSession, ConfigAssumption DEF Live, TransSession
<1>5. \A b \in CallID : Live(b)' =>
        /\ Live(b) /\ trans_sess_map[b].text \in Text
        /\ trans_sess_map'[b].text = trans_sess_map[b].text
  BY <1>0, SessionKeeps DEF Session
<1>6. ~Live(c)'
  <2>1. trans_sess_map[c] \in TransSession
    BY <1>0, <1>2, LiveSession DEF Live
  <2>2. trans_sess_map'[c].state = "CLOSING"
    BY <1>0, <1>2, <2>1, TypeFacts DEF SetState, TransSession
  <2> QED BY <2>2 DEF Live
<1>7. \/ ~Pending(t) /\ UNCHANGED <<text_block_list, answer>>
      \/ Pending(t) /\ \E j : CellTranslated(u, j, t, k)
  BY <1>0, <1>1, SuccessStep
\* What becomes of the blocks and answers: only t may leave its block, with its answer.
<1> DEFINE OnlyTLeaves ==
             /\ \A v \in Text : ToSet(text_block_list'[v]) \subseteq ToSet(text_block_list[v])
             /\ \A v \in Text : \A r \in ToSet(text_block_list[v]) :
                  Pending(r)' => r \in ToSet(text_block_list'[v])
             /\ \A r \in Text : Pending(r)' => Pending(r)
             /\ \A r \in Text : Pending(r) /\ ~Pending(r)' =>
                  r = t /\ Cells(t) \subseteq is_trans[t] \cup {k}
             /\ \A q : Cancelled(q) => Cancelled(q)'
<1>8. OnlyTLeaves
  <2>1. CASE UNCHANGED <<text_block_list, answer>>
    BY <2>1 DEF Pending, Cancelled
  <2>2. ASSUME Pending(t), NEW j, j \in DOMAIN text_block_list[u], text_block_list[u][j] = t,
               is_trans' = [is_trans EXCEPT ![t] = @ \cup {k}],
               text_block_list' = [text_block_list EXCEPT ![u] = RemoveAt(@, j)],
               answer' = [answer EXCEPT ![t] = "SUCCESS"], Cells(t) \subseteq is_trans'[t]
        PROVE  OnlyTLeaves
    <3>1. answer'[t] = "SUCCESS" /\ \A r \in Text : r # t => answer'[r] = answer[r]
      BY <1>0, <1>3, <2>2, TypeFacts
    <3>2. /\ ToSet(text_block_list'[u]) = ToSet(text_block_list[u]) \ {t}
          /\ \A v \in Text : v # u => text_block_list'[v] = text_block_list[v]
      <4>1. IsInjective(text_block_list[u]) /\ text_block_list \in [Text -> Seq(Text)]
        BY <1>0, <1>3, TypeFacts DEF Bookkeeping, BlocksHeld
      <4>2. ToSet(RemoveAt(text_block_list[u], j)) = ToSet(text_block_list[u]) \ {t}
        BY <1>3, <2>2, <4>1, RemoveAtContent
      <4> QED BY <1>3, <2>2, <4>1, <4>2
    <3>3. is_trans'[t] = is_trans[t] \cup {k}
      BY <1>0, <1>3, <2>2, TypeFacts
    <3>4. \A q : Cancelled(q) => Cancelled(q)'
      BY <2>2, <3>1 DEF Cancelled, Pending
    <3>5. /\ \A r \in Text : r # t => Pending(r)' = Pending(r)
          /\ ~Pending(t)'
      BY <3>1 DEF Pending
    <3> QED BY <2>2, <3>1, <3>2, <3>3, <3>4, <3>5
  <2> QED BY <1>7, <2>1, <2>2 DEF CellTranslated
<1> HIDE DEF OnlyTLeaves
\* What becomes of the lists: a UCB that goes is u, or belongs to a user who cancelled.
<1>9. \A e \in Domain : \A v \in ToSet(usr_list[e]) :
        \/ v \in ToSet(usr_list'[e])
        \/ v = u /\ text_block_list'[u] = <<>>
        \/ Cancelled(UsrID[v])
  <2>1. CASE usr_list' = usr_list
    BY <2>1
  <2>2. ASSUME NEW i \in find_ucb(d, UsrID[u]), text_block_list'[u] = <<>>,
               usr_list' = [usr_list EXCEPT ![d] = RemoveAt(@, i)]
        PROVE  \A e \in Domain : \A v \in ToSet(usr_list[e]) :
                 \/ v \in ToSet(usr_list'[e])
                 \/ v = u /\ text_block_list'[u] = <<>>
                 \/ Cancelled(UsrID[v])
    <3> DEFINE w == usr_list[d][i]
    <3>1. i \in DOMAIN usr_list[d] /\ w \in ToSet(usr_list[d]) /\ UsrID[w] = UsrID[u]
      BY <1>0, <1>4, FindUcb DEF ToSet
    <3>2. ToSet(RemoveAt(usr_list[d], i)) = ToSet(usr_list[d]) \ {w}
      BY <1>0, <1>4, <3>1, TypeFacts, RemoveAtContent DEF ListsHeld
    <3>3. \A e \in Domain : e # d => usr_list'[e] = usr_list[e]
      BY <1>0, <2>2, TypeFacts
    <3>4. usr_list'[d] = RemoveAt(usr_list[d], i)
      BY <1>0, <1>4, <2>2, TypeFacts
    <3>5. w = u \/ Cancelled(UsrID[u])
      <4>1. CASE Pending(t)
        <5>1. t \in ToSet(text_block_list[u])
          BY <1>0, <1>1, <1>2, <4>1 DEF Bookkeeping, TasksHeld
        <5>2. InList(u) \/ Cancelled(UsrID[u])
          BY <1>0, <1>3, <5>1 DEF UsersHeld
        <5>3. InList(u) => u \in ToSet(usr_list[d])
          BY <1>0, <1>1, <1>2 DEF InList, TasksAtHome
        <5> QED BY <1>0, <1>4, <3>1, <5>2, <5>3 DEF ListsHeld
      <4>2. CASE ~Pending(t)
        BY <1>0, <1>1, <1>2, <4>2 DEF UsersHeld, OwnersHeld
      <4> QED BY <4>1, <4>2
    <3> HIDE DEF w
    <3> QED BY <1>0, <2>2, <3>1, <3>2, <3>3, <3>4, <3>5 DEF ListsHeld
  <2> QED BY <1>2, <2>1, <2>2 DEF EraseEmptyUcb
<1>10. UsersHeld'
  <2>1. ASSUME NEW b \in CallID, Live(b)', NEW r, r = trans_sess_map'[b].text
        PROVE  Pending(r)' \/ Cancelled(UsrID[r])'
    <3>1. Live(b) /\ r = trans_sess_map[b].text /\ r \in Text /\ b # c
      BY <1>5, <1>6, <2>1
    <3>2. Pending(r) \/ Cancelled(UsrID[r])
      BY <1>0, <3>1 DEF UsersHeld
    <3>3. ASSUME Pending(r), ~Pending(r)' PROVE FALSE
      <4>1. r = t /\ Cells(t) \subseteq is_trans[t] \cup {k} /\ Pending(t)
        BY <1>8, <3>1, <3>3 DEF OnlyTLeaves
      <4>2. PICK kb : kb = trans_sess_map[b].cell
        OBVIOUS
      <4>3. kb \in Cells(t)
        BY <1>0, <3>1, <4>1, <4>2 DEF Bookkeeping, TasksHeld
      <4>4. b \in TasksFor(t, kb)
        BY <3>1, <4>1, <4>2 DEF TasksFor
      <4>5. kb # k
        BY <1>3, <3>1, <4>1, <4>4
      <4>6. kb \in is_trans[t]
        BY <4>1, <4>3, <4>5
      <4> QED BY <1>0, <1>3, <4>1, <4>3, <4>4, <4>6 DEF EachCellOnce
    <3> QED BY <1>8, <3>1, <3>2, <3>3 DEF OnlyTLeaves
  <2>2. ASSUME NEW v \in Text, ToSet(text_block_list'[v]) # {} PROVE InList(v)' \/ Cancelled(UsrID[v])'
    <3>1. InList(v) \/ Cancelled(UsrID[v])
      BY <1>0, <1>8, <2>2 DEF UsersHeld, OnlyTLeaves
    <3>2. CASE InList(v)
      <4>1. PICK e \in Domain : v \in ToSet(usr_list[e])
        BY <3>2 DEF InList
      <4>2. v \in ToSet(usr_list'[e]) \/ Cancelled(UsrID[v])
        BY <1>9, <2>2, <4>1 DEF ToSet
      <4> QED BY <1>8, <4>2 DEF InList, OnlyTLeaves
    <3> QED BY <1>8, <3>1, <3>2 DEF OnlyTLeaves
  <2>3. ASSUME NEW r \in Text, Pending(r)' PROVE \E v \in Text : r \in ToSet(text_block_list'[v])
    <3>1. \E v \in Text : r \in ToSet(text_block_list[v])
      BY <1>0, <1>8, <2>3 DEF UsersHeld, OnlyTLeaves
    <3> QED BY <1>8, <2>3, <3>1 DEF OnlyTLeaves
  <2> QED BY <2>1, <2>2, <2>3 DEF UsersHeld
<1> QED BY <1>10

LEMMA SchedNext == ASSUME OwnTextIDs, SchedInv, [Next]_vars PROVE SchedInv'
<1>1. IInv'
  BY InvNext DEF SchedInv
<1>2. UsersHeld'
  <2>1. CASE UNCHANGED vars
    BY <2>1, SchedQuiet DEF vars, text_vars
  <2>2. CASE GetReadyTask
    BY <2>2, SchedGetReadyTask
  <2>3. ASSUME NEW s \in Slave, on_slave_pluse(s)
        PROVE  UsersHeld'
    BY <2>3, SchedQuiet DEF on_slave_pluse, text_vars
  <2>4. ASSUME NEW overdue, on_timer(overdue)
        PROVE  UsersHeld'
    BY <2>4, SchedQuiet DEF on_timer, text_vars
  <2>5. ASSUME NEW t \in Text, Request(t)
        PROVE  UsersHeld'
    <3>1. CASE on_trans_suspend(UsrID[t], TextID[t]) \/ on_trans_rerun(UsrID[t], TextID[t])
      BY <3>1, SchedQuiet DEF on_trans_suspend, on_trans_rerun
    <3> QED BY <2>5, <3>1, SchedSubmit, SchedCancel DEF Request
  <2>6. ASSUME NEW c \in CallID, Session(c)
        PROVE  UsersHeld'
    BY <2>6, SchedMoves, SchedSuccess
  <2> QED BY <2>1, <2>2, <2>3, <2>4, <2>5, <2>6 DEF Next
<1> QED BY <1>1, <1>2 DEF SchedInv

LEMMA SchedInit == Init => SchedInv
<1> SUFFICES ASSUME Init PROVE UsersHeld
  BY InvInit DEF SchedInv
<1>1. /\ \A u \in Text : ToSet(text_block_list[u]) = {}
      /\ \A c \in CallID : ~Live(c)
      /\ \A t \in Text : ~Pending(t)
  BY DEF Init, ToSet, Live, Pending
<1> QED BY <1>1 DEF UsersHeld

LEMMA SchedInvariance == ASSUME OwnTextIDs PROVE Spec => []SchedInv
<1>1. SchedInv /\ [Next]_vars => SchedInv'
  BY SchedNext
<1> QED BY <1>1, SchedInit, PTL DEF Spec

\* A text that waits for its answer is where GetReadyTask and the requests look for it,
\* whatever fails or times out in between, unless its own user cancelled a text.
THEOREM PendingStaysScheduled == ASSUME OwnTextIDs PROVE Spec => []PendingIsScheduled
<1>1. SchedInv => PendingIsScheduled
  <2> SUFFICES ASSUME SchedInv, NEW t \in Text, Pending(t)
               PROVE  Scheduled(t) \/ Cancelled(UsrID[t])
    BY DEF PendingIsScheduled, Cancelled
  <2>1. PICK u \in Text : t \in ToSet(text_block_list[u])
    BY DEF SchedInv, UsersHeld
  <2>2. InList(u) \/ Cancelled(UsrID[u])
    BY <2>1 DEF SchedInv, UsersHeld
  <2>3. UsrID[t] = UsrID[u]
    BY <2>1, Parts DEF SchedInv, OwnersHeld
  <2> QED BY <2>1, <2>2, <2>3 DEF Scheduled
<1> QED BY <1>1, SchedInvariance, PTL

NoneCancelled == \A t \in Text : answer[t] # "USR_CANCEL"

\* The RTT instance takes submissions only, and they are not answered with a cancel.
LEMMA NoCancelInRTT ==
  ASSUME TransType = "RTT", TypeOK, NoneCancelled, [Next]_vars
  PROVE  NoneCancelled'
<1>1. ASSUME NEW b, NEW res, res # "USR_CANCEL", answer' = [answer EXCEPT ![b] = res]
      PROVE  NoneCancelled'
  BY <1>1, TypeFacts DEF NoneCancelled
<1>2. CASE answer' = answer
  BY <1>2 DEF NoneCancelled
<1>3. ASSUME NEW t \in Text, on_trans_submit(t) PROVE NoneCancelled'
  <2>1. \E res : res # "USR_CANCEL" /\ answer' = [answer EXCEPT ![t] = res]
    BY <1>3 DEF on_trans_submit, RefuseSubmit, SubmitTranslation, finish_translation
  <2> QED BY <1>1, <2>1
<1>4. ASSUME NEW c \in CallID, on_recv_packet(c) PROVE NoneCancelled'
  <2>1. PICK u, tid, k : Success(u, tid, k)
    BY <1>4 DEF on_recv_packet
  <2>2. answer' = answer \/ \E b : answer' = [answer EXCEPT ![b] = "SUCCESS"]
    BY <2>1 DEF Success, finish_translation
  <2> QED BY <1>1, <1>2, <2>2
<1>5. ASSUME NEW usr, NEW tid, on_trans_cancel(usr, tid) PROVE FALSE
  BY <1>5 DEF on_trans_cancel, Controllable
<1>6. CASE UNCHANGED vars
  BY <1>2, <1>6 DEF vars, text_vars
<1>7. CASE GetReadyTask
  BY <1>2, <1>7 DEF GetReadyTask, HandOut
<1>8. ASSUME NEW s \in Slave, on_slave_pluse(s) PROVE NoneCancelled'
  BY <1>2, <1>8 DEF on_slave_pluse, text_vars
<1>9. ASSUME NEW overdue, on_timer(overdue) PROVE NoneCancelled'
  BY <1>2, <1>9 DEF on_timer, text_vars
<1>10. ASSUME NEW t \in Text, Request(t) PROVE NoneCancelled'
  BY <1>2, <1>3, <1>5, <1>10 DEF Request, on_trans_suspend, on_trans_rerun
<1>11. ASSUME NEW c \in CallID, Session(c) PROVE NoneCancelled'
  BY <1>2, <1>4, <1>11
  DEF Session, on_connected, on_send_packet, on_session_failed, on_close_sock, text_vars
<1> QED BY <1>6, <1>7, <1>8, <1>9, <1>10, <1>11 DEF Next

\* With nothing cancelled, SuccessTask erases no wrong UCB: in the RTT instance a cell
\* that was taken back from a failed session is where another slave can be given it.
THEOREM NothingLostInRTT ==
  ASSUME OwnTextIDs, TransType = "RTT"
  PROVE  Spec => []ReturnedCellIsReachable
<1>1. Init => NoneCancelled
  BY DEF Init, NoneCancelled
<1>2. SchedInv /\ NoneCancelled /\ [Next]_vars => NoneCancelled'
  BY NoCancelInRTT, Parts DEF SchedInv
<1>3. PendingIsScheduled /\ NoneCancelled => ReturnedCellIsReachable
  BY DEF PendingIsScheduled, NoneCancelled, ReturnedCellIsReachable
<1> QED BY <1>1, <1>2, <1>3, SchedInvariance, PendingStaysScheduled, PTL DEF Spec
=============================================================================
