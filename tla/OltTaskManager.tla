--------------------------- MODULE OltTaskManager ---------------------------
(***************************************************************************)
(* The offline pipeline: OltTaskManager takes in lists of text ids, makes  *)
(* a transaction and a TransText for each, and sends the text from engine  *)
(* to engine: TextHandler loads it, PreProcessor cuts it, the OLT          *)
(* TransController translates it, PostProcessor treats it, TextHandler     *)
(* stores it (src/OltManager, src/TextHandler, src/PreProcessor,           *)
(* src/PostProcessor).  The translator does what TextService promises and  *)
(* what TransController is shown to implement: it answers a text once;     *)
(* here a user may suspend a text there, and have it go on.                *)
(*                                                                         *)
(* OltTaskManager has one worker thread, so an action is a handler.  The   *)
(* queues of the engines are one set of messages: a transaction has one    *)
(* message (OneMessageEach), so the order of a queue shows only between    *)
(* transactions, where the speed of the engines makes every order          *)
(* possible.                                                               *)
(***************************************************************************)
EXTENDS Integers, Sequences, Functions

CONSTANTS
  Client,     \* the OltTransProcesses that are running at one time
  TextID,
  NoText,     \* not a text id
  Requests,   \* the lists of text ids a client may submit
  CallID,     \* all values of the call id; the counter comes round to each again
  NoCallID,   \* the answer of a map that does not know the text id
  Resubmits   \* may a text id be submitted while it is in work?

ASSUME OltAssumption ==
  /\ NoText \notin TextID
  /\ NoCallID \notin CallID
  /\ Requests \subseteq Seq(TextID) \ {<<>>}
  /\ Resubmits \in BOOLEAN

VARIABLES
  m_using_cid_set,
  m_transaction_map,  \* [CallID -> transaction]; "END" and NoText for what is not in the map
  m_tid_cid_map,      \* [TextID -> CallID, or NoCallID]
  request,            \* [Client -> the list it has sent and waits for, or <<>>]
  messages,           \* what is under way between the manager and the other engines
  live,               \* the TransTexts in memory, each named by the call id it was made with
  undefined,          \* memory was used that is not allocated: anything may happen
  transstate          \* [TextID -> the column of table filetrans]

vars == <<m_using_cid_set, m_transaction_map, m_tid_cid_map, request, messages,
          live, undefined, transstate>>

Stages == {"LOAD", "PREPROC", "TRANS", "POSTPROC", "SUBMIT_RESULT"}

Transaction == [_text_id: TextID, _proc_state: Stages]

Ended == [_text_id |-> NoText, _proc_state |-> "END"]

InMap(c) == c \in CallID /\ m_transaction_map[c] # Ended

\* A text at the engine of a stage, or on its way there or back: "REQ" until the engine
\* answers, or "PENDING" and, when its user has suspended it, "SUSPEND" at the translator.
\* tid is what GetID() returns, cid the call id; a TransSubmitReq and a TransResult carry
\* none.
Message == [stage: Stages, cid: CallID \cup {NoCallID}, text: CallID, tid: TextID,
            res: {"REQ", "PENDING", "SUSPEND", "SUCCESS", "ERROR"}]

\* The translator has accepted the text and has not given it back.
Held(m) == m.stage = "TRANS" /\ m.res \in {"PENDING", "SUSPEND"}

\* What the column transstate may say of a text.
RowStates == {"NEW", "RUNNING", "SUSPEND", "CANCEL", "NOMONEY", "FINISH"}

Req(stage, c, m) ==
  [stage |-> stage, cid |-> c, text |-> m.text, tid |-> m.tid, res |-> "REQ"]

Move(m, m2) == messages' = (messages \ {m}) \cup {m2}

Delete(o) == live' = live \ {o} /\ undefined' = (undefined \/ o \notin live)

\* The state of a text's row is written; the data base may fail, which nobody looks at.
Report(tid, state) == transstate' \in {transstate, [transstate EXCEPT ![tid] = state]}

-----------------------------------------------------------------------------
(* STEP 1: a client's list is taken in. *)

\* A client that may not submit an id in work knows its rows and those of the others.
Free(tid) ==
  /\ m_tid_cid_map[tid] = NoCallID
  /\ \A cl \in Client : tid \notin Range(request[cl])

Submit(cl) ==
  /\ request[cl] = <<>>
  /\ \E ids \in Requests :
       /\ Resubmits \/ (IsInjective(ids) /\ \A i \in DOMAIN ids : Free(ids[i]))
       /\ request' = [request EXCEPT ![cl] = ids]
  /\ UNCHANGED <<m_using_cid_set, m_transaction_map, m_tid_cid_map, messages, live,
                 undefined, transstate>>

\* Ids for n calls in a row.  Where the counter stands decides which, and after it has
\* come round it may stand anywhere.
generate_call_id(n) == Injection(1..n, CallID \ m_using_cid_set)

\* The id found first in a list keeps its place in m_tid_cid_map: insert does not overwrite.
\* That map's answer is not looked at, the one of m_transaction_map is.
insert_transaction(ids, cid, created) ==
  /\ m_transaction_map' =
       [c \in CallID |-> IF \E i \in created : cid[i] = c
                         THEN [_text_id |-> ids[CHOOSE i \in created : cid[i] = c],
                               _proc_state |-> "LOAD"]
                         ELSE m_transaction_map[c]]
  /\ m_tid_cid_map' =
       [t \in TextID |->
          LET is == {i \in created : ids[i] = t} IN
          IF m_tid_cid_map[t] # NoCallID \/ is = {} THEN m_tid_cid_map[t]
          ELSE cid[CHOOSE i \in is : \A j \in is : i <= j]]

on_olt_submit(cl) ==
  LET ids == request[cl] IN
  /\ ids # <<>>
  /\ \E cid \in generate_call_id(Len(ids)) :
       LET created == {i \in DOMAIN ids : ~InMap(cid[i])} IN
       /\ m_using_cid_set' = m_using_cid_set \cup Range(cid)
       /\ insert_transaction(ids, cid, created)
       /\ live' = live \cup {cid[i] : i \in created}
       /\ messages' = messages \cup
            {[stage |-> "LOAD", cid |-> cid[i], text |-> cid[i], tid |-> ids[i],
              res |-> "REQ"] : i \in created}
  /\ request' = [request EXCEPT ![cl] = <<>>]
  /\ UNCHANGED <<undefined, transstate>>

-----------------------------------------------------------------------------
(* The end of a transaction.  Its text is p_tmp_trans_text, the one made with its id. *)

\* Faulty form of Erase: the text id stays in its map.
EraseFirstMap(c) ==
  /\ m_transaction_map' = [m_transaction_map EXCEPT ![c] = Ended]
  /\ m_using_cid_set' = m_using_cid_set \ {c}
  /\ UNCHANGED m_tid_cid_map

Erase(c) ==
  /\ m_tid_cid_map' = [m_tid_cid_map EXCEPT ![m_transaction_map[c]._text_id] = NoCallID]
  /\ m_using_cid_set' = m_using_cid_set \ {c}
  /\ m_transaction_map' = [m_transaction_map EXCEPT ![c] = Ended]

on_success(c) == Delete(c) /\ Erase(c) /\ UNCHANGED transstate

\* A user who may not have so much translated is told so; PreProcessor asks for it.
on_error(c) ==
  /\ \/ Report(m_transaction_map[c]._text_id, "CANCEL")
     \/ /\ m_transaction_map[c]._proc_state = "PREPROC"
        /\ Report(m_transaction_map[c]._text_id, "NOMONEY")
  /\ Delete(c)
  /\ Erase(c)

-----------------------------------------------------------------------------
(* STEPs 2 to 6: an engine has answered with message m. *)

Answered(m, stage) == m.stage = stage /\ m.res \in {"SUCCESS", "ERROR"}

\* The transaction is gone: the text in the answer is deleted.
NotFound(m) ==
  /\ ~InMap(m.cid)
  /\ Delete(m.text)
  /\ messages' = messages \ {m}
  /\ UNCHANGED <<m_using_cid_set, m_transaction_map, m_tid_cid_map, transstate>>

\* Faulty form of Failed: a return is missing, the transaction is given up and goes on.
FailedGoesOn(m, c) ==
  /\ Delete(c)
  /\ m_transaction_map' = [m_transaction_map EXCEPT ![c] = [Ended EXCEPT !._proc_state = "TRANS"]]
  /\ Move(m, Req("TRANS", NoCallID, m))
  /\ UNCHANGED <<m_using_cid_set, m_tid_cid_map, transstate>>

\* Faulty form of Failed: the failure is logged, and that is all.
FailedIgnored(m, c) ==
  /\ messages' = messages \ {m}
  /\ UNCHANGED <<m_using_cid_set, m_transaction_map, m_tid_cid_map, live, undefined, transstate>>

\* Faulty form of Failed: the text is dropped by the manager and sent on.
FailedSentOn(m, c) == on_error(c) /\ Move(m, Req("PREPROC", m.cid, m))

Failed(m, c) == on_error(c) /\ messages' = messages \ {m}

\* The text goes to the engine of the next stage.
GoesOn(m, c, next) ==
  /\ Move(m, next)
  /\ m_transaction_map' = [m_transaction_map EXCEPT ![c]._proc_state = next.stage]
  /\ UNCHANGED <<m_using_cid_set, m_tid_cid_map, live, undefined, transstate>>

\* What the ends of the stages with a state check have in common; the check precedes that
\* of the result.
StageEnd(m, next) ==
  \/ NotFound(m)
  \/ /\ InMap(m.cid)
     /\ IF m_transaction_map[m.cid]._proc_state = m.stage /\ m.res = "SUCCESS"
        THEN GoesOn(m, m.cid, next) ELSE Failed(m, m.cid)

on_load_file_end(m) == Answered(m, "LOAD") /\ StageEnd(m, Req("PREPROC", m.cid, m))

on_preprocess_end(m) == Answered(m, "PREPROC") /\ StageEnd(m, Req("TRANS", NoCallID, m))

on_postprocess_end(m) ==
  Answered(m, "POSTPROC") /\ StageEnd(m, Req("SUBMIT_RESULT", m.cid, m))

FindByText(m) == {m_tid_cid_map[m.tid]} \ {NoCallID}

\* An unknown text is deleted, but a return is missing: the call id is read from the end
\* iterator, and whatever transaction it happens to name goes on with the deleted text.
FromEndIterator(m) ==
  /\ FindByText(m) = {}
  /\ undefined' = TRUE
  /\ \/ /\ messages' = messages \ {m}
        /\ live' = live \ {m.text}
        /\ UNCHANGED <<m_using_cid_set, m_transaction_map, m_tid_cid_map, transstate>>
     \/ \E c \in {c \in CallID : InMap(c)} :
          \/ /\ m.res = "SUCCESS"
             /\ Move(m, Req("POSTPROC", c, m))
             /\ m_transaction_map' = [m_transaction_map EXCEPT ![c]._proc_state = "POSTPROC"]
             /\ live' = live \ {m.text}
             /\ UNCHANGED <<m_using_cid_set, m_tid_cid_map, transstate>>
          \/ /\ m.res = "ERROR"
             /\ Report(m_transaction_map[c]._text_id, "CANCEL")
             /\ Erase(c)
             /\ messages' = messages \ {m}
             /\ live' = live \ {m.text, c}

\* The transaction is looked up by the id of the text, and its state is not checked.
on_trans_end(m) ==
  /\ Answered(m, "TRANS")
  /\ \/ FromEndIterator(m)
     \/ \E c \in FindByText(m) :
          \/ InMap(c) /\ m.res = "SUCCESS" /\ GoesOn(m, c, Req("POSTPROC", c, m))
          \/ InMap(c) /\ m.res = "ERROR" /\ Failed(m, c)
          \/ ~InMap(c) /\ Delete(m.text) /\ messages' = messages \ {m}
             /\ UNCHANGED <<m_using_cid_set, m_transaction_map, m_tid_cid_map, transstate>>

on_submit_result_end(m) ==
  /\ Answered(m, "SUBMIT_RESULT")
  /\ messages' = messages \ {m}
  /\ \/ ~InMap(m.cid) /\ UNCHANGED <<m_using_cid_set, m_transaction_map, m_tid_cid_map,
                                     live, undefined, transstate>>
     \/ InMap(m.cid) /\ m.res = "SUCCESS" /\ on_success(m.cid)
     \/ InMap(m.cid) /\ m.res = "ERROR" /\ on_error(m.cid)

Handle(m) ==
  /\ \/ on_load_file_end(m) \/ on_preprocess_end(m) \/ on_trans_end(m)
     \/ on_postprocess_end(m) \/ on_submit_result_end(m)
  /\ UNCHANGED request

-----------------------------------------------------------------------------
(* The other engines: each takes the text out of a request and answers. *)

Answer(m, res) ==
  /\ Move(m, [m EXCEPT !.res = res])
  /\ undefined' = (undefined \/ m.text \notin live)
  /\ UNCHANGED <<m_using_cid_set, m_transaction_map, m_tid_cid_map, request, live>>

\* TextHandler reads and splits the file; any step of it may fail.
on_load_text(m) ==
  /\ m.stage = "LOAD" /\ m.res = "REQ"
  /\ \E res \in {"SUCCESS", "ERROR"} : Answer(m, res)
  /\ UNCHANGED transstate

on_pre_process(m) ==
  /\ m.stage = "PREPROC" /\ m.res = "REQ"
  /\ \E res \in {"SUCCESS", "ERROR"} : Answer(m, res)
  /\ UNCHANGED transstate

on_post_process(m) ==
  /\ m.stage = "POSTPROC" /\ m.res = "REQ"
  /\ \E res \in {"SUCCESS", "ERROR"} : Answer(m, res)
  /\ UNCHANGED transstate

\* Faulty form of on_submit_result: the row is written before the sentences.
FinishFirst(m) ==
  /\ m.stage = "SUBMIT_RESULT" /\ m.res = "REQ"
  /\ transstate' = [transstate EXCEPT ![m.tid] = "FINISH"]
  /\ \E res \in {"SUCCESS", "ERROR"} : Answer(m, res)

\* Faulty form of on_submit_result: TextHandler deletes the text it has stored.
StoreAndDelete(m) ==
  /\ m.stage = "SUBMIT_RESULT" /\ m.res = "REQ"
  /\ Move(m, [m EXCEPT !.res = "SUCCESS"])
  /\ Delete(m.text)
  /\ transstate' = [transstate EXCEPT ![m.tid] = "FINISH"]
  /\ UNCHANGED <<m_using_cid_set, m_transaction_map, m_tid_cid_map, request>>

\* The sentences are stored and, last of all, the row says so; or some step fails.
on_submit_result(m) ==
  /\ m.stage = "SUBMIT_RESULT" /\ m.res = "REQ"
  /\ \/ Answer(m, "SUCCESS") /\ transstate' = [transstate EXCEPT ![m.tid] = "FINISH"]
     \/ Answer(m, "ERROR") /\ UNCHANGED transstate

\* TransController turns the text down, finds nothing to translate, or accepts it.
on_trans_submit(m) ==
  /\ m.stage = "TRANS" /\ m.res = "REQ"
  /\ \/ Answer(m, "PENDING") /\ Report(m.tid, "RUNNING")
     \/ \E res \in {"SUCCESS", "ERROR"} : Answer(m, res) /\ UNCHANGED transstate

\* The last cell of the text has come back.  A suspended text gets no new tasks, but those
\* that are out may be its last.
translated(m) == Held(m) /\ Answer(m, "SUCCESS") /\ UNCHANGED transstate

\* A user cancels, suspends or resumes the translation of a text.
on_trans_cancel(m) == Held(m) /\ Answer(m, "ERROR") /\ Report(m.tid, "CANCEL")

on_trans_suspend(m) == Held(m) /\ Answer(m, "SUSPEND") /\ Report(m.tid, "SUSPEND")

on_trans_rerun(m) == Held(m) /\ Answer(m, "PENDING") /\ Report(m.tid, "RUNNING")

Engine(m) ==
  \/ on_load_text(m) \/ on_pre_process(m) \/ on_trans_submit(m)
  \/ on_post_process(m) \/ on_submit_result(m)

\* What becomes of a text at the translator is up to the slaves and to its user.
AtTranslator(m) ==
  translated(m) \/ on_trans_cancel(m) \/ on_trans_suspend(m) \/ on_trans_rerun(m)

-----------------------------------------------------------------------------
Init ==
  /\ m_using_cid_set = {}
  /\ m_transaction_map = [c \in CallID |-> Ended]
  /\ m_tid_cid_map = [t \in TextID |-> NoCallID]
  /\ request = [cl \in Client |-> <<>>]
  /\ messages = {}
  /\ live = {}
  /\ undefined = FALSE
  /\ transstate = [t \in TextID |-> "NEW"]

Next ==
  \/ \E cl \in Client : Submit(cl) \/ on_olt_submit(cl)
  \/ \E m \in messages : Handle(m) \/ Engine(m) \/ AtTranslator(m)

\* The engines' threads run: what one of them has in its queue is handled in the end.
\* Clients and users need do nothing, and nothing says that the translator ever gives a
\* text back that it holds: while it is suspended it does not.
Fairness ==
  /\ \A cl \in Client : WF_vars(on_olt_submit(cl))
  /\ \A c \in CallID : WF_vars(\E m \in messages : m.text = c /\ (Handle(m) \/ Engine(m)))

Spec == Init /\ [][Next]_vars /\ Fairness

-----------------------------------------------------------------------------
(* Properties. *)

\* Every variable holds values of its kind.
TypeOK ==
  /\ m_using_cid_set \subseteq CallID
  /\ m_transaction_map \in [CallID -> Transaction \cup {Ended}]
  /\ m_tid_cid_map \in [TextID -> CallID \cup {NoCallID}]
  /\ request \in [Client -> Requests \cup {<<>>}]
  /\ messages \subseteq Message
  /\ live \subseteq CallID
  /\ undefined \in BOOLEAN
  /\ transstate \in [TextID -> RowStates]

\* The two maps name each other's entries (insert_transaction, on_success, on_error):
\* on_trans_end goes from the one to the other without a state check.
MapsAgree ==
  /\ \A c \in CallID : InMap(c) => m_tid_cid_map[m_transaction_map[c]._text_id] = c
  /\ \A t \in TextID : m_tid_cid_map[t] # NoCallID =>
       InMap(m_tid_cid_map[t]) /\ m_transaction_map[m_tid_cid_map[t]]._text_id = t

\* A transaction's text is at one engine, the one its state names, under its own call id
\* and text id; nothing else is under way.  So the checks for ERR_INTER_STATE and for a
\* transaction that is gone never find anything.
OneMessageEach ==
  /\ \A c \in CallID : InMap(c) => \E m \in messages : m.text = c
  /\ \A m \in messages :
       /\ InMap(m.text)
       /\ m.tid = m_transaction_map[m.text]._text_id
       /\ m.stage = m_transaction_map[m.text]._proc_state
       /\ m.cid = IF m.stage = "TRANS" THEN NoCallID ELSE m.text
  /\ \A m1, m2 \in messages : m1.text = m2.text => m1 = m2

\* A transaction owns its text and its call id and gives both back: no text is leaked,
\* deleted twice or used by an engine after it was deleted, and the iterator on_trans_end
\* forgets to check is never the end.
TextsOwned ==
  /\ ~undefined
  /\ live = {c \in CallID : InMap(c)}
  /\ m_using_cid_set = live

\* What the manager's maps and the messages say of a text's work.
work == [t \in TextID |->
          IF m_tid_cid_map[t] = NoCallID THEN "OUT"
          ELSE IF \E m \in messages : m.tid = t /\ m.stage = "SUBMIT_RESULT" /\ m.res = "SUCCESS"
               THEN "STORED"
          ELSE IF \E m \in messages : m.tid = t /\ m.res = "SUSPEND"
               THEN "SUSPENDED" ELSE "WORKING"]

Service == INSTANCE OltService

\* The pipeline keeps the promise OltService states: each text taken in ends once, well
\* only when its result is stored, its row is written only while it is in work, and says
\* SUSPEND anew only when its user has suspended it.
ImplementsOltService == Service!OSSpec

\* Every transaction comes to its end, and frees its text id for another try, unless the
\* translator keeps its text for ever: no other stage and no failure leaves one behind.
EveryTextEnds ==
  \A c \in CallID :
    InMap(c) ~> \/ ~InMap(c)
                \/ [](\E m \in messages : m.text = c /\ Held(m))
=============================================================================
