--------------------------- MODULE UsrSessManager ---------------------------
(***************************************************************************)
(* The sessions of the users: SessionManager and UsrSessManager give each  *)
(* connection a session, receive one packet, run the process of its type,  *)
(* send the answer and close (src/SessionManager, src/CProcess), on the    *)
(* sockets of NetDriver.  The real time translation (RTT) goes from engine *)
(* to engine with its text; the segmentation (SEG) stops half way; the     *)
(* thirty or so other processes ask one engine and wait for its answer.    *)
(*                                                                         *)
(* UsrSessManager has one worker thread: an action is a handler.  The call *)
(* ids in use are those of the sessions, taken and given back with them.   *)
(***************************************************************************)
EXTENDS Naturals, NetDriver

CONSTANTS
  NoText,
  BlankTexts   \* may the text to translate hold nothing but blanks?

ASSUME UsrAssumption ==
  /\ NoText \notin TextID \cup Sock
  /\ NoCallID \notin TextID
  /\ BlankTexts \in BOOLEAN

VARIABLES
  m_session_map,        \* [CallID -> session, or NoSession]
  m_rtt_sess_text_map,  \* [TextID -> the session that translates it, or NoCallID]
  texts,                \* [TextID -> "NONE", or how much the TransText in memory holds]
  undefined,            \* memory was used that is not allocated
  aborted               \* an assertion has stopped the server

usrvars == <<m_session_map, m_rtt_sess_text_map, texts, undefined, aborted>>
vars == <<netvars, usrvars>>

RttStates == {"REMOTE_PROC", "PREPROC", "TRANS", "POSTPROC"}
SegStates == {"SEG_REMOTE_PROC", "SEG_PREPROC"}

\* process is NULL, "ASK" (what asks one engine), or an RTT or SEG process in its state.
Session == [_state: {"RECVING", "PROCESS", "SENDING", "CLOSING"}, _sock: Sock,
            process: {"NULL", "ASK"} \cup RttStates \cup SegStates, _tid: TextID \cup {NoText}]

NoSession == [_state |-> "NONE", _sock |-> NoText, process |-> "NULL", _tid |-> NoText]

InMap(c) == c \in CallID /\ m_session_map[c] # NoSession

-----------------------------------------------------------------------------
(* What the handlers of message m do at their end. *)

\* The session becomes s, and the request req goes out.
Goes(m, c, s, req) ==
  /\ m_session_map' = [m_session_map EXCEPT ![c] = s]
  /\ messages' = (messages \ {m}) \cup {req}

\* Logged, and nothing else.
Ignored(m) ==
  messages' = messages \ {m} /\ UNCHANGED <<m_session_map, m_rtt_sess_text_map, texts, undefined>>

Delete(t) ==
  /\ texts' = [texts EXCEPT ![t] = "NONE"]
  /\ undefined' = (undefined \/ texts[t] = "NONE")

\* Nothing points to the text any more.  It stays in memory, which shows nowhere.
Leak(t) == texts' = [texts EXCEPT ![t] = "NONE"] /\ UNCHANGED undefined

KeepTexts == UNCHANGED <<texts, undefined>>

\* Faulty form of Shutdown: the session is dropped before the driver has answered.
DropsSession(m, c) ==
  /\ Goes(m, c, NoSession, Msg("CLOSE", c, m_session_map[c]._sock, "REQ"))
  /\ UNCHANGED m_rtt_sess_text_map
  /\ KeepTexts

Shutdown(m, c) ==
  LET s == m_session_map[c] IN
  /\ Goes(m, c, [s EXCEPT !._state = "CLOSING"], Msg("CLOSE", c, s._sock, "REQ"))
  /\ UNCHANGED m_rtt_sess_text_map
  /\ KeepTexts

\* Faulty form of end_process: the base class's, which knows no texts.
KeepsMap(m, c) ==
  LET s == m_session_map[c] IN
  /\ Goes(m, c, [s EXCEPT !._state = "SENDING", !.process = "NULL", !._tid = NoText],
          Msg("SEND", c, s._sock, "REQ"))
  /\ UNCHANGED m_rtt_sess_text_map

\* The process is deleted and its packet sent.
end_process(m, c) ==
  LET s == m_session_map[c] IN
  /\ Goes(m, c, [s EXCEPT !._state = "SENDING", !.process = "NULL", !._tid = NoText],
          Msg("SEND", c, s._sock, "REQ"))
  /\ m_rtt_sess_text_map' =
       [t \in TextID |-> IF t = s._tid THEN NoCallID ELSE m_rtt_sess_text_map[t]]

\* The text of the session goes to the next engine.
Forward(m, c, state, req) ==
  /\ Goes(m, c, [m_session_map[c] EXCEPT !.process = state], req)
  /\ UNCHANGED m_rtt_sess_text_map
  /\ KeepTexts

-----------------------------------------------------------------------------
(* The network's events. *)

on_listen_newsock(m) ==
  /\ m.op = "LISTEN"
  /\ \E c \in {c \in CallID : ~InMap(c)} :
       Goes(m, c, [NoSession EXCEPT !._state = "RECVING", !._sock = m.obj],
            Msg("RECV", c, m.obj, "REQ"))
  /\ UNCHANGED m_rtt_sess_text_map
  /\ KeepTexts

\* The packet asks for something unknown, for an echo, or for what it does not say well:
\* the answer is ready.
AnswerAtOnce(m, c) == end_process(m, c) /\ KeepTexts

\* One of the processes that send an engine one request.
BeginAsk(m, c) ==
  /\ Goes(m, c, [m_session_map[c] EXCEPT !._state = "PROCESS", !.process = "ASK"],
          Msg("ASK", c, NoCallID, "REQ"))
  /\ UNCHANGED m_rtt_sess_text_map
  /\ KeepTexts

\* A real time translation or segmentation: the text gets an id nobody has.
BeginRtt(m, c, state) ==
  \E t \in TextID :
    /\ texts[t] = "NONE" /\ m_rtt_sess_text_map[t] = NoCallID
    /\ \E content \in {"CELLS"} \cup (IF BlankTexts THEN {"BLANK"} ELSE {}) :
         texts' = [texts EXCEPT ![t] = content]
    /\ m_rtt_sess_text_map' = [m_rtt_sess_text_map EXCEPT ![t] = c]
    /\ Goes(m, c, [m_session_map[c] EXCEPT !._state = "PROCESS", !.process = state, !._tid = t],
            Msg("TEXTPROC", c, t, "REQ"))
    /\ UNCHANGED undefined

start_process(m, c) ==
  \/ AnswerAtOnce(m, c)
  \/ BeginAsk(m, c)
  \/ BeginRtt(m, c, "REMOTE_PROC")
  \/ BeginRtt(m, c, "SEG_REMOTE_PROC")

\* An answer is for the session if it is about its socket and comes in the right state.
Expected(m, c, state) ==
  m_session_map[c]._sock = m.obj /\ m_session_map[c]._state = state

on_recv_packet(m, c) ==
  IF ~Expected(m, c, "RECVING") THEN Ignored(m)
  ELSE IF m.res = "ERROR" THEN Shutdown(m, c) ELSE start_process(m, c)

\* Faulty form of on_send_packet: what was not well sent is sent again.
Resends(m, c) ==
  IF m.res = "ERROR" THEN end_process(m, c) /\ KeepTexts ELSE Shutdown(m, c)

\* Well sent or not.
on_send_packet(m, c) == IF Expected(m, c, "SENDING") THEN Shutdown(m, c) ELSE Ignored(m)

on_close_sock(m, c) ==
  IF ~Expected(m, c, "CLOSING") THEN Ignored(m)
  ELSE /\ m_session_map' = [m_session_map EXCEPT ![c] = NoSession]
       /\ messages' = messages \ {m}
       /\ UNCHANGED m_rtt_sess_text_map
       /\ KeepTexts

-----------------------------------------------------------------------------
(* The processes' events: Work of RttTransProcess, RttSegProcess and the others. *)

on_txt_proc_end(m, c) ==
  \/ m.res = "SUCCESS" /\ Forward(m, c, IF m_session_map[c].process = "REMOTE_PROC"
                                        THEN "PREPROC" ELSE "SEG_PREPROC",
                                  Msg("PREPROC", c, m.obj, "REQ"))
  \/ m.res = "ERROR" /\ Leak(m.obj) /\ end_process(m, c)

\* Faulty form of on_preprocess_end: after a failure the process is kept.
FailureKept(m, c) ==
  IF m.res = "SUCCESS" THEN Forward(m, c, "TRANS", Msg("TRANS", NoCallID, m.obj, "REQ"))
  ELSE /\ Delete(m.obj)
       /\ messages' = messages \ {m}
       /\ UNCHANGED <<m_session_map, m_rtt_sess_text_map>>

\* The dispatcher is not told the call id.
on_preprocess_end(m, c) ==
  IF m.res = "SUCCESS" /\ m_session_map[c].process = "PREPROC"
  THEN Forward(m, c, "TRANS", Msg("TRANS", NoCallID, m.obj, "REQ"))
  ELSE Delete(m.obj) /\ end_process(m, c)

\* Faulty form of on_trans_end: the text of a failed translation is deleted and still goes
\* to the PostProcessor.
FailedGoesOn(m, c) ==
  /\ Goes(m, c, [m_session_map[c] EXCEPT !.process = "POSTPROC"], Msg("POSTPROC", c, m.obj, "REQ"))
  /\ IF m.res = "ERROR" THEN Delete(m.obj) ELSE KeepTexts
  /\ UNCHANGED m_rtt_sess_text_map

on_trans_end(m, c) ==
  IF m.res = "SUCCESS" THEN Forward(m, c, "POSTPROC", Msg("POSTPROC", c, m.obj, "REQ"))
  ELSE Leak(m.obj) /\ end_process(m, c)

on_postprocess_end(m, c) == Delete(m.obj) /\ end_process(m, c)

Work(m, c) ==
  LET p == m_session_map[c].process IN
  CASE m.op = "ASK" /\ p = "ASK" -> end_process(m, c) /\ KeepTexts
    [] m.op = "TEXTPROC" /\ p \in {"REMOTE_PROC", "SEG_REMOTE_PROC"} -> on_txt_proc_end(m, c)
    [] m.op = "PREPROC" /\ p \in {"PREPROC", "SEG_PREPROC"} -> on_preprocess_end(m, c)
    [] m.op = "TRANS" /\ p = "TRANS" -> on_trans_end(m, c)
    [] m.op = "POSTPROC" /\ p = "POSTPROC" -> on_postprocess_end(m, c)
    [] OTHER -> Ignored(m)

on_proc_event(m, c) == IF m_session_map[c].process = "NULL" THEN Ignored(m) ELSE Work(m, c)

\* The session an event is for: a TransResult goes by its text, all others by call id.
For(m) == IF m.op = "TRANS" THEN m_rtt_sess_text_map[m.obj] ELSE m.cid

\* Without a session the text of a TransResult is deleted.
on_no_session_event(m) ==
  IF m.op # "TRANS" THEN Ignored(m)
  ELSE IF InMap(For(m)) THEN on_proc_event(m, For(m))
  ELSE /\ Delete(m.obj)
       /\ messages' = messages \ {m}
       /\ UNCHANGED <<m_session_map, m_rtt_sess_text_map>>

\* on_trans_end logs the first sentence, and GetTransTgt(0) asserts that there is one.
AssertionFails(m) ==
  /\ m.op = "TRANS" /\ InMap(For(m)) /\ m_session_map[For(m)].process = "TRANS"
  /\ texts[m.obj] = "BLANK"

on_event(m) ==
  /\ m.res # "REQ"
  /\ \/ on_listen_newsock(m)
     \/ m.op # "LISTEN" /\ ~InMap(m.cid) /\ on_no_session_event(m)
     \/ InMap(m.cid) /\ m.op = "RECV" /\ on_recv_packet(m, m.cid)
     \/ InMap(m.cid) /\ m.op = "SEND" /\ on_send_packet(m, m.cid)
     \/ InMap(m.cid) /\ m.op = "CLOSE" /\ on_close_sock(m, m.cid)
     \/ InMap(m.cid) /\ m.op \notin NetOps /\ on_proc_event(m, m.cid)
  /\ aborted' = (aborted \/ AssertionFails(m))
  /\ UNCHANGED <<m_connection_map, m_used_id_set, m_in_connection>>

-----------------------------------------------------------------------------
(* The engines: each takes its request, uses the text and answers. *)

Answer(m, results) ==
  /\ \E res \in results : messages' = Answered(m, m.op, res)
  /\ undefined' = (undefined \/ (m.obj \in TextID /\ texts[m.obj] = "NONE"))
  /\ UNCHANGED <<m_connection_map, m_used_id_set, m_in_connection, m_session_map,
                 m_rtt_sess_text_map, texts, aborted>>

\* LTransTextProcessor cuts the text into paragraphs; TxtParser takes every text.
on_submit_process(m) == m.op = "TEXTPROC" /\ m.res = "REQ" /\ Answer(m, {"SUCCESS"})

on_pre_process(m) == m.op = "PREPROC" /\ m.res = "REQ" /\ Answer(m, {"SUCCESS", "ERROR"})

\* The RTT TransController, by what TextService says of it: one answer to a text.
finish_translation(m) == m.op = "TRANS" /\ m.res = "REQ" /\ Answer(m, {"SUCCESS", "ERROR"})

on_post_process(m) == m.op = "POSTPROC" /\ m.res = "REQ" /\ Answer(m, {"SUCCESS", "ERROR"})

\* DictProcessor, TemplateLibProcessor, GeneralOperation, OltTaskManager.
on_ask(m) == m.op = "ASK" /\ m.res = "REQ" /\ Answer(m, {"SUCCESS"})

Engine(m) ==
  \/ on_submit_process(m) \/ on_pre_process(m) \/ finish_translation(m)
  \/ on_post_process(m) \/ on_ask(m)

-----------------------------------------------------------------------------
Init ==
  /\ NetInit
  /\ m_session_map = [c \in CallID |-> NoSession]
  /\ m_rtt_sess_text_map = [t \in TextID |-> NoCallID]
  /\ texts = [t \in TextID |-> "NONE"]
  /\ undefined = FALSE
  /\ aborted = FALSE

Serve(m) == on_event(m) \/ Engine(m) \/ (post_handler(m) /\ UNCHANGED usrvars)

Next ==
  /\ ~aborted
  /\ \/ handle_accept /\ UNCHANGED usrvars
     \/ \E s \in Sock : (handle_read(s) \/ handle_write(s)) /\ UNCHANGED usrvars
     \/ \E m \in messages : Serve(m)

\* The threads run, a translation ends, and what is sent is taken or fails.  Nobody has to
\* connect, or to send what the server waits for.
Fairness ==
  /\ \A c \in CallID : WF_vars(~aborted /\ \E m \in messages : For(m) = c /\ Serve(m))
  /\ \A s \in Sock : WF_vars(~aborted /\ handle_write(s) /\ UNCHANGED usrvars)

Spec == Init /\ [][Next]_vars /\ Fairness

-----------------------------------------------------------------------------
(* Properties. *)

\* Every variable holds values of its kind.
TypeOK ==
  /\ m_connection_map \in [Sock -> {NoConnection, Quiet} \cup Pending]
  /\ m_used_id_set \subseteq Sock
  /\ m_in_connection \in Sock
  /\ messages \subseteq Message
  /\ m_session_map \in [CallID -> Session \cup {NoSession}]
  /\ m_rtt_sess_text_map \in [TextID -> CallID \cup {NoCallID}]
  /\ texts \in [TextID -> {"NONE", "CELLS", "BLANK"}]
  /\ undefined \in BOOLEAN
  /\ aborted \in BOOLEAN

\* What a session waits for, by its state and its process.
WaitsFor(s) ==
  CASE s._state = "RECVING" -> "RECV"
    [] s._state = "SENDING" -> "SEND"
    [] s._state = "CLOSING" -> "CLOSE"
    [] s.process \in {"REMOTE_PROC", "SEG_REMOTE_PROC"} -> "TEXTPROC"
    [] s.process = "SEG_PREPROC" -> "PREPROC"
    [] OTHER -> s.process

\* A session has one thing under way, a request, an operation of its connection or an
\* answer, and it is the one it waits for, about its own socket or text; there is nothing
\* else under way.  So no answer is late, unexpected or for nobody; none of the checks of
\* sock, state and session ever finds anything; and the packet a connection reads or
\* writes is always that of a session in the map (on_event, Connection::Recv, Send).
OneThingEach ==
  /\ \A c \in CallID : InMap(c) =>
       LET s == m_session_map[c]
           ms == {m \in messages : For(m) = c}
           conns == {k \in Sock : m_connection_map[k].cid = c} IN
       /\ Cardinality(ms) + Cardinality(conns) = 1
       /\ \A m \in ms : /\ m.op = WaitsFor(s)
                        /\ m.op \in NetOps => m.obj = s._sock
                        /\ s._tid # NoText => m.obj = s._tid
       /\ \A k \in conns : m_connection_map[k].op = WaitsFor(s) /\ k = s._sock
  /\ \A m \in messages : m.op = "LISTEN" \/ InMap(For(m))
  /\ \A k \in Sock : m_connection_map[k] \in Pending => InMap(m_connection_map[k].cid)

\* The sessions that have not had their socket closed.
Holders(k) ==
  {c \in CallID : /\ m_session_map[c]._sock = k
                  /\ \A m \in messages : m.cid = c /\ m.op = "CLOSE" => m.res = "REQ"}

\* Each open socket has one owner, a session or the news that it is there; a session's
\* socket stays open until the session has had it closed, whoever connects meanwhile and
\* gets which recycled id; and the ids of the open sockets, of the acceptor and of the
\* connection it waits with are in use and differ.  (Others are in use for ever: those of
\* the accepts that failed.)
SocketsOwned ==
  /\ \A k \in Sock :
       Cardinality(Holders(k)) + Cardinality({m \in messages : m.op = "LISTEN" /\ m.obj = k})
         = IF IsOpen(k) THEN 1 ELSE 0
  /\ ~IsOpen(m_in_connection) /\ ~IsOpen(ListenSock) /\ m_in_connection # ListenSock
  /\ {k \in Sock : IsOpen(k)} \cup {m_in_connection, ListenSock} \subseteq m_used_id_set

\* The map that leads a TransResult to its session names the sessions that translate or
\* segment, each under the id of its text (registe_rtt_trans_text, end_process); such a
\* text is in memory as long as its session has it, and no longer than that.
TextsOwned ==
  \A t \in TextID :
    /\ \A c \in CallID : m_rtt_sess_text_map[t] = c <=> m_session_map[c]._tid = t
    /\ texts[t] = "NONE" <=> m_rtt_sess_text_map[t] = NoCallID

\* No text is deleted twice, or used by an engine after it was deleted.
NeverUndefined == ~undefined

\* What the peer on a socket sees of the server.
peer == [k \in Sock |->
  IF ~IsOpen(k) THEN "AWAY"
  ELSE IF \E m \in messages : m.obj = k /\
            <<m.op, m.res>> \in {<<"CLOSE", "REQ">>, <<"SEND", "SUCCESS">>, <<"SEND", "ERROR">>,
                                 <<"RECV", "ERROR">>}
       THEN "DONE"
  ELSE IF \/ \E c \in CallID : m_session_map[c]._sock = k /\ m_session_map[c]._state \in {"PROCESS", "SENDING"}
          \/ \E m \in messages : m.op = "RECV" /\ m.res = "SUCCESS" /\ m.obj = k
       THEN "ASKED" ELSE "CONNECTED"]

Reply == INSTANCE ReplyService

\* A peer whose request was read is sent one answer, and only then closed.
ImplementsReplyService == Reply!RSSpec

\* A session that has its request comes to its end.
RequestsEnd == \A c \in CallID : InMap(c) /\ m_session_map[c]._state # "RECVING" ~> ~InMap(c)

\* The assertion of TransText::GetTransTgt(idx) holds: there is a sentence number idx.
NeverAborted == ~aborted
=============================================================================
