----------------------------- MODULE NetDriver -----------------------------
(***************************************************************************)
(* AsyncNetDriver as the session manager of the users uses it: it accepts  *)
(* connections and receives, sends and closes on request (src/NetDriver).  *)
(* All of it runs on the one thread of m_io_service, so an action is one   *)
(* request or one completion.  Requests and answers are members of the set *)
(* messages; the two queues are FIFO, and the set allows more.             *)
(***************************************************************************)
EXTENDS FiniteSets

CONSTANTS
  Sock,       \* the sockfds of UidGenerator; a counter that wraps around, so an id comes again
  ListenSock, \* the one that Listen has taken for the acceptor
  CallID,
  NoCallID,
  TextID

ASSUME NetAssumption == NoCallID \notin CallID /\ ListenSock \in Sock

VARIABLES
  m_connection_map,  \* [Sock -> what the connection is doing and for whom, or NoConnection]
  m_used_id_set,
  m_in_connection,   \* the sockfd of the connection that is waiting for a peer
  messages

netvars == <<m_connection_map, m_used_id_set, m_in_connection, messages>>

NoConnection == [op |-> "NONE", cid |-> NoCallID]
Quiet == [op |-> "QUIET", cid |-> NoCallID]
Pending == [op: {"RECV", "SEND"}, cid: CallID]

NetOps == {"RECV", "SEND", "CLOSE"}

\* A request or its answer; obj is the sockfd or the text it is about.
Message ==
  [op: {"LISTEN"}, cid: {NoCallID}, obj: Sock, res: {"SUCCESS"}] \cup
  [op: NetOps, cid: CallID, obj: Sock, res: {"REQ", "SUCCESS", "ERROR"}] \cup
  [op: {"ASK"}, cid: CallID, obj: {NoCallID}, res: {"REQ", "SUCCESS", "ERROR"}] \cup
  [op: {"TEXTPROC", "PREPROC", "TRANS", "POSTPROC"}, cid: CallID \cup {NoCallID},
   obj: TextID, res: {"REQ", "SUCCESS", "ERROR"}]

Msg(op, cid, obj, res) == [op |-> op, cid |-> cid, obj |-> obj, res |-> res]

\* The answer to m takes its place.
Answered(m, op, res) == (messages \ {m}) \cup {Msg(op, m.cid, m.obj, res)}

IsOpen(s) == m_connection_map[s] # NoConnection

-----------------------------------------------------------------------------
\* The next peer gets a new connection, with a new sockfd.  There are 2^31; where the few
\* of Sock are used up, nobody is accepted until one is given back.
start_accept ==
  \E id \in Sock \ m_used_id_set :
    m_in_connection' = id /\ m_used_id_set' = m_used_id_set \cup {id}

\* A peer has connected.
Accepted(s) ==
  /\ m_connection_map' = [m_connection_map EXCEPT ![s] = IF IsOpen(s) THEN @ ELSE Quiet]
  /\ messages' = messages \cup {Msg("LISTEN", NoCallID, s, "SUCCESS")}

\* Or the accept has failed.  Either way m_in_connection is given up, and when it has failed
\* nobody gives its sockfd back.
handle_accept ==
  /\ Accepted(m_in_connection) \/ UNCHANGED <<m_connection_map, messages>>
  /\ start_accept

\* The connection starts op for the caller; that it does nothing else yet is not checked.
Begins(m) ==
  /\ m_connection_map' = [m_connection_map EXCEPT ![m.obj] = [op |-> m.op, cid |-> m.cid]]
  /\ messages' = messages \ {m}

req_recv(m) ==
  /\ m.op = "RECV" /\ m.res = "REQ"
  /\ \/ IsOpen(m.obj) /\ Begins(m)
     \/ ~IsOpen(m.obj) /\ messages' = Answered(m, "RECV", "ERROR") /\ UNCHANGED m_connection_map
  /\ UNCHANGED <<m_used_id_set, m_in_connection>>

\* A send on an unknown socket is answered as a receive.
req_send(m) ==
  /\ m.op = "SEND" /\ m.res = "REQ"
  /\ \/ IsOpen(m.obj) /\ Begins(m)
     \/ ~IsOpen(m.obj) /\ messages' = Answered(m, "RECV", "ERROR") /\ UNCHANGED m_connection_map
  /\ UNCHANGED <<m_used_id_set, m_in_connection>>

\* What is pending on the connection ends with an error.
Cancelled(s) ==
  IF m_connection_map[s] \in Pending
  THEN {Msg(m_connection_map[s].op, m_connection_map[s].cid, s, "ERROR")} ELSE {}

\* Faulty form of req_close: the sockfd is given back before the socket is closed.
RecycleOnly(m) ==
  /\ m.op = "CLOSE" /\ m.res = "REQ"
  /\ messages' = Answered(m, "CLOSE", "SUCCESS")
  /\ m_used_id_set' = m_used_id_set \ {m.obj}
  /\ UNCHANGED <<m_connection_map, m_in_connection>>

\* Nobody asks for the acceptor to be closed: a session closes its own socket, which is not
\* ListenSock (SocketsOwned).
req_close(m) ==
  /\ m.op = "CLOSE" /\ m.res = "REQ"
  /\ \/ /\ IsOpen(m.obj)
        /\ messages' = Answered(m, "CLOSE", "SUCCESS") \cup Cancelled(m.obj)
        /\ m_connection_map' = [m_connection_map EXCEPT ![m.obj] = NoConnection]
        /\ m_used_id_set' = m_used_id_set \ {m.obj}
     \/ /\ ~IsOpen(m.obj)
        /\ messages' = Answered(m, "CLOSE", "ERROR")
        /\ UNCHANGED <<m_connection_map, m_used_id_set>>
  /\ UNCHANGED m_in_connection

\* The pending operation is over.  One that needs several reads is one here.
Completes(s, op, res) ==
  /\ m_connection_map[s].op = op
  /\ m_connection_map' = [m_connection_map EXCEPT ![s] = Quiet]
  /\ messages' = messages \cup {Msg(op, m_connection_map[s].cid, s, res)}
  /\ UNCHANGED <<m_used_id_set, m_in_connection>>

\* The packet is complete; or the peer has gone or has sent nonsense.
handle_read(s) == Completes(s, "RECV", "SUCCESS") \/ Completes(s, "RECV", "ERROR")

handle_write(s) == Completes(s, "SEND", "SUCCESS") \/ Completes(s, "SEND", "ERROR")

\* Faulty form of post_handler: a break is missing, and a close is begun like a send.
FallsThrough(m) ==
  \/ req_recv(m) \/ req_send(m)
  \/ /\ m.op = "CLOSE" /\ m.res = "REQ" /\ Begins(m)
     /\ UNCHANGED <<m_used_id_set, m_in_connection>>

post_handler(m) == req_recv(m) \/ req_send(m) \/ req_close(m)

NetInit ==
  /\ m_in_connection \in Sock \ {ListenSock}
  /\ m_used_id_set = {ListenSock, m_in_connection}
  /\ m_connection_map = [s \in Sock |-> NoConnection]
  /\ messages = {}
=============================================================================
