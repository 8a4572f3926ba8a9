------------------------ MODULE UsrSessManager_proofs ------------------------
(* For any sockets, call ids and texts: a session has one thing under way,   *)
(* sockets and texts have one owner, no text is used after it was deleted,   *)
(* and ReplyService is implemented.                                          *)
EXTENDS UsrSessManager, FiniteSetTheorems, TLAPS

\* A session has a process in state PROCESS only, and a text if the process works on one.
SessionsFit ==
  \A c \in CallID : InMap(c) =>
    /\ m_session_map[c]._state = "PROCESS" <=> m_session_map[c].process # "NULL"
    /\ m_session_map[c]._tid # NoText <=> m_session_map[c].process \in RttStates \cup SegStates

\* What is under way is what the session waits for, about its socket or its text.
Fits(s, op, obj) ==
  /\ op = WaitsFor(s)
  /\ op \in NetOps => obj = s._sock
  /\ s._tid # NoText => obj = s._tid

\* OneThingEach without counting: a message or an operation of a connection, never both.
Jobs ==
  /\ \A c \in CallID : InMap(c) =>
       (\E m \in messages : For(m) = c) \/ (\E k \in Sock : m_connection_map[k].cid = c)
  /\ \A m \in messages : m.op # "LISTEN" =>
       /\ InMap(For(m)) /\ Fits(m_session_map[For(m)], m.op, m.obj)
       /\ m.cid = IF m.op = "TRANS" THEN NoCallID ELSE For(m)
  /\ \A m1, m2 \in messages : m1.op # "LISTEN" /\ For(m1) = For(m2) => m1 = m2
  /\ \A k \in Sock : m_connection_map[k] \in Pending =>
       /\ InMap(m_connection_map[k].cid)
       /\ Fits(m_session_map[m_connection_map[k].cid], m_connection_map[k].op, k)
       /\ \A m \in messages : For(m) # m_connection_map[k].cid

\* The session's socket has not been closed for it.
Holds(c) ==
  /\ InMap(c)
  /\ \A m \in messages : m.cid = c /\ m.op = "CLOSE" => m.res = "REQ"

\* SocketsOwned without counting.
Sockets ==
  /\ \A c \in CallID : Holds(c) => IsOpen(m_session_map[c]._sock)
  /\ \A c1, c2 \in CallID :
       Holds(c1) /\ Holds(c2) /\ m_session_map[c1]._sock = m_session_map[c2]._sock => c1 = c2
  /\ \A m \in messages : m.op = "LISTEN" =>
       IsOpen(m.obj) /\ \A c \in CallID : Holds(c) => m_session_map[c]._sock # m.obj
  /\ \A k \in Sock : IsOpen(k) =>
       \/ \E c \in CallID : Holds(c) /\ m_session_map[c]._sock = k
       \/ \E m \in messages : m.op = "LISTEN" /\ m.obj = k
  /\ ~IsOpen(m_in_connection) /\ ~IsOpen(ListenSock) /\ m_in_connection # ListenSock
  /\ {k \in Sock : IsOpen(k)} \cup {m_in_connection, ListenSock} \subseteq m_used_id_set

IInv ==
  TypeOK /\ SessionsFit /\ Jobs /\ Sockets /\ TextsOwned /\ NeverUndefined

-----------------------------------------------------------------------------
\* What IInv says of a request or answer that is under way.
LEMMA UnderWay ==
  ASSUME IInv, NEW m \in messages, m.op # "LISTEN"
  PROVE  /\ m \in Message /\ For(m) \in CallID /\ InMap(For(m))
         /\ m_session_map[For(m)] \in Session
         /\ Fits(m_session_map[For(m)], m.op, m.obj)
         /\ m.cid = IF m.op = "TRANS" THEN NoCallID ELSE For(m)
         /\ \A k \in messages : For(k) = For(m) => k = m
         /\ \A k \in Sock : m_connection_map[k].cid # For(m)
<1>1. /\ InMap(For(m)) /\ Fits(m_session_map[For(m)], m.op, m.obj)
      /\ m.cid = IF m.op = "TRANS" THEN NoCallID ELSE For(m)
      /\ \A k \in messages : For(k) = For(m) => k = m
  BY DEF IInv, Jobs
<1>2. m \in Message /\ For(m) \in CallID /\ m_session_map[For(m)] \in Session
  BY <1>1 DEF IInv, TypeOK, InMap
<1>3. \A k \in Sock : m_connection_map[k].cid # For(m)
  <2> SUFFICES ASSUME NEW k \in Sock, m_connection_map[k].cid = For(m)
               PROVE  FALSE
    OBVIOUS
  <2>1. m_connection_map[k] \in Pending
    BY <1>2, NetAssumption DEF IInv, TypeOK, NetAssumption, NoConnection, Quiet
  <2> QED BY <2>1 DEF IInv, Jobs
<1> QED BY <1>1, <1>2, <1>3

\* A new connection nobody has taken.
LEMMA NewSock ==
  ASSUME IInv, NEW m \in messages, m.op = "LISTEN"
  PROVE  /\ m = Msg("LISTEN", NoCallID, m.obj, "SUCCESS") /\ m.obj \in Sock
         /\ For(m) = NoCallID /\ IsOpen(m.obj)
         /\ \A c \in CallID : Holds(c) => m_session_map[c]._sock # m.obj
<1>1. m \in Message
  BY DEF IInv, TypeOK
<1>2. m = Msg("LISTEN", NoCallID, m.obj, "SUCCESS") /\ m.obj \in Sock
  BY <1>1 DEF Message, Msg, NetOps
<1>3. m.cid = NoCallID
  BY <1>1 DEF Message, NetOps
<1> QED BY <1>2, <1>3 DEF For, IInv, Sockets

\* A session that waits for the network.
LEMMA Resting ==
  ASSUME IInv, NEW m \in messages, m.op \in NetOps
  PROVE  /\ m.cid = For(m) /\ m.obj = m_session_map[For(m)]._sock
         /\ m_session_map[For(m)].process = "NULL" /\ m_session_map[For(m)]._tid = NoText
         /\ m_session_map[For(m)]._state
              = CASE m.op = "RECV" -> "RECVING" [] m.op = "SEND" -> "SENDING" [] m.op = "CLOSE" -> "CLOSING"
<1> DEFINE c == For(m)
           s == m_session_map[c]
<1>1. /\ m.op # "LISTEN" /\ m.op # "TRANS" /\ c \in CallID /\ s \in Session /\ InMap(c)
      /\ m.op = WaitsFor(s) /\ m.obj = s._sock
  BY UnderWay DEF Fits, NetOps
<1>2. /\ s._state = "PROCESS" <=> s.process # "NULL"
      /\ s._tid # NoText <=> s.process \in RttStates \cup SegStates
  BY <1>1 DEF IInv, SessionsFit
<1>3. m.cid = c
  BY <1>1, UnderWay
<1> HIDE DEF c, s
<1>4. s._state \in {"RECVING", "PROCESS", "SENDING", "CLOSING"} /\ s.process \in {"NULL", "ASK"} \cup RttStates \cup SegStates
  BY <1>1 DEF Session
<1>5. s._state # "PROCESS"
  BY <1>1, <1>2, <1>4 DEF WaitsFor, NetOps, RttStates, SegStates
<1>6. s._state = CASE m.op = "RECV" -> "RECVING" [] m.op = "SEND" -> "SENDING" [] m.op = "CLOSE" -> "CLOSING"
  BY <1>1, <1>2, <1>4, <1>5 DEF WaitsFor
<1> QED BY <1>1, <1>2, <1>3, <1>5, <1>6 DEF s, c, RttStates, SegStates

\* An operation under way belongs to a session that has its socket and no message.
LEMMA OnConnection ==
  ASSUME IInv, NEW k \in Sock, m_connection_map[k].op \in {"RECV", "SEND"}
  PROVE  LET c == m_connection_map[k].cid
         IN  /\ m_connection_map[k] \in Pending /\ c \in CallID /\ InMap(c) /\ Holds(c)
             /\ m_session_map[c]._sock = k /\ Fits(m_session_map[c], m_connection_map[k].op, k)
             /\ \A m \in messages : For(m) # c
<1> DEFINE c == m_connection_map[k].cid
<1>1. m_connection_map[k] \in Pending
  BY DEF IInv, TypeOK, NoConnection, Quiet
<1>2. /\ c \in CallID /\ InMap(c) /\ Fits(m_session_map[c], m_connection_map[k].op, k)
      /\ \A m \in messages : For(m) # c
  BY <1>1 DEF IInv, Jobs, Pending
<1>3. m_session_map[c]._sock = k
  BY <1>2 DEF Fits, NetOps
<1>4. Holds(c)
  <2>1. \A m \in messages : m.op = "CLOSE" => m.cid = For(m)
    BY DEF For
  <2> QED BY <1>2, <2>1 DEF Holds
<1> QED BY <1>1, <1>2, <1>3, <1>4

-----------------------------------------------------------------------------
(* What the peers see, by what is under way. *)

\* With m under way the peer has its answer, or gets none.
Past(m) ==
  <<m.op, m.res>> \in {<<"CLOSE", "REQ">>, <<"SEND", "SUCCESS">>, <<"SEND", "ERROR">>, <<"RECV", "ERROR">>}

IsRead(m) == m.op = "RECV" /\ m.res = "SUCCESS"

View(m, s) ==
  IF Past(m) THEN "DONE"
  ELSE IF s._state \in {"PROCESS", "SENDING"} \/ IsRead(m) THEN "ASKED" ELSE "CONNECTED"

Seen ==
  /\ \A k \in Sock : ~IsOpen(k) => peer[k] = "AWAY"
  /\ \A m \in messages : m.op = "LISTEN" => peer[m.obj] = "CONNECTED"
  /\ \A m \in messages : m.op # "LISTEN" /\ Holds(For(m)) =>
       peer[m_session_map[For(m)]._sock] = View(m, m_session_map[For(m)])
  /\ \A k \in Sock : m_connection_map[k].op \in {"RECV", "SEND"} =>
       peer[k] = IF m_connection_map[k].op = "RECV" THEN "CONNECTED" ELSE "ASKED"

\* A session whose socket is closed has only the news of it under way.
LEMMA Dropped ==
  ASSUME IInv, NEW c \in CallID, InMap(c), ~Holds(c)
  PROVE  /\ m_session_map[c]._state = "CLOSING"
         /\ \A m \in messages : For(m) = c => m.op = "CLOSE" /\ m.res # "REQ"
<1>1. PICK x \in messages : x.cid = c /\ x.op = "CLOSE" /\ x.res # "REQ"
  BY DEF Holds
<1>2. For(x) = c
  BY <1>1 DEF For
<1>3. m_session_map[c]._state = "CLOSING"
  BY <1>1, <1>2, Resting DEF NetOps
<1>4. \A m \in messages : For(m) = c => m = x
  BY <1>1, <1>2, UnderWay
<1> QED BY <1>1, <1>3, <1>4

\* Who has the peer of an open socket on his hands holds it, and nobody else does.
LEMMA Holding ==
  ASSUME IInv, NEW k \in Sock
  PROVE  /\ \A m \in messages : m.obj = k /\ (Past(m) \/ IsRead(m)) =>
              For(m) \in CallID /\ Holds(For(m)) /\ m_session_map[For(m)]._sock = k
         /\ \A c \in CallID : m_session_map[c]._sock = k
                                /\ m_session_map[c]._state \in {"PROCESS", "SENDING"} => Holds(c)
         /\ \A c, d \in CallID : Holds(c) /\ Holds(d) /\ m_session_map[c]._sock = k
                                   /\ m_session_map[d]._sock = k => c = d
<1>1. ASSUME NEW m \in messages, m.obj = k, Past(m) \/ IsRead(m)
      PROVE  For(m) \in CallID /\ Holds(For(m)) /\ m_session_map[For(m)]._sock = k
  <2>1. m.op \in NetOps /\ (m.op = "CLOSE" => m.res = "REQ")
    BY <1>1 DEF Past, IsRead, NetOps
  <2>2. For(m) \in CallID /\ InMap(For(m)) /\ m_session_map[For(m)]._sock = k
    BY <1>1, <2>1, UnderWay, Resting DEF NetOps
  <2> QED BY <2>1, <2>2, Dropped
<1>2. ASSUME NEW c \in CallID, m_session_map[c]._state \in {"PROCESS", "SENDING"}
      PROVE  Holds(c)
  <2>1. InMap(c)
    BY <1>2 DEF InMap, NoSession
  <2> QED BY <1>2, <2>1, Dropped
<1>3. \A c, d \in CallID : Holds(c) /\ Holds(d) /\ m_session_map[c]._sock = k
                             /\ m_session_map[d]._sock = k => c = d
  BY DEF IInv, Sockets
<1> QED BY <1>1, <1>2, <1>3

\* What the peer of an open socket sees, in the terms of this module.
LEMMA PeerIs ==
  ASSUME NEW k \in Sock, IsOpen(k)
  PROVE  peer[k] =
           IF \E m \in messages : m.obj = k /\ Past(m) THEN "DONE"
           ELSE IF \/ \E c \in CallID : m_session_map[c]._sock = k /\ m_session_map[c]._state \in {"PROCESS", "SENDING"}
                   \/ \E m \in messages : m.obj = k /\ IsRead(m)
                THEN "ASKED" ELSE "CONNECTED"
  BY DEF peer, Past, IsRead

\* What the peer sees follows from what is under way on its socket.
LEMMA PeerSeen == IInv => Seen
<1> SUFFICES ASSUME IInv
             PROVE  Seen
  OBVIOUS
<1>1. \A k \in Sock : ~IsOpen(k) => peer[k] = "AWAY"
  BY DEF peer
<1>2. ASSUME NEW m \in messages, m.op = "LISTEN"
      PROVE  peer[m.obj] = "CONNECTED"
  <2>1. m.obj \in Sock /\ IsOpen(m.obj) /\ \A c \in CallID : Holds(c) => m_session_map[c]._sock # m.obj
    BY <1>2, NewSock
  <2> QED BY <2>1, Holding, PeerIs
<1>3. ASSUME NEW m \in messages, m.op # "LISTEN", Holds(For(m))
      PROVE  peer[m_session_map[For(m)]._sock] = View(m, m_session_map[For(m)])
  <2> DEFINE c == For(m)
             k == m_session_map[c]._sock
  <2>1. /\ c \in CallID /\ k \in Sock /\ \A x \in messages : For(x) = c => x = m
    BY <1>3, UnderWay DEF Session
  <2>2. IsOpen(k)
    BY <1>3, <2>1 DEF IInv, Sockets
  <2>3. Past(m) \/ IsRead(m) => m.obj = k
    <3> SUFFICES ASSUME Past(m) \/ IsRead(m)
                 PROVE  m.obj = k
      OBVIOUS
    <3>1. m.op \in NetOps
      BY DEF Past, IsRead, NetOps
    <3> QED BY <3>1, Resting
  <2>4. For(m) = c
    OBVIOUS
  <2>5. m_session_map[c]._sock = k
    OBVIOUS
  <2> HIDE DEF c, k
  <2>6. (\E x \in messages : x.obj = k /\ Past(x)) <=> Past(m)
    BY <1>3, <2>1, <2>3, <2>4, <2>5, Holding
  <2>7. (\E x \in messages : x.obj = k /\ IsRead(x)) <=> IsRead(m)
    BY <1>3, <2>1, <2>3, <2>4, <2>5, Holding
  <2>8. (\E d \in CallID : m_session_map[d]._sock = k /\ m_session_map[d]._state \in {"PROCESS", "SENDING"})
          <=> m_session_map[c]._state \in {"PROCESS", "SENDING"}
    BY <1>3, <2>1, <2>4, <2>5, Holding
  <2>9. peer[k] = View(m, m_session_map[c])
    BY <2>1, <2>2, <2>6, <2>7, <2>8, PeerIs DEF View
  <2> QED BY <2>9 DEF c, k
<1>4. ASSUME NEW k \in Sock, m_connection_map[k].op \in {"RECV", "SEND"}
      PROVE  peer[k] = IF m_connection_map[k].op = "RECV" THEN "CONNECTED" ELSE "ASKED"
  <2> DEFINE c == m_connection_map[k].cid
             op == m_connection_map[k].op
             s == m_session_map[c]
  <2>1. /\ c \in CallID /\ InMap(c) /\ Holds(c) /\ s._sock = k /\ Fits(s, op, k)
        /\ \A m \in messages : For(m) # c
    BY <1>4, OnConnection
  <2>2. IsOpen(k)
    BY <2>1 DEF IInv, Sockets
  <2>3. s \in Session /\ (s._state = "PROCESS" <=> s.process # "NULL")
    BY <2>1 DEF IInv, TypeOK, SessionsFit, InMap
  <2>4. op \in {"RECV", "SEND"}
    BY <1>4
  <2>5. m_session_map[c] = s
    OBVIOUS
  <2> HIDE DEF c, op, s
  <2>6. s._state = IF op = "RECV" THEN "RECVING" ELSE "SENDING"
    <3>1. s._state \in {"RECVING", "PROCESS", "SENDING", "CLOSING"} /\ s.process \in {"NULL", "ASK"} \cup RttStates \cup SegStates
      BY <2>3 DEF Session
    <3> QED BY <2>1, <2>3, <2>4, <3>1 DEF Fits, WaitsFor, RttStates, SegStates
  <2>7. ~ \E m \in messages : m.obj = k /\ (Past(m) \/ IsRead(m))
    BY <2>1, <2>5, Holding
  <2>8. (\E d \in CallID : m_session_map[d]._sock = k /\ m_session_map[d]._state \in {"PROCESS", "SENDING"})
          <=> s._state \in {"PROCESS", "SENDING"}
    BY <2>1, <2>5, Holding
  <2>9. peer[k] = IF op = "RECV" THEN "CONNECTED" ELSE "ASKED"
    BY <2>2, <2>4, <2>6, <2>7, <2>8, PeerIs
  <2> QED BY <2>9 DEF op
<1> QED BY <1>1, <1>2, <1>3, <1>4 DEF Seen

\* The same after the step.
LEMMA PeerSeenNext == IInv' => Seen'
<1> QED BY PeerSeen, PTL

\* A peer sees nothing of what happens elsewhere.
LEMMA PeerKept ==
  ASSUME NEW k \in Sock, IsOpen(k)' <=> IsOpen(k),
         \A m : m.obj = k /\ (Past(m) \/ IsRead(m)) => (m \in messages' <=> m \in messages),
         \A c \in CallID :
           (m_session_map'[c]._sock = k /\ m_session_map'[c]._state \in {"PROCESS", "SENDING"})
             <=> (m_session_map[c]._sock = k /\ m_session_map[c]._state \in {"PROCESS", "SENDING"})
  PROVE  peer'[k] = peer[k]
<1>1. (\E m \in messages : m.obj = k /\ Past(m)) <=> (\E m \in messages' : m.obj = k /\ Past(m))
  OBVIOUS
<1>2. (\E m \in messages : m.obj = k /\ IsRead(m)) <=> (\E m \in messages' : m.obj = k /\ IsRead(m))
  OBVIOUS
<1> QED BY <1>1, <1>2 DEF peer, IsOpen, Past, IsRead

\* peer is what it is at each socket.
LEMMA PeerSame ==
  ASSUME \A k \in Sock : peer'[k] = peer[k]
  PROVE  peer' = peer
<1>1. peer = [k \in Sock |-> peer[k]]
  BY DEF peer
<1>2. peer' = [k \in Sock |-> peer'[k]]
  BY DEF peer
<1> HIDE DEF peer
<1> QED BY <1>1, <1>2

-----------------------------------------------------------------------------
\* A message of session c, or a new connection for it, is replaced by the next thing the
\* session waits for.  Handlers and engines do no more than this, but for closing.
Turns(m, c, s, req) ==
  /\ IF m.op = "LISTEN" THEN ~InMap(c) ELSE For(m) = c /\ (m.op = "CLOSE" => m.res = "REQ")
  /\ s._sock = IF m.op = "LISTEN" THEN m.obj ELSE m_session_map[c]._sock
  /\ s._state = "PROCESS" <=> s.process # "NULL"
  /\ s._tid # NoText <=> s.process \in RttStates \cup SegStates
  /\ m_session_map' = [m_session_map EXCEPT ![c] = s]
  /\ messages' = (messages \ {m}) \cup {req}
  /\ Fits(s, req.op, req.obj) /\ req.op # "LISTEN"
  /\ req.cid = IF req.op = "TRANS" THEN NoCallID ELSE c
  /\ req.op = "TRANS" => m_rtt_sess_text_map'[req.obj] = c
  /\ req.op = "CLOSE" => req.res = "REQ"
  /\ \A t \in TextID : \A k \in CallID \ {c} :
       m_rtt_sess_text_map'[t] = k <=> m_rtt_sess_text_map[t] = k
  /\ View(req, s) = View(m, m_session_map[c])
  /\ UNCHANGED <<m_connection_map, m_used_id_set, m_in_connection>>

\* Such a step keeps the invariant, and the peers see nothing of it.
LEMMA Turning ==
  ASSUME IInv, NEW m \in messages, NEW c \in CallID, NEW s \in Session, NEW req \in Message,
         Turns(m, c, s, req), TypeOK', TextsOwned', NeverUndefined'
  PROVE  IInv' /\ peer' = peer
<1>1. \A k \in CallID : m_session_map'[k] = IF k = c THEN s ELSE m_session_map[k]
  BY DEF Turns, IInv, TypeOK
<1>2. s # NoSession
  BY DEF Session, NoSession
<1>3. \A k \in CallID : InMap(k)' <=> InMap(k) \/ k = c
  BY <1>1, <1>2 DEF InMap
<1>4. /\ messages' = (messages \ {m}) \cup {req} /\ req.op # "LISTEN"
      /\ UNCHANGED <<m_connection_map, m_used_id_set, m_in_connection>>
  BY DEF Turns
<1>5. For(req)' = c
  BY DEF Turns, For
<1>6. \A x \in messages \ {m} : x.op # "LISTEN" => For(x) # c
  <2> SUFFICES ASSUME NEW x \in messages \ {m}, x.op # "LISTEN", For(x) = c
               PROVE  FALSE
    OBVIOUS
  <2>1. InMap(c) /\ \A k \in messages : For(k) = c => k = x
    BY UnderWay
  <2> QED BY <2>1 DEF Turns
<1>7. \A x \in messages \ {m} : For(x)' = For(x)
  <2> SUFFICES ASSUME NEW x \in messages \ {m}
               PROVE  For(x)' = For(x)
    OBVIOUS
  <2>1. CASE x.op # "TRANS"
    BY <2>1 DEF For
  <2>2. CASE x.op = "TRANS"
    <3>1. x.obj \in TextID
      BY <2>2 DEF IInv, TypeOK, Message, NetOps
    <3>2. For(x) \in CallID \ {c} /\ For(x) = m_rtt_sess_text_map[x.obj]
      BY <1>6, <2>2, UnderWay DEF For
    <3>3. m_rtt_sess_text_map'[x.obj] = For(x)
      BY <3>1, <3>2 DEF Turns
    <3> QED BY <2>2, <3>3 DEF For
  <2> QED BY <2>1, <2>2
<1>8. \A x \in messages \ {m} : x.op # "LISTEN" => For(x) \in CallID /\ For(x) # c
  BY <1>6, UnderWay
<1>9. \A k \in Sock : m_connection_map[k].cid # c
  <2>1. CASE m.op = "LISTEN"
    <3>1. ~InMap(c)
      BY <2>1 DEF Turns
    <3>2. \A k \in Sock : m_connection_map[k] \in Pending => m_connection_map[k].cid # c
      BY <3>1 DEF IInv, Jobs
    <3> QED BY <3>2, NetAssumption DEF IInv, TypeOK, NetAssumption, NoConnection, Quiet
  <2>2. CASE m.op # "LISTEN"
    BY <2>2, UnderWay DEF Turns
  <2> QED BY <2>1, <2>2
<1>10. SessionsFit'
  BY <1>1, <1>3 DEF SessionsFit, IInv, Turns
<1>11. Jobs'
  <2>1. \A k \in CallID : InMap(k)' =>
          (\E x \in Message : x \in messages' /\ For(x)' = k) \/ (\E y \in Sock : m_connection_map'[y].cid = k)
    <3> SUFFICES ASSUME NEW k \in CallID, InMap(k)'
                 PROVE  (\E x \in Message : x \in messages' /\ For(x)' = k) \/ (\E y \in Sock : m_connection_map'[y].cid = k)
      OBVIOUS
    <3>1. CASE k = c
      BY <1>4, <1>5, <3>1
    <3>2. CASE k # c
      <4>1. (\E x \in messages : For(x) = k) \/ (\E y \in Sock : m_connection_map[y].cid = k)
        BY <1>3, <3>2 DEF IInv, Jobs
      <4>2. For(m) # k
        BY <3>2, NewSock, NetAssumption DEF Turns, NetAssumption
      <4> QED BY <1>4, <1>7, <4>1, <4>2 DEF IInv, TypeOK
    <3> QED BY <3>1, <3>2
  <2>2. \A x \in Message : x \in messages' /\ x.op # "LISTEN" =>
          /\ InMap(For(x))' /\ Fits(m_session_map'[For(x)'], x.op, x.obj)
          /\ x.cid = IF x.op = "TRANS" THEN NoCallID ELSE For(x)'
    <3> SUFFICES ASSUME NEW x \in Message, x \in messages', x.op # "LISTEN"
                 PROVE  /\ InMap(For(x))' /\ Fits(m_session_map'[For(x)'], x.op, x.obj)
                        /\ x.cid = IF x.op = "TRANS" THEN NoCallID ELSE For(x)'
      OBVIOUS
    <3>1. CASE x = req
      BY <1>1, <1>3, <1>5, <3>1 DEF Turns
    <3>2. CASE x \in messages \ {m}
      <4>1. /\ For(x) \in CallID /\ For(x) # c /\ InMap(For(x))
            /\ Fits(m_session_map[For(x)], x.op, x.obj)
            /\ x.cid = IF x.op = "TRANS" THEN NoCallID ELSE For(x)
        BY <1>8, <3>2, UnderWay
      <4> QED BY <1>1, <1>3, <1>7, <3>2, <4>1
    <3> QED BY <1>4, <3>1, <3>2
  <2>3. \A x, y \in Message :
          x \in messages' /\ y \in messages' /\ x.op # "LISTEN" /\ For(x)' = For(y)' => x = y
    <3>1. \A x \in messages \ {m} : For(x) # c
      BY <1>8, NewSock, NetAssumption DEF NetAssumption
    <3>2. \A x, y \in messages : x.op # "LISTEN" /\ For(x) = For(y) => x = y
      BY DEF IInv, Jobs
    <3> QED BY <1>4, <1>5, <1>7, <3>1, <3>2
  <2>4. \A k \in Sock : m_connection_map'[k] \in Pending =>
          /\ InMap(m_connection_map[k].cid)'
          /\ Fits(m_session_map'[m_connection_map'[k].cid], m_connection_map'[k].op, k)
          /\ \A x \in Message : x \in messages' => For(x)' # m_connection_map'[k].cid
    <3> SUFFICES ASSUME NEW k \in Sock, m_connection_map[k] \in Pending
                 PROVE  /\ InMap(m_connection_map[k].cid)'
                        /\ Fits(m_session_map'[m_connection_map[k].cid], m_connection_map[k].op, k)
                        /\ \A x \in Message : x \in messages' => For(x)' # m_connection_map[k].cid
      BY <1>4
    <3>1. /\ InMap(m_connection_map[k].cid) /\ m_connection_map[k].cid \in CallID
          /\ Fits(m_session_map[m_connection_map[k].cid], m_connection_map[k].op, k)
          /\ \A x \in messages : For(x) # m_connection_map[k].cid
      BY DEF IInv, Jobs, InMap
    <3> QED BY <1>1, <1>3, <1>4, <1>5, <1>7, <1>9, <3>1
  <2>5. messages' \subseteq Message
    BY DEF TypeOK
  <2> QED BY <2>1, <2>2, <2>3, <2>4, <2>5 DEF Jobs
<1>12. Sockets'
  <2>1. \A x \in messages' : x.op = "CLOSE" => x.res = "REQ" \/ x \in messages \ {m}
    BY <1>4 DEF Turns
  <2>2. \A x \in messages \ {m} : x.op = "CLOSE" => x.cid = For(x) /\ x.cid # c
    BY <1>8 DEF For
  <2>3. m.op = "CLOSE" => m.res = "REQ"
    BY NewSock DEF Turns
  <2>4. Holds(c)'
    BY <1>3, <2>1, <2>2 DEF Holds
  <2>5. \A k \in CallID \ {c} : Holds(k)' <=> Holds(k)
    BY <1>3, <1>4, <2>1, <2>3 DEF Holds
  <2>6. m.op # "LISTEN" => Holds(c)
    <3> SUFFICES ASSUME m.op # "LISTEN"
                 PROVE  Holds(c)
      OBVIOUS
    <3>1. For(m) = c /\ InMap(c) /\ \A x \in messages : For(x) = c => x = m
      BY UnderWay DEF Turns
    <3>2. \A x \in messages : x.op = "CLOSE" => x.cid = For(x)
      BY DEF For
    <3> QED BY <2>3, <3>1, <3>2 DEF Holds
  <2>7. m.op = "LISTEN" => ~Holds(c)
    BY DEF Turns, Holds
  <2>8. \A k \in Sock : IsOpen(k)' <=> IsOpen(k)
    BY <1>4 DEF IsOpen
  <2>9. m_session_map'[c]._sock = IF m.op = "LISTEN" THEN m.obj ELSE m_session_map[c]._sock
    BY <1>1 DEF Turns
  <2>10. \A x \in messages : x.op = "LISTEN" /\ m.op = "LISTEN" /\ x.obj = m.obj => x = m
    BY NewSock
  <2>11. \A x \in messages' : x.op = "LISTEN" => x \in messages \ {m}
    BY <1>4
  <2>12. Sockets
    BY DEF IInv
  <2>13. \A k \in CallID : Holds(k)' => IsOpen(m_session_map'[k]._sock)
    <3>1. m.op = "LISTEN" => IsOpen(m.obj)
      BY NewSock
    <3> QED BY <1>1, <2>5, <2>6, <2>9, <2>12, <3>1 DEF Sockets
  <2>14. \A k, n \in CallID :
           Holds(k)' /\ Holds(n)' /\ m_session_map'[k]._sock = m_session_map'[n]._sock => k = n
    <3>1. m.op = "LISTEN" => \A k \in CallID : Holds(k) => m_session_map[k]._sock # m.obj
      BY NewSock
    <3> QED BY <1>1, <2>5, <2>6, <2>9, <2>12, <3>1 DEF Sockets
  <2>15. \A x \in messages' : x.op = "LISTEN" =>
           IsOpen(x.obj) /\ \A k \in CallID : Holds(k)' => m_session_map'[k]._sock # x.obj
    <3> SUFFICES ASSUME NEW x \in messages \ {m}, x.op = "LISTEN"
                 PROVE  IsOpen(x.obj) /\ \A k \in CallID : Holds(k)' => m_session_map'[k]._sock # x.obj
      BY <2>11
    <3>1. x.obj \in Sock /\ IsOpen(x.obj) /\ \A k \in CallID : Holds(k) => m_session_map[k]._sock # x.obj
      BY NewSock
    <3> QED BY <1>1, <2>5, <2>6, <2>8, <2>9, <2>10, <3>1
  <2>16. \A k \in Sock : IsOpen(k)' =>
           \/ \E n \in CallID : Holds(n)' /\ m_session_map'[n]._sock = k
           \/ \E x \in messages' : x.op = "LISTEN" /\ x.obj = k
    <3> SUFFICES ASSUME NEW k \in Sock, IsOpen(k)
                 PROVE  \/ \E n \in CallID : Holds(n)' /\ m_session_map'[n]._sock = k
                        \/ \E x \in messages' : x.op = "LISTEN" /\ x.obj = k
      BY <2>8
    <3>1. CASE \E n \in CallID : Holds(n) /\ m_session_map[n]._sock = k
      BY <1>1, <2>4, <2>5, <2>7, <2>9, <3>1
    <3>2. CASE \E x \in messages : x.op = "LISTEN" /\ x.obj = k
      BY <1>4, <2>4, <2>9, <3>2
    <3> QED BY <2>12, <3>1, <3>2 DEF Sockets
  <2>17. ~IsOpen(m_in_connection)' /\ ~IsOpen(ListenSock)' /\ m_in_connection' # ListenSock
    BY <1>4, <2>12 DEF Sockets, IsOpen
  <2>18. {k \in Sock : IsOpen(k)'} \cup {m_in_connection', ListenSock} \subseteq m_used_id_set'
    BY <1>4, <2>12 DEF Sockets, IsOpen
  <2> QED BY <2>13, <2>14, <2>15, <2>16, <2>17, <2>18, <1>4 DEF Sockets, IsOpen
<1>13. IInv'
  BY <1>10, <1>11, <1>12 DEF IInv
<1>14. peer' = peer
  <2> DEFINE k0 == s._sock
  <2>1. k0 \in Sock /\ (m.op = "LISTEN" => m.obj = k0) /\ (m.op # "LISTEN" => m_session_map[c]._sock = k0)
    BY DEF Turns, Session
  <2>2. Holds(c)'
    <3>1. \A x \in messages' : x.op = "CLOSE" => x.res = "REQ" \/ x \in messages \ {m}
      BY <1>4 DEF Turns
    <3>2. \A x \in messages \ {m} : x.op = "CLOSE" => x.cid = For(x) /\ x.cid # c
      BY <1>8 DEF For
    <3> QED BY <1>3, <3>1, <3>2 DEF Holds
  <2>3. peer'[k0] = View(req, s)
    <3>1. Seen'
      BY <1>13, PeerSeenNext
    <3>2. req \in messages' /\ req.op # "LISTEN" /\ m_session_map'[c] = s
      BY <1>1, <1>4
    <3>3. Holds(For(req))'
      BY <1>5, <2>2 DEF Holds, InMap
    <3> QED BY <1>5, <3>1, <3>2, <3>3 DEF Seen
  <2>4. peer[k0] = View(m, m_session_map[c])
    <3>1. Seen
      BY PeerSeen
    <3>2. CASE m.op = "LISTEN"
      <4>1. m_session_map[c] = NoSession
        BY <3>2 DEF Turns, InMap
      <4>2. View(m, m_session_map[c]) = "CONNECTED"
        BY <3>2, <4>1 DEF View, Past, IsRead, NoSession
      <4> QED BY <2>1, <3>1, <3>2, <4>2 DEF Seen
    <3>3. CASE m.op # "LISTEN"
      <4>1. For(m) = c /\ InMap(c) /\ (m.op = "CLOSE" => m.res = "REQ")
        BY <3>3, UnderWay DEF Turns
      <4>2. Holds(c)
        BY <4>1, Dropped
      <4> QED BY <2>1, <3>1, <3>3, <4>1, <4>2 DEF Seen
    <3> QED BY <3>2, <3>3
  <2>5. ASSUME NEW k \in Sock, k # k0
        PROVE  peer'[k] = peer[k]
    <3>1. IsOpen(k)' <=> IsOpen(k)
      BY <1>4 DEF IsOpen
    <3>2. \A x : Past(x) \/ IsRead(x) => x.op \in NetOps /\ x.op # "LISTEN" /\ x.op # "TRANS"
      BY DEF Past, IsRead, NetOps
    <3>3. Past(m) \/ IsRead(m) => m.obj = k0
      <4> SUFFICES ASSUME Past(m) \/ IsRead(m)
                   PROVE  m.obj = k0
        OBVIOUS
      <4> QED BY <2>1, <3>2, Resting DEF Turns
    <3>4. Past(req) \/ IsRead(req) => req.obj = k0
      BY <3>2 DEF Turns, Fits
    <3>5. \A x : x.obj = k /\ (Past(x) \/ IsRead(x)) => (x \in messages' <=> x \in messages)
      BY <1>4, <2>5, <3>3, <3>4
    <3>6. m_session_map[c]._sock = k => m_session_map[c]._state \notin {"PROCESS", "SENDING"}
      <4>1. CASE m.op = "LISTEN"
        BY <4>1 DEF Turns, InMap, NoSession
      <4>2. CASE m.op # "LISTEN"
        BY <2>1, <2>5, <4>2
      <4> QED BY <4>1, <4>2
    <3>7. \A d \in CallID :
            (m_session_map'[d]._sock = k /\ m_session_map'[d]._state \in {"PROCESS", "SENDING"})
              <=> (m_session_map[d]._sock = k /\ m_session_map[d]._state \in {"PROCESS", "SENDING"})
      BY <1>1, <2>5, <3>6
    <3> QED BY <3>1, <3>5, <3>7, PeerKept
  <2>6. peer'[k0] = peer[k0]
    BY <2>3, <2>4 DEF Turns
  <2> HIDE DEF k0
  <2> QED BY <2>5, <2>6, PeerSame
<1> QED BY <1>13, <1>14

\* The variables keep their kinds when a session and the thing under way for it change.
LEMMA TypeKept ==
  ASSUME IInv, NEW m, NEW c \in CallID, NEW s \in Session, NEW req \in Message,
         m_session_map' = [m_session_map EXCEPT ![c] = s],
         messages' = (messages \ {m}) \cup {req},
         UNCHANGED <<m_connection_map, m_used_id_set, m_in_connection>>,
         m_rtt_sess_text_map' \in [TextID -> CallID \cup {NoCallID}],
         texts' \in [TextID -> {"NONE", "CELLS", "BLANK"}],
         undefined' \in BOOLEAN, aborted' \in BOOLEAN
  PROVE  TypeOK'
<1>1. m_session_map' \in [CallID -> Session \cup {NoSession}]
  BY DEF IInv, TypeOK
<1>2. messages' \subseteq Message
  BY DEF IInv, TypeOK
<1> QED BY <1>1, <1>2 DEF IInv, TypeOK

\* The session goes on with the text it has, if any.
LEMMA SameText ==
  ASSUME IInv, NEW m \in messages, NEW c \in CallID, NEW s \in Session, NEW req \in Message,
         Turns(m, c, s, req), s._tid = m_session_map[c]._tid,
         UNCHANGED <<m_rtt_sess_text_map, texts>>, undefined' = FALSE, aborted' \in BOOLEAN
  PROVE  IInv' /\ peer' = peer
<1>1. TypeOK'
  <2>1. /\ m_rtt_sess_text_map' \in [TextID -> CallID \cup {NoCallID}]
        /\ texts' \in [TextID -> {"NONE", "CELLS", "BLANK"}]
    BY DEF IInv, TypeOK
  <2> QED BY <2>1, TypeKept DEF Turns
<1>2. TextsOwned'
  <2>1. \A k \in CallID : m_session_map'[k]._tid = m_session_map[k]._tid
    BY DEF Turns, IInv, TypeOK
  <2> QED BY <2>1 DEF IInv, TextsOwned
<1>3. NeverUndefined'
  BY DEF NeverUndefined
<1> QED BY <1>1, <1>2, <1>3, Turning

\* A session is its four fields.
LEMMA SessionFields ==
  ASSUME NEW s \in Session \cup {NoSession}
  PROVE  /\ \A st, p, t : [s EXCEPT !._state = st, !.process = p, !._tid = t]
              = [_state |-> st, _sock |-> s._sock, process |-> p, _tid |-> t]
         /\ \A st, p : [s EXCEPT !._state = st, !.process = p]
              = [_state |-> st, _sock |-> s._sock, process |-> p, _tid |-> s._tid]
         /\ \A st : [s EXCEPT !._state = st]
              = [_state |-> st, _sock |-> s._sock, process |-> s.process, _tid |-> s._tid]
         /\ \A p : [s EXCEPT !.process = p]
              = [_state |-> s._state, _sock |-> s._sock, process |-> p, _tid |-> s._tid]
         /\ \A st, k : [s EXCEPT !._state = st, !._sock = k]
              = [_state |-> st, _sock |-> k, process |-> s.process, _tid |-> s._tid]
<1>1. ASSUME NEW st, NEW p, NEW t
     PROVE  [s EXCEPT !._state = st, !.process = p, !._tid = t]
              = [_state |-> st, _sock |-> s._sock, process |-> p, _tid |-> t]
  <2> DEFINE R == [_state: {s._state, st}, _sock: {s._sock}, process: {s.process, p}, _tid: {s._tid, t}]
         r == [s EXCEPT !._state = st, !.process = p, !._tid = t]
  <2>1. s \in R
    BY DEF Session, NoSession
  <2>2. r \in R /\ r._state = st /\ r._sock = s._sock /\ r.process = p /\ r._tid = t
    BY <2>1
  <2> HIDE DEF r
  <2>3. r = [_state |-> st, _sock |-> s._sock, process |-> p, _tid |-> t]
    BY <2>2
  <2> QED BY <2>3 DEF r
<1>2. ASSUME NEW st, NEW p
     PROVE  [s EXCEPT !._state = st, !.process = p]
              = [_state |-> st, _sock |-> s._sock, process |-> p, _tid |-> s._tid]
  <2> DEFINE R == [_state: {s._state, st}, _sock: {s._sock}, process: {s.process, p}, _tid: {s._tid}]
         r == [s EXCEPT !._state = st, !.process = p]
  <2>1. s \in R
    BY DEF Session, NoSession
  <2>2. r \in R /\ r._state = st /\ r._sock = s._sock /\ r.process = p /\ r._tid = s._tid
    BY <2>1
  <2> HIDE DEF r
  <2>3. r = [_state |-> st, _sock |-> s._sock, process |-> p, _tid |-> s._tid]
    BY <2>2
  <2> QED BY <2>3 DEF r
<1>3. ASSUME NEW st
     PROVE  [s EXCEPT !._state = st]
              = [_state |-> st, _sock |-> s._sock, process |-> s.process, _tid |-> s._tid]
  <2> DEFINE R == [_state: {s._state, st}, _sock: {s._sock}, process: {s.process}, _tid: {s._tid}]
         r == [s EXCEPT !._state = st]
  <2>1. s \in R
    BY DEF Session, NoSession
  <2>2. r \in R /\ r._state = st /\ r._sock = s._sock /\ r.process = s.process /\ r._tid = s._tid
    BY <2>1
  <2> HIDE DEF r
  <2>3. r = [_state |-> st, _sock |-> s._sock, process |-> s.process, _tid |-> s._tid]
    BY <2>2
  <2> QED BY <2>3 DEF r
<1>4. ASSUME NEW p
     PROVE  [s EXCEPT !.process = p]
              = [_state |-> s._state, _sock |-> s._sock, process |-> p, _tid |-> s._tid]
  <2> DEFINE R == [_state: {s._state}, _sock: {s._sock}, process: {s.process, p}, _tid: {s._tid}]
         r == [s EXCEPT !.process = p]
  <2>1. s \in R
    BY DEF Session, NoSession
  <2>2. r \in R /\ r._state = s._state /\ r._sock = s._sock /\ r.process = p /\ r._tid = s._tid
    BY <2>1
  <2> HIDE DEF r
  <2>3. r = [_state |-> s._state, _sock |-> s._sock, process |-> p, _tid |-> s._tid]
    BY <2>2
  <2> QED BY <2>3 DEF r
<1>5. ASSUME NEW st, NEW k
     PROVE  [s EXCEPT !._state = st, !._sock = k]
              = [_state |-> st, _sock |-> k, process |-> s.process, _tid |-> s._tid]
  <2> DEFINE R == [_state: {s._state, st}, _sock: {s._sock, k}, process: {s.process}, _tid: {s._tid}]
         r == [s EXCEPT !._state = st, !._sock = k]
  <2>1. s \in R
    BY DEF Session, NoSession
  <2>2. r \in R /\ r._state = st /\ r._sock = k /\ r.process = s.process /\ r._tid = s._tid
    BY <2>1
  <2> HIDE DEF r
  <2>3. r = [_state |-> st, _sock |-> k, process |-> s.process, _tid |-> s._tid]
    BY <2>2
  <2> QED BY <2>3 DEF r
<1> QED BY <1>1, <1>2, <1>3, <1>4, <1>5

\* end_process of the session, and its text, if it has one, is gone.
LEMMA Ending ==
  ASSUME IInv, NEW m \in messages, m.op \notin {"LISTEN", "CLOSE"}, end_process(m, For(m)),
         texts' = [t \in TextID |-> IF t = m_session_map[For(m)]._tid THEN "NONE" ELSE texts[t]],
         undefined' = FALSE, aborted' \in BOOLEAN, View(m, m_session_map[For(m)]) = "ASKED",
         UNCHANGED <<m_connection_map, m_used_id_set, m_in_connection>>
  PROVE  IInv' /\ peer' = peer
<1> DEFINE c == For(m)
           old == m_session_map[c]
           s == [old EXCEPT !._state = "SENDING", !.process = "NULL", !._tid = NoText]
           req == Msg("SEND", c, old._sock, "REQ")
<1>1. c \in CallID /\ old \in Session /\ old # NoSession
  BY UnderWay DEF InMap
<1>2. s = [_state |-> "SENDING", _sock |-> old._sock, process |-> "NULL", _tid |-> NoText]
  <2>1. \A st, p, t : [old EXCEPT !._state = st, !.process = p, !._tid = t]
                        = [_state |-> st, _sock |-> old._sock, process |-> p, _tid |-> t]
    <3> HIDE DEF old
    <3> QED BY <1>1, SessionFields
  <2> QED BY <2>1, Zenon
<1>3. s \in Session /\ req \in Message
  BY <1>1, <1>2 DEF Session, Message, Msg, NetOps
<1>4. Turns(m, c, s, req)
  <2> HIDE DEF c
  <2>1. \A t \in TextID : \A k \in CallID \ {c} :
          m_rtt_sess_text_map'[t] = k <=> m_rtt_sess_text_map[t] = k
    BY <1>1, NetAssumption DEF end_process, IInv, TextsOwned, NetAssumption, c
  <2>2. Fits(s, req.op, req.obj)
    BY <1>2 DEF Fits, WaitsFor, Msg
  <2>3. m_session_map' = [m_session_map EXCEPT ![c] = s] /\ messages' = (messages \ {m}) \cup {req}
    BY DEF end_process, Goes, c
  <2>4. ~(s._state = "PROCESS") /\ s.process = "NULL" /\ s._tid = NoText /\ s._sock = old._sock
    BY <1>2
  <2>5. req.op = "SEND" /\ req.cid = c
    BY DEF Msg
  <2>6. For(m) = c
    BY DEF c
  <2>7. View(req, s) = View(m, m_session_map[c])
    <3>1. View(req, s) = "ASKED"
      BY <1>2 DEF View, Past, IsRead, Msg
    <3> QED BY <3>1 DEF c
  <2> QED BY <2>1, <2>2, <2>3, <2>4, <2>5, <2>6, <2>7 DEF Turns, RttStates, SegStates
<1>5. TypeOK'
  <2>1. /\ m_rtt_sess_text_map' \in [TextID -> CallID \cup {NoCallID}]
        /\ texts' \in [TextID -> {"NONE", "CELLS", "BLANK"}]
    BY DEF IInv, TypeOK, end_process
  <2> HIDE DEF c, s, req
  <2> QED BY <1>1, <1>3, <1>4, <2>1, TypeKept DEF Turns
<1>6. TextsOwned'
  <2>1. \A k \in CallID : m_session_map'[k]._tid = IF k = c THEN NoText ELSE m_session_map[k]._tid
    BY <1>1, <1>2 DEF IInv, TypeOK, end_process, Goes
  <2>2. \A t \in TextID : m_rtt_sess_text_map'[t]
                            = IF t = old._tid THEN NoCallID ELSE m_rtt_sess_text_map[t]
    BY DEF end_process
  <2>3. \A t \in TextID : texts'[t] = IF t = old._tid THEN "NONE" ELSE texts[t]
    OBVIOUS
  <2>4. TextsOwned /\ NoText \notin TextID /\ NoCallID \notin CallID
    BY UsrAssumption, NetAssumption DEF IInv, UsrAssumption, NetAssumption
  <2> HIDE DEF c, old
  <2>5. \A t \in TextID : t = old._tid => m_rtt_sess_text_map[t] = c
    BY <1>1, <2>4 DEF TextsOwned, old
  <2>6. ASSUME NEW t \in TextID, NEW k \in CallID
        PROVE  m_rtt_sess_text_map'[t] = k <=> m_session_map'[k]._tid = t
    <3>1. m_rtt_sess_text_map[t] = k <=> m_session_map[k]._tid = t
      BY <2>4 DEF TextsOwned
    <3>2. CASE k = c
      <4>1. m_session_map[k]._tid = old._tid
        BY <3>2 DEF old
      <4> QED BY <2>1, <2>2, <2>4, <3>1, <3>2, <4>1
    <3>3. CASE k # c
      BY <2>1, <2>2, <2>4, <2>5, <3>1, <3>3
    <3> QED BY <3>2, <3>3
  <2>7. ASSUME NEW t \in TextID
        PROVE  texts'[t] = "NONE" <=> m_rtt_sess_text_map'[t] = NoCallID
    BY <2>2, <2>3, <2>4 DEF TextsOwned
  <2> QED BY <2>6, <2>7 DEF TextsOwned
<1>7. NeverUndefined'
  BY DEF NeverUndefined
<1> HIDE DEF c, s, req
<1> QED BY <1>1, <1>3, <1>4, <1>5, <1>6, <1>7, Turning

\* A session that waits for an engine with its text.
LEMMA HasText ==
  ASSUME IInv, NEW m \in messages, m.op \in {"TEXTPROC", "PREPROC", "TRANS", "POSTPROC"}
  PROVE  /\ m_session_map[For(m)]._state = "PROCESS"
         /\ m_session_map[For(m)].process \in RttStates \cup SegStates
         /\ m_session_map[For(m)]._tid = m.obj /\ m.obj \in TextID
         /\ texts[m.obj] # "NONE" /\ m_rtt_sess_text_map[m.obj] = For(m)
         /\ m.op = "TEXTPROC" => m_session_map[For(m)].process \in {"REMOTE_PROC", "SEG_REMOTE_PROC"}
         /\ m.op = "PREPROC" => m_session_map[For(m)].process \in {"PREPROC", "SEG_PREPROC"}
         /\ m.op \in {"TRANS", "POSTPROC"} => m_session_map[For(m)].process = m.op
<1> DEFINE c == For(m)
           s == m_session_map[c]
<1>1. /\ m \in Message /\ c \in CallID /\ InMap(c) /\ s \in Session
      /\ m.op = WaitsFor(s) /\ (s._tid # NoText => m.obj = s._tid)
  BY UnderWay DEF Fits
<1>2. /\ s._state = "PROCESS" <=> s.process # "NULL"
      /\ s._tid # NoText <=> s.process \in RttStates \cup SegStates
  BY <1>1 DEF IInv, SessionsFit
<1>3. m.obj \in TextID
  BY <1>1 DEF Message, NetOps
<1> HIDE DEF c, s
<1>4. s._state \in {"RECVING", "PROCESS", "SENDING", "CLOSING"} /\ s.process \in {"NULL", "ASK"} \cup RttStates \cup SegStates
  BY <1>1 DEF Session
<1>5. s._state = "PROCESS"
  BY <1>1, <1>2, <1>4 DEF WaitsFor
<1>6. /\ s.process \in RttStates \cup SegStates
      /\ m.op = "TEXTPROC" => s.process \in {"REMOTE_PROC", "SEG_REMOTE_PROC"}
      /\ m.op = "PREPROC" => s.process \in {"PREPROC", "SEG_PREPROC"}
      /\ m.op \in {"TRANS", "POSTPROC"} => s.process = m.op
  BY <1>1, <1>2, <1>4, <1>5 DEF WaitsFor, RttStates, SegStates
<1>7. s._tid = m.obj
  BY <1>1, <1>2, <1>6
<1>8. m_rtt_sess_text_map[m.obj] = c
  BY <1>1, <1>3, <1>7 DEF IInv, TextsOwned, s
<1>9. texts[m.obj] # "NONE"
  BY <1>1, <1>3, <1>8, NetAssumption DEF IInv, TextsOwned, NetAssumption
<1> QED BY <1>3, <1>5, <1>6, <1>7, <1>8, <1>9 DEF s, c

-----------------------------------------------------------------------------
(* The handlers of the session manager. *)

\* on_listen_newsock: a session takes the new connection.
LEMMA NewSession ==
  ASSUME IInv, NEW m \in messages, on_listen_newsock(m), aborted' \in BOOLEAN,
         UNCHANGED <<m_connection_map, m_used_id_set, m_in_connection>>
  PROVE  IInv' /\ peer' = peer
<1>1. PICK c \in {c \in CallID : ~InMap(c)} :
        Goes(m, c, [NoSession EXCEPT !._state = "RECVING", !._sock = m.obj],
             Msg("RECV", c, m.obj, "REQ"))
  BY DEF on_listen_newsock
<1> DEFINE s == [_state |-> "RECVING", _sock |-> m.obj, process |-> "NULL", _tid |-> NoText]
           req == Msg("RECV", c, m.obj, "REQ")
<1>2. [NoSession EXCEPT !._state = "RECVING", !._sock = m.obj] = s
  <2>1. \A st, k : [NoSession EXCEPT !._state = st, !._sock = k]
                     = [_state |-> st, _sock |-> k, process |-> NoSession.process, _tid |-> NoSession._tid]
    BY SessionFields
  <2>2. [NoSession EXCEPT !._state = "RECVING", !._sock = m.obj]
          = [_state |-> "RECVING", _sock |-> m.obj, process |-> NoSession.process, _tid |-> NoSession._tid]
    BY <2>1, Zenon
  <2>3. NoSession.process = "NULL" /\ NoSession._tid = NoText
    BY DEF NoSession
  <2> QED BY <2>2, <2>3
<1>3. m.op = "LISTEN" /\ m.obj \in Sock
  BY NewSock DEF on_listen_newsock
<1>4. s \in Session /\ req \in Message
  BY <1>3 DEF Session, Message, Msg, NetOps
<1>5. Turns(m, c, s, req)
  <2>1. m_session_map' = [m_session_map EXCEPT ![c] = s] /\ messages' = (messages \ {m}) \cup {req}
    BY <1>1, <1>2 DEF Goes
  <2>2. Fits(s, req.op, req.obj) /\ req.op = "RECV" /\ req.cid = c
    BY DEF Fits, WaitsFor, Msg
  <2>3. ~InMap(c)
    BY <1>1
  <2>4. View(req, s) = View(m, m_session_map[c])
    <3>1. m_session_map[c]._state = "NONE"
      BY <2>3 DEF InMap, NoSession
    <3> QED BY <1>3, <3>1 DEF View, Past, IsRead, Msg
  <2> QED BY <1>3, <2>1, <2>2, <2>3, <2>4 DEF Turns, RttStates, SegStates, on_listen_newsock
<1>6. s._tid = m_session_map[c]._tid
  BY <1>1 DEF InMap, NoSession
<1>7. UNCHANGED <<m_rtt_sess_text_map, texts>> /\ undefined' = FALSE
  BY DEF on_listen_newsock, KeepTexts, IInv, NeverUndefined, TypeOK
<1> HIDE DEF s, req
<1> QED BY <1>1, <1>4, <1>5, <1>6, <1>7, SameText

\* Shutdown: the session has its socket closed.
LEMMA Closing ==
  ASSUME IInv, NEW m \in messages, m.op \in {"RECV", "SEND"}, Shutdown(m, For(m)), Past(m),
         aborted' \in BOOLEAN, UNCHANGED <<m_connection_map, m_used_id_set, m_in_connection>>
  PROVE  IInv' /\ peer' = peer
<1> DEFINE c == For(m)
           old == m_session_map[c]
           s == [_state |-> "CLOSING", _sock |-> old._sock, process |-> old.process, _tid |-> old._tid]
           req == Msg("CLOSE", c, old._sock, "REQ")
<1>1. c \in CallID /\ old \in Session /\ InMap(c) /\ WaitsFor(old) = m.op
  BY UnderWay DEF Fits
<1>2. [old EXCEPT !._state = "CLOSING"] = s
  <2>1. \A st : [old EXCEPT !._state = st]
                  = [_state |-> st, _sock |-> old._sock, process |-> old.process, _tid |-> old._tid]
    <3> HIDE DEF old
    <3> QED BY <1>1, SessionFields
  <2> QED BY <2>1, Zenon
<1>3. old.process = "NULL" /\ old._tid = NoText
  BY Resting DEF NetOps
<1>4. s \in Session /\ req \in Message
  BY <1>1 DEF Session, Message, Msg, NetOps
<1>5. Turns(m, c, s, req)
  <2>1. m_session_map' = [m_session_map EXCEPT ![c] = s] /\ messages' = (messages \ {m}) \cup {req}
    BY <1>2 DEF Shutdown, Goes
  <2>2. Fits(s, req.op, req.obj) /\ req.op = "CLOSE" /\ req.cid = c /\ req.res = "REQ"
    BY <1>3 DEF Fits, WaitsFor, Msg
  <2>3. s._state = "CLOSING" /\ s.process = "NULL" /\ s._tid = NoText /\ s._sock = old._sock
    BY <1>3
  <2>4. View(req, s) = View(m, m_session_map[c])
    BY DEF View, Past, Msg
  <2> HIDE DEF s, req
  <2> QED BY <2>1, <2>2, <2>3, <2>4 DEF Turns, RttStates, SegStates, Shutdown
<1>6. s._tid = m_session_map[c]._tid
  OBVIOUS
<1>7. UNCHANGED <<m_rtt_sess_text_map, texts>> /\ undefined' = FALSE
  BY DEF Shutdown, KeepTexts, IInv, NeverUndefined, TypeOK
<1> HIDE DEF s, req, c
<1> QED BY <1>1, <1>4, <1>5, <1>6, <1>7, SameText

\* The process goes to its next state, or BeginAsk starts one, and asks an engine.
LEMMA Asking ==
  ASSUME IInv, NEW m \in messages, m.op \notin {"LISTEN", "CLOSE"}, NEW s \in Session, NEW req \in Message,
         s._sock = m_session_map[For(m)]._sock, s._tid = m_session_map[For(m)]._tid,
         s._state = "PROCESS", s.process # "NULL",
         s._tid # NoText <=> s.process \in RttStates \cup SegStates,
         Goes(m, For(m), s, req), UNCHANGED m_rtt_sess_text_map, KeepTexts,
         Fits(s, req.op, req.obj),
         req.op \in {"ASK", "TEXTPROC", "PREPROC", "TRANS", "POSTPROC"},
         req.cid = (IF req.op = "TRANS" THEN NoCallID ELSE For(m)),
         req.op = "TRANS" => s._tid # NoText, View(m, m_session_map[For(m)]) = "ASKED",
         aborted' \in BOOLEAN, UNCHANGED <<m_connection_map, m_used_id_set, m_in_connection>>
  PROVE  IInv' /\ peer' = peer
<1>1. For(m) \in CallID
  BY UnderWay
<1>2. req.op = "TRANS" => m_rtt_sess_text_map'[req.obj] = For(m)
  <2> SUFFICES ASSUME req.op = "TRANS"
               PROVE  m_rtt_sess_text_map[req.obj] = For(m)
    OBVIOUS
  <2>1. req.obj = m_session_map[For(m)]._tid /\ req.obj \in TextID
    BY DEF Fits, Message, NetOps
  <2> QED BY <1>1, <2>1 DEF IInv, TextsOwned
<1>3. Turns(m, For(m), s, req)
  <2>1. View(req, s) = "ASKED"
    BY DEF View, Past, IsRead
  <2> QED BY <1>2, <2>1 DEF Turns, Goes
<1>4. UNCHANGED <<m_rtt_sess_text_map, texts>> /\ undefined' = FALSE
  BY DEF KeepTexts, IInv, NeverUndefined, TypeOK
<1> QED BY <1>1, <1>3, <1>4, SameText

\* A real time translation or segmentation begins, with a text of its own.
LEMMA Starting ==
  ASSUME IInv, NEW m \in messages, m.op = "RECV", NEW state \in {"REMOTE_PROC", "SEG_REMOTE_PROC"},
         BeginRtt(m, For(m), state), m.res = "SUCCESS",
         aborted' \in BOOLEAN, UNCHANGED <<m_connection_map, m_used_id_set, m_in_connection>>
  PROVE  IInv' /\ peer' = peer
<1> DEFINE c == For(m)
           old == m_session_map[c]
<1>1. PICK t \in TextID :
        /\ texts[t] = "NONE" /\ m_rtt_sess_text_map[t] = NoCallID
        /\ \E content \in {"CELLS", "BLANK"} : texts' = [texts EXCEPT ![t] = content]
        /\ m_rtt_sess_text_map' = [m_rtt_sess_text_map EXCEPT ![t] = c]
        /\ Goes(m, c, [old EXCEPT !._state = "PROCESS", !.process = state, !._tid = t],
                Msg("TEXTPROC", c, t, "REQ"))
        /\ UNCHANGED undefined
  BY DEF BeginRtt
<1> DEFINE s == [_state |-> "PROCESS", _sock |-> old._sock, process |-> state, _tid |-> t]
           req == Msg("TEXTPROC", c, t, "REQ")
<1>2. c \in CallID /\ old \in Session /\ InMap(c) /\ For(m) = c
  BY UnderWay
<1>3. [old EXCEPT !._state = "PROCESS", !.process = state, !._tid = t] = s
  <2>1. \A st, p, x : [old EXCEPT !._state = st, !.process = p, !._tid = x]
                        = [_state |-> st, _sock |-> old._sock, process |-> p, _tid |-> x]
    <3> HIDE DEF old
    <3> QED BY <1>2, SessionFields
  <2> QED BY <2>1, Zenon
<1>4. old._tid = NoText
  BY Resting DEF NetOps
<1>5. s \in Session /\ req \in Message
  BY <1>2 DEF Session, Message, Msg, NetOps, RttStates, SegStates
<1>6. t # NoText /\ NoText \notin TextID /\ NoCallID \notin CallID
  BY UsrAssumption, NetAssumption DEF UsrAssumption, NetAssumption
<1>7. \A x \in TextID : m_rtt_sess_text_map'[x] = IF x = t THEN c ELSE m_rtt_sess_text_map[x]
  BY <1>1 DEF IInv, TypeOK
<1>8. Turns(m, c, s, req)
  <2>1. m_session_map' = [m_session_map EXCEPT ![c] = s] /\ messages' = (messages \ {m}) \cup {req}
    BY <1>1, <1>3 DEF Goes
  <2>2. Fits(s, req.op, req.obj)
    BY DEF Fits, WaitsFor, Msg, NetOps
  <2>3. req.op = "TEXTPROC" /\ req.cid = c
    BY DEF Msg
  <2>4. \A x \in TextID : \A k \in CallID \ {c} :
          m_rtt_sess_text_map'[x] = k <=> m_rtt_sess_text_map[x] = k
    BY <1>1, <1>6, <1>7
  <2>5. s._sock = old._sock /\ s._state = "PROCESS" /\ s.process = state /\ s._tid = t
    OBVIOUS
  <2>6. View(req, s) = View(m, m_session_map[c])
    BY DEF View, Past, IsRead, Msg
  <2> HIDE DEF c, s, req
  <2> QED BY <1>2, <1>6, <2>1, <2>2, <2>3, <2>4, <2>5, <2>6 DEF Turns, RttStates, SegStates
<1>9. TypeOK'
  <2>1. /\ m_rtt_sess_text_map' \in [TextID -> CallID \cup {NoCallID}]
        /\ texts' \in [TextID -> {"NONE", "CELLS", "BLANK"}]
        /\ undefined' \in BOOLEAN
    BY <1>1, <1>2 DEF IInv, TypeOK
  <2> HIDE DEF c, s, req
  <2> QED BY <1>2, <1>5, <1>8, <2>1, TypeKept DEF Turns
<1>10. TextsOwned'
  <2>1. \A k \in CallID : m_session_map'[k]._tid = IF k = c THEN t ELSE m_session_map[k]._tid
    BY <1>1, <1>2, <1>3 DEF IInv, TypeOK, Goes
  <2>2. \A x \in TextID : texts'[x] = "NONE" <=> x # t /\ texts[x] = "NONE"
    BY <1>1 DEF IInv, TypeOK
  <2>3. TextsOwned
    BY DEF IInv
  <2>4. ASSUME NEW x \in TextID, NEW k \in CallID
        PROVE  m_rtt_sess_text_map'[x] = k <=> m_session_map'[k]._tid = x
    <3>1. /\ m_rtt_sess_text_map[x] = k <=> m_session_map[k]._tid = x
          /\ m_rtt_sess_text_map[t] = k <=> m_session_map[k]._tid = t
      BY <2>3 DEF TextsOwned
    <3>2. CASE k = c
      <4>1. m_session_map[k]._tid = NoText
        BY <1>4, <3>2
      <4> HIDE DEF c, old
      <4> QED BY <1>6, <1>7, <2>1, <3>1, <3>2, <4>1
    <3>3. CASE k # c
      <4> HIDE DEF c
      <4> QED BY <1>1, <1>6, <1>7, <2>1, <3>1, <3>3
    <3> QED BY <3>2, <3>3
  <2>5. ASSUME NEW x \in TextID
        PROVE  texts'[x] = "NONE" <=> m_rtt_sess_text_map'[x] = NoCallID
    <3> HIDE DEF c
    <3> QED BY <1>2, <1>6, <1>7, <2>2, <2>3 DEF TextsOwned
  <2> QED BY <2>4, <2>5 DEF TextsOwned
<1>11. NeverUndefined'
  BY <1>1 DEF NeverUndefined, IInv
<1> HIDE DEF c, s, req
<1> QED BY <1>2, <1>5, <1>8, <1>9, <1>10, <1>11, Turning

\* The socket is closed, and the session goes.
LEMMA Closed ==
  ASSUME IInv, NEW m \in messages, m.op = "CLOSE", m.res # "REQ", on_close_sock(m, m.cid),
         aborted' \in BOOLEAN, UNCHANGED <<m_connection_map, m_used_id_set, m_in_connection>>
  PROVE  IInv' /\ peer' = peer
<1> DEFINE c == m.cid
<1>1. /\ c = For(m) /\ c \in CallID /\ InMap(c)
      /\ m_session_map[c]._sock = m.obj /\ m_session_map[c]._state = "CLOSING"
      /\ m_session_map[c]._tid = NoText
  BY UnderWay, Resting DEF NetOps
<1>2. /\ m_session_map' = [m_session_map EXCEPT ![c] = NoSession] /\ messages' = messages \ {m}
      /\ UNCHANGED <<m_rtt_sess_text_map, texts, undefined>>
  BY <1>1 DEF on_close_sock, Expected, KeepTexts
<1>3. \A k \in CallID : m_session_map'[k] = IF k = c THEN NoSession ELSE m_session_map[k]
  BY <1>2 DEF IInv, TypeOK
<1>4. \A k \in CallID : InMap(k)' <=> InMap(k) /\ k # c
  BY <1>3 DEF InMap
<1>5. /\ \A x \in messages' : For(x) # c
      /\ \A k \in Sock : m_connection_map[k].cid # c
  BY <1>1, <1>2, UnderWay
<1>6. \A x : For(x)' = For(x)
  BY <1>2 DEF For
<1> HIDE DEF c
<1>7. TypeOK'
  BY <1>2 DEF IInv, TypeOK
<1>8. SessionsFit'
  BY <1>3, <1>4 DEF IInv, SessionsFit
<1>9. Jobs'
  <2>1. \A k \in CallID : InMap(k)' =>
          (\E x \in messages' : For(x) = k) \/ (\E y \in Sock : m_connection_map[y].cid = k)
    BY <1>1, <1>2, <1>4 DEF IInv, Jobs
  <2>2. \A x \in messages' : x.op # "LISTEN" =>
          /\ For(x) \in CallID /\ InMap(For(x)) /\ For(x) # c
          /\ Fits(m_session_map[For(x)], x.op, x.obj)
          /\ x.cid = IF x.op = "TRANS" THEN NoCallID ELSE For(x)
    BY <1>2, <1>5, UnderWay
  <2>3. \A x, y \in messages' : x.op # "LISTEN" /\ For(x) = For(y) => x = y
    BY <1>2 DEF IInv, Jobs
  <2>4. \A k \in Sock : m_connection_map[k] \in Pending =>
          /\ InMap(m_connection_map[k].cid) /\ m_connection_map[k].cid \in CallID
          /\ m_connection_map[k].cid # c
          /\ Fits(m_session_map[m_connection_map[k].cid], m_connection_map[k].op, k)
          /\ \A x \in messages' : For(x) # m_connection_map[k].cid
    BY <1>2, <1>5 DEF IInv, Jobs, InMap
  <2> QED BY <1>3, <1>4, <1>6, <2>1, <2>2, <2>3, <2>4 DEF Jobs
<1>10. \A k \in CallID : Holds(k)' <=> Holds(k)
  <2>1. ~Holds(c)
    BY DEF Holds, c
  <2>2. \A k \in CallID \ {c} : Holds(k)' <=> Holds(k)
    BY <1>2, <1>4 DEF Holds, c
  <2> QED BY <1>4, <2>1, <2>2 DEF Holds
<1>11. Sockets'
  <2>1. \A k \in CallID : Holds(k) => m_session_map'[k] = m_session_map[k]
    BY <1>3, <1>4, <1>10 DEF Holds
  <2>2. \A k : IsOpen(k)' <=> IsOpen(k)
    BY DEF IsOpen
  <2>3. \A x \in messages : x.op = "LISTEN" <=> x \in messages' /\ x.op = "LISTEN"
    BY <1>2
  <2>4. Sockets
    BY DEF IInv
  <2>5. messages' \subseteq messages
    BY <1>2
  <2> QED BY <1>10, <2>1, <2>2, <2>3, <2>4, <2>5 DEF Sockets
<1>12. TextsOwned'
  <2>1. \A k \in CallID : m_session_map'[k]._tid = m_session_map[k]._tid
    BY <1>1, <1>3 DEF NoSession
  <2> QED BY <1>2, <2>1 DEF IInv, TextsOwned
<1>13. NeverUndefined'
  BY <1>2 DEF IInv, NeverUndefined
<1>14. peer' = peer
  <2> SUFFICES ASSUME NEW k \in Sock
               PROVE  peer'[k] = peer[k]
    BY PeerSame
  <2>1. IsOpen(k)' <=> IsOpen(k)
    BY DEF IsOpen
  <2>2. ~Past(m) /\ ~IsRead(m)
    BY DEF Past, IsRead
  <2>3. \A x : x.obj = k /\ (Past(x) \/ IsRead(x)) => (x \in messages' <=> x \in messages)
    BY <1>2, <2>2
  <2>4. \A d \in CallID :
          (m_session_map'[d]._sock = k /\ m_session_map'[d]._state \in {"PROCESS", "SENDING"})
            <=> (m_session_map[d]._sock = k /\ m_session_map[d]._state \in {"PROCESS", "SENDING"})
    BY <1>1, <1>3 DEF NoSession
  <2> QED BY <2>1, <2>3, <2>4, PeerKept
<1> QED BY <1>7, <1>8, <1>9, <1>11, <1>12, <1>13, <1>14 DEF IInv

\* The packet that was read: what it asks for begins, or is answered at once.
LEMMA Received ==
  ASSUME IInv, NEW m \in messages, m.op = "RECV", m.res # "REQ", on_recv_packet(m, m.cid), aborted' \in BOOLEAN,
         UNCHANGED <<m_connection_map, m_used_id_set, m_in_connection>>
  PROVE  IInv' /\ peer' = peer
<1> DEFINE c == For(m)
           old == m_session_map[c]
<1>1. /\ m.cid = c /\ c \in CallID /\ old \in Session
      /\ old._sock = m.obj /\ old._state = "RECVING" /\ old.process = "NULL" /\ old._tid = NoText
  BY UnderWay, Resting DEF NetOps
<1>2. \/ m.res = "ERROR" /\ Shutdown(m, c)
      \/ m.res = "SUCCESS" /\ start_process(m, c)
  <2>1. m.res \in {"SUCCESS", "ERROR"}
    BY UnderWay DEF Message, NetOps
  <2> QED BY <1>1, <2>1 DEF on_recv_packet, Expected
<1>3. CASE m.res = "ERROR" /\ Shutdown(m, c)
  BY <1>3, Closing DEF Past
<1>7. m.res = "SUCCESS" => View(m, old) = "ASKED"
  BY DEF View, Past, IsRead
<1>4. CASE m.res = "SUCCESS" /\ AnswerAtOnce(m, c)
  <2>1. texts' = [t \in TextID |-> IF t = m_session_map[c]._tid THEN "NONE" ELSE texts[t]]
    BY <1>1, <1>4, UsrAssumption DEF AnswerAtOnce, KeepTexts, IInv, TypeOK, UsrAssumption
  <2>2. undefined' = FALSE /\ end_process(m, c)
    BY <1>4 DEF AnswerAtOnce, KeepTexts, IInv, TypeOK, NeverUndefined
  <2> QED BY <1>4, <1>7, <2>1, <2>2, Ending
<1>5. CASE m.res = "SUCCESS" /\ BeginAsk(m, c)
  <2> DEFINE s == [_state |-> "PROCESS", _sock |-> old._sock, process |-> "ASK", _tid |-> old._tid]
             req == Msg("ASK", c, NoCallID, "REQ")
  <2>1. [old EXCEPT !._state = "PROCESS", !.process = "ASK"] = s
    <3>1. \A st, q : [old EXCEPT !._state = st, !.process = q]
                       = [_state |-> st, _sock |-> old._sock, process |-> q, _tid |-> old._tid]
      <4> HIDE DEF old
      <4> QED BY <1>1, SessionFields
    <3> QED BY <3>1, Zenon
  <2>2. s \in Session /\ req \in Message
    BY <1>1 DEF Session, Message, Msg
  <2>3. Goes(m, c, s, req) /\ UNCHANGED m_rtt_sess_text_map /\ KeepTexts
    BY <1>5, <2>1 DEF BeginAsk
  <2>4. Fits(s, req.op, req.obj)
    BY <1>1 DEF Fits, WaitsFor, Msg, NetOps
  <2>5. req.op = "ASK" /\ req.cid = c
    BY DEF Msg
  <2>6. s._sock = old._sock /\ s._tid = NoText /\ old._tid = NoText /\ s._state = "PROCESS" /\ s.process = "ASK"
    BY <1>1
  <2> HIDE DEF s, req
  <2> QED BY <1>5, <1>7, <2>2, <2>3, <2>4, <2>5, <2>6, Asking DEF RttStates, SegStates
<1>6. CASE m.res = "SUCCESS" /\ (BeginRtt(m, c, "REMOTE_PROC") \/ BeginRtt(m, c, "SEG_REMOTE_PROC"))
  BY <1>6, Starting
<1> QED BY <1>2, <1>3, <1>4, <1>5, <1>6 DEF start_process

\* What an engine works for is asked and not answered.
LEMMA Asked ==
  ASSUME NEW m, NEW s, m.op \notin NetOps, s._state = "PROCESS"
  PROVE  View(m, s) = "ASKED"
  BY DEF View, Past, NetOps

\* A text goes to the next engine.
LEMMA Forwarding ==
  ASSUME IInv, NEW m \in messages, m.op \in {"TEXTPROC", "PREPROC", "TRANS"},
         NEW state \in RttStates \cup SegStates, NEW op,
         <<state, op>> \in {<<"PREPROC", "PREPROC">>, <<"SEG_PREPROC", "PREPROC">>,
                            <<"TRANS", "TRANS">>, <<"POSTPROC", "POSTPROC">>},
         Forward(m, For(m), state, Msg(op, IF op = "TRANS" THEN NoCallID ELSE For(m), m.obj, "REQ")),
         aborted' \in BOOLEAN, UNCHANGED <<m_connection_map, m_used_id_set, m_in_connection>>
  PROVE  IInv' /\ peer' = peer
<1> DEFINE c == For(m)
           old == m_session_map[c]
           s == [_state |-> old._state, _sock |-> old._sock, process |-> state, _tid |-> old._tid]
           req == Msg(op, IF op = "TRANS" THEN NoCallID ELSE c, m.obj, "REQ")
<1>1. /\ c \in CallID /\ old \in Session /\ old._state = "PROCESS" /\ old._tid = m.obj /\ m.obj \in TextID
      /\ m.obj # NoText
  BY UnderWay, HasText, UsrAssumption DEF UsrAssumption
<1>2. [old EXCEPT !.process = state] = s
  <2>1. \A q : [old EXCEPT !.process = q]
                 = [_state |-> old._state, _sock |-> old._sock, process |-> q, _tid |-> old._tid]
    <3> HIDE DEF old
    <3> QED BY <1>1, SessionFields
  <2> QED BY <2>1, Zenon
<1>3. s \in Session /\ req \in Message
  BY <1>1 DEF Session, Message, Msg
<1>4. Goes(m, c, s, req) /\ UNCHANGED m_rtt_sess_text_map /\ KeepTexts
  BY <1>2 DEF Forward
<1>5. Fits(s, req.op, req.obj)
  BY <1>1 DEF Fits, WaitsFor, Msg, NetOps
<1>6. /\ req.op = op /\ req.cid = IF op = "TRANS" THEN NoCallID ELSE c
      /\ op \in {"PREPROC", "TRANS", "POSTPROC"}
  BY DEF Msg
<1>7. s._sock = old._sock /\ s._tid = old._tid /\ s._state = "PROCESS" /\ s.process = state /\ s._tid # NoText
  BY <1>1
<1>8. state # "NULL"
  BY DEF RttStates, SegStates
<1>9. View(m, old) = "ASKED"
  BY <1>1, Asked DEF NetOps
<1> HIDE DEF s, req
<1> QED BY <1>3, <1>4, <1>5, <1>6, <1>7, <1>8, <1>9, Asking

\* A text is over: deleted or left, and its session answered.
LEMMA TextEnds ==
  ASSUME IInv, NEW m \in messages, m.op \in {"TEXTPROC", "PREPROC", "TRANS", "POSTPROC"},
         Delete(m.obj) \/ Leak(m.obj), end_process(m, For(m)),
         aborted' \in BOOLEAN, UNCHANGED <<m_connection_map, m_used_id_set, m_in_connection>>
  PROVE  IInv' /\ peer' = peer
<1>1. m_session_map[For(m)]._tid = m.obj /\ m.obj \in TextID /\ texts[m.obj] # "NONE"
  BY HasText
<1>2. texts' = [t \in TextID |-> IF t = m_session_map[For(m)]._tid THEN "NONE" ELSE texts[t]]
  BY <1>1 DEF Delete, Leak, IInv, TypeOK
<1>3. undefined' = FALSE
  BY <1>1 DEF Delete, Leak, IInv, TypeOK, NeverUndefined
<1>4. View(m, m_session_map[For(m)]) = "ASKED"
  BY HasText, Asked DEF NetOps
<1> QED BY <1>2, <1>3, <1>4, Ending

\* on_proc_event: the answer of an engine is taken by the process that waits for it.
LEMMA ProcEvent ==
  ASSUME IInv, NEW m \in messages, m.op \notin {"LISTEN", "RECV", "SEND", "CLOSE"},
         on_proc_event(m, For(m)), aborted' \in BOOLEAN,
         UNCHANGED <<m_connection_map, m_used_id_set, m_in_connection>>
  PROVE  IInv' /\ peer' = peer
<1> DEFINE p == m_session_map[For(m)].process
<1>1. m.op \in {"ASK", "TEXTPROC", "PREPROC", "TRANS", "POSTPROC"}
  <2>1. m \in Message
    BY UnderWay
  <2> QED BY <2>1 DEF Message, NetOps
<1>2. CASE m.op = "ASK"
  <2>1. /\ m_session_map[For(m)] \in Session /\ WaitsFor(m_session_map[For(m)]) = "ASK"
        /\ m_session_map[For(m)]._state = "PROCESS" <=> p # "NULL"
        /\ m_session_map[For(m)]._tid # NoText <=> p \in RttStates \cup SegStates
    BY <1>2, UnderWay DEF Fits, IInv, SessionsFit
  <2>2. p = "ASK" /\ m_session_map[For(m)]._tid = NoText
    <3> DEFINE s == m_session_map[For(m)]
    <3> HIDE DEF s
    <3>1. /\ s \in Session /\ WaitsFor(s) = "ASK"
          /\ s._state = "PROCESS" <=> s.process # "NULL"
          /\ s._tid # NoText <=> s.process \in RttStates \cup SegStates
      BY <2>1 DEF s
    <3>2. s._state \in {"RECVING", "PROCESS", "SENDING", "CLOSING"} /\ s.process \in {"NULL", "ASK"} \cup RttStates \cup SegStates
      BY <3>1 DEF Session
    <3>3. s.process = "ASK" /\ s._tid = NoText
      BY <3>1, <3>2 DEF WaitsFor, RttStates, SegStates
    <3> QED BY <3>3 DEF s
  <2>3. end_process(m, For(m)) /\ KeepTexts
    BY <1>2, <2>2 DEF on_proc_event, Work
  <2>4. texts' = [t \in TextID |-> IF t = m_session_map[For(m)]._tid THEN "NONE" ELSE texts[t]]
    BY <2>2, <2>3, UsrAssumption DEF KeepTexts, IInv, TypeOK, UsrAssumption
  <2>5. undefined' = FALSE
    BY <2>3 DEF KeepTexts, IInv, TypeOK, NeverUndefined
  <2>6. View(m, m_session_map[For(m)]) = "ASKED"
    BY <1>2, <2>1, <2>2, Asked DEF NetOps
  <2> QED BY <1>2, <2>3, <2>4, <2>5, <2>6, Ending
<1>3. CASE m.op = "TEXTPROC"
  <2>1. p \in {"REMOTE_PROC", "SEG_REMOTE_PROC"}
    BY <1>3, HasText
  <2>2. on_txt_proc_end(m, For(m))
    BY <1>3, <2>1 DEF on_proc_event, Work
  <2>3. m.op # "TRANS"
    BY <1>3
  <2>4. CASE Leak(m.obj) /\ end_process(m, For(m))
    BY <1>3, <2>4, TextEnds
  <2>5. CASE Forward(m, For(m), IF p = "REMOTE_PROC" THEN "PREPROC" ELSE "SEG_PREPROC",
                     Msg("PREPROC", For(m), m.obj, "REQ"))
    <3>1. CASE p = "REMOTE_PROC"
      BY <1>3, <2>5, <3>1, Forwarding DEF RttStates, SegStates
    <3>2. CASE p # "REMOTE_PROC"
      BY <1>3, <2>5, <3>2, Forwarding DEF RttStates, SegStates
    <3> QED BY <3>1, <3>2
  <2> QED BY <2>2, <2>4, <2>5 DEF on_txt_proc_end
<1>4. CASE m.op = "PREPROC"
  <2>1. p \in {"PREPROC", "SEG_PREPROC"}
    BY <1>4, HasText
  <2>2. on_preprocess_end(m, For(m))
    BY <1>4, <2>1 DEF on_proc_event, Work
  <2>3. CASE Delete(m.obj) /\ end_process(m, For(m))
    BY <1>4, <2>3, TextEnds
  <2>4. CASE Forward(m, For(m), "TRANS", Msg("TRANS", NoCallID, m.obj, "REQ"))
    BY <1>4, <2>4, Forwarding DEF RttStates, SegStates
  <2> QED BY <2>2, <2>3, <2>4 DEF on_preprocess_end
<1>5. CASE m.op = "TRANS"
  <2>1. p = "TRANS"
    BY <1>5, HasText
  <2>2. on_trans_end(m, For(m))
    BY <1>5, <2>1 DEF on_proc_event, Work
  <2>3. CASE Leak(m.obj) /\ end_process(m, For(m))
    BY <1>5, <2>3, TextEnds
  <2>4. CASE Forward(m, For(m), "POSTPROC", Msg("POSTPROC", For(m), m.obj, "REQ"))
    BY <1>5, <2>4, Forwarding DEF RttStates, SegStates
  <2> QED BY <2>2, <2>3, <2>4 DEF on_trans_end
<1>6. CASE m.op = "POSTPROC"
  <2>1. p = "POSTPROC"
    BY <1>6, HasText
  <2>2. Delete(m.obj) /\ end_process(m, For(m))
    BY <1>6, <2>1 DEF on_proc_event, Work, on_postprocess_end
  <2> QED BY <1>6, <2>2, TextEnds
<1> QED BY <1>1, <1>2, <1>3, <1>4, <1>5, <1>6

\* on_event: every handler of the session manager.
LEMMA Events ==
  ASSUME IInv, NEW m \in messages, on_event(m)
  PROVE  IInv' /\ peer' = peer
<1>1. /\ aborted' \in BOOLEAN /\ m.res # "REQ"
      /\ UNCHANGED <<m_connection_map, m_used_id_set, m_in_connection>>
  BY DEF on_event
<1>2. /\ m.op = "LISTEN" => m.cid = NoCallID
      /\ m.op # "LISTEN" => InMap(For(m)) /\ m.cid = IF m.op = "TRANS" THEN NoCallID ELSE For(m)
  <2>1. m \in Message
    BY DEF IInv, TypeOK
  <2> QED BY <2>1, UnderWay DEF Message, NetOps
<1>3. InMap(m.cid) => m.op # "LISTEN" /\ m.op # "TRANS" /\ m.cid = For(m)
  BY <1>2, NetAssumption DEF InMap, NetAssumption
<1>4. CASE on_listen_newsock(m)
  BY <1>1, <1>4, NewSession
<1>5. CASE m.op # "LISTEN" /\ ~InMap(m.cid) /\ on_no_session_event(m)
  <2>1. m.op = "TRANS" /\ on_proc_event(m, For(m))
    BY <1>2, <1>5 DEF on_no_session_event
  <2> QED BY <1>1, <2>1, ProcEvent
<1>6. CASE InMap(m.cid) /\ m.op = "RECV" /\ on_recv_packet(m, m.cid)
  BY <1>1, <1>6, Received
<1>7. CASE InMap(m.cid) /\ m.op = "SEND" /\ on_send_packet(m, m.cid)
  <2>1. Shutdown(m, For(m))
    BY <1>3, <1>7, Resting DEF on_send_packet, Expected, NetOps
  <2>2. Past(m)
    <3>1. m.res \in {"SUCCESS", "ERROR"}
      BY <1>1, <1>3, <1>7, UnderWay DEF Message, NetOps
    <3> QED BY <1>7, <3>1 DEF Past
  <2> QED BY <1>1, <1>7, <2>1, <2>2, Closing
<1>8. CASE InMap(m.cid) /\ m.op = "CLOSE" /\ on_close_sock(m, m.cid)
  BY <1>1, <1>8, Closed
<1>9. CASE InMap(m.cid) /\ m.op \notin NetOps /\ on_proc_event(m, m.cid)
  BY <1>1, <1>3, <1>9, ProcEvent DEF NetOps
<1> QED BY <1>4, <1>5, <1>6, <1>7, <1>8, <1>9 DEF on_event

-----------------------------------------------------------------------------
(* The engines and the network. *)

\* An engine takes its request and answers.
LEMMA Engines ==
  ASSUME IInv, NEW m \in messages, Engine(m)
  PROVE  IInv' /\ peer' = peer
<1>1. /\ m.op \in {"ASK", "TEXTPROC", "PREPROC", "TRANS", "POSTPROC"} /\ m.res = "REQ"
      /\ Answer(m, {"SUCCESS", "ERROR"})
  BY DEF Engine, on_submit_process, on_pre_process, finish_translation, on_post_process, on_ask, Answer
<1>2. PICK res \in {"SUCCESS", "ERROR"} : messages' = (messages \ {m}) \cup {Msg(m.op, m.cid, m.obj, res)}
  BY <1>1 DEF Answer, Answered
<1> DEFINE c == For(m)
           s == m_session_map[c]
           req == Msg(m.op, m.cid, m.obj, res)
<1>3. /\ m \in Message /\ c \in CallID /\ InMap(c) /\ s \in Session /\ Fits(s, m.op, m.obj)
      /\ m.cid = IF m.op = "TRANS" THEN NoCallID ELSE c
      /\ s._state = "PROCESS" <=> s.process # "NULL"
      /\ s._tid # NoText <=> s.process \in RttStates \cup SegStates
  BY <1>1, UnderWay DEF IInv, SessionsFit
<1>4. req \in Message
  BY <1>1, <1>3 DEF Message, Msg, NetOps
<1>5. UNCHANGED <<m_connection_map, m_used_id_set, m_in_connection, m_session_map,
                  m_rtt_sess_text_map, texts, aborted>>
  BY <1>1 DEF Answer
<1>6. Turns(m, c, s, req)
  <2>1. m_session_map' = [m_session_map EXCEPT ![c] = s]
    BY <1>3, <1>5 DEF IInv, TypeOK
  <2>2. req.op = m.op /\ req.obj = m.obj /\ req.cid = m.cid
    BY DEF Msg
  <2>3. m.op = "TRANS" => m_rtt_sess_text_map'[m.obj] = c
    BY <1>5, HasText
  <2>4. For(m) = c
    OBVIOUS
  <2>6. View(req, s) = View(m, m_session_map[c])
    <3>1. s._state = "PROCESS"
      <4>1. s._state \in {"RECVING", "PROCESS", "SENDING", "CLOSING"} /\ m.op = WaitsFor(s)
        BY <1>3 DEF Session, Fits
      <4> HIDE DEF s
      <4> QED BY <1>1, <1>3, <4>1 DEF WaitsFor
    <3>2. req.op \notin NetOps /\ m.op \notin NetOps
      BY <1>1, <2>2 DEF NetOps
    <3> HIDE DEF req
    <3> QED BY <3>1, <3>2, Asked
  <2> HIDE DEF c, s, req
  <2>5. s._sock = m_session_map[c]._sock
    BY DEF s
  <2> QED BY <1>1, <1>2, <1>3, <1>5, <2>1, <2>2, <2>3, <2>4, <2>5, <2>6 DEF Turns, req
<1>7. undefined' = FALSE
  <2>1. m.op = "ASK" => m.obj \notin TextID
    BY <1>3, UsrAssumption DEF Message, NetOps, UsrAssumption
  <2>2. m.op # "ASK" => texts[m.obj] # "NONE"
    BY <1>1, HasText
  <2> QED BY <1>1, <2>1, <2>2 DEF Answer, IInv, NeverUndefined, TypeOK
<1>8. aborted' \in BOOLEAN
  BY <1>5 DEF IInv, TypeOK
<1>9. s._tid = m_session_map[c]._tid
  OBVIOUS
<1> HIDE DEF c, s, req
<1> QED BY <1>3, <1>4, <1>5, <1>6, <1>7, <1>8, <1>9, SameText

\* start_accept: the connection that waits next has an id nobody uses.
LEMMA Accepting ==
  ASSUME IInv, start_accept
  PROVE  /\ m_in_connection \in Sock /\ ~IsOpen(m_in_connection)
         /\ m_in_connection' \in Sock /\ m_used_id_set' = m_used_id_set \cup {m_in_connection'}
         /\ ~IsOpen(m_in_connection') /\ m_in_connection' \notin m_used_id_set
BY DEF IInv, TypeOK, Sockets, start_accept

\* handle_accept: a socket opens.
LEMMA Accepts ==
  ASSUME IInv, Accepted(m_in_connection), start_accept, UNCHANGED usrvars
  PROVE  IInv'
<1> DEFINE k == m_in_connection
           new == Msg("LISTEN", NoCallID, k, "SUCCESS")
<1>1. /\ ~IsOpen(k) /\ k \in Sock
      /\ m_connection_map' = [m_connection_map EXCEPT ![k] = Quiet]
      /\ messages' = messages \cup {new}
      /\ \E id \in Sock \ m_used_id_set : m_in_connection' = id /\ m_used_id_set' = m_used_id_set \cup {id}
  BY Accepting DEF Accepted, start_accept, IInv, TypeOK
<1>2. UNCHANGED <<m_session_map, m_rtt_sess_text_map, texts, undefined, aborted>>
  BY DEF usrvars
<1>3. new \in Message /\ new.op = "LISTEN" /\ new.obj = k
  BY <1>1 DEF Message, Msg
<1>4. TypeOK'
  BY <1>1, <1>2, <1>3 DEF IInv, TypeOK
<1>5. \A x : (For(x)' = For(x)) /\ (InMap(x)' <=> InMap(x))
  BY <1>2 DEF For, InMap
<1>6. For(new) = NoCallID /\ NoCallID \notin CallID
  BY NetAssumption DEF For, Msg, NetAssumption
<1> HIDE DEF new
<1>7. SessionsFit'
  BY <1>2, <1>5 DEF IInv, SessionsFit
<1>8. \A n \in Sock : m_connection_map'[n] = IF n = k THEN Quiet ELSE m_connection_map[n]
  BY <1>1 DEF IInv, TypeOK
<1>9. Jobs'
  <2>1. Quiet \notin Pending /\ Quiet.cid = NoCallID /\ m_connection_map[k].cid = NoCallID
    BY <1>1, NetAssumption DEF Quiet, Pending, IsOpen, NoConnection
  <2>2. \A c \in CallID : InMap(c) =>
          (\E x \in messages' : For(x) = c) \/ (\E n \in Sock : m_connection_map'[n].cid = c)
    BY <1>1, <1>6, <1>8, <2>1 DEF IInv, Jobs
  <2>3. \A x \in messages' : x.op # "LISTEN" =>
          /\ InMap(For(x)) /\ Fits(m_session_map[For(x)], x.op, x.obj)
          /\ x.cid = IF x.op = "TRANS" THEN NoCallID ELSE For(x)
    BY <1>1, <1>3 DEF IInv, Jobs
  <2>4. \A x, y \in messages' : x.op # "LISTEN" /\ For(x) = For(y) => x = y
    <3>1. \A x \in messages : x.op # "LISTEN" => For(x) \in CallID
      BY UnderWay
    <3> QED BY <1>1, <1>3, <1>6, <3>1 DEF IInv, Jobs
  <2>5. \A n \in Sock : m_connection_map'[n] \in Pending =>
          /\ m_connection_map[n] \in Pending /\ m_connection_map'[n] = m_connection_map[n]
          /\ \A x \in messages' : For(x) # m_connection_map[n].cid
    BY <1>1, <1>6, <1>8, <2>1 DEF IInv, Jobs, Pending
  <2> QED BY <1>2, <1>5, <2>2, <2>3, <2>4, <2>5 DEF IInv, Jobs
<1>10. Sockets'
  <2>1. \A c \in CallID : Holds(c)' <=> Holds(c)
    BY <1>1, <1>3, <1>5 DEF Holds
  <2>2. \A n \in Sock : IsOpen(n)' <=> IsOpen(n) \/ n = k
    BY <1>8 DEF IsOpen, Quiet, NoConnection
  <2>3. Sockets /\ \A c \in CallID : Holds(c) => IsOpen(m_session_map[c]._sock)
    BY DEF IInv, Sockets
  <2>4. \A c \in CallID : Holds(c) => m_session_map[c]._sock \in Sock
    BY DEF Holds, InMap, IInv, TypeOK, Session
  <2>5. \A c \in CallID : Holds(c)' => IsOpen(m_session_map[c]._sock)'
    <3> SUFFICES ASSUME NEW c \in CallID, Holds(c)
                 PROVE  m_connection_map'[m_session_map[c]._sock] # NoConnection
      BY <1>2, <2>1 DEF IsOpen
    <3> QED BY <1>1, <1>8, <2>3, <2>4 DEF IsOpen, Quiet, NoConnection
  <2>6. \A c, d \in CallID :
          Holds(c)' /\ Holds(d)' /\ m_session_map'[c]._sock = m_session_map'[d]._sock => c = d
    BY <1>2, <2>1, <2>3 DEF Sockets
  <2>7. \A x \in messages' : x.op = "LISTEN" =>
          /\ m_connection_map'[x.obj] # NoConnection
          /\ \A c \in CallID : Holds(c)' => m_session_map'[c]._sock # x.obj
    <3> SUFFICES ASSUME NEW x \in messages', x.op = "LISTEN"
                 PROVE  /\ m_connection_map'[x.obj] # NoConnection
                        /\ \A c \in CallID : Holds(c)' => m_session_map'[c]._sock # x.obj
      OBVIOUS
    <3>1. CASE x = new
      BY <1>1, <1>2, <1>3, <1>8, <2>1, <2>3, <3>1 DEF Quiet, NoConnection
    <3>2. CASE x \in messages
      <4>1. x.obj \in Sock /\ IsOpen(x.obj) /\ \A c \in CallID : Holds(c) => m_session_map[c]._sock # x.obj
        BY <3>2, NewSock
      <4> QED BY <1>1, <1>2, <1>8, <2>1, <4>1 DEF IsOpen
    <3> QED BY <1>1, <3>1, <3>2
  <2>8. \A n \in Sock : IsOpen(n)' =>
          \/ \E c \in CallID : Holds(c)' /\ m_session_map'[c]._sock = n
          \/ \E x \in messages' : x.op = "LISTEN" /\ x.obj = n
    BY <1>1, <1>2, <1>3, <2>1, <2>2, <2>3 DEF Sockets
  <2>9. {n \in Sock : IsOpen(n)} \cup {k, ListenSock} \subseteq m_used_id_set /\ k # ListenSock
        /\ ~IsOpen(ListenSock)
    BY <2>3 DEF Sockets
  <2>10. PICK id \in Sock \ m_used_id_set : m_in_connection' = id /\ m_used_id_set' = m_used_id_set \cup {id}
    BY <1>1
  <2>11. ~IsOpen(m_in_connection)' /\ ~IsOpen(ListenSock)' /\ m_in_connection' # ListenSock
    BY <1>8, <2>9, <2>10, NetAssumption DEF IsOpen, NetAssumption
  <2>12. {n \in Sock : IsOpen(n)'} \cup {m_in_connection', ListenSock} \subseteq m_used_id_set'
    BY <1>1, <2>2, <2>9, <2>10
  <2> QED BY <1>2, <2>5, <2>6, <2>7, <2>8, <2>11, <2>12 DEF Sockets, IsOpen
<1>11. TextsOwned' /\ NeverUndefined'
  BY <1>2 DEF IInv, TextsOwned, NeverUndefined
<1> QED BY <1>4, <1>7, <1>9, <1>10, <1>11 DEF IInv

\* handle_accept: nobody came, and another id is in use.
LEMMA AcceptFails ==
  ASSUME IInv, UNCHANGED <<m_connection_map, messages>>, start_accept, UNCHANGED usrvars
  PROVE  IInv'
<1>1. UNCHANGED <<m_connection_map, messages, m_session_map, m_rtt_sess_text_map, texts,
                  undefined, aborted>>
  BY DEF usrvars
<1>2. TypeOK'
  BY <1>1, Accepting DEF IInv, TypeOK
<1>3. SessionsFit' /\ Jobs' /\ TextsOwned' /\ NeverUndefined'
  BY <1>1 DEF IInv, SessionsFit, Jobs, TextsOwned, NeverUndefined, InMap, For
<1>4. Sockets'
  <2>1. \A c \in CallID : Holds(c)' <=> Holds(c)
    BY <1>1 DEF Holds, InMap
  <2>2. \A n : IsOpen(n)' <=> IsOpen(n)
    BY <1>1 DEF IsOpen
  <2>3. ~IsOpen(m_in_connection)' /\ ~IsOpen(ListenSock)' /\ m_in_connection' # ListenSock
    BY <1>1, Accepting DEF IInv, Sockets, IsOpen
  <2>4. {n \in Sock : IsOpen(n)'} \cup {m_in_connection', ListenSock} \subseteq m_used_id_set'
    BY <2>2, Accepting DEF IInv, Sockets
  <2> QED BY <1>1, <2>1, <2>2, <2>3, <2>4 DEF IInv, Sockets, IsOpen
<1> QED BY <1>2, <1>3, <1>4 DEF IInv

\* A session that asks the network for something has its socket open, and nothing is under
\* way on it.
LEMMA Asks ==
  ASSUME IInv, NEW m \in messages, m.op \in NetOps, m.res = "REQ"
  PROVE  /\ m.obj \in Sock /\ m_connection_map[m.obj] = Quiet /\ Holds(For(m))
<1> DEFINE c == For(m)
<1>1. /\ m \in Message /\ m.cid = c /\ c \in CallID /\ InMap(c) /\ m_session_map[c]._sock = m.obj
      /\ \A k \in messages : For(k) = c => k = m
  BY UnderWay, Resting DEF NetOps
<1>2. Holds(c)
  <2>1. \A x \in messages : x.op = "CLOSE" => x.cid = For(x)
    BY DEF For
  <2> QED BY <1>1, <2>1 DEF Holds
<1>3. m.obj \in Sock
  BY <1>1 DEF Message, NetOps
<1>4. IsOpen(m.obj)
  BY <1>1, <1>2 DEF IInv, Sockets
<1>5. m_connection_map[m.obj] \notin Pending
  <2> SUFFICES ASSUME m_connection_map[m.obj] \in Pending
               PROVE  FALSE
    OBVIOUS
  <2> DEFINE d == m_connection_map[m.obj].cid
  <2>1. m_connection_map[m.obj].op \in {"RECV", "SEND"}
    BY DEF Pending
  <2>2. d \in CallID /\ Holds(d) /\ m_session_map[d]._sock = m.obj /\ \A k \in messages : For(k) # d
    BY <1>3, <2>1, OnConnection
  <2>3. d = c
    BY <1>1, <1>2, <2>2 DEF IInv, Sockets
  <2> QED BY <2>2, <2>3
<1> QED BY <1>2, <1>3, <1>4, <1>5 DEF IsOpen, IInv, TypeOK

\* A receive or a send begins on its connection.
LEMMA Begun ==
  ASSUME IInv, NEW m \in messages, req_recv(m) \/ req_send(m), UNCHANGED usrvars
  PROVE  IInv'
<1> DEFINE c == For(m)
           k == m.obj
<1>1. /\ m.op \in {"RECV", "SEND"} /\ m.res = "REQ" /\ m \in Message
      /\ c \in CallID /\ m.cid = c /\ InMap(c) /\ Fits(m_session_map[c], m.op, k)
      /\ \A x \in messages : For(x) = c => x = m
  BY UnderWay, Resting DEF req_recv, req_send, NetOps
<1>2. k \in Sock /\ m_connection_map[k] = Quiet
  BY <1>1, Asks DEF NetOps
<1>3. /\ m_connection_map' = [m_connection_map EXCEPT ![k] = [op |-> m.op, cid |-> c]]
      /\ messages' = messages \ {m}
      /\ UNCHANGED <<m_used_id_set, m_in_connection>>
  BY <1>1, <1>2 DEF req_recv, req_send, Begins, IsOpen, Quiet, NoConnection
<1>4. UNCHANGED <<m_session_map, m_rtt_sess_text_map, texts, undefined, aborted>>
  BY DEF usrvars
<1>5. \A x : (For(x)' = For(x)) /\ (InMap(x)' <=> InMap(x))
  BY <1>4 DEF For, InMap
<1> DEFINE op == [op |-> m.op, cid |-> c]
<1>6. op \in Pending
  BY <1>1 DEF Pending
<1>7. \A n \in Sock : m_connection_map'[n] = IF n = k THEN op ELSE m_connection_map[n]
  BY <1>3 DEF IInv, TypeOK
<1>8. op.cid = c /\ op.op = m.op
  OBVIOUS
<1>9. TypeOK'
  BY <1>3, <1>4, <1>6 DEF IInv, TypeOK
<1> HIDE DEF c, k, op
<1>10. SessionsFit'
  BY <1>4, <1>5 DEF IInv, SessionsFit
<1>11. Jobs'
  <2>1. Quiet.cid = NoCallID /\ NoCallID \notin CallID
    BY NetAssumption DEF Quiet, NetAssumption
  <2>2. \A d \in CallID : InMap(d) =>
          (\E x \in messages' : For(x) = d) \/ (\E n \in Sock : m_connection_map'[n].cid = d)
    <3> SUFFICES ASSUME NEW d \in CallID, InMap(d)
                 PROVE  (\E x \in messages' : For(x) = d) \/ (\E n \in Sock : m_connection_map'[n].cid = d)
      OBVIOUS
    <3>1. CASE d = c
      BY <1>2, <1>7, <1>8, <3>1
    <3>2. CASE d # c
      <4>1. (\E x \in messages : For(x) = d) \/ (\E n \in Sock : m_connection_map[n].cid = d)
        BY DEF IInv, Jobs
      <4>2. \A n \in Sock : m_connection_map[n].cid = d => n # k
        BY <1>2, <2>1
      <4>3. For(m) # d
        BY <3>2 DEF c
      <4> QED BY <1>3, <1>7, <4>1, <4>2, <4>3
    <3> QED BY <3>1, <3>2
  <2>3. \A x \in messages' : x.op # "LISTEN" =>
          /\ InMap(For(x)) /\ Fits(m_session_map[For(x)], x.op, x.obj)
          /\ x.cid = IF x.op = "TRANS" THEN NoCallID ELSE For(x)
    BY <1>3 DEF IInv, Jobs
  <2>4. \A x, y \in messages' : x.op # "LISTEN" /\ For(x) = For(y) => x = y
    BY <1>3 DEF IInv, Jobs
  <2>5. \A n \in Sock : m_connection_map'[n] \in Pending =>
          /\ InMap(m_connection_map'[n].cid)
          /\ Fits(m_session_map[m_connection_map'[n].cid], m_connection_map'[n].op, n)
          /\ \A x \in messages' : For(x) # m_connection_map'[n].cid
    <3> SUFFICES ASSUME NEW n \in Sock, m_connection_map'[n] \in Pending
                 PROVE  /\ InMap(m_connection_map'[n].cid)
                        /\ Fits(m_session_map[m_connection_map'[n].cid], m_connection_map'[n].op, n)
                        /\ \A x \in messages' : For(x) # m_connection_map'[n].cid
      OBVIOUS
    <3>1. CASE n = k
      BY <1>1, <1>3, <1>7, <1>8, <3>1
    <3>2. CASE n # k
      BY <1>3, <1>7, <3>2 DEF IInv, Jobs
    <3> QED BY <3>1, <3>2
  <2>6. \A n : InMap(m_connection_map[n].cid)' <=> InMap(m_connection_map'[n].cid)
    BY <1>4 DEF InMap
  <2> QED BY <1>4, <1>5, <2>2, <2>3, <2>4, <2>5, <2>6 DEF Jobs
<1>12. Sockets'
  <2>1. \A d \in CallID : Holds(d)' <=> Holds(d)
    BY <1>1, <1>3, <1>5 DEF Holds
  <2>2. \A n \in Sock : IsOpen(n)' <=> IsOpen(n)
    BY <1>2, <1>7, <1>6 DEF IsOpen, Quiet, NoConnection, Pending
  <2>3. Sockets
    BY DEF IInv
  <2>4. /\ \A d \in CallID : Holds(d) => m_session_map[d]._sock \in Sock
        /\ \A x \in messages : x.op = "LISTEN" => x.obj \in Sock
        /\ m_in_connection \in Sock
    BY NewSock DEF Holds, InMap, IInv, TypeOK, Session
  <2>5. \A x : x.op = "LISTEN" => (x \in messages' <=> x \in messages)
    BY <1>1, <1>3
  <2>6. IsOpen(ListenSock)' <=> IsOpen(ListenSock)
    BY <2>2, NetAssumption DEF NetAssumption
  <2> QED BY <1>3, <1>4, <2>1, <2>2, <2>3, <2>4, <2>5, <2>6 DEF Sockets
<1>13. TextsOwned' /\ NeverUndefined'
  BY <1>4 DEF IInv, TextsOwned, NeverUndefined
<1> QED BY <1>9, <1>10, <1>11, <1>12, <1>13 DEF IInv

\* A receive or a send is over, and its session is told.
LEMMA Completed ==
  ASSUME IInv, NEW k \in Sock, handle_read(k) \/ handle_write(k), UNCHANGED usrvars
  PROVE  IInv'
<1> DEFINE op == m_connection_map[k].op
           c == m_connection_map[k].cid
<1>1. op \in {"RECV", "SEND"}
  BY DEF handle_read, handle_write, Completes
<1>2. PICK res \in {"SUCCESS", "ERROR"} : messages' = messages \cup {Msg(op, c, k, res)}
  BY DEF handle_read, handle_write, Completes
<1>3. /\ m_connection_map' = [m_connection_map EXCEPT ![k] = Quiet]
      /\ UNCHANGED <<m_used_id_set, m_in_connection>>
  BY DEF handle_read, handle_write, Completes
<1>4. UNCHANGED <<m_session_map, m_rtt_sess_text_map, texts, undefined, aborted>>
  BY DEF usrvars
<1>5. \A x : (For(x)' = For(x)) /\ (InMap(x)' <=> InMap(x))
  BY <1>4 DEF For, InMap
<1>6. /\ c \in CallID /\ InMap(c) /\ Holds(c) /\ Fits(m_session_map[c], op, k)
      /\ \A m \in messages : For(m) # c
  BY <1>1, OnConnection
<1> DEFINE new == Msg(op, c, k, res)
<1>7. /\ new \in Message /\ new.op = op /\ new.cid = c /\ new.obj = k /\ For(new) = c
  BY <1>1, <1>6 DEF Message, Msg, NetOps, For
<1>8. \A n \in Sock : m_connection_map'[n] = IF n = k THEN Quiet ELSE m_connection_map[n]
  BY <1>3 DEF IInv, TypeOK
<1>9. TypeOK'
  BY <1>2, <1>3, <1>4, <1>7 DEF IInv, TypeOK
<1>10. m_connection_map[k] \in Pending /\ Quiet \notin Pending /\ Quiet.cid = NoCallID /\ NoCallID \notin CallID
  BY <1>1, OnConnection, NetAssumption DEF Quiet, Pending, NetAssumption
<1>11. \A n \in Sock : m_connection_map[n] \in Pending /\ m_connection_map[n].cid = c => n = k
  <2> SUFFICES ASSUME NEW n \in Sock, m_connection_map[n] \in Pending, m_connection_map[n].cid = c
               PROVE  n = k
    OBVIOUS
  <2>1. m_connection_map[n].op \in {"RECV", "SEND"}
    BY DEF Pending
  <2> QED BY <1>1, <2>1, OnConnection
<1>12. messages' = messages \cup {new}
  BY <1>2
<1> HIDE DEF op, c, new
<1>13. SessionsFit'
  BY <1>4, <1>5 DEF IInv, SessionsFit
<1>14. Jobs'
  <2>1. \A d \in CallID : InMap(d) =>
          (\E x \in messages' : For(x) = d) \/ (\E n \in Sock : m_connection_map'[n].cid = d)
    <3> SUFFICES ASSUME NEW d \in CallID, InMap(d)
                 PROVE  (\E x \in messages' : For(x) = d) \/ (\E n \in Sock : m_connection_map'[n].cid = d)
      OBVIOUS
    <3>1. CASE d = c
      BY <1>7, <1>12, <3>1
    <3>2. CASE d # c
      <4>1. (\E x \in messages : For(x) = d) \/ (\E n \in Sock : m_connection_map[n].cid = d)
        BY DEF IInv, Jobs
      <4> QED BY <1>8, <1>12, <3>2, <4>1 DEF c
    <3> QED BY <3>1, <3>2
  <2>2. \A x \in messages' : x.op # "LISTEN" =>
          /\ InMap(For(x)) /\ Fits(m_session_map[For(x)], x.op, x.obj)
          /\ x.cid = IF x.op = "TRANS" THEN NoCallID ELSE For(x)
    BY <1>1, <1>6, <1>7, <1>12 DEF IInv, Jobs
  <2>3. \A x, y \in messages' : x.op # "LISTEN" /\ For(x) = For(y) => x = y
    BY <1>6, <1>7, <1>12 DEF IInv, Jobs
  <2>4. \A n \in Sock : m_connection_map'[n] \in Pending =>
          /\ InMap(m_connection_map'[n].cid)
          /\ Fits(m_session_map[m_connection_map'[n].cid], m_connection_map'[n].op, n)
          /\ \A x \in messages' : For(x) # m_connection_map'[n].cid
    BY <1>7, <1>8, <1>10, <1>11, <1>12 DEF IInv, Jobs
  <2>5. \A n : InMap(m_connection_map[n].cid)' <=> InMap(m_connection_map'[n].cid)
    BY <1>4 DEF InMap
  <2> QED BY <1>4, <1>5, <2>1, <2>2, <2>3, <2>4, <2>5 DEF Jobs
<1>15. Sockets'
  <2>1. \A d \in CallID : Holds(d)' <=> Holds(d)
    BY <1>1, <1>5, <1>7, <1>12 DEF Holds
  <2>2. \A n \in Sock : m_connection_map'[n] # NoConnection <=> m_connection_map[n] # NoConnection
    BY <1>8, <1>10 DEF Quiet, NoConnection, Pending
  <2>3. Sockets
    BY DEF IInv
  <2>4. /\ \A d \in CallID : Holds(d) => m_session_map[d]._sock \in Sock
        /\ \A x \in messages : x.op = "LISTEN" => x.obj \in Sock
        /\ m_in_connection \in Sock
    BY NewSock DEF Holds, InMap, IInv, TypeOK, Session
  <2>5. \A x : x.op = "LISTEN" => (x \in messages' <=> x \in messages)
    BY <1>1, <1>7, <1>12
  <2> QED BY <1>3, <1>4, <2>1, <2>2, <2>3, <2>4, <2>5 DEF Sockets, IsOpen
<1>16. TextsOwned' /\ NeverUndefined'
  BY <1>4 DEF IInv, TextsOwned, NeverUndefined
<1> QED BY <1>9, <1>13, <1>14, <1>15, <1>16 DEF IInv

\* req_close: the socket is closed and its id given back.
LEMMA Closes ==
  ASSUME IInv, NEW m \in messages, req_close(m), UNCHANGED usrvars
  PROVE  IInv'
<1> DEFINE c == For(m)
           k == m.obj
           new == Msg("CLOSE", c, k, "SUCCESS")
<1>1. /\ m.op = "CLOSE" /\ m.res = "REQ" /\ m \in Message
      /\ c \in CallID /\ m.cid = c /\ InMap(c) /\ Fits(m_session_map[c], m.op, k)
      /\ m_session_map[c]._sock = k
      /\ \A x \in messages : For(x) = c => x = m
      /\ \A n \in Sock : m_connection_map[n].cid # c
  BY UnderWay, Resting DEF req_close, NetOps
<1>2. k \in Sock /\ m_connection_map[k] = Quiet /\ Holds(c)
  BY <1>1, Asks DEF NetOps
<1>3. Quiet # NoConnection /\ Quiet \notin Pending /\ NoConnection \notin Pending
      /\ Quiet.cid = NoCallID /\ NoConnection.cid = NoCallID /\ NoCallID \notin CallID
  BY NetAssumption DEF Quiet, NoConnection, Pending, NetAssumption
<1>4. /\ m_connection_map' = [m_connection_map EXCEPT ![k] = NoConnection]
      /\ messages' = (messages \ {m}) \cup {new}
      /\ m_used_id_set' = m_used_id_set \ {k}
      /\ UNCHANGED m_in_connection
  BY <1>1, <1>2, <1>3 DEF req_close, IsOpen, Cancelled, Answered
<1>5. UNCHANGED <<m_session_map, m_rtt_sess_text_map, texts, undefined, aborted>>
  BY DEF usrvars
<1>6. \A x : (For(x)' = For(x)) /\ (InMap(x)' <=> InMap(x))
  BY <1>5 DEF For, InMap
<1>7. /\ new \in Message /\ new.op = "CLOSE" /\ new.cid = c /\ new.obj = k /\ For(new) = c
      /\ new.res = "SUCCESS"
  BY <1>1, <1>2 DEF Message, Msg, NetOps, For
<1>8. \A n \in Sock : m_connection_map'[n] = IF n = k THEN NoConnection ELSE m_connection_map[n]
  BY <1>4 DEF IInv, TypeOK
<1>9. TypeOK'
  BY <1>4, <1>5, <1>7 DEF IInv, TypeOK
<1>10. For(m) = c
  OBVIOUS
<1> HIDE DEF c, k, new
<1>11. SessionsFit'
  BY <1>5, <1>6 DEF IInv, SessionsFit
<1>12. Jobs'
  <2>1. \A d \in CallID : InMap(d) =>
          (\E x \in messages' : For(x) = d) \/ (\E n \in Sock : m_connection_map'[n].cid = d)
    <3> SUFFICES ASSUME NEW d \in CallID, InMap(d), d # c
                 PROVE  (\E x \in messages' : For(x) = d) \/ (\E n \in Sock : m_connection_map'[n].cid = d)
      BY <1>4, <1>7
    <3>1. (\E x \in messages : For(x) = d) \/ (\E n \in Sock : m_connection_map[n].cid = d)
      BY DEF IInv, Jobs
    <3> QED BY <1>2, <1>3, <1>4, <1>8, <1>10, <3>1
  <2>2. \A x \in messages' : x.op # "LISTEN" =>
          /\ InMap(For(x)) /\ Fits(m_session_map[For(x)], x.op, x.obj)
          /\ x.cid = IF x.op = "TRANS" THEN NoCallID ELSE For(x)
    BY <1>1, <1>4, <1>7 DEF IInv, Jobs
  <2>3. \A x, y \in messages' : x.op # "LISTEN" /\ For(x) = For(y) => x = y
    BY <1>1, <1>4, <1>7 DEF IInv, Jobs
  <2>4. \A n \in Sock : m_connection_map'[n] \in Pending =>
          /\ InMap(m_connection_map'[n].cid)
          /\ Fits(m_session_map[m_connection_map'[n].cid], m_connection_map'[n].op, n)
          /\ \A x \in messages' : For(x) # m_connection_map'[n].cid
    BY <1>1, <1>3, <1>4, <1>7, <1>8 DEF IInv, Jobs
  <2>5. \A n : InMap(m_connection_map[n].cid)' <=> InMap(m_connection_map'[n].cid)
    BY <1>5 DEF InMap
  <2> QED BY <1>5, <1>6, <2>1, <2>2, <2>3, <2>4, <2>5 DEF Jobs
<1>13. Sockets'
  <2>1. \A d \in CallID : Holds(d)' <=> Holds(d) /\ d # c
    <3>1. \A d \in CallID : d = c => ~Holds(d)'
      BY <1>4, <1>7 DEF Holds
    <3>2. \A d \in CallID \ {c} : Holds(d)' <=> Holds(d)
      BY <1>1, <1>4, <1>6, <1>7 DEF Holds
    <3> QED BY <1>1, <3>1, <3>2
  <2>2. Sockets
    BY DEF IInv
  <2>3. \A d \in CallID : Holds(d) => m_session_map[d]._sock \in Sock
    BY DEF Holds, InMap, IInv, TypeOK, Session
  <2>4. \A d \in CallID : Holds(d) /\ d # c => m_session_map[d]._sock # k
    BY <1>1, <1>2, <2>2 DEF Sockets
  <2>5. \A x \in messages : x.op = "LISTEN" => x.obj \in Sock /\ x.obj # k
    BY <1>1, <1>2, NewSock
  <2>6. m_in_connection # k /\ m_in_connection \in Sock
    BY <1>2, <1>3, <2>2 DEF Sockets, IsOpen, IInv, TypeOK
  <2>7. \A x : x.op = "LISTEN" => (x \in messages' <=> x \in messages)
    BY <1>1, <1>4, <1>7
  <2>8. \A d \in CallID : Holds(d)' => m_connection_map'[m_session_map'[d]._sock] # NoConnection
    BY <1>5, <1>8, <2>1, <2>2, <2>3, <2>4 DEF Sockets, IsOpen
  <2>9. \A d, e \in CallID :
          Holds(d)' /\ Holds(e)' /\ m_session_map'[d]._sock = m_session_map'[e]._sock => d = e
    BY <1>5, <2>1, <2>2 DEF Sockets
  <2>10. \A x \in messages' : x.op = "LISTEN" =>
           /\ m_connection_map'[x.obj] # NoConnection
           /\ \A d \in CallID : Holds(d)' => m_session_map'[d]._sock # x.obj
    BY <1>5, <1>8, <2>1, <2>2, <2>5, <2>7 DEF Sockets, IsOpen
  <2>11. \A n \in Sock : m_connection_map'[n] # NoConnection =>
           \/ \E d \in CallID : Holds(d)' /\ m_session_map'[d]._sock = n
           \/ \E x \in messages' : x.op = "LISTEN" /\ x.obj = n
    <3> SUFFICES ASSUME NEW n \in Sock, m_connection_map'[n] # NoConnection
                 PROVE  \/ \E d \in CallID : Holds(d)' /\ m_session_map'[d]._sock = n
                        \/ \E x \in messages' : x.op = "LISTEN" /\ x.obj = n
      OBVIOUS
    <3>1. n # k /\ IsOpen(n)
      BY <1>8 DEF IsOpen
    <3> QED BY <1>1, <1>5, <2>1, <2>2, <2>7, <3>1 DEF Sockets
  <2>12. /\ m_connection_map'[m_in_connection'] = NoConnection
         /\ m_connection_map'[ListenSock] = NoConnection /\ ListenSock # k
         /\ m_in_connection' # ListenSock
    BY <1>2, <1>3, <1>4, <1>8, <2>2, <2>6, NetAssumption DEF Sockets, IsOpen, NetAssumption
  <2>13. {n \in Sock : m_connection_map'[n] # NoConnection} \cup {m_in_connection', ListenSock}
           \subseteq m_used_id_set'
    BY <1>4, <1>8, <2>2, <2>6, <2>12 DEF Sockets, IsOpen
  <2> QED BY <2>8, <2>9, <2>10, <2>11, <2>12, <2>13 DEF Sockets, IsOpen
<1>14. TextsOwned' /\ NeverUndefined'
  BY <1>5 DEF IInv, TextsOwned, NeverUndefined
<1> QED BY <1>9, <1>11, <1>12, <1>13, <1>14 DEF IInv

-----------------------------------------------------------------------------
\* Nothing is open and nobody is served.
LEMMA Initially == Init => IInv
<1> SUFFICES ASSUME Init
             PROVE  IInv
  OBVIOUS
<1> USE DEF Init, NetInit
<1>1. TypeOK
  BY NetAssumption DEF TypeOK, NetAssumption
<1>2. \A c \in CallID : ~InMap(c)
  BY DEF InMap
<1>3. \A k \in Sock : m_connection_map[k] \notin Pending /\ ~IsOpen(k)
  BY DEF NoConnection, Pending, IsOpen
<1>4. SessionsFit /\ Jobs /\ Sockets
  BY <1>2, <1>3, NetAssumption DEF SessionsFit, Jobs, Sockets, Holds, NetAssumption
<1>5. TextsOwned
  BY NetAssumption, UsrAssumption DEF TextsOwned, NoSession, NetAssumption, UsrAssumption
<1> QED BY <1>1, <1>4, <1>5 DEF IInv, NeverUndefined

\* Every step keeps the invariant.
LEMMA Stepping == IInv /\ [Next]_vars => IInv'
<1> SUFFICES ASSUME IInv, [Next]_vars
             PROVE  IInv'
  OBVIOUS
<1>1. CASE handle_accept /\ UNCHANGED usrvars
  BY <1>1, Accepts, AcceptFails DEF handle_accept
<1>2. ASSUME NEW k \in Sock, handle_read(k) \/ handle_write(k), UNCHANGED usrvars
      PROVE  IInv'
  BY <1>2, Completed
<1>3. ASSUME NEW m \in messages, Serve(m)
      PROVE  IInv'
  <2>1. CASE on_event(m)
    BY <2>1, Events
  <2>2. CASE Engine(m)
    BY <2>2, Engines
  <2>3. CASE post_handler(m) /\ UNCHANGED usrvars
    BY <2>3, Begun, Closes DEF post_handler
  <2> QED BY <1>3, <2>1, <2>2, <2>3 DEF Serve
<1>4. CASE UNCHANGED vars
  <2>1. UNCHANGED <<m_connection_map, m_used_id_set, m_in_connection, messages, m_session_map,
                    m_rtt_sess_text_map, texts, undefined, aborted>>
    BY <1>4 DEF vars, netvars, usrvars
  <2> QED BY <2>1 DEF IInv, TypeOK, SessionsFit, Jobs, Sockets, TextsOwned, NeverUndefined,
                      InMap, For, Holds, IsOpen
<1> QED BY <1>1, <1>2, <1>3, <1>4 DEF Next

-----------------------------------------------------------------------------
(* The properties. *)

\* The inductive invariant holds of the session manager, its processes and the network.
THEOREM Invariance == Spec => []IInv
<1> QED BY Initially, Stepping, PTL DEF Spec

\* OneThingEach, from Jobs.
LEMMA Counting == IInv => OneThingEach
<1> SUFFICES ASSUME IInv
             PROVE  OneThingEach
  OBVIOUS
<1>1. ASSUME NEW c \in CallID, InMap(c)
      PROVE  LET ms == {m \in messages : For(m) = c}
                 conns == {k \in Sock : m_connection_map[k].cid = c}
             IN  Cardinality(ms) + Cardinality(conns) = 1
  <2> DEFINE ms == {m \in messages : For(m) = c}
             conns == {k \in Sock : m_connection_map[k].cid = c}
  <2>1. \A m \in messages : For(m) = c => m.op # "LISTEN"
    BY NewSock, NetAssumption DEF NetAssumption
  <2>2. \A k \in conns : m_connection_map[k].op \in {"RECV", "SEND"}
    BY NetAssumption DEF IInv, TypeOK, NoConnection, Quiet, Pending, NetAssumption
  <2>3. CASE \E m \in messages : For(m) = c
    <3>1. PICK m \in messages : For(m) = c
      BY <2>3
    <3>2. ms = {m}
      BY <2>1, <3>1 DEF IInv, Jobs
    <3>3. conns = {}
      BY <2>1, <3>1, UnderWay
    <3> HIDE DEF ms, conns
    <3>4. Cardinality(ms) = 1 /\ Cardinality(conns) = 0
      BY <3>2, <3>3, FS_EmptySet, FS_Singleton
    <3>5. Cardinality(ms) + Cardinality(conns) = 1
      BY <3>4
    <3> QED BY <3>5 DEF ms, conns
  <2>4. CASE ~ \E m \in messages : For(m) = c
    <3>1. PICK k \in Sock : m_connection_map[k].cid = c
      BY <1>1, <2>4 DEF IInv, Jobs
    <3>2. m_session_map[c]._sock = k
      BY <2>2, <3>1, OnConnection
    <3>3. \A n \in conns : n = k
      BY <2>2, <3>2, OnConnection
    <3>4. ms = {} /\ conns = {k}
      BY <2>4, <3>1, <3>3
    <3> HIDE DEF ms, conns
    <3>5. Cardinality(ms) = 0 /\ Cardinality(conns) = 1
      BY <3>4, FS_EmptySet, FS_Singleton
    <3>6. Cardinality(ms) + Cardinality(conns) = 1
      BY <3>5
    <3> QED BY <3>6 DEF ms, conns
  <2> QED BY <2>3, <2>4
<1>2. ASSUME NEW c \in CallID, InMap(c)
      PROVE  /\ \A m \in messages : For(m) = c =>
                  /\ m.op = WaitsFor(m_session_map[c])
                  /\ m.op \in NetOps => m.obj = m_session_map[c]._sock
                  /\ m_session_map[c]._tid # NoText => m.obj = m_session_map[c]._tid
             /\ \A k \in Sock : m_connection_map[k].cid = c =>
                  m_connection_map[k].op = WaitsFor(m_session_map[c]) /\ k = m_session_map[c]._sock
  <2>1. \A m \in messages : For(m) = c => m.op # "LISTEN"
    BY NewSock, NetAssumption DEF NetAssumption
  <2>2. \A k \in Sock : m_connection_map[k].cid = c => m_connection_map[k].op \in {"RECV", "SEND"}
    BY NetAssumption DEF IInv, TypeOK, NoConnection, Quiet, Pending, NetAssumption
  <2> QED BY <2>1, <2>2, UnderWay, OnConnection DEF Fits
<1>3. \A m \in messages : m.op = "LISTEN" \/ InMap(For(m))
  BY UnderWay
<1>4. \A k \in Sock : m_connection_map[k] \in Pending => InMap(m_connection_map[k].cid)
  BY DEF IInv, Jobs
<1> QED BY <1>1, <1>2, <1>3, <1>4 DEF OneThingEach

\* SocketsOwned, from Sockets.
LEMMA Owners == IInv => SocketsOwned
<1> SUFFICES ASSUME IInv
             PROVE  SocketsOwned
  OBVIOUS
<1>1. ASSUME NEW k \in Sock
      PROVE  Cardinality(Holders(k)) + Cardinality({m \in messages : m.op = "LISTEN" /\ m.obj = k})
               = IF IsOpen(k) THEN 1 ELSE 0
  <2> DEFINE new == {m \in messages : m.op = "LISTEN" /\ m.obj = k}
  <2>1. \A c : c \in Holders(k) <=> c \in CallID /\ Holds(c) /\ m_session_map[c]._sock = k
    BY UsrAssumption DEF Holders, Holds, InMap, NoSession, UsrAssumption
  <2>2. \A c, d \in Holders(k) : c = d
    BY <2>1 DEF IInv, Sockets
  <2>3. \A m, n \in new : m = n
    BY NewSock
  <2>4. \A c \in Holders(k) : IsOpen(k) /\ new = {}
    BY <2>1 DEF IInv, Sockets
  <2>5. \A m \in new : IsOpen(k)
    BY DEF IInv, Sockets
  <2>6. IsOpen(k) => Holders(k) # {} \/ new # {}
    BY <2>1 DEF IInv, Sockets
  <2> HIDE DEF new
  <2>7. Cardinality({}) = 0 /\ \A x : Cardinality({x}) = 1
    BY FS_EmptySet, FS_Singleton
  <2>8. Cardinality(Holders(k)) + Cardinality(new) = IF IsOpen(k) THEN 1 ELSE 0
    <3>1. CASE ~IsOpen(k)
      <4>1. Holders(k) = {} /\ new = {}
        BY <2>4, <2>5, <3>1
      <4> QED BY <2>7, <3>1, <4>1
    <3>2. ASSUME IsOpen(k), NEW c \in Holders(k)
          PROVE  Cardinality(Holders(k)) + Cardinality(new) = 1
      <4>1. Holders(k) = {c} /\ new = {}
        BY <2>2, <2>4, <3>2
      <4>2. Cardinality(Holders(k)) = 1 /\ Cardinality(new) = 0
        BY <2>7, <4>1, Zenon
      <4> QED BY <4>2
    <3>3. ASSUME IsOpen(k), Holders(k) = {}, NEW m \in new
          PROVE  Cardinality(Holders(k)) + Cardinality(new) = 1
      <4>1. new = {m}
        BY <2>3
      <4>2. Cardinality(Holders(k)) = 0 /\ Cardinality(new) = 1
        BY <2>7, <3>3, <4>1, Zenon
      <4> QED BY <4>2
    <3> QED BY <2>6, <3>1, <3>2, <3>3
  <2> QED BY <2>8 DEF new
<1>2. /\ ~IsOpen(m_in_connection) /\ ~IsOpen(ListenSock) /\ m_in_connection # ListenSock
      /\ {k \in Sock : IsOpen(k)} \cup {m_in_connection, ListenSock} \subseteq m_used_id_set
  BY DEF IInv, Sockets
<1> QED BY <1>1, <1>2 DEF SocketsOwned

\* Every variable keeps the values of its kind.
THEOREM Typed == Spec => []TypeOK
<1>1. IInv => TypeOK
  BY DEF IInv
<1> QED BY <1>1, Invariance, PTL

\* A session has one thing under way, what it waits for, and nothing else is under way: no
\* answer of the network or of an engine finds on_event with another state, or no session.
THEOREM OneThing == Spec => []OneThingEach
<1> QED BY Counting, Invariance, PTL

\* An open socket has one owner, a session or the news of the connection, whoever connects
\* meanwhile and gets which recycled id of UidGenerator; that id is in use while the socket
\* is open, and neither the acceptor's nor that of the connection it waits with.
THEOREM OneOwner == Spec => []SocketsOwned
<1> QED BY Owners, Invariance, PTL

\* The map of the texts names the sessions that have one, and their texts are in memory.
THEOREM TextsHaveSessions == Spec => []TextsOwned
<1>1. IInv => TextsOwned
  BY DEF IInv
<1> QED BY <1>1, Invariance, PTL

\* No text is deleted twice, or used by an engine after a process has deleted it.
THEOREM NoUseAfterDelete == Spec => []NeverUndefined
<1>1. IInv => NeverUndefined
  BY DEF IInv
<1> QED BY <1>1, Invariance, PTL

-----------------------------------------------------------------------------
(* ReplyService. *)

\* One peer moves on.
LEMMA PeerMoves ==
  ASSUME NEW k \in Sock, peer'[k] \in Reply!After[peer[k]],
         \A n \in Sock \ {k} : peer'[n] = peer[n]
  PROVE  Reply!RSNext
<1> DEFINE p == peer'[k]
<1>1. peer = [n \in Sock |-> peer[n]]
  BY DEF peer
<1>2. peer' = [n \in Sock |-> peer'[n]]
  BY DEF peer
<1> HIDE DEF peer
<1>3. peer' = [peer EXCEPT ![k] = p]
  BY <1>1, <1>2
<1> QED BY <1>3 DEF Reply!RSNext

\* The peer that connects is CONNECTED.
LEMMA AcceptSeen ==
  ASSUME IInv, IInv', Accepted(m_in_connection), start_accept, UNCHANGED usrvars
  PROVE  Reply!RSNext
<1>1. PICK k \in Sock :
        /\ k = m_in_connection /\ ~IsOpen(k)
        /\ m_connection_map' = [m_connection_map EXCEPT ![k] = Quiet]
        /\ messages' = messages \cup {Msg("LISTEN", NoCallID, k, "SUCCESS")}
  BY Accepting DEF Accepted, IInv, TypeOK
<1>2. peer[k] = "AWAY"
  BY <1>1, PeerSeen DEF Seen
<1>3. peer'[k] = "CONNECTED"
  <2> DEFINE new == Msg("LISTEN", NoCallID, k, "SUCCESS")
  <2>1. new \in messages' /\ new.op = "LISTEN" /\ new.obj = k
    BY <1>1 DEF Msg
  <2>2. Seen'
    BY PeerSeenNext
  <2> HIDE DEF new
  <2> QED BY <2>1, <2>2 DEF Seen
<1>4. ASSUME NEW n \in Sock, n # k
      PROVE  peer'[n] = peer[n]
  <2>1. IsOpen(n)' <=> IsOpen(n)
    BY <1>1, <1>4 DEF IsOpen, IInv, TypeOK
  <2>2. \A x : Past(x) \/ IsRead(x) => (x \in messages' <=> x \in messages)
    BY <1>1 DEF Past, IsRead, Msg
  <2> QED BY <2>1, <2>2, PeerKept DEF usrvars
<1>5. peer'[k] \in Reply!After[peer[k]]
  BY <1>2, <1>3 DEF Reply!After
<1> QED BY <1>4, <1>5, PeerMoves

\* The peer's request is complete, or its connection is over.
LEMMA CompletedSeen ==
  ASSUME IInv, IInv', NEW k \in Sock, handle_read(k) \/ handle_write(k), UNCHANGED usrvars
  PROVE  Reply!RSNext
<1>1. PICK op \in {"RECV", "SEND"}, res \in {"SUCCESS", "ERROR"}, c \in CallID :
        /\ m_connection_map[k].op = op
        /\ m_connection_map' = [m_connection_map EXCEPT ![k] = Quiet]
        /\ messages' = messages \cup {Msg(op, c, k, res)}
        /\ Holds(c) /\ m_session_map[c]._sock = k
  BY OnConnection DEF handle_read, handle_write, Completes
<1> DEFINE new == Msg(op, c, k, res)
<1>2. /\ new \in messages' /\ new.op = op /\ new.obj = k /\ new.res = res /\ new.cid = c
      /\ For(new)' = c
  BY <1>1 DEF Msg, For
<1>3. messages' = messages \cup {new}
  BY <1>1
<1> HIDE DEF new
<1>4. m_session_map' = m_session_map
  BY DEF usrvars
<1>5. peer[k] = IF op = "RECV" THEN "CONNECTED" ELSE "ASKED"
  BY <1>1, PeerSeen DEF Seen
<1>6. peer'[k] = View(new, m_session_map[c])
  <2>1. Seen' /\ new.op # "LISTEN"
    BY <1>1, <1>2, PeerSeenNext
  <2>2. Holds(For(new))'
    <3>1. \A x \in messages' : x.cid = c /\ x.op = "CLOSE" => x.res = "REQ"
      BY <1>1, <1>2, <1>3 DEF Holds
    <3>2. InMap(c)'
      BY <1>1, <1>4 DEF Holds, InMap
    <3> QED BY <1>2, <3>1, <3>2 DEF Holds, InMap
  <2> QED BY <1>1, <1>2, <1>4, <2>1, <2>2 DEF Seen
<1>7. peer'[k] \in Reply!After[peer[k]]
  <2>1. CASE (op = "RECV" /\ res = "ERROR") \/ op = "SEND"
    <3>1. View(new, m_session_map[c]) = "DONE"
      BY <1>1, <1>2, <2>1 DEF View, Past
    <3> QED BY <1>5, <1>6, <2>1, <3>1 DEF Reply!After
  <2>2. CASE op = "RECV" /\ res = "SUCCESS"
    <3>1. View(new, m_session_map[c]) = "ASKED"
      BY <1>2, <2>2 DEF View, Past, IsRead
    <3> QED BY <1>5, <1>6, <2>2, <3>1 DEF Reply!After
  <2> QED BY <1>1, <2>1, <2>2
<1>8. ASSUME NEW n \in Sock, n # k
      PROVE  peer'[n] = peer[n]
  <2>1. IsOpen(n)' <=> IsOpen(n)
    BY <1>1, <1>8 DEF IsOpen, IInv, TypeOK
  <2>2. \A x : x.obj = n /\ (Past(x) \/ IsRead(x)) => (x \in messages' <=> x \in messages)
    BY <1>2, <1>3, <1>8
  <2> QED BY <1>4, <2>1, <2>2, PeerKept
<1> QED BY <1>7, <1>8, PeerMoves

\* That an operation begins is not seen.
LEMMA BegunSeen ==
  ASSUME IInv, IInv', NEW m \in messages, req_recv(m) \/ req_send(m), UNCHANGED usrvars
  PROVE  peer' = peer
<1>1. /\ m.op \in {"RECV", "SEND"} /\ m.res = "REQ" /\ m.obj \in Sock
      /\ m_connection_map[m.obj] = Quiet
  BY Asks DEF req_recv, req_send, NetOps
<1>2. /\ m_connection_map' = [m_connection_map EXCEPT ![m.obj] = [op |-> m.op, cid |-> m.cid]]
      /\ messages' = messages \ {m}
  BY <1>1 DEF req_recv, req_send, Begins, IsOpen, Quiet, NoConnection
<1> SUFFICES ASSUME NEW n \in Sock
             PROVE  peer'[n] = peer[n]
  BY PeerSame
<1>3. IsOpen(n)' <=> IsOpen(n)
  BY <1>1, <1>2 DEF IsOpen, IInv, TypeOK, Quiet, NoConnection
<1>4. \A x : Past(x) \/ IsRead(x) => (x \in messages' <=> x \in messages)
  <2>1. ~Past(m) /\ ~IsRead(m)
    BY <1>1 DEF Past, IsRead
  <2> QED BY <1>2, <2>1
<1> QED BY <1>3, <1>4, PeerKept DEF usrvars

\* The peer is closed after its answer, or after it went away.
LEMMA ClosesSeen ==
  ASSUME IInv, IInv', NEW m \in messages, req_close(m), UNCHANGED usrvars
  PROVE  Reply!RSNext
<1>1. PICK k \in Sock, c \in CallID :
        /\ k = m.obj /\ m_connection_map[k] = Quiet /\ c = For(m) /\ Holds(c) /\ m.cid = c
        /\ m_session_map[c]._sock = k
        /\ m.op = "CLOSE" /\ m.res = "REQ"
  BY UnderWay, Resting, Asks DEF req_close, NetOps
<1> DEFINE new == Msg("CLOSE", c, k, "SUCCESS")
<1>2. /\ m_connection_map' = [m_connection_map EXCEPT ![k] = NoConnection]
      /\ messages' = (messages \ {m}) \cup {new}
  BY <1>1 DEF req_close, IsOpen, Cancelled, Answered, Quiet, NoConnection, Pending
<1>3. peer[k] = "DONE"
  <2>1. View(m, m_session_map[c]) = "DONE"
    BY <1>1 DEF View, Past
  <2> QED BY <1>1, <2>1, PeerSeen DEF Seen
<1>4. peer'[k] = "AWAY"
  <2>1. ~IsOpen(k)'
    BY <1>1, <1>2 DEF IsOpen, IInv, TypeOK
  <2> QED BY <2>1, PeerSeenNext DEF Seen
<1>5. ASSUME NEW n \in Sock, n # k
      PROVE  peer'[n] = peer[n]
  <2>1. IsOpen(n)' <=> IsOpen(n)
    BY <1>2, <1>5 DEF IsOpen, IInv, TypeOK
  <2>2. new.obj = k
    BY DEF Msg
  <2>3. \A x : x.obj = n /\ (Past(x) \/ IsRead(x)) => (x \in messages' <=> x \in messages)
    BY <1>1, <1>2, <1>5, <2>2
  <2> QED BY <2>1, <2>3, PeerKept DEF usrvars
<1>6. peer'[k] \in Reply!After[peer[k]]
  BY <1>3, <1>4 DEF Reply!After
<1> QED BY <1>5, <1>6, PeerMoves

\* Every step is one of ReplyService or is not seen.
LEMMA StepSeen == IInv /\ IInv' /\ [Next]_vars => [Reply!RSNext]_peer
<1> SUFFICES ASSUME IInv, IInv', [Next]_vars
             PROVE  Reply!RSNext \/ peer' = peer
  OBVIOUS
<1>1. CASE handle_accept /\ UNCHANGED usrvars
  <2>1. CASE Accepted(m_in_connection) /\ start_accept
    BY <1>1, <2>1, AcceptSeen
  <2>2. CASE UNCHANGED <<m_connection_map, messages>>
    BY <1>1, <2>2 DEF usrvars, peer, IsOpen
  <2> QED BY <1>1, <2>1, <2>2 DEF handle_accept
<1>2. ASSUME NEW k \in Sock, handle_read(k) \/ handle_write(k), UNCHANGED usrvars
      PROVE  Reply!RSNext
  BY <1>2, CompletedSeen
<1>3. ASSUME NEW m \in messages, Serve(m)
      PROVE  Reply!RSNext \/ peer' = peer
  <2>1. CASE on_event(m)
    BY <2>1, Events
  <2>2. CASE Engine(m)
    BY <2>2, Engines
  <2>3. CASE post_handler(m) /\ UNCHANGED usrvars
    BY <2>3, BegunSeen, ClosesSeen DEF post_handler
  <2> QED BY <1>3, <2>1, <2>2, <2>3 DEF Serve
<1>4. CASE UNCHANGED vars
  BY <1>4 DEF vars, netvars, usrvars, peer, IsOpen
<1> QED BY <1>1, <1>2, <1>3, <1>4 DEF Next

\* Nobody is connected at first.
LEMMA FirstSeen == Init => Reply!RSInit
  BY DEF Init, NetInit, Reply!RSInit, peer, IsOpen

\* A peer whose request was read is sent one answer, and only then closed.
THEOREM Implements == Spec => ImplementsReplyService
<1> QED BY FirstSeen, Invariance, StepSeen, PTL DEF Spec, ImplementsReplyService, Reply!RSSpec
=============================================================================
