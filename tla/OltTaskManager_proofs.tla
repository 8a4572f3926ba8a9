------------------------ MODULE OltTaskManager_proofs ------------------------
(* For any clients, text ids, requests and call ids: if no client submits an *)
(* id that is in work, the manager's maps agree, a transaction has one       *)
(* message and one text, and OltService is implemented.                      *)
EXTENDS OltTaskManager, TLAPS

\* The clients know which rows are in work: nobody has sent an id that is, and no id
\* stands in two requests or twice in one.
RequestsFree ==
  /\ \A cl \in Client : IsInjective(request[cl])
  /\ \A cl \in Client : \A t \in Range(request[cl]) : m_tid_cid_map[t] = NoCallID
  /\ \A cl1, cl2 \in Client : Range(request[cl1]) \cap Range(request[cl2]) # {} => cl1 = cl2

IInv == TypeOK /\ MapsAgree /\ OneMessageEach /\ TextsOwned /\ RequestsFree

-----------------------------------------------------------------------------
LEMMA Transactions ==
  /\ \A x \in Transaction : x # Ended /\ x._text_id \in TextID /\ x._proc_state \in Stages
  /\ Ended \notin Transaction
BY DEF Transaction, Ended, Stages

\* A request names text ids.
LEMMA RequestRanges ==
  \A r \in Requests \cup {<<>>} : r \in Seq(TextID) /\ Range(r) \subseteq TextID
<1> TAKE r \in Requests \cup {<<>>}
<1>1. r \in Seq(TextID)
  <2>1. CASE r = <<>>
    BY <2>1
  <2>2. CASE r \in Requests
    BY <2>2, OltAssumption DEF OltAssumption
  <2> QED BY <2>1, <2>2
<1> QED BY <1>1 DEF Range

\* What IInv says of a message that is under way.
LEMMA UnderWay ==
  ASSUME IInv, NEW m \in messages
  PROVE  /\ m \in Message /\ m.text \in CallID /\ m.tid \in TextID /\ m.stage \in Stages
         /\ InMap(m.text) /\ m.text \in live
         /\ m_transaction_map[m.text] = [_text_id |-> m.tid, _proc_state |-> m.stage]
         /\ m_transaction_map[m.text]._text_id = m.tid
         /\ m_transaction_map[m.text]._proc_state = m.stage
         /\ m_tid_cid_map[m.tid] = m.text
         /\ m.cid = IF m.stage = "TRANS" THEN NoCallID ELSE m.text
         /\ \A k \in messages : k.text = m.text \/ k.tid = m.tid => k = m
<1>1. m \in Message /\ m.text \in CallID /\ m.tid \in TextID /\ m.stage \in Stages
  BY DEF IInv, TypeOK, Message
<1>2. /\ InMap(m.text) /\ m.text \in live
      /\ m.cid = IF m.stage = "TRANS" THEN NoCallID ELSE m.text
      /\ m.tid = m_transaction_map[m.text]._text_id
      /\ m.stage = m_transaction_map[m.text]._proc_state
  BY DEF IInv, OneMessageEach, TextsOwned, InMap
<1>3. m_transaction_map[m.text] = [_text_id |-> m.tid, _proc_state |-> m.stage]
  <2>1. m_transaction_map[m.text] \in Transaction
    BY <1>1, <1>2 DEF IInv, TypeOK, InMap
  <2> QED BY <1>2, <2>1 DEF Transaction
<1>4. \A k \in messages : k.tid \in TextID /\ k.text \in CallID /\ m_tid_cid_map[k.tid] = k.text
  <2> TAKE k \in messages
  <2>1. k.tid \in TextID /\ k.text \in CallID
    BY DEF IInv, TypeOK, Message
  <2>2. InMap(k.text) /\ k.tid = m_transaction_map[k.text]._text_id
    BY DEF IInv, OneMessageEach
  <2> QED BY <2>1, <2>2 DEF IInv, MapsAgree
<1>5. \A k \in messages : k.text = m.text => k = m
  BY DEF IInv, OneMessageEach
<1> QED BY <1>1, <1>2, <1>3, <1>4, <1>5

\* A text that goes to another engine, or is answered there, keeps IInv.
LEMMA Moved ==
  ASSUME IInv, NEW m \in messages, NEW m2 \in Message, Move(m, m2),
         m2.text = m.text, m2.tid = m.tid,
         m2.cid = IF m2.stage = "TRANS" THEN NoCallID ELSE m.text,
         m_transaction_map' = [m_transaction_map EXCEPT ![m.text] =
                                 [_text_id |-> m.tid, _proc_state |-> m2.stage]],
         transstate' \in [TextID -> RowStates],
         UNCHANGED <<m_using_cid_set, m_tid_cid_map, request, live, undefined>>
  PROVE  IInv'
<1>0. m2.stage \in Stages /\ [_text_id |-> m.tid, _proc_state |-> m2.stage] \in Transaction
  BY UnderWay DEF Message, Transaction
<1>1. TypeOK'
  BY <1>0, UnderWay DEF IInv, TypeOK, Move
<1>t. \A c \in CallID : m_transaction_map'[c] =
        IF c = m.text THEN [_text_id |-> m.tid, _proc_state |-> m2.stage]
        ELSE m_transaction_map[c]
  BY DEF IInv, TypeOK
<1>2. \A c \in CallID : InMap(c)' <=> InMap(c)
  <2> TAKE c \in CallID
  <2>1. CASE c = m.text
    BY <1>0, <1>t, <2>1, UnderWay, Transactions DEF InMap
  <2>2. CASE c # m.text
    BY <1>t, <2>2 DEF InMap
  <2> QED BY <2>1, <2>2
<1>3. \A c \in CallID : InMap(c) => m_transaction_map'[c]._text_id = m_transaction_map[c]._text_id
  <2> TAKE c \in CallID
  <2>1. CASE c = m.text
    <3>1. m_transaction_map[c]._text_id = m.tid
      BY <2>1, UnderWay
    <3>2. m_transaction_map'[c]._text_id = m.tid
      BY <1>t, <2>1
    <3> QED BY <3>1, <3>2
  <2>2. CASE c # m.text
    BY <1>t, <2>2
  <2> QED BY <2>1, <2>2
<1>4. MapsAgree'
  BY <1>2, <1>3 DEF IInv, TypeOK, MapsAgree, InMap
<1>5. OneMessageEach'
  <2>1. messages' = (messages \ {m}) \cup {m2}
    BY DEF Move
  <2>2. \A k \in messages \ {m} : k.text # m.text /\ m_transaction_map'[k.text] = m_transaction_map[k.text]
    BY UnderWay DEF IInv, TypeOK
  <2>3. m_transaction_map'[m.text] = [_text_id |-> m.tid, _proc_state |-> m2.stage]
    BY UnderWay DEF IInv, TypeOK
  <2>4. \A k \in messages' : /\ InMap(k.text)'
                             /\ k.tid = m_transaction_map'[k.text]._text_id
                             /\ k.stage = m_transaction_map'[k.text]._proc_state
                             /\ k.cid = IF k.stage = "TRANS" THEN NoCallID ELSE k.text
    <3> TAKE k \in messages'
    <3>1. CASE k = m2
      <4>1. m.text \in CallID /\ InMap(m.text)
        BY UnderWay
      <4>2. /\ m_transaction_map'[m.text]._text_id = m.tid
            /\ m_transaction_map'[m.text]._proc_state = m2.stage
        BY <2>3
      <4>3. m_transaction_map'[m.text] # Ended
        BY <1>2, <4>1 DEF InMap
      <4> QED BY <3>1, <4>1, <4>2, <4>3 DEF InMap
    <3>2. CASE k # m2
      <4>1. k \in messages /\ k # m
        BY <2>1, <3>2
      <4>2. /\ k.text \in CallID /\ InMap(k.text)
            /\ m_transaction_map[k.text]._text_id = k.tid
            /\ m_transaction_map[k.text]._proc_state = k.stage
            /\ k.cid = IF k.stage = "TRANS" THEN NoCallID ELSE k.text
        BY <4>1, UnderWay
      <4> QED BY <2>2, <4>1, <4>2 DEF InMap
    <3> QED BY <3>1, <3>2
  <2>5. \A k1, k2 \in messages' : k1.text = k2.text => k1 = k2
    BY <2>1, <2>2 DEF IInv, OneMessageEach
  <2>6. \A c \in CallID : InMap(c)' => \E k \in messages' : k.text = c
    BY <1>2, <2>1 DEF IInv, OneMessageEach
  <2> QED BY <2>4, <2>5, <2>6 DEF OneMessageEach
<1>6. TextsOwned'
  BY <1>2 DEF IInv, TextsOwned
<1>7. RequestsFree'
  BY DEF IInv, RequestsFree
<1> QED BY <1>1, <1>4, <1>5, <1>6, <1>7 DEF IInv

\* A transaction that ends with its message and its text keeps IInv.
LEMMA EndedWell ==
  ASSUME IInv, NEW m \in messages, Erase(m.text), messages' = messages \ {m},
         live' = live \ {m.text},
         transstate' \in [TextID -> RowStates],
         UNCHANGED <<request, undefined>>
  PROVE  IInv'
<1>m. m_transaction_map[m.text]._text_id = m.tid /\ m.text \in CallID /\ m.tid \in TextID
  BY UnderWay
<1>0. m_tid_cid_map' = [m_tid_cid_map EXCEPT ![m.tid] = NoCallID]
  BY <1>m DEF Erase
<1>1. TypeOK'
  BY <1>0, <1>m DEF IInv, TypeOK, Erase
<1>t. \A c \in CallID : m_transaction_map'[c] = IF c = m.text THEN Ended ELSE m_transaction_map[c]
  BY DEF IInv, TypeOK, Erase
<1>2. \A c \in CallID : InMap(c)' <=> InMap(c) /\ c # m.text
  BY <1>t DEF InMap
<1>3. \A c \in CallID \ {m.text} : m_transaction_map'[c] = m_transaction_map[c]
  BY <1>t
<1>4. \A t \in TextID : m_tid_cid_map'[t] = IF t = m.tid THEN NoCallID ELSE m_tid_cid_map[t]
  BY <1>0 DEF IInv, TypeOK
<1>5. MapsAgree'
  <2>1. \A c \in CallID : InMap(c)' => m_tid_cid_map'[m_transaction_map'[c]._text_id] = c
    <3> SUFFICES ASSUME NEW c \in CallID, InMap(c), c # m.text
                 PROVE  m_tid_cid_map'[m_transaction_map[c]._text_id] = c
      BY <1>2, <1>3
    <3>1. m_transaction_map[c] \in Transaction /\ m_transaction_map[c]._text_id \in TextID
      BY Transactions DEF IInv, TypeOK, InMap
    <3>2. m_tid_cid_map[m_transaction_map[c]._text_id] = c
      BY DEF IInv, MapsAgree
    <3>3. m_transaction_map[c]._text_id # m.tid
      BY <3>2, UnderWay
    <3> QED BY <1>4, <3>1, <3>2, <3>3
  <2>2. \A t \in TextID : m_tid_cid_map'[t] # NoCallID =>
          /\ m_tid_cid_map'[t] \in CallID
          /\ m_transaction_map'[m_tid_cid_map'[t]] # Ended
          /\ m_transaction_map'[m_tid_cid_map'[t]]._text_id = t
    <3> SUFFICES ASSUME NEW t \in TextID, m_tid_cid_map'[t] # NoCallID
                 PROVE  /\ m_tid_cid_map'[t] \in CallID
                        /\ m_transaction_map'[m_tid_cid_map'[t]] # Ended
                        /\ m_transaction_map'[m_tid_cid_map'[t]]._text_id = t
      OBVIOUS
    <3>0. t # m.tid /\ m_tid_cid_map[t] # NoCallID
      BY <1>4
    <3>1. /\ InMap(m_tid_cid_map[t]) /\ m_tid_cid_map[t] \in CallID
          /\ m_transaction_map[m_tid_cid_map[t]]._text_id = t
      BY <3>0 DEF IInv, MapsAgree, InMap
    <3>2. m_tid_cid_map[t] # m.text
      BY <1>m, <3>0, <3>1
    <3>3. m_tid_cid_map'[t] = m_tid_cid_map[t]
      BY <1>4, <3>0
    <3> QED BY <1>t, <3>1, <3>2, <3>3 DEF InMap
  <2> QED BY <2>1, <2>2 DEF MapsAgree, InMap
<1>6. OneMessageEach'
  <2>1. \A k \in messages' : k \in messages /\ k.text # m.text /\ k.text \in CallID
    BY UnderWay
  <2>2. \A k \in messages' : InMap(k.text)' /\ m_transaction_map'[k.text] = m_transaction_map[k.text]
    BY <1>2, <1>3, <2>1, UnderWay
  <2> QED BY <1>2, <2>1, <2>2 DEF IInv, OneMessageEach
<1>7. TextsOwned'
  BY <1>2, UnderWay DEF IInv, TextsOwned, Erase
<1>8. RequestsFree'
  <2>1. \A t \in TextID : m_tid_cid_map[t] = NoCallID => m_tid_cid_map'[t] = NoCallID
    BY <1>4
  <2>2. \A cl \in Client : \A t \in Range(request[cl]) : t \in TextID
    BY RequestRanges DEF IInv, TypeOK
  <2> QED BY <2>1, <2>2 DEF IInv, RequestsFree
<1> QED BY <1>1, <1>5, <1>6, <1>7, <1>8 DEF IInv

-----------------------------------------------------------------------------
\* A client's list waits to be taken in.
LEMMA Submitted ==
  ASSUME IInv, Resubmits = FALSE, NEW cl \in Client, Submit(cl)
  PROVE  IInv'
<1>1. PICK ids \in Requests : /\ IsInjective(ids) /\ \A i \in DOMAIN ids : Free(ids[i])
                              /\ request' = [request EXCEPT ![cl] = ids]
  BY DEF Submit
<1>2. UNCHANGED <<m_using_cid_set, m_transaction_map, m_tid_cid_map, messages, live,
                  undefined, transstate>>
  BY DEF Submit
<1>3. TypeOK'
  BY <1>1, <1>2 DEF IInv, TypeOK
<1>4. MapsAgree' /\ OneMessageEach' /\ TextsOwned'
  BY <1>2 DEF IInv, MapsAgree, OneMessageEach, TextsOwned, InMap
<1>5. RequestsFree'
  <2>1. \A c \in Client : request'[c] = IF c = cl THEN ids ELSE request[c]
    BY <1>1 DEF IInv, TypeOK
  <2>2. \A t \in Range(ids) : Free(t)
    BY <1>1 DEF Range
  <2>3. \A c \in Client : IsInjective(request'[c])
    BY <1>1, <2>1 DEF IInv, RequestsFree
  <2>4. \A c \in Client : \A t \in Range(request'[c]) : m_tid_cid_map'[t] = NoCallID
    BY <1>2, <2>1, <2>2 DEF IInv, RequestsFree, Free
  <2>5. \A c1, c2 \in Client : Range(request'[c1]) \cap Range(request'[c2]) # {} => c1 = c2
    BY <2>1, <2>2 DEF IInv, RequestsFree, Free
  <2> QED BY <2>3, <2>4, <2>5 DEF RequestsFree
<1> QED BY <1>3, <1>4, <1>5 DEF IInv

\* What on_olt_submit does when no id of the list is in work: every id gets a transaction
\* under a call id of its own, a text and a request to load it.
TakesIn(cl, ids, cid) ==
  /\ ids = request[cl] /\ ids \in Seq(TextID) /\ IsInjective(ids)
  /\ \A i \in DOMAIN ids : ids[i] \in TextID /\ m_tid_cid_map[ids[i]] = NoCallID
  /\ \A i \in DOMAIN ids : cid[i] \in CallID /\ ~InMap(cid[i])
  /\ \A i, j \in DOMAIN ids : cid[i] = cid[j] => i = j
  /\ m_using_cid_set' = m_using_cid_set \cup {cid[i] : i \in DOMAIN ids}
  /\ live' = live \cup {cid[i] : i \in DOMAIN ids}
  /\ \A i \in DOMAIN ids :
       /\ m_transaction_map'[cid[i]] = [_text_id |-> ids[i], _proc_state |-> "LOAD"]
       /\ m_tid_cid_map'[ids[i]] = cid[i]
  /\ \A c \in CallID : (\A i \in DOMAIN ids : cid[i] # c) =>
       m_transaction_map'[c] = m_transaction_map[c]
  /\ \A t \in TextID : (\A i \in DOMAIN ids : ids[i] # t) =>
       m_tid_cid_map'[t] = m_tid_cid_map[t]
  /\ DOMAIN m_transaction_map' = CallID /\ DOMAIN m_tid_cid_map' = TextID
  /\ m_transaction_map' = [c \in CallID |-> m_transaction_map'[c]]
  /\ m_tid_cid_map' = [t \in TextID |-> m_tid_cid_map'[t]]
  /\ messages' = messages \cup
       {[stage |-> "LOAD", cid |-> cid[i], text |-> cid[i], tid |-> ids[i],
         res |-> "REQ"] : i \in DOMAIN ids}
  /\ request' = [request EXCEPT ![cl] = <<>>]
  /\ UNCHANGED <<undefined, transstate>>

LEMMA Taking ==
  ASSUME IInv, NEW cl \in Client, on_olt_submit(cl)
  PROVE  \E ids, cid : TakesIn(cl, ids, cid)
<1> DEFINE ids == request[cl]
           D == DOMAIN ids
<1>1. /\ ids \in Seq(TextID) /\ IsInjective(ids)
      /\ \A i \in D : ids[i] \in TextID /\ m_tid_cid_map[ids[i]] = NoCallID
  <2>1. ids \in Requests \cup {<<>>}
    BY DEF IInv, TypeOK
  <2>2. ids \in Seq(TextID)
    BY <2>1, RequestRanges
  <2>3. IsInjective(ids) /\ \A t \in Range(ids) : m_tid_cid_map[t] = NoCallID
    BY DEF IInv, RequestsFree
  <2> QED BY <2>2, <2>3 DEF Range
<1>2. D = 1..Len(ids)
  BY <1>1
<1>3. PICK cid \in generate_call_id(Len(ids)) :
        LET created == {i \in D : ~InMap(cid[i])} IN
        /\ m_using_cid_set' = m_using_cid_set \cup Range(cid)
        /\ insert_transaction(ids, cid, created)
        /\ live' = live \cup {cid[i] : i \in created}
        /\ messages' = messages \cup
             {[stage |-> "LOAD", cid |-> cid[i], text |-> cid[i], tid |-> ids[i],
               res |-> "REQ"] : i \in created}
  BY DEF on_olt_submit
<1>4. /\ cid \in [D -> CallID \ m_using_cid_set]
      /\ \A i, j \in D : cid[i] = cid[j] => i = j
  BY <1>2, <1>3 DEF generate_call_id, Injection, IsInjective
<1>5. \A i \in D : cid[i] \in CallID /\ ~InMap(cid[i])
  BY <1>4 DEF IInv, TextsOwned
<1>6. {i \in D : ~InMap(cid[i])} = D
  BY <1>5
<1>7. Range(cid) = {cid[i] : i \in D}
  BY <1>4 DEF Range
<1>8. insert_transaction(ids, cid, D)
  BY <1>3, <1>6
<1>9. /\ m_transaction_map' =
           [c \in CallID |-> IF \E i \in D : cid[i] = c
                             THEN [_text_id |-> ids[CHOOSE i \in D : cid[i] = c],
                                   _proc_state |-> "LOAD"]
                             ELSE m_transaction_map[c]]
      /\ m_tid_cid_map' =
           [t \in TextID |->
              IF m_tid_cid_map[t] # NoCallID \/ {i \in D : ids[i] = t} = {}
              THEN m_tid_cid_map[t]
              ELSE cid[CHOOSE i \in {k \in D : ids[k] = t} :
                         \A j \in {k \in D : ids[k] = t} : i <= j]]
  BY <1>8 DEF insert_transaction
<1>10. \A i \in D : m_transaction_map'[cid[i]] = [_text_id |-> ids[i], _proc_state |-> "LOAD"]
  <2> TAKE i \in D
  <2>1. (CHOOSE j \in D : cid[j] = cid[i]) = i
    BY <1>4
  <2> QED BY <1>5, <1>9, <2>1
<1>11. \A i \in D : m_tid_cid_map'[ids[i]] = cid[i]
  <2> TAKE i \in D
  <2>1. {j \in D : ids[j] = ids[i]} = {i}
    BY <1>1 DEF IsInjective
  <2>2. (CHOOSE k \in {i} : \A j \in {i} : k <= j) = i
    BY <1>2
  <2> QED BY <1>1, <1>9, <2>1, <2>2
<1>12. \A c \in CallID : (\A i \in D : cid[i] # c) => m_transaction_map'[c] = m_transaction_map[c]
  BY <1>9
<1>13. \A t \in TextID : (\A i \in D : ids[i] # t) => m_tid_cid_map'[t] = m_tid_cid_map[t]
  BY <1>9
<1>14. /\ DOMAIN m_transaction_map' = CallID /\ DOMAIN m_tid_cid_map' = TextID
       /\ m_transaction_map' = [c \in CallID |-> m_transaction_map'[c]]
       /\ m_tid_cid_map' = [t \in TextID |-> m_tid_cid_map'[t]]
  BY <1>9
<1>15. request' = [request EXCEPT ![cl] = <<>>] /\ UNCHANGED <<undefined, transstate>>
  BY DEF on_olt_submit
<1>16. /\ m_using_cid_set' = m_using_cid_set \cup {cid[i] : i \in D}
       /\ live' = live \cup {cid[i] : i \in D}
       /\ messages' = messages \cup
            {[stage |-> "LOAD", cid |-> cid[i], text |-> cid[i], tid |-> ids[i],
              res |-> "REQ"] : i \in D}
  BY <1>3, <1>6, <1>7
<1>17. TakesIn(cl, ids, cid)
  BY <1>1, <1>4, <1>5, <1>10, <1>11, <1>12, <1>13, <1>14, <1>15, <1>16 DEF TakesIn
<1> QED BY <1>17

\* A list that is taken in keeps IInv.
LEMMA TakenIn ==
  ASSUME IInv, NEW cl \in Client, NEW ids, NEW cid, TakesIn(cl, ids, cid)
  PROVE  IInv'
<1> DEFINE D == DOMAIN ids
           new(i) == [stage |-> "LOAD", cid |-> cid[i], text |-> cid[i], tid |-> ids[i],
                      res |-> "REQ"]
           tr(i) == [_text_id |-> ids[i], _proc_state |-> "LOAD"]
<1>1. \A i \in D : /\ ids[i] \in TextID /\ m_tid_cid_map[ids[i]] = NoCallID
                   /\ cid[i] \in CallID /\ ~InMap(cid[i])
                   /\ m_transaction_map'[cid[i]] = tr(i)
                   /\ m_tid_cid_map'[ids[i]] = cid[i]
  BY DEF TakesIn
<1>2. \A c \in CallID : (\A i \in D : cid[i] # c) => m_transaction_map'[c] = m_transaction_map[c]
  BY DEF TakesIn
<1>3. \A t \in TextID : (\A i \in D : ids[i] # t) => m_tid_cid_map'[t] = m_tid_cid_map[t]
  BY DEF TakesIn
<1>4. \A i, j \in D : (cid[i] = cid[j] \/ ids[i] = ids[j]) => i = j
  BY DEF TakesIn, IsInjective
<1>5. /\ messages' = messages \cup {new(i) : i \in D}
      /\ live' = live \cup {cid[i] : i \in D}
      /\ m_using_cid_set' = m_using_cid_set \cup {cid[i] : i \in D}
      /\ request' = [request EXCEPT ![cl] = <<>>]
      /\ UNCHANGED <<undefined, transstate>>
  BY DEF TakesIn
<1>6. \A i \in D : tr(i) \in Transaction /\ tr(i) # Ended /\ new(i) \in Message
  BY <1>1, Transactions DEF Transaction, Message, Stages
<1> HIDE DEF new, tr
<1>7. TypeOK'
  <2>1. m_transaction_map' \in [CallID -> Transaction \cup {Ended}]
    <3>1. \A c \in CallID : m_transaction_map'[c] \in Transaction \cup {Ended}
      BY <1>1, <1>2, <1>6 DEF IInv, TypeOK
    <3>2. m_transaction_map' = [c \in CallID |-> m_transaction_map'[c]]
      BY DEF TakesIn
    <3> QED BY <3>1, <3>2
  <2>2. m_tid_cid_map' \in [TextID -> CallID \cup {NoCallID}]
    <3>1. \A t \in TextID : m_tid_cid_map'[t] \in CallID \cup {NoCallID}
      BY <1>1, <1>3 DEF IInv, TypeOK
    <3>2. m_tid_cid_map' = [t \in TextID |-> m_tid_cid_map'[t]]
      BY DEF TakesIn
    <3> QED BY <3>1, <3>2
  <2>3. m_using_cid_set' \subseteq CallID /\ live' \subseteq CallID /\ messages' \subseteq Message
    BY <1>1, <1>5, <1>6 DEF IInv, TypeOK
  <2>4. /\ request' \in [Client -> Requests \cup {<<>>}] /\ undefined' \in BOOLEAN
        /\ transstate' \in [TextID -> RowStates]
    BY <1>5 DEF IInv, TypeOK
  <2> QED BY <2>1, <2>2, <2>3, <2>4 DEF TypeOK
<1>8. \A c \in CallID : (c \in CallID /\ m_transaction_map'[c] # Ended) <=>
                        (InMap(c) \/ \E i \in D : cid[i] = c)
  BY <1>1, <1>2, <1>6 DEF InMap
<1>9. \A c \in CallID : InMap(c) => m_transaction_map'[c] = m_transaction_map[c]
  BY <1>1, <1>2
<1>10. MapsAgree'
  <2>1. \A c \in CallID : m_transaction_map'[c] # Ended =>
          m_tid_cid_map'[m_transaction_map'[c]._text_id] = c
    <3> SUFFICES ASSUME NEW c \in CallID, m_transaction_map'[c] # Ended
                 PROVE  m_tid_cid_map'[m_transaction_map'[c]._text_id] = c
      OBVIOUS
    <3>1. CASE \E i \in D : cid[i] = c
      <4>1. PICK i \in D : cid[i] = c
        BY <3>1
      <4>2. tr(i)._text_id = ids[i]
        BY DEF tr
      <4> QED BY <1>1, <4>1, <4>2
    <3>2. CASE \A i \in D : cid[i] # c
      <4>1. InMap(c) /\ m_transaction_map'[c] = m_transaction_map[c]
        BY <1>8, <1>9, <3>2
      <4>2. m_transaction_map[c]._text_id \in TextID
        BY <4>1, Transactions DEF IInv, TypeOK, InMap
      <4>3. m_tid_cid_map[m_transaction_map[c]._text_id] = c
        BY <4>1 DEF IInv, MapsAgree
      <4>4. \A i \in D : ids[i] # m_transaction_map[c]._text_id
        BY <1>1, <4>3, OltAssumption DEF OltAssumption
      <4> QED BY <1>3, <4>1, <4>2, <4>3, <4>4
    <3> QED BY <3>1, <3>2
  <2>2. \A t \in TextID : m_tid_cid_map'[t] # NoCallID =>
          /\ m_tid_cid_map'[t] \in CallID
          /\ m_transaction_map'[m_tid_cid_map'[t]] # Ended
          /\ m_transaction_map'[m_tid_cid_map'[t]]._text_id = t
    <3> SUFFICES ASSUME NEW t \in TextID, m_tid_cid_map'[t] # NoCallID
                 PROVE  /\ m_tid_cid_map'[t] \in CallID
                        /\ m_transaction_map'[m_tid_cid_map'[t]] # Ended
                        /\ m_transaction_map'[m_tid_cid_map'[t]]._text_id = t
      OBVIOUS
    <3>1. CASE \E i \in D : ids[i] = t
      <4>1. PICK i \in D : ids[i] = t
        BY <3>1
      <4>2. m_tid_cid_map'[t] = cid[i] /\ m_transaction_map'[cid[i]] = tr(i)
        BY <1>1, <4>1
      <4>3. tr(i)._text_id = t /\ tr(i) # Ended
        BY <1>6, <4>1 DEF tr
      <4> QED BY <1>1, <4>2, <4>3
    <3>2. CASE \A i \in D : ids[i] # t
      <4>1. m_tid_cid_map'[t] = m_tid_cid_map[t]
        BY <1>3, <3>2
      <4>2. /\ InMap(m_tid_cid_map[t]) /\ m_tid_cid_map[t] \in CallID
            /\ m_transaction_map[m_tid_cid_map[t]]._text_id = t
        BY <4>1 DEF IInv, MapsAgree, InMap
      <4> QED BY <1>8, <1>9, <4>1, <4>2
    <3> QED BY <3>1, <3>2
  <2> QED BY <2>1, <2>2 DEF MapsAgree, InMap
<1>11. OneMessageEach'
  <2>1. \A c \in CallID : m_transaction_map'[c] # Ended => \E k \in messages' : k.text = c
    <3> SUFFICES ASSUME NEW c \in CallID, m_transaction_map'[c] # Ended
                 PROVE  \E k \in messages' : k.text = c
      OBVIOUS
    <3>1. CASE InMap(c)
      BY <1>5, <3>1 DEF IInv, OneMessageEach
    <3>2. CASE \E i \in D : cid[i] = c
      <4>1. PICK i \in D : cid[i] = c
        BY <3>2
      <4>2. new(i) \in messages' /\ new(i).text = c
        BY <1>5, <4>1 DEF new
      <4> QED BY <4>2
    <3> QED BY <1>8, <3>1, <3>2
  <2>2. \A k \in messages' : /\ k.text \in CallID /\ m_transaction_map'[k.text] # Ended
                             /\ k.tid = m_transaction_map'[k.text]._text_id
                             /\ k.stage = m_transaction_map'[k.text]._proc_state
                             /\ k.cid = IF k.stage = "TRANS" THEN NoCallID ELSE k.text
    <3> SUFFICES ASSUME NEW k \in messages'
                 PROVE  /\ k.text \in CallID /\ m_transaction_map'[k.text] # Ended
                        /\ k.tid = m_transaction_map'[k.text]._text_id
                        /\ k.stage = m_transaction_map'[k.text]._proc_state
                        /\ k.cid = IF k.stage = "TRANS" THEN NoCallID ELSE k.text
      OBVIOUS
    <3>1. CASE k \in messages
      <4>1. /\ k.text \in CallID /\ InMap(k.text)
            /\ m_transaction_map[k.text]._text_id = k.tid
            /\ m_transaction_map[k.text]._proc_state = k.stage
            /\ k.cid = IF k.stage = "TRANS" THEN NoCallID ELSE k.text
        BY <3>1, UnderWay
      <4> QED BY <1>8, <1>9, <4>1
    <3>2. CASE \E i \in D : k = new(i)
      <4>1. PICK i \in D : k = new(i)
        BY <3>2
      <4>2. /\ k.text = cid[i] /\ k.tid = ids[i] /\ k.stage = "LOAD" /\ k.cid = cid[i]
            /\ tr(i)._text_id = ids[i] /\ tr(i)._proc_state = "LOAD"
        BY <4>1 DEF new, tr
      <4> QED BY <1>1, <1>6, <4>2
    <3> QED BY <1>5, <3>1, <3>2
  <2>3. \A k1, k2 \in messages' : k1.text = k2.text => k1 = k2
    <3>1. \A k \in messages : InMap(k.text)
      BY DEF IInv, OneMessageEach
    <3>2. \A i \in D : new(i).text = cid[i] /\ ~InMap(new(i).text)
      BY <1>1 DEF new
    <3>3. \A k1, k2 \in messages : k1.text = k2.text => k1 = k2
      BY DEF IInv, OneMessageEach
    <3>4. \A i, j \in D : new(i).text = new(j).text => new(i) = new(j)
      BY <1>4, <3>2
    <3> QED BY <1>5, <3>1, <3>2, <3>3, <3>4
  <2> QED BY <2>1, <2>2, <2>3 DEF OneMessageEach, InMap
<1>12. TextsOwned'
  BY <1>1, <1>5, <1>8 DEF IInv, TextsOwned, InMap
<1>13. RequestsFree'
  <2>1. \A c \in Client : request'[c] = IF c = cl THEN <<>> ELSE request[c]
    BY <1>5 DEF IInv, TypeOK
  <2>2. Range(<<>>) = {} /\ IsInjective(<<>>)
    BY DEF Range, IsInjective
  <2>3. \A c \in Client \ {cl} : \A t \in Range(request[c]) :
          t \in TextID /\ m_tid_cid_map'[t] = NoCallID
    <3> SUFFICES ASSUME NEW c \in Client \ {cl}, NEW t \in Range(request[c])
                 PROVE  t \in TextID /\ m_tid_cid_map'[t] = NoCallID
      OBVIOUS
    <3>1. t \in TextID /\ m_tid_cid_map[t] = NoCallID
      BY RequestRanges DEF IInv, TypeOK, RequestsFree
    <3>2. Range(request[c]) \cap Range(ids) = {}
      BY DEF IInv, RequestsFree, TakesIn
    <3>3. \A i \in D : ids[i] # t
      BY <3>2 DEF Range
    <3> QED BY <1>3, <3>1, <3>3
  <2> QED BY <2>1, <2>2, <2>3 DEF IInv, RequestsFree
<1> QED BY <1>7, <1>10, <1>11, <1>12, <1>13 DEF IInv

-----------------------------------------------------------------------------
(* The handlers, in terms of Moved and EndedWell. *)

\* An engine answers a request and leaves the manager's maps alone.
LEMMA Answering ==
  ASSUME IInv, NEW m \in messages, NEW res \in {"PENDING", "SUSPEND", "SUCCESS", "ERROR"}, Answer(m, res),
         transstate' \in [TextID -> RowStates]
  PROVE  IInv'
<1> DEFINE m2 == [m EXCEPT !.res = res]
<1>1. /\ m \in Message /\ m.text \in live
      /\ m_transaction_map[m.text] = [_text_id |-> m.tid, _proc_state |-> m.stage]
      /\ m.cid = IF m.stage = "TRANS" THEN NoCallID ELSE m.text
  BY UnderWay
<1>2. /\ m2 \in Message /\ m2.text = m.text /\ m2.tid = m.tid /\ m2.stage = m.stage
      /\ m2.cid = m.cid
  BY <1>1 DEF Message
<1>3. Move(m, m2)
  BY DEF Answer
<1>4. /\ UNCHANGED <<m_using_cid_set, m_tid_cid_map, request, live, undefined>>
      /\ m_transaction_map' = m_transaction_map
  BY <1>1 DEF Answer, IInv, TypeOK
<1>5. m_transaction_map = [m_transaction_map EXCEPT ![m.text] =
                             [_text_id |-> m.tid, _proc_state |-> m.stage]]
  BY <1>1 DEF IInv, TypeOK
<1> HIDE DEF m2
<1> QED BY <1>1, <1>2, <1>3, <1>4, <1>5, Moved

\* A text goes on to the engine of the next stage.
LEMMA GoingOn ==
  ASSUME IInv, NEW m \in messages, NEW m2, GoesOn(m, m.text, m2), UNCHANGED request,
         \/ \E stage \in {"PREPROC", "POSTPROC", "SUBMIT_RESULT"} : m2 = Req(stage, m.text, m)
         \/ m2 = Req("TRANS", NoCallID, m)
  PROVE  IInv' /\ m2 \in Message /\ m2.text = m.text /\ m2.tid = m.tid /\ m2.res = "REQ"
<1>1. /\ m \in Message /\ m.text \in CallID /\ m.tid \in TextID
      /\ m_transaction_map[m.text] = [_text_id |-> m.tid, _proc_state |-> m.stage]
  BY UnderWay
<1>2. /\ m2 \in Message /\ m2.text = m.text /\ m2.tid = m.tid /\ m2.res = "REQ"
      /\ m2.cid = IF m2.stage = "TRANS" THEN NoCallID ELSE m.text
  BY <1>1 DEF Req, Message, Stages
<1>3. m_transaction_map' = [m_transaction_map EXCEPT ![m.text] =
                              [_text_id |-> m.tid, _proc_state |-> m2.stage]]
  <2>1. m_transaction_map' = [m_transaction_map EXCEPT ![m.text] =
                                [m_transaction_map[m.text] EXCEPT !._proc_state = m2.stage]]
    BY DEF GoesOn
  <2>2. [[_text_id |-> m.tid, _proc_state |-> m.stage] EXCEPT !._proc_state = m2.stage] =
          [_text_id |-> m.tid, _proc_state |-> m2.stage]
    OBVIOUS
  <2>3. [m_transaction_map[m.text] EXCEPT !._proc_state = m2.stage] =
          [_text_id |-> m.tid, _proc_state |-> m2.stage]
    BY <1>1, <2>2
  <2> QED BY <2>1, <2>3
<1>4. /\ Move(m, m2)
      /\ UNCHANGED <<m_using_cid_set, m_tid_cid_map, request, live, undefined, transstate>>
  BY DEF GoesOn
<1>5. transstate' \in [TextID -> RowStates]
  BY <1>4 DEF IInv, TypeOK
<1> QED BY <1>2, <1>3, <1>4, <1>5, Moved

\* A row that is written keeps to the states there are.
LEMMA Reporting ==
  ASSUME TypeOK, NEW t \in TextID, NEW s \in RowStates,
         transstate' = transstate \/ Report(t, s) \/ transstate' = [transstate EXCEPT ![t] = s]
  PROVE  transstate' \in [TextID -> RowStates]
BY DEF TypeOK, Report

\* A transaction ends in on_error: the row may say so, and nothing is left of it.
LEMMA Erring ==
  ASSUME IInv, NEW m \in messages, on_error(m.text), messages' = messages \ {m},
         UNCHANGED request
  PROVE  IInv' /\ \E s \in {"CANCEL", "NOMONEY"} : Report(m.tid, s)
<1>1. m.tid \in TextID /\ m.text \in live /\ m_transaction_map[m.text]._text_id = m.tid
  BY UnderWay
<1>2. /\ Report(m.tid, "CANCEL") \/ Report(m.tid, "NOMONEY")
      /\ Erase(m.text) /\ live' = live \ {m.text} /\ undefined' = undefined
  BY <1>1 DEF on_error, Delete, IInv, TypeOK
<1>3. transstate' \in [TextID -> RowStates]
  BY <1>1, <1>2, Reporting DEF IInv, RowStates
<1>4. IInv'
  BY <1>2, <1>3, EndedWell
<1> QED BY <1>2, <1>4

\* A transaction ends in on_success.
LEMMA Succeeding ==
  ASSUME IInv, NEW m \in messages, on_success(m.text), messages' = messages \ {m},
         UNCHANGED request
  PROVE  IInv'
<1>1. m.text \in live
  BY UnderWay
<1>2. /\ Erase(m.text) /\ live' = live \ {m.text} /\ undefined' = undefined
      /\ transstate' = transstate
  BY <1>1 DEF on_success, Delete, IInv, TypeOK
<1>3. transstate' \in [TextID -> RowStates]
  BY <1>2 DEF IInv, TypeOK
<1> QED BY <1>2, <1>3, EndedWell

\* What a handler of the manager can do: it sends the text on or ends its transaction, as
\* the answer says.  The checks for a wrong state, a transaction that is gone and a text
\* id that is not in its map never find anything.
LEMMA Handling ==
  ASSUME IInv, NEW m \in messages, Handle(m)
  PROVE  \/ \E m2 : /\ GoesOn(m, m.text, m2)
                    /\ \/ \E stage \in {"PREPROC", "POSTPROC", "SUBMIT_RESULT"} :
                            m2 = Req(stage, m.text, m)
                       \/ m2 = Req("TRANS", NoCallID, m)
                    /\ m.stage # "SUBMIT_RESULT" /\ m.res = "SUCCESS"
         \/ /\ m.res = "ERROR" /\ on_error(m.text) /\ messages' = messages \ {m}
         \/ /\ m.stage = "SUBMIT_RESULT" /\ m.res = "SUCCESS" /\ on_success(m.text)
            /\ messages' = messages \ {m}
<1>1. /\ InMap(m.text) /\ m.cid = IF m.stage = "TRANS" THEN NoCallID ELSE m.text
      /\ m_transaction_map[m.text]._proc_state = m.stage
      /\ m_tid_cid_map[m.tid] = m.text /\ m.text \in CallID
  BY UnderWay
<1>2. FindByText(m) = {m.text}
  BY <1>1, OltAssumption DEF FindByText, OltAssumption
<1>3. CASE on_load_file_end(m)
  BY <1>1, <1>3 DEF on_load_file_end, Answered, StageEnd, NotFound, Failed
<1>4. CASE on_preprocess_end(m)
  BY <1>1, <1>4 DEF on_preprocess_end, Answered, StageEnd, NotFound, Failed
<1>5. CASE on_postprocess_end(m)
  BY <1>1, <1>5 DEF on_postprocess_end, Answered, StageEnd, NotFound, Failed
<1>6. CASE on_trans_end(m)
  BY <1>1, <1>2, <1>6 DEF on_trans_end, Answered, FromEndIterator, Failed
<1>7. CASE on_submit_result_end(m)
  BY <1>1, <1>7 DEF on_submit_result_end, Answered
<1> QED BY <1>3, <1>4, <1>5, <1>6, <1>7 DEF Handle

\* What an engine can do with the message of a text: it answers, and may write the row;
\* FINISH with the answer that the text is stored, SUSPEND with the one that it is set
\* aside, and nothing else then.
LEMMA AtTheEngine ==
  ASSUME IInv, NEW m \in messages, Engine(m) \/ AtTranslator(m)
  PROVE  /\ m.res \in {"REQ", "PENDING", "SUSPEND"}
         /\ \E res \in {"PENDING", "SUSPEND", "SUCCESS", "ERROR"} :
              /\ Answer(m, res)
              /\ \/ /\ ~(m.stage = "SUBMIT_RESULT" /\ res = "SUCCESS") /\ res # "SUSPEND"
                    /\ transstate' = transstate \/ \E s \in {"RUNNING", "CANCEL"} : Report(m.tid, s)
                 \/ res = "SUSPEND" /\ m.stage = "TRANS" /\ Report(m.tid, "SUSPEND")
                 \/ /\ m.stage = "SUBMIT_RESULT" /\ res = "SUCCESS" /\ m.res = "REQ"
                    /\ transstate' = [transstate EXCEPT ![m.tid] = "FINISH"]
<1>1. CASE on_load_text(m)
  BY <1>1 DEF on_load_text
<1>2. CASE on_pre_process(m)
  BY <1>2 DEF on_pre_process
<1>3. CASE on_post_process(m)
  BY <1>3 DEF on_post_process
<1>4. CASE on_submit_result(m)
  BY <1>4 DEF on_submit_result
<1>5. CASE on_trans_submit(m)
  BY <1>5 DEF on_trans_submit
<1>6. CASE translated(m)
  BY <1>6 DEF translated, Held
<1>7. CASE on_trans_cancel(m)
  BY <1>7 DEF on_trans_cancel, Held
<1>8. CASE on_trans_suspend(m)
  BY <1>8 DEF on_trans_suspend, Held
<1>9. CASE on_trans_rerun(m)
  BY <1>9 DEF on_trans_rerun, Held
<1> QED BY <1>1, <1>2, <1>3, <1>4, <1>5, <1>6, <1>7, <1>8, <1>9 DEF Engine, AtTranslator

-----------------------------------------------------------------------------
(* The invariant. *)

LEMMA Start == Init => IInv
<1> SUFFICES ASSUME Init
             PROVE  IInv
  OBVIOUS
<1>1. \A c \in CallID : ~InMap(c)
  BY DEF Init, InMap
<1>2. TypeOK
  BY DEF Init, TypeOK, RowStates
<1>3. MapsAgree /\ OneMessageEach /\ TextsOwned
  BY <1>1 DEF Init, MapsAgree, OneMessageEach, TextsOwned
<1>4. RequestsFree
  BY DEF Init, RequestsFree, Range, IsInjective
<1> QED BY <1>2, <1>3, <1>4 DEF IInv

LEMMA Step ==
  ASSUME Resubmits = FALSE, IInv, [Next]_vars
  PROVE  IInv'
<1>1. CASE UNCHANGED vars
  BY <1>1 DEF vars, IInv, TypeOK, MapsAgree, OneMessageEach, TextsOwned, RequestsFree, InMap
<1>2. ASSUME NEW cl \in Client, Submit(cl)
      PROVE  IInv'
  BY <1>2, Submitted
<1>3. ASSUME NEW cl \in Client, on_olt_submit(cl)
      PROVE  IInv'
  BY <1>3, Taking, TakenIn
<1>4. ASSUME NEW m \in messages, Handle(m)
      PROVE  IInv'
  <2>1. UNCHANGED request
    BY <1>4 DEF Handle
  <2> QED BY <1>4, <2>1, Handling, GoingOn, Erring, Succeeding
<1>5. ASSUME NEW m \in messages, Engine(m) \/ AtTranslator(m)
      PROVE  IInv'
  <2>1. PICK res \in {"PENDING", "SUSPEND", "SUCCESS", "ERROR"} :
          /\ Answer(m, res)
          /\ \/ transstate' = transstate
             \/ \E s \in {"RUNNING", "SUSPEND", "CANCEL"} : Report(m.tid, s)
             \/ transstate' = [transstate EXCEPT ![m.tid] = "FINISH"]
    BY <1>5, AtTheEngine
  <2>2. m.tid \in TextID /\ TypeOK
    BY UnderWay DEF IInv
  <2>3. transstate' \in [TextID -> RowStates]
    BY <2>1, <2>2, Reporting DEF RowStates
  <2> QED BY <2>1, <2>3, Answering
<1> QED BY <1>1, <1>2, <1>3, <1>4, <1>5 DEF Next

\* If no client submits an id that is in work, IInv always holds.
THEOREM Invariance == Resubmits = FALSE /\ Spec => []IInv
<1> SUFFICES ASSUME Resubmits = FALSE
             PROVE  Spec => []IInv
  OBVIOUS
<1>1. IInv /\ [Next]_vars => IInv'
  BY Step
<1> QED BY <1>1, Start, PTL DEF Spec

\* The variables keep to their kinds.
THEOREM Typed == Resubmits = FALSE /\ Spec => []TypeOK
<1>1. IInv => TypeOK
  BY DEF IInv
<1> QED BY <1>1, Invariance, PTL

\* on_trans_end, which goes through m_tid_cid_map without looking at the state, always
\* comes to the transaction that the text belongs to.
THEOREM MapsAlwaysAgree == Resubmits = FALSE /\ Spec => []MapsAgree
<1>1. IInv => MapsAgree
  BY DEF IInv
<1> QED BY <1>1, Invariance, PTL

\* A transaction has one message under way, at the engine its state names.
THEOREM OneMessage == Resubmits = FALSE /\ Spec => []OneMessageEach
<1>1. IInv => OneMessageEach
  BY DEF IInv
<1> QED BY <1>1, Invariance, PTL

\* No text is leaked, deleted twice or used after it was deleted, and no call id is lost.
THEOREM EveryTextOwned == Resubmits = FALSE /\ Spec => []TextsOwned
<1>1. IInv => TextsOwned
  BY DEF IInv
<1> QED BY <1>1, Invariance, PTL

-----------------------------------------------------------------------------
(* The refinement of OltService. *)

Stored(m) == m.stage = "SUBMIT_RESULT" /\ m.res = "SUCCESS"

\* What is done for the text of a message.
WorkOf(m) ==
  IF Stored(m) THEN "STORED" ELSE IF m.res = "SUSPEND" THEN "SUSPENDED" ELSE "WORKING"

\* What IInv says of a text's work: its transaction's message decides.
LEMMA Works ==
  ASSUME IInv
  PROVE  /\ \A t \in TextID : m_tid_cid_map[t] = NoCallID => work[t] = "OUT"
         /\ \A m \in messages : work[m.tid] = WorkOf(m)
         /\ \A t \in TextID : m_tid_cid_map[t] # NoCallID =>
              \E m \in messages : m.tid = t /\ m.text = m_tid_cid_map[t]
         /\ work = [t \in TextID |-> work[t]]
<1>1. \A t \in TextID : m_tid_cid_map[t] = NoCallID => work[t] = "OUT"
  BY DEF work
<1>2. \A m \in messages : work[m.tid] = WorkOf(m)
  <2> TAKE m \in messages
  <2>1. /\ m.tid \in TextID /\ m_tid_cid_map[m.tid] = m.text /\ m.text \in CallID
        /\ \A k \in messages : k.tid = m.tid => k = m
    BY UnderWay
  <2>2. m_tid_cid_map[m.tid] # NoCallID
    BY <2>1, OltAssumption DEF OltAssumption
  <2> QED BY <2>1, <2>2 DEF work, WorkOf, Stored
<1>3. \A t \in TextID : m_tid_cid_map[t] # NoCallID =>
        \E m \in messages : m.tid = t /\ m.text = m_tid_cid_map[t]
  BY DEF IInv, MapsAgree, OneMessageEach, InMap
<1>4. work = [t \in TextID |-> work[t]]
  BY DEF work
<1> QED BY <1>1, <1>2, <1>3, <1>4

\* A message that is replaced by another of the same text changes the work of that text.
LEMMA WorkMoved ==
  ASSUME IInv, NEW m \in messages, NEW m2, Move(m, m2), m2.tid = m.tid,
         UNCHANGED m_tid_cid_map
  PROVE  work' = [work EXCEPT ![m.tid] = WorkOf(m2)]
<1>1. m.tid \in TextID /\ \A k \in messages : k.tid = m.tid => k = m
  BY UnderWay
<1>2. m2 \in messages' /\ messages' = (messages \ {m}) \cup {m2}
  BY DEF Move
<1>3. work'[m.tid] = WorkOf(m2)
  <2>1. \A k \in messages' : k.tid = m.tid <=> k = m2
    BY <1>1, <1>2
  <2>2. m_tid_cid_map'[m.tid] # NoCallID
    BY UnderWay, OltAssumption DEF OltAssumption
  <2> QED BY <1>1, <1>2, <2>1, <2>2 DEF work, WorkOf, Stored
<1>4. \A t \in TextID \ {m.tid} : work'[t] = work[t]
  BY <1>2 DEF work
<1>5. work = [t \in TextID |-> work[t]] /\ work' = [t \in TextID |-> work'[t]]
  BY DEF work
<1> QED BY <1>1, <1>3, <1>4, <1>5

\* A text whose transaction has ended is out.
LEMMA WorkEnded ==
  ASSUME IInv, NEW m \in messages, Erase(m.text), messages' = messages \ {m}
  PROVE  work' = [work EXCEPT ![m.tid] = "OUT"]
<1>1. /\ m.tid \in TextID /\ m_transaction_map[m.text]._text_id = m.tid
      /\ \A k \in messages : k.tid = m.tid => k = m
  BY UnderWay
<1>2. \A t \in TextID : m_tid_cid_map'[t] = IF t = m.tid THEN NoCallID ELSE m_tid_cid_map[t]
  BY <1>1 DEF Erase, IInv, TypeOK
<1>3. work'[m.tid] = "OUT"
  BY <1>1, <1>2 DEF work
<1>4. \A t \in TextID \ {m.tid} : work'[t] = work[t]
  BY <1>2 DEF work
<1>5. work = [t \in TextID |-> work[t]] /\ work' = [t \in TextID |-> work'[t]]
  BY DEF work
<1> QED BY <1>1, <1>3, <1>4, <1>5

LEMMA ServiceStart == Init => Service!OSInit
BY DEF Init, Service!OSInit, work

\* Every step of the pipeline is one OltService allows, or changes nothing it speaks of.
LEMMA ServiceStep ==
  ASSUME IInv, [Next]_vars
  PROVE  [Service!OSNext]_<<work, transstate>>
<1>1. CASE UNCHANGED vars
  BY <1>1 DEF vars, work
<1>2. ASSUME NEW cl \in Client, Submit(cl)
      PROVE  UNCHANGED <<work, transstate>>
  BY <1>2 DEF Submit, work
<1>3. ASSUME NEW cl \in Client, on_olt_submit(cl)
      PROVE  Service!TakeIn
  <2>1. PICK ids, cid : TakesIn(cl, ids, cid)
    BY <1>3, Taking
  <2> DEFINE D == DOMAIN ids
             ts == {t \in TextID : \E i \in D : ids[i] = t}
             new(i) == [stage |-> "LOAD", cid |-> cid[i], text |-> cid[i], tid |-> ids[i],
                        res |-> "REQ"]
  <2>2. messages' = messages \cup {new(i) : i \in D} /\ transstate' = transstate
    BY <2>1 DEF TakesIn
  <2>3. \A i \in D : /\ ids[i] \in TextID /\ m_tid_cid_map[ids[i]] = NoCallID
                     /\ cid[i] \in CallID /\ m_tid_cid_map'[ids[i]] = cid[i]
    BY <2>1 DEF TakesIn
  <2>4. \A t \in TextID \ ts : m_tid_cid_map'[t] = m_tid_cid_map[t]
    BY <2>1 DEF TakesIn
  <2>5. \A t \in ts : work[t] = "OUT"
    BY <2>3, Works
  <2>6. \A i \in D : new(i).stage = "LOAD" /\ new(i).tid = ids[i] /\ new(i).res = "REQ"
    OBVIOUS
  <2>7. \A k \in messages : k.tid \notin ts
    <3>1. \A k \in messages : m_tid_cid_map[k.tid] = k.text /\ k.text \in CallID
      BY UnderWay
    <3> QED BY <2>3, <3>1, OltAssumption DEF OltAssumption
  <2> HIDE DEF new
  <2>8. \A t \in ts : work'[t] = "WORKING"
    <3> TAKE t \in ts
    <3>1. m_tid_cid_map'[t] # NoCallID
      BY <2>3, OltAssumption DEF OltAssumption
    <3>2. \A k \in messages' : k.tid = t => k.stage = "LOAD" /\ k.res = "REQ"
      BY <2>2, <2>6, <2>7
    <3> QED BY <3>1, <3>2 DEF work
  <2>9. \A t \in TextID \ ts : work'[t] = work[t]
    <3> TAKE t \in TextID \ ts
    <3>1. \A i \in D : new(i).tid # t
      BY <2>3, <2>6
    <3>2. \A k : k \in messages' /\ k.tid = t <=> k \in messages /\ k.tid = t
      BY <2>2, <3>1
    <3> QED BY <2>4, <3>2 DEF work
  <2>10. work' = [t \in TextID |-> IF t \in ts THEN "WORKING" ELSE work[t]]
    <3>1. work' = [t \in TextID |-> work'[t]]
      BY DEF work
    <3> QED BY <2>8, <2>9, <3>1
  <2>11. ts \in SUBSET {t \in TextID : work[t] = "OUT"}
    BY <2>5
  <2> HIDE DEF ts
  <2> QED BY <2>2, <2>10, <2>11 DEF Service!TakeIn
<1>4. ASSUME NEW m \in messages, Handle(m)
      PROVE  [Service!OSNext]_<<work, transstate>>
  <2>1. /\ m.tid \in TextID /\ UNCHANGED request
        /\ work[m.tid] = WorkOf(m)
    BY <1>4, UnderWay, Works DEF Handle
  <2>2. CASE m.res = "ERROR" /\ on_error(m.text) /\ messages' = messages \ {m}
    <3>1. \E s \in {"CANCEL", "NOMONEY"} : Service!Row(m.tid, s)
      BY <2>1, <2>2, Erring DEF Report, Service!Row
    <3>2. work' = [work EXCEPT ![m.tid] = "OUT"]
      BY <2>2, WorkEnded DEF on_error
    <3>3. work[m.tid] = "WORKING"
      BY <2>1, <2>2 DEF WorkOf, Stored
    <3>4. Service!Failure(m.tid)
      BY <3>1, <3>2, <3>3 DEF Service!Failure
    <3> QED BY <2>1, <3>4 DEF Service!OSNext
  <2>3. CASE /\ m.stage = "SUBMIT_RESULT" /\ m.res = "SUCCESS" /\ on_success(m.text)
             /\ messages' = messages \ {m}
    <3>1. work' = [work EXCEPT ![m.tid] = "OUT"] /\ transstate' = transstate
      BY <2>3, WorkEnded DEF on_success
    <3>2. work[m.tid] = "STORED"
      BY <2>1, <2>3 DEF WorkOf, Stored
    <3>3. Service!Success(m.tid)
      BY <3>1, <3>2 DEF Service!Success
    <3> QED BY <2>1, <3>3 DEF Service!OSNext
  <2>4. ASSUME NEW m2, GoesOn(m, m.text, m2), m.stage # "SUBMIT_RESULT", m.res = "SUCCESS",
               \/ \E stage \in {"PREPROC", "POSTPROC", "SUBMIT_RESULT"} : m2 = Req(stage, m.text, m)
               \/ m2 = Req("TRANS", NoCallID, m)
        PROVE  UNCHANGED <<work, transstate>>
    <3>1. m2.tid = m.tid /\ m2.res = "REQ"
      BY <2>1, <2>4, GoingOn
    <3>2. Move(m, m2) /\ UNCHANGED <<m_tid_cid_map, transstate>>
      BY <2>4 DEF GoesOn
    <3>3. WorkOf(m) = "WORKING" /\ WorkOf(m2) = "WORKING"
      BY <2>4, <3>1 DEF WorkOf, Stored
    <3>4. work' = [work EXCEPT ![m.tid] = "WORKING"]
      BY <3>1, <3>2, <3>3, WorkMoved
    <3>5. work = [t \in TextID |-> work[t]] /\ work[m.tid] = "WORKING"
      BY <2>1, <3>3, Works
    <3> QED BY <3>2, <3>4, <3>5
  <2> QED BY <1>4, <2>2, <2>3, <2>4, Handling
<1>5. ASSUME NEW m \in messages, Engine(m) \/ AtTranslator(m)
      PROVE  [Service!OSNext]_<<work, transstate>>
  <2>1. PICK res \in {"PENDING", "SUSPEND", "SUCCESS", "ERROR"} :
          /\ Answer(m, res)
          /\ \/ /\ ~(m.stage = "SUBMIT_RESULT" /\ res = "SUCCESS") /\ res # "SUSPEND"
                /\ transstate' = transstate \/ \E s \in {"RUNNING", "CANCEL"} : Report(m.tid, s)
             \/ res = "SUSPEND" /\ m.stage = "TRANS" /\ Report(m.tid, "SUSPEND")
             \/ /\ m.stage = "SUBMIT_RESULT" /\ res = "SUCCESS" /\ m.res = "REQ"
                /\ transstate' = [transstate EXCEPT ![m.tid] = "FINISH"]
    BY <1>5, AtTheEngine
  <2> DEFINE m2 == [m EXCEPT !.res = res]
  <2>2. /\ m.tid \in TextID /\ m.res \in {"REQ", "PENDING", "SUSPEND"} /\ m \in Message
        /\ work[m.tid] = WorkOf(m)
    BY <1>5, AtTheEngine, UnderWay, Works
  <2>3. m2.tid = m.tid /\ m2.stage = m.stage /\ m2.res = res
    BY <2>2 DEF Message
  <2>4. Move(m, m2) /\ UNCHANGED m_tid_cid_map
    BY <2>1 DEF Answer
  <2>5. /\ work[m.tid] \in {"WORKING", "SUSPENDED"}
        /\ m.res = "REQ" => work[m.tid] = "WORKING"
    BY <2>2 DEF WorkOf, Stored
  <2>6. work \in [TextID -> {"OUT", "WORKING", "SUSPENDED", "STORED"}]
    BY DEF work
  <2> HIDE DEF m2
  <2>7. work' = [work EXCEPT ![m.tid] = WorkOf(m2)]
    BY <2>3, <2>4, WorkMoved
  <2>8. CASE /\ m.stage = "SUBMIT_RESULT" /\ res = "SUCCESS" /\ m.res = "REQ"
             /\ transstate' = [transstate EXCEPT ![m.tid] = "FINISH"]
    <3>1. WorkOf(m2) = "STORED"
      BY <2>3, <2>8 DEF WorkOf, Stored
    <3>2. Service!Store(m.tid)
      BY <2>5, <2>7, <2>8, <3>1 DEF Service!Store
    <3> QED BY <2>2, <3>2 DEF Service!OSNext
  <2>9. CASE res = "SUSPEND" /\ m.stage = "TRANS" /\ Report(m.tid, "SUSPEND")
    <3>1. WorkOf(m2) = "SUSPENDED"
      BY <2>3, <2>9 DEF WorkOf, Stored
    <3>2. Service!Suspend(m.tid)
      BY <2>5, <2>7, <2>9, <3>1 DEF Service!Suspend, Service!Row, Report
    <3> QED BY <2>2, <3>2 DEF Service!OSNext
  <2>10. CASE /\ ~(m.stage = "SUBMIT_RESULT" /\ res = "SUCCESS") /\ res # "SUSPEND"
              /\ transstate' = transstate \/ \E s \in {"RUNNING", "CANCEL"} : Report(m.tid, s)
    <3>1. WorkOf(m2) = "WORKING"
      BY <2>3, <2>10 DEF WorkOf, Stored
    <3>2. \E s \in {"RUNNING", "CANCEL"} : Service!Row(m.tid, s)
      BY <2>10 DEF Report, Service!Row
    <3>3. Service!Report(m.tid)
      BY <2>5, <2>7, <3>1, <3>2 DEF Service!Report
    <3> QED BY <2>2, <3>3 DEF Service!OSNext
  <2> QED BY <2>1, <2>8, <2>9, <2>10
<1> QED BY <1>1, <1>2, <1>3, <1>4, <1>5 DEF Next, Service!OSNext

\* The pipeline implements OltService: each text that is taken in ends once, well only
\* when its result is stored, its row is written only while it is in work, and SUSPEND
\* only as the text is set aside.
THEOREM Implements == Resubmits = FALSE /\ Spec => ImplementsOltService
<1>1. IInv /\ [Next]_vars => [Service!OSNext]_<<work, transstate>>
  BY ServiceStep
<1> QED BY <1>1, Invariance, ServiceStart, PTL DEF Spec, ImplementsOltService, Service!OSSpec
=============================================================================
