-------------------------- MODULE AfterTreatManager --------------------------
(* The after-treatment dictionaries: GeneralOperation's workers change them *)
(* in memory and in the database under the write lock, PostProcessor's      *)
(* workers replace words of finished translations under the read lock, and  *)
(* a restart loads them again. One user, SYSMANAGER, whose dictionaries are *)
(* the only ones Replace looks at. Names, descriptions and the active flags *)
(* of dictionaries and words are left out.                                  *)
EXTENDS RWLock, Sequences, FiniteSetsExt, Functions

CONSTANTS
  Pool, Post,     \* the threads of GeneralOperation and of PostProcessor
  Domain,         \* the domains of dictionaries; a text is looked up in some
  Nowhere,        \* the groups of the user without a name, which nobody looks at
  Pair, Empty,    \* [src_key, tgt]: the words there are, and the word with neither
  File,           \* sequences of pairs: the word files a client may upload
  Type,           \* the requests clients send
  FailsAt,        \* the requests whose statements the database may refuse
  GROUPNUM,       \* words per INSERT of a file
  Dicts, Words,   \* the rows of the database when the server is first started
  MaxDict, MaxWord, MaxRequests, MaxRestarts  \* bounds

ASSUME AfterAssumption ==
  /\ Pool \cap Post = {} /\ Thread = Pool \cup Post
  /\ Nowhere \notin Domain /\ GROUPNUM \in Nat \ {0}
  /\ File \subseteq Seq(Pair)

\* Dictionaries are numbered from 1, word ids are positive, and a word belongs to a dictionary.
ASSUME DatabaseAssumption ==
  /\ MaxDict \in Nat /\ Dicts \in Seq([domain : Domain, isdeleted : BOOLEAN])
  /\ Len(Dicts) <= MaxDict
  /\ IsFiniteSet(DOMAIN Words) /\ DOMAIN Words \subseteq Nat \ {0}
  /\ \A i \in DOMAIN Words :
       Words[i] \in [dict : DOMAIN Dicts, word : Pair, isdeleted : BOOLEAN]

VARIABLES
  m_dict_info_map,   \* [dict -> the domain it is filed under]
  m_dict_map,        \* [domain -> [dict -> AfterDictionary]], of the one user
  m_global_wordid,
  afterdictinfo,     \* the rows of the database: [dict -> [domain, isdeleted]]
  afterdictiteminfo, \* [word id -> [dict, word, isdeleted]]
  op,                \* what each worker of the pool is doing
  served, restarts,  \* counts for the bounds
  left_behind,       \* history: rows the database keeps and memory refused
  amiss              \* history: the dictionaries that since the last start a failed
                     \* statement, or a request with an id of something else, concerned

memory == <<m_dict_info_map, m_dict_map, m_global_wordid>>
database == <<afterdictinfo, afterdictiteminfo, left_behind, amiss>>
vars == <<memory, database, op, served, restarts, lockvars>>

NoId == 0
DictID == 1..MaxDict
WordID == 1..MaxWord
Places == Domain \cup {Nowhere}
Idle == [type |-> "None"]

-----------------------------------------------------------------------------
(* One dictionary: m_word_map holds the words by key, each with its id, and *)
(* m_wordid_map names a word of m_word_map by its id.                       *)
NewDictionary == [m_word_map |-> {}, m_wordid_map |-> <<>>]

\* Entries of a std::map: insert keeps the ones there are.
Entry(x, v) == [y \in {x} |-> v]
Inserted(f, h) == [x \in DOMAIN f \cup DOMAIN h |-> IF x \in DOMAIN f THEN f[x] ELSE h[x]]
Drop(f, x) == Restrict(f, DOMAIN f \ {x})
Mounted(dict) == {w.word : w \in dict.m_word_map}

\* Adds words, [id, word] each, whose pairs the dictionary does not have.
mount_words(dict, ws) ==
  [m_word_map |-> dict.m_word_map \cup ws,
   m_wordid_map |-> Inserted(dict.m_wordid_map,
                      [i \in {w.id : w \in ws} |-> (CHOOSE w \in ws : w.id = i).word])]

\* Of rows with the same pair the first is mounted and the others are refused.
FirstRows(rows) ==
  {i \in rows : \A k \in rows :
     afterdictiteminfo[k].word = afterdictiteminfo[i].word => i <= k}
AsWords(rows) == {[id |-> i, word |-> afterdictiteminfo[i].word] : i \in rows}
RowsOf(d) == {i \in DOMAIN afterdictiteminfo : afterdictiteminfo[i].dict = d}
LiveRows(d) == {i \in RowsOf(d) : ~afterdictiteminfo[i].isdeleted}
LiveDicts == {d \in DOMAIN afterdictinfo : ~afterdictinfo[d].isdeleted}

NotMounted == UNION {LiveRows(d) \ FirstRows(LiveRows(d)) : d \in LiveDicts}

\* What Initialize makes of the database when it cannot read the words of some dictionaries.
Loaded(unread) ==
  [m_dict_info_map |-> [d \in LiveDicts |-> afterdictinfo[d].domain],
   m_dict_map |-> [x \in Places |->
     [d \in {d \in LiveDicts : afterdictinfo[d].domain = x} |->
       IF d \in unread THEN NewDictionary
       ELSE mount_words(NewDictionary, AsWords(FirstRows(LiveRows(d))))]],
   m_global_wordid |-> Max({0} \cup UNION {LiveRows(d) : d \in LiveDicts \ unread})]

\* Where the maps lead for a dictionary id, and whether they lead to one.
Known(d) == d \in DOMAIN m_dict_info_map
Domain_of(d) == m_dict_info_map[d]
Found(d) == Known(d) /\ d \in DOMAIN m_dict_map[Domain_of(d)]
The(d) == m_dict_map[Domain_of(d)][d]
Becomes(d, dict) == m_dict_map' = [m_dict_map EXCEPT ![Domain_of(d)][d] = dict]

Init ==
  /\ LockInit
  /\ afterdictinfo = Dicts /\ afterdictiteminfo = Words
  /\ left_behind = NotMounted /\ amiss = {}
  /\ m_dict_info_map = Loaded({}).m_dict_info_map
  /\ m_dict_map = Loaded({}).m_dict_map
  /\ m_global_wordid = Loaded({}).m_global_wordid
  /\ op = [g \in Pool |-> Idle]
  /\ served = 0 /\ restarts = 0

-----------------------------------------------------------------------------
(* GeneralOperation: a worker takes a request, waits for the write lock,    *)
(* works, unlocks and answers.                                              *)
\* Which request it is shows when the handler looks at it.
Take(g) ==
  /\ op[g] = Idle /\ served < MaxRequests
  /\ op' = [op EXCEPT ![g] = [type |-> "Begin"]]
  /\ WriteLock(g)
  /\ served' = served + 1
  /\ UNCHANGED <<memory, database, restarts>>

Works(g, type) == at[g] = "writing" /\ op[g].type = "Begin" /\ type \in Type
Working(g, type) == Works(g, type) /\ UNCHANGED <<served, restarts, lockvars>>

Ends(g) == op' = [op EXCEPT ![g] = [type |-> "Done"]]

\* An id that was never assigned is any.
CreateDict(g, x) ==
  LET d == Cardinality(DOMAIN afterdictinfo) + 1
  IN /\ Working(g, "CreateDict")
     /\ Ends(g)
     /\ UNCHANGED <<m_global_wordid, afterdictiteminfo>>
     /\ \/ /\ d \in DictID
           /\ afterdictinfo' = Inserted(afterdictinfo, Entry(d, [domain |-> x, isdeleted |-> FALSE]))
           /\ m_dict_map' = [m_dict_map EXCEPT ![x] = Inserted(@, Entry(d, NewDictionary))]
           /\ m_dict_info_map' = Inserted(m_dict_info_map, Entry(d, x))
           /\ left_behind' = left_behind \cup LiveRows(d)
           /\ UNCHANGED amiss
        \/ /\ "CreateDict" \in FailsAt
           /\ \E any \in DictID :
                /\ m_dict_info_map' = Inserted(m_dict_info_map, Entry(any, x))
                /\ amiss' = amiss \cup ({any} \ DOMAIN m_dict_info_map)
           /\ UNCHANGED <<m_dict_map, afterdictinfo, left_behind>>

\* The dictionary moves to its new domain before the statement, and
\* m_dict_info_map follows only when the statement succeeds.
ModifyDict(g, d, x) ==
  LET moves == Found(d) /\ Domain_of(d) \notin {x, Nowhere} /\ d \notin DOMAIN m_dict_map[x]
  IN /\ Working(g, "ModifyDict")
     /\ Ends(g)
     /\ UNCHANGED <<m_global_wordid, afterdictiteminfo, left_behind>>
     /\ \/ /\ moves
           /\ m_dict_map' = [m_dict_map EXCEPT ![Domain_of(d)] = Drop(@, d),
                                               ![x] = Inserted(@, Entry(d, The(d)))]
           /\ \/ /\ m_dict_info_map' = [m_dict_info_map EXCEPT ![d] = x]
                 /\ afterdictinfo' = [afterdictinfo EXCEPT ![d].domain = x]
                 /\ UNCHANGED amiss
              \/ /\ "ModifyDict" \in FailsAt
                 /\ amiss' = amiss \cup {d}
                 /\ UNCHANGED <<m_dict_info_map, afterdictinfo>>
        \/ /\ Found(d) /\ Domain_of(d) \in {x, Nowhere}
           /\ afterdictinfo' = [afterdictinfo EXCEPT ![d].domain = x]
           /\ UNCHANGED <<m_dict_info_map, m_dict_map, amiss>>
        \/ /\ ~moves
           /\ UNCHANGED <<m_dict_info_map, m_dict_map, afterdictinfo, amiss>>

\* The first n of the two statements that mark a dictionary and its words.
MarkDict(d, n, mark) ==
  /\ afterdictinfo' = IF n = 0 THEN afterdictinfo
                      ELSE [afterdictinfo EXCEPT ![d].isdeleted = mark]
  /\ afterdictiteminfo' = IF n < 2 THEN afterdictiteminfo
                          ELSE [i \in DOMAIN afterdictiteminfo |->
                                  IF i \in RowsOf(d)
                                  THEN [afterdictiteminfo[i] EXCEPT !.isdeleted = mark]
                                  ELSE afterdictiteminfo[i]]

Executed(type) == IF type \in FailsAt THEN 0..2 ELSE {2}
Struck(d, n) == IF n < 2 THEN {d} ELSE {}

\* Mutant: m_dict_info_map keeps the dictionary.
DeleteDictOnly(g, d) ==
  /\ Working(g, "DeleteDict")
  /\ Ends(g)
  /\ UNCHANGED <<m_global_wordid, m_dict_info_map, left_behind, amiss>>
  /\ IF Found(d)
     THEN /\ m_dict_map' = [m_dict_map EXCEPT ![Domain_of(d)] = Drop(@, d)]
          /\ MarkDict(d, 2, TRUE)
     ELSE UNCHANGED <<m_dict_map, afterdictinfo, afterdictiteminfo>>

\* A failing statement is ignored, and so is a dictionary that is not found.
DeleteDict(g, d) ==
  /\ Working(g, "DeleteDict")
  /\ Ends(g)
  /\ UNCHANGED <<m_global_wordid, left_behind>>
  /\ \/ /\ Known(d)
        /\ m_dict_info_map' = Drop(m_dict_info_map, d)
        /\ m_dict_map' = [m_dict_map EXCEPT ![Domain_of(d)] = Drop(@, d)]
        /\ \/ /\ Found(d)
              /\ \E n \in Executed("DeleteDict") :
                   MarkDict(d, n, TRUE) /\ amiss' = amiss \cup Struck(d, n)
           \/ ~Found(d) /\ UNCHANGED <<afterdictinfo, afterdictiteminfo, amiss>>
     \/ /\ ~Known(d)
        /\ UNCHANGED <<m_dict_info_map, m_dict_map, afterdictinfo, afterdictiteminfo, amiss>>

\* The words of the file get ids where their pair is new; all of them are in
\* memory, without an id, before the first statement.
InsertWords(g, type, d, file) ==
  LET filter == [i \in DOMAIN file |->
                   /\ file[i] \notin Mounted(The(d))
                   /\ \A k \in 1..(i - 1) : file[k] # file[i]]
      fresh == {i \in DOMAIN file : filter[i]}
      id == [i \in DOMAIN file |->
               IF filter[i] THEN m_global_wordid + Cardinality(fresh \cap 1..i) ELSE NoId]
  IN /\ Working(g, type)
     /\ UNCHANGED <<m_dict_info_map, database>>
     /\ \/ /\ Found(d) /\ (type = "InsertWord" => fresh # {})
           /\ m_global_wordid' = m_global_wordid + Cardinality(fresh)
           /\ Becomes(d, [The(d) EXCEPT !.m_word_map =
                @ \cup {[id |-> NoId, word |-> file[i]] : i \in fresh}])
           /\ op' = [op EXCEPT ![g] = [type |-> "Statement", request |-> type,
                                        dict |-> d, file |-> file, id |-> id]]
        \/ /\ ~(Found(d) /\ (type = "InsertWord" => fresh # {}))
           /\ Ends(g)
           /\ UNCHANGED <<m_dict_map, m_global_wordid>>

InsertWord(g, d, word) == InsertWords(g, "InsertWord", d, <<word>>)
LoadWordFile(g, d, file) == InsertWords(g, "LoadWordFile", d, file)

\* The INSERT of each group of GROUPNUM words. The text of a statement ends in a
\* comma, or in nothing, when the last word of its group is one to leave out.
Groups(file) == (Len(file) + GROUPNUM - 1) \div GROUPNUM
Group(file, b) == {i \in DOMAIN file : (i - 1) \div GROUPNUM = b - 1}
Executes(file, id, b) ==
  /\ id[Max(Group(file, b))] # NoId
  /\ \A i \in Group(file, b) : id[i] \notin DOMAIN afterdictiteminfo

\* The rows worker g has written after n statements.
Written(g, n) ==
  {i \in DOMAIN op[g].file : op[g].id[i] # NoId /\ (i - 1) \div GROUPNUM < n}
NewRows(g, n) ==
  [k \in {op[g].id[i] : i \in Written(g, n)} |->
     [dict |-> op[g].dict, isdeleted |-> FALSE,
      word |-> op[g].file[CHOOSE i \in Written(g, n) : op[g].id[i] = k]]]
AtStatement(g) == at[g] = "writing" /\ op[g].type = "Statement"

\* Mutant: the words of the statements that succeeded stay in memory, and so do
\* those of the one that failed.
KeepRefused(g) ==
  LET last == Groups(op[g].file)
      new == {[id |-> op[g].id[i], word |-> op[g].file[i]] : i \in Written(g, last)}
      known == [The(op[g].dict) EXCEPT !.m_word_map = {w \in @ : w.id # NoId}]
  IN /\ AtStatement(g)
     /\ \E n \in 0..last :
          /\ \A b \in 1..n : Executes(op[g].file, op[g].id, b)
          /\ n < last => ~Executes(op[g].file, op[g].id, n + 1) \/ op[g].request \in FailsAt
          /\ afterdictiteminfo' = Inserted(afterdictiteminfo, NewRows(g, n))
     /\ Becomes(op[g].dict, mount_words(known, new))
     /\ Ends(g)
     /\ UNCHANGED <<m_dict_info_map, m_global_wordid, afterdictinfo, left_behind, amiss,
                    served, restarts, lockvars>>

\* All words are kept when every statement succeeds; otherwise memory forgets
\* them all, and the database keeps those of the statements before the failure.
InsertStatements(g) ==
  LET d == op[g].dict
      file == op[g].file
      last == Groups(file)
      known == [The(d) EXCEPT !.m_word_map = {w \in @ : w.id # NoId}]
      new == {[id |-> op[g].id[i], word |-> file[i]] : i \in Written(g, last)}
  IN /\ AtStatement(g)
     /\ \E n \in 0..last :
          /\ \A b \in 1..n : Executes(file, op[g].id, b)
          /\ n < last => ~Executes(file, op[g].id, n + 1) \/ op[g].request \in FailsAt
          /\ afterdictiteminfo' = Inserted(afterdictiteminfo, NewRows(g, n))
          /\ Becomes(d, IF n < last THEN known ELSE mount_words(known, new))
          /\ left_behind' = left_behind \cup (IF n < last THEN DOMAIN NewRows(g, n) ELSE {})
     /\ Ends(g)
     /\ UNCHANGED <<m_dict_info_map, m_global_wordid, afterdictinfo, amiss,
                    served, restarts, lockvars>>

HasId(d, i) == Found(d) /\ i \in DOMAIN The(d).m_wordid_map

\* A word recovered after its statement failed has its id twice in m_word_map.
WithId(d, i) == {w \in The(d).m_word_map : w.id = i}

\* The other dictionary that a statement about row i concerns when d is the one named.
Others(d, i) == {afterdictiteminfo[k].dict : k \in {i} \cap DOMAIN afterdictiteminfo} \ {d}

\* The same pair twice in one dictionary is refused.
ModifyWord(g, d, i, word) ==
  /\ Working(g, "ModifyWord")
  /\ Ends(g)
  /\ UNCHANGED <<m_dict_info_map, m_global_wordid, afterdictinfo, left_behind>>
  /\ \/ /\ HasId(d, i) /\ word \notin Mounted(The(d))
        /\ \E old \in WithId(d, i) :
             Becomes(d, [m_word_map |-> (The(d).m_word_map \ {old}) \cup {[id |-> i, word |-> word]},
                         m_wordid_map |-> [The(d).m_wordid_map EXCEPT ![i] = word]])
        /\ \/ /\ afterdictiteminfo' = [afterdictiteminfo EXCEPT ![i].word = word]
              /\ amiss' = amiss \cup Others(d, i)
           \/ /\ "ModifyWord" \in FailsAt
              /\ amiss' = amiss \cup {d}
              /\ UNCHANGED afterdictiteminfo
     \/ /\ ~(HasId(d, i) /\ word \notin Mounted(The(d)))
        /\ UNCHANGED <<m_dict_map, afterdictiteminfo, amiss>>

\* Mutant: the word leaves memory and stays in the database.
DeleteMounted(g, d, i) ==
  /\ Working(g, "DeleteWord")
  /\ Ends(g)
  /\ UNCHANGED <<m_dict_info_map, m_global_wordid, database>>
  /\ HasId(d, i)
  /\ Becomes(d, [m_word_map |-> The(d).m_word_map \ WithId(d, i),
                 m_wordid_map |-> Drop(The(d).m_wordid_map, i)])

\* The result of the statement is ignored.
DeleteWord(g, d, i) ==
  /\ Working(g, "DeleteWord")
  /\ Ends(g)
  /\ UNCHANGED <<m_dict_info_map, m_global_wordid, afterdictinfo, left_behind>>
  /\ \/ /\ HasId(d, i)
        /\ \E gone \in (SUBSET WithId(d, i)) \ {{}} :
             Becomes(d, [m_word_map |-> The(d).m_word_map \ gone,
                         m_wordid_map |-> Drop(The(d).m_wordid_map, i)])
        /\ \/ /\ afterdictiteminfo' = [afterdictiteminfo EXCEPT ![i].isdeleted = TRUE]
              /\ amiss' = amiss \cup Others(d, i)
           \/ /\ "DeleteWord" \in FailsAt
              /\ amiss' = amiss \cup {d}
              /\ UNCHANGED afterdictiteminfo
     \/ /\ ~HasId(d, i)
        /\ UNCHANGED <<m_dict_map, afterdictiteminfo, amiss>>

\* The word that is read back: of whatever dictionary, and an empty one with any id
\* when there is no such row.
Undeleted(i) ==
  IF i \in DOMAIN afterdictiteminfo THEN {[id |-> i, word |-> afterdictiteminfo[i].word]}
  ELSE [id : WordID, word : {Empty}]

\* Neither statement's result is looked at, and the row is recovered before memory
\* refuses a pair it has.
RecoverWord(g, d, i) ==
  /\ Working(g, "RecoverWord")
  /\ Ends(g)
  /\ UNCHANGED <<m_dict_info_map, m_global_wordid, afterdictinfo>>
  /\ \/ /\ Found(d)
        /\ \E updated, read \in IF "RecoverWord" \in FailsAt THEN BOOLEAN ELSE {TRUE} :
             \E w \in IF read THEN Undeleted(i) ELSE [id : WordID, word : {Empty}] :
               LET new == IF w.word \in Mounted(The(d)) THEN The(d) ELSE mount_words(The(d), {w})
               IN /\ afterdictiteminfo' = IF updated
                       THEN [afterdictiteminfo EXCEPT ![i].isdeleted = FALSE]
                       ELSE afterdictiteminfo
                  /\ Becomes(d, new)
                  /\ left_behind' = left_behind \cup (({i} \cap RowsOf(d)) \ DOMAIN new.m_wordid_map)
                  /\ amiss' = amiss \cup (IF updated THEN Others(d, i) ELSE {}) \cup
                       (IF updated /\ read /\ i \in RowsOf(d) THEN {} ELSE {d})
     \/ /\ ~Found(d)
        /\ UNCHANGED <<m_dict_map, afterdictiteminfo, left_behind, amiss>>

\* Adds those of a dictionary's rows whose pair memory does not have.
WithRows(dict, d) ==
  mount_words(dict, AsWords({i \in FirstRows(RowsOf(d)) : afterdictiteminfo[i].word \notin Mounted(dict)}))

\* What was read back of the row of dictionary d is entered; without a row, any id and
\* no domain, which are then looked for.
Reenter(d, n, read, info) ==
  LET x == info.domain_info
      recovered == Inserted(m_dict_map[x], Entry(info.dict_id, NewDictionary))
      mounts == read /\ (Known(d) \/ info.dict_id = d) /\ d \in DOMAIN recovered
      group == IF mounts THEN [recovered EXCEPT ![d] = WithRows(@, d)] ELSE recovered
  IN /\ m_dict_info_map' = Inserted(m_dict_info_map, Entry(info.dict_id, x))
     /\ m_dict_map' = [m_dict_map EXCEPT ![x] = group]
     /\ left_behind' = left_behind \cup
          (RowsOf(d) \ IF d \in DOMAIN group THEN DOMAIN group[d].m_wordid_map ELSE {})
     /\ amiss' = amiss \cup ({info.dict_id} \ (DOMAIN m_dict_info_map \cup {d})) \cup
          (IF n = 2 /\ read /\ x # Nowhere THEN {} ELSE {d})

\* All words of the dictionary come back, the ones deleted one by one included; a
\* dictionary that was not deleted is filled up.
RecoverDict(g, d) ==
  /\ Working(g, "RecoverDict")
  /\ Ends(g)
  /\ UNCHANGED m_global_wordid
  /\ \E n \in Executed("RecoverDict") :
     \E found, read \in IF "RecoverDict" \in FailsAt THEN BOOLEAN ELSE {TRUE} :
     \E info \in IF found /\ d \in DOMAIN afterdictinfo
                THEN {[dict_id |-> d, domain_info |-> afterdictinfo[d].domain]}
                ELSE [dict_id : DictID, domain_info : {Nowhere}] :
       MarkDict(d, n, FALSE) /\ Reenter(d, n, read, info)

\* The guard unlocks and the answer is posted.
Answer(g) ==
  /\ op[g].type = "Done"
  /\ WriteUnlock(g)
  /\ op' = [op EXCEPT ![g] = Idle]
  /\ UNCHANGED <<memory, database, served, restarts>>

\* Replace: a PostProcessor looks words up between the two.
BeginReplace(p) == ReadLock(p) /\ UNCHANGED <<memory, database, op, served, restarts>>
EndReplace(p) == ReadUnlock(p) /\ UNCHANGED <<memory, database, op, served, restarts>>

\* The loops of the lock after a wait.
Retest(t) ==
  /\ ReadRetest(t) \/ WriteRetest(t)
  /\ UNCHANGED <<memory, database, op, served, restarts>>

WakeUp(t) == SpuriousWakeup(t) /\ UNCHANGED <<memory, database, op, served, restarts>>

\* The server stops at any point, between two statements of a request as well,
\* and starts again: Initialize.
Interrupted ==
  \/ UNCHANGED <<afterdictinfo, afterdictiteminfo>>
  \/ \E g \in Pool : \E d \in DictID :
       \/ Works(g, "DeleteDict") /\ Found(d) /\ MarkDict(d, 1, TRUE)
       \/ Works(g, "RecoverDict") /\ MarkDict(d, 1, FALSE)
       \/ /\ Works(g, "RecoverWord") /\ Found(d)
          /\ \E i \in WordID : afterdictiteminfo' = [afterdictiteminfo EXCEPT ![i].isdeleted = FALSE]
          /\ UNCHANGED afterdictinfo
  \/ \E g \in Pool :
       /\ AtStatement(g)
       /\ \E n \in 1..Groups(op[g].file) :
            /\ \A b \in 1..n : Executes(op[g].file, op[g].id, b)
            /\ afterdictiteminfo' = Inserted(afterdictiteminfo, NewRows(g, n))
       /\ UNCHANGED afterdictinfo

Restart ==
  /\ restarts < MaxRestarts
  /\ restarts' = restarts + 1
  /\ Interrupted
  /\ \E unread \in IF "Initialize" \in FailsAt THEN SUBSET LiveDicts' ELSE {{}} :
       /\ m_dict_info_map' = Loaded(unread)'.m_dict_info_map
       /\ m_dict_map' = Loaded(unread)'.m_dict_map
       /\ m_global_wordid' = Loaded(unread)'.m_global_wordid
       /\ amiss' = unread
  /\ left_behind' = left_behind \cup NotMounted'
  /\ op' = [g \in Pool |-> Idle]
  /\ m_hold_flag' = 0 /\ m_read_wait_cnt' = 0 /\ m_write_wait_cnt' = 0
  /\ at' = [t \in Thread |-> "out"]
  /\ UNCHANGED served

Handle(g) ==
  \/ \E x \in Domain : CreateDict(g, x)
  \/ InsertStatements(g)
  \/ \E d \in DictID :
       \/ DeleteDict(g, d) \/ RecoverDict(g, d)
       \/ \E x \in Domain : ModifyDict(g, d, x)
       \/ \E word \in Pair : InsertWord(g, d, word)
       \/ \E file \in File : LoadWordFile(g, d, file)
       \/ \E i \in WordID :
            \/ DeleteWord(g, d, i) \/ RecoverWord(g, d, i)
            \/ \E word \in Pair : ModifyWord(g, d, i, word)

Next ==
  \/ \E g \in Pool : Take(g) \/ Handle(g) \/ Answer(g)
  \/ \E p \in Post : BeginReplace(p) \/ EndReplace(p)
  \/ \E t \in Thread : Retest(t) \/ WakeUp(t)
  \/ Restart

\* Every thread that can go on does; clients and texts need not come.
Fairness ==
  /\ \A g \in Pool : WF_vars(Handle(g) \/ Answer(g))
  /\ \A p \in Post : WF_vars(EndReplace(p))
  /\ \A t \in Thread : WF_vars(Retest(t))

Spec == Init /\ [][Next]_vars /\ Fairness

-----------------------------------------------------------------------------
TypeOK ==
  /\ LockTypeOK
  /\ DOMAIN m_dict_info_map \subseteq DictID /\ Range(m_dict_info_map) \subseteq Places
  /\ DOMAIN m_dict_map = Places /\ \A x \in Places : DOMAIN m_dict_map[x] \subseteq DictID
  /\ m_global_wordid \in Nat
  /\ \A d \in DOMAIN afterdictinfo : afterdictinfo[d] \in [domain : Domain, isdeleted : BOOLEAN]
  /\ \A i \in DOMAIN afterdictiteminfo :
       afterdictiteminfo[i] \in [dict : DictID, word : Pair, isdeleted : BOOLEAN]
  /\ amiss \subseteq DictID

NoWriter == Threads({"writing"}) = {}

\* The four maps name the same dictionaries and words: a dictionary sits in the one
\* group m_dict_info_map names, m_wordid_map and m_word_map have the same words, and
\* no dictionary has a pair or an id twice. A failed statement spoils this only for the
\* dictionary it is about, and a request with an id of something else only for those two.
MapsAgree ==
  NoWriter => \A d \in DictID \ amiss :
    /\ \A x \in Domain : d \in DOMAIN m_dict_map[x] <=> Known(d) /\ Domain_of(d) = x
    /\ Known(d) =>
         /\ Domain_of(d) \in Domain
         /\ The(d).m_word_map = {[id |-> i, word |-> The(d).m_wordid_map[i]] :
                                   i \in DOMAIN The(d).m_wordid_map}
         /\ Cardinality(Mounted(The(d))) = Cardinality(The(d).m_word_map)

\* No text is changed by a word the database does not hold: not by one whose INSERT is
\* still under way or was refused, and not by a deleted one or one of another dictionary.
\* Again only the dictionaries amiss may have such words.
UsedIsStored ==
  (\E p \in Post : at[p] = "reading") =>
    \A x \in Domain : \A d \in DOMAIN m_dict_map[x] \ amiss :
      /\ d \in LiveDicts /\ afterdictinfo[d].domain = x
      /\ \A w \in m_dict_map[x][d].m_word_map :
           w.id \in LiveRows(d) /\ afterdictiteminfo[w.id].word = w.word

\* A restart brings back nothing that was not in use, except rows that a refused file or
\* a refused recovery left behind, or words of the dictionaries amiss.
StoredIsUsed ==
  NoWriter => \A d \in DictID \ amiss :
    /\ d \in LiveDicts <=> Known(d)
    /\ Known(d) => LiveRows(d) \ DOMAIN The(d).m_wordid_map \subseteq left_behind

\* "All must succeed to count as success" (AfterDictionary.cc): the database keeps
\* no word of a file that was refused.
AWholeFileOrNothing == left_behind = {}

\* Whoever asks for the lock, to serve a request or to finish a text, gets it, works
\* and leaves, unless the server is restarted.
EverybodyGetsThrough == \A t \in Thread : at[t] # "out" ~> at[t] = "out"
=============================================================================
