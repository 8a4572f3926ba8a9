----------------------- MODULE AfterTreatManager_proofs -----------------------
(* First what holds of RWLock by itself: every step of AfterTreatManager is  *)
(* a step of the lock, leaves the lock alone, or is a restart, which begins  *)
(* with a new lock. Then the dictionaries: AfterTyped is what holds of all   *)
(* of them, and AfterInv relates the four maps of memory, the rows of the    *)
(* database and the requests between their two steps for every dictionary    *)
(* that is not amiss. A handler keeps it because it changes nothing of the   *)
(* other dictionaries and leaves its own well or counts it as amiss, the     *)
(* lock keeping the others out; a restart establishes it from the rows.      *)
EXTENDS AfterTreatManager, RWLock_proofs, WellFoundedInduction, NaturalsInduction

LEMMA HandleKeepsLock ==
  ASSUME NEW g \in Pool, Handle(g)
  PROVE  UNCHANGED lockvars
<1>1. ASSUME NEW x \in Domain, CreateDict(g, x)
      PROVE  UNCHANGED lockvars
  BY <1>1 DEF CreateDict, Working
<1>2. CASE InsertStatements(g)
  BY <1>2 DEF InsertStatements
<1>3. ASSUME NEW d \in DictID,
             \/ DeleteDict(g, d) \/ RecoverDict(g, d)
             \/ \E x \in Domain : ModifyDict(g, d, x)
      PROVE  UNCHANGED lockvars
  BY <1>3 DEF DeleteDict, RecoverDict, ModifyDict, Working
<1>4. ASSUME NEW d \in DictID,
             \/ \E word \in Pair : InsertWord(g, d, word)
             \/ \E file \in File : LoadWordFile(g, d, file)
      PROVE  UNCHANGED lockvars
  BY <1>4 DEF InsertWord, LoadWordFile, InsertWords, Working
<1>5. ASSUME NEW d \in DictID, NEW i \in WordID,
             \/ DeleteWord(g, d, i) \/ RecoverWord(g, d, i)
             \/ \E word \in Pair : ModifyWord(g, d, i, word)
      PROVE  UNCHANGED lockvars
  BY <1>5 DEF DeleteWord, RecoverWord, ModifyWord, Working
<1> QED BY <1>1, <1>2, <1>3, <1>4, <1>5 DEF Handle

LEMMA StepsOfTheLock == [Next]_vars => [LockNext]_lockvars \/ LockInit'
<1> SUFFICES ASSUME [Next]_vars
             PROVE  [LockNext]_lockvars \/ LockInit'
  OBVIOUS
<1>0. Pool \subseteq Thread /\ Post \subseteq Thread
  BY AfterAssumption DEF AfterAssumption
<1>1. ASSUME NEW g \in Pool, Take(g) \/ Answer(g)
      PROVE  LockNext
  BY <1>0, <1>1 DEF Take, Answer, LockNext
<1>2. ASSUME NEW g \in Pool, Handle(g)
      PROVE  UNCHANGED lockvars
  BY <1>2, HandleKeepsLock
<1>3. ASSUME NEW p \in Post, BeginReplace(p) \/ EndReplace(p)
      PROVE  LockNext
  BY <1>0, <1>3 DEF BeginReplace, EndReplace, LockNext
<1>4. ASSUME NEW t \in Thread, Retest(t) \/ WakeUp(t)
      PROVE  LockNext
  BY <1>4 DEF Retest, WakeUp, LockNext
<1>5. CASE Restart
  BY <1>5 DEF Restart, LockInit
<1>6. CASE UNCHANGED vars
  BY <1>6 DEF vars
<1> QED BY <1>1, <1>2, <1>3, <1>4, <1>5, <1>6 DEF Next

\* The lock's invariant holds around the dictionaries, restarts included.
THEOREM LockHolds == Spec => []LockInv
<1>1. Init => LockInit
  BY DEF Init
<1> QED BY <1>1, StepsOfTheLock, LockInitial, LockStep, PTL DEF Spec

\* No text is treated while a dictionary is changed, and no two requests change
\* dictionaries at once.
THEOREM ChangesAreExclusive == Spec => []Exclusion
<1>1. LockInv => Exclusion
  BY DEF LockInv
<1> QED BY <1>1, LockHolds, PTL

\* No request and no text sleeps beside a free lock with nobody on the way to it.
THEOREM NobodyIsForgotten == Spec => []NobodySleepsBesideAFreeLock
<1>1. LockInv => NobodySleepsBesideAFreeLock
  BY DEF LockInv
<1> QED BY <1>1, LockHolds, PTL

-----------------------------------------------------------------------------
(* What is so of every dictionary, row and request.                          *)

\* The rows: dictionaries are numbered from 1, and words name one.
DatabaseOK ==
  /\ DOMAIN afterdictinfo = 1..Cardinality(DOMAIN afterdictinfo)
  /\ Cardinality(DOMAIN afterdictinfo) \in 0..MaxDict
  /\ \A d \in DOMAIN afterdictinfo : afterdictinfo[d] \in [domain : Domain, isdeleted : BOOLEAN]
  /\ IsFiniteSet(DOMAIN afterdictiteminfo) /\ DOMAIN afterdictiteminfo \subseteq Nat \ {0}
  /\ \A i \in DOMAIN afterdictiteminfo :
       afterdictiteminfo[i] \in [dict : DictID, word : Pair, isdeleted : BOOLEAN]

MapsTyped ==
  /\ m_global_wordid \in Nat
  /\ DOMAIN m_dict_info_map \subseteq DictID
  /\ \A d \in DOMAIN m_dict_info_map : m_dict_info_map[d] \in Places
  /\ DOMAIN m_dict_map = Places
  /\ \A x \in Places : DOMAIN m_dict_map[x] \subseteq DictID
  /\ amiss \subseteq DictID

\* The words of its file that worker g will write, between its two steps.
New(g) == {i \in DOMAIN op[g].file : op[g].id[i] # NoId}
Writing(g) == op[g].type = "Statement"

OpTyped(g) ==
  Writing(g) =>
    /\ op[g].dict \in DictID /\ op[g].file \in Seq(Pair)
    /\ \A i \in New(g) : op[g].id[i] \in Nat

OpsTyped == DOMAIN op = Pool /\ \A g \in Pool : OpTyped(g)

AfterTyped == DatabaseOK /\ MapsTyped /\ OpsTyped

-----------------------------------------------------------------------------
(* What the four maps of a dictionary that is not amiss, the rows of the     *)
(* database and a request between its two steps have to do with each other.  *)

\* The words whose ids are known, as m_word_map has them, and ones without an id.
Entries(wordid_map) == {[id |-> i, word |-> wordid_map[i]] : i \in DOMAIN wordid_map}
NoIds(ws) == {[id |-> NoId, word |-> w] : w \in ws}

\* The two maps of a dictionary agree but for the words ws that have no id yet.
Agree(dict, ws) ==
  /\ dict = [m_word_map |-> dict.m_word_map, m_wordid_map |-> dict.m_wordid_map]
  /\ dict.m_word_map = Entries(dict.m_wordid_map) \cup NoIds(ws)
  /\ IsFiniteSet(DOMAIN dict.m_wordid_map)
  /\ NoId \notin DOMAIN dict.m_wordid_map
  /\ \A i, j \in DOMAIN dict.m_wordid_map : dict.m_wordid_map[i] = dict.m_wordid_map[j] => i = j

\* What dictionary d has in memory is in the database, and the other way round.
StoredAs(d, wordid_map) ==
  /\ \A i \in DOMAIN wordid_map : i \in LiveRows(d) /\ afterdictiteminfo[i].word = wordid_map[i]
  /\ LiveRows(d) \ DOMAIN wordid_map \subseteq left_behind

\* A dictionary is in memory when it is not deleted, in the group of its domain and
\* in no other, with the words of its rows and those, ws, that have no row yet.
Well(d, ws) ==
  /\ \A x \in Domain : d \in DOMAIN m_dict_map[x] <=> Known(d) /\ Domain_of(d) = x
  /\ Known(d) <=> d \in LiveDicts
  /\ Known(d) => /\ Domain_of(d) = afterdictinfo[d].domain
                 /\ Agree(The(d), ws) /\ StoredAs(d, The(d).m_wordid_map)
Settled(d) == Well(d, {})

\* The words of a request between its two steps have no row yet.
UnderWay(d) ==
  {w \in Pair : \E g \in Pool : Writing(g) /\ op[g].dict = d /\ \E i \in New(g) : op[g].file[i] = w}

\* The worker has the lock; its words are new and have different ids.
OpOK(g) ==
  Writing(g) =>
    /\ at[g] = "writing"
    /\ op[g].dict \notin amiss =>
         /\ Known(op[g].dict) /\ DOMAIN op[g].id = DOMAIN op[g].file
         /\ \A i, j \in New(g) : op[g].id[i] = op[g].id[j] \/ op[g].file[i] = op[g].file[j] => i = j
         /\ \A i \in New(g) : \A k \in DOMAIN The(op[g].dict).m_wordid_map :
              The(op[g].dict).m_wordid_map[k] # op[g].file[i]

AfterInv ==
  /\ \A d \in DictID \ amiss : Well(d, UnderWay(d))
  /\ \A g \in Pool : OpOK(g)

-----------------------------------------------------------------------------
(* Functions, sets of numbers, and the maps of one dictionary. *)

LEMMA Dropped ==
  ASSUME NEW f, NEW d
  PROVE  DOMAIN Drop(f, d) = DOMAIN f \ {d} /\ \A x \in DOMAIN f \ {d} : Drop(f, d)[x] = f[x]
BY DEF Drop, Restrict

LEMMA UpTo == ASSUME NEW n \in Nat PROVE IsFiniteSet(1..n) /\ Cardinality(1..n) = n
BY FS_Interval

LEMMA ElementOf == ASSUME NEW S, NEW l \in Seq(S), NEW i \in DOMAIN l PROVE l[i] \in S
OBVIOUS

\* A finite set of numbers has a greatest one.
LEMMA GreatestNumber ==
  ASSUME NEW S \in SUBSET Nat, IsFiniteSet(S), S # {}
  PROVE  \E m \in S : \A n \in S : m >= n
<1> DEFINE Greatest(R) == \E m \in R : \A n \in R : m >= n
           Bad == {R \in SUBSET Nat : IsFiniteSet(R) /\ R # {} /\ ~Greatest(R)}
           T == {Cardinality(R) : R \in Bad}
<1>1. SUFFICES ASSUME S \in Bad PROVE FALSE
  OBVIOUS
<1>2. T \subseteq Nat /\ T # {}
  BY <1>1, FS_CardinalityType
<1>3. PICK k \in T : \A j \in T : <<j, k>> \notin OpToRel(<, Nat)
  BY <1>2, WFMin, NatLessThanWellFounded, Zenon
<1>4. \A j \in T : ~(j < k)
  BY <1>2, <1>3 DEF OpToRel
<1>5. PICK R \in Bad : Cardinality(R) = k
  BY <1>3
<1>6. PICK r \in R : TRUE
  OBVIOUS
<1> DEFINE Q == R \ {r}
<1>7. IsFiniteSet(Q) /\ Cardinality(Q) = k - 1 /\ Q \subseteq Nat /\ k \in Nat /\ r \in Nat
  BY <1>2, <1>5, <1>6, FS_RemoveElement, FS_CardinalityType
<1>8. Q \notin Bad
  <2> SUFFICES ASSUME Q \in Bad PROVE FALSE
    OBVIOUS
  <2>1. k - 1 \in T
    BY <1>7, Zenon
  <2> HIDE DEF T
  <2>2. ~(k - 1 < k)
    BY <1>4, <2>1
  <2> QED BY <1>7, <2>2
<1>9. CASE Q = {}
  BY <1>6, <1>7, <1>9
<1>10. CASE Q # {}
  <2>1. PICK m \in Q : \A n \in Q : m >= n
    BY <1>7, <1>8, <1>10
  <2>2. \A n \in R : n = r \/ n \in Q
    OBVIOUS
  <2>3. m \in Nat /\ \A n \in Q : n \in Nat
    BY <1>7
  <2>4. CASE m >= r
    <3>1. \A n \in R : m >= n
      BY <2>1, <2>2, <2>4
    <3> QED BY <2>1, <3>1
  <2>5. CASE ~(m >= r)
    <3>1. \A n \in R : r >= n
      BY <1>7, <2>1, <2>2, <2>3, <2>5
    <3> QED BY <1>6, <3>1
  <2> QED BY <2>4, <2>5
<1> QED BY <1>9, <1>10

LEMMA GreatestIsNumber ==
  ASSUME NEW S \in SUBSET Nat, IsFiniteSet(S), S # {}
  PROVE  Max(S) \in Nat
<1>1. \E m \in S : \A n \in S : m >= n
  BY GreatestNumber
<1> QED BY <1>1 DEF Max

LEMMA InEntries ==
  ASSUME NEW f
  PROVE  /\ \A i \in DOMAIN f : \E w \in Entries(f) : w.id = i /\ w.word = f[i]
         /\ \A w \in Entries(f) : /\ w.id \in DOMAIN f /\ w.word = f[w.id]
                                  /\ w = [id |-> w.id, word |-> f[w.id]]
<1>1. ASSUME NEW i \in DOMAIN f PROVE \E w \in Entries(f) : w.id = i /\ w.word = f[i]
  <2>1. [id |-> i, word |-> f[i]] \in Entries(f)
    BY DEF Entries
  <2> QED BY <2>1
<1>2. ASSUME NEW w \in Entries(f)
      PROVE  w.id \in DOMAIN f /\ w.word = f[w.id] /\ w = [id |-> w.id, word |-> f[w.id]]
  <2>1. PICK i \in DOMAIN f : w = [id |-> i, word |-> f[i]]
    BY DEF Entries
  <2> QED BY <2>1
<1> QED BY <1>1, <1>2

\* Without words under way a dictionary has the words of m_wordid_map, each once.
LEMMA MountedWords ==
  ASSUME NEW dict, Agree(dict, {})
  PROVE  /\ dict.m_word_map = Entries(dict.m_wordid_map)
         /\ Mounted(dict) = {dict.m_wordid_map[i] : i \in DOMAIN dict.m_wordid_map}
         /\ Cardinality(Mounted(dict)) = Cardinality(dict.m_word_map)
<1> DEFINE f == dict.m_wordid_map
<1>1. dict.m_word_map = Entries(f)
  BY DEF Agree, NoIds
<1>2. \A i \in DOMAIN f : [id |-> i, word |-> f[i]].word = f[i] /\ [id |-> i, word |-> f[i]].id = i
  OBVIOUS
<1>3. Mounted(dict) = {f[i] : i \in DOMAIN f}
  BY <1>1, InEntries DEF Mounted
<1>4. IsFiniteSet(DOMAIN f) /\ \A i, j \in DOMAIN f : f[i] = f[j] => i = j
  BY DEF Agree
<1> DEFINE W == {f[i] : i \in DOMAIN f}
<1>5. Cardinality(W) = Cardinality(DOMAIN f)
  <2> DEFINE b == [i \in DOMAIN f |-> f[i]]
  <2>1. b \in Bijection(DOMAIN f, W)
    BY <1>4 DEF Bijection, Injection, Surjection, IsInjective
  <2>2. ExistsBijection(DOMAIN f, W)
    BY <2>1 DEF ExistsBijection
  <2> QED BY <1>4, <2>2, FS_Bijection
<1>6. Cardinality(Entries(f)) = Cardinality(DOMAIN f)
  <2> DEFINE b == [i \in DOMAIN f |-> [id |-> i, word |-> f[i]]]
  <2>1. \A i, j \in DOMAIN f : b[i] = b[j] => i = j
    BY <1>2
  <2>2. b \in Bijection(DOMAIN f, Entries(f))
    BY <2>1 DEF Bijection, Injection, Surjection, IsInjective, Entries
  <2>3. ExistsBijection(DOMAIN f, Entries(f))
    BY <2>2 DEF ExistsBijection
  <2> QED BY <1>4, <2>3, FS_Bijection
<1> QED BY <1>1, <1>3, <1>5, <1>6

\* mount_words with the words of f, which are all new and have new ids.
LEMMA Mounting ==
  ASSUME NEW dict, Agree(dict, {}), NEW f, IsFiniteSet(DOMAIN f), NoId \notin DOMAIN f,
         \A i, j \in DOMAIN f : f[i] = f[j] => i = j,
         DOMAIN f \cap DOMAIN dict.m_wordid_map = {},
         \A i \in DOMAIN f : \A j \in DOMAIN dict.m_wordid_map : f[i] # dict.m_wordid_map[j],
         NEW new, new = mount_words(dict, Entries(f))
  PROVE  /\ Agree(new, {})
         /\ DOMAIN new.m_wordid_map = DOMAIN dict.m_wordid_map \cup DOMAIN f
         /\ \A i \in DOMAIN dict.m_wordid_map : new.m_wordid_map[i] = dict.m_wordid_map[i]
         /\ \A i \in DOMAIN f : new.m_wordid_map[i] = f[i]
<1> DEFINE old == dict.m_wordid_map
           ids == {w.id : w \in Entries(f)}
           h == [i \in ids |-> (CHOOSE w \in Entries(f) : w.id = i).word]
<1>1. ids = DOMAIN f
  <2>1. ASSUME NEW i \in DOMAIN f PROVE i \in ids
    <3>1. PICK w \in Entries(f) : w.id = i
      BY InEntries
    <3> QED BY <3>1
  <2>2. \A k \in ids : k \in DOMAIN f
    BY InEntries
  <2> QED BY <2>1, <2>2
<1>2. \A i \in DOMAIN f : h[i] = f[i]
  <2> SUFFICES ASSUME NEW i \in DOMAIN f PROVE h[i] = f[i]
    OBVIOUS
  <2>1. \E w \in Entries(f) : w.id = i
    BY InEntries
  <2>2. \A w \in Entries(f) : w.id = i => w.word = f[i]
    BY InEntries
  <2> QED BY <1>1, <2>1, <2>2
<1>3. DOMAIN h = DOMAIN f
  BY <1>1
<1> HIDE DEF h, ids
<1>4. new = [m_word_map |-> dict.m_word_map \cup Entries(f), m_wordid_map |-> Inserted(old, h)]
  BY DEF mount_words, h, ids
<1>5. /\ DOMAIN Inserted(old, h) = DOMAIN old \cup DOMAIN f
      /\ \A i \in DOMAIN old : Inserted(old, h)[i] = old[i]
      /\ \A i \in DOMAIN f : Inserted(old, h)[i] = f[i]
  BY <1>2, <1>3 DEF Inserted
<1>6. dict.m_word_map = Entries(old)
  BY MountedWords
<1>7. PICK g : g = Inserted(old, h)
  OBVIOUS
<1>8. new.m_word_map = Entries(old) \cup Entries(f) /\ new.m_wordid_map = g
      /\ new = [m_word_map |-> new.m_word_map, m_wordid_map |-> new.m_wordid_map]
  BY <1>4, <1>6, <1>7
<1>9. Entries(g) = Entries(old) \cup Entries(f)
  BY <1>5, <1>7 DEF Entries
<1>10. IsFiniteSet(DOMAIN g)
  BY <1>5, <1>7, FS_Union DEF Agree
<1>11. \A i, j \in DOMAIN g : g[i] = g[j] => i = j
  <2>1. \A i, j \in DOMAIN old : old[i] = old[j] => i = j
    BY DEF Agree
  <2> QED BY <1>5, <1>7, <2>1
<1>12. NoId \notin DOMAIN g
  BY <1>5, <1>7 DEF Agree
<1> QED BY <1>5, <1>7, <1>8, <1>9, <1>10, <1>11, <1>12 DEF Agree, NoIds

-----------------------------------------------------------------------------
(* The words of rows, as an empty dictionary mounts them. *)

\* Rows of which the first with each word is taken have different words.
LEMMA FirstOfEach ==
  ASSUME DatabaseOK, NEW rows \in SUBSET DOMAIN afterdictiteminfo
  PROVE  /\ FirstRows(rows) \subseteq rows
         /\ \A i, k \in FirstRows(rows) :
              afterdictiteminfo[i].word = afterdictiteminfo[k].word => i = k
<1>1. rows \subseteq Nat
  BY DEF DatabaseOK
<1> QED BY <1>1 DEF FirstRows

LEMMA EmptyDictionary ==
  Agree(NewDictionary, {}) /\ DOMAIN NewDictionary.m_wordid_map = {}
<1>1. DOMAIN <<>> = {}
  OBVIOUS
<1>2. Entries(<<>>) = {}
  BY <1>1 DEF Entries
<1> QED BY <1>1, <1>2, FS_EmptySet DEF Agree, NewDictionary, NoIds

WordOf(rows) == [i \in rows |-> afterdictiteminfo[i].word]

LEMMA RowsAsWords == ASSUME NEW rows PROVE AsWords(rows) = Entries(WordOf(rows))
BY DEF AsWords, Entries, WordOf

LEMMA MountingRows ==
  ASSUME DatabaseOK, NEW rows \in SUBSET DOMAIN afterdictiteminfo,
         NEW new, new = mount_words(NewDictionary, AsWords(FirstRows(rows)))
  PROVE  /\ Agree(new, {})
         /\ DOMAIN new.m_wordid_map = FirstRows(rows)
         /\ \A i \in FirstRows(rows) : new.m_wordid_map[i] = afterdictiteminfo[i].word
<1> DEFINE R == FirstRows(rows)
           f == WordOf(R)
<1>1. /\ R \subseteq DOMAIN afterdictiteminfo
      /\ \A i, k \in R : afterdictiteminfo[i].word = afterdictiteminfo[k].word => i = k
  BY FirstOfEach
<1>2. IsFiniteSet(R) /\ NoId \notin R
  BY <1>1, FS_Subset DEF DatabaseOK, NoId
<1> HIDE DEF R
<1>3. DOMAIN f = R /\ \A i \in R : f[i] = afterdictiteminfo[i].word
  BY DEF WordOf
<1>4. new = mount_words(NewDictionary, Entries(f))
  BY RowsAsWords DEF R
<1> HIDE DEF f
<1>5. Agree(NewDictionary, {}) /\ DOMAIN NewDictionary.m_wordid_map = {}
  BY EmptyDictionary
<1>6. /\ Agree(new, {})
      /\ DOMAIN new.m_wordid_map = DOMAIN NewDictionary.m_wordid_map \cup DOMAIN f
      /\ \A i \in DOMAIN f : new.m_wordid_map[i] = f[i]
  <2>1. /\ IsFiniteSet(DOMAIN f) /\ NoId \notin DOMAIN f
        /\ \A i, j \in DOMAIN f : f[i] = f[j] => i = j
        /\ DOMAIN f \cap DOMAIN NewDictionary.m_wordid_map = {}
        /\ \A i \in DOMAIN f : \A j \in DOMAIN NewDictionary.m_wordid_map :
             f[i] # NewDictionary.m_wordid_map[j]
    BY <1>1, <1>2, <1>3, <1>5
  <2> QED BY <1>4, <1>5, <2>1, Mounting
<1> QED BY <1>3, <1>5, <1>6 DEF R

-----------------------------------------------------------------------------
(* The types, whatever statements fail and whatever ids requests name. *)

LEMMA OpsStayTyped ==
  ASSUME OpsTyped, DOMAIN op' = Pool, \A g \in Pool : op'[g] = op[g] \/ ~Writing(g)'
  PROVE  OpsTyped'
<1>1. ASSUME NEW g \in Pool, op'[g] = op[g] PROVE OpTyped(g)'
  BY <1>1 DEF OpsTyped, OpTyped, Writing, New
<1>2. ASSUME NEW g \in Pool, ~Writing(g)' PROVE OpTyped(g)'
  BY <1>2 DEF OpTyped
<1> QED BY <1>1, <1>2 DEF OpsTyped

LEMMA EndsTyped ==
  ASSUME AfterTyped, NEW g \in Pool, Ends(g), DatabaseOK', MapsTyped'
  PROVE  AfterTyped'
<1>1. OpsTyped
  BY DEF AfterTyped
<1>2. DOMAIN op' = Pool /\ ~Writing(g)' /\ \A h \in Pool \ {g} : op'[h] = op[h]
  BY <1>1 DEF Ends, OpsTyped, Writing
<1> QED BY <1>1, <1>2, OpsStayTyped DEF AfterTyped

LEMMA BecomesTyped ==
  ASSUME MapsTyped, NEW d, NEW dict, Becomes(d, dict) \/ m_dict_map' = m_dict_map,
         m_dict_info_map' = m_dict_info_map, m_global_wordid' \in Nat, amiss' \subseteq DictID
  PROVE  MapsTyped'
<1>1. /\ DOMAIN m_dict_map' = DOMAIN m_dict_map
      /\ \A x \in DOMAIN m_dict_map : DOMAIN m_dict_map'[x] = DOMAIN m_dict_map[x]
  BY DEF Becomes
<1> QED BY <1>1 DEF MapsTyped

\* One column of one row is changed.
LEMMA RowTyped ==
  ASSUME DatabaseOK, NEW i, afterdictinfo' = afterdictinfo,
         \/ afterdictiteminfo' = afterdictiteminfo
         \/ \E mark \in BOOLEAN :
              afterdictiteminfo' = [afterdictiteminfo EXCEPT ![i].isdeleted = mark]
         \/ \E word \in Pair : afterdictiteminfo' = [afterdictiteminfo EXCEPT ![i].word = word]
  PROVE  DatabaseOK'
<1>1. /\ DOMAIN afterdictiteminfo' = DOMAIN afterdictiteminfo
      /\ \A k \in DOMAIN afterdictiteminfo :
           afterdictiteminfo'[k] \in [dict : DictID, word : Pair, isdeleted : BOOLEAN]
  BY DEF DatabaseOK
<1> QED BY <1>1 DEF DatabaseOK

\* A dictionary and its words are marked.
LEMMA Marking ==
  ASSUME DatabaseOK, NEW d, NEW n \in Nat, NEW mark \in BOOLEAN, MarkDict(d, n, mark)
  PROVE  DatabaseOK'
<1>1. /\ DOMAIN afterdictinfo' = DOMAIN afterdictinfo
      /\ \A e \in DOMAIN afterdictinfo : afterdictinfo'[e] \in [domain : Domain, isdeleted : BOOLEAN]
  BY DEF DatabaseOK, MarkDict
<1>2. /\ DOMAIN afterdictiteminfo' = DOMAIN afterdictiteminfo
      /\ \A i \in DOMAIN afterdictiteminfo :
           afterdictiteminfo'[i] \in [dict : DictID, word : Pair, isdeleted : BOOLEAN]
  BY DEF DatabaseOK, MarkDict
<1> QED BY <1>1, <1>2 DEF DatabaseOK

\* The ids the database gives are the next ones.
LEMMA NextDictionary ==
  ASSUME DatabaseOK, NEW d, d = Cardinality(DOMAIN afterdictinfo) + 1, d \in DictID,
         NEW row \in [domain : Domain, isdeleted : BOOLEAN],
         afterdictinfo' = Inserted(afterdictinfo, Entry(d, row)),
         afterdictiteminfo' = afterdictiteminfo
  PROVE  /\ d \notin DOMAIN afterdictinfo
         /\ DOMAIN afterdictinfo' = DOMAIN afterdictinfo \cup {d}
         /\ \A e \in DOMAIN afterdictinfo : afterdictinfo'[e] = afterdictinfo[e]
         /\ afterdictinfo'[d] = row
         /\ DatabaseOK'
<1>1. PICK n : n = Cardinality(DOMAIN afterdictinfo)
  OBVIOUS
<1>2. /\ n \in Nat /\ d = n + 1 /\ d \in 1..MaxDict /\ MaxDict \in Nat
      /\ DOMAIN afterdictinfo = 1..n
  BY <1>1, DatabaseAssumption DEF DatabaseOK, DatabaseAssumption, DictID
<1>3. d \notin DOMAIN afterdictinfo
  BY <1>2
<1>4. /\ DOMAIN afterdictinfo' = DOMAIN afterdictinfo \cup {d}
      /\ \A e \in DOMAIN afterdictinfo : afterdictinfo'[e] = afterdictinfo[e]
      /\ afterdictinfo'[d] = row
  BY <1>3 DEF Inserted, Entry
<1>5. DOMAIN afterdictinfo' = 1..(n + 1)
  <2>1. 1..(n + 1) = 1..n \cup {n + 1}
    BY <1>2
  <2> QED BY <1>2, <1>4, <2>1, Zenon
<1>6. Cardinality(DOMAIN afterdictinfo') = n + 1 /\ n + 1 \in 0..MaxDict
  BY <1>2, <1>5, UpTo
<1>7. \A e \in DOMAIN afterdictinfo' : afterdictinfo'[e] \in [domain : Domain, isdeleted : BOOLEAN]
  <2>1. \A e \in DOMAIN afterdictinfo : afterdictinfo'[e] \in [domain : Domain, isdeleted : BOOLEAN]
    BY <1>4 DEF DatabaseOK
  <2>2. afterdictinfo'[d] \in [domain : Domain, isdeleted : BOOLEAN]
    BY <1>4
  <2> QED BY <1>4, <2>1, <2>2
<1>8. DatabaseOK'
  BY <1>5, <1>6, <1>7 DEF DatabaseOK
<1> QED BY <1>3, <1>4, <1>8

LEMMA CreateDictTyped ==
  ASSUME AfterTyped, NEW g \in Pool, NEW x \in Domain, CreateDict(g, x)
  PROVE  AfterTyped'
<1>1. DatabaseOK /\ MapsTyped /\ Ends(g) /\ x \in Places
      /\ m_global_wordid' = m_global_wordid /\ afterdictiteminfo' = afterdictiteminfo
  BY DEF AfterTyped, CreateDict, Places
<1>2. DatabaseOK'
  <2>1. PICK d : d = Cardinality(DOMAIN afterdictinfo) + 1
    OBVIOUS
  <2>2. \/ afterdictinfo' = afterdictinfo
        \/ /\ d \in DictID
           /\ afterdictinfo' = Inserted(afterdictinfo, Entry(d, [domain |-> x, isdeleted |-> FALSE]))
    BY <2>1 DEF CreateDict
  <2>3. CASE afterdictinfo' = afterdictinfo
    BY <1>1, <2>3 DEF DatabaseOK
  <2>4. PICK row : row = [domain |-> x, isdeleted |-> FALSE]
    OBVIOUS
  <2>5. row \in [domain : Domain, isdeleted : BOOLEAN]
    BY <2>4
  <2>6. CASE d \in DictID /\ afterdictinfo' = Inserted(afterdictinfo, Entry(d, row))
    BY <1>1, <2>1, <2>5, <2>6, NextDictionary
  <2> QED BY <2>2, <2>3, <2>4, <2>6
<1>3. \E d \in DictID :
        /\ m_dict_info_map' = Inserted(m_dict_info_map, Entry(d, x))
        /\ \/ m_dict_map' = m_dict_map
           \/ m_dict_map' = [m_dict_map EXCEPT ![x] = Inserted(@, Entry(d, NewDictionary))]
  BY DEF CreateDict
<1>4. /\ DOMAIN m_dict_info_map' \subseteq DictID
      /\ \A e \in DOMAIN m_dict_info_map' : m_dict_info_map'[e] \in Places
  BY <1>1, <1>3 DEF MapsTyped, Inserted, Entry
<1>5. DOMAIN m_dict_map' = Places /\ \A y \in Places : DOMAIN m_dict_map'[y] \subseteq DictID
  BY <1>1, <1>3 DEF MapsTyped, Inserted, Entry
<1>6. amiss' \subseteq DictID
  BY <1>1 DEF CreateDict, MapsTyped
<1>7. MapsTyped'
  BY <1>1, <1>4, <1>5, <1>6 DEF MapsTyped
<1> QED BY <1>1, <1>2, <1>7, EndsTyped

LEMMA ModifyDictTyped ==
  ASSUME AfterTyped, NEW g \in Pool, NEW d \in DictID, NEW x \in Domain, ModifyDict(g, d, x)
  PROVE  AfterTyped'
<1>1. DatabaseOK /\ MapsTyped /\ Ends(g) /\ x \in Places
      /\ m_global_wordid' = m_global_wordid /\ afterdictiteminfo' = afterdictiteminfo
  BY DEF AfterTyped, ModifyDict, Places
<1>2. DatabaseOK'
  <2>1. afterdictinfo' = afterdictinfo \/ afterdictinfo' = [afterdictinfo EXCEPT ![d].domain = x]
    BY DEF ModifyDict
  <2>2. /\ DOMAIN afterdictinfo' = DOMAIN afterdictinfo
        /\ \A k \in DOMAIN afterdictinfo :
             afterdictinfo'[k] \in [domain : Domain, isdeleted : BOOLEAN]
    BY <1>1, <2>1 DEF DatabaseOK
  <2> QED BY <1>1, <2>2 DEF DatabaseOK
<1>3. /\ DOMAIN m_dict_info_map' = DOMAIN m_dict_info_map
      /\ \A k \in DOMAIN m_dict_info_map' : m_dict_info_map'[k] \in Places
  <2>1. \/ m_dict_info_map' = m_dict_info_map
        \/ m_dict_info_map' = [m_dict_info_map EXCEPT ![d] = x]
    BY DEF ModifyDict
  <2> QED BY <1>1, <2>1 DEF MapsTyped
<1>4. DOMAIN m_dict_map' = Places /\ \A y \in Places : DOMAIN m_dict_map'[y] \subseteq DictID
  <2>1. \/ m_dict_map' = m_dict_map
        \/ \E y, dict : /\ y # x
                        /\ m_dict_map' = [m_dict_map EXCEPT ![y] = Drop(@, d),
                                                            ![x] = Inserted(@, Entry(d, dict))]
    BY DEF ModifyDict
  <2>2. CASE m_dict_map' = m_dict_map
    BY <1>1, <2>2 DEF MapsTyped
  <2>3. ASSUME NEW y, NEW dict, y # x,
               m_dict_map' = [m_dict_map EXCEPT ![y] = Drop(@, d), ![x] = Inserted(@, Entry(d, dict))]
        PROVE  DOMAIN m_dict_map' = Places /\ \A z \in Places : DOMAIN m_dict_map'[z] \subseteq DictID
    <3>1. /\ DOMAIN m_dict_map' = Places
          /\ \A z \in Places : z # x /\ z # y => m_dict_map'[z] = m_dict_map[z]
          /\ y \in Places => m_dict_map'[y] = Drop(m_dict_map[y], d)
          /\ m_dict_map'[x] = Inserted(m_dict_map[x], Entry(d, dict))
      BY <1>1, <2>3 DEF MapsTyped
    <3>2. DOMAIN Drop(m_dict_map[y], d) \subseteq DOMAIN m_dict_map[y]
      BY DEF Drop, Restrict
    <3>3. DOMAIN Inserted(m_dict_map[x], Entry(d, dict)) = DOMAIN m_dict_map[x] \cup {d}
      BY DEF Inserted, Entry
    <3> QED BY <1>1, <3>1, <3>2, <3>3 DEF MapsTyped
  <2> QED BY <2>1, <2>2, <2>3
<1>5. amiss' \subseteq DictID
  BY <1>1 DEF ModifyDict, MapsTyped
<1>6. MapsTyped'
  BY <1>1, <1>3, <1>4, <1>5 DEF MapsTyped
<1> QED BY <1>1, <1>2, <1>6, EndsTyped

LEMMA UpToTwo == ASSUME NEW type PROVE \A n \in Executed(type) : n \in {0, 1, 2}
BY DEF Executed

LEMMA DeleteDictTyped ==
  ASSUME AfterTyped, NEW g \in Pool, NEW d \in DictID, DeleteDict(g, d)
  PROVE  AfterTyped'
<1>1. DatabaseOK /\ MapsTyped /\ Ends(g) /\ m_global_wordid' = m_global_wordid
  BY DEF AfterTyped, DeleteDict
<1>2. DatabaseOK'
  <2>1. CASE UNCHANGED <<afterdictinfo, afterdictiteminfo>>
    BY <1>1, <2>1 DEF DatabaseOK
  <2>2. ASSUME NEW n \in Executed("DeleteDict"), MarkDict(d, n, TRUE) PROVE DatabaseOK'
    <3>1. n \in {0, 1, 2}
      BY <2>2, UpToTwo
    <3> QED BY <1>1, <2>2, <3>1, Marking
  <2> QED BY <2>1, <2>2 DEF DeleteDict
<1>3. \/ UNCHANGED <<m_dict_info_map, m_dict_map>>
      \/ /\ m_dict_info_map' = Drop(m_dict_info_map, d)
         /\ m_dict_map' = [m_dict_map EXCEPT ![Domain_of(d)] = Drop(@, d)]
  BY DEF DeleteDict
<1>4. /\ DOMAIN m_dict_info_map' \subseteq DOMAIN m_dict_info_map
      /\ \A k \in DOMAIN m_dict_info_map' : m_dict_info_map'[k] = m_dict_info_map[k]
  BY <1>3 DEF Drop, Restrict
<1>5. /\ DOMAIN m_dict_map' = DOMAIN m_dict_map
      /\ \A z \in DOMAIN m_dict_map : DOMAIN m_dict_map'[z] \subseteq DOMAIN m_dict_map[z]
  BY <1>3 DEF Drop, Restrict
<1>6. amiss' \subseteq DictID
  BY <1>1 DEF DeleteDict, MapsTyped, Struck
<1>7. MapsTyped'
  BY <1>1, <1>4, <1>5, <1>6 DEF MapsTyped
<1> QED BY <1>1, <1>2, <1>7, EndsTyped

\* What RecoverDict does: it enters what was read back, k, in group x, marks rows, and
\* fills dictionary d up when it finds it there.
Entered(k, x) == Inserted(m_dict_map[x], Entry(k, NewDictionary))
Filled(d, k, x) == [Entered(k, x) EXCEPT ![d] = WithRows(@, d)]
Recovers(d, n, k, x) ==
  /\ x # Nowhere => k = d /\ d \in DOMAIN afterdictinfo /\ x = afterdictinfo[d].domain
  /\ MarkDict(d, n, FALSE)
  /\ m_dict_info_map' = Inserted(m_dict_info_map, Entry(k, x))
  /\ \/ m_dict_map' = [m_dict_map EXCEPT ![x] = Entered(k, x)]
     \/ m_dict_map' = [m_dict_map EXCEPT ![x] = Filled(d, k, x)]
  /\ left_behind \subseteq left_behind'
  /\ amiss \cup ({k} \ (DOMAIN m_dict_info_map \cup {d})) \subseteq amiss'
  /\ amiss' \subseteq amiss \cup {k, d}
  /\ d \notin amiss' =>
       /\ n = 2 /\ x # Nowhere
       /\ m_dict_map' = [m_dict_map EXCEPT ![x] = Filled(d, k, x)]
       /\ left_behind' = left_behind \cup (RowsOf(d) \ DOMAIN Filled(d, k, x)[d].m_wordid_map)

LEMMA Recovery ==
  ASSUME DatabaseOK, NEW g \in Pool, NEW d \in DictID, RecoverDict(g, d)
  PROVE  \E n \in {0, 1, 2}, k \in DictID, x \in Places : Recovers(d, n, k, x)
<1>1. PICK n \in Executed("RecoverDict"), read \in BOOLEAN, found \in BOOLEAN :
        \E info \in IF found /\ d \in DOMAIN afterdictinfo
                   THEN {[dict_id |-> d, domain_info |-> afterdictinfo[d].domain]}
                   ELSE [dict_id : DictID, domain_info : {Nowhere}] :
          MarkDict(d, n, FALSE) /\ Reenter(d, n, read, info)
  <2>1. (IF "RecoverDict" \in FailsAt THEN BOOLEAN ELSE {TRUE}) \subseteq BOOLEAN
    OBVIOUS
  <2> QED BY <2>1 DEF RecoverDict
<1>2. PICK info : /\ MarkDict(d, n, FALSE) /\ Reenter(d, n, read, info)
                  /\ info \in IF found /\ d \in DOMAIN afterdictinfo
                              THEN {[dict_id |-> d, domain_info |-> afterdictinfo[d].domain]}
                              ELSE [dict_id : DictID, domain_info : {Nowhere}]
  BY <1>1
<1>3. PICK k : k = info.dict_id
  OBVIOUS
<1>4. PICK x : x = info.domain_info
  OBVIOUS
<1>5. /\ k \in DictID /\ x \in Places
      /\ x # Nowhere => k = d /\ d \in DOMAIN afterdictinfo /\ x = afterdictinfo[d].domain
  BY <1>2, <1>3, <1>4 DEF DatabaseOK, Places
<1>6. PICK mounts \in BOOLEAN :
        mounts <=> read /\ (Known(d) \/ k = d) /\ d \in DOMAIN Entered(k, x)
  OBVIOUS
<1>7. PICK group : group = IF mounts THEN Filled(d, k, x) ELSE Entered(k, x)
  OBVIOUS
<1>8. /\ MarkDict(d, n, FALSE)
      /\ m_dict_info_map' = Inserted(m_dict_info_map, Entry(k, x))
      /\ m_dict_map' = [m_dict_map EXCEPT ![x] = group]
      /\ left_behind' = left_behind \cup
           (RowsOf(d) \ IF d \in DOMAIN group THEN DOMAIN group[d].m_wordid_map ELSE {})
      /\ amiss' = amiss \cup ({k} \ (DOMAIN m_dict_info_map \cup {d})) \cup
           (IF n = 2 /\ read /\ x # Nowhere THEN {} ELSE {d})
  BY <1>2, <1>3, <1>4, <1>6, <1>7 DEF Reenter, Entered, Filled
<1>9. ASSUME d \notin amiss'
      PROVE  /\ n = 2 /\ x # Nowhere /\ group = Filled(d, k, x)
             /\ left_behind' = left_behind \cup (RowsOf(d) \ DOMAIN group[d].m_wordid_map)
  <2>1. n = 2 /\ read /\ x # Nowhere
    BY <1>8, <1>9
  <2>2. k = d /\ d \in DOMAIN Entered(k, x)
    BY <1>5, <2>1 DEF Entered, Inserted, Entry
  <2>3. group = Filled(d, k, x)
    BY <1>6, <1>7, <2>1, <2>2
  <2>4. d \in DOMAIN group
    BY <2>2, <2>3 DEF Filled
  <2> QED BY <1>8, <2>1, <2>3, <2>4
<1>10. Recovers(d, n, k, x)
  BY <1>5, <1>7, <1>8, <1>9 DEF Recovers
<1> QED BY <1>1, <1>5, <1>10, UpToTwo

LEMMA RecoverDictTyped ==
  ASSUME AfterTyped, NEW g \in Pool, NEW d \in DictID, RecoverDict(g, d)
  PROVE  AfterTyped'
<1>1. DatabaseOK /\ MapsTyped /\ Ends(g) /\ m_global_wordid' = m_global_wordid
  BY DEF AfterTyped, RecoverDict
<1>2. PICK n \in {0, 1, 2}, k \in DictID, x \in Places : Recovers(d, n, k, x)
  BY <1>1, Recovery
<1>3. DatabaseOK'
  BY <1>1, <1>2, Marking DEF Recovers
<1>4. /\ DOMAIN m_dict_info_map' \subseteq DictID
      /\ \A e \in DOMAIN m_dict_info_map' : m_dict_info_map'[e] \in Places
  BY <1>1, <1>2 DEF MapsTyped, Recovers, Inserted, Entry
<1>5. DOMAIN m_dict_map' = Places /\ \A y \in Places : DOMAIN m_dict_map'[y] \subseteq DictID
  <2>1. DOMAIN Entered(k, x) \subseteq DictID /\ DOMAIN Filled(d, k, x) = DOMAIN Entered(k, x)
    BY <1>1, <1>2 DEF Entered, Filled, MapsTyped, Inserted, Entry
  <2> QED BY <1>1, <1>2, <2>1 DEF MapsTyped, Recovers
<1>6. amiss' \subseteq DictID
  BY <1>1, <1>2 DEF MapsTyped, Recovers
<1>7. MapsTyped'
  BY <1>1, <1>4, <1>5, <1>6 DEF MapsTyped
<1> QED BY <1>1, <1>3, <1>7, EndsTyped

\* A word is changed, taken away or brought back.
LEMMA WordsTyped ==
  ASSUME AfterTyped, NEW g \in Pool, NEW d \in DictID, NEW i,
         \/ DeleteWord(g, d, i) \/ RecoverWord(g, d, i)
         \/ \E word \in Pair : ModifyWord(g, d, i, word)
  PROVE  AfterTyped'
<1>1. DatabaseOK /\ MapsTyped
  BY DEF AfterTyped
<1>2. /\ Ends(g) /\ UNCHANGED <<m_dict_info_map, m_global_wordid, afterdictinfo>>
      /\ m_dict_map' = m_dict_map \/ \E dict : Becomes(d, dict)
      /\ \/ afterdictiteminfo' = afterdictiteminfo
         \/ \E mark \in BOOLEAN :
              afterdictiteminfo' = [afterdictiteminfo EXCEPT ![i].isdeleted = mark]
         \/ \E word \in Pair : afterdictiteminfo' = [afterdictiteminfo EXCEPT ![i].word = word]
      /\ amiss' \subseteq amiss \cup Others(d, i) \cup {d}
  <2>1. ASSUME DeleteWord(g, d, i) PROVE <1>2!1
    BY <2>1 DEF DeleteWord
  <2> QED BY <2>1 DEF DeleteWord, RecoverWord, ModifyWord
<1>3. amiss' \subseteq DictID
  BY <1>1, <1>2 DEF Others, DatabaseOK, MapsTyped
<1>4. DatabaseOK'
  BY <1>1, <1>2, RowTyped
<1>5. MapsTyped'
  BY <1>1, <1>2, <1>3, BecomesTyped DEF MapsTyped
<1> QED BY <1>2, <1>4, <1>5, EndsTyped

\* Words are inserted, in the two steps of it.
LEMMA InsertsTyped ==
  ASSUME AfterTyped, NEW g \in Pool, NEW type, NEW d \in DictID, NEW file \in Seq(Pair),
         InsertWords(g, type, d, file)
  PROVE  AfterTyped'
<1> DEFINE filter == [i \in DOMAIN file |->
                        /\ file[i] \notin Mounted(The(d))
                        /\ \A k \in 1..(i - 1) : file[k] # file[i]]
           fresh == {i \in DOMAIN file : filter[i]}
           id == [i \in DOMAIN file |->
                    IF filter[i] THEN m_global_wordid + Cardinality(fresh \cap 1..i) ELSE NoId]
<1>1. DatabaseOK /\ MapsTyped /\ OpsTyped
      /\ UNCHANGED <<m_dict_info_map, afterdictinfo, afterdictiteminfo, amiss>>
  BY DEF AfterTyped, InsertWords, database
<1>2. DatabaseOK'
  BY <1>1 DEF DatabaseOK
<1>3. CASE Ends(g) /\ UNCHANGED <<m_dict_map, m_global_wordid>>
  BY <1>1, <1>2, <1>3, EndsTyped DEF MapsTyped
<1>4. CASE /\ Found(d)
           /\ m_global_wordid' = m_global_wordid + Cardinality(fresh)
           /\ Becomes(d, [The(d) EXCEPT !.m_word_map =
                @ \cup {[id |-> NoId, word |-> file[i]] : i \in fresh}])
           /\ op' = [op EXCEPT ![g] = [type |-> "Statement", request |-> type,
                                        dict |-> d, file |-> file, id |-> id]]
  <2>1. fresh \subseteq 1..Len(file) /\ Len(file) \in Nat
    OBVIOUS
  <2>2. \A i \in DOMAIN file :
          id[i] = NoId \/ (i \in fresh /\ id[i] = m_global_wordid + Cardinality(fresh \cap 1..i))
    OBVIOUS
  <2>3. IsFiniteSet(1..Len(file))
    BY <2>1, UpTo
  <2> HIDE DEF id, fresh, filter
  <2>4. IsFiniteSet(fresh)
    BY <2>1, <2>3, FS_Subset
  <2>5. \A i : Cardinality(fresh \cap 1..i) \in Nat
    BY <2>4, FS_Subset, FS_CardinalityType
  <2>6. m_global_wordid \in Nat /\ m_global_wordid' \in Nat
    BY <1>1, <1>4, <2>4, FS_CardinalityType DEF MapsTyped
  <2>7. MapsTyped'
    <3>1. amiss' \subseteq DictID
      BY <1>1 DEF MapsTyped
    <3> QED BY <1>1, <1>4, <2>6, <3>1, BecomesTyped
  <2>8. /\ DOMAIN op' = Pool /\ \A h \in Pool \ {g} : op'[h] = op[h]
        /\ op'[g].dict = d /\ op'[g].file = file /\ op'[g].id = id
    BY <1>1, <1>4 DEF OpsTyped
  <2>9. New(g)' \subseteq DOMAIN file /\ \A i \in New(g)' : id[i] # NoId
    BY <2>8 DEF New
  <2>10. OpTyped(g)'
    <3>1. ASSUME NEW i \in New(g)' PROVE id[i] \in Nat
      <4>1. id[i] = m_global_wordid + Cardinality(fresh \cap 1..i)
        BY <2>2, <2>9
      <4>2. PICK k \in Nat : k = Cardinality(fresh \cap 1..i)
        BY <2>5
      <4> QED BY <2>6, <4>1, <4>2
    <3> QED BY <2>8, <3>1 DEF OpTyped
  <2>11. ASSUME NEW h \in Pool, h # g PROVE OpTyped(h)'
    BY <1>1, <2>8, <2>11 DEF OpsTyped, OpTyped, Writing, New
  <2> QED BY <1>2, <2>7, <2>8, <2>10, <2>11 DEF OpsTyped, AfterTyped
<1> QED BY <1>3, <1>4 DEF InsertWords

\* The rows it writes are finitely many rows.
LEMMA RowsTyped ==
  ASSUME NEW g \in Pool, Writing(g), OpTyped(g), NEW n, NEW rows, rows = NewRows(g, n)
  PROVE  /\ IsFiniteSet(DOMAIN rows) /\ DOMAIN rows \subseteq Nat \ {0}
         /\ DOMAIN rows = {op[g].id[i] : i \in Written(g, n)}
         /\ Written(g, n) \subseteq New(g)
         /\ \A k \in DOMAIN rows :
              rows[k] \in [dict : DictID, word : Pair, isdeleted : BOOLEAN]
<1> DEFINE W == Written(g, n)
           id == op[g].id
           file == op[g].file
           I == {id[i] : i \in W}
<1>1. W \subseteq New(g) /\ W \subseteq DOMAIN file
  BY DEF Written, New
<1>2. /\ op[g].dict \in DictID /\ file \in Seq(Pair)
      /\ \A i \in New(g) : id[i] \in Nat
  BY DEF OpTyped
<1>3. \A i \in W : id[i] \in Nat \ {0}
  BY <1>1, <1>2 DEF New, NoId
<1>4. IsFiniteSet(I)
  <2>1. IsFiniteSet(DOMAIN file)
    <3>1. DOMAIN file = 1..Len(file) /\ Len(file) \in Nat
      BY <1>2
    <3> QED BY <3>1, UpTo
  <2>2. IsFiniteSet(W)
    BY <1>1, <2>1, FS_Subset
  <2> HIDE DEF W
  <2> DEFINE f == [i \in W |-> id[i]]
  <2>3. f \in Surjection(W, I)
    BY DEF Surjection
  <2> QED BY <2>2, <2>3, FS_Surjection
<1>5. rows = [k \in I |-> [dict |-> op[g].dict, isdeleted |-> FALSE,
                           word |-> file[CHOOSE i \in W : id[i] = k]]]
  BY DEF NewRows
<1>6. DOMAIN rows = I
  BY <1>5
<1>7. I \subseteq Nat \ {0}
  BY <1>3
<1>8. ASSUME NEW k \in I
      PROVE  rows[k] \in [dict : DictID, word : Pair, isdeleted : BOOLEAN]
  <2>1. PICK i : i = CHOOSE j \in W : id[j] = k
    OBVIOUS
  <2>2. i \in W
    BY <2>1
  <2>3. rows[k] = [dict |-> op[g].dict, isdeleted |-> FALSE, word |-> file[i]]
    BY <1>5, <2>1, Zenon
  <2>4. file[i] \in Pair
    BY <1>1, <1>2, <2>2, ElementOf
  <2> QED BY <1>2, <2>3, <2>4
<1> QED BY <1>1, <1>4, <1>6, <1>7, <1>8

\* They are as its file and its ids say.
LEMMA RowsWritten ==
  ASSUME NEW g \in Pool, Writing(g), OpOK(g), op[g].dict \notin amiss, NEW n, NEW i \in Written(g, n),
         NEW row, row = NewRows(g, n)[op[g].id[i]]
  PROVE  row.dict = op[g].dict /\ ~row.isdeleted /\ row.word = op[g].file[i]
<1> DEFINE W == Written(g, n)
           id == op[g].id
           file == op[g].file
<1>1. \A j \in W : id[j] = id[i] => j = i
  BY DEF OpOK, Written, New
<1>2. (CHOOSE j \in W : id[j] = id[i]) = i
  BY <1>1
<1>3. row = [dict |-> op[g].dict, isdeleted |-> FALSE,
             word |-> file[CHOOSE j \in W : id[j] = id[i]]]
  BY Zenon DEF NewRows
<1>4. row = [dict |-> op[g].dict, isdeleted |-> FALSE, word |-> file[i]]
  BY <1>2, <1>3, Zenon
<1> QED BY <1>4

LEMMA WritingRows ==
  ASSUME DatabaseOK, NEW g \in Pool, Writing(g), OpTyped(g), NEW n,
         afterdictinfo' = afterdictinfo,
         afterdictiteminfo' = Inserted(afterdictiteminfo, NewRows(g, n))
  PROVE  DatabaseOK'
<1>1. PICK rows : rows = NewRows(g, n)
  OBVIOUS
<1>2. /\ IsFiniteSet(DOMAIN rows) /\ DOMAIN rows \subseteq Nat \ {0}
      /\ \A k \in DOMAIN rows :
           rows[k] \in [dict : DictID, word : Pair, isdeleted : BOOLEAN]
  BY <1>1, RowsTyped
<1>3. /\ DOMAIN afterdictiteminfo' = DOMAIN afterdictiteminfo \cup DOMAIN rows
      /\ \A i \in DOMAIN afterdictiteminfo : afterdictiteminfo'[i] = afterdictiteminfo[i]
      /\ \A i \in DOMAIN rows \ DOMAIN afterdictiteminfo : afterdictiteminfo'[i] = rows[i]
  <2>1. afterdictiteminfo' = Inserted(afterdictiteminfo, rows)
    BY <1>1
  <2> QED BY <2>1 DEF Inserted
<1>4. IsFiniteSet(DOMAIN afterdictiteminfo')
  <2>1. IsFiniteSet(DOMAIN afterdictiteminfo)
    BY DEF DatabaseOK
  <2>2. IsFiniteSet(DOMAIN afterdictiteminfo \cup DOMAIN rows)
    BY <1>2, <2>1, FS_Union
  <2> QED BY <1>3, <2>2, Zenon
<1> QED BY <1>2, <1>3, <1>4 DEF DatabaseOK


LEMMA StatementsTyped ==
  ASSUME AfterTyped, NEW g \in Pool, InsertStatements(g)
  PROVE  AfterTyped'
<1>1. DatabaseOK /\ MapsTyped /\ OpsTyped
  BY DEF AfterTyped
<1>2. /\ Writing(g) /\ OpTyped(g) /\ Ends(g)
      /\ UNCHANGED <<m_dict_info_map, m_global_wordid, afterdictinfo, amiss>>
      /\ \E dict : Becomes(op[g].dict, dict)
      /\ \E n : afterdictiteminfo' = Inserted(afterdictiteminfo, NewRows(g, n))
  BY <1>1 DEF InsertStatements, AtStatement, Writing, OpsTyped
<1>3. DatabaseOK'
  BY <1>1, <1>2, WritingRows
<1>4. MapsTyped'
  <2>1. m_global_wordid' \in Nat /\ amiss' \subseteq DictID
    BY <1>1, <1>2 DEF MapsTyped
  <2> QED BY <1>1, <1>2, <2>1, BecomesTyped
<1> QED BY <1>2, <1>3, <1>4, EndsTyped

-----------------------------------------------------------------------------
(* The server starts: memory is made from the database. *)

\* What it has in memory when it has started, the words of the dictionaries amiss unread.
Started ==
  /\ DatabaseOK
  /\ m_dict_info_map = Loaded(amiss).m_dict_info_map
  /\ m_dict_map = Loaded(amiss).m_dict_map
  /\ m_global_wordid = Loaded(amiss).m_global_wordid
  /\ NotMounted \subseteq left_behind
  /\ op = [g \in Pool |-> Idle]
  /\ amiss \subseteq DictID

LEMMA StartedMaps ==
  ASSUME Started
  PROVE  /\ LiveDicts \subseteq DictID /\ \A d \in LiveDicts : afterdictinfo[d].domain \in Domain
         /\ DOMAIN m_dict_info_map = LiveDicts
         /\ \A d \in LiveDicts : m_dict_info_map[d] = afterdictinfo[d].domain
         /\ DOMAIN m_dict_map = Places
         /\ \A x \in Places : DOMAIN m_dict_map[x] = {d \in LiveDicts : afterdictinfo[d].domain = x}
         /\ \A d \in LiveDicts \ amiss : \A x \in Places : x = afterdictinfo[d].domain =>
              m_dict_map[x][d] = mount_words(NewDictionary, AsWords(FirstRows(LiveRows(d))))
         /\ \A g \in Pool : ~Writing(g)
<1>1. Cardinality(DOMAIN afterdictinfo) \in Nat /\ MaxDict \in Nat /\ DatabaseOK
  BY DatabaseAssumption DEF Started, DatabaseOK, DatabaseAssumption
<1>2. DOMAIN afterdictinfo \subseteq DictID
  BY <1>1 DEF DatabaseOK, DictID
<1>3. LiveDicts \subseteq DictID /\ \A d \in LiveDicts : afterdictinfo[d].domain \in Domain
  BY <1>1, <1>2 DEF DatabaseOK, LiveDicts
<1>4. /\ DOMAIN m_dict_info_map = LiveDicts
      /\ \A d \in LiveDicts : m_dict_info_map[d] = afterdictinfo[d].domain
      /\ DOMAIN m_dict_map = Places
      /\ \A x \in Places : DOMAIN m_dict_map[x] = {d \in LiveDicts : afterdictinfo[d].domain = x}
      /\ \A d \in LiveDicts \ amiss : \A x \in Places : x = afterdictinfo[d].domain =>
           m_dict_map[x][d] = mount_words(NewDictionary, AsWords(FirstRows(LiveRows(d))))
  BY DEF Started, Loaded
<1>5. \A g \in Pool : ~Writing(g)
  BY DEF Started, Idle, Writing
<1> QED BY <1>3, <1>4, <1>5

LEMMA StartedTyped == Started => AfterTyped
<1> SUFFICES ASSUME Started PROVE AfterTyped
  OBVIOUS
<1>1. DatabaseOK
  BY DEF Started
<1>2. m_global_wordid \in Nat
  <2> DEFINE S == {0} \cup UNION {LiveRows(d) : d \in LiveDicts \ amiss}
  <2>1. \A d : LiveRows(d) \subseteq DOMAIN afterdictiteminfo
    BY DEF LiveRows, RowsOf
  <2>2. S \subseteq DOMAIN afterdictiteminfo \cup {0} /\ DOMAIN afterdictiteminfo \subseteq Nat
    BY <1>1, <2>1 DEF DatabaseOK
  <2>3. IsFiniteSet(DOMAIN afterdictiteminfo \cup {0})
    BY <1>1, FS_AddElement DEF DatabaseOK
  <2>4. S \in SUBSET Nat /\ IsFiniteSet(S) /\ S # {}
    BY <2>2, <2>3, FS_Subset
  <2>5. Max(S) \in Nat
    BY <2>4, GreatestIsNumber
  <2> QED BY <2>5 DEF Started, Loaded
<1>3. MapsTyped
  BY <1>2, StartedMaps DEF MapsTyped, Places, Started
<1>4. OpsTyped
  BY StartedMaps DEF OpsTyped, OpTyped, Started
<1> QED BY <1>1, <1>3, <1>4 DEF AfterTyped

LEMMA StartedWell == Started => AfterInv
<1> SUFFICES ASSUME Started PROVE AfterInv
  OBVIOUS
<1>1. DatabaseOK /\ \A d : LiveRows(d) \in SUBSET DOMAIN afterdictiteminfo
  BY DEF Started, LiveRows, RowsOf
<1>2. \A g \in Pool : ~Writing(g)
  BY StartedMaps
<1>3. \A d : UnderWay(d) = {}
  BY <1>2 DEF UnderWay
<1>4. \A d : Known(d) <=> d \in LiveDicts
  BY StartedMaps DEF Known
<1>5. \A d : \A x \in Domain : d \in DOMAIN m_dict_map[x] <=> Known(d) /\ Domain_of(d) = x
  BY <1>4, StartedMaps DEF Domain_of, Places
<1>6. ASSUME NEW d \in LiveDicts, d \notin amiss
      PROVE  /\ Domain_of(d) = afterdictinfo[d].domain
             /\ Agree(The(d), {}) /\ StoredAs(d, The(d).m_wordid_map)
  <2>1. Domain_of(d) = afterdictinfo[d].domain /\ Domain_of(d) \in Places
    BY StartedMaps DEF Domain_of, Places
  <2>2. The(d) = mount_words(NewDictionary, AsWords(FirstRows(LiveRows(d))))
    BY <1>6, <2>1, StartedMaps DEF The
  <2>3. /\ Agree(The(d), {})
        /\ DOMAIN The(d).m_wordid_map = FirstRows(LiveRows(d))
        /\ \A i \in FirstRows(LiveRows(d)) : The(d).m_wordid_map[i] = afterdictiteminfo[i].word
    BY <1>1, <2>2, MountingRows
  <2>4. FirstRows(LiveRows(d)) \subseteq LiveRows(d)
    BY <1>1, FirstOfEach
  <2>5. LiveRows(d) \ FirstRows(LiveRows(d)) \subseteq left_behind
    BY DEF Started, NotMounted
  <2> QED BY <2>1, <2>3, <2>4, <2>5 DEF StoredAs
<1>7. \A d \in DictID \ amiss : Well(d, UnderWay(d))
  BY <1>3, <1>4, <1>5, <1>6 DEF Well
<1> QED BY <1>2, <1>7 DEF AfterInv, OpOK

LEMMA StartedNext == Started' => AfterTyped' /\ AfterInv'
BY StartedTyped, StartedWell, PTL

LEMMA InitStarted == Init => Started
<1> SUFFICES ASSUME Init PROVE Started
  OBVIOUS
<1> USE DatabaseAssumption DEF DatabaseAssumption
<1>1. afterdictinfo = Dicts /\ afterdictiteminfo = Words /\ amiss = {}
  BY DEF Init
<1>2. DOMAIN Dicts = 1..Len(Dicts) /\ Len(Dicts) \in Nat
  OBVIOUS
<1>3. Cardinality(DOMAIN Dicts) = Len(Dicts)
  BY <1>2, UpTo
<1>4. \A d \in DOMAIN Dicts : Dicts[d] \in [domain : Domain, isdeleted : BOOLEAN]
  BY ElementOf, Zenon
<1>5. DOMAIN Dicts \subseteq DictID
  BY <1>2 DEF DictID
<1>6. \A i \in DOMAIN Words : Words[i] \in [dict : DictID, word : Pair, isdeleted : BOOLEAN]
  BY <1>5
<1>7. DatabaseOK
  BY <1>1, <1>2, <1>3, <1>4, <1>6 DEF DatabaseOK
<1> QED BY <1>1, <1>7 DEF Init, Started

\* A stop between two statements leaves the rows well formed, and the server starts
\* with what they say.
LEMMA RestartStarts == ASSUME AfterTyped, Restart PROVE Started'
<1>1. DatabaseOK /\ \A g \in Pool : OpTyped(g)
  BY DEF AfterTyped, OpsTyped
<1>2. DatabaseOK'
  <2>1. CASE UNCHANGED <<afterdictinfo, afterdictiteminfo>>
    BY <1>1, <2>1 DEF DatabaseOK
  <2>2. ASSUME NEW d, NEW mark \in BOOLEAN, MarkDict(d, 1, mark) PROVE DatabaseOK'
    BY <1>1, <2>2, Marking
  <2>3. ASSUME NEW g \in Pool, AtStatement(g), NEW n, afterdictinfo' = afterdictinfo,
               afterdictiteminfo' = Inserted(afterdictiteminfo, NewRows(g, n))
        PROVE  DatabaseOK'
    BY <1>1, <2>3, WritingRows DEF AtStatement, Writing
  <2>4. ASSUME NEW i, afterdictinfo' = afterdictinfo,
               afterdictiteminfo' = [afterdictiteminfo EXCEPT ![i].isdeleted = FALSE]
        PROVE  DatabaseOK'
    BY <1>1, <2>4, RowTyped
  <2> QED BY <2>1, <2>2, <2>3, <2>4 DEF Restart, Interrupted
<1>3. PICK unread \in SUBSET LiveDicts' :
        /\ m_dict_info_map' = Loaded(unread)'.m_dict_info_map
        /\ m_dict_map' = Loaded(unread)'.m_dict_map
        /\ m_global_wordid' = Loaded(unread)'.m_global_wordid
        /\ amiss' = unread
  BY DEF Restart
<1>4. /\ m_dict_info_map' = Loaded(amiss)'.m_dict_info_map
      /\ m_dict_map' = Loaded(amiss)'.m_dict_map
      /\ m_global_wordid' = Loaded(amiss)'.m_global_wordid
  BY <1>3 DEF Loaded
<1>5. amiss' \subseteq DictID
  <2>1. Cardinality(DOMAIN afterdictinfo') \in Nat /\ MaxDict \in Nat
    BY <1>2, DatabaseAssumption DEF DatabaseOK, DatabaseAssumption
  <2> QED BY <1>2, <1>3, <2>1 DEF DatabaseOK, DictID, LiveDicts
<1> QED BY <1>2, <1>4, <1>5 DEF Restart, Started

-----------------------------------------------------------------------------
LEMMA TypedStep == AfterTyped /\ [Next]_vars => AfterTyped'
<1> SUFFICES ASSUME AfterTyped, [Next]_vars PROVE AfterTyped'
  OBVIOUS
<1>0. DatabaseOK /\ MapsTyped /\ OpsTyped
  BY DEF AfterTyped
<1>1. ASSUME UNCHANGED <<memory, database>>, DOMAIN op' = Pool,
             \A g \in Pool : op'[g] = op[g] \/ ~Writing(g)'
      PROVE  AfterTyped'
  BY <1>0, <1>1, OpsStayTyped DEF memory, database, AfterTyped, DatabaseOK, MapsTyped
<1>2. ASSUME NEW g \in Pool, Take(g) \/ Answer(g) PROVE AfterTyped'
  BY <1>0, <1>1, <1>2 DEF Take, Answer, Idle, Writing, OpsTyped
<1>3. ASSUME UNCHANGED <<memory, database, op>> PROVE AfterTyped'
  BY <1>0, <1>1, <1>3 DEF OpsTyped
<1>4. ASSUME NEW g \in Pool, Handle(g) PROVE AfterTyped'
  <2>1. ASSUME NEW x \in Domain, CreateDict(g, x) PROVE AfterTyped'
    BY <2>1, CreateDictTyped
  <2>2. ASSUME NEW d \in DictID, DeleteDict(g, d) \/ RecoverDict(g, d) PROVE AfterTyped'
    BY <2>2, DeleteDictTyped, RecoverDictTyped
  <2>3. ASSUME NEW d \in DictID, NEW x \in Domain, ModifyDict(g, d, x) PROVE AfterTyped'
    BY <2>3, ModifyDictTyped
  <2>4. ASSUME NEW d \in DictID, NEW word \in Pair, InsertWord(g, d, word) PROVE AfterTyped'
    <3>1. <<word>> \in Seq(Pair)
      OBVIOUS
    <3> QED BY <2>4, <3>1, InsertsTyped DEF InsertWord
  <2>5. ASSUME NEW d \in DictID, NEW file \in File, LoadWordFile(g, d, file) PROVE AfterTyped'
    <3>1. file \in Seq(Pair)
      BY AfterAssumption DEF AfterAssumption
    <3> QED BY <2>5, <3>1, InsertsTyped DEF LoadWordFile
  <2>6. ASSUME NEW d \in DictID, NEW i \in WordID,
               \/ DeleteWord(g, d, i) \/ RecoverWord(g, d, i)
               \/ \E word \in Pair : ModifyWord(g, d, i, word)
        PROVE  AfterTyped'
    BY <2>6, WordsTyped
  <2>7. CASE InsertStatements(g)
    BY <2>7, StatementsTyped
  <2> QED BY <1>4, <2>1, <2>2, <2>3, <2>4, <2>5, <2>6, <2>7 DEF Handle
<1>5. CASE Restart
  BY <1>5, RestartStarts, StartedNext
<1>6. ASSUME NEW t, (t \in Post /\ (BeginReplace(t) \/ EndReplace(t))) \/ Retest(t) \/ WakeUp(t)
      PROVE  AfterTyped'
  BY <1>3, <1>6 DEF BeginReplace, EndReplace, Retest, WakeUp
<1>7. CASE UNCHANGED vars
  BY <1>3, <1>7 DEF vars
<1> QED BY <1>2, <1>4, <1>5, <1>6, <1>7 DEF Next

LEMMA TypesOfAll == LockTypeOK /\ AfterTyped => TypeOK
<1> SUFFICES ASSUME LockTypeOK, AfterTyped PROVE TypeOK
  OBVIOUS
<1>1. DatabaseOK /\ MapsTyped
  BY DEF AfterTyped
<1>2. Range(m_dict_info_map) \subseteq Places
  BY <1>1 DEF MapsTyped, Range
<1> QED BY <1>1, <1>2 DEF TypeOK, MapsTyped, DatabaseOK

LEMMA AfterTypeHolds == Spec => [](LockInv /\ AfterTyped)
<1>1. Init => AfterTyped
  BY InitStarted, StartedTyped
<1> QED BY <1>1, TypedStep, LockHolds, PTL DEF Spec

\* The four maps of the dictionaries and the rows of the database have their types,
\* whatever the database refuses and whatever ids requests name.
THEOREM AfterTypeCorrect == Spec => []TypeOK
<1>1. LockInv => LockTypeOK
  BY DEF LockInv
<1> QED BY <1>1, TypesOfAll, AfterTypeHolds, PTL

-----------------------------------------------------------------------------
(* Steps that leave the dictionaries alone. *)

\* The writer goes on while others move.
LEMMA WriterStays ==
  ASSUME LockTypeOK, NEW t \in Thread, NEW g \in Thread, at[g] = "writing",
         \/ ReadLock(t) \/ ReadRetest(t) \/ ReadUnlock(t) \/ WriteLock(t)
         \/ WriteRetest(t) \/ SpuriousWakeup(t) \/ (WriteUnlock(t) /\ t # g)
  PROVE  at'[g] = "writing"
<1>1. at \in [Thread -> Place]
  BY DEF LockTypeOK
<1>2. CASE ReadLock(t) \/ ReadRetest(t) \/ WriteLock(t) \/ WriteRetest(t) \/ SpuriousWakeup(t)
  BY <1>1, <1>2 DEF ReadLock, ReadRetest, WriteLock, WriteRetest, SpuriousWakeup
<1>3. CASE ReadUnlock(t) \/ (WriteUnlock(t) /\ t # g)
  <2>1. t # g /\ \E hold : Leave(t, hold)
    BY <1>3 DEF ReadUnlock, WriteUnlock
  <2>2. CASE NotifyOneWriter(t)
    BY <1>1, <2>1, <2>2 DEF NotifyOneWriter, Threads
  <2>3. CASE NotifyAllReaders(t)
    BY <1>1, <2>1, <2>3 DEF NotifyAllReaders
  <2>4. CASE at' = [at EXCEPT ![t] = "out"]
    BY <1>1, <2>1, <2>4
  <2> QED BY <2>1, <2>2, <2>3, <2>4 DEF Leave
<1> QED BY <1>2, <1>3

LEMMA Quiet ==
  ASSUME AfterInv, UNCHANGED <<memory, database>>,
         \A g \in Pool : /\ Writing(g)' <=> Writing(g)
                         /\ Writing(g) => op'[g] = op[g] /\ at'[g] = "writing"
  PROVE  AfterInv'
<1>1. /\ UNCHANGED <<m_dict_info_map, m_dict_map, m_global_wordid, afterdictinfo,
                     afterdictiteminfo, left_behind, amiss>>
  BY DEF memory, database
<1>2. ASSUME NEW d PROVE UnderWay(d)' = UnderWay(d)
  BY DEF UnderWay, New
<1>3. ASSUME NEW d \in DictID \ amiss PROVE Well(d, UnderWay(d))'
  <2>1. PICK ws : ws = UnderWay(d)
    OBVIOUS
  <2>2. Well(d, ws)
    BY <2>1 DEF AfterInv
  <2>3. Well(d, ws)'
    BY <1>1, <2>2 DEF Well, StoredAs, LiveRows, RowsOf, LiveDicts, Known, The, Domain_of
  <2> QED BY <1>2, <2>1, <2>3 DEF Well
<1>4. ASSUME NEW g \in Pool PROVE OpOK(g)'
  <2>1. CASE Writing(g)
    <3>1. OpOK(g) /\ op'[g] = op[g] /\ at'[g] = "writing"
      BY <2>1 DEF AfterInv
    <3>2. New(g)' = New(g) /\ Writing(g)'
      BY <2>1, <3>1 DEF New
    <3>3. The(op[g].dict)' = The(op[g].dict) /\ Known(op[g].dict)' = Known(op[g].dict)
      BY <1>1, <3>1 DEF The, Domain_of, Known
    <3> QED BY <1>1, <2>1, <3>1, <3>2, <3>3 DEF OpOK
  <2>2. CASE ~Writing(g)
    BY <2>2 DEF OpOK
  <2> QED BY <2>1, <2>2
<1> QED BY <1>1, <1>3, <1>4 DEF AfterInv

LEMMA QuietStep ==
  ASSUME AfterTyped, AfterInv, LockTypeOK,
         \/ \E g \in Pool : Take(g) \/ Answer(g)
         \/ \E p \in Post : BeginReplace(p) \/ EndReplace(p)
         \/ \E t \in Thread : Retest(t) \/ WakeUp(t)
         \/ UNCHANGED vars
  PROVE  AfterInv'
<1>0. /\ Pool \subseteq Thread /\ Post \subseteq Thread /\ Pool \cap Post = {}
      /\ DOMAIN op = Pool /\ \A g \in Pool : Writing(g) => at[g] = "writing"
  BY AfterAssumption DEF AfterAssumption, AfterTyped, OpsTyped, AfterInv, OpOK
<1>1. ASSUME NEW g \in Pool, Take(g) PROVE AfterInv'
  <2>1. /\ WriteLock(g) /\ op[g] = Idle /\ op' = [op EXCEPT ![g] = [type |-> "Begin"]]
        /\ UNCHANGED <<memory, database>>
    BY <1>1 DEF Take
  <2>2. ~Writing(g) /\ ~Writing(g)'
    BY <1>0, <2>1 DEF Writing, Idle
  <2>3. \A h \in Pool \ {g} : op'[h] = op[h]
    BY <1>0, <2>1
  <2>4. \A h \in Pool : Writing(h) => at'[h] = "writing"
    BY <1>0, <2>1, WriterStays
  <2> QED BY <1>0, <2>1, <2>2, <2>3, <2>4, Quiet DEF Writing
<1>2. ASSUME NEW g \in Pool, Answer(g) PROVE AfterInv'
  <2>1. /\ WriteUnlock(g) /\ op[g].type = "Done" /\ op' = [op EXCEPT ![g] = Idle]
        /\ UNCHANGED <<memory, database>>
    BY <1>2 DEF Answer
  <2>2. ~Writing(g) /\ ~Writing(g)'
    BY <1>0, <2>1 DEF Writing, Idle
  <2>3. \A h \in Pool \ {g} : op'[h] = op[h]
    BY <1>0, <2>1
  <2>4. \A h \in Pool : Writing(h) => at'[h] = "writing"
    BY <1>0, <2>1, <2>2, WriterStays
  <2> QED BY <1>0, <2>1, <2>2, <2>3, <2>4, Quiet DEF Writing
<1>3. ASSUME NEW t \in Thread, op' = op, UNCHANGED <<memory, database>>,
             \/ ReadLock(t) \/ ReadUnlock(t) \/ ReadRetest(t) \/ WriteRetest(t) \/ SpuriousWakeup(t)
      PROVE  AfterInv'
  <2>1. \A h \in Pool : Writing(h) => at'[h] = "writing"
    BY <1>0, <1>3, WriterStays
  <2>2. \A h \in Pool : Writing(h)' <=> Writing(h)
    BY <1>3 DEF Writing
  <2> QED BY <1>0, <1>3, <2>1, <2>2, Quiet
<1>4. CASE UNCHANGED vars
  <2>1. UNCHANGED <<memory, database>> /\ op' = op /\ at' = at
    BY <1>4 DEF vars, lockvars
  <2>2. \A h \in Pool : Writing(h)' <=> Writing(h)
    BY <2>1 DEF Writing
  <2> QED BY <1>0, <2>1, <2>2, Quiet
<1>5. ASSUME NEW p \in Post, BeginReplace(p) \/ EndReplace(p) PROVE AfterInv'
  BY <1>0, <1>3, <1>5 DEF BeginReplace, EndReplace
<1>6. ASSUME NEW t \in Thread, Retest(t) \/ WakeUp(t) PROVE AfterInv'
  BY <1>3, <1>6 DEF Retest, WakeUp
<1> QED BY <1>1, <1>2, <1>4, <1>5, <1>6

-----------------------------------------------------------------------------
(* Steps that change dictionaries: no other worker is between its two steps. *)

LEMMA Alone ==
  ASSUME AfterInv, Exclusion, NEW g \in Pool, at[g] = "writing"
  PROVE  /\ \A h \in Pool \ {g} : ~Writing(h)
         /\ ~Writing(g) => \A d \in DictID \ amiss : Settled(d)
<1>1. \A h \in Pool \ {g} : ~Writing(h)
  BY AfterAssumption DEF AfterAssumption, AfterInv, OpOK, Exclusion
<1>2. ASSUME ~Writing(g), NEW d \in DictID \ amiss PROVE Settled(d)
  <2>1. UnderWay(d) = {}
    BY <1>1, <1>2 DEF UnderWay
  <2> QED BY <2>1 DEF AfterInv, Settled
<1> QED BY <1>1, <1>2

\* When the worker is done it is enough that the dictionaries not amiss are settled again.
LEMMA Ending ==
  ASSUME AfterTyped, AfterInv, Exclusion, NEW g \in Pool, at[g] = "writing", Ends(g),
         \A d \in DictID \ amiss' : Settled(d)'
  PROVE  AfterInv'
<1>1. \A h \in Pool \ {g} : ~Writing(h)
  BY Alone
<1>2. DOMAIN op = Pool
  BY DEF AfterTyped, OpsTyped
<1>3. \A h \in Pool : ~Writing(h)'
  BY <1>1, <1>2 DEF Ends, Writing
<1>4. ASSUME NEW d \in DictID \ amiss' PROVE Well(d, UnderWay(d))'
  <2>1. UnderWay(d)' = {}
    BY <1>3 DEF UnderWay
  <2>2. Well(d, {})'
    BY DEF Settled
  <2> QED BY <2>1, <2>2 DEF Well
<1> QED BY <1>3, <1>4 DEF AfterInv, OpOK

\* A step leaves alone what memory, and what the database, has of a dictionary.
SameMaps(e) ==
  /\ Known(e)' <=> Known(e)
  /\ Known(e) => m_dict_info_map'[e] = m_dict_info_map[e]
  /\ \A x \in Domain : /\ e \in DOMAIN m_dict_map'[x] <=> e \in DOMAIN m_dict_map[x]
                       /\ e \in DOMAIN m_dict_map[x] => m_dict_map'[x][e] = m_dict_map[x][e]
SameRows(e) ==
  /\ e \in LiveDicts' <=> e \in LiveDicts
  /\ e \in LiveDicts => afterdictinfo'[e].domain = afterdictinfo[e].domain
  /\ LiveRows(e)' = LiveRows(e)
  /\ \A i \in LiveRows(e) : afterdictiteminfo'[i].word = afterdictiteminfo[i].word

\* Where the maps lead for a dictionary that is well.
LEMMA Leading ==
  ASSUME DatabaseOK, NEW d, NEW ws, Well(d, ws)
  PROVE  /\ Known(d) <=> d \in LiveDicts
         /\ Known(d) <=> Found(d)
         /\ Known(d) => /\ Domain_of(d) \in Domain /\ Domain_of(d) = afterdictinfo[d].domain
                        /\ d \in DOMAIN afterdictinfo
                        /\ d \in DOMAIN m_dict_map[Domain_of(d)]
<1>1. LiveDicts \subseteq DOMAIN afterdictinfo
  BY DEF LiveDicts
<1>2. Known(d) => Domain_of(d) \in Domain
  BY <1>1 DEF Well, DatabaseOK
<1> QED BY <1>1, <1>2 DEF Well, Found

LEMMA Unconcerned ==
  ASSUME DatabaseOK, NEW e, NEW ws, Well(e, ws), SameMaps(e), SameRows(e),
         left_behind \subseteq left_behind'
  PROVE  Well(e, ws)'
<1>1. \A x \in Domain : e \in DOMAIN m_dict_map'[x] <=> Known(e)' /\ Domain_of(e)' = x
  BY DEF Well, SameMaps, Known, Domain_of
<1>2. Known(e)' <=> e \in LiveDicts'
  BY DEF Well, SameMaps, SameRows
<1>3. ASSUME Known(e)'
      PROVE  /\ Domain_of(e)' = afterdictinfo'[e].domain
             /\ Agree(The(e), ws)' /\ StoredAs(e, The(e).m_wordid_map)'
  <2>1. /\ Known(e) /\ Domain_of(e)' = Domain_of(e) /\ Domain_of(e) \in Domain
        /\ e \in DOMAIN m_dict_map[Domain_of(e)] /\ e \in LiveDicts
    BY <1>3, Leading DEF SameMaps, Domain_of
  <2>2. PICK dict : dict = The(e)
    OBVIOUS
  <2>3. The(e)' = dict
    BY <2>1, <2>2 DEF SameMaps, The
  <2>4. Agree(dict, ws) /\ StoredAs(e, dict.m_wordid_map)
    BY <2>1, <2>2 DEF Well
  <2>5. StoredAs(e, dict.m_wordid_map)'
    BY <2>4 DEF StoredAs, SameRows
  <2> QED BY <2>1, <2>3, <2>4, <2>5 DEF Well, SameRows
<1> QED BY <1>1, <1>2, <1>3 DEF Well

\* A request that concerns dictionary d alone, or makes a dictionary amiss.
LEMMA Concerning ==
  ASSUME AfterTyped, AfterInv, Exclusion, NEW g \in Pool, at[g] = "writing", ~Writing(g), Ends(g),
         NEW d, amiss \subseteq amiss', left_behind \subseteq left_behind',
         \A e \in DictID \ amiss' : e # d => SameMaps(e) /\ SameRows(e),
         d \in DictID \ amiss' => Settled(d)'
  PROVE  AfterInv'
<1>1. DatabaseOK
  BY DEF AfterTyped
<1>2. ASSUME NEW e \in DictID \ amiss', e # d PROVE Settled(e)'
  <2>1. Settled(e)
    BY Alone
  <2> QED BY <1>1, <1>2, <2>1, Unconcerned DEF Settled
<1>3. \A e \in DictID \ amiss' : Settled(e)'
  BY <1>2
<1> QED BY <1>3, Ending

LEMMA SameDictionaries ==
  ASSUME UNCHANGED <<m_dict_info_map, m_dict_map>>, NEW e
  PROVE  SameMaps(e)
BY DEF SameMaps, Known

LEMMA SameDatabase ==
  ASSUME UNCHANGED <<afterdictinfo, afterdictiteminfo>>, NEW e
  PROVE  SameRows(e)
BY DEF SameRows, LiveDicts, LiveRows, RowsOf

\* A request that leaves alone every dictionary that it does not make amiss.
LEMMA Sparing ==
  ASSUME AfterTyped, AfterInv, Exclusion, NEW g \in Pool, at[g] = "writing", ~Writing(g), Ends(g),
         amiss \subseteq amiss', left_behind \subseteq left_behind',
         \A e \in DictID \ amiss' : SameMaps(e) /\ SameRows(e)
  PROVE  AfterInv'
<1>1. ASSUME NEW e \in DictID \ amiss' PROVE Settled(e)'
  <2>1. Settled(e)
    BY Alone
  <2> QED BY <2>1, Unconcerned DEF Settled, AfterTyped
<1> QED BY <1>1, Ending

\* A request that changes nothing.
LEMMA Refusing ==
  ASSUME AfterTyped, AfterInv, Exclusion, NEW g \in Pool, at[g] = "writing", ~Writing(g), Ends(g),
         UNCHANGED <<m_dict_info_map, m_dict_map, afterdictinfo, afterdictiteminfo, left_behind, amiss>>
  PROVE  AfterInv'
<1>1. \A e \in DictID \ amiss' : SameMaps(e) /\ SameRows(e)
  BY SameDictionaries, SameDatabase
<1> QED BY <1>1, Sparing

-----------------------------------------------------------------------------
(* The requests about dictionaries. *)

LEMMA Beginning ==
  ASSUME NEW g \in Pool, NEW type, Works(g, type)
  PROVE  at[g] = "writing" /\ ~Writing(g)
BY DEF Works, Writing

\* Changes of one dictionary's place in memory leave the others' alone.
LEMMA OnlyThisPlace ==
  ASSUME MapsTyped, NEW d, NEW e, e # d,
         /\ DOMAIN m_dict_info_map' \cup {d} = DOMAIN m_dict_info_map \cup {d}
         /\ \A k \in DOMAIN m_dict_info_map \ {d} : m_dict_info_map'[k] = m_dict_info_map[k],
         \A x \in Domain :
           /\ DOMAIN m_dict_map'[x] \cup {d} = DOMAIN m_dict_map[x] \cup {d}
           /\ \A k \in DOMAIN m_dict_map[x] \ {d} : m_dict_map'[x][k] = m_dict_map[x][k]
  PROVE  SameMaps(e)
BY DEF SameMaps, Known

\* A new dictionary is empty; one whose INSERT is refused gets a domain only.
LEMMA CreateDictStep ==
  ASSUME AfterTyped, AfterInv, Exclusion, NEW g \in Pool, NEW x \in Domain, CreateDict(g, x)
  PROVE  AfterInv'
<1> DEFINE d == Cardinality(DOMAIN afterdictinfo) + 1
<1>1. /\ at[g] = "writing" /\ ~Writing(g) /\ Ends(g)
      /\ DatabaseOK /\ MapsTyped /\ afterdictiteminfo' = afterdictiteminfo
  BY Beginning DEF CreateDict, Working, AfterTyped
<1>2. CASE /\ d \in DictID
           /\ afterdictinfo' = Inserted(afterdictinfo, Entry(d, [domain |-> x, isdeleted |-> FALSE]))
           /\ m_dict_map' = [m_dict_map EXCEPT ![x] = Inserted(@, Entry(d, NewDictionary))]
           /\ m_dict_info_map' = Inserted(m_dict_info_map, Entry(d, x))
           /\ left_behind' = left_behind \cup LiveRows(d)
           /\ amiss' = amiss
  <2>1. PICK row : row = [domain |-> x, isdeleted |-> FALSE]
    OBVIOUS
  <2>2. row \in [domain : Domain, isdeleted : BOOLEAN] /\ row.domain = x /\ ~row.isdeleted
    BY <2>1
  <2>3. PICK k : k = d
    OBVIOUS
  <2>4. /\ k \notin DOMAIN afterdictinfo /\ k \in DictID
        /\ DOMAIN afterdictinfo' = DOMAIN afterdictinfo \cup {k}
        /\ \A e \in DOMAIN afterdictinfo : afterdictinfo'[e] = afterdictinfo[e]
        /\ afterdictinfo'[k] = row
    BY <1>1, <1>2, <2>1, <2>2, <2>3, NextDictionary
  <2>5. x \in Places /\ DOMAIN m_dict_map = Places
    BY <1>1 DEF MapsTyped, Places
  <2>6. /\ DOMAIN m_dict_info_map' = DOMAIN m_dict_info_map \cup {k}
        /\ \A e \in DOMAIN m_dict_info_map : m_dict_info_map'[e] = m_dict_info_map[e]
        /\ k \notin DOMAIN m_dict_info_map => m_dict_info_map'[k] = x
    BY <1>2, <2>3 DEF Inserted, Entry
  <2>7. /\ \A y \in Places : y # x => m_dict_map'[y] = m_dict_map[y]
        /\ DOMAIN m_dict_map'[x] = DOMAIN m_dict_map[x] \cup {k}
        /\ \A e \in DOMAIN m_dict_map[x] : m_dict_map'[x][e] = m_dict_map[x][e]
        /\ k \notin DOMAIN m_dict_map[x] => m_dict_map'[x][k] = NewDictionary
    BY <1>2, <2>3, <2>5 DEF Inserted, Entry
  <2>8. ASSUME NEW e \in DictID \ amiss', e # k PROVE SameMaps(e) /\ SameRows(e)
    <3>1. SameMaps(e)
      BY <1>1, <2>6, <2>7, <2>8, OnlyThisPlace DEF Places
    <3>2. SameRows(e)
      BY <1>1, <2>4, <2>8 DEF SameRows, LiveDicts, LiveRows, RowsOf
    <3> QED BY <3>1, <3>2
  <2>9. ASSUME k \in DictID \ amiss' PROVE Settled(k)'
    <3>1. Settled(k) /\ k \notin LiveDicts
      BY <1>1, <1>2, <2>4, <2>9, Alone DEF LiveDicts
    <3>2. ~Known(k) /\ \A y \in Domain : k \notin DOMAIN m_dict_map[y]
      BY <3>1 DEF Settled, Well
    <3>3. /\ Known(k)' /\ Domain_of(k)' = x /\ k \in LiveDicts' /\ afterdictinfo'[k].domain = x
          /\ m_dict_map'[x][k] = NewDictionary
      BY <2>2, <2>4, <2>6, <2>7, <3>2 DEF Known, Domain_of, LiveDicts
    <3>4. \A y \in Domain : k \in DOMAIN m_dict_map'[y] <=> y = x
      BY <2>5, <2>7, <3>2 DEF Places
    <3>5. The(k)' = NewDictionary
      BY <3>3 DEF The, Domain_of
    <3>6. Agree(The(k), {})'
      BY <3>5, EmptyDictionary
    <3>7. StoredAs(k, The(k).m_wordid_map)'
      <4>1. LiveRows(k)' = LiveRows(k)
        BY <1>1 DEF LiveRows, RowsOf
      <4> QED BY <1>2, <2>3, <3>5, <4>1, EmptyDictionary DEF StoredAs
    <3> QED BY <3>3, <3>4, <3>6, <3>7 DEF Settled, Well
  <2> QED BY <1>1, <1>2, <2>8, <2>9, Concerning
<1>3. ASSUME NEW any \in DictID,
             m_dict_info_map' = Inserted(m_dict_info_map, Entry(any, x)),
             amiss' = amiss \cup ({any} \ DOMAIN m_dict_info_map),
             UNCHANGED <<m_dict_map, afterdictinfo, left_behind>>
      PROVE  AfterInv'
  <2>1. /\ DOMAIN m_dict_info_map' = DOMAIN m_dict_info_map \cup {any}
        /\ \A e \in DOMAIN m_dict_info_map : m_dict_info_map'[e] = m_dict_info_map[e]
    BY <1>3 DEF Inserted, Entry
  <2>2. ASSUME NEW e \in DictID \ amiss' PROVE SameMaps(e) /\ SameRows(e)
    BY <1>1, <1>3, <2>1, <2>2, SameDatabase DEF SameMaps, Known
  <2> QED BY <1>1, <1>3, <2>2, Sparing
<1> QED BY <1>2, <1>3 DEF CreateDict

\* A dictionary moves to another group; when the statement fails, it is amiss.
LEMMA ModifyDictStep ==
  ASSUME AfterTyped, AfterInv, Exclusion, NEW g \in Pool, NEW d \in DictID, NEW x \in Domain,
         ModifyDict(g, d, x)
  PROVE  AfterInv'
<1> DEFINE moves == Found(d) /\ Domain_of(d) \notin {x, Nowhere} /\ d \notin DOMAIN m_dict_map[x]
<1>1. /\ at[g] = "writing" /\ ~Writing(g) /\ Ends(g) /\ DatabaseOK /\ MapsTyped
      /\ UNCHANGED <<afterdictiteminfo, left_behind>>
  BY Beginning DEF ModifyDict, Working, AfterTyped
<1>2. ASSUME moves,
             m_dict_map' = [m_dict_map EXCEPT ![Domain_of(d)] = Drop(@, d),
                                              ![x] = Inserted(@, Entry(d, The(d)))],
             \/ /\ m_dict_info_map' = [m_dict_info_map EXCEPT ![d] = x]
                /\ afterdictinfo' = [afterdictinfo EXCEPT ![d].domain = x]
                /\ amiss' = amiss
             \/ /\ amiss' = amiss \cup {d}
                /\ UNCHANGED <<m_dict_info_map, afterdictinfo>>
      PROVE  AfterInv'
  <2>1. PICK y : y = Domain_of(d)
    OBVIOUS
  <2>2. PICK dict : dict = The(d)
    OBVIOUS
  <2>3. /\ y # x /\ y # Nowhere /\ y \in Places /\ x \in Places /\ Known(d) /\ d \in DOMAIN m_dict_map[y]
        /\ d \notin DOMAIN m_dict_map[x] /\ DOMAIN m_dict_map = Places /\ x # Nowhere
    BY <1>1, <1>2, <2>1, AfterAssumption DEF AfterAssumption, Found, Known, Domain_of, MapsTyped, Places
  <2>4. /\ m_dict_map'[y] = Drop(m_dict_map[y], d)
        /\ m_dict_map'[x] = Inserted(m_dict_map[x], Entry(d, dict))
        /\ \A z \in Places : z # x /\ z # y => m_dict_map'[z] = m_dict_map[z]
    BY <1>2, <2>1, <2>2, <2>3
  <2>5. /\ DOMAIN m_dict_map'[y] = DOMAIN m_dict_map[y] \ {d}
        /\ \A k \in DOMAIN m_dict_map[y] \ {d} : m_dict_map'[y][k] = m_dict_map[y][k]
    BY <2>4 DEF Drop, Restrict
  <2>6. /\ DOMAIN m_dict_map'[x] = DOMAIN m_dict_map[x] \cup {d}
        /\ \A k \in DOMAIN m_dict_map[x] : m_dict_map'[x][k] = m_dict_map[x][k]
        /\ m_dict_map'[x][d] = dict
    BY <2>3, <2>4 DEF Inserted, Entry
  <2>7. /\ DOMAIN m_dict_info_map' = DOMAIN m_dict_info_map
        /\ \A k \in DOMAIN m_dict_info_map \ {d} : m_dict_info_map'[k] = m_dict_info_map[k]
        /\ DOMAIN afterdictinfo' = DOMAIN afterdictinfo
        /\ \A k \in DOMAIN afterdictinfo \ {d} : afterdictinfo'[k] = afterdictinfo[k]
    BY <1>2
  <2>8. ASSUME NEW e \in DictID \ amiss', e # d PROVE SameMaps(e) /\ SameRows(e)
    <3>1. \A z \in Domain :
            /\ DOMAIN m_dict_map'[z] \cup {d} = DOMAIN m_dict_map[z] \cup {d}
            /\ \A k \in DOMAIN m_dict_map[z] \ {d} : m_dict_map'[z][k] = m_dict_map[z][k]
      BY <2>3, <2>4, <2>5, <2>6 DEF Places
    <3>2. SameMaps(e)
      BY <1>1, <2>7, <2>8, <3>1, OnlyThisPlace
    <3>3. SameRows(e)
      BY <1>1, <2>7, <2>8 DEF SameRows, LiveDicts, LiveRows, RowsOf
    <3> QED BY <3>2, <3>3
  <2>9. ASSUME d \in DictID \ amiss' PROVE Settled(d)'
    <3>1. /\ m_dict_info_map' = [m_dict_info_map EXCEPT ![d] = x]
          /\ afterdictinfo' = [afterdictinfo EXCEPT ![d].domain = x] /\ d \notin amiss
      BY <1>2, <2>9
    <3>2. Settled(d)
      BY <1>1, <2>9, <3>1, Alone
    <3>3. d \in LiveDicts /\ d \in DOMAIN afterdictinfo /\ ~afterdictinfo[d].isdeleted
      BY <2>3, <3>2 DEF Settled, Well, LiveDicts
    <3>4. PICK row : row = afterdictinfo[d]
      OBVIOUS
    <3>5. row \in [domain : Domain, isdeleted : BOOLEAN]
      BY <1>1, <3>3, <3>4 DEF DatabaseOK
    <3>6. afterdictinfo'[d].domain = x /\ ~afterdictinfo'[d].isdeleted
      BY <3>1, <3>3, <3>4, <3>5
    <3>7. d \in LiveDicts' /\ Known(d)' /\ Domain_of(d)' = x
      BY <2>3, <2>7, <3>1, <3>3, <3>6 DEF LiveDicts, Known, Domain_of
    <3>8. \A z \in Domain : d \in DOMAIN m_dict_map'[z] <=> z = x
      <4>1. \A z \in Domain : d \in DOMAIN m_dict_map[z] => z = y
        BY <2>1, <3>2 DEF Settled, Well
      <4> QED BY <2>4, <2>5, <2>6, <4>1 DEF Places
    <3>9. The(d)' = dict
      BY <2>6, <3>7 DEF The, Domain_of
    <3>10. Agree(dict, {}) /\ StoredAs(d, dict.m_wordid_map)
      BY <2>2, <2>3, <3>2 DEF Settled, Well
    <3>11. StoredAs(d, dict.m_wordid_map)'
      BY <1>1, <3>10 DEF StoredAs, LiveRows, RowsOf
    <3> QED BY <3>6, <3>7, <3>8, <3>9, <3>10, <3>11 DEF Settled, Well
  <2> QED BY <1>1, <1>2, <2>8, <2>9, Concerning
<1>3. ASSUME Found(d), Domain_of(d) \in {x, Nowhere},
             afterdictinfo' = [afterdictinfo EXCEPT ![d].domain = x],
             UNCHANGED <<m_dict_info_map, m_dict_map, amiss>>
      PROVE  AfterInv'
  <2>1. ASSUME NEW e \in DictID \ amiss' PROVE SameMaps(e) /\ SameRows(e)
    <3>1. SameMaps(e)
      BY <1>3, SameDictionaries
    <3>2. ASSUME e = d, e \in LiveDicts PROVE afterdictinfo[d].domain = x /\ ~afterdictinfo[d].isdeleted
      <4>1. Settled(d)
        BY <1>1, <1>3, <2>1, <3>2, Alone
      <4>2. Domain_of(d) \in Domain /\ Domain_of(d) = afterdictinfo[d].domain
        BY <1>1, <3>2, <4>1, Leading DEF Settled
      <4> QED BY <1>3, <3>2, <4>2, AfterAssumption DEF AfterAssumption, LiveDicts
    <3>3. ASSUME NEW k \in DOMAIN afterdictinfo
          PROVE  afterdictinfo'[k].isdeleted = afterdictinfo[k].isdeleted
      <4>1. PICK row : row = afterdictinfo[k]
        OBVIOUS
      <4>2. row \in [domain : Domain, isdeleted : BOOLEAN]
        BY <1>1, <4>1 DEF DatabaseOK
      <4> QED BY <1>3, <4>1, <4>2
    <3>4. /\ DOMAIN afterdictinfo' = DOMAIN afterdictinfo
          /\ \A k \in DOMAIN afterdictinfo : k # d => afterdictinfo'[k] = afterdictinfo[k]
      BY <1>3
    <3>5. ASSUME d \in DOMAIN afterdictinfo PROVE afterdictinfo'[d].domain = x
      <4>1. PICK row : row = afterdictinfo[d]
        OBVIOUS
      <4>2. row \in [domain : Domain, isdeleted : BOOLEAN]
        BY <1>1, <3>5, <4>1 DEF DatabaseOK
      <4> QED BY <1>3, <3>5, <4>1, <4>2
    <3>6. LiveRows(e)' = LiveRows(e) /\ LiveDicts' = LiveDicts /\ LiveDicts \subseteq DOMAIN afterdictinfo
      BY <1>1, <3>3, <3>4 DEF LiveRows, RowsOf, LiveDicts
    <3>7. SameRows(e)
      BY <1>1, <3>2, <3>4, <3>5, <3>6 DEF SameRows
    <3> QED BY <3>1, <3>7
  <2> QED BY <1>1, <1>3, <2>1, Sparing
<1>4. CASE UNCHANGED <<m_dict_info_map, m_dict_map, afterdictinfo, amiss>>
  BY <1>1, <1>4, Refusing
<1> QED BY <1>2, <1>3, <1>4 DEF ModifyDict

\* The statements that mark a dictionary and its words concern no other.
LEMMA MarkingThis ==
  ASSUME DatabaseOK, NEW d, NEW n, NEW mark \in BOOLEAN, MarkDict(d, n, mark)
  PROVE  /\ \A e : e # d => SameRows(e)
         /\ n = 2 =>
              /\ \A e : RowsOf(e)' = RowsOf(e)
              /\ \A i \in DOMAIN afterdictiteminfo : afterdictiteminfo'[i].word = afterdictiteminfo[i].word
              /\ LiveRows(d)' = IF mark THEN {} ELSE RowsOf(d)
              /\ d \in LiveDicts' <=> d \in DOMAIN afterdictinfo /\ ~mark
              /\ d \in DOMAIN afterdictinfo => afterdictinfo'[d].domain = afterdictinfo[d].domain
<1>1. /\ DOMAIN afterdictiteminfo' = DOMAIN afterdictiteminfo
      /\ \A i \in DOMAIN afterdictiteminfo :
           /\ i \notin RowsOf(d) => afterdictiteminfo'[i] = afterdictiteminfo[i]
           /\ afterdictiteminfo'[i].word = afterdictiteminfo[i].word
           /\ afterdictiteminfo'[i].dict = afterdictiteminfo[i].dict
           /\ n = 2 /\ i \in RowsOf(d) => afterdictiteminfo'[i].isdeleted = mark
  <2> SUFFICES ASSUME NEW i \in DOMAIN afterdictiteminfo
               PROVE  /\ DOMAIN afterdictiteminfo' = DOMAIN afterdictiteminfo
                      /\ i \notin RowsOf(d) => afterdictiteminfo'[i] = afterdictiteminfo[i]
                      /\ afterdictiteminfo'[i].word = afterdictiteminfo[i].word
                      /\ afterdictiteminfo'[i].dict = afterdictiteminfo[i].dict
                      /\ n = 2 /\ i \in RowsOf(d) => afterdictiteminfo'[i].isdeleted = mark
    BY DEF MarkDict
  <2>1. PICK row : row = afterdictiteminfo[i]
    OBVIOUS
  <2>2. row \in [dict : DictID, word : Pair, isdeleted : BOOLEAN]
    BY <2>1 DEF DatabaseOK
  <2> QED BY <2>1, <2>2 DEF MarkDict
<1>2. /\ DOMAIN afterdictinfo' = DOMAIN afterdictinfo
      /\ \A e \in DOMAIN afterdictinfo : e # d => afterdictinfo'[e] = afterdictinfo[e]
  BY DEF MarkDict
<1>3. ASSUME n = 2, d \in DOMAIN afterdictinfo
      PROVE  afterdictinfo'[d].domain = afterdictinfo[d].domain /\ afterdictinfo'[d].isdeleted = mark
  <2>1. PICK row : row = afterdictinfo[d]
    OBVIOUS
  <2>2. row \in [domain : Domain, isdeleted : BOOLEAN]
    BY <1>3, <2>1 DEF DatabaseOK
  <2> QED BY <1>3, <2>1, <2>2 DEF MarkDict
<1>4. ASSUME NEW e, e # d PROVE SameRows(e)
  <2>1. \A i \in RowsOf(e) : i \notin RowsOf(d) /\ i \in DOMAIN afterdictiteminfo
    BY <1>4 DEF RowsOf
  <2>2. LiveRows(e)' = LiveRows(e) /\ LiveRows(e) \subseteq RowsOf(e)
    BY <1>1, <2>1 DEF LiveRows, RowsOf
  <2>3. (e \in LiveDicts' <=> e \in LiveDicts) /\ (e \in LiveDicts => afterdictinfo'[e] = afterdictinfo[e])
    BY <1>2, <1>4 DEF LiveDicts
  <2> QED BY <1>1, <2>1, <2>2, <2>3 DEF SameRows
<1>5. ASSUME n = 2
      PROVE  /\ \A e : RowsOf(e)' = RowsOf(e)
             /\ \A i \in DOMAIN afterdictiteminfo : afterdictiteminfo'[i].word = afterdictiteminfo[i].word
             /\ LiveRows(d)' = IF mark THEN {} ELSE RowsOf(d)
             /\ d \in LiveDicts' <=> d \in DOMAIN afterdictinfo /\ ~mark
             /\ d \in DOMAIN afterdictinfo => afterdictinfo'[d].domain = afterdictinfo[d].domain
  <2>1. \A e : RowsOf(e)' = RowsOf(e)
    BY <1>1 DEF RowsOf
  <2>2. LiveRows(d)' = {i \in RowsOf(d) : ~mark}
    BY <1>1, <1>5, <2>1 DEF LiveRows, RowsOf
  <2>3. d \in LiveDicts' <=> d \in DOMAIN afterdictinfo /\ ~mark
    BY <1>2, <1>3, <1>5 DEF LiveDicts
  <2> QED BY <1>1, <1>3, <1>5, <2>1, <2>2, <2>3
<1> QED BY <1>4, <1>5

\* A dictionary goes, with its words; when a statement fails, it is amiss.
LEMMA DeleteDictStep ==
  ASSUME AfterTyped, AfterInv, Exclusion, NEW g \in Pool, NEW d \in DictID, DeleteDict(g, d)
  PROVE  AfterInv'
<1>1. /\ at[g] = "writing" /\ ~Writing(g) /\ Ends(g) /\ DatabaseOK /\ MapsTyped
      /\ left_behind' = left_behind
  BY Beginning DEF DeleteDict, Working, AfterTyped
<1>2. ASSUME Known(d), m_dict_info_map' = Drop(m_dict_info_map, d),
             m_dict_map' = [m_dict_map EXCEPT ![Domain_of(d)] = Drop(@, d)],
             \/ /\ Found(d)
                /\ \E n \in Executed("DeleteDict") :
                     MarkDict(d, n, TRUE) /\ amiss' = amiss \cup Struck(d, n)
             \/ ~Found(d) /\ UNCHANGED <<afterdictinfo, afterdictiteminfo, amiss>>
      PROVE  AfterInv'
  <2>1. PICK y : y = Domain_of(d)
    OBVIOUS
  <2>2. y \in Places /\ DOMAIN m_dict_map = Places
    BY <1>1, <1>2, <2>1 DEF Known, Domain_of, MapsTyped
  <2>3. /\ DOMAIN m_dict_info_map' = DOMAIN m_dict_info_map \ {d}
        /\ \A k \in DOMAIN m_dict_info_map \ {d} : m_dict_info_map'[k] = m_dict_info_map[k]
    BY <1>2 DEF Drop, Restrict
  <2>4. /\ DOMAIN m_dict_map'[y] = DOMAIN m_dict_map[y] \ {d}
        /\ \A k \in DOMAIN m_dict_map[y] \ {d} : m_dict_map'[y][k] = m_dict_map[y][k]
        /\ \A z \in Places : z # y => m_dict_map'[z] = m_dict_map[z]
    BY <1>2, <2>1, <2>2 DEF Drop, Restrict
  <2>5. amiss \subseteq amiss' /\ \A e : e # d => SameRows(e)
    BY <1>1, <1>2, MarkingThis, SameDatabase
  <2>6. ASSUME NEW e \in DictID \ amiss', e # d PROVE SameMaps(e) /\ SameRows(e)
    <3>1. \A z \in Domain :
            /\ DOMAIN m_dict_map'[z] \cup {d} = DOMAIN m_dict_map[z] \cup {d}
            /\ \A k \in DOMAIN m_dict_map[z] \ {d} : m_dict_map'[z][k] = m_dict_map[z][k]
      BY <2>4 DEF Places
    <3> QED BY <1>1, <2>3, <2>5, <2>6, <3>1, OnlyThisPlace
  <2>7. ASSUME d \in DictID \ amiss' PROVE Settled(d)'
    <3>1. Settled(d)
      BY <1>1, <2>5, <2>7, Alone
    <3>2. Found(d)
      BY <1>1, <1>2, <3>1, Leading DEF Settled
    <3>3. MarkDict(d, 2, TRUE)
      <4>1. PICK n \in Executed("DeleteDict") : MarkDict(d, n, TRUE) /\ amiss' = amiss \cup Struck(d, n)
        BY <1>2, <3>2
      <4>2. n \in {0, 1, 2} /\ ~(n < 2)
        BY <2>7, <4>1, UpToTwo DEF Struck
      <4>3. n = 2
        BY <4>2
      <4> QED BY <4>1, <4>3
    <3>4. d \notin LiveDicts'
      BY <1>1, <3>3, MarkingThis
    <3>5. ~Known(d)'
      BY <2>3 DEF Known
    <3>6. \A z \in Domain : d \notin DOMAIN m_dict_map'[z]
      BY <2>1, <2>4, <3>1 DEF Settled, Well, Places
    <3> QED BY <3>4, <3>5, <3>6 DEF Settled, Well
  <2> QED BY <1>1, <2>5, <2>6, <2>7, Concerning
<1>3. CASE UNCHANGED <<m_dict_info_map, m_dict_map, afterdictinfo, afterdictiteminfo, amiss>>
  BY <1>1, <1>3, Refusing
<1> QED BY <1>2, <1>3 DEF DeleteDict


-----------------------------------------------------------------------------
(* The requests about words. *)

\* A word leaves a dictionary.
Unmounted(dict, i) ==
  [m_word_map |-> {w \in dict.m_word_map : w.id # i}, m_wordid_map |-> Drop(dict.m_wordid_map, i)]

LEMMA Unmounting ==
  ASSUME NEW dict, Agree(dict, {}), NEW i \in DOMAIN dict.m_wordid_map,
         NEW new, new = Unmounted(dict, i)
  PROVE  /\ Agree(new, {})
         /\ DOMAIN new.m_wordid_map = DOMAIN dict.m_wordid_map \ {i}
         /\ \A k \in DOMAIN dict.m_wordid_map \ {i} : new.m_wordid_map[k] = dict.m_wordid_map[k]
<1> DEFINE old == dict.m_wordid_map
<1>1. PICK f : f = Drop(old, i)
  OBVIOUS
<1>2. DOMAIN f = DOMAIN old \ {i} /\ \A k \in DOMAIN f : f[k] = old[k]
  BY <1>1, Dropped
<1>3. dict.m_word_map = Entries(old) /\ IsFiniteSet(DOMAIN old) /\ NoId \notin DOMAIN old
      /\ \A k, l \in DOMAIN old : old[k] = old[l] => k = l
  BY MountedWords DEF Agree
<1>4. Entries(f) = {w \in Entries(old) : w.id # i}
  BY <1>2 DEF Entries
<1>5. IsFiniteSet(DOMAIN f)
  BY <1>2, <1>3, FS_Subset
<1>6. new.m_word_map = Entries(f) /\ new.m_wordid_map = f
      /\ new = [m_word_map |-> new.m_word_map, m_wordid_map |-> new.m_wordid_map]
  BY <1>1, <1>3, <1>4 DEF Unmounted
<1> QED BY <1>2, <1>3, <1>5, <1>6 DEF Agree, NoIds

\* A word is changed to one the dictionary does not have.
Reworded(dict, i, word) ==
  [m_word_map |-> (dict.m_word_map \ {[id |-> i, word |-> dict.m_wordid_map[i]]})
                  \cup {[id |-> i, word |-> word]},
   m_wordid_map |-> [dict.m_wordid_map EXCEPT ![i] = word]]

LEMMA Rewording ==
  ASSUME NEW dict, Agree(dict, {}), NEW i \in DOMAIN dict.m_wordid_map,
         NEW word, word \notin Mounted(dict), NEW new, new = Reworded(dict, i, word)
  PROVE  /\ Agree(new, {})
         /\ DOMAIN new.m_wordid_map = DOMAIN dict.m_wordid_map
         /\ new.m_wordid_map[i] = word
         /\ \A k \in DOMAIN dict.m_wordid_map \ {i} : new.m_wordid_map[k] = dict.m_wordid_map[k]
<1> DEFINE old == dict.m_wordid_map
<1>1. PICK f : f = [old EXCEPT ![i] = word]
  OBVIOUS
<1>2. DOMAIN f = DOMAIN old /\ f[i] = word /\ \A k \in DOMAIN old \ {i} : f[k] = old[k]
  BY <1>1
<1>3. dict.m_word_map = Entries(old) /\ IsFiniteSet(DOMAIN old) /\ NoId \notin DOMAIN old
      /\ \A k, l \in DOMAIN old : old[k] = old[l] => k = l
  BY MountedWords DEF Agree
<1>4. \A k \in DOMAIN old : old[k] # word
  BY MountedWords
<1>5. Entries(f) = (Entries(old) \ {[id |-> i, word |-> old[i]]}) \cup {[id |-> i, word |-> word]}
  <2>1. ASSUME NEW w \in Entries(f)
        PROVE  w \in (Entries(old) \ {[id |-> i, word |-> old[i]]}) \cup {[id |-> i, word |-> word]}
    <3>1. PICK k \in DOMAIN f : w = [id |-> k, word |-> f[k]]
      BY DEF Entries
    <3>2. CASE k = i
      BY <1>2, <3>1, <3>2
    <3>3. CASE k # i
      <4>1. w = [id |-> k, word |-> old[k]] /\ k \in DOMAIN old
        BY <1>2, <3>1, <3>3
      <4>2. w \in Entries(old)
        BY <4>1 DEF Entries
      <4>3. w # [id |-> i, word |-> old[i]]
        BY <3>3, <4>1
      <4> QED BY <4>2, <4>3
    <3> QED BY <3>2, <3>3
  <2>2. ASSUME NEW w \in Entries(old), w # [id |-> i, word |-> old[i]] PROVE w \in Entries(f)
    <3>1. PICK k \in DOMAIN old : w = [id |-> k, word |-> old[k]]
      BY DEF Entries
    <3>2. k # i
      BY <2>2, <3>1
    <3> QED BY <1>2, <3>1, <3>2 DEF Entries
  <2>3. [id |-> i, word |-> word] \in Entries(f)
    BY <1>2 DEF Entries
  <2> QED BY <2>1, <2>2, <2>3
<1>6. new.m_word_map = Entries(f) /\ new.m_wordid_map = f
      /\ new = [m_word_map |-> new.m_word_map, m_wordid_map |-> new.m_wordid_map]
  BY <1>1, <1>3, <1>5 DEF Reworded
<1>7. \A k, l \in DOMAIN f : f[k] = f[l] => k = l
  BY <1>2, <1>3, <1>4
<1> QED BY <1>2, <1>3, <1>6, <1>7 DEF Agree, NoIds

\* A dictionary gets other words, in the same group.
LEMMA OthersStay ==
  ASSUME MapsTyped, NEW d, NEW new, Becomes(d, new), m_dict_info_map' = m_dict_info_map,
         NEW e, e # d
  PROVE  SameMaps(e)
<1>1. PICK y : y = Domain_of(d)
  OBVIOUS
<1>2. m_dict_map' = [m_dict_map EXCEPT ![y][d] = new] /\ DOMAIN m_dict_map = Places
  BY <1>1 DEF Becomes, MapsTyped
<1>3. /\ \A x \in Places : DOMAIN m_dict_map'[x] = DOMAIN m_dict_map[x]
      /\ \A x \in Places : \A k \in DOMAIN m_dict_map[x] \ {d} : m_dict_map'[x][k] = m_dict_map[x][k]
  BY <1>2
<1> QED BY <1>3, OnlyThisPlace DEF Places

LEMMA Becoming ==
  ASSUME DatabaseOK, MapsTyped, NEW d, NEW ws, NEW vs, Well(d, ws), Known(d), NEW new, Becomes(d, new),
         UNCHANGED <<m_dict_info_map, afterdictinfo>>,
         Agree(new, vs), StoredAs(d, new.m_wordid_map)'
  PROVE  Well(d, vs)' /\ The(d)' = new /\ Known(d)'
<1>1. PICK y : y = Domain_of(d)
  OBVIOUS
<1>2. y \in Places /\ DOMAIN m_dict_map = Places /\ d \in DOMAIN m_dict_map[y]
  BY <1>1, Leading DEF MapsTyped, Places
<1>3. m_dict_map' = [m_dict_map EXCEPT ![y][d] = new]
  BY <1>1 DEF Becomes
<1>4. (\A x \in Places : DOMAIN m_dict_map'[x] = DOMAIN m_dict_map[x]) /\ m_dict_map'[y][d] = new
  BY <1>2, <1>3
<1>5. Known(d)' /\ Domain_of(d)' = y /\ LiveDicts' = LiveDicts
  BY <1>1 DEF Known, Domain_of, LiveDicts
<1>6. /\ \A x \in Domain : d \in DOMAIN m_dict_map'[x] <=> y = x
      /\ d \in LiveDicts' /\ y = afterdictinfo'[d].domain
  BY <1>1, <1>4, <1>5 DEF Well, Places
<1>7. The(d)' = new
  BY <1>4, <1>5 DEF The, Domain_of
<1> QED BY <1>5, <1>6, <1>7 DEF Well

\* A request that changes one dictionary's words and one row, of this dictionary or of
\* one that is amiss.
LEMMA OneDictionary ==
  ASSUME AfterTyped, AfterInv, Exclusion, NEW g \in Pool, at[g] = "writing", ~Writing(g), Ends(g),
         NEW d \in DictID, NEW i, NEW new, Found(d), Becomes(d, new),
         UNCHANGED <<m_dict_info_map, afterdictinfo>>,
         DOMAIN afterdictiteminfo' = DOMAIN afterdictiteminfo,
         \A k \in DOMAIN afterdictiteminfo :
           /\ k # i => afterdictiteminfo'[k] = afterdictiteminfo[k]
           /\ afterdictiteminfo'[k].dict = afterdictiteminfo[k].dict,
         left_behind \subseteq left_behind', amiss \subseteq amiss',
         afterdictiteminfo' = afterdictiteminfo \/ Others(d, i) \subseteq amiss',
         d \notin amiss' => Agree(new, {}) /\ StoredAs(d, new.m_wordid_map)'
  PROVE  AfterInv'
<1>1. DatabaseOK /\ MapsTyped
  BY DEF AfterTyped
<1>2. ASSUME NEW e \in DictID \ amiss', e # d PROVE SameMaps(e) /\ SameRows(e)
  <2>1. SameMaps(e)
    BY <1>1, <1>2, OthersStay
  <2>2. CASE afterdictiteminfo' = afterdictiteminfo
    BY <2>1, <2>2, SameDatabase
  <2>3. CASE Others(d, i) \subseteq amiss'
    <3>1. \A k \in RowsOf(e) : k # i /\ k \in DOMAIN afterdictiteminfo
      BY <1>2, <2>3 DEF Others, RowsOf
    <3>2. LiveRows(e)' = LiveRows(e) /\ LiveRows(e) \subseteq RowsOf(e)
      BY <3>1 DEF LiveRows, RowsOf
    <3> QED BY <2>1, <3>1, <3>2 DEF SameRows, LiveDicts
  <2> QED BY <2>2, <2>3
<1>3. ASSUME d \in DictID \ amiss' PROVE Settled(d)'
  <2>1. Settled(d) /\ Known(d)
    BY <1>3, Alone DEF Found
  <2> QED BY <1>1, <1>3, <2>1, Becoming DEF Settled
<1> QED BY <1>2, <1>3, Concerning

\* What a word's id says in a settled dictionary.
LEMMA HavingId ==
  ASSUME DatabaseOK, NEW d, NEW i, HasId(d, i), Settled(d)
  PROVE  /\ Agree(The(d), {}) /\ i \in DOMAIN The(d).m_wordid_map
         /\ WithId(d, i) = {[id |-> i, word |-> The(d).m_wordid_map[i]]}
         /\ i \in LiveRows(d) /\ i \in RowsOf(d) /\ i \in DOMAIN afterdictiteminfo
         /\ StoredAs(d, The(d).m_wordid_map)
<1>1. Known(d) /\ i \in DOMAIN The(d).m_wordid_map
  BY DEF HasId, Found
<1>2. Agree(The(d), {}) /\ StoredAs(d, The(d).m_wordid_map)
  BY <1>1 DEF Settled, Well
<1>3. i \in LiveRows(d) /\ i \in RowsOf(d) /\ i \in DOMAIN afterdictiteminfo
  BY <1>1, <1>2 DEF StoredAs, LiveRows, RowsOf
<1>4. WithId(d, i) = {[id |-> i, word |-> The(d).m_wordid_map[i]]}
  <2>1. PICK f : f = The(d).m_wordid_map
    OBVIOUS
  <2>2. The(d).m_word_map = Entries(f) /\ i \in DOMAIN f
    BY <1>1, <1>2, <2>1, MountedWords
  <2>3. ASSUME NEW w \in Entries(f), w.id = i PROVE w = [id |-> i, word |-> f[i]]
    BY <2>3, InEntries
  <2>4. [id |-> i, word |-> f[i]] \in Entries(f) /\ [id |-> i, word |-> f[i]].id = i
    BY <2>2 DEF Entries
  <2> QED BY <2>1, <2>2, <2>3, <2>4 DEF WithId
<1> QED BY <1>1, <1>2, <1>3, <1>4

\* One column of row i changes.
LEMMA RowsKept ==
  ASSUME DatabaseOK, NEW i,
         \/ \E mark \in BOOLEAN :
              afterdictiteminfo' = [afterdictiteminfo EXCEPT ![i].isdeleted = mark]
         \/ \E word \in Pair : afterdictiteminfo' = [afterdictiteminfo EXCEPT ![i].word = word]
  PROVE  /\ DOMAIN afterdictiteminfo' = DOMAIN afterdictiteminfo
         /\ \A k \in DOMAIN afterdictiteminfo :
              /\ k # i => afterdictiteminfo'[k] = afterdictiteminfo[k]
              /\ afterdictiteminfo'[k].dict = afterdictiteminfo[k].dict
<1>1. PICK row : row = afterdictiteminfo[i]
  OBVIOUS
<1>2. i \in DOMAIN afterdictiteminfo => row \in [dict : DictID, word : Pair, isdeleted : BOOLEAN]
  BY <1>1 DEF DatabaseOK
<1> QED BY <1>1, <1>2

LEMMA RowMarked ==
  ASSUME DatabaseOK, NEW i \in DOMAIN afterdictiteminfo, NEW mark \in BOOLEAN,
         afterdictiteminfo' = [afterdictiteminfo EXCEPT ![i].isdeleted = mark]
  PROVE  afterdictiteminfo'[i].isdeleted = mark /\ afterdictiteminfo'[i].word = afterdictiteminfo[i].word
<1>1. PICK row : row = afterdictiteminfo[i]
  OBVIOUS
<1>2. row \in [dict : DictID, word : Pair, isdeleted : BOOLEAN]
  BY <1>1 DEF DatabaseOK
<1> QED BY <1>1, <1>2

LEMMA RowReworded ==
  ASSUME DatabaseOK, NEW i \in DOMAIN afterdictiteminfo, NEW word \in Pair,
         afterdictiteminfo' = [afterdictiteminfo EXCEPT ![i].word = word]
  PROVE  /\ afterdictiteminfo'[i].word = word
         /\ afterdictiteminfo'[i].isdeleted = afterdictiteminfo[i].isdeleted
<1>1. PICK row : row = afterdictiteminfo[i]
  OBVIOUS
<1>2. row \in [dict : DictID, word : Pair, isdeleted : BOOLEAN]
  BY <1>1 DEF DatabaseOK
<1> QED BY <1>1, <1>2

\* A word goes; when the statement fails, the dictionary is amiss.
LEMMA DeleteWordStep ==
  ASSUME AfterTyped, AfterInv, Exclusion, NEW g \in Pool, NEW d \in DictID, NEW i, DeleteWord(g, d, i)
  PROVE  AfterInv'
<1>1. /\ at[g] = "writing" /\ ~Writing(g) /\ Ends(g) /\ DatabaseOK
      /\ UNCHANGED <<m_dict_info_map, afterdictinfo, left_behind>>
  BY Beginning DEF DeleteWord, Working, AfterTyped
<1>2. CASE UNCHANGED <<m_dict_map, afterdictiteminfo, amiss>>
  BY <1>1, <1>2, Refusing
<1>3. ASSUME HasId(d, i), NEW gone \in (SUBSET WithId(d, i)) \ {{}},
             Becomes(d, [m_word_map |-> The(d).m_word_map \ gone,
                         m_wordid_map |-> Drop(The(d).m_wordid_map, i)]),
             \/ /\ afterdictiteminfo' = [afterdictiteminfo EXCEPT ![i].isdeleted = TRUE]
                /\ amiss' = amiss \cup Others(d, i)
             \/ /\ amiss' = amiss \cup {d}
                /\ UNCHANGED afterdictiteminfo
      PROVE  AfterInv'
  <2>1. PICK old : old = The(d)
    OBVIOUS
  <2>2. PICK new : new = [m_word_map |-> old.m_word_map \ gone, m_wordid_map |-> Drop(old.m_wordid_map, i)]
    OBVIOUS
  <2>3. Becomes(d, new) /\ Found(d)
    BY <1>3, <2>1, <2>2 DEF HasId
  <2>4. /\ DOMAIN afterdictiteminfo' = DOMAIN afterdictiteminfo
        /\ \A k \in DOMAIN afterdictiteminfo :
              /\ k # i => afterdictiteminfo'[k] = afterdictiteminfo[k]
              /\ afterdictiteminfo'[k].dict = afterdictiteminfo[k].dict
    <3>1. CASE afterdictiteminfo' = afterdictiteminfo
      BY <3>1
    <3>2. CASE afterdictiteminfo' = [afterdictiteminfo EXCEPT ![i].isdeleted = TRUE]
      BY <1>1, <3>2, RowsKept
    <3> QED BY <1>3, <3>1, <3>2
  <2>5. ASSUME d \notin amiss' PROVE Agree(new, {}) /\ StoredAs(d, new.m_wordid_map)'
    <3>1. Settled(d) /\ afterdictiteminfo' = [afterdictiteminfo EXCEPT ![i].isdeleted = TRUE]
      BY <1>1, <1>3, <2>5, Alone
    <3>2. /\ Agree(old, {}) /\ i \in DOMAIN old.m_wordid_map
          /\ WithId(d, i) = {[id |-> i, word |-> old.m_wordid_map[i]]}
          /\ i \in LiveRows(d) /\ i \in RowsOf(d) /\ i \in DOMAIN afterdictiteminfo
          /\ StoredAs(d, old.m_wordid_map)
      BY <1>1, <1>3, <2>1, <3>1, HavingId
    <3>3. old.m_word_map \ gone = {w \in old.m_word_map : w.id # i}
      <4>1. WithId(d, i) = {w \in old.m_word_map : w.id = i}
        BY <2>1 DEF WithId
      <4>2. PICK one : WithId(d, i) = {one}
        BY <3>2
      <4>3. gone = WithId(d, i)
        BY <1>3, <4>2
      <4> QED BY <4>1, <4>3
    <3>4. new = Unmounted(old, i)
      BY <2>2, <3>3 DEF Unmounted
    <3>5. /\ Agree(new, {})
          /\ DOMAIN new.m_wordid_map = DOMAIN old.m_wordid_map \ {i}
          /\ \A k \in DOMAIN old.m_wordid_map \ {i} : new.m_wordid_map[k] = old.m_wordid_map[k]
      BY <3>2, <3>4, Unmounting
    <3>6. afterdictiteminfo'[i].isdeleted
      BY <1>1, <3>1, <3>2, RowMarked
    <3>7. LiveRows(d)' = LiveRows(d) \ {i}
      BY <2>4, <3>6 DEF LiveRows, RowsOf
    <3>8. LiveRows(d) \subseteq DOMAIN afterdictiteminfo
      BY DEF LiveRows, RowsOf
    <3>9. StoredAs(d, new.m_wordid_map)'
      BY <1>1, <2>4, <3>2, <3>5, <3>7, <3>8 DEF StoredAs
    <3> QED BY <3>5, <3>9
  <2>6. amiss \subseteq amiss' /\ (afterdictiteminfo' = afterdictiteminfo \/ Others(d, i) \subseteq amiss')
    BY <1>3
  <2> QED BY <1>1, <2>3, <2>4, <2>5, <2>6, OneDictionary
<1> QED BY <1>2, <1>3 DEF DeleteWord

\* A word becomes another; when the statement fails, the dictionary is amiss.
LEMMA ModifyWordStep ==
  ASSUME AfterTyped, AfterInv, Exclusion, NEW g \in Pool, NEW d \in DictID, NEW i, NEW word \in Pair,
         ModifyWord(g, d, i, word)
  PROVE  AfterInv'
<1>1. /\ at[g] = "writing" /\ ~Writing(g) /\ Ends(g) /\ DatabaseOK
      /\ UNCHANGED <<m_dict_info_map, afterdictinfo, left_behind>>
  BY Beginning DEF ModifyWord, Working, AfterTyped
<1>2. CASE UNCHANGED <<m_dict_map, afterdictiteminfo, amiss>>
  BY <1>1, <1>2, Refusing
<1>3. ASSUME HasId(d, i), word \notin Mounted(The(d)), NEW out \in WithId(d, i),
             Becomes(d, [m_word_map |-> (The(d).m_word_map \ {out}) \cup {[id |-> i, word |-> word]},
                         m_wordid_map |-> [The(d).m_wordid_map EXCEPT ![i] = word]]),
             \/ /\ afterdictiteminfo' = [afterdictiteminfo EXCEPT ![i].word = word]
                /\ amiss' = amiss \cup Others(d, i)
             \/ /\ amiss' = amiss \cup {d}
                /\ UNCHANGED afterdictiteminfo
      PROVE  AfterInv'
  <2>1. PICK old : old = The(d)
    OBVIOUS
  <2>2. PICK new : new = [m_word_map |-> (old.m_word_map \ {out}) \cup {[id |-> i, word |-> word]},
                          m_wordid_map |-> [old.m_wordid_map EXCEPT ![i] = word]]
    OBVIOUS
  <2>3. Becomes(d, new) /\ Found(d)
    BY <1>3, <2>1, <2>2 DEF HasId
  <2>4. /\ DOMAIN afterdictiteminfo' = DOMAIN afterdictiteminfo
        /\ \A k \in DOMAIN afterdictiteminfo :
              /\ k # i => afterdictiteminfo'[k] = afterdictiteminfo[k]
              /\ afterdictiteminfo'[k].dict = afterdictiteminfo[k].dict
    <3>1. CASE afterdictiteminfo' = afterdictiteminfo
      BY <3>1
    <3>2. CASE afterdictiteminfo' = [afterdictiteminfo EXCEPT ![i].word = word]
      BY <1>1, <3>2, RowsKept
    <3> QED BY <1>3, <3>1, <3>2
  <2>5. ASSUME d \notin amiss' PROVE Agree(new, {}) /\ StoredAs(d, new.m_wordid_map)'
    <3>1. Settled(d) /\ afterdictiteminfo' = [afterdictiteminfo EXCEPT ![i].word = word]
      BY <1>1, <1>3, <2>5, Alone
    <3>2. /\ Agree(old, {}) /\ i \in DOMAIN old.m_wordid_map
          /\ WithId(d, i) = {[id |-> i, word |-> old.m_wordid_map[i]]}
          /\ i \in LiveRows(d) /\ i \in RowsOf(d) /\ i \in DOMAIN afterdictiteminfo
          /\ StoredAs(d, old.m_wordid_map)
      BY <1>1, <1>3, <2>1, <3>1, HavingId
    <3>3. new = Reworded(old, i, word) /\ word \notin Mounted(old)
      BY <1>3, <2>1, <2>2, <3>2 DEF Reworded
    <3>4. /\ Agree(new, {})
          /\ DOMAIN new.m_wordid_map = DOMAIN old.m_wordid_map
          /\ new.m_wordid_map[i] = word
          /\ \A k \in DOMAIN old.m_wordid_map \ {i} : new.m_wordid_map[k] = old.m_wordid_map[k]
      BY <3>2, <3>3, Rewording
    <3>5. /\ afterdictiteminfo'[i].word = word
          /\ afterdictiteminfo'[i].isdeleted = afterdictiteminfo[i].isdeleted
      BY <1>1, <3>1, <3>2, RowReworded
    <3>6. LiveRows(d)' = LiveRows(d)
      BY <2>4, <3>2, <3>5 DEF LiveRows, RowsOf
    <3>7. LiveRows(d) \subseteq DOMAIN afterdictiteminfo
      BY DEF LiveRows, RowsOf
    <3>8. StoredAs(d, new.m_wordid_map)'
      BY <1>1, <2>4, <3>2, <3>4, <3>5, <3>6, <3>7 DEF StoredAs
    <3> QED BY <3>4, <3>8
  <2>6. amiss \subseteq amiss' /\ (afterdictiteminfo' = afterdictiteminfo \/ Others(d, i) \subseteq amiss')
    BY <1>3
  <2> QED BY <1>1, <2>3, <2>4, <2>5, <2>6, OneDictionary
<1> QED BY <1>2, <1>3 DEF ModifyWord

\* A word comes back, or its row does while memory has the pair already.
LEMMA RecoverWordStep ==
  ASSUME AfterTyped, AfterInv, Exclusion, NEW g \in Pool, NEW d \in DictID, NEW i, RecoverWord(g, d, i)
  PROVE  AfterInv'
<1>1. /\ at[g] = "writing" /\ ~Writing(g) /\ Ends(g) /\ DatabaseOK
      /\ UNCHANGED <<m_dict_info_map, afterdictinfo>>
  BY Beginning DEF RecoverWord, Working, AfterTyped
<1>2. CASE UNCHANGED <<m_dict_map, afterdictiteminfo, left_behind, amiss>>
  BY <1>1, <1>2, Refusing
<1>3. ASSUME Found(d), NEW updated \in BOOLEAN, NEW read \in BOOLEAN, NEW w, read => w \in Undeleted(i),
             NEW old, old = The(d),
             NEW new, new = IF w.word \in Mounted(old) THEN old ELSE mount_words(old, {w}),
             afterdictiteminfo' = IF updated THEN [afterdictiteminfo EXCEPT ![i].isdeleted = FALSE]
                                  ELSE afterdictiteminfo,
             Becomes(d, new),
             left_behind' = left_behind \cup (({i} \cap RowsOf(d)) \ DOMAIN new.m_wordid_map),
             amiss' = amiss \cup (IF updated THEN Others(d, i) ELSE {}) \cup
                        (IF updated /\ read /\ i \in RowsOf(d) THEN {} ELSE {d})
      PROVE  AfterInv'
  <2>1. /\ DOMAIN afterdictiteminfo' = DOMAIN afterdictiteminfo
        /\ \A k \in DOMAIN afterdictiteminfo :
              /\ k # i => afterdictiteminfo'[k] = afterdictiteminfo[k]
              /\ afterdictiteminfo'[k].dict = afterdictiteminfo[k].dict
    <3>1. CASE updated
      BY <1>1, <1>3, <3>1, RowsKept
    <3>2. CASE ~updated
      BY <1>3, <3>2
    <3> QED BY <3>1, <3>2
  <2>2. ASSUME d \notin amiss' PROVE Agree(new, {}) /\ StoredAs(d, new.m_wordid_map)'
    <3>1. /\ Settled(d) /\ i \in RowsOf(d) /\ read
          /\ afterdictiteminfo' = [afterdictiteminfo EXCEPT ![i].isdeleted = FALSE]
      BY <1>1, <1>3, <2>2, Alone
    <3>2. Agree(old, {}) /\ StoredAs(d, old.m_wordid_map)
      BY <1>3, <3>1 DEF Settled, Well, Found
    <3>3. PICK word : word = afterdictiteminfo[i].word
      OBVIOUS
    <3>4. i \in DOMAIN afterdictiteminfo /\ i # NoId /\ w = [id |-> i, word |-> word]
      BY <1>1, <1>3, <3>1, <3>3 DEF RowsOf, DatabaseOK, NoId, Undeleted
    <3>5. ~afterdictiteminfo'[i].isdeleted /\ afterdictiteminfo'[i].word = word
      BY <1>1, <3>1, <3>3, <3>4, RowMarked
    <3>6. LiveRows(d)' = LiveRows(d) \cup {i} /\ LiveRows(d) \subseteq DOMAIN afterdictiteminfo
      BY <2>1, <3>1, <3>4, <3>5 DEF LiveRows, RowsOf
    <3>7. CASE word \in Mounted(old)
      <4>1. new = old
        BY <1>3, <3>4, <3>7
      <4>2. LiveRows(d)' \ DOMAIN old.m_wordid_map \subseteq left_behind'
        BY <1>3, <3>1, <3>2, <3>6, <4>1 DEF StoredAs
      <4>3. \A k \in DOMAIN old.m_wordid_map :
               k \in LiveRows(d)' /\ afterdictiteminfo'[k].word = old.m_wordid_map[k]
        BY <2>1, <3>2, <3>3, <3>5, <3>6 DEF StoredAs
      <4> QED BY <3>2, <4>1, <4>2, <4>3 DEF StoredAs
    <3>8. CASE word \notin Mounted(old)
      <4>1. PICK f : f = [k \in {i} |-> word]
        OBVIOUS
      <4>2. DOMAIN f = {i} /\ f[i] = word
        BY <4>1
      <4>3. Entries(f) = {w}
        BY <3>4, <4>1 DEF Entries
      <4>4. new = mount_words(old, Entries(f))
        BY <1>3, <3>4, <3>8, <4>3
      <4>5. \A k \in DOMAIN old.m_wordid_map : old.m_wordid_map[k] # word
        BY <3>2, <3>8, MountedWords
      <4>6. i \notin DOMAIN old.m_wordid_map
        BY <3>2, <3>3, <4>5 DEF StoredAs
      <4>7. /\ Agree(new, {})
            /\ DOMAIN new.m_wordid_map = DOMAIN old.m_wordid_map \cup DOMAIN f
            /\ \A k \in DOMAIN old.m_wordid_map : new.m_wordid_map[k] = old.m_wordid_map[k]
            /\ \A k \in DOMAIN f : new.m_wordid_map[k] = f[k]
        <5>1. IsFiniteSet(DOMAIN f)
          BY <4>2, FS_Singleton
        <5>2. /\ NoId \notin DOMAIN f /\ \A k, l \in DOMAIN f : f[k] = f[l] => k = l
              /\ DOMAIN f \cap DOMAIN old.m_wordid_map = {}
              /\ \A k \in DOMAIN f : \A l \in DOMAIN old.m_wordid_map : f[k] # old.m_wordid_map[l]
          BY <3>4, <4>2, <4>5, <4>6
        <5> QED BY <3>2, <4>4, <5>1, <5>2, Mounting
      <4>8. LiveRows(d)' \ DOMAIN new.m_wordid_map \subseteq left_behind'
        BY <1>3, <3>2, <3>6, <4>2, <4>7 DEF StoredAs
      <4>9. \A k \in DOMAIN old.m_wordid_map :
               /\ k \in LiveRows(d)' /\ k # i
               /\ afterdictiteminfo'[k].word = old.m_wordid_map[k]
        BY <2>1, <3>2, <3>6, <4>6 DEF StoredAs
      <4>10. i \in LiveRows(d)' /\ new.m_wordid_map[i] = afterdictiteminfo'[i].word
        BY <3>5, <3>6, <4>2, <4>7
      <4>11. \A k \in DOMAIN new.m_wordid_map :
               k \in LiveRows(d)' /\ afterdictiteminfo'[k].word = new.m_wordid_map[k]
        BY <4>2, <4>7, <4>9, <4>10
      <4> QED BY <4>7, <4>8, <4>11 DEF StoredAs
    <3> QED BY <3>7, <3>8
  <2>3. /\ amiss \subseteq amiss' /\ left_behind \subseteq left_behind'
        /\ (afterdictiteminfo' = afterdictiteminfo \/ Others(d, i) \subseteq amiss')
    BY <1>3
  <2> QED BY <1>1, <1>3, <2>1, <2>2, <2>3, OneDictionary
<1>4. CASE ~(~Found(d) /\ UNCHANGED <<m_dict_map, afterdictiteminfo, left_behind, amiss>>)
  <2>1. PICK updated \in BOOLEAN, read \in BOOLEAN :
          \E w \in IF read THEN Undeleted(i) ELSE [id : WordID, word : {Empty}] :
            LET new == IF w.word \in Mounted(The(d)) THEN The(d) ELSE mount_words(The(d), {w})
            IN /\ Found(d)
               /\ afterdictiteminfo' = IF updated THEN [afterdictiteminfo EXCEPT ![i].isdeleted = FALSE]
                                       ELSE afterdictiteminfo
               /\ Becomes(d, new)
               /\ left_behind' = left_behind \cup (({i} \cap RowsOf(d)) \ DOMAIN new.m_wordid_map)
               /\ amiss' = amiss \cup (IF updated THEN Others(d, i) ELSE {}) \cup
                    (IF updated /\ read /\ i \in RowsOf(d) THEN {} ELSE {d})
    <3>1. (IF "RecoverWord" \in FailsAt THEN BOOLEAN ELSE {TRUE}) \subseteq BOOLEAN
      OBVIOUS
    <3> QED BY <1>4, <3>1 DEF RecoverWord
  <2> QED BY <1>3, <2>1
<1> QED BY <1>2, <1>4

\* A dictionary comes back with all its words, or is filled up.
LEMMA RecoverDictStep ==
  ASSUME AfterTyped, AfterInv, Exclusion, NEW g \in Pool, NEW d \in DictID, RecoverDict(g, d)
  PROVE  AfterInv'
<1>1. /\ at[g] = "writing" /\ ~Writing(g) /\ Ends(g) /\ DatabaseOK /\ MapsTyped
  BY Beginning DEF RecoverDict, Working, AfterTyped
<1>2. PICK n \in {0, 1, 2}, k \in DictID, x \in Places : Recovers(d, n, k, x)
  BY <1>1, Recovery
<1>3. /\ amiss \subseteq amiss' /\ left_behind \subseteq left_behind' /\ MarkDict(d, n, FALSE)
      /\ m_dict_info_map' = Inserted(m_dict_info_map, Entry(k, x))
      /\ x # Nowhere => k = d
      /\ k # d /\ k \notin DOMAIN m_dict_info_map => k \in amiss'
      /\ DOMAIN m_dict_map = Places
  BY <1>1, <1>2 DEF Recovers, MapsTyped
<1>4. /\ DOMAIN m_dict_info_map' = DOMAIN m_dict_info_map \cup {k}
      /\ \A e \in DOMAIN m_dict_info_map : m_dict_info_map'[e] = m_dict_info_map[e]
      /\ k \notin DOMAIN m_dict_info_map => m_dict_info_map'[k] = x
  BY <1>3 DEF Inserted, Entry
<1>5. /\ DOMAIN Entered(k, x) = DOMAIN m_dict_map[x] \cup {k}
      /\ \A e \in DOMAIN m_dict_map[x] : Entered(k, x)[e] = m_dict_map[x][e]
      /\ k \notin DOMAIN m_dict_map[x] => Entered(k, x)[k] = NewDictionary
  BY DEF Entered, Inserted, Entry
<1>6. /\ DOMAIN Filled(d, k, x) = DOMAIN Entered(k, x)
      /\ \A e \in DOMAIN Entered(k, x) \ {d} : Filled(d, k, x)[e] = Entered(k, x)[e]
      /\ d \in DOMAIN Entered(k, x) => Filled(d, k, x)[d] = WithRows(Entered(k, x)[d], d)
  BY DEF Filled
<1>7. /\ DOMAIN m_dict_map'[x] = DOMAIN m_dict_map[x] \cup {k}
      /\ \A e \in DOMAIN m_dict_map[x] \ {d} : m_dict_map'[x][e] = m_dict_map[x][e]
      /\ \A y \in Places : y # x => m_dict_map'[y] = m_dict_map[y]
  BY <1>2, <1>3, <1>5, <1>6 DEF Recovers
<1>8. ASSUME NEW e \in DictID \ amiss', e # d PROVE SameMaps(e) /\ SameRows(e)
  <2>1. SameRows(e)
    BY <1>1, <1>3, <1>8, MarkingThis
  <2>2. (Known(e)' <=> Known(e)) /\ (Known(e) => m_dict_info_map'[e] = m_dict_info_map[e])
    BY <1>3, <1>4, <1>8 DEF Known
  <2>3. \A y \in Domain : /\ e \in DOMAIN m_dict_map'[y] <=> e \in DOMAIN m_dict_map[y]
                          /\ e \in DOMAIN m_dict_map[y] => m_dict_map'[y][e] = m_dict_map[y][e]
    BY <1>3, <1>7, <1>8, AfterAssumption DEF AfterAssumption, Places
  <2> QED BY <2>1, <2>2, <2>3 DEF SameMaps
<1>9. ASSUME d \in DictID \ amiss' PROVE Settled(d)'
  <2>1. /\ n = 2 /\ x # Nowhere /\ k = d /\ d \in DOMAIN afterdictinfo /\ x = afterdictinfo[d].domain
        /\ m_dict_map' = [m_dict_map EXCEPT ![x] = Filled(d, d, x)]
        /\ left_behind' = left_behind \cup (RowsOf(d) \ DOMAIN Filled(d, d, x)[d].m_wordid_map)
        /\ Settled(d) /\ x \in Domain
    BY <1>1, <1>2, <1>3, <1>9, Alone DEF Recovers, Places
  <2>2. /\ \A e : RowsOf(e)' = RowsOf(e)
        /\ \A i \in DOMAIN afterdictiteminfo : afterdictiteminfo'[i].word = afterdictiteminfo[i].word
        /\ LiveRows(d)' = RowsOf(d)
        /\ d \in LiveDicts' /\ afterdictinfo'[d].domain = x
    BY <1>1, <1>3, <2>1, MarkingThis
  <2>3. PICK old : old = Entered(d, x)[d]
    OBVIOUS
  <2>4. PICK new : new = WithRows(old, d)
    OBVIOUS
  <2>5. /\ m_dict_map'[x][d] = new /\ d \in DOMAIN m_dict_map'[x]
        /\ left_behind' = left_behind \cup (RowsOf(d) \ DOMAIN new.m_wordid_map)
    BY <1>3, <1>5, <1>6, <2>1, <2>3, <2>4
  \* The dictionary before: settled, or new.
  <2>6. /\ Agree(old, {})
        /\ \A i \in DOMAIN old.m_wordid_map :
              i \in RowsOf(d) /\ afterdictiteminfo[i].word = old.m_wordid_map[i]
    <3>1. CASE Known(d)
      <4>1. Domain_of(d) = x /\ d \in DOMAIN m_dict_map[x]
        BY <1>1, <2>1, <3>1, Leading DEF Settled
      <4>2. old = The(d)
        BY <1>5, <2>1, <2>3, <4>1 DEF The
      <4> QED BY <2>1, <3>1, <4>2 DEF Settled, Well, StoredAs, LiveRows
    <3>2. CASE ~Known(d)
      <4>1. d \notin DOMAIN m_dict_map[x]
        BY <2>1, <3>2 DEF Settled, Well
      <4>2. old = NewDictionary
        BY <1>5, <2>1, <2>3, <4>1
      <4> QED BY <4>2, EmptyDictionary
    <3> QED BY <3>1, <3>2
  <2>7. PICK rows : rows = {i \in FirstRows(RowsOf(d)) : afterdictiteminfo[i].word \notin Mounted(old)}
    OBVIOUS
  <2>8. /\ rows \subseteq RowsOf(d) /\ rows \subseteq DOMAIN afterdictiteminfo
        /\ \A i, j \in rows : afterdictiteminfo[i].word = afterdictiteminfo[j].word => i = j
        /\ \A i \in rows : afterdictiteminfo[i].word \notin Mounted(old)
    <3>1. RowsOf(d) \in SUBSET DOMAIN afterdictiteminfo
      BY DEF RowsOf
    <3>2. /\ FirstRows(RowsOf(d)) \subseteq RowsOf(d)
          /\ \A i, j \in FirstRows(RowsOf(d)) :
                afterdictiteminfo[i].word = afterdictiteminfo[j].word => i = j
      BY <1>1, <3>1, FirstOfEach
    <3> QED BY <2>7, <3>1, <3>2
  <2>9. PICK f : f = WordOf(rows)
    OBVIOUS
  <2>10. DOMAIN f = rows /\ \A i \in rows : f[i] = afterdictiteminfo[i].word
    BY <2>9 DEF WordOf
  <2>11. new = mount_words(old, Entries(f))
    BY <2>4, <2>7, <2>9, RowsAsWords DEF WithRows
  <2>12. \A i \in rows : \A j \in DOMAIN old.m_wordid_map : f[i] # old.m_wordid_map[j]
    BY <2>6, <2>8, <2>10, MountedWords
  <2>13. rows \cap DOMAIN old.m_wordid_map = {}
    BY <2>6, <2>10, <2>12
  <2>14. /\ Agree(new, {})
         /\ DOMAIN new.m_wordid_map = DOMAIN old.m_wordid_map \cup DOMAIN f
         /\ \A i \in DOMAIN old.m_wordid_map : new.m_wordid_map[i] = old.m_wordid_map[i]
         /\ \A i \in DOMAIN f : new.m_wordid_map[i] = f[i]
    <3>1. IsFiniteSet(DOMAIN f) /\ NoId \notin DOMAIN f
      BY <1>1, <2>8, <2>10, FS_Subset DEF DatabaseOK, NoId
    <3>2. /\ \A i, j \in DOMAIN f : f[i] = f[j] => i = j
          /\ DOMAIN f \cap DOMAIN old.m_wordid_map = {}
          /\ \A i \in DOMAIN f : \A j \in DOMAIN old.m_wordid_map : f[i] # old.m_wordid_map[j]
      BY <2>8, <2>10, <2>12, <2>13
    <3> QED BY <2>6, <2>11, <3>1, <3>2, Mounting
  <2>15. Known(d)' /\ Domain_of(d)' = x
    <3>1. Known(d) => m_dict_info_map[d] = x
      BY <2>1 DEF Settled, Well, Domain_of
    <3> QED BY <1>4, <2>1, <3>1 DEF Known, Domain_of
  <2>16. The(d)' = new
    BY <2>5, <2>15 DEF The, Domain_of
  <2>17. StoredAs(d, new.m_wordid_map)'
    <3>1. RowsOf(d) \subseteq DOMAIN afterdictiteminfo
      BY DEF RowsOf
    <3>2. \A i \in DOMAIN new.m_wordid_map : i \in RowsOf(d) /\ afterdictiteminfo[i].word = new.m_wordid_map[i]
      BY <2>6, <2>8, <2>10, <2>14
    <3> QED BY <2>2, <2>5, <3>1, <3>2 DEF StoredAs
  <2>18. \A y \in Domain : d \in DOMAIN m_dict_map'[y] <=> y = x
    <3>1. \A y \in Domain : d \in DOMAIN m_dict_map[y] => y = x
      BY <2>1 DEF Settled, Well
    <3> QED BY <1>7, <2>5, <3>1 DEF Places
  <2> QED BY <2>2, <2>14, <2>15, <2>16, <2>17, <2>18 DEF Settled, Well
<1> QED BY <1>1, <1>3, <1>8, <1>9, Concerning

-----------------------------------------------------------------------------
(* The requests that insert words. *)

\* The ids a request gives: the elements of a set, counted from its first one.
IdGiven(S, n, i) == n + Cardinality(S \cap 1..i)

LEMMA Numbering ==
  ASSUME NEW S \in SUBSET (Nat \ {0}), NEW n \in Nat
  PROVE  /\ \A i \in S : IdGiven(S, n, i) \in Nat \ {0}
         /\ \A i, j \in S : IdGiven(S, n, i) = IdGiven(S, n, j) => i = j
<1>1. ASSUME NEW i \in S
      PROVE  IsFiniteSet(S \cap 1..i) /\ Cardinality(S \cap 1..i) \in Nat \ {0}
  <2>1. IsFiniteSet(S \cap 1..i)
    BY UpTo, FS_Subset
  <2>2. S \cap 1..i # {}
    OBVIOUS
  <2> QED BY <2>1, <2>2, FS_EmptySet, FS_CardinalityType
<1>2. ASSUME NEW i \in S, NEW j \in S, i < j
      PROVE  Cardinality(S \cap 1..i) # Cardinality(S \cap 1..j)
  <2>1. S \cap 1..i \subseteq S \cap 1..j /\ j \in S \cap 1..j /\ j \notin S \cap 1..i
    BY <1>2
  <2> QED BY <1>1, <2>1, FS_Subset
<1>3. ASSUME NEW i \in S, NEW j \in S, i # j
      PROVE  IdGiven(S, n, i) # IdGiven(S, n, j)
  <2>1. i < j \/ j < i
    BY <1>3
  <2>2. Cardinality(S \cap 1..i) # Cardinality(S \cap 1..j)
    BY <1>2, <2>1
  <2>3. \A k, l \in Nat : k # l => n + k # n + l
    OBVIOUS
  <2> QED BY <1>1, <2>2, <2>3, Zenon DEF IdGiven
<1>4. ASSUME NEW i \in S PROVE IdGiven(S, n, i) \in Nat \ {0}
  BY <1>1 DEF IdGiven
<1> QED BY <1>3, <1>4

\* The words of the file are in memory without an id until their rows are written.
LEMMA InsertWordsStep ==
  ASSUME AfterTyped, AfterInv, Exclusion, NEW g \in Pool, NEW type, NEW d \in DictID,
         NEW file \in Seq(Pair), InsertWords(g, type, d, file)
  PROVE  AfterInv'
<1> DEFINE filter == [i \in DOMAIN file |->
                        /\ file[i] \notin Mounted(The(d))
                        /\ \A k \in 1..(i - 1) : file[k] # file[i]]
           fresh == {i \in DOMAIN file : filter[i]}
           id == [i \in DOMAIN file |->
                    IF filter[i] THEN m_global_wordid + Cardinality(fresh \cap 1..i) ELSE NoId]
<1>1. /\ at[g] = "writing" /\ ~Writing(g) /\ DatabaseOK /\ MapsTyped /\ at' = at
      /\ UNCHANGED <<m_dict_info_map, afterdictinfo, afterdictiteminfo, left_behind, amiss>>
      /\ DOMAIN op = Pool
  BY Beginning DEF InsertWords, Working, AfterTyped, OpsTyped, database, lockvars
<1>2. (\A h \in Pool : ~Writing(h)) /\ \A e \in DictID \ amiss : Settled(e)
  BY <1>1, Alone
<1>3. CASE Ends(g) /\ UNCHANGED <<m_dict_map, m_global_wordid>>
  BY <1>1, <1>3, Refusing
<1>4. CASE /\ Found(d)
           /\ m_global_wordid' = m_global_wordid + Cardinality(fresh)
           /\ Becomes(d, [The(d) EXCEPT !.m_word_map =
                @ \cup {[id |-> NoId, word |-> file[i]] : i \in fresh}])
           /\ op' = [op EXCEPT ![g] = [type |-> "Statement", request |-> type,
                                        dict |-> d, file |-> file, id |-> id]]
  <2>1. /\ DOMAIN op' = Pool /\ Writing(g)' /\ \A h \in Pool \ {g} : ~Writing(h)'
        /\ op'[g].dict = d /\ op'[g].file = file /\ op'[g].id = id
    BY <1>1, <1>2, <1>4 DEF Writing
  <2>2. \A e : e # d => UnderWay(e)' = {}
    BY <2>1 DEF UnderWay
  <2>3. ASSUME NEW e \in DictID \ amiss', e # d PROVE Well(e, UnderWay(e))'
    <3>1. Settled(e) /\ SameMaps(e) /\ SameRows(e)
      BY <1>1, <1>2, <1>4, <2>3, OthersStay, SameDatabase
    <3>2. Well(e, {})'
      BY <1>1, <3>1, Unconcerned DEF Settled
    <3> QED BY <2>2, <2>3, <3>2 DEF Well
  <2>4. CASE d \in amiss
    <3>1. \A h \in Pool : OpOK(h)'
      BY <1>1, <2>1, <2>4 DEF OpOK
    <3>2. \A e \in DictID \ amiss' : e # d
      BY <1>1, <2>4
    <3> QED BY <2>3, <3>1, <3>2 DEF AfterInv
  <2>5. CASE d \notin amiss
    <3>1. Settled(d) /\ Known(d) /\ Agree(The(d), {}) /\ StoredAs(d, The(d).m_wordid_map)
      BY <1>2, <1>4, <2>5 DEF Found, Settled, Well
    <3>2. PICK old : old = The(d)
      OBVIOUS
    <3>3. DOMAIN file = 1..Len(file) /\ Len(file) \in Nat /\ fresh \subseteq 1..Len(file)
      OBVIOUS
    <3>4. fresh \in SUBSET (Nat \ {0})
      <4>1. 1..Len(file) \subseteq Nat \ {0}
        BY <3>3
      <4> QED BY <3>3, <4>1
    <3>5. m_global_wordid \in Nat
      BY <1>1 DEF MapsTyped
    <3>6. /\ \A i \in fresh : /\ id[i] = m_global_wordid + Cardinality(fresh \cap 1..i)
                              /\ file[i] \notin Mounted(old)
                              /\ \A k \in 1..(i - 1) : file[k] # file[i]
          /\ \A i \in DOMAIN file \ fresh : id[i] = NoId
          /\ DOMAIN id = DOMAIN file
      <4>1. ASSUME NEW i \in fresh
            PROVE  /\ file[i] \notin Mounted(old) /\ \A k \in 1..(i - 1) : file[k] # file[i]
                   /\ id[i] = m_global_wordid + Cardinality(fresh \cap 1..i)
        <5>1. i \in DOMAIN file /\ filter[i]
          OBVIOUS
        <5>2. /\ file[i] \notin Mounted(The(d)) /\ \A k \in 1..(i - 1) : file[k] # file[i]
          BY <5>1
        <5> HIDE DEF filter, fresh
        <5> QED BY <3>2, <5>1, <5>2
      <4>2. ASSUME NEW i \in DOMAIN file, i \notin fresh PROVE id[i] = NoId
        <5>1. ~filter[i]
          BY <4>2
        <5> HIDE DEF filter, fresh
        <5> QED BY <5>1
      <4> QED BY <4>1, <4>2
    <3>7. /\ \A i \in fresh : file[i] \in Pair /\ file[i] \notin Mounted(old)
          /\ \A i, j \in fresh : file[i] = file[j] => i = j
      <4>1. \A i \in fresh : file[i] \in Pair
        BY <3>3, ElementOf
      <4>2. ASSUME NEW i \in fresh, NEW j \in fresh, file[i] = file[j] PROVE i = j
        <5>1. i \in Nat /\ j \in Nat /\ i >= 1 /\ j >= 1
          BY <3>4
        <5>2. i \notin 1..(j - 1) /\ j \notin 1..(i - 1)
          BY <3>6, <4>2
        <5> QED BY <5>1, <5>2
      <4> QED BY <3>6, <4>1, <4>2
    <3> HIDE DEF filter, fresh
    <3> HIDE DEF id
    <3>8. /\ \A i \in fresh : id[i] \in Nat \ {0}
          /\ \A i, j \in fresh : id[i] = id[j] => i = j
      <4>1. /\ \A i \in fresh : IdGiven(fresh, m_global_wordid, i) \in Nat \ {0}
            /\ \A i, j \in fresh :
                 IdGiven(fresh, m_global_wordid, i) = IdGiven(fresh, m_global_wordid, j) => i = j
        BY <3>4, <3>5, Numbering
      <4>2. \A i \in fresh : id[i] = IdGiven(fresh, m_global_wordid, i)
        BY <3>6 DEF IdGiven
      <4> QED BY <4>1, <4>2, Zenon
    <3>9. New(g)' = fresh
      <4>1. New(g)' = {i \in DOMAIN file : id[i] # NoId}
        BY <2>1 DEF New
      <4>2. fresh \subseteq DOMAIN file /\ \A i \in DOMAIN file : id[i] # NoId <=> i \in fresh
        BY <3>3, <3>6, <3>8 DEF NoId
      <4> QED BY <4>1, <4>2
    <3> DEFINE words == {file[i] : i \in fresh}
    <3>10. PICK ws : ws = words
      OBVIOUS
    <3>11. UnderWay(d)' = ws
      <4>1. UnderWay(d)' = {w \in Pair : \E i \in fresh : file[i] = w}
        BY <2>1, <3>9 DEF UnderWay
      <4> QED BY <3>7, <3>10, <4>1
    <3>12. PICK dict : dict = [old EXCEPT !.m_word_map =
                                 @ \cup {[id |-> NoId, word |-> file[i]] : i \in fresh}]
      OBVIOUS
    <3>13. NoIds(words) = {[id |-> NoId, word |-> file[i]] : i \in fresh}
      BY DEF NoIds
    <3>14. /\ dict.m_wordid_map = old.m_wordid_map
           /\ dict.m_word_map = old.m_word_map \cup NoIds(words)
           /\ dict = [m_word_map |-> dict.m_word_map, m_wordid_map |-> dict.m_wordid_map]
      BY <3>1, <3>2, <3>12, <3>13 DEF Agree
    <3>15. Agree(dict, ws)
      <4>1. old.m_word_map = Entries(old.m_wordid_map)
        BY <3>1, <3>2, MountedWords
      <4> QED BY <3>1, <3>2, <3>14, <3>10, <4>1 DEF Agree
    <3>16. StoredAs(d, dict.m_wordid_map)'
      <4>1. StoredAs(d, old.m_wordid_map)'
        BY <1>1, <3>1, <3>2 DEF StoredAs, LiveRows, RowsOf
      <4> QED BY <3>14, <4>1
    <3>17. Becomes(d, dict)
      BY <1>4, <3>2, <3>12
    <3>18. Well(d, ws)' /\ The(d)' = dict /\ Known(d)'
      BY <1>1, <3>1, <3>15, <3>16, <3>17, Becoming DEF Settled
    <3>19. Well(d, UnderWay(d))'
      BY <3>11, <3>18 DEF Well
    <3>20. \A i \in fresh : \A k \in DOMAIN dict.m_wordid_map : dict.m_wordid_map[k] # file[i]
      BY <3>1, <3>2, <3>7, <3>14, MountedWords
    <3>21. OpOK(g)'
      BY <1>1, <2>1, <3>6, <3>7, <3>8, <3>9, <3>18, <3>20 DEF OpOK
    <3>22. \A h \in Pool : OpOK(h)'
      BY <2>1, <3>21 DEF OpOK
    <3>23. \A e \in DictID \ amiss' : Well(e, UnderWay(e))'
      BY <2>3, <3>19
    <3> QED BY <3>22, <3>23 DEF AfterInv
  <2> QED BY <2>4, <2>5
<1> QED BY <1>3, <1>4 DEF InsertWords

\* A dictionary that knows all its words, and gets those of a file with their ids.
Cleared(dict) == [dict EXCEPT !.m_word_map = {w \in @ : w.id # NoId}]
Numbered(g, ks) == {[id |-> op[g].id[i], word |-> op[g].file[i]] : i \in ks}

\* Without the words under way a dictionary agrees again.
LEMMA Clearing ==
  ASSUME NEW dict, NEW ws, Agree(dict, ws), NEW known, known = Cleared(dict)
  PROVE  Agree(known, {}) /\ known.m_wordid_map = dict.m_wordid_map
<1> DEFINE f == dict.m_wordid_map
<1>1. \A w \in NoIds(ws) : w.id = NoId
  BY DEF NoIds
<1>2. \A w \in Entries(f) : w.id # NoId
  BY InEntries DEF Agree
<1>3. {w \in dict.m_word_map : w.id # NoId} = Entries(f)
  BY <1>1, <1>2 DEF Agree
<1>4. known.m_wordid_map = f /\ known.m_word_map = Entries(f)
      /\ known = [m_word_map |-> known.m_word_map, m_wordid_map |-> known.m_wordid_map]
  BY <1>3 DEF Agree, Cleared
<1> QED BY <1>4 DEF Agree, NoIds

\* Statements that are executed write rows whose ids the database does not have.
LEMMA NewIds ==
  ASSUME DatabaseOK, NEW g \in Pool, Writing(g), OpTyped(g), NEW n \in Nat,
         \A b \in 1..n : Executes(op[g].file, op[g].id, b)
  PROVE  \A i \in Written(g, n) : op[g].id[i] \notin DOMAIN afterdictiteminfo
<1> SUFFICES ASSUME NEW i \in Written(g, n)
             PROVE  op[g].id[i] \notin DOMAIN afterdictiteminfo
  OBVIOUS
<1>1. i \in DOMAIN op[g].file /\ (i - 1) \div GROUPNUM < n
  BY DEF Written
<1>2. op[g].file \in Seq(Pair)
  BY DEF OpTyped
<1>3. i - 1 \in Nat
  BY <1>1, <1>2
<1>4. GROUPNUM \in Nat \ {0}
  BY AfterAssumption DEF AfterAssumption
<1>5. (i - 1) \div GROUPNUM \in Nat
  BY <1>3, <1>4
<1>6. PICK b : b = (i - 1) \div GROUPNUM + 1
  OBVIOUS
<1>7. b \in 1..n /\ (i - 1) \div GROUPNUM = b - 1
  BY <1>1, <1>5, <1>6
<1>8. i \in Group(op[g].file, b)
  BY <1>1, <1>7 DEF Group
<1> QED BY <1>7, <1>8 DEF Executes

\* The rows a request writes concern no other dictionary than its own.
LEMMA WritingThis ==
  ASSUME NEW g \in Pool, NEW n, afterdictinfo' = afterdictinfo,
         afterdictiteminfo' = Inserted(afterdictiteminfo, NewRows(g, n)),
         NEW e, e # op[g].dict
  PROVE  SameRows(e)
<1>1. PICK rows : rows = NewRows(g, n)
  OBVIOUS
<1>2. \A k \in DOMAIN rows : rows[k].dict = op[g].dict
  BY <1>1 DEF NewRows
<1>3. /\ DOMAIN afterdictiteminfo' = DOMAIN afterdictiteminfo \cup DOMAIN rows
      /\ \A i \in DOMAIN afterdictiteminfo : afterdictiteminfo'[i] = afterdictiteminfo[i]
      /\ \A i \in DOMAIN rows \ DOMAIN afterdictiteminfo : afterdictiteminfo'[i] = rows[i]
  <2>1. afterdictiteminfo' = Inserted(afterdictiteminfo, rows)
    BY <1>1
  <2> QED BY <2>1 DEF Inserted
<1>4. LiveRows(e)' = LiveRows(e) /\ LiveRows(e) \subseteq DOMAIN afterdictiteminfo
  BY <1>2, <1>3 DEF LiveRows, RowsOf
<1> QED BY <1>3, <1>4 DEF SameRows, LiveDicts

\* The words of a refused file go, those of an accepted one get their ids.
LEMMA InsertStatementsStep ==
  ASSUME AfterTyped, AfterInv, Exclusion, NEW g \in Pool, InsertStatements(g)
  PROVE  AfterInv'
<1>1. /\ at[g] = "writing" /\ Writing(g) /\ OpOK(g) /\ OpTyped(g) /\ Ends(g) /\ DatabaseOK /\ MapsTyped
      /\ UNCHANGED <<m_dict_info_map, m_global_wordid, afterdictinfo, amiss>>
  BY DEF InsertStatements, AtStatement, Writing, AfterInv, AfterTyped, OpsTyped
<1>2. PICK d : d = op[g].dict
  OBVIOUS
<1>3. PICK last : last = Groups(op[g].file)
  OBVIOUS
<1>4. PICK known : known = Cleared(The(d))
  OBVIOUS
<1>5. PICK n \in 0..last :
        /\ \A b \in 1..n : Executes(op[g].file, op[g].id, b)
        /\ afterdictiteminfo' = Inserted(afterdictiteminfo, NewRows(g, n))
        /\ Becomes(d, IF n < last THEN known
                      ELSE mount_words(known, Numbered(g, Written(g, last))))
        /\ left_behind' = left_behind \cup (IF n < last THEN DOMAIN NewRows(g, n) ELSE {})
  BY <1>2, <1>3, <1>4, Zenon DEF InsertStatements, Cleared, Numbered
<1>6. n \in Nat /\ left_behind \subseteq left_behind'
  BY <1>5
\* The dictionaries other than its own.
<1>7. ASSUME NEW e \in DictID \ amiss, e # d PROVE Settled(e)'
  <2>1. UnderWay(e) = {}
    BY <1>1, <1>2, <1>7, Alone DEF UnderWay
  <2>2. Settled(e)
    BY <1>7, <2>1 DEF AfterInv, Settled
  <2>3. SameMaps(e) /\ SameRows(e)
    BY <1>1, <1>2, <1>5, <1>7, OthersStay, WritingThis
  <2> QED BY <1>1, <1>6, <2>2, <2>3, Unconcerned DEF Settled
\* Its own, if that is not amiss.
<1>8. ASSUME d \in DictID \ amiss PROVE Settled(d)'
  <2>1. PICK ws : ws = UnderWay(d)
    OBVIOUS
  <2>2. /\ Well(d, ws) /\ Known(d) /\ Agree(The(d), ws) /\ StoredAs(d, The(d).m_wordid_map)
    BY <1>1, <1>2, <1>8, <2>1 DEF AfterInv, OpOK, Well
  <2>3. /\ Agree(known, {}) /\ known.m_wordid_map = The(d).m_wordid_map
        /\ StoredAs(d, known.m_wordid_map)
    BY <1>4, <2>2, Clearing
  <2>4. PICK rows : rows = NewRows(g, n)
    OBVIOUS
  <2>5. /\ IsFiniteSet(DOMAIN rows) /\ DOMAIN rows \subseteq Nat \ {0}
        /\ DOMAIN rows = {op[g].id[i] : i \in Written(g, n)}
        /\ Written(g, n) \subseteq New(g)
    BY <1>1, <2>4, RowsTyped
  <2>6. ASSUME NEW i \in Written(g, n)
        PROVE  /\ rows[op[g].id[i]].dict = d /\ ~rows[op[g].id[i]].isdeleted
               /\ rows[op[g].id[i]].word = op[g].file[i]
    <3>1. PICK row : row = rows[op[g].id[i]]
      OBVIOUS
    <3>2. row.dict = d /\ ~row.isdeleted /\ row.word = op[g].file[i]
      BY <1>1, <1>2, <1>8, <2>4, <3>1, RowsWritten
    <3> QED BY <3>1, <3>2
  <2>7. DOMAIN rows \cap DOMAIN afterdictiteminfo = {}
    BY <1>1, <1>5, <1>6, <2>5, NewIds
  <2>8. /\ DOMAIN afterdictiteminfo' = DOMAIN afterdictiteminfo \cup DOMAIN rows
        /\ \A i \in DOMAIN afterdictiteminfo : afterdictiteminfo'[i] = afterdictiteminfo[i]
        /\ \A i \in DOMAIN rows : afterdictiteminfo'[i] = rows[i]
    <3>1. afterdictiteminfo' = Inserted(afterdictiteminfo, rows)
      BY <1>5, <2>4
    <3> QED BY <2>7, <3>1 DEF Inserted
  <2>9. \A i \in DOMAIN rows : afterdictiteminfo'[i].dict = d /\ ~afterdictiteminfo'[i].isdeleted
    <3> SUFFICES ASSUME NEW k \in DOMAIN rows
                 PROVE  afterdictiteminfo'[k].dict = d /\ ~afterdictiteminfo'[k].isdeleted
      OBVIOUS
    <3>1. PICK i \in Written(g, n) : k = op[g].id[i]
      BY <2>5
    <3>2. rows[k].dict = d /\ ~rows[k].isdeleted
      BY <2>6, <3>1
    <3> QED BY <2>8, <3>2
  <2>10. LiveRows(d)' = LiveRows(d) \cup DOMAIN rows
    BY <2>7, <2>8, <2>9 DEF LiveRows, RowsOf
  <2>11. LiveRows(d) \subseteq DOMAIN afterdictiteminfo
    BY DEF LiveRows, RowsOf
  <2>12. CASE n < last
    <3>1. Becomes(d, known) /\ left_behind' = left_behind \cup DOMAIN rows
      BY <1>5, <2>4, <2>12
    <3>2. StoredAs(d, known.m_wordid_map)'
      BY <2>3, <2>8, <2>10, <2>11, <3>1 DEF StoredAs
    <3> QED BY <1>1, <2>2, <2>3, <3>1, <3>2, Becoming DEF Settled
  <2>13. CASE ~(n < last)
    <3>1. last \in Nat
      <4>1. op[g].file \in Seq(Pair) /\ Len(op[g].file) \in Nat
        BY <1>1 DEF OpTyped
      <4>2. GROUPNUM \in Nat \ {0}
        BY AfterAssumption DEF AfterAssumption
      <4>3. PICK k : k = Len(op[g].file) + GROUPNUM - 1
        OBVIOUS
      <4>4. k \in Nat
        BY <4>1, <4>2, <4>3
      <4>5. k \div GROUPNUM \in Nat
        BY <4>2, <4>4
      <4> QED BY <1>3, <4>3, <4>5 DEF Groups
    <3>2. n = last
      BY <2>13, <3>1
    <3> DEFINE f == [k \in DOMAIN rows |-> rows[k].word]
    <3>3. /\ Becomes(d, mount_words(known, Numbered(g, Written(g, n))))
          /\ left_behind' = left_behind
      BY <1>5, <2>13, <3>2
    <3>4. ASSUME NEW i \in Written(g, n)
          PROVE  f[op[g].id[i]] = op[g].file[i] /\ op[g].id[i] \in DOMAIN f
      <4>1. rows[op[g].id[i]].word = op[g].file[i] /\ op[g].id[i] \in DOMAIN rows
        BY <2>5, <2>6
      <4> QED BY <4>1
    <3>5. DOMAIN f = DOMAIN rows /\ \A k \in DOMAIN f : f[k] = rows[k].word
      OBVIOUS
    <3> HIDE DEF f
    <3>6. Numbered(g, Written(g, n)) = Entries(f)
      <4>1. \A k \in DOMAIN f : \E i \in Written(g, n) : k = op[g].id[i]
        BY <2>5, <3>5
      <4> QED BY <3>4, <4>1 DEF Numbered, Entries
    <3>7. PICK new : new = mount_words(known, Entries(f))
      OBVIOUS
    <3>8. \A k \in DOMAIN f : \E i \in Written(g, n) : k = op[g].id[i] /\ f[k] = op[g].file[i]
      BY <2>5, <3>4, <3>5
    <3>9. \A i, j \in DOMAIN f : f[i] = f[j] => i = j
      <4>1. \A i, j \in New(g) : op[g].file[i] = op[g].file[j] => i = j
        BY <1>1, <1>2, <1>8 DEF OpOK
      <4> QED BY <2>5, <3>8, <4>1
    <3>10. \A i \in DOMAIN f : \A j \in DOMAIN known.m_wordid_map : f[i] # known.m_wordid_map[j]
      <4>1. \A i \in New(g) : \A k \in DOMAIN known.m_wordid_map :
              known.m_wordid_map[k] # op[g].file[i]
        BY <1>1, <1>2, <1>8, <2>3 DEF OpOK
      <4> QED BY <2>5, <3>8, <4>1
    <3>11. DOMAIN f \cap DOMAIN known.m_wordid_map = {}
      BY <2>3, <2>7, <2>11, <3>5 DEF StoredAs
    <3>12. NoId \notin DOMAIN f /\ IsFiniteSet(DOMAIN f)
      BY <2>5, <3>5 DEF NoId
    <3>13. /\ Agree(new, {})
           /\ DOMAIN new.m_wordid_map = DOMAIN known.m_wordid_map \cup DOMAIN f
           /\ \A i \in DOMAIN known.m_wordid_map : new.m_wordid_map[i] = known.m_wordid_map[i]
           /\ \A i \in DOMAIN f : new.m_wordid_map[i] = f[i]
      BY <2>3, <3>7, <3>9, <3>10, <3>11, <3>12, Mounting
    <3>14. StoredAs(d, new.m_wordid_map)'
      <4>1. /\ \A i \in DOMAIN known.m_wordid_map :
                 i \in LiveRows(d) /\ afterdictiteminfo[i].word = known.m_wordid_map[i]
            /\ LiveRows(d) \ DOMAIN known.m_wordid_map \subseteq left_behind
        BY <2>3 DEF StoredAs
      <4>2. \A i \in DOMAIN new.m_wordid_map :
              i \in LiveRows(d)' /\ afterdictiteminfo'[i].word = new.m_wordid_map[i]
        BY <2>8, <2>10, <2>11, <3>5, <3>13, <4>1
      <4>3. LiveRows(d)' \ DOMAIN new.m_wordid_map \subseteq left_behind'
        BY <2>10, <3>3, <3>5, <3>13, <4>1
      <4> QED BY <4>2, <4>3 DEF StoredAs
    <3>15. Becomes(d, new)
      BY <3>3, <3>6, <3>7
    <3> QED BY <1>1, <2>2, <3>13, <3>14, <3>15, Becoming DEF Settled
  <2> QED BY <2>12, <2>13
<1>9. \A e \in DictID \ amiss' : Settled(e)'
  BY <1>1, <1>7, <1>8
<1> QED BY <1>1, <1>9, Ending

-----------------------------------------------------------------------------
(* The invariant holds, whatever the database refuses and whatever ids       *)
(* requests name.                                                            *)

LEMMA HandleStep ==
  ASSUME AfterTyped, AfterInv, Exclusion, NEW g \in Pool, Handle(g)
  PROVE  AfterInv'
<1>1. ASSUME NEW x \in Domain, CreateDict(g, x) PROVE AfterInv'
  BY <1>1, CreateDictStep
<1>2. CASE InsertStatements(g)
  BY <1>2, InsertStatementsStep
<1>3. ASSUME NEW d \in DictID PROVE DeleteDict(g, d) => AfterInv'
  BY DeleteDictStep
<1>4. ASSUME NEW d \in DictID PROVE RecoverDict(g, d) => AfterInv'
  BY RecoverDictStep
<1>5. ASSUME NEW d \in DictID, NEW x \in Domain PROVE ModifyDict(g, d, x) => AfterInv'
  BY ModifyDictStep
<1>6. ASSUME NEW d \in DictID, NEW word \in Pair PROVE InsertWord(g, d, word) => AfterInv'
  <2>1. <<word>> \in Seq(Pair)
    OBVIOUS
  <2> QED BY <2>1, InsertWordsStep DEF InsertWord
<1>7. ASSUME NEW d \in DictID, NEW file \in File PROVE LoadWordFile(g, d, file) => AfterInv'
  <2>1. file \in Seq(Pair)
    BY AfterAssumption DEF AfterAssumption
  <2> QED BY <2>1, InsertWordsStep DEF LoadWordFile
<1>8. ASSUME NEW d \in DictID, NEW i \in WordID PROVE DeleteWord(g, d, i) => AfterInv'
  BY DeleteWordStep
<1>9. ASSUME NEW d \in DictID, NEW i \in WordID PROVE RecoverWord(g, d, i) => AfterInv'
  BY RecoverWordStep
<1>10. ASSUME NEW d \in DictID, NEW i \in WordID, NEW word \in Pair
       PROVE  ModifyWord(g, d, i, word) => AfterInv'
  BY ModifyWordStep
<1> QED BY <1>1, <1>2, <1>3, <1>4, <1>5, <1>6, <1>7, <1>8, <1>9, <1>10 DEF Handle

LEMMA AfterStep ==
  ASSUME LockInv, AfterTyped, AfterInv, [Next]_vars
  PROVE  AfterInv'
<1>1. LockTypeOK /\ Exclusion
  BY DEF LockInv
<1>2. ASSUME NEW g \in Pool, Handle(g) PROVE AfterInv'
  BY <1>1, <1>2, HandleStep
<1>3. CASE Restart
  BY <1>3, RestartStarts, StartedNext
<1>4. CASE \/ \E g \in Pool : Take(g) \/ Answer(g)
           \/ \E p \in Post : BeginReplace(p) \/ EndReplace(p)
           \/ \E t \in Thread : Retest(t) \/ WakeUp(t)
           \/ UNCHANGED vars
  BY <1>1, <1>4, QuietStep
<1> QED BY <1>2, <1>3, <1>4 DEF Next

LEMMA AfterHolds == Spec => [](LockInv /\ AfterTyped /\ AfterInv)
<1>1. Init => AfterInv
  BY InitStarted, StartedWell
<1> QED BY <1>1, AfterStep, AfterTypeHolds, PTL DEF Spec

\* Without a writer inside no request is between its two steps.
LEMMA AllSettled ==
  ASSUME AfterInv, \A g \in Pool : at[g] # "writing", NEW d \in DictID \ amiss
  PROVE  Settled(d)
<1>1. \A g \in Pool : ~Writing(g)
  BY DEF AfterInv, OpOK
<1>2. UnderWay(d) = {}
  BY <1>1 DEF UnderWay
<1> QED BY <1>2 DEF AfterInv, Settled

LEMMA NobodyWrites == ASSUME NoWriter PROVE \A g \in Pool : at[g] # "writing"
BY AfterAssumption DEF AfterAssumption, NoWriter, Threads

LEMMA AgreementOfMaps == AfterTyped /\ AfterInv => MapsAgree
<1> SUFFICES ASSUME AfterTyped, AfterInv, NoWriter, NEW d \in DictID \ amiss
             PROVE  /\ \A x \in Domain : d \in DOMAIN m_dict_map[x] <=> Known(d) /\ Domain_of(d) = x
                    /\ Known(d) =>
                         /\ Domain_of(d) \in Domain
                         /\ The(d).m_word_map = Entries(The(d).m_wordid_map)
                         /\ Cardinality(Mounted(The(d))) = Cardinality(The(d).m_word_map)
  BY DEF MapsAgree, Entries
<1>1. DatabaseOK /\ Settled(d)
  BY NobodyWrites, AllSettled DEF AfterTyped
<1>2. Known(d) => Domain_of(d) \in Domain /\ Agree(The(d), {})
  BY <1>1, Leading DEF Settled, Well
<1>3. \A x \in Domain : d \in DOMAIN m_dict_map[x] <=> Known(d) /\ Domain_of(d) = x
  BY <1>1 DEF Settled, Well
<1> QED BY <1>2, <1>3, MountedWords

LEMMA UseOfTheStored == Exclusion /\ AfterTyped /\ AfterInv => UsedIsStored
<1> SUFFICES ASSUME Exclusion, AfterTyped, AfterInv, NEW p \in Post, at[p] = "reading",
                    NEW x \in Domain, NEW d \in DOMAIN m_dict_map[x] \ amiss
             PROVE  /\ d \in LiveDicts /\ afterdictinfo[d].domain = x
                    /\ \A w \in m_dict_map[x][d].m_word_map :
                         w.id \in LiveRows(d) /\ afterdictiteminfo[w.id].word = w.word
  BY DEF UsedIsStored
<1>1. \A g \in Pool : at[g] # "writing"
  BY AfterAssumption DEF AfterAssumption, Exclusion
<1>2. d \in DictID \ amiss /\ DatabaseOK
  BY DEF AfterTyped, MapsTyped, Places
<1>3. Settled(d)
  BY <1>1, <1>2, AllSettled
<1>4. Known(d) /\ Domain_of(d) = x /\ d \in LiveDicts /\ afterdictinfo[d].domain = x
  BY <1>3 DEF Settled, Well
<1>5. PICK dict : dict = m_dict_map[x][d]
  OBVIOUS
<1>6. Agree(dict, {}) /\ StoredAs(d, dict.m_wordid_map)
  BY <1>3, <1>4, <1>5 DEF Settled, Well, The
<1>7. ASSUME NEW w \in dict.m_word_map
      PROVE  w.id \in LiveRows(d) /\ afterdictiteminfo[w.id].word = w.word
  <2>1. w \in Entries(dict.m_wordid_map)
    BY <1>6, MountedWords
  <2>2. w.id \in DOMAIN dict.m_wordid_map /\ w.word = dict.m_wordid_map[w.id]
    BY <2>1, InEntries
  <2> QED BY <1>6, <2>2 DEF StoredAs
<1> QED BY <1>4, <1>5, <1>7

LEMMA UseOfAllStored == AfterInv => StoredIsUsed
<1> SUFFICES ASSUME AfterInv, NoWriter, NEW d \in DictID \ amiss
             PROVE  /\ d \in LiveDicts <=> Known(d)
                    /\ Known(d) => LiveRows(d) \ DOMAIN The(d).m_wordid_map \subseteq left_behind
  BY DEF StoredIsUsed
<1>1. Settled(d)
  BY NobodyWrites, AllSettled
<1> QED BY <1>1 DEF Settled, Well, StoredAs

-----------------------------------------------------------------------------
\* Whatever was requested, refused by the database and restarted before, the maps name
\* the same dictionaries and words whenever no request is at work, except for those
\* dictionaries that a failed statement or an id of something else concerned since the
\* start (AfterTreatManager, AfterDictionary).
THEOREM MapsAlwaysAgree == Spec => []MapsAgree
BY AfterHolds, AgreementOfMaps, PTL

\* No text is changed by a word that the database does not hold, or holds for another
\* dictionary or domain (Replace), except by those of the same dictionaries.
THEOREM OnlyStoredIsUsed == Spec => []UsedIsStored
<1>1. LockInv => Exclusion
  BY DEF LockInv
<1> QED BY <1>1, AfterHolds, UseOfTheStored, PTL

\* A restart brings back nothing but what was in use and what was left behind, but for
\* the same dictionaries (Initialize).
THEOREM AllStoredIsUsed == Spec => []StoredIsUsed
BY AfterHolds, UseOfAllStored, PTL
=============================================================================
