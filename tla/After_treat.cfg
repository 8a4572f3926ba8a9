SPECIFICATION Spec
CONSTANTS
  g1 = g1  g2 = g2  p1 = p1  p2 = p2
  news = news  all = all  nowhere = nowhere  a = a  b = b  empty = empty
  Thread = {g1, g2, p1, p2}
  Pool = {g1, g2}
  Post = {p1, p2}
  Domain = {news, all}
  Nowhere = nowhere
  Pair = {a, b}
  Empty = empty
  File <- MCFile
  Type <- MCType
  FailsAt <- MCFailsAt
  GROUPNUM = 1
  Dicts <- MCDicts
  Words <- MCWords
  MaxDict = 2
  MaxWord = 3
  MaxRequests = 2
  MaxRestarts = 1
INVARIANTS TypeOK MapsAgree UsedIsStored StoredIsUsed Exclusion NobodySleepsBesideAFreeLock
PROPERTY EverybodyGetsThrough
CHECK_DEADLOCK FALSE
