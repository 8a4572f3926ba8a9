SPECIFICATION FairSpec
CONSTANTS
  Worker = {w1, w2, w3}
  Poster = {p1, p2}
  Event = {e1, e2, e3, e4}
  HighPriority = {e1, e2}
INVARIANTS
  TypeOK
  WaitersCounted
  NoEventBesideSleeper
PROPERTIES
  ImplementsMailbox
  PostedIsHandled
