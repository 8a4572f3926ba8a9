CONSTANTS
  Client = {cl1, cl2}
  t1 = t1
  t2 = t2
  TextID = {t1, t2}
  NoText = NoText
  Requests <- MCRequests
  CallID = {1, 2, 3}
  NoCallID = 0
  Resubmits = FALSE
SPECIFICATION Spec
INVARIANTS TypeOK MapsAgree OneMessageEach TextsOwned
PROPERTIES ImplementsOltService EveryTextEnds
CHECK_DEADLOCK FALSE
