CONSTANTS
  Sock = {1, 2, 3, 4, 5}
  ListenSock = 1
  CallID = {11, 12}
  NoCallID = 0
  TextID = {t1, t2}
  NoText = NoText
  BlankTexts = TRUE
SPECIFICATION Spec
INVARIANT NeverAborted
CHECK_DEADLOCK FALSE
