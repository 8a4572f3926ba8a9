CONSTANTS
  Sock = {1, 2, 3, 4, 5}
  ListenSock = 1
  CallID = {11, 12}
  NoCallID = 0
  TextID = {t1, t2}
  NoText = NoText
  BlankTexts = FALSE
SPECIFICATION Spec
INVARIANTS TypeOK OneThingEach SocketsOwned TextsOwned NeverUndefined
PROPERTIES ImplementsReplyService RequestsEnd
CHECK_DEADLOCK FALSE
