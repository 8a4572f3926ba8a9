SPECIFICATION Spec
CONSTANTS
  u1 = u1  u2 = u2  t0 = t0  t1 = t1  t2 = t2  t3 = t3
  sA1 = sA1  sA2 = sA2  sB1 = sB1  d1 = d1  d2 = d2
  TransType = "OLT"
  Domain = {d1}
  NoDomain = NoDomain
  Text = {t1, t2}
  UsrID <- MCUsrID
  TextID <- OneTextID
  TransSize <- MCTransSize
  Slave = {sA1}
  SlaveUuid <- MCSlaveUuid
  SlaveDomain <- OneDomain
  ConcurrentNum <- MCConcurrentNum
  CallID = {c1, c2}
  NoSession = NoSession
  MaxClosing = 1
INVARIANT
  ResultFitsBlock
