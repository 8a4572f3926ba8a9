SPECIFICATION Spec
CONSTANTS
  Slave = {s1, s2, s3}
  mp_time_head = mp_time_head
  mp_time_tail = mp_time_tail
  Null = Null
  Timeout = 1
  MaxTime = 5
INVARIANTS
  TypeOK
  ListMatchesMap
  MapsAgree
  NobodyBehindIsOverdue
PROPERTIES
  ImplementsRegistry
