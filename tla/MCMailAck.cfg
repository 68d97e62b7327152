SPECIFICATION MCSpec
CONSTANTS
  m1 = m1
  m2 = m2
  m3 = m3
  claude = claude
  remote = remote
  a1 = a1
  a2 = a2
  Asked = {q1, q2}
  Watchers = {w1, w2}
  Drains = {d1, d2}
  MaxGen = 2
  MaxFaults = 1
  None = None
  Refs = {m1, m2, m3}
  Senders = {claude, remote}
  SenderOf <- MCSenderOf
  Local = {claude}
  RtAcks = {a1, a2}
  Natives = {n1}
  NoRef = NoRef
SYMMETRY MailSymmetry
CONSTRAINT Bounded
CHECK_DEADLOCK FALSE
INVARIANTS
  RetryDoesNotRedeliver
  AlarmTrue
  AlarmKept
PROPERTIES
  NativeReceiptsOnce
  ImplementsAckedDelivery
