CONSTANTS
  j1 = j1
  j2 = j2
  j3 = j3
  j4 = j4
  t1 = t1
  t2 = t2
  Sessions = {1, 2}
  Live = {1}
  Keys = {k1}
  Jobs = {j1, j2, j3, j4}
  SessionOf <- MCSessionOf
  Txs = {t1, t2}
  Limit = 1
  MaxSeq <- MCMaxSeq
SPECIFICATION Spec
SYMMETRY MCSymmetry
CHECK_DEADLOCK FALSE
INVARIANTS
  TypeOK
  GapFree
  OnlySweepsDeadlock
PROPERTIES
  ImplementsChatLog
