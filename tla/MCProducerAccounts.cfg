SPECIFICATION Spec
CONSTANTS
  Tabs = {t1, t2}
  Wallets = {w1, w2}
  MaxKeys = 3
INVARIANTS
  TypeOK
  ActiveKeyIsApproved
  SenderIsProducer
  GrantSignsOrIsAskedFor
SYMMETRY Interchangeable
CHECK_DEADLOCK FALSE
