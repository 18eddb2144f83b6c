SPECIFICATION LockingSpec
CONSTANTS
  post = post
  receive = receive
  confirm = confirm
  adjust = adjust
  Txn <- MCTxn
  Key <- MCKey
  Effect <- MCEffect
  Kind <- MCKind
  InitialRows <- MCInitialRows
  Absent = Absent
  Free = Free
CHECK_DEADLOCK FALSE
PROPERTIES
  CommitsAreAtomic
  EveryWriterEnds
