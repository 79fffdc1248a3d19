SPECIFICATION FairSpec
CONSTANTS
  f1 = f1
  f2 = f2
  t1 = t1
  t2 = t2
  t3 = t3
  t4 = t4
  t5 = t5
  None = None
  Futures <- TwoFutures
  Threads <- FiveThreads
  Jobs <- AllJobs
CHECK_DEADLOCK FALSE
INVARIANTS OneValue OnceEach NeverEarly
PROPERTY CallbacksServed
