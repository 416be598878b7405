CONSTANTS
  Threads = {t1, t2, t3, t4, t5}
  NoThread = NoThread
SPECIFICATION FairSpec
INVARIANT CountsTheWaiters
PROPERTIES ImplementsCyclicBarrier RoundsDoNotOverlap
