CONSTANTS
  Threads = {t1, t2, t3}
  NoThread = NoThread
SPECIFICATION SpecWithSpuriousWakeups
PROPERTY IsMultipleUseBarrier
