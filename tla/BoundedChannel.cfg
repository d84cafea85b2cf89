CONSTANTS
  Threads = {t1, t2, t3}
  Values = {v1, v2}
  Capacity = 2
  Blank = Blank
SPECIFICATION FairSpec
INVARIANT NoLostWakeup
PROPERTIES ImplementsFifo BlockedCallIsServed StoppedCallReturns
