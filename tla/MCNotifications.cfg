\* Both kinds of mailbox: two threads on core 0, one on core 1.
CONSTANTS
  t1 = t1
  t2 = t2
  t3 = t3
  r1 = r1
  r2 = r2
  Threads = {t1, t2, t3}
  Raisers = {r1, r2}
  Cores = {0, 1}
  CoreOf <- TwoAndOne
  NoRaiser = NoRaiser
  MaxPending = 3
SYMMETRY Symmetry
SPECIFICATION Spec
INVARIANTS ChannelInOnePlace NoSleepWithMail ShutdownAlone MemoryExact
PROPERTIES ImplementsCounter
CHECK_DEADLOCK FALSE
