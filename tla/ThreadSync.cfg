SPECIFICATION Spec
CONSTANTS
  t1 = t1
  t2 = t2
  t3 = t3
  t4 = t4
  a = a
  b = b
  Threads = {t1, t2, t3, t4}
  Items = {a, b}
  Counts = {2}
  Cuts = {1, 2, 3}
  Amounts = {1, 2}
  Indexes <- AllIndexes
  MaxBatch = 3
  MaxLength = 4
  MinPermits <- BelowZero
  MaxPermits = 3
SYMMETRY Interchangeable
INVARIANTS
  NoSleepBesideItems
  NoSleepBesidePermits
  SlicesExact
