SPECIFICATION MCSpec
CONSTANTS
  p1 = p1  p2 = p2  p3 = p3  p4 = p4
  N = 3
  Threads <- MCThreads
  Home <- MCHome
  MaxNest = 2
  None = None
  Users = {1, 2}  Names = {1, 2}  Objects = {1, 2}
  NumReserved = 1  NumQueues = 1  MaxQueues = 3  AnyIndex = 99
  Functions = {1, 2}  Slots = {0, 1}  ResetKey = 9  MaxAdds = 3
  h1 = h1  h2 = h2
  n1 = n1  n2 = n2  f1 = f1  f2 = f2  l1 = l1  l2 = l2
  NotifyThreads = {n1, n2}  Fns = {f1, f2}  Listeners = {l1, l2}
  ManyEvents = {1}  SingleEvents = {2}  MaxNesting = 2  MaxDepth = 2
  t1 = t1  t2 = t2  t3 = t3
INVARIANTS
  MutualExclusion ListIsCoherent HeapIsPartition  ListenersAreKept
  IndexNamesItsFunction GatesAreAccounted
CHECK_DEADLOCK FALSE
