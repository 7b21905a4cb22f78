CONSTANTS
  a = a  b = b  Clients = {a, b}  NoClient = NoClient  Slots = {0, 1}  SlotCounts = {1, 2}
  InitQueues = 1  MaxLadQueues = 2  MaxCommands = 6  MaxDeaths = 1
  QueueThreads = {t1, t2}  IpcThread = ipc  NoObj = NoObj
  Indices = {0, 1}  MaxFd = 2  MaxRemote = 1  MaxAttaches = 1  MaxCreates = 2
  Remotes = {1, 2}  MaxSockets = 2  MaxGets = 2  MaxNsAttaches = 2  MaxRequests = 1
  Threads0 = {a1, a2}  Threads1 = {b1, b2}  MaxNest = 2  None = None  Absent = Absent
SPECIFICATION MCSpec
INVARIANTS
  MutualExclusion OvertakenOnce
  LadIsSound ListenerIsSound DispatchIsSound GetFindsMessage
PROPERTIES
  CallsReturn
CHECK_DEADLOCK FALSE
