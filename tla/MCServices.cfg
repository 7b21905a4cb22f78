CONSTANTS
  m1 = m1  m2 = m2  m3 = m3
  a = a  b = b
  x1 = x1  x2 = x2  y = y
  none = none
  Tasks = {1, 2}  MaxInit = 2  MaxRequests = 2
  GateUsers = {x1, x2, y}  ProcessOf <- MCProcessOf  Creates <- MCCreates
  Gates = {1, 2}  Resources = {1, 2}  RemoteUses = {1}  GateObjects = {1, 2, 3}  MaxGates = 1
SPECIFICATION Spec
INVARIANTS LookupsAnswerOwn TableIsSound HeapIsSound RegionsAreSound PowerIsSafe ServicesAreOwned
  ProcessesExclude
PROPERTIES MailboxImplementsChannel MessagesArrive
CHECK_DEADLOCK FALSE
