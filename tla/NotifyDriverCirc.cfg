SPECIFICATION FairSpec
CONSTANTS
  Senders = {s1}
  Events = {e1}
  Payloads = {p1}
  NumMsgs = 8
  ModIndex = 2
  CacheEnabled = TRUE
INVARIANTS NoLostInterrupt
PROPERTIES ImplementsChannel Progress
