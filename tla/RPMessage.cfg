SPECIFICATION Spec
CONSTANTS
  Senders = {s1}
  Endpoints = {q}
  Payloads = {m}
  NumBufs = 2
  NumBlocks = 1
  MailboxDepth = 1
INVARIANT RingsAreServed
CHECK_DEADLOCK FALSE
