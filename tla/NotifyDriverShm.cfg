CONSTANTS
    Senders = {s1}
    Events = {1, 2}
    Payloads = {p, q}
    WaitClear = {TRUE}
    Disablable = {2}
    MayTimeOut = TRUE
    MaxRestarts = 1
SPECIFICATION FairSpec
INVARIANTS NoLostInterrupt
PROPERTIES ImplementsMailbox SendReturns
