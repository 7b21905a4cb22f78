SPECIFICATION Spec
CONSTANTS
    Senders = {s1, s2}
    Events = {e1}
    Payloads = {p1}
    NumMsgs = 4
    ModIndex = 1
    CacheEnabled = FALSE
PROPERTIES
    AcceptedOnlyWithRoom
