SPECIFICATION FairSpec
CONSTANTS
  Writers = {w1, w2}
  Reader = r
  Messages = {m1, m2}
  NoMsg = NoMsg
INVARIANTS NoLostWakeup NoLostUnblock
PROPERTIES QueuedTaken
