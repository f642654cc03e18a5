CONSTANTS
  Messages = {m1, m2, m3}
  MaxStops = 1
  Faults = {"throw", "crash", "timeout"}
SPECIFICATION FairSpec
INVARIANTS
  EachMessageOnce
  NeverTwice
  OneTurnInAgent
PROPERTIES
  MessagesSettle
CHECK_DEADLOCK FALSE
