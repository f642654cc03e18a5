SPECIFICATION Spec
CONSTANTS
  None = None
  p1 = p1
  p2 = p2
  s1 = s1
  s2 = s2
  Procs = {p1, p2}
  Stores = {s1, s2}
  Catalog = {s1, s2}
  Ports = {9222, 9223}
  Does <- TwoDo
  Steps = 1
  MaxFaults = 0
PROPERTIES LockedBrowsersAreLeftAlone
