SPECIFICATION Spec
CONSTANTS
  s1 = s1
  s2 = s2
  Streams <- TwoStreams
  MaxChanges = 3
  MaxFaults = 1
PROPERTIES
  ChangesArrive
CHECK_DEADLOCK FALSE
