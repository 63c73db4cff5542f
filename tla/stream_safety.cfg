CONSTANTS
  Jobs = {"SaveFrame", "SaveVideo", "other"}
  Counts <- MCCounts
  Segments <- MCSegments
  Inputs <- MCInputs
  Late <- MCLate
  IntMax = 15
  MaxFaults = 2
SPECIFICATION FairSpec
INVARIANTS
  TypeOK
  NothingFreedTwice
  NothingLeaked
  PacketsStayInTheirStream
  
PROPERTY HandlerEnds
CHECK_DEADLOCK FALSE
