\* One activation at a time, without ports, under fairness.
SPECIFICATION FairSpec
CONSTANTS
  A = A
  B = B
  b1 = b1
  b2 = b2
  s0 = s0
  port = port
  Modes = {A, B}
  Blocks = {b1, b2}
  BlockModes <- MCBlockModes
  Sources = {s0}
  Version1 = {}
  Order <- MCOrder
  Homes <- MCHomes
  StopModes = {A}
  Calls <- MCCalls
  Observed <- MCObserved
  NestFrom = {"sources0"}
  MaxDepth = 1
  MaxWaking = 1
PROPERTIES
  EndsWhenTold
  BlocksGetRun
