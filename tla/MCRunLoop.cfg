\* Two activations at most, nested where it does no harm.
SPECIFICATION Spec
CONSTANTS
  A = A
  B = B
  b1 = b1
  b2 = b2
  s0 = s0
  port = port
  Modes = {A, B}
  Blocks = {b1, b2}
  BlockModes <- MCBlockModes
  Sources = {s0, port}
  Version1 = {port}
  Order <- MCOrder
  Homes <- MCHomes
  StopModes = {}
  Calls <- MCCalls
  Observed <- MCObserved
  NestFrom = {"sources0"}
  MaxDepth = 2
  MaxWaking = 1
INVARIANTS
  TypeOK
  NoLostWakeUp
PROPERTIES
  BlocksSpec
