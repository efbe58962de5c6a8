\* The table of entries grows and shrinks; entries go out of line and grow.
SPECIFICATION TableSpec
CONSTANTS
  Objects = {11, 12, 13, 14, 15}
  Locations = {21, 22, 23, 24, 25}
  Stored <- MCStored
  Nil = Nil
  Hash <- MCHash
  InlineCount = 2
  FirstSize = 4
  CompactSize = 8
  CompactFill = 4
CONSTRAINT Bounded
INVARIANTS
  TableSound
PROPERTIES
  PairsSpec
