SPECIFICATION Spec
CONSTANTS
  Threads = {t1, t2}
  NoThread = NoThread
  NoClass = NoClass
  Base = Base
  Derived = Derived
  Classes <- MCClasses
  Super <- MCSuper
  Messages <- MCMessages
  Changed <- MCChanged
  Fixed <- MCFixed
  Warm = Derived
  Cached <- MCCached
  Arrays = {a1, a2, a3, a4}
  Static = Static
  InitCacheSize = 4
  MaxCapacity = 8
  EmptyCapacity = 4
  Threshold = 6
SYMMETRY Symmetry
INVARIANTS
  ArraysSound
  ReadersSafe
  NoStaleEntry
PROPERTIES
  DispatchSpec
