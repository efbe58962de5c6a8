\* The process may be stopped, and threads of a disorderly program wait for ever.
SPECIFICATION FairSpec
CONSTANTS
  Threads = {t1, t2}
  Root = Root
  NoClass = NoClass
  Object = Object
  Controller = Controller
  Console = Console
  Other = Other
  Classes <- MCClasses
  Super <- MCSuper
  Trivial <- MCTrivial
  Early <- MCEarly
  Uses <- MCUses
INVARIANTS
  FamiliesSound
  NeverFatal
PROPERTIES
  ReturnsInitialized
  CallsReturn
CHECK_DEADLOCK FALSE
