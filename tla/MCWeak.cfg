\* Two variables that are made, copied, moved and destroyed, and two objects in
\* different side tables, one of a class that overrides retain.
SPECIFICATION Spec
CONSTANTS
  o1 = o1
  o2 = o2
  Threads = {t1, t2}
  Objects = {o1, o2}
  Locations = {l1, l2}
  Nil = Nil
  Raw = Raw
  NoThread = NoThread
  Stripe <- MCStripe
  CustomRR = {o2}
  Initialized = {o1, o2}
  Calls = {"initWeak", "storeWeak", "destroyWeak", "loadWeak", "copyWeak", "moveWeak"}
  MaxDepth = 0
  MaxHold = 1
SYMMETRY Symmetry
INVARIANTS
  TablesSound
  NoLockCycle
PROPERTIES
  WeakSpec
