\* Calls that race with each other and with +initialize, and code of the program
\* in -dealloc and +initialize.
SPECIFICATION LiveSpec
CONSTANTS
  o1 = o1
  o2 = o2
  Threads = {t1, t2}
  Objects = {o1}
  Locations = {l1}
  Nil = Nil
  Raw = Raw
  NoThread = NoThread
  Stripe <- MCStripe
  CustomRR = {}
  Initialized = {}
  Calls = {"storeWeak", "storeWeakOrNil", "loadWeak", "message"}
  MaxDepth = 2
  MaxHold = 2
INVARIANTS
  NoDanglingVariable
PROPERTY CallsReturn
