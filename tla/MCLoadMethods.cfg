\* Four images that +load methods and the -dealloc methods of objects in their
\* pool open and close.
SPECIFICATION Spec
CONSTANTS
  Threads = {t1, t2}
  NoThread = NoThread
  Nil = Nil
  NoClass = NoClass
  First = First
  Second = Second
  Third = Third
  Other = Other
  Base = Base
  Sub = Sub
  Silent = Silent
  Leaf = Leaf
  Solo = Solo
  BaseCat = BaseCat
  SilentCat = SilentCat
  LeafCat = LeafCat
  SoloCat = SoloCat
  Images = {First, Second, Third, Other}
  Classes <- MCClasses
  HasLoad <- MCHasLoad
  Super <- MCSuper
  ClassList <- MCClassList
  CategoryList <- MCCategoryList
  ClassOf <- MCClassOf
  PoolLoads = TRUE
  MaxCalls = 3
  MaxWaiting = 4
  Careful = TRUE
SYMMETRY Symmetry
INVARIANTS
  ParentFirst
  OnceOneAtATime
  NoneForgotten
  LoadsMapped
