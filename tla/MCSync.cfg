\* Two threads that enter and leave three objects in any order, and exit what
\* they have not entered.  Deadlock is not checked: threads that nest two
\* objects in opposite orders wait for each other, in the code as here.
SPECIFICATION Spec
CONSTANTS
  Threads = {t1, t2}
  Objects = {1, 2, 3}
  NoThread = NoThread
  MaxNesting = 3
  MaxStray = 1
CHECK_DEADLOCK FALSE
SYMMETRY Symmetry
INVARIANTS
  CountsSound
  Exclusion
