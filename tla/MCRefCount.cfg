\* Two threads, both kinds of class, and an extra_rc of one bit, so that
\* counts overflow and are borrowed back all the time.  A store fails only when
\* isa has changed, as it must for termination.
SPECIFICATION FairSpec
CONSTANTS
  Threads = {t1, t2}
  Slots = {s1, s2, s3}
  Classes = {plain, raw}
  RawClasses = {raw}
  RC_HALF = 1
  NoThread = NoThread
  NoArg = NoArg
  NoIsa = NoIsa
  LoseReservation = FALSE
INVARIANTS
  CountsSound
  AddressSound
PROPERTIES
  BorrowIsNotLast
  LifetimeSpec
  CallsReturn
