SPECIFICATION RefsFairSpec
CONSTANTS
  Threads = {t1, t2}
  NoThread = NoThread
  host = host
  inner = inner
  leaf = leaf
  key = key
  Instances = {host, inner, leaf}
  nil = nil
  Associable <- MCAssociable
  Properties <- MCProperties
  MaxHeld = 2
INVARIANTS
  CountsSound
  GettersFindLiving
  AssociationsEndWithObject
PROPERTIES
  CallsReturn
