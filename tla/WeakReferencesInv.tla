-------------------------- MODULE WeakReferencesInv --------------------------
(***************************************************************************)
(* The inductive invariant of WeakReferences.                              *)
(*                                                                         *)
(* It says at which places of its function a call can be, which calls can  *)
(* lie above it on the stack, what the call knows there of its variable,   *)
(* the side tables and its object, and where the tables differ from the    *)
(* variables while a side table is locked.                                 *)
(***************************************************************************)
EXTENDS WeakReferences

Inits == {"initWeak", "initWeakOrNil"}
Stores == {"storeWeak", "storeWeakOrNil"}
Copies == {"copyWeak", "moveWeak"}

(* The places of a function.                                               *)
InTables == {"unregister", "assign"}
Registers == {"register", "setBit"}
Places(fn) ==
  CASE fn \in Stores \cup Inits -> {"read", "lock", "check"} \cup InTables \cup Registers
    [] fn = "destroyWeak"       -> {"read", "lock", "check"} \cup InTables
    [] fn = "loadWeak"          -> {"read", "lock", "check", "fast", "slow"}
    [] fn = "copyWeak"          -> {"load", "init", "release", "end"}
    [] fn = "moveWeak"          -> {"load", "init", "release", "end", "setNil"}
    [] fn = "dealloc"           -> {"run", "lock", "check", "free"}
    [] fn = "initialize"        -> {"enter", "run", "finish"}

(* The locals of a call.                                                   *)
Locals(f) ==
  /\ f \in FrameType /\ f.fn # "message" /\ f.pc \in Places(f.fn)
  /\ IF f.fn \in {"dealloc", "initialize"} THEN f.loc = Nil ELSE f.loc \in Locations
  /\ IF f.fn \in Copies THEN f.src \in Locations /\ f.src # f.loc ELSE f.src = Nil
  /\ IF f.fn \in {"dealloc", "initialize"} THEN f.old \in Objects
     ELSE f.fn \in Inits \cup Copies => f.old = Nil
  /\ f.fn = "loadWeak" /\ f.pc # "read" => f.old # Nil
  /\ f.fn \notin Stores \cup Inits \cup Copies => f.new = Nil
  /\ f.pc = "load" => f.new = Nil
  /\ f.pc = "setBit" => f.new # Nil

(* What lies above a call that has made another one.                       *)
Above(f, g) ==
  \/ f.fn \in Copies /\ f.pc = "load" /\ g.fn = "loadWeak" /\ g.loc = f.src
  \/ f.fn \in Copies /\ f.pc = "release" /\ g.fn \in Inits /\ g.loc = f.loc
  \/ f.fn \in Copies /\ f.pc = "end" /\ g.fn = "dealloc"
  \/ f.fn = "moveWeak" /\ f.pc = "setNil" /\ g.fn = "destroyWeak" /\ g.loc = f.src
  \/ f.fn \in StoreFns \cup {"loadWeak"} /\ f.pc = "read" /\ g.fn = "initialize"
  \/ f.fn \in {"dealloc", "initialize"} /\ f.pc = "run"

Nested(t) ==
  /\ \A i \in DOMAIN stack[t] : Locals(stack[t][i])
  /\ \A i \in DOMAIN stack[t] \ {Len(stack[t])} : Above(stack[t][i], stack[t][i + 1])
  /\ stack[t] # <<>> => Top(t).pc # "load"

Types ==
  /\ value \in [Locations -> Objects \cup {Nil}]
  /\ isWeak \in [Locations -> BOOLEAN]
  /\ table \subseteq Objects \X Locations
  /\ weakBit \in [Objects -> BOOLEAN]
  /\ memory \in [Objects -> {"free", "live", "dealloc"}]
  /\ held \in [Threads -> [Objects -> Nat]]
  /\ class \in [Objects -> {"no", "initializing", "defaultRR", "initialized"}]
  /\ lock \in [Stripes -> Threads \cup {NoThread}]
  /\ stack \in [Threads -> Seq(FrameType)]

-----------------------------------------------------------------------------
(* Whose a variable is                                                     *)

(* A call and the one that it has made.                                    *)
Kin(t, i, u, j) == t = u /\ (j = i \/ (j = i + 1 /\ stack[t][i].fn \in Copies)
                                   \/ (i = j + 1 /\ stack[t][j].fn \in Copies))

(* Nobody else uses the variables that a call owns.                        *)
Exclusive ==
  \A t, u \in Threads : \A i \in DOMAIN stack[t], j \in DOMAIN stack[u] :
    Owns(stack[t][i]) \cap {stack[u][j].loc, stack[u][j].src} # {} => Kin(t, i, u, j)

(* What a call knows of its variables.                                     *)
Variables(f) ==
  /\ f.fn \in Inits => ~isWeak[f.loc]
  /\ f.fn \in Stores \cup {"destroyWeak", "loadWeak"} => isWeak[f.loc]
  /\ f.fn \in Copies /\ f.pc \in {"load", "init"} => ~isWeak[f.loc]
  /\ f.fn = "moveWeak" /\ f.pc # "setNil" => isWeak[f.src]
  /\ HaveOld(f) /\ f.pc \in InTables \cup Registers => value[f.loc] = f.old
  /\ f.pc \in {"fast", "slow"} => value[f.loc] = f.old

VariablesOf(t) ==
  /\ \A i \in DOMAIN stack[t] : Variables(stack[t][i])
  /\ stack[t] # <<>> /\ Top(t).pc = "setNil" => ~isWeak[Top(t).src]

-----------------------------------------------------------------------------
(* The side tables                                                         *)

InSection(f) == f.pc \in {"lock", "check", "fast", "slow"} \cup InTables \cup Registers

(* The locks that a call holds, or is about to take in the order of their  *)
(* addresses.                                                              *)
HasLocked(f, locks) ==
  CASE f.pc = "lock" ->
         /\ locks \subseteq Wanted(f) /\ Wanted(f) \ locks # {}
         /\ \A s \in locks, w \in Wanted(f) \ locks : s < w
    [] f.pc # "lock" /\ InSection(f) ->
         /\ f.fn \notin Inits => Stripe[f.old] \in locks
         /\ HaveNew(f) /\ f.new # Nil => Stripe[f.new] \in locks
    [] OTHER -> locks = {}

Locked(t) == IF stack[t] = <<>> THEN Holds(t) = {} ELSE HasLocked(Top(t), Holds(t))

(* The pairs that a call has taken from the table or put into it while the *)
(* variable has its old value.                                             *)
Removed(f, o) == HaveOld(f) /\ f.old = o /\ f.pc \in Registers \cup {"assign"}
Added(f, o) == HaveNew(f) /\ f.new = o /\ f.pc \in {"setBit", "assign"}
Moves(f, o, l) == f.fn \in StoreFns /\ f.loc = l /\ (Removed(f, o) \/ Added(f, o))

Clears(f, o) == f.fn = "dealloc" /\ f.old = o /\ f.pc = "check"

TablesAgree ==
  \A o \in Objects, l \in Locations :
    \/ <<o, l>> \in table <=> isWeak[l] /\ value[l] = o
    \/ \E t \in Threads :
         /\ stack[t] # <<>>
         /\ Moves(Top(t), o, l) \/ (Clears(Top(t), o) /\ value[l] # o)

Pairs(f) ==
  /\ HaveOld(f) /\ f.pc \in Registers \cup {"assign"} =>
       \/ <<f.old, f.loc>> \notin table
       \/ f.pc # "register" /\ HaveNew(f) /\ f.new = f.old
  /\ HaveNew(f) /\ f.pc \in {"setBit", "assign"} /\ f.new # Nil =>
       /\ <<f.new, f.loc>> \in table
       /\ f.pc = "assign" => weakBit[f.new]
  /\ f.fn = "dealloc" /\ f.pc = "free" =>
       \A l \in Locations : ~(isWeak[l] /\ value[l] = f.old)

-----------------------------------------------------------------------------
(* The objects                                                             *)

(* What a variable holds is in memory, and known to have variables.        *)
Reachable ==
  \A l \in Locations :
    isWeak[l] /\ value[l] # Nil => memory[value[l]] # "free" /\ weakBit[value[l]]

(* An object is deallocated by one call.                                   *)
OneDealloc ==
  \A t, u \in Threads : \A i \in DOMAIN stack[t], j \in DOMAIN stack[u] :
    stack[t][i].fn = "dealloc" =>
      /\ memory[stack[t][i].old] = "dealloc"
      /\ stack[u][j].fn = "dealloc" /\ stack[u][j].old = stack[t][i].old => t = u /\ i = j

HeldIsLive == \A t \in Threads, o \in Objects : held[t][o] > 0 => memory[o] = "live"

(* The reference that a call of copyWeak or moveWeak has made.             *)
HasReference(f, o) == f.fn \in Copies /\ f.pc \in {"init", "release"} /\ f.new = o
ReferencesAbove(t, i, o) ==
  {j \in DOMAIN stack[t] : j > i /\ HasReference(stack[t][j], o)}

(* A call that was given an object, or has made a reference to it, has one *)
(* that no call above it gives up; or the object is being deallocated      *)
(* below, and the call will not register it.                               *)
Given(t, i) ==
  LET f == stack[t][i] IN
  f.new # Nil /\ (HaveNew(f) \/ f.pc \in {"init", "release"}) =>
    \/ Cardinality(ReferencesAbove(t, i, f.new)) < held[t][f.new]
    \/ /\ OrNil(f) /\ f.pc \notin {"setBit", "assign"}
       /\ \E k \in 1..i - 1 : stack[t][k].fn = "dealloc" /\ stack[t][k].old = f.new

-----------------------------------------------------------------------------
Calling == Exclusive /\ \A t \in Threads : Nested(t) /\ Locked(t)

Storing ==
  /\ \A t \in Threads : VariablesOf(t) /\ (stack[t] # <<>> => Pairs(Top(t)))
  /\ TablesAgree
  /\ Reachable

Counting ==
  /\ \A t \in Threads : \A i \in DOMAIN stack[t] : Given(t, i)
  /\ OneDealloc
  /\ HeldIsLive

IInv == Types /\ Calling /\ Storing /\ Counting

=============================================================================
