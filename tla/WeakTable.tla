------------------------------ MODULE WeakTable ------------------------------
(***************************************************************************)
(* The weak table of one side table (objc-weak.mm): an open-addressing     *)
(* hash table of entries, one per weakly referenced object; an entry keeps *)
(* its referrers in line while they are few, and then in a hash table of   *)
(* its own.  Slots become nil again when something is removed, so a search *)
(* does not stop at nil but at the largest displacement ever used.         *)
(*                                                                         *)
(* All operations run with the side table locked; one step is one of them. *)
(***************************************************************************)
EXTENDS Naturals, Sequences, FiniteSets, FiniteSetsExt, Functions

CONSTANTS Objects, Locations,
          Stored,        \* the pairs that come to be registered
          Nil,           \* a slot that is empty
          Hash,          \* of objects and of locations
          InlineCount,   \* WEAK_INLINE_COUNT, 4
          FirstSize,     \* of the table, 64
          CompactSize,   \* the size from which it may shrink, 1024
          CompactFill    \* the fraction at which it does, 16

ASSUME TableAssumption ==
  /\ Stored \subseteq Objects \X Locations
  /\ Hash \in [Objects \cup Locations -> Nat]
  /\ Nil \notin Objects \cup Locations
  /\ InlineCount \in Nat \ {0, 1}
  /\ FirstSize \in Nat \ {0, 1}
  /\ CompactFill \in Nat \ {0, 1}
  /\ CompactSize \in Nat /\ CompactSize >= CompactFill

VARIABLES entries,      \* weak_entries, <<>> before the first registration
          num_entries,
          displacement  \* max_hash_displacement

tableVars == <<entries, num_entries, displacement>>

-----------------------------------------------------------------------------
(* Hash tables                                                             *)

EmptySlots(size) == [i \in 1..size |-> Nil]
Filled(slots) == {i \in DOMAIN slots : slots[i] # Nil}

(* The slot at displacement k from where h belongs, and the displacement   *)
(* of the first empty one.                                                 *)
Place(slots, h, k) == 1 + ((h + k) % Len(slots))
FreeDisplacement(slots, h) ==
  Min({k \in 0..Len(slots) - 1 : slots[Place(slots, h, k)] = Nil})

Larger(a, b) == IF a < b THEN b ELSE a

(* A table of entries, or one of referrers: its slots, how many are filled *)
(* and the largest displacement used.                                      *)
TableOf(V) == [slots : Seq(V \cup {Nil}), num : Nat, disp : Nat]
NewTable(size) == [slots |-> EmptySlots(size), num |-> 0, disp |-> 0]

Add(T, h, x) ==
  LET k == FreeDisplacement(T.slots, h) IN
  [slots |-> [T.slots EXCEPT ![Place(T.slots, h, k)] = x],
   num   |-> T.num + 1,
   disp  |-> Larger(T.disp, k)]

(* What slots have is added to a new table, slot after slot.               *)
Refill(slots, size, key) ==
  LET filled[n \in 0..Len(slots)] ==
        IF n = 0 THEN NewTable(size)
        ELSE IF slots[n] = Nil THEN filled[n - 1]
        ELSE Add(filled[n - 1], Hash[key[slots[n]]], slots[n])
  IN filled[Len(slots)]

(* Where a search finds x, by the key of what is in the table.             *)
Looked(T) == {k \in 0..T.disp : k < Len(T.slots)}
Search(T, key, x) ==
  {i \in {Place(T.slots, Hash[x], k) : k \in Looked(T)} :
     T.slots[i] # Nil /\ key[T.slots[i]] = x}

-----------------------------------------------------------------------------
(* Entries.  In line, refs has no num and no disp.                         *)

EntryType == [referent : Objects, out_of_line : BOOLEAN, refs : TableOf(Locations)]
ASSUME NilAssumption == Nil \notin EntryType

(* The keys of what the tables have.                                       *)
Referent == [e \in EntryType |-> e.referent]
Itself == [l \in Locations |-> l]

weak_entry_t(o, l) ==
  [referent |-> o, out_of_line |-> FALSE,
   refs |-> [NewTable(InlineCount) EXCEPT !.slots[1] = l]]

(* Mutant: the displacement is that of the last insertion.                 *)
Insert_LastDisplacement(e, l) ==
  [e EXCEPT !.refs = [Add(@, Hash[l], l) EXCEPT !.disp = FreeDisplacement(e.refs.slots, Hash[l])]]

Insert(e, l) == [e EXCEPT !.refs = Add(@, Hash[l], l)]

(* A table twice as large has room for all, without growing again.         *)
GrowAndInsert(e, l) ==
  Insert([e EXCEPT !.refs = Refill(@.slots, 2 * Len(@.slots), Itself)], l)

OutOfLine(e) ==
  [e EXCEPT !.out_of_line = TRUE, !.refs = [slots |-> @.slots, num |-> InlineCount, disp |-> 0]]

AppendOutOfLine(e, l) ==
  IF e.refs.num >= (Len(e.refs.slots) * 3) \div 4 THEN GrowAndInsert(e, l) ELSE Insert(e, l)

(* The empty places of an entry that is in line.                           *)
Vacant(e) == DOMAIN e.refs.slots \ Filled(e.refs.slots)

AppendReferrer(e, l) ==
  IF e.out_of_line THEN AppendOutOfLine(e, l)
  ELSE IF Vacant(e) # {} THEN [e EXCEPT !.refs.slots[Min(Vacant(e))] = l]
       ELSE AppendOutOfLine(OutOfLine(e), l)

(* Where remove_referrer finds l; nowhere if l is unknown.                 *)
ReferrerPlaces(e, l) ==
  IF e.out_of_line THEN Search(e.refs, Itself, l)
  ELSE {i \in DOMAIN e.refs.slots : e.refs.slots[i] = l}

RemoveReferrer(e, l) ==
  IF ReferrerPlaces(e, l) = {} THEN e
  ELSE [e EXCEPT !.refs.slots[Min(ReferrerPlaces(e, l))] = Nil,
                 !.refs.num = IF e.out_of_line THEN @ - 1 ELSE @]

(* The test for an empty entry looks at the inline referrers also of an    *)
(* entry that is out of line; there they overlap the pointer to the table, *)
(* which is not nil.                                                       *)
Empty(e) == ~e.out_of_line /\ Filled(e.refs.slots) = {}

-----------------------------------------------------------------------------
(* The table                                                               *)

Table == [slots |-> entries, num |-> num_entries, disp |-> displacement]
Becomes(T) == entries' = T.slots /\ num_entries' = T.num /\ displacement' = T.disp

EntryInsert(T, e) == Add(T, Hash[e.referent], e)

Resize(T, size) == Refill(T.slots, size, Referent)

GrowMaybe(T) ==
  IF T.num >= (Len(T.slots) * 3) \div 4
  THEN Resize(T, IF T.slots = <<>> THEN FirstSize ELSE 2 * Len(T.slots))
  ELSE T

CompactMaybe(T) ==
  IF Len(T.slots) >= CompactSize /\ Len(T.slots) \div CompactFill >= T.num
  THEN Resize(T, Len(T.slots) \div (CompactFill \div 2))
  ELSE T

(* Mutant: the entry is cleared where it was before the table shrank.      *)
RemoveEntry_CompactsFirst(T, i) ==
  LET C == CompactMaybe([T EXCEPT !.num = @ - 1]) IN
  [C EXCEPT !.slots = [j \in DOMAIN @ |-> IF j = i THEN Nil ELSE @[j]]]

RemoveEntry(T, i) == CompactMaybe([T EXCEPT !.slots[i] = Nil, !.num = @ - 1])

(* Where weak_entry_for_referent finds o.                                  *)
EntryPlaces(o) == Search(Table, Referent, o)
HasEntry(o) == EntryPlaces(o) # {}
EntryIndex(o) == CHOOSE i \in EntryPlaces(o) : TRUE

-----------------------------------------------------------------------------
(* storeWeak registers a location only after it has unregistered it.       *)
Registered(o, l) ==
  \E i \in Filled(entries) : entries[i].referent = o /\ l \in Range(entries[i].refs.slots)

weak_register_no_lock(o, l) ==
  /\ ~Registered(o, l)
  /\ IF HasEntry(o)
     THEN /\ entries' = [entries EXCEPT ![EntryIndex(o)] = AppendReferrer(@, l)]
          /\ UNCHANGED <<num_entries, displacement>>
     ELSE Becomes(EntryInsert(GrowMaybe(Table), weak_entry_t(o, l)))

weak_unregister_no_lock(o, l) ==
  /\ HasEntry(o)
  /\ LET i == EntryIndex(o)
         e == RemoveReferrer(entries[i], l)
     IN IF Empty(e)
        THEN Becomes(RemoveEntry(Table, i))
        ELSE entries' = [entries EXCEPT ![i] = e] /\ UNCHANGED <<num_entries, displacement>>

weak_clear_no_lock(o) ==
  /\ HasEntry(o)
  /\ Becomes(RemoveEntry(Table, EntryIndex(o)))

TableInit ==
  /\ entries = <<>>
  /\ num_entries = 0
  /\ displacement = 0

TableNext ==
  \/ \E p \in Stored :
       weak_register_no_lock(p[1], p[2]) \/ weak_unregister_no_lock(p[1], p[2])
  \/ \E o \in Objects : weak_clear_no_lock(o)

TableSpec == TableInit /\ [][TableNext]_tableVars

-----------------------------------------------------------------------------
(* Properties                                                              *)

(* Entries are those of weak_entry_t, in a table of slots.                 *)
TableTypeOK ==
  /\ entries \in Seq(EntryType \cup {Nil})
  /\ num_entries \in Nat
  /\ displacement \in Nat

(* Searches find everything that is in the tables, at one place: what was  *)
(* displaced, what was moved when a table grew or shrank, and whatever     *)
(* holes removals have left before it.                                     *)
SearchComplete ==
  \A i \in Filled(entries) :
    LET e == entries[i] IN
    /\ EntryPlaces(e.referent) = {i}
    /\ \A j \in Filled(e.refs.slots) : ReferrerPlaces(e, e.refs.slots[j]) = {j}

(* bad_weak_table is not called: no search for something that is not there *)
(* comes back to where it began.                                           *)
NoBadTable ==
  /\ \A o \in Objects :
       entries # <<>> /\ ~HasEntry(o) => displacement + 1 < Len(entries)
  /\ \A i \in Filled(entries), l \in Locations :
       entries[i].out_of_line /\ ReferrerPlaces(entries[i], l) = {}
         => entries[i].refs.disp + 1 < Len(entries[i].refs.slots)

(* The counters that decide on growing, shrinking and removing are exact.  *)
CountsExact ==
  /\ num_entries = Cardinality(Filled(entries))
  /\ \A i \in Filled(entries) :
       entries[i].out_of_line => entries[i].refs.num = Cardinality(Filled(entries[i].refs.slots))

(* A table can be searched, for what is in it and for what is not, and     *)
(* knows how full it is.                                                   *)
TableSound == TableTypeOK /\ SearchComplete /\ NoBadTable /\ CountsExact

(* What a step does to the table as WeakPairs has it.                      *)
Pairs == {p \in Stored : Registered(p[1], p[2])}
Abstract == INSTANCE WeakPairs WITH pairs <- Pairs
Implements ==
  \/ \E p \in Stored :
       \/ Abstract!Register(p[1], p[2]) /\ weak_register_no_lock(p[1], p[2])
       \/ Abstract!Unregister(p[1], p[2]) /\ weak_unregister_no_lock(p[1], p[2])
  \/ \E o \in Objects : Abstract!Clear(o) /\ weak_clear_no_lock(o)

(* The table is the set of pairs that module WeakReferences takes it for,  *)
(* and each operation does to it what WeakPairs says of that operation and *)
(* of no other pair.                                                       *)
PairsSpec == Abstract!Init /\ [][Implements]_tableVars

=============================================================================
