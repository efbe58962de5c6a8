---------------------------- MODULE WeakTableInv ----------------------------
(***************************************************************************)
(* The inductive invariant of WeakTable: what holds of the table of        *)
(* entries, by their referents, and of the tables of referrers, by         *)
(* themselves.                                                             *)
(***************************************************************************)
EXTENDS WeakTable

(* No two things in the table have the same key.                           *)
Unique(slots, key) ==
  \A i, j \in Filled(slots) : key[slots[i]] = key[slots[j]] => i = j

(* What is in the table.                                                   *)
Values(slots) == {slots[i] : i \in Filled(slots)}

(* All are where a search looks for them, whatever has been removed.       *)
Reachable(T, key) ==
  \A i \in Filled(T.slots) : \E k \in Looked(T) : i = Place(T.slots, Hash[key[T.slots[i]]], k)

HashFilled(T, key, V) ==
  /\ T \in TableOf(V)
  /\ T.num = Cardinality(Filled(T.slots))
  /\ Unique(T.slots, key) /\ Reachable(T, key)

(* A search ends before it has been everywhere.                            *)
HashSound(T, key, V) ==
  HashFilled(T, key, V) /\ (T.slots # <<>> => T.disp + 1 < Len(T.slots))

EntrySound(e) ==
  IF e.out_of_line THEN e.refs.slots # <<>> /\ HashSound(e.refs, Itself, Locations)
  ELSE Len(e.refs.slots) = InlineCount /\ Unique(e.refs.slots, Itself)

EntriesSound(T) ==
  HashSound(T, Referent, EntryType) /\ \A e \in Values(T.slots) : EntrySound(e)

TableIInv == EntriesSound(Table)

=============================================================================
