--------------------------- MODULE ObjectLifetime ---------------------------
(***************************************************************************)
(* What reference counting promises its clients, with no counter in sight. *)
(*                                                                         *)
(* One object lives at one address.  Clients hold strong references to it, *)
(* one per slot, and one weak variable may point at it.  Deallocation      *)
(* begins in the very step that drops the last strong reference; from then *)
(* on the object can only lose its weak reference and be freed, and the    *)
(* address may be reused only after that.                                  *)
(*                                                                         *)
(* Module RefCount, where counts live in two places and every operation    *)
(* takes several steps, implements this specification.                     *)
(***************************************************************************)

CONSTANTS Threads,   \* the threads that hold references
          Slots,     \* the strong references that can exist at once
          NoThread   \* the holder of a slot that is empty

VARIABLES life,      \* "free", "live" or "dealloc"
          slot,      \* slot[s]: the thread that holds strong reference s
          weakVar    \* does the weak variable point at the object?

lifeVars == <<life, slot, weakVar>>

Strong == {s \in Slots : slot[s] # NoThread}

Init ==
  /\ life = "free"
  /\ slot = [s \in Slots |-> NoThread]
  /\ weakVar = FALSE

Alloc(t, s) ==
  /\ life = "free"
  /\ life' = "live"
  /\ slot' = [slot EXCEPT ![s] = t]
  /\ UNCHANGED weakVar

(* A new reference is made only while the object is live: from a reference *)
(* that exists or, by a weak load, from the weak variable.                 *)
Retain(t, s) ==
  /\ life = "live"
  /\ slot[s] = NoThread
  /\ slot' = [slot EXCEPT ![s] = t]
  /\ UNCHANGED <<life, weakVar>>

Give(s, u) ==
  /\ slot[s] # NoThread
  /\ slot' = [slot EXCEPT ![s] = u]
  /\ UNCHANGED <<life, weakVar>>

(* The release that drops the last reference is the one that deallocates.  *)
Release(s) ==
  /\ life = "live"
  /\ slot[s] # NoThread
  /\ slot' = [slot EXCEPT ![s] = NoThread]
  /\ life' = IF Strong = {s} THEN "dealloc" ELSE "live"
  /\ UNCHANGED weakVar

StoreWeak ==
  /\ life = "live"
  /\ weakVar' = TRUE
  /\ UNCHANGED <<life, slot>>

(* objc_destroyWeak by its owner, or deallocation setting it to nil.       *)
ClearWeak ==
  /\ life # "free"
  /\ weakVar' = FALSE
  /\ UNCHANGED <<life, slot>>

Free ==
  /\ life = "dealloc"
  /\ ~weakVar
  /\ life' = "free"
  /\ UNCHANGED <<slot, weakVar>>

Next ==
  \/ \E t \in Threads, s \in Slots : Alloc(t, s) \/ Retain(t, s) \/ Give(s, t)
  \/ \E s \in Slots : Release(s)
  \/ StoreWeak
  \/ ClearWeak
  \/ Free

Spec == Init /\ [][Next]_lifeVars

=============================================================================
