------------------------- MODULE AutoreleasePoolInv -------------------------
(***************************************************************************)
(* The inductive invariant of AutoreleasePool in the normal mode, that is, *)
(* without OBJC_DEBUG_POOL_ALLOCATION and OBJC_DEBUG_MISSING_POOLS.        *)
(*                                                                         *)
(* It says what a reader of releaseUntil has to know to believe it: where  *)
(* the pages are full, where they are empty, and how the open pools and    *)
(* the pops in progress lie one above the other.                           *)
(***************************************************************************)
EXTENDS AutoreleasePool

HasPage == tls \notin {Nil, EMPTY_POOL_PLACEHOLDER}

(* The page of a call's boundary; the placeholder's is to be on page 1.    *)
PageOf(i) == IF calls[i].page = Nil THEN 1 ELSE calls[i].page

(* Without a hot page there is nothing but, perhaps, the placeholder.      *)
Unused ==
  ~HasPage => /\ pages = <<>>
              /\ calls = IF tls = Nil THEN <<>> ELSE <<Scope(Nil, 0, "open")>>

(* Pages are full below the hot page and empty above it.                   *)
Layout ==
  HasPage => \A p \in DOMAIN pages : /\ p < tls => Full(p)
                                     /\ p > tls => pages[p] = <<>>

(* Nothing is popped below the stop of a pop in progress, and the boundary *)
(* of an open pool is in its place.                                        *)
Frames ==
  HasPage => \A i \in DOMAIN calls :
    /\ PageOf(i) <= tls
    /\ calls[i].at < Capacity
    /\ calls[i].page = Nil => calls[i].at = 0 /\ calls[i].state = "open"
    /\ PageOf(i) = tls => calls[i].at <= Len(pages[tls])
    /\ calls[i].state = "open" =>
         /\ calls[i].at + 1 \in DOMAIN pages[PageOf(i)]
         /\ pages[PageOf(i)][calls[i].at + 1] = POOL_BOUNDARY

(* Calls lie one above the other in the order they were made.              *)
Nested ==
  \A i, j \in DOMAIN calls : i < j =>
    \/ PageOf(i) < PageOf(j)
    \/ /\ PageOf(i) = PageOf(j)
       /\ calls[i].at <= calls[j].at
       /\ calls[i].state = "open" => calls[i].at < calls[j].at

IInv == TypeOK /\ Unused /\ Layout /\ Frames /\ Nested

(* The pop that tls_dealloc makes goes down to the first entry.            *)
Exits ==
  exiting => /\ calls # <<>> /\ calls[1].state # "open"
             /\ calls[1].page = 1 /\ calls[1].at = 0

=============================================================================
