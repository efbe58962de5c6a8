--------------------------- MODULE LoadMethodsInv ---------------------------
(***************************************************************************)
(* The inductive invariant of LoadMethods.                                 *)
(*                                                                         *)
(* It says which calls a thread can be in; that an image that is in memory *)
(* needs images that have been prepared; that the classes and categories   *)
(* that have been prepared are waiting or have been called; and that       *)
(* superclasses wait before subclasses, in the list a call has detached as *)
(* in the one that may still grow; and that what waits when the lists have *)
(* been worked off is of images that -dealloc methods have loaded.         *)
(***************************************************************************)
EXTENDS LoadMethods

Labels == {"prepare", "call", "classes", "class", "categories", "category", "pool", "unlock",
           "load", "dealloc"}
Calls == [at : Labels, item : Items \cup Images, todo : Seq(Items \cup {Nil}), made : 0..MaxCalls]

(* The outermost call of a thread, and what the one that holds the lock is *)
(* working off.                                                            *)
Outermost(t) == stack[t][Len(stack[t])]
phase == IF owner = NoThread THEN "none" ELSE Outermost(owner).at
todo == IF owner = NoThread THEN <<>> ELSE Outermost(owner).todo

AtWork == {"classes", "class", "categories", "category", "pool"}

Types ==
  /\ mapped \subseteq Images /\ late \subseteq Images
  /\ calls \in [Items -> 0..1]
  /\ categories \in Seq(Categories \cup {Nil})
  /\ owner \in Threads \cup {NoThread}
  /\ stack \in [Threads -> Seq(Calls)]

(* Only the thread that holds the lock is beyond the beginning of          *)
(* load_images.                                                            *)
Others ==
  \A t \in Threads \ {owner} :
    \/ stack[t] = <<>>
    \/ Len(stack[t]) = 1 /\ stack[t][1].at = "prepare" /\ stack[t][1].todo = <<>>

(* Its calls: the outermost call calls +load methods, or -dealloc methods  *)
(* when it pops the pool, and a call of load_images in such a method       *)
(* returns when call_load_methods is at work.                              *)
Calling == {"class", "category", "pool"}

MethodOf(outer, call, images) ==
  \/ outer.at # "pool" /\ call.at = "load" /\ call.item \in Items /\ ImageOf(call.item) \in images
  \/ outer.at = "pool" /\ call.at = "dealloc" /\ PoolLoads

Shape(s, images) ==
  LET n == Len(s) IN
  /\ n \in 1..3
  /\ s[n].at \in AtWork \cup {"call", "unlock"}
  /\ n > 1 => s[n].at \in Calling /\ MethodOf(s[n], s[n - 1], images)
  /\ n = 3 => s[1].at \in {"prepare", "call", "unlock"}
  /\ \A i \in 1..(n - 1) : s[i].todo = <<>>

Holder == owner # NoThread => Shape(stack[owner], mapped)

Depth(s) == IF Len(s) = 3 /\ s[1].at # "prepare" THEN 2 ELSE 1

Lock ==
  /\ depth = IF owner = NoThread THEN 0 ELSE Depth(stack[owner])
  /\ loading = (phase \in AtWork)

(* An image that is being prepared is in memory, and prepared once.        *)
PreparesAre ==
  /\ \A t \in Threads : At(t, "prepare") => Top(t).item \in mapped
  /\ \A t, u \in Threads :
       At(t, "prepare") /\ At(u, "prepare") /\ Top(t).item = Top(u).item => t = u

Unprepared == {Top(t).item : t \in {u \in Threads : At(u, "prepare")}}
Prepared == mapped \ Unprepared

Linked == \A image \in mapped : Needs(image) \subseteq Prepared

-----------------------------------------------------------------------------
In(list, item) == \E i \in DOMAIN list : list[i] = item

(* No item twice                                                           *)
Once(list) == \A i, j \in DOMAIN list : list[i] = list[j] /\ list[i] # Nil => i = j

(* Superclasses first                                                      *)
Sorted(list) ==
  \A i, j \in DOMAIN list :
    list[i] \in Classes /\ list[j] \in Classes /\ list[j] \in Above[Super[list[i]]] => j < i

(* What is flagged and waits, when images are mapped, list is detached,    *)
(* and methods have been called.                                           *)
ClassesSound(s, images, list, made) ==
  /\ s.flagged \subseteq Classes /\ s.classes \in Seq(Classes \cup {Nil})
  /\ \A c \in s.flagged : ImageOf(c) \in images /\ Super[c] \in s.flagged \cup {NoClass}
  /\ \A c \in s.flagged \cap HasLoad : made[c] = 1 \/ In(list, c) \/ In(s.classes, c)
  /\ \A c \in Classes \ s.flagged : made[c] = 0 /\ ~In(list, c)
  /\ \A i \in DOMAIN s.classes : LET c == s.classes[i] IN
       c # Nil => c \in s.flagged \cap HasLoad /\ made[c] = 0 /\ ~In(list, c)
  /\ Once(s.classes) /\ Sorted(s.classes)
  /\ \A i \in DOMAIN s.classes, j \in DOMAIN list :
       s.classes[i] \in Classes /\ list[j] \in Classes => s.classes[i] \notin Above[Super[list[j]]]

ClassesAre == ClassesSound([flagged |-> flagged, classes |-> classes], mapped, todo, calls)

ClassesPrepared ==
  /\ \A c \in HasLoad : ImageOf(c) \in Prepared => c \in flagged
  /\ \A c \in flagged : ImageOf(c) \in Prepared

CategoriesAre ==
  /\ \A k \in Categories : ImageOf(k) \in Prepared <=> calls[k] = 1 \/ In(todo, k) \/ In(categories, k)
  /\ \A k \in Categories : In(categories, k) => calls[k] = 0 /\ ~In(todo, k)
  /\ Once(categories)

TodoIs ==
  /\ Once(todo)
  /\ \A i \in DOMAIN todo : todo[i] # Nil =>
       /\ calls[todo[i]] = 0 /\ ImageOf(todo[i]) \in mapped
       /\ phase = "category" => todo[i] \in Categories /\
            \A c \in Above[ClassOf[todo[i]]] \cap HasLoad : calls[c] = 1
       /\ phase # "category" => phase = "class" /\ todo[i] \in Classes
  /\ phase = "class" => Sorted(todo)

(* When lists are empty                                                    *)
Empty ==
  /\ phase = "categories" => classes = <<>>
  /\ phase \notin {"class", "category"} => todo = <<>>

(* What waits when they have been worked off is late.                      *)
AllLate(list) == \A i \in DOMAIN list : list[i] # Nil => ImageOf(list[i]) \in late

Left ==
  /\ phase \in {"none", "pool", "unlock"} => AllLate(classes) /\ AllLate(categories)
  /\ \A t \in Threads : owner = t /\ phase = "pool" /\ At(t, "prepare") => Top(t).item \in late
  /\ late # {} => PoolLoads

IInv ==
  /\ Types /\ Others /\ Holder /\ Lock /\ PreparesAre /\ Linked
  /\ ClassesAre /\ ClassesPrepared /\ CategoriesAre /\ TodoIs /\ Empty /\ Left
  /\ ParentFirst
=============================================================================
