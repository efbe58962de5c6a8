-------------------------- MODULE LoadMethodsProof --------------------------
(***************************************************************************)
(* Theorems about LoadMethods, for all images, classes and categories and  *)
(* every set of threads, for programs that are careful.                    *)
(*                                                                         *)
(* What schedule_class_load does is dealt with first: the list stays one   *)
(* of classes that are flagged and wait, superclasses first.  Then the     *)
(* invariant IInv of LoadMethodsInv is shown to be kept by every action:   *)
(* those that only move a call keep what it says of lists and classes.     *)
(***************************************************************************)
EXTENDS LoadMethodsInv, SequenceTheorems, WellFoundedInduction, TLAPS

-----------------------------------------------------------------------------
(* Classes and images                                                      *)

(* Every item is of one image.                                             *)
LEMMA ImageIs ==
  \A item \in Items : /\ ImageOf(item) \in Images /\ item \in Contents(ImageOf(item))
                      /\ \A image \in Images : item \in Contents(image) => image = ImageOf(item)
<1> SUFFICES ASSUME NEW item \in Items
             PROVE  /\ ImageOf(item) \in Images /\ item \in Contents(ImageOf(item))
                    /\ \A image \in Images : item \in Contents(image) => image = ImageOf(item)
  OBVIOUS
<1>1. PICK image \in Images :
        item \in Contents(image) /\ \A other \in Images : item \in Contents(other) => other = image
  BY LoadMethodsAssumption
<1> QED
  BY <1>1 DEF ImageOf

(* What an image holds                                                     *)
LEMMA ContentsAre ==
  \A image \in Images :
    /\ Contents(image) \subseteq Items
    /\ \A i \in 1..Len(ClassList[image]) :
         ClassList[image][i] \in Classes /\ ClassList[image][i] \in Contents(image)
    /\ \A c \in Classes : c \in Contents(image) => \E i \in 1..Len(ClassList[image]) : ClassList[image][i] = c
    /\ \A i \in 1..Len(CategoryList[image]) :
         CategoryList[image][i] \in Categories /\ CategoryList[image][i] \in Contents(image)
    /\ \A k \in Categories :
         k \in Contents(image) => \E i \in 1..Len(CategoryList[image]) : CategoryList[image][i] = k
<1> SUFFICES ASSUME NEW image \in Images
             PROVE  /\ Contents(image) \subseteq Items
                    /\ \A i \in 1..Len(ClassList[image]) :
                         ClassList[image][i] \in Classes /\ ClassList[image][i] \in Contents(image)
                    /\ \A c \in Classes : c \in Contents(image) => \E i \in 1..Len(ClassList[image]) : ClassList[image][i] = c
                    /\ \A i \in 1..Len(CategoryList[image]) :
                         CategoryList[image][i] \in Categories /\ CategoryList[image][i] \in Contents(image)
                    /\ \A k \in Categories :
                         k \in Contents(image) => \E i \in 1..Len(CategoryList[image]) : CategoryList[image][i] = k
  OBVIOUS
<1>1. PICK l : l = ClassList[image]
  OBVIOUS
<1>2. PICK m : m = CategoryList[image]
  OBVIOUS
<1>3. l \in Seq(Classes) /\ m \in Seq(Categories) /\ Categories \cap Classes = {}
  BY <1>1, <1>2, LoadMethodsAssumption
<1>4. DOMAIN l = 1..Len(l) /\ (\A i \in 1..Len(l) : l[i] \in Classes)
  BY <1>3
<1>5. DOMAIN m = 1..Len(m) /\ (\A i \in 1..Len(m) : m[i] \in Categories)
  BY <1>3
<1>6. \A x : x \in Contents(image) <=> (\E i \in 1..Len(l) : l[i] = x) \/ (\E i \in 1..Len(m) : m[i] = x)
  BY <1>1, <1>2, <1>4, <1>5 DEF Contents, ToSet
<1> QED
  BY <1>1, <1>2, <1>3, <1>4, <1>5, <1>6 DEF Items

(* The superclass of a class in memory is in memory, when the images it    *)
(* needs are; and so is the class of a category.                           *)
LEMMA NeedsAre ==
  ASSUME NEW item \in Items, Parent(item) # NoClass
  PROVE  /\ Parent(item) \in Classes
         /\ ImageOf(Parent(item)) \in Needs(ImageOf(item)) \cup {ImageOf(item)}
<1>1. Parent(item) \in Classes
  BY LoadMethodsAssumption DEF Parent, Items
<1>2. item \in Contents(ImageOf(item))
  BY ImageIs
<1> QED
  BY <1>1, <1>2 DEF Needs

(* What passes from each superclass to its subclasses holds of all.        *)
LEMMA ClassInduction ==
  ASSUME NEW S, \A c \in Classes : (Super[c] = NoClass \/ (Super[c] \in Classes /\ Super[c] \in S)) => c \in S
  PROVE  Classes \subseteq S
<1> SUFFICES ASSUME Classes \ S # {} PROVE FALSE
  OBVIOUS
<1>1. PICK c \in Classes \ S : Super[c] \notin Classes \ S
  <2>1. PICK T : T = Classes \ S
    OBVIOUS
  <2>2. T \in SUBSET Classes /\ T # {}
    BY <2>1
  <2>3. \E c \in T : Super[c] \notin T
    BY <2>2, LoadMethodsAssumption, ZenonT(60)
  <2> QED
    BY <2>1, <2>3
<1>2. Super[c] = NoClass \/ (Super[c] \in Classes /\ Super[c] \in S)
  BY <1>1, LoadMethodsAssumption
<1> QED
  BY <1>1, <1>2

LEMMA SuperIn == NoClass \notin Classes /\ \A c \in Classes : Super[c] \in Classes \cup {NoClass}
  BY LoadMethodsAssumption

Nodes == Classes \cup {NoClass}

(* The sets that have c and the superclasses of their own elements.        *)
Upward(c) == {S \in SUBSET Classes : /\ c # NoClass => c \in S
                                     /\ \A x \in S : Super[x] # NoClass => Super[x] \in S}

(* A class and its superclasses                                            *)
LEMMA AboveAre ==
  /\ Above[NoClass] = {}
  /\ \A c \in Classes : Above[c] = {c} \cup Above[Super[c]]
  /\ \A c \in Nodes : Above[c] \subseteq Classes
<1>1. PICK A : A = [c \in Nodes |-> {d \in Classes : \A S \in Upward(c) : d \in S}]
  OBVIOUS
<1>2. ASSUME NEW c \in Nodes PROVE A[c] = IF c = NoClass THEN {} ELSE {c} \cup A[Super[c]]
  <2>1. CASE c = NoClass
    <3>1. {} \in Upward(c)
      BY <2>1 DEF Upward
    <3> QED
      BY <1>1, <2>1, <3>1
  <2>2. CASE c # NoClass
    <3>1. c \in Classes /\ Super[c] \in Nodes
      BY <2>2, SuperIn DEF Nodes
    <3>2. PICK S : S = {c} \cup A[Super[c]]
      OBVIOUS
    <3>3. \A d : d \in A[Super[c]] <=> d \in Classes /\ \A R \in Upward(Super[c]) : d \in R
      BY <1>1, <3>1
    <3>4. \A d : d \in A[c] <=> d \in Classes /\ \A R \in Upward(c) : d \in R
      BY <1>1
    <3>5. ASSUME NEW x \in S, Super[x] # NoClass PROVE Super[x] \in S
      <4>1. CASE x = c
        <5>1. \A R \in Upward(Super[c]) : Super[c] \in R
          BY <3>5, <4>1 DEF Upward
        <5> QED
          BY <3>1, <3>2, <3>3, <3>5, <4>1, <5>1 DEF Nodes
      <4>2. CASE x \in A[Super[c]]
        <5>1. x \in Classes /\ \A R \in Upward(Super[c]) : x \in R /\ Super[x] \in R
          BY <3>3, <3>5, <4>2 DEF Upward
        <5> QED
          BY <3>2, <3>3, <3>5, <4>2, <5>1, SuperIn
      <4> QED
        BY <3>2, <4>1, <4>2
    <3>6. S \in Upward(c)
      BY <3>1, <3>2, <3>3, <3>5 DEF Upward
    <3>7. \A R \in Upward(c) : c \in R /\ R \in Upward(Super[c])
      BY <2>2, <3>1 DEF Upward
    <3>8. A[c] = S
      <4>1. \A d : d \in A[c] => d \in S
        BY <3>4, <3>6
      <4>2. \A d : d \in S => d \in A[c]
        BY <3>1, <3>2, <3>3, <3>4, <3>7
      <4> QED
        <5>1. A[c] \subseteq S /\ S \subseteq A[c]
          BY <4>1, <4>2
        <5> QED
          BY <5>1
    <3> QED
      BY <2>2, <3>2, <3>8
  <2> QED
    BY <2>1, <2>2
<1>3. A = [c \in Nodes |-> IF c = NoClass THEN {} ELSE {c} \cup A[Super[c]]]
  BY <1>1, <1>2
<1>4. Above = CHOOSE f : f = [c \in Nodes |-> IF c = NoClass THEN {} ELSE {c} \cup f[Super[c]]]
  BY ZenonT(60) DEF Above, Nodes
<1>5. Above = [c \in Nodes |-> IF c = NoClass THEN {} ELSE {c} \cup Above[Super[c]]]
  BY <1>3, <1>4
<1>6. \A c \in Nodes : Above[c] = IF c = NoClass THEN {} ELSE {c} \cup Above[Super[c]]
  BY <1>5
<1>7. PICK S : S = {c \in Classes : Above[c] \subseteq Classes}
  OBVIOUS
<1>8. Above[NoClass] = {} /\ \A c \in Classes : Above[c] = {c} \cup Above[Super[c]]
  BY <1>6, SuperIn DEF Nodes
<1>9. \A c \in Classes : (Super[c] = NoClass \/ (Super[c] \in Classes /\ Super[c] \in S)) => c \in S
  BY <1>7, <1>8
<1>10. Classes \subseteq S
  BY <1>9, ClassInduction
<1> QED
  BY <1>7, <1>8, <1>10 DEF Nodes

(* A set that has the superclass of each of its classes has all of them.   *)
LEMMA AboveIn ==
  ASSUME NEW S, \A c \in Classes : c \in S => Super[c] \in S \cup {NoClass}
  PROVE  \A c \in Classes : c \in S => Above[c] \subseteq S
<1>1. PICK P : P = {c \in Classes : c \in S => Above[c] \subseteq S}
  OBVIOUS
<1>2. \A c \in Classes : (Super[c] = NoClass \/ (Super[c] \in Classes /\ Super[c] \in P)) => c \in P
  BY <1>1, AboveAre, SuperIn
<1>3. Classes \subseteq P
  BY <1>2, ClassInduction
<1> QED
  BY <1>1, <1>3

(* No class is above its superclass.                                       *)
LEMMA NotAbove == \A c \in Classes : c \notin Above[Super[c]]
<1>1. PICK S : S = {c \in Classes : c \notin Above[Super[c]]}
  OBVIOUS
<1>2. ASSUME NEW c \in Classes, Super[c] = NoClass \/ (Super[c] \in Classes /\ Super[c] \in S) PROVE c \in S
  <2>1. CASE Super[c] = NoClass
    BY <1>1, <2>1, AboveAre
  <2>2. CASE Super[c] \in Classes /\ Super[c] \in S
    <3>1. PICK R : R = Above[Super[Super[c]]]
      OBVIOUS
    <3>2. Above[Super[c]] = {Super[c]} \cup R /\ R \subseteq Classes /\ Super[c] \notin R
      BY <1>1, <2>2, <3>1, AboveAre, SuperIn DEF Nodes
    <3>3. \A x \in Classes : x \in R => Super[x] \in R \cup {NoClass}
      <4>1. \A x \in Classes : Super[x] \in Above[Super[x]] \cup {NoClass}
        BY AboveAre, SuperIn
      <4>2. PICK P : P = {x \in Classes : \A y \in Above[x] : Super[y] \in Above[x] \cup {NoClass}}
        OBVIOUS
      <4>3. \A x \in Classes : (Super[x] = NoClass \/ (Super[x] \in Classes /\ Super[x] \in P)) => x \in P
        BY <4>1, <4>2, AboveAre, SuperIn
      <4>4. Classes \subseteq P
        BY <4>3, ClassInduction
      <4> QED
        BY <2>2, <3>1, <4>2, <4>4, AboveAre, SuperIn
    <3>4. c \notin R
      BY <1>2, <2>2, <3>2, <3>3, SuperIn
    <3>5. c # Super[c]
      <4>1. Super[c] # Super[Super[c]]
        BY <2>2, <3>1, <3>2, AboveAre, SuperIn
      <4> QED
        BY <4>1
    <3> QED
      BY <1>1, <3>2, <3>4, <3>5
  <2> QED
    BY <1>2, <2>1, <2>2
<1>3. Classes \subseteq S
  BY <1>2, ClassInduction
<1> QED
  BY <1>1, <1>3

-----------------------------------------------------------------------------
(* schedule_class_load                                                     *)

(* What it does to a class after its superclasses.                         *)
Listed(c) == IF c \in HasLoad THEN <<c>> ELSE <<>>
Scheduled(s, before, c) ==
  IF c = NoClass \/ c \in s.flagged THEN s
  ELSE [flagged |-> before.flagged \cup {c}, classes |-> before.classes \o Listed(c)]

(* Sets of classes that have the superclasses of their elements, and the   *)
(* recursion of schedule_class_load on them.                               *)
Closed == {D \in SUBSET Nodes : NoClass \in D /\ \A c \in D \ {NoClass} : Super[c] \in D}
Solves(s, f, D) == f = [c \in D |-> Scheduled(s, f[Super[c]], c)]

LEMMA SolutionsAgree ==
  ASSUME NEW s, NEW D \in Closed, NEW E \in Closed, NEW f, NEW g, Solves(s, f, D), Solves(s, g, E)
  PROVE  \A c \in D \cap E : f[c] = g[c]
<1>1. PICK S : S = {c \in Classes : c \in D \cap E => f[c] = g[c]}
  OBVIOUS
<1>2. \A c \in D : f[c] = Scheduled(s, f[Super[c]], c)
  BY DEF Solves
<1>3. \A c \in E : g[c] = Scheduled(s, g[Super[c]], c)
  BY DEF Solves
<1>4. f[NoClass] = s /\ g[NoClass] = s
  BY <1>2, <1>3 DEF Scheduled, Closed
<1>5. ASSUME NEW c \in Classes, Super[c] = NoClass \/ (Super[c] \in Classes /\ Super[c] \in S) PROVE c \in S
  <2> SUFFICES ASSUME c \in D \cap E PROVE f[c] = g[c]
    BY <1>1
  <2>1. Super[c] \in D \cap E
    BY SuperIn DEF Closed
  <2>2. f[Super[c]] = g[Super[c]]
    BY <1>1, <1>4, <1>5, <2>1
  <2> QED
    BY <1>2, <1>3, <2>2
<1>6. Classes \subseteq S
  BY <1>5, ClassInduction
<1> QED
  BY <1>1, <1>4, <1>6 DEF Closed, Nodes

LEMMA AboveClosed == \A c \in Nodes : Above[c] \cup {NoClass} \in Closed
<1>1. PICK P : P = {x \in Classes : \A y \in Above[x] : Super[y] \in Above[x] \cup {NoClass}}
  OBVIOUS
<1>2. \A x \in Classes : Super[x] \in Above[Super[x]] \cup {NoClass}
  BY AboveAre, SuperIn
<1>3. \A x \in Classes : (Super[x] = NoClass \/ (Super[x] \in Classes /\ Super[x] \in P)) => x \in P
  BY <1>1, <1>2, AboveAre, SuperIn
<1>4. Classes \subseteq P
  BY <1>3, ClassInduction
<1> QED
  BY <1>1, <1>4, AboveAre DEF Closed, Nodes

LEMMA SolutionsExist ==
  ASSUME NEW s
  PROVE  \A c \in Nodes : \E f : Solves(s, f, Above[c] \cup {NoClass})
<1>1. PICK S : S = {c \in Classes : \E f : Solves(s, f, Above[c] \cup {NoClass})}
  OBVIOUS
<1>2. \E f : Solves(s, f, Above[NoClass] \cup {NoClass})
  <2>1. PICK f : f = [c \in {NoClass} |-> s]
    OBVIOUS
  <2>2. f = [c \in {NoClass} |-> Scheduled(s, f[Super[c]], c)]
    BY <2>1 DEF Scheduled
  <2>3. Above[NoClass] \cup {NoClass} = {NoClass}
    BY AboveAre
  <2> QED
    BY <2>2, <2>3 DEF Solves
<1>3. ASSUME NEW c \in Classes, Super[c] = NoClass \/ (Super[c] \in Classes /\ Super[c] \in S) PROVE c \in S
  <2>1. PICK D : D = Above[Super[c]] \cup {NoClass}
    OBVIOUS
  <2>2. D \in Closed /\ Super[c] \in D /\ Above[c] \cup {NoClass} = D \cup {c} /\ c \notin D
    BY <2>1, AboveClosed, AboveAre, NotAbove, SuperIn DEF Nodes
  <2>3. PICK f : Solves(s, f, D)
    BY <1>1, <1>2, <1>3, <2>1
  <2>4. PICK g : g = [x \in D \cup {c} |-> IF x \in D THEN f[x] ELSE Scheduled(s, f[Super[c]], c)]
    OBVIOUS
  <2>5. \A x \in D : f[x] = Scheduled(s, f[Super[x]], x)
    BY <2>3 DEF Solves
  <2>6. \A x \in D : g[x] = Scheduled(s, g[Super[x]], x)
    <3>1. \A x \in D \ {NoClass} : Super[x] \in D
      BY <2>2 DEF Closed
    <3>2. \A x \in D \ {NoClass} : g[x] = f[x] /\ g[Super[x]] = f[Super[x]]
      BY <2>4, <3>1
    <3>3. \A b : Scheduled(s, b, NoClass) = s
      BY DEF Scheduled
    <3> QED
      BY <2>4, <2>5, <3>2, <3>3
  <2>7. g[c] = Scheduled(s, g[Super[c]], c)
    BY <2>2, <2>4
  <2>8. \A x \in D \cup {c} : g[x] = Scheduled(s, g[Super[x]], x)
    BY <2>6, <2>7
  <2>9. g = [x \in D \cup {c} |-> Scheduled(s, g[Super[x]], x)]
    BY <2>4, <2>8
  <2> QED
    BY <1>1, <2>2, <2>9 DEF Solves
<1>4. Classes \subseteq S
  BY <1>3, ClassInduction
<1> QED
  BY <1>1, <1>2, <1>4 DEF Nodes

LEMMA ScheduleIs ==
  ASSUME NEW s
  PROVE  \A c \in Nodes : Schedule(s)[c] = Scheduled(s, Schedule(s)[Super[c]], c)
<1>1. PICK D : D = [c \in Nodes |-> Above[c] \cup {NoClass}]
  OBVIOUS
<1>2. PICK h : h = [c \in Nodes |-> CHOOSE f : Solves(s, f, D[c])]
  OBVIOUS
<1>3. \A c \in Nodes : D[c] \in Closed /\ c \in D[c] /\ Solves(s, h[c], D[c])
  BY <1>1, <1>2, AboveClosed, AboveAre, SolutionsExist DEF Nodes
<1>4. PICK g : g = [c \in Nodes |-> h[c][c]]
  OBVIOUS
<1>5. ASSUME NEW c \in Nodes PROVE g[c] = Scheduled(s, g[Super[c]], c)
  <2>1. h[c][c] = Scheduled(s, h[c][Super[c]], c)
    BY <1>3 DEF Solves
  <2>2. CASE c = NoClass
    BY <1>4, <2>1, <2>2 DEF Scheduled
  <2>3. CASE c # NoClass
    <3>1. Super[c] \in Nodes /\ Super[c] \in D[c] \cap D[Super[c]]
      BY <1>3, <2>3, SuperIn DEF Closed, Nodes
    <3>2. h[c][Super[c]] = h[Super[c]][Super[c]]
      <4>1. D[c] \in Closed /\ D[Super[c]] \in Closed /\ Solves(s, h[c], D[c]) /\ Solves(s, h[Super[c]], D[Super[c]])
        BY <1>3, <3>1
      <4> QED
        BY <3>1, <4>1, SolutionsAgree
    <3> QED
      BY <1>4, <2>1, <3>1, <3>2
  <2> QED
    BY <2>2, <2>3
<1>6. g = [c \in Nodes |-> Scheduled(s, g[Super[c]], c)]
  BY <1>4, <1>5
<1>7. g = [c \in Nodes |-> IF c = NoClass \/ c \in s.flagged THEN s
            ELSE [flagged |-> g[Super[c]].flagged \cup {c},
                  classes |-> g[Super[c]].classes \o IF c \in HasLoad THEN <<c>> ELSE <<>>]]
  BY <1>6 DEF Scheduled, Listed
<1>8. Schedule(s) = CHOOSE f : f =
        [c \in Nodes |-> IF c = NoClass \/ c \in s.flagged THEN s
            ELSE [flagged |-> f[Super[c]].flagged \cup {c},
                  classes |-> f[Super[c]].classes \o IF c \in HasLoad THEN <<c>> ELSE <<>>]]
  BY ZenonT(60) DEF Schedule, Nodes
<1>9. Schedule(s) = [c \in Nodes |-> IF c = NoClass \/ c \in s.flagged THEN s
            ELSE [flagged |-> Schedule(s)[Super[c]].flagged \cup {c},
                  classes |-> Schedule(s)[Super[c]].classes \o IF c \in HasLoad THEN <<c>> ELSE <<>>]]
  BY <1>7, <1>8
<1> QED
  BY <1>9 DEF Scheduled, Listed

-----------------------------------------------------------------------------
(* What schedule_class_load keeps                                          *)

(* Images that have with each class its superclass.                        *)
Complete(images) ==
  \A c \in Classes : ImageOf(c) \in images /\ Super[c] # NoClass => ImageOf(Super[c]) \in images

(* One class more, after its superclasses.                                 *)
LEMMA OneMore ==
  ASSUME NEW s, NEW images, NEW list, NEW made, ClassesSound(s, images, list, made),
         NEW c \in Classes, c \notin s.flagged, Super[c] \in s.flagged \cup {NoClass}, ImageOf(c) \in images
  PROVE  ClassesSound([flagged |-> s.flagged \cup {c}, classes |-> s.classes \o Listed(c)], images, list, made)
<1>1. PICK fl, cl : fl = s.flagged /\ cl = s.classes
  OBVIOUS
<1>2. PICK r : r = [flagged |-> fl \cup {c}, classes |-> cl \o Listed(c)]
  OBVIOUS
<1>3. r.flagged = fl \cup {c} /\ r.classes = cl \o Listed(c)
  BY <1>2
<1>4. /\ fl \subseteq Classes /\ cl \in Seq(Classes \cup {Nil})
      /\ \A d \in fl : ImageOf(d) \in images /\ Super[d] \in fl \cup {NoClass}
      /\ \A d \in fl \cap HasLoad : made[d] = 1 \/ In(list, d) \/ In(cl, d)
      /\ \A d \in Classes \ fl : made[d] = 0 /\ ~In(list, d)
      /\ \A i \in DOMAIN cl : cl[i] # Nil => cl[i] \in fl \cap HasLoad /\ made[cl[i]] = 0 /\ ~In(list, cl[i])
      /\ Once(cl) /\ Sorted(cl)
      /\ \A i \in DOMAIN cl, j \in DOMAIN list :
           cl[i] \in Classes /\ list[j] \in Classes => cl[i] \notin Above[Super[list[j]]]
  BY <1>1 DEF ClassesSound
<1>5. Nil \notin Classes /\ NoClass \notin Classes
  BY LoadMethodsAssumption DEF Items
<1>6. PICK n \in Nat : n = Len(cl) /\ DOMAIN cl = 1..n
  BY <1>4
(* c is not above a class that is flagged.                                 *)
<1>7. \A d \in fl : c \notin Above[Super[d]]
  <2>1. \A d \in Classes : d \in fl => Super[d] \in fl \cup {NoClass}
    BY <1>4
  <2>2. \A d \in Classes : d \in fl => Above[d] \subseteq fl
    BY <2>1, AboveIn
  <2>3. \A d \in fl : Above[Super[d]] \subseteq fl
    BY <1>4, <2>2, AboveAre
  <2> QED
    BY <1>1, <2>3
<1>8. \A i \in 1..n : cl[i] # c
  BY <1>1, <1>4, <1>5, <1>6
<1>9. PICK m \in {n, n + 1} :
        /\ r.classes \in Seq(Classes \cup {Nil}) /\ DOMAIN r.classes = 1..m
        /\ \A i \in 1..n : r.classes[i] = cl[i]
        /\ m = n + 1 => c \in HasLoad /\ r.classes[n + 1] = c
        /\ c \in HasLoad => m = n + 1
  <2>1. CASE c \in HasLoad
    <3>1. r.classes = cl \o <<c>>
      BY <1>3, <2>1 DEF Listed
    <3>2. /\ r.classes \in Seq(Classes \cup {Nil}) /\ DOMAIN r.classes = 1..n + 1
          /\ \A i \in 1..n : r.classes[i] = cl[i]
          /\ r.classes[n + 1] = c
      BY <1>4, <1>6, <3>1
    <3> QED
      BY <2>1, <3>2
  <2>2. CASE c \notin HasLoad
    <3>1. r.classes = cl \o << >>
      BY <1>3, <2>2 DEF Listed
    <3>2. r.classes = cl
      BY <1>4, <3>1
    <3> QED
      BY <1>4, <1>6, <2>2, <3>2
  <2> QED
    BY <2>1, <2>2
<1>10. \A i \in 1..m : \/ i \in 1..n /\ r.classes[i] = cl[i]
                       \/ i = n + 1 /\ m = n + 1 /\ r.classes[i] = c
  <2> SUFFICES ASSUME NEW i \in 1..m, i \notin 1..n PROVE i = n + 1 /\ m = n + 1
    BY <1>9
  <2> QED
    BY <1>9
<1>11. r.flagged \subseteq Classes
  BY <1>3, <1>4
<1>12. \A d \in r.flagged : ImageOf(d) \in images /\ Super[d] \in r.flagged \cup {NoClass}
  BY <1>1, <1>3, <1>4
<1>13. \A d \in r.flagged \cap HasLoad : made[d] = 1 \/ In(list, d) \/ In(r.classes, d)
  <2>1. \A d : In(cl, d) => In(r.classes, d)
    BY <1>6, <1>9 DEF In
  <2>2. c \in HasLoad => In(r.classes, c)
    BY <1>9 DEF In
  <2> QED
    BY <1>3, <1>4, <2>1, <2>2
<1>14. \A d \in Classes \ r.flagged : made[d] = 0 /\ ~In(list, d)
  BY <1>3, <1>4
<1>15. made[c] = 0 /\ ~In(list, c)
  BY <1>1, <1>4
<1>16. \A i \in DOMAIN r.classes : r.classes[i] # Nil =>
         r.classes[i] \in r.flagged \cap HasLoad /\ made[r.classes[i]] = 0 /\ ~In(list, r.classes[i])
  BY <1>3, <1>4, <1>6, <1>9, <1>10, <1>15
<1>17. Once(r.classes)
  <2> SUFFICES ASSUME NEW i \in 1..m, NEW j \in 1..m, r.classes[i] = r.classes[j], r.classes[i] # Nil
               PROVE  i = j
    BY <1>9 DEF Once
  <2>1. CASE i \in 1..n /\ j \in 1..n
    BY <1>4, <1>6, <1>9, <2>1 DEF Once
  <2> QED
    BY <1>8, <1>10, <2>1
<1>18. Sorted(r.classes)
  <2> SUFFICES ASSUME NEW i \in 1..m, NEW j \in 1..m, r.classes[i] \in Classes, r.classes[j] \in Classes,
                      r.classes[j] \in Above[Super[r.classes[i]]]
               PROVE  j < i
    BY <1>9 DEF Sorted
  <2>1. CASE i \in 1..n /\ j \in 1..n
    BY <1>4, <1>6, <1>9, <2>1 DEF Sorted
  <2>2. CASE i \in 1..n /\ j = n + 1 /\ r.classes[j] = c
    <3>1. cl[i] \in fl
      BY <1>4, <1>5, <1>6, <1>9, <2>2
    <3> QED
      BY <1>7, <1>9, <2>2, <3>1
  <2>3. CASE i = n + 1 /\ r.classes[i] = c
    <3>1. c \notin Above[Super[c]]
      BY NotAbove
    <3> QED
      BY <1>10, <2>3, <3>1
  <2> QED
    BY <1>10, <2>1, <2>2, <2>3
<1>19. ASSUME NEW i \in DOMAIN r.classes, NEW j \in DOMAIN list, r.classes[i] \in Classes, list[j] \in Classes
       PROVE  r.classes[i] \notin Above[Super[list[j]]]
  <2>1. In(list, list[j])
    BY DEF In
  <2>2. list[j] \in fl
    BY <1>4, <1>19, <2>1
  <2> QED
    BY <1>4, <1>6, <1>7, <1>9, <1>10, <1>19, <2>2
<1>20. ClassesSound(r, images, list, made)
  BY <1>9, <1>11, <1>12, <1>13, <1>14, <1>16, <1>17, <1>18, <1>19 DEF ClassesSound
<1> QED
  BY <1>1, <1>2, <1>20

(* schedule_class_load keeps what holds of the list, and flags the class   *)
(* and nothing but its superclasses.                                       *)
Extends(s, r, images, list, made) ==
  /\ ClassesSound(r, images, list, made)
  /\ s.flagged \subseteq r.flagged
  /\ \A c : In(s.classes, c) => In(r.classes, c)

LEMMA ScheduleSound ==
  ASSUME NEW s, NEW images, NEW list, NEW made, ClassesSound(s, images, list, made), Complete(images)
  PROVE  \A c \in Classes : ImageOf(c) \in images =>
           Extends(s, Schedule(s)[c], images, list, made) /\ c \in Schedule(s)[c].flagged
<1>1. PICK S : S = {c \in Classes : ImageOf(c) \in images =>
                     /\ Extends(s, Schedule(s)[c], images, list, made)
                     /\ c \in Schedule(s)[c].flagged
                     /\ Schedule(s)[c].flagged \subseteq s.flagged \cup Above[c]}
  OBVIOUS
<1>2. Schedule(s)[NoClass] = s
  BY ScheduleIs DEF Scheduled, Nodes
<1>3. ASSUME NEW c \in Classes, Super[c] = NoClass \/ (Super[c] \in Classes /\ Super[c] \in S) PROVE c \in S
  <2> SUFFICES ASSUME ImageOf(c) \in images
               PROVE  /\ Extends(s, Schedule(s)[c], images, list, made)
                      /\ c \in Schedule(s)[c].flagged
                      /\ Schedule(s)[c].flagged \subseteq s.flagged \cup Above[c]
    BY <1>1
  <2>1. Schedule(s)[c] = Scheduled(s, Schedule(s)[Super[c]], c) /\ c # NoClass
    BY ScheduleIs, SuperIn DEF Nodes
  <2>2. CASE c \in s.flagged
    BY <2>1, <2>2 DEF Extends, Scheduled
  <2>3. CASE c \notin s.flagged
    <3>1. PICK b : b = Schedule(s)[Super[c]]
      OBVIOUS
    <3>2. /\ ClassesSound(b, images, list, made)
          /\ s.flagged \subseteq b.flagged
          /\ \A d : In(s.classes, d) => In(b.classes, d)
          /\ Super[c] \in b.flagged \cup {NoClass}
          /\ b.flagged \subseteq s.flagged \cup Above[Super[c]]
      <4>1. CASE Super[c] = NoClass
        BY <1>2, <3>1, <4>1
      <4>2. CASE Super[c] \in Classes /\ Super[c] \in S
        <5>1. ImageOf(Super[c]) \in images
          BY <4>2, SuperIn DEF Complete
        <5> QED
          BY <1>1, <3>1, <4>2, <5>1 DEF Extends
      <4> QED
        BY <1>3, <4>1, <4>2
    <3>3. c \notin b.flagged
      BY <2>3, <3>2, NotAbove
    <3>4. PICK r : r = [flagged |-> b.flagged \cup {c}, classes |-> b.classes \o Listed(c)]
      OBVIOUS
    <3>5. Schedule(s)[c] = r
      BY <2>1, <2>3, <3>1, <3>4 DEF Scheduled
    <3>6. ClassesSound(r, images, list, made)
      BY <3>2, <3>3, <3>4, OneMore
    <3>7. \A d : In(b.classes, d) => In(r.classes, d)
      <4>1. b.classes \in Seq(Classes \cup {Nil}) /\ Listed(c) \in Seq(Classes \cup {Nil})
        <5>1. b.classes \in Seq(Classes \cup {Nil})
          BY <3>2 DEF ClassesSound
        <5>2. CASE c \in HasLoad
          BY <5>1, <5>2 DEF Listed
        <5>3. CASE c \notin HasLoad
          BY <5>1, <5>3 DEF Listed
        <5> QED
          BY <5>2, <5>3
      <4>2. r.classes = b.classes \o Listed(c)
        BY <3>4
      <4>3. \A i \in 1..Len(b.classes) : i \in DOMAIN r.classes /\ r.classes[i] = b.classes[i]
        BY <4>1, <4>2
      <4> QED
        BY <4>1, <4>3 DEF In
    <3>8. r.flagged = b.flagged \cup {c}
      BY <3>4
    <3> QED
      BY <3>2, <3>5, <3>6, <3>7, <3>8, AboveAre DEF Extends
  <2> QED
    BY <2>2, <2>3
<1>4. Classes \subseteq S
  BY <1>3, ClassInduction
<1> QED
  BY <1>1, <1>4

-----------------------------------------------------------------------------
(* The loop of prepare_load_methods                                        *)

(* A set of numbers has a smallest one, because < is well-founded; with it,*)
(* what holds of 0 and of the successor holds of all numbers.              *)
LEMMA NatMin ==
  ASSUME NEW T, T \subseteq Nat, T # {}
  PROVE  \E x \in T : \A y \in T : x <= y
<1>1. PICK R : R = {ss \in Nat \X Nat : ss[1] < ss[2]}
  OBVIOUS
<1>2. IsWellFoundedOn(R, Nat)
  <2>1. IsWellFoundedOn(OpToRel(<, Nat), Nat)
    BY NatLessThanWellFounded
  <2>2. OpToRel(<, Nat) = {ss \in Nat \X Nat : ss[1] < ss[2]}
    BY Zenon DEF OpToRel
  <2> QED
    BY <1>1, <2>1, <2>2, ZenonT(60)
<1>3. \E x \in T : \A y \in T : ~ (<<y, x>> \in R)
  BY <1>2, WFMin
<1>4. \A x, y \in Nat : x < y => <<x, y>> \in R
  BY <1>1
<1>5. PICK x \in T : \A y \in T : ~ (<<y, x>> \in R)
  BY <1>3
<1>6. ASSUME NEW y \in T PROVE x <= y
  <2>1. x \in Nat /\ y \in Nat
    OBVIOUS
  <2>2. ~ (y < x)
    BY <1>4, <1>5, <2>1
  <2> QED
    BY <2>1, <2>2
<1> QED
  BY <1>6

LEMMA SetInduction ==
  ASSUME NEW S, 0 \in S, \A n \in Nat : n \in S => n + 1 \in S
  PROVE  Nat \subseteq S
<1> SUFFICES ASSUME Nat \ S # {} PROVE FALSE
  OBVIOUS
<1>1. PICK x \in Nat \ S : \A y \in Nat \ S : x <= y
  <2>1. Nat \ S \subseteq Nat
    OBVIOUS
  <2> QED
  BY NatMin, <2>1
<1>2. x # 0 /\ x - 1 \in Nat
  OBVIOUS
<1>3. x - 1 \in S
  BY <1>1, <1>2
<1> QED
  BY <1>1, <1>2, <1>3

(* Where the loop is after each class of a list.                           *)
Steps(s, list, f, D) ==
  f = [n \in D |-> IF n = 0 THEN s
                   ELSE IF list[n] \in HasLoad THEN Schedule(f[n - 1])[list[n]] ELSE f[n - 1]]

LEMMA StepsExist ==
  ASSUME NEW s, NEW list
  PROVE  \A n \in Nat : \E f : Steps(s, list, f, 0..n)
<1>1. PICK S : S = {n \in Nat : \E f : Steps(s, list, f, 0..n)}
  OBVIOUS
<1>2. 0 \in S
  <2>1. PICK f : f = [n \in 0..0 |-> s]
    OBVIOUS
  <2>2. Steps(s, list, f, 0..0)
    BY <2>1 DEF Steps
  <2> QED
    BY <1>1, <2>2
<1>3. ASSUME NEW n \in Nat, n \in S PROVE n + 1 \in S
  <2>1. PICK f : Steps(s, list, f, 0..n)
    BY <1>1, <1>3
  <2>2. PICK v : v = IF list[n + 1] \in HasLoad THEN Schedule(f[n])[list[n + 1]] ELSE f[n]
    OBVIOUS
  <2>3. PICK h : h = [i \in 0..n + 1 |-> IF i = n + 1 THEN v ELSE f[i]]
    OBVIOUS
  <2>4. \A i \in 0..n + 1 : h[i] = IF i = 0 THEN s
                 ELSE IF list[i] \in HasLoad THEN Schedule(h[i - 1])[list[i]] ELSE h[i - 1]
    <3> SUFFICES ASSUME NEW i \in 0..n + 1
                 PROVE  h[i] = IF i = 0 THEN s
                               ELSE IF list[i] \in HasLoad THEN Schedule(h[i - 1])[list[i]] ELSE h[i - 1]
      OBVIOUS
    <3>1. CASE i = n + 1
      <4>1. i # 0 /\ i - 1 = n /\ n \in 0..n + 1 /\ n # n + 1
        BY <3>1
      <4>2. h[i] = v /\ h[n] = f[n]
        BY <2>3, <3>1, <4>1
      <4> QED
        BY <2>2, <3>1, <4>1, <4>2
    <3>2. CASE i # n + 1
      <4>1. i \in 0..n
        BY <3>2
      <4>2. h[i] = f[i]
        BY <2>3, <3>2
      <4>3. f[i] = IF i = 0 THEN s
                   ELSE IF list[i] \in HasLoad THEN Schedule(f[i - 1])[list[i]] ELSE f[i - 1]
        BY <2>1, <4>1 DEF Steps
      <4>4. i # 0 => h[i - 1] = f[i - 1]
        BY <2>3, <4>1
      <4> QED
        BY <4>2, <4>3, <4>4
    <3> QED
      BY <3>1, <3>2
  <2>5. Steps(s, list, h, 0..n + 1)
    BY <2>3, <2>4 DEF Steps
  <2> QED
    BY <1>1, <2>5
<1>4. Nat \subseteq S
  BY <1>2, <1>3, SetInduction
<1> QED
  BY <1>1, <1>4

LEMMA ScheduleAllIs ==
  ASSUME NEW s, NEW list, Len(list) \in Nat
  PROVE  \E f : Steps(s, list, f, 0..Len(list)) /\ ScheduleAll(s, list) = f[Len(list)]
<1>1. PICK f : f = CHOOSE g : Steps(s, list, g, 0..Len(list))
  OBVIOUS
<1>2. Steps(s, list, f, 0..Len(list))
  BY <1>1, StepsExist
<1>3. ScheduleAll(s, list) = (CHOOSE g : Steps(s, list, g, 0..Len(list)))[Len(list)]
  BY ZenonT(60) DEF ScheduleAll, Steps
<1> QED
  BY <1>1, <1>2, <1>3

(* It flags the classes of an image that have a +load method.              *)
LEMMA ScheduleAllSound ==
  ASSUME NEW s, NEW images, NEW made, NEW todos, ClassesSound(s, images, todos, made), Complete(images),
         NEW list, list \in Seq(Classes), \A i \in 1..Len(list) : ImageOf(list[i]) \in images
  PROVE  /\ Extends(s, ScheduleAll(s, list), images, todos, made)
         /\ \A i \in 1..Len(list) : list[i] \in HasLoad => list[i] \in ScheduleAll(s, list).flagged
<1>1. PICK n \in Nat : n = Len(list)
  OBVIOUS
<1>2. PICK f : Steps(s, list, f, 0..n) /\ ScheduleAll(s, list) = f[n]
  BY <1>1, ScheduleAllIs
<1>3. \A m \in 0..n : f[m] = IF m = 0 THEN s
                             ELSE IF list[m] \in HasLoad THEN Schedule(f[m - 1])[list[m]] ELSE f[m - 1]
  BY <1>2 DEF Steps
<1>4. PICK S : S = {m \in Nat : m <= n =>
                     /\ Extends(s, f[m], images, todos, made)
                     /\ \A i \in 1..m : list[i] \in HasLoad => list[i] \in f[m].flagged}
  OBVIOUS
<1>5. 0 \in S
  <2>1. f[0] = s
    BY <1>3
  <2>2. Extends(s, s, images, todos, made)
    BY DEF Extends
  <2> QED
    BY <1>4, <2>1, <2>2
<1>6. ASSUME NEW m \in Nat, m \in S PROVE m + 1 \in S
  <2> SUFFICES ASSUME m + 1 <= n
               PROVE  /\ Extends(s, f[m + 1], images, todos, made)
                      /\ \A i \in 1..m + 1 : list[i] \in HasLoad => list[i] \in f[m + 1].flagged
    BY <1>4
  <2>1. PICK b : b = f[m]
    OBVIOUS
  <2>2. /\ Extends(s, b, images, todos, made)
        /\ \A i \in 1..m : list[i] \in HasLoad => list[i] \in b.flagged
    BY <1>4, <1>6, <2>1
  <2>3. PICK c \in Classes : c = list[m + 1] /\ ImageOf(c) \in images
    BY <1>1
  <2>4. PICK r : r = f[m + 1]
    OBVIOUS
  <2>5. r = IF c \in HasLoad THEN Schedule(b)[c] ELSE b
    <3>1. m + 1 \in 0..n /\ m + 1 # 0 /\ (m + 1) - 1 = m
      OBVIOUS
    <3> QED
      BY <1>3, <2>1, <2>3, <2>4, <3>1
  <2>6. Extends(b, r, images, todos, made) /\ (c \in HasLoad => c \in r.flagged)
    <3>1. ClassesSound(b, images, todos, made)
      BY <2>2 DEF Extends
    <3>2. CASE c \in HasLoad
      BY <2>3, <2>5, <3>1, <3>2, ScheduleSound
    <3>3. CASE c \notin HasLoad
      BY <2>5, <3>1, <3>3 DEF Extends
    <3> QED
      BY <3>2, <3>3
  <2>7. Extends(s, r, images, todos, made) /\ b.flagged \subseteq r.flagged
    BY <2>2, <2>6 DEF Extends
  <2>8. \A i \in 1..m + 1 : i \in 1..m \/ i = m + 1
    OBVIOUS
  <2> QED
    BY <2>2, <2>3, <2>4, <2>6, <2>7, <2>8
<1>7. Nat \subseteq S
  BY <1>5, <1>6, SetInduction
<1> QED
  BY <1>1, <1>2, <1>4, <1>7

-----------------------------------------------------------------------------
(* Stacks of calls                                                         *)

LEMMA ReplaceIs ==
  ASSUME NEW s \in Seq(Calls), s # <<>>, NEW f \in Calls
  PROVE  /\ <<f>> \o Tail(s) \in Seq(Calls) /\ Len(<<f>> \o Tail(s)) = Len(s)
         /\ (<<f>> \o Tail(s))[1] = f
         /\ \A i \in 2..Len(s) : (<<f>> \o Tail(s))[i] = s[i]
<1>1. PICK r : r = <<f>> \o Tail(s)
  OBVIOUS
<1>2. Tail(s) \in Seq(Calls) /\ Len(Tail(s)) = Len(s) - 1 /\ \A i \in 1..Len(s) - 1 : Tail(s)[i] = s[i + 1]
  OBVIOUS
<1>3. r \in Seq(Calls) /\ Len(r) = Len(s) /\ r[1] = f
  BY <1>1, <1>2
<1>4. ASSUME NEW i \in 2..Len(s) PROVE r[i] = s[i]
  <2>1. r[i] = Tail(s)[i - 1]
    BY <1>1, <1>2
  <2> QED
    BY <1>2, <2>1
<1> QED
  BY <1>1, <1>3, <1>4

LEMMA PushIs ==
  ASSUME NEW s \in Seq(Calls), NEW f \in Calls
  PROVE  /\ <<f>> \o s \in Seq(Calls) /\ Len(<<f>> \o s) = Len(s) + 1
         /\ (<<f>> \o s)[1] = f
         /\ \A i \in 1..Len(s) : (<<f>> \o s)[i + 1] = s[i]
  OBVIOUS

LEMMA PopIs ==
  ASSUME NEW s \in Seq(Calls), s # <<>>
  PROVE  /\ Tail(s) \in Seq(Calls) /\ Len(Tail(s)) = Len(s) - 1
         /\ \A i \in 1..Len(s) - 1 : Tail(s)[i] = s[i + 1]
  OBVIOUS

LEMMA TopIs ==
  ASSUME Types, NEW t \in Threads
  PROVE  /\ stack[t] \in Seq(Calls)
         /\ stack[t] = <<>> => \A l : ~At(t, l)
         /\ stack[t] # <<>> => /\ Top(t) = stack[t][1] /\ Top(t) \in Calls
                               /\ Len(stack[t]) \in Nat /\ Len(stack[t]) >= 1
                               /\ \A l : At(t, l) <=> stack[t][1].at = l
  BY DEF Types, Top, At

LEMMA TopIsNext ==
  Types' => \A t \in Threads :
    /\ stack[t]' \in Seq(Calls)
    /\ stack[t]' = <<>> => \A l : ~At(t, l)'
    /\ stack[t]' # <<>> => /\ Top(t)' = stack[t]'[1] /\ Top(t)' \in Calls
                           /\ Len(stack[t]') \in Nat /\ Len(stack[t]') >= 1
                           /\ \A l : At(t, l)' <=> stack[t]'[1].at = l
  BY DEF Types, Top, At

(* What a step of t does to the stacks.                                    *)
LEMMA StackIs ==
  ASSUME Types, NEW t \in Threads, NEW r, r \in Seq(Calls), stack' = [stack EXCEPT ![t] = r]
  PROVE  /\ stack' \in [Threads -> Seq(Calls)] /\ stack'[t] = r
         /\ \A u \in Threads \ {t} : /\ stack'[u] = stack[u] /\ Top(u)' = Top(u)
                                     /\ \A l : At(u, l)' <=> At(u, l)
         /\ r = <<>> => \A l : ~At(t, l)'
         /\ r # <<>> => Top(t)' = r[1] /\ \A l : At(t, l)' <=> r[1].at = l
<1>1. /\ stack' \in [Threads -> Seq(Calls)] /\ stack'[t] = r
      /\ \A u \in Threads \ {t} : stack'[u] = stack[u]
  BY DEF Types
<1> QED
  BY <1>1 DEF Top, At

(* What a step of the thread that has the lock does, or is to have it.     *)
LEMMA HolderStep ==
  ASSUME Types, Others, NEW t \in Threads, NEW r, r \in Seq(Calls), stack' = [stack EXCEPT ![t] = r],
         owner \in {NoThread, t}, owner' \in {NoThread, t},
         IF owner' = NoThread THEN r = <<>> ELSE Shape(r, mapped'),
         depth' = (IF owner' = NoThread THEN 0 ELSE Depth(r))
  PROVE  /\ Others' /\ Holder'
         /\ owner' = t => phase' = r[Len(r)].at /\ todo' = r[Len(r)].todo
         /\ owner' = NoThread => phase' = "none" /\ todo' = <<>>
         /\ loading' = (phase' \in AtWork) => Lock'
<1>1. /\ stack'[t] = r
      /\ \A u \in Threads \ {t} : stack'[u] = stack[u]
  BY StackIs
<1>2. NoThread \notin Threads
  BY LoadMethodsAssumption
<1>3. Others'
  <2> SUFFICES ASSUME NEW u \in Threads, u # owner'
               PROVE  \/ stack'[u] = <<>>
                      \/ Len(stack'[u]) = 1 /\ stack'[u][1].at = "prepare" /\ stack'[u][1].todo = <<>>
    BY DEF Others
  <2>1. CASE u = t
    BY <1>1, <1>2, <2>1
  <2>2. CASE u # t
    <3>1. u \in Threads \ {owner}
      BY <1>2, <2>2
    <3> QED
      BY <1>1, <2>2, <3>1 DEF Others
  <2> QED
    BY <2>1, <2>2
<1>4. Holder'
  BY <1>1, <1>2 DEF Holder
<1>5. /\ owner' = t => phase' = r[Len(r)].at /\ todo' = r[Len(r)].todo
      /\ owner' = NoThread => phase' = "none" /\ todo' = <<>>
  BY <1>1, <1>2 DEF phase, todo, Outermost
<1>6. ASSUME loading' = (phase' \in AtWork) PROVE Lock'
  BY <1>1, <1>2, <1>6 DEF Lock
<1> QED
  BY <1>3, <1>4, <1>5, <1>6

(* The thread with the lock, in one more call or back in a method          *)
LEMMA InsideStep ==
  ASSUME Types, Others, Lock, NEW t \in Threads, owner = t, depth = 1, NEW r, r \in Seq(Calls),
         stack' = [stack EXCEPT ![t] = r], UNCHANGED <<owner, depth, loading>>,
         Shape(r, mapped'), Depth(r) = 1, r[Len(r)].at = phase, r[Len(r)].todo = todo
  PROVE  Others' /\ Holder' /\ Lock' /\ phase' = phase /\ todo' = todo
<1>1. t # NoThread
  BY LoadMethodsAssumption
<1>2. /\ owner \in {NoThread, t} /\ owner' \in {NoThread, t}
      /\ IF owner' = NoThread THEN r = <<>> ELSE Shape(r, mapped')
      /\ depth' = (IF owner' = NoThread THEN 0 ELSE Depth(r))
  BY <1>1
<1>3. /\ Others' /\ Holder' /\ phase' = phase /\ todo' = todo
      /\ loading' = (phase' \in AtWork) => Lock'
  BY <1>2, HolderStep
<1>4. loading' = (phase' \in AtWork)
  BY <1>3 DEF Lock
<1> QED
  BY <1>3, <1>4

(* Where a thread can be.                                                  *)
LEMMA Where ==
  ASSUME Types, Others, Holder, Lock, Empty, NEW t \in Threads
  PROVE  /\ owner = t => /\ stack[t] # <<>> /\ Len(stack[t]) \in 1..3
                         /\ phase = stack[t][Len(stack[t])].at /\ todo = stack[t][Len(stack[t])].todo
         /\ owner # t /\ stack[t] # <<>> => At(t, "prepare") /\ Len(stack[t]) = 1 /\ Top(t).todo = <<>>
         /\ At(t, "prepare") /\ owner = t => Len(stack[t]) = 3 /\ depth = 1 /\ loading /\ phase \in Calling
         /\ owner = NoThread => depth = 0 /\ ~loading /\ phase = "none" /\ todo = <<>>
         /\ At(t, "call") \/ At(t, "unlock") =>
              /\ owner = t
              /\ \/ Len(stack[t]) = 1 /\ depth = 1 /\ ~loading
                 \/ Len(stack[t]) = 3 /\ depth = 2 /\ loading /\ phase \in Calling
         /\ \A l \in AtWork : At(t, l) => owner = t /\ Len(stack[t]) = 1 /\ depth = 1 /\ loading
         /\ InMethod(t) => owner = t /\ Len(stack[t]) = 2 /\ depth = 1 /\ loading /\ phase \in Calling
<1>0. NoThread \notin Threads
  BY LoadMethodsAssumption
<1>1. ASSUME owner = t
      PROVE  /\ stack[t] # <<>> /\ Len(stack[t]) \in 1..3
             /\ phase = stack[t][Len(stack[t])].at /\ todo = stack[t][Len(stack[t])].todo
  <2>1. Len(stack[t]) \in 1..3
    BY <1>0, <1>1 DEF Holder, Shape
  <2>2. stack[t] # <<>>
    BY <2>1
  <2> QED
    BY <1>0, <1>1, <2>1, <2>2 DEF phase, todo, Outermost
<1>2. ASSUME owner # t, stack[t] # <<>> PROVE At(t, "prepare") /\ Len(stack[t]) = 1 /\ Top(t).todo = <<>>
  BY <1>2, TopIs DEF Others
<1>3. owner = NoThread => depth = 0 /\ ~loading /\ phase = "none" /\ todo = <<>>
  BY DEF Lock, phase, todo, AtWork
<1>4. ASSUME owner = t
      PROVE  /\ Len(stack[t]) = 1 => phase = stack[t][1].at
             /\ Len(stack[t]) = 2 => stack[t][1].at \in {"load", "dealloc"}
             /\ Len(stack[t]) = 3 => stack[t][1].at \in {"prepare", "call", "unlock"}
             /\ Len(stack[t]) # 1 => phase \in Calling
             /\ phase \in AtWork \cup {"call", "unlock"}
             /\ depth = IF Len(stack[t]) = 3 /\ stack[t][1].at # "prepare" THEN 2 ELSE 1
             /\ loading <=> phase \in AtWork
  <2>1. owner # NoThread /\ Len(stack[t]) \in 1..3
    BY <1>0, <1>1, <1>4
  <2>2. /\ phase \in AtWork \cup {"call", "unlock"}
        /\ Len(stack[t]) > 1 => phase \in Calling /\ stack[t][Len(stack[t]) - 1].at \in {"load", "dealloc"}
        /\ Len(stack[t]) = 3 => stack[t][1].at \in {"prepare", "call", "unlock"}
    <3>1. Shape(stack[t], mapped)
      BY <1>4, <2>1 DEF Holder
    <3> QED
      BY <1>1, <1>4, <3>1 DEF Shape, MethodOf
  <2>3. /\ depth = IF Len(stack[t]) = 3 /\ stack[t][1].at # "prepare" THEN 2 ELSE 1
        /\ loading <=> phase \in AtWork
    BY <1>4, <2>1 DEF Lock, Depth
  <2>4. Len(stack[t]) = 1 => phase = stack[t][1].at
    BY <1>1, <1>4
  <2>5. /\ Len(stack[t]) = 2 => stack[t][1].at \in {"load", "dealloc"} /\ phase \in Calling
        /\ Len(stack[t]) = 3 => phase \in Calling
    <3>1. PICK n : n = Len(stack[t])
      OBVIOUS
    <3>2. n > 1 => phase \in Calling /\ stack[t][n - 1].at \in {"load", "dealloc"}
      BY <2>2, <3>1
    <3>3. n = 2 => stack[t][1].at \in {"load", "dealloc"} /\ phase \in Calling
      BY <3>2
    <3>4. n = 3 => phase \in Calling
      BY <3>2
    <3> QED
      BY <3>1, <3>3, <3>4
  <2>6. Len(stack[t]) # 1 => Len(stack[t]) = 2 \/ Len(stack[t]) = 3
    BY <2>1
  <2> QED
    BY <2>2, <2>3, <2>4, <2>5, <2>6
<1>5. ASSUME owner # t PROVE \A l : l # "prepare" => ~At(t, l)
  BY <1>2, <1>5, TopIs
<1>6. CASE owner # t
  BY <1>0, <1>2, <1>3, <1>5, <1>6 DEF AtWork, InMethod
<1>7. CASE owner = t
  <2>1. stack[t] # <<>> /\ \A l : At(t, l) <=> stack[t][1].at = l
    BY <1>1, <1>7, TopIs
  <2>2. Len(stack[t]) \in 1..3
    BY <1>1, <1>7
  <2>3. CASE Len(stack[t]) = 1
    <3>1. PICK a : a = stack[t][1].at
      OBVIOUS
    <3>2. At(t, "prepare") <=> a = "prepare"
      BY <2>1, <3>1
    <3>3. At(t, "call") <=> a = "call"
      BY <2>1, <3>1
    <3>4. At(t, "unlock") <=> a = "unlock"
      BY <2>1, <3>1
    <3>5. InMethod(t) <=> a \in {"load", "dealloc"}
      BY <2>1, <3>1 DEF InMethod
    <3>6. \A l \in AtWork : At(t, l) <=> a = l
      BY <2>1, <3>1
    <3> QED
      <4>1. a = phase /\ phase \in AtWork \cup {"call", "unlock"} /\ depth = 1
        BY <1>4, <1>7, <2>3, <3>1
      <4>2. a # "prepare" /\ a \notin {"load", "dealloc"}
        BY <4>1 DEF AtWork
      <4>3. loading <=> a \in AtWork
        BY <1>4, <1>7, <4>1
      <4>4. "call" \notin AtWork /\ "unlock" \notin AtWork
        BY DEF AtWork
      <4>5. \A l \in AtWork : At(t, l) => loading
        BY <3>6, <4>3
      <4>6. At(t, "call") \/ At(t, "unlock") => ~loading
        BY <3>3, <3>4, <4>3, <4>4
      <4> QED
        BY <1>0, <1>1, <1>7, <2>3, <3>2, <3>5, <4>1, <4>2, <4>5, <4>6
  <2>4. CASE Len(stack[t]) = 2
    <3>1. PICK a : a = stack[t][1].at
      OBVIOUS
    <3>2. At(t, "prepare") <=> a = "prepare"
      BY <2>1, <3>1
    <3>3. At(t, "call") <=> a = "call"
      BY <2>1, <3>1
    <3>4. At(t, "unlock") <=> a = "unlock"
      BY <2>1, <3>1
    <3>5. InMethod(t) <=> a \in {"load", "dealloc"}
      BY <2>1, <3>1 DEF InMethod
    <3>6. \A l \in AtWork : At(t, l) <=> a = l
      BY <2>1, <3>1
    <3> QED
      BY <1>0, <1>1, <1>4, <1>7, <2>4, <3>1, <3>2, <3>3, <3>4, <3>5, <3>6 DEF AtWork, Calling
  <2>5. CASE Len(stack[t]) = 3
    <3>1. PICK a : a = stack[t][1].at
      OBVIOUS
    <3>2. At(t, "prepare") <=> a = "prepare"
      BY <2>1, <3>1
    <3>3. At(t, "call") <=> a = "call"
      BY <2>1, <3>1
    <3>4. At(t, "unlock") <=> a = "unlock"
      BY <2>1, <3>1
    <3>5. InMethod(t) <=> a \in {"load", "dealloc"}
      BY <2>1, <3>1 DEF InMethod
    <3>6. \A l \in AtWork : At(t, l) <=> a = l
      BY <2>1, <3>1
    <3> QED
      <4>1. /\ a \in {"prepare", "call", "unlock"} /\ phase \in Calling
            /\ depth = IF a # "prepare" THEN 2 ELSE 1
        BY <1>4, <1>7, <2>5, <3>1
      <4>2. loading
        BY <1>4, <1>7, <4>1 DEF AtWork, Calling
      <4>3. \A l \in AtWork : ~At(t, l)
        BY <3>6, <4>1 DEF AtWork
      <4>4. ~InMethod(t)
        BY <3>5, <4>1
      <4> QED
        BY <1>0, <1>1, <1>7, <2>5, <3>2, <3>3, <3>4, <4>1, <4>2, <4>3, <4>4
  <2> QED
    BY <2>2, <2>3, <2>4, <2>5
<1> QED
  BY <1>6, <1>7

-----------------------------------------------------------------------------
(* Steps that keep what is prepared, or all that the invariant says of     *)
(* lists                                                                   *)

LEMMA KeepPrepares ==
  ASSUME Types, PreparesAre, mapped' = mapped, NEW t \in Threads, ~At(t, "prepare"),
         NEW r, r \in Seq(Calls), stack' = [stack EXCEPT ![t] = r], r # <<>> => r[1].at # "prepare"
  PROVE  Unprepared' = Unprepared /\ PreparesAre' /\ ~At(t, "prepare")'
<1>1. ~At(t, "prepare")'
  BY StackIs
<1>2. \A u \in Threads : At(u, "prepare")' <=> At(u, "prepare")
  BY <1>1, StackIs
<1>3. \A u \in Threads : At(u, "prepare") => Top(u)' = Top(u)
  BY StackIs
<1>4. PreparesAre'
  BY <1>2, <1>3 DEF PreparesAre
<1>5. \A x : x \in Unprepared' <=> x \in Unprepared
  BY <1>2, <1>3 DEF Unprepared
<1>6. Unprepared' \subseteq Unprepared /\ Unprepared \subseteq Unprepared'
  BY <1>5
<1> QED
  BY <1>1, <1>4, <1>6

Listings == Linked /\ ClassesAre /\ ClassesPrepared /\ CategoriesAre /\ ParentFirst

LEMMA KeepLists ==
  ASSUME Listings, UNCHANGED <<mapped, flagged, classes, categories, calls>>, todo' = todo,
         Unprepared' = Unprepared
  PROVE  Listings'
<1>1. Prepared' = Prepared
  BY DEF Prepared
<1>2. Linked'
  BY <1>1 DEF Listings, Linked
<1>3. ClassesAre'
  BY DEF Listings, ClassesAre
<1>4. ClassesPrepared'
  BY <1>1 DEF Listings, ClassesPrepared
<1>5. CategoriesAre'
  BY <1>1 DEF Listings, CategoriesAre
<1>6. ParentFirst'
  BY DEF Listings, ParentFirst
<1> QED
  BY <1>2, <1>3, <1>4, <1>5, <1>6 DEF Listings

LEMMA KeepTodo ==
  ASSUME TodoIs, UNCHANGED <<mapped, calls>>, todo' = todo, phase' = phase \/ todo = <<>>
  PROVE  TodoIs'
<1>1. CASE phase' = phase
  BY <1>1 DEF TodoIs
<1>2. CASE todo = <<>>
  BY <1>2 DEF TodoIs, Once, Sorted
<1> QED
  BY <1>1, <1>2

(* What waits when the lists have been worked off is late, as long as the  *)
(* lists stay.                                                             *)
Over == {"none", "pool", "unlock"}

LEMMA KeepLeft ==
  ASSUME Left, UNCHANGED <<classes, categories, late>>, phase' \in Over => phase \in Over,
         NEW t \in Threads, owner' \in {NoThread, t}, ~At(t, "prepare")'
  PROVE  Left'
<1>1. NoThread \notin Threads
  BY LoadMethodsAssumption
<1>2. phase' \in Over => AllLate(classes)' /\ AllLate(categories)'
  BY DEF Left, Over, AllLate
<1>3. \A u \in Threads : owner' = u => ~At(u, "prepare")'
  BY <1>1
<1>4. late' # {} => PoolLoads
  BY DEF Left
<1> QED
  BY <1>2, <1>3, <1>4 DEF Left, Over

-----------------------------------------------------------------------------
(* Steps that replace the innermost call of the thread with the lock       *)

LEMMA ReplaceStep ==
  ASSUME Types, Others, Holder, Lock, Empty, PreparesAre, NEW t \in Threads, owner = t, ~At(t, "prepare"),
         NEW f \in Calls, Replace(t, f), UNCHANGED <<mapped, lock>>, f.at \in AtWork \cup {"call", "unlock"},
         Len(stack[t]) = 1 \/ (Len(stack[t]) = 3 /\ f.at = "unlock" /\ f.todo = <<>>)
  PROVE  /\ stack' \in [Threads -> Seq(Calls)] /\ Others' /\ Holder' /\ PreparesAre' /\ Unprepared' = Unprepared
         /\ owner' = t /\ ~At(t, "prepare")'
         /\ Len(stack[t]) = 1 => phase' = f.at /\ todo' = f.todo
         /\ Len(stack[t]) = 3 => phase' = phase /\ todo' = todo
         /\ loading' = (phase' \in AtWork) => Lock'
<1>1. /\ stack[t] \in Seq(Calls) /\ stack[t] # <<>> /\ t # NoThread
      /\ phase = stack[t][Len(stack[t])].at /\ todo = stack[t][Len(stack[t])].todo
  BY TopIs, Where, LoadMethodsAssumption
<1>2. PICK s \in Seq(Calls) : s = stack[t]
  BY <1>1
<1>3. PICK r : r = <<f>> \o Tail(s)
  OBVIOUS
<1>4. /\ r \in Seq(Calls) /\ Len(r) = Len(s) /\ r[1] = f
      /\ \A i \in 2..Len(s) : r[i] = s[i]
  BY <1>1, <1>2, <1>3, ReplaceIs
<1>5. stack' = [stack EXCEPT ![t] = r]
  BY <1>2, <1>3 DEF Replace
<1>6. Shape(s, mapped) /\ depth = Depth(s)
  BY <1>1, <1>2 DEF Holder, Lock
<1>7. Len(s) = 1 \/ (Len(s) = 3 /\ f.at = "unlock" /\ f.todo = <<>>)
  BY <1>2
<1>8. Shape(r, mapped)
  <2>1. CASE Len(s) = 1
    BY <1>4, <2>1 DEF Shape
  <2>2. CASE Len(s) = 3 /\ f.at = "unlock" /\ f.todo = <<>>
    <3>1. /\ s[3].at \in AtWork \cup {"call", "unlock"} /\ s[3].at \in Calling
          /\ MethodOf(s[3], s[2], mapped) /\ s[2].todo = <<>>
      BY <1>6, <2>2 DEF Shape
    <3>2. Len(r) = 3 /\ r[1] = f /\ r[2] = s[2] /\ r[3] = s[3]
      BY <1>4, <2>2
    <3>3. \A i \in 1..2 : r[i].todo = <<>>
      BY <2>2, <3>1, <3>2
    <3> QED
      BY <2>2, <3>1, <3>2, <3>3 DEF Shape
  <2> QED
    BY <1>7, <2>1, <2>2
<1>9. Depth(r) = depth
  <2>1. Len(s) = 3 => s[1].at # "prepare"
    BY <1>1, <1>2, TopIs
  <2> QED
    BY <1>4, <1>6, <1>7, <2>1 DEF Depth
<1>10. owner' = t /\ depth' = depth /\ mapped' = mapped
  BY DEF lock
<1>11. /\ Others' /\ Holder' /\ phase' = r[Len(r)].at /\ todo' = r[Len(r)].todo
       /\ loading' = (phase' \in AtWork) => Lock'
  <2>1. IF owner' = NoThread THEN r = <<>> ELSE Shape(r, mapped')
    BY <1>1, <1>8, <1>10
  <2>2. depth' = (IF owner' = NoThread THEN 0 ELSE Depth(r))
    BY <1>1, <1>9, <1>10
  <2>3. owner \in {NoThread, t} /\ owner' \in {NoThread, t}
    BY <1>10
  <2> QED
    BY <1>4, <1>5, <1>10, <2>1, <2>2, <2>3, HolderStep
<1>12. Unprepared' = Unprepared /\ PreparesAre' /\ ~At(t, "prepare")'
  <2>1. r[1].at # "prepare"
    BY <1>4 DEF AtWork
  <2> QED
    BY <1>4, <1>5, <1>10, <2>1, KeepPrepares
<1>13. stack' \in [Threads -> Seq(Calls)]
  BY <1>4, <1>5, StackIs
<1>14. Len(s) = 1 => phase' = f.at /\ todo' = f.todo
  BY <1>4, <1>11
<1>15. Len(s) = 3 => phase' = phase /\ todo' = todo
  BY <1>1, <1>2, <1>4, <1>11
<1> QED
  BY <1>2, <1>10, <1>11, <1>12, <1>13, <1>14, <1>15

LEMMA GotoStep ==
  ASSUME IInv, NEW t \in Threads, owner = t, ~At(t, "prepare"),
         NEW l \in AtWork \cup {"call", "unlock"}, Goto(t, l),
         UNCHANGED <<mapped, flagged, classes, categories, calls, lock>>, late' \in {late, {}},
         Len(stack[t]) = 1 \/ (Len(stack[t]) = 3 /\ l = "unlock")
  PROVE  /\ Types' /\ Others' /\ Holder' /\ PreparesAre' /\ Listings' /\ todo' = todo
         /\ owner' = t /\ ~At(t, "prepare")'
         /\ Len(stack[t]) = 1 => phase' = l
         /\ Len(stack[t]) = 3 => phase' = phase
         /\ loading' = (phase' \in AtWork) => Lock'
<1>1. Types /\ Others /\ Holder /\ Lock /\ Empty /\ PreparesAre /\ Listings
  BY DEF IInv, Listings
<1>2. /\ stack[t] # <<>> /\ Top(t) = stack[t][1] /\ Top(t) \in Calls /\ Len(stack[t]) \in Nat
      /\ todo = stack[t][Len(stack[t])].todo
  BY <1>1, TopIs, Where
<1>3. PICK f : f = [Top(t) EXCEPT !.at = l]
  OBVIOUS
<1>4. f \in Calls /\ f.at = l /\ f.todo = Top(t).todo
  BY <1>2, <1>3 DEF Calls, Labels, AtWork
<1>5. Replace(t, f)
  BY <1>3 DEF Goto
<1>6. Len(stack[t]) = 3 => f.todo = <<>>
  <2>1. t # NoThread
    BY LoadMethodsAssumption
  <2>2. PICK s : s = stack[t]
    OBVIOUS
  <2>3. Shape(s, mapped)
    BY <1>1, <2>1, <2>2 DEF Holder
  <2>4. Len(s) = 3 => s[1].todo = <<>>
    BY <2>3 DEF Shape
  <2> QED
    BY <1>2, <1>4, <2>2, <2>4
<1>7. /\ stack' \in [Threads -> Seq(Calls)] /\ Others' /\ Holder' /\ PreparesAre' /\ Unprepared' = Unprepared
      /\ owner' = t /\ ~At(t, "prepare")'
      /\ Len(stack[t]) = 1 => phase' = f.at /\ todo' = f.todo
      /\ Len(stack[t]) = 3 => phase' = phase /\ todo' = todo
      /\ loading' = (phase' \in AtWork) => Lock'
  BY <1>1, <1>4, <1>5, <1>6, ReplaceStep
<1>8. todo' = todo
  BY <1>2, <1>4, <1>7
<1>9. Types'
  BY <1>1, <1>7 DEF Types, lock
<1>10. Listings'
  BY <1>1, <1>7, <1>8, KeepLists
<1> QED
  BY <1>4, <1>7, <1>8, <1>9, <1>10

LEMMA CallLoadMethodsStep == ASSUME IInv, NEW t \in Threads, CallLoadMethods(t) PROVE IInv'
<1>1. /\ At(t, "call") /\ loading' = TRUE /\ Goto(t, IF loading THEN "unlock" ELSE "classes")
      /\ UNCHANGED <<mapped, flagged, classes, categories, calls, lock, late>>
  BY DEF CallLoadMethods, lists
<1>2. Types /\ Others /\ Holder /\ Lock /\ Empty /\ TodoIs /\ Left
  BY DEF IInv
<1>3. /\ owner = t /\ ~At(t, "prepare")
      /\ phase = stack[t][Len(stack[t])].at /\ stack[t] # <<>>
      /\ \/ Len(stack[t]) = 1 /\ ~loading
         \/ Len(stack[t]) = 3 /\ loading /\ phase \in Calling
  BY <1>1, <1>2, Where, TopIs
<1>4. PICK l : l = IF loading THEN "unlock" ELSE "classes"
  OBVIOUS
<1>5. l \in AtWork \cup {"call", "unlock"} /\ (Len(stack[t]) = 1 \/ (Len(stack[t]) = 3 /\ l = "unlock"))
  BY <1>3, <1>4 DEF AtWork
<1>6. /\ Types' /\ Others' /\ Holder' /\ PreparesAre' /\ Listings' /\ todo' = todo
      /\ owner' = t /\ ~At(t, "prepare")'
      /\ Len(stack[t]) = 1 => phase' = l
      /\ Len(stack[t]) = 3 => phase' = phase
      /\ loading' = (phase' \in AtWork) => Lock'
  BY <1>1, <1>3, <1>4, <1>5, GotoStep
<1>7. \/ phase' = "classes" /\ phase = "call"
      \/ phase' = phase /\ phase \in Calling
  BY <1>1, <1>2, <1>3, <1>4, <1>6, TopIs
<1>8. Lock'
  <2>1. phase' \in AtWork
    BY <1>7 DEF AtWork, Calling
  <2> QED
    BY <1>1, <1>6, <2>1
<1>9. Empty'
  BY <1>1, <1>2, <1>6, <1>7 DEF Empty
<1>10. TodoIs'
  BY <1>1, <1>2, <1>6, <1>7, KeepTodo DEF Empty
<1>11. Left'
  BY <1>1, <1>2, <1>6, <1>7, KeepLeft DEF Over
<1> QED
  BY <1>6, <1>8, <1>9, <1>10, <1>11 DEF IInv, Listings

LEMMA EndClassLoadsStep == ASSUME IInv, NEW t \in Threads, EndClassLoads(t) PROVE IInv'
<1>1. /\ At(t, "class") /\ Top(t).todo = <<>> /\ Goto(t, "classes")
      /\ UNCHANGED <<mapped, flagged, classes, categories, loading, calls, lock, late>>
  BY DEF EndClassLoads, lists
<1>2. Types /\ Others /\ Holder /\ Lock /\ Empty /\ TodoIs /\ Left
  BY DEF IInv
<1>3. "class" \in AtWork /\ "classes" \in AtWork
  BY DEF AtWork
<1>4. owner = t /\ Len(stack[t]) = 1 /\ loading
  BY <1>1, <1>2, <1>3, Where
<1>5. todo = <<>> /\ ~At(t, "prepare")
  BY <1>1, <1>2, <1>4, Where, TopIs
<1>6. /\ Types' /\ Others' /\ Holder' /\ PreparesAre' /\ Listings' /\ todo' = todo /\ phase' = "classes"
      /\ owner' = t /\ ~At(t, "prepare")'
      /\ loading' = (phase' \in AtWork) => Lock'
  BY <1>1, <1>3, <1>4, <1>5, GotoStep
<1>7. Lock'
  <2>1. loading = TRUE
    BY <1>2, <1>4 DEF Lock
  <2> QED
    BY <1>1, <1>3, <1>6, <2>1
<1>8. Empty' /\ TodoIs'
  BY <1>1, <1>2, <1>5, <1>6, KeepTodo DEF Empty
<1>9. Left'
  BY <1>1, <1>2, <1>6, KeepLeft DEF Over
<1> QED
  BY <1>6, <1>7, <1>8, <1>9 DEF IInv, Listings

LEMMA EndCategoryLoadsStep == ASSUME IInv, NEW t \in Threads, EndCategoryLoads(t) PROVE IInv'
<1>1. PICK more \in BOOLEAN : more = (classes # <<>> \/ categories # <<>>)
  OBVIOUS
<1>2. PICK l : l = IF more THEN "classes" ELSE "pool"
  OBVIOUS
<1>3. /\ At(t, "category") /\ Top(t).todo = <<>> /\ Goto(t, l)
      /\ late' = IF more THEN late ELSE {}
      /\ UNCHANGED <<mapped, flagged, classes, categories, loading, calls, lock>>
  BY <1>1, <1>2 DEF EndCategoryLoads, lists
<1>4. Types /\ Others /\ Holder /\ Lock /\ Empty /\ TodoIs /\ Left
  BY DEF IInv
<1>5. "category" \in AtWork /\ l \in AtWork \cup {"call", "unlock"} /\ l \in AtWork
  BY <1>2 DEF AtWork
<1>6. owner = t /\ Len(stack[t]) = 1 /\ loading
  BY <1>3, <1>4, <1>5, Where
<1>7. todo = <<>> /\ ~At(t, "prepare")
  BY <1>3, <1>4, <1>6, Where, TopIs
<1>8. /\ Types' /\ Others' /\ Holder' /\ PreparesAre' /\ Listings' /\ todo' = todo /\ phase' = l
      /\ owner' = t /\ ~At(t, "prepare")'
      /\ loading' = (phase' \in AtWork) => Lock'
  BY <1>3, <1>5, <1>6, <1>7, GotoStep
<1>9. Lock'
  <2>1. loading = TRUE
    BY <1>4, <1>6 DEF Lock
  <2> QED
    BY <1>3, <1>5, <1>8, <2>1
<1>10. Empty' /\ TodoIs'
  BY <1>2, <1>3, <1>4, <1>7, <1>8, KeepTodo DEF Empty
<1>11. Left'
  <2>1. CASE more
    BY <1>2, <1>3, <1>4, <1>8, <2>1, KeepLeft DEF Over
  <2>2. CASE ~more
    <3>1. classes' = <<>> /\ categories' = <<>> /\ late' = {}
      BY <1>1, <1>3, <2>2
    <3> QED
      BY <1>8, <3>1 DEF Left, AllLate
  <2> QED
    BY <2>1, <2>2
<1> QED
  BY <1>8, <1>9, <1>10, <1>11 DEF IInv, Listings

(* The pool has been popped.                                               *)
LEMMA EndCallLoadMethodsStep == ASSUME IInv, NEW t \in Threads, EndCallLoadMethods(t) PROVE IInv'
<1>1. /\ At(t, "pool") /\ Goto(t, "unlock") /\ loading' = FALSE
      /\ UNCHANGED <<mapped, flagged, classes, categories, calls, lock, late>>
  BY DEF EndCallLoadMethods, lists
<1>2. Types /\ Others /\ Holder /\ Lock /\ Empty /\ TodoIs /\ Left
  BY DEF IInv
<1>3. "pool" \in AtWork /\ "unlock" \notin AtWork
  BY DEF AtWork
<1>4. owner = t /\ Len(stack[t]) = 1
  BY <1>1, <1>2, <1>3, Where
<1>5. phase = "pool" /\ todo = <<>> /\ ~At(t, "prepare")
  BY <1>1, <1>2, <1>4, Where, TopIs DEF Empty
<1>6. /\ Types' /\ Others' /\ Holder' /\ PreparesAre' /\ Listings' /\ todo' = todo /\ phase' = "unlock"
      /\ owner' = t /\ ~At(t, "prepare")'
      /\ loading' = (phase' \in AtWork) => Lock'
  BY <1>1, <1>4, <1>5, GotoStep
<1>7. Lock'
  <2>1. (phase' \in AtWork) = FALSE
    BY <1>3, <1>6
  <2> QED
    BY <1>1, <1>6, <2>1
<1>8. Empty' /\ TodoIs'
  BY <1>1, <1>2, <1>5, <1>6, KeepTodo DEF Empty
<1>9. Left'
  BY <1>1, <1>2, <1>5, <1>6, KeepLeft DEF Over
<1> QED
  BY <1>6, <1>7, <1>8, <1>9 DEF IInv, Listings

(* The classes that wait, in the list or detached                          *)
LEMMA Moved ==
  ASSUME NEW s, NEW images, NEW made, ClassesSound(s, images, <<>>, made)
  PROVE  ClassesSound([flagged |-> s.flagged, classes |-> <<>>], images, s.classes, made)
<1>1. PICK fl, cl : fl = s.flagged /\ cl = s.classes
  OBVIOUS
<1>2. PICK r : r = [flagged |-> fl, classes |-> <<>>]
  OBVIOUS
<1>3. r.flagged = fl /\ r.classes = <<>>
  BY <1>2
<1>4. /\ fl \subseteq Classes /\ cl \in Seq(Classes \cup {Nil})
      /\ \A d \in fl : ImageOf(d) \in images /\ Super[d] \in fl \cup {NoClass}
      /\ \A d \in fl \cap HasLoad : made[d] = 1 \/ In(<<>>, d) \/ In(cl, d)
      /\ \A d \in Classes \ fl : made[d] = 0
      /\ \A i \in DOMAIN cl : cl[i] # Nil => cl[i] \in fl
  BY <1>1 DEF ClassesSound
<1>5. \A d : ~In(<<>>, d)
  BY DEF In
<1>6. \A d \in Classes \ fl : ~In(cl, d)
  BY <1>4, LoadMethodsAssumption DEF In, Items
<1>7. ClassesSound(r, images, cl, made)
  BY <1>3, <1>4, <1>5, <1>6 DEF ClassesSound, Once, Sorted
<1> QED
  BY <1>1, <1>2, <1>7

(* No list has a class and a category.                                     *)
LEMMA Apart == /\ Classes \cap Categories = {} /\ Nil \notin Classes /\ Nil \notin Categories
               /\ Items = Classes \cup Categories /\ HasLoad \subseteq Classes
  BY LoadMethodsAssumption DEF Items

LEMMA DetachClassesStep == ASSUME IInv, NEW t \in Threads, DetachClasses(t) PROVE IInv'
<1>1. /\ At(t, "classes") /\ classes' = <<>>
      /\ IF classes = <<>> THEN Goto(t, "categories")
         ELSE Replace(t, [Top(t) EXCEPT !.at = "class", !.todo = classes])
      /\ UNCHANGED <<mapped, flagged, categories, loading, calls, lock, late>>
  BY DEF DetachClasses
<1>2. Types /\ Others /\ Holder /\ Lock /\ Empty /\ TodoIs /\ PreparesAre /\ Listings /\ Left
  BY DEF IInv, Listings
<1>3. "class" \in AtWork /\ "classes" \in AtWork /\ "categories" \in AtWork
  BY DEF AtWork
<1>4. owner = t /\ Len(stack[t]) = 1 /\ loading
  BY <1>1, <1>2, <1>3, Where
<1>5. ~At(t, "prepare") /\ stack[t] # <<>> /\ Top(t) \in Calls /\ phase = "classes" /\ todo = <<>>
  BY <1>1, <1>2, <1>4, Where, TopIs DEF Empty
<1>6. loading' = TRUE
  BY <1>1, <1>2, <1>4 DEF Lock
<1>7. CASE classes = <<>>
  <2>1. /\ Types' /\ Others' /\ Holder' /\ PreparesAre' /\ Listings' /\ todo' = todo /\ phase' = "categories"
        /\ owner' = t /\ ~At(t, "prepare")'
        /\ loading' = (phase' \in AtWork) => Lock'
    BY <1>1, <1>3, <1>4, <1>5, <1>7, GotoStep
  <2>2. Lock'
    BY <1>3, <1>6, <2>1
  <2>3. Empty' /\ TodoIs'
    BY <1>1, <1>2, <1>5, <2>1, KeepTodo DEF Empty
  <2>4. Left'
    BY <1>1, <1>2, <1>7, <2>1, KeepLeft DEF Over
  <2> QED
    BY <2>1, <2>2, <2>3, <2>4 DEF IInv, Listings
<1>8. CASE classes # <<>>
  <2>1. ClassesSound([flagged |-> flagged, classes |-> classes], mapped, <<>>, calls)
    BY <1>2, <1>5 DEF Listings, ClassesAre
  <2>2. /\ classes \in Seq(Classes \cup {Nil}) /\ Once(classes) /\ Sorted(classes)
        /\ \A i \in DOMAIN classes : classes[i] # Nil =>
             classes[i] \in flagged /\ calls[classes[i]] = 0 /\ ImageOf(classes[i]) \in mapped
    BY <2>1 DEF ClassesSound
  <2>3. PICK f : f = [Top(t) EXCEPT !.at = "class", !.todo = classes]
    OBVIOUS
  <2>4. f \in Calls /\ f.at = "class" /\ f.todo = classes
    <3>1. classes \in Seq(Items \cup {Nil})
      <4>1. Classes \cup {Nil} \subseteq Items \cup {Nil}
        BY Apart
      <4> QED
        BY <2>2, <4>1
    <3> QED
      BY <1>5, <2>3, <3>1 DEF Calls, Labels
  <2>5. /\ stack' \in [Threads -> Seq(Calls)] /\ Others' /\ Holder' /\ PreparesAre' /\ Unprepared' = Unprepared
        /\ phase' = "class" /\ todo' = classes
        /\ owner' = t /\ ~At(t, "prepare")'
        /\ loading' = (phase' \in AtWork) => Lock'
    BY <1>1, <1>2, <1>3, <1>4, <1>5, <1>8, <2>3, <2>4, ReplaceStep
  <2>6. Lock'
    BY <1>3, <1>6, <2>5
  <2>7. Types'
    BY <1>1, <1>2, <2>5 DEF Types, lock
  <2>8. Prepared' = Prepared
    BY <1>1, <2>5 DEF Prepared
  <2>9. Linked' /\ ClassesPrepared' /\ ParentFirst'
    <3>1. Linked'
      BY <1>1, <1>2, <2>8 DEF Listings, Linked
    <3>2. ClassesPrepared'
      BY <1>1, <1>2, <2>8 DEF Listings, ClassesPrepared
    <3>3. ParentFirst'
      BY <1>1, <1>2 DEF Listings, ParentFirst
    <3> QED
      BY <3>1, <3>2, <3>3
  <2>10. ClassesAre'
    <3>1. PICK s : s = [flagged |-> flagged, classes |-> classes]
      OBVIOUS
    <3>2. s.flagged = flagged /\ s.classes = classes
      BY <3>1
    <3>3. ClassesSound([flagged |-> flagged, classes |-> <<>>], mapped, classes, calls)
      BY <2>1, <3>1, <3>2, Moved
    <3> QED
      BY <1>1, <2>5, <3>3 DEF ClassesAre
  <2>11. CategoriesAre'
    <3>1. \A k \in Categories : ~In(todo, k) /\ ~In(todo', k)
      BY <1>5, <2>2, <2>5, Apart DEF In
    <3> QED
      BY <1>1, <1>2, <2>8, <3>1 DEF Listings, CategoriesAre
  <2>12. TodoIs'
    BY <1>1, <2>2, <2>5, Apart DEF TodoIs
  <2>13. Empty'
    BY <1>1, <2>5 DEF Empty
  <2>14. Left'
    BY <1>1, <1>2, <2>5 DEF Left
  <2> QED
    BY <2>5, <2>6, <2>7, <2>9, <2>10, <2>11, <2>12, <2>13, <2>14 DEF IInv
<1> QED
  BY <1>7, <1>8

(* Where the image of an item is prepared, the classes it needs are        *)
(* flagged.                                                                *)
LEMMA ChainFlagged ==
  ASSUME Linked, ClassesPrepared, NEW item \in Items, ImageOf(item) \in Prepared, Parent(item) # NoClass
  PROVE  \A c \in Above[Parent(item)] \cap HasLoad : c \in flagged
<1>1. PICK S : S = {c \in Classes : ImageOf(c) \in Prepared}
  OBVIOUS
<1>2. \A x \in Items : ImageOf(x) \in Prepared /\ Parent(x) # NoClass => Parent(x) \in S
  <2> SUFFICES ASSUME NEW x \in Items, ImageOf(x) \in Prepared, Parent(x) # NoClass PROVE Parent(x) \in S
    OBVIOUS
  <2>1. Parent(x) \in Classes /\ ImageOf(Parent(x)) \in Needs(ImageOf(x)) \cup {ImageOf(x)}
    BY NeedsAre
  <2>2. Needs(ImageOf(x)) \subseteq Prepared
    BY DEF Linked, Prepared
  <2> QED
    BY <1>1, <2>1, <2>2
<1>3. \A c \in Classes : c \in S => Super[c] \in S \cup {NoClass}
  BY <1>1, <1>2, Apart DEF Parent
<1>4. \A c \in Classes : c \in S => Above[c] \subseteq S
  BY <1>3, AboveIn
<1>5. Above[Parent(item)] \subseteq S
  BY <1>1, <1>2, <1>4
<1> QED
  BY <1>1, <1>5 DEF ClassesPrepared

LEMMA DetachCategoriesStep == ASSUME IInv, NEW t \in Threads, DetachCategories(t) PROVE IInv'
<1>1. /\ At(t, "categories") /\ categories' = <<>>
      /\ Replace(t, [Top(t) EXCEPT !.at = "category", !.todo = categories])
      /\ UNCHANGED <<mapped, flagged, classes, loading, calls, lock, late>>
  BY DEF DetachCategories
<1>2. Types /\ Others /\ Holder /\ Lock /\ Empty /\ TodoIs /\ PreparesAre /\ Listings /\ Left
  BY DEF IInv, Listings
<1>3. "category" \in AtWork /\ "categories" \in AtWork
  BY DEF AtWork
<1>4. owner = t /\ Len(stack[t]) = 1 /\ loading
  BY <1>1, <1>2, <1>3, Where
<1>5. /\ ~At(t, "prepare") /\ stack[t] # <<>> /\ Top(t) \in Calls
      /\ phase = "categories" /\ todo = <<>> /\ classes = <<>>
  BY <1>1, <1>2, <1>4, Where, TopIs DEF Empty
<1>6. loading' = TRUE
  BY <1>1, <1>2, <1>4 DEF Lock
<1>7. categories \in Seq(Categories \cup {Nil})
  BY <1>2 DEF Types
<1>8. PICK f : f = [Top(t) EXCEPT !.at = "category", !.todo = categories]
  OBVIOUS
<1>9. f \in Calls /\ f.at = "category" /\ f.todo = categories
  <2>1. categories \in Seq(Items \cup {Nil})
    <3>1. Categories \cup {Nil} \subseteq Items \cup {Nil}
      BY Apart
    <3> QED
      BY <1>7, <3>1
  <2> QED
    BY <1>5, <1>8, <2>1 DEF Calls, Labels
<1>10. /\ stack' \in [Threads -> Seq(Calls)] /\ Others' /\ Holder' /\ PreparesAre' /\ Unprepared' = Unprepared
       /\ phase' = "category" /\ todo' = categories
       /\ loading' = (phase' \in AtWork) => Lock'
  BY <1>1, <1>2, <1>3, <1>4, <1>5, <1>8, <1>9, ReplaceStep
<1>11. Lock'
  BY <1>3, <1>6, <1>10
<1>12. Types'
  BY <1>1, <1>2, <1>10 DEF Types, lock
<1>13. Prepared' = Prepared
  BY <1>1, <1>10 DEF Prepared
<1>14. Linked' /\ ClassesPrepared' /\ ParentFirst'
  <2>1. Linked'
    BY <1>1, <1>2, <1>13 DEF Listings, Linked
  <2>2. ClassesPrepared'
    BY <1>1, <1>2, <1>13 DEF Listings, ClassesPrepared
  <2>3. ParentFirst'
    BY <1>1, <1>2 DEF Listings, ParentFirst
  <2> QED
    BY <2>1, <2>2, <2>3
<1>15. \A x : ~In(todo, x) /\ ~In(classes, x)
  BY <1>5 DEF In
<1>16. PICK s : s = [flagged |-> flagged, classes |-> classes]
  OBVIOUS
<1>17. s.flagged = flagged /\ s.classes = classes /\ ClassesSound(s, mapped, todo, calls)
  BY <1>2, <1>16 DEF Listings, ClassesAre
<1>18. \A c \in flagged \cap HasLoad : calls[c] = 1
  BY <1>15, <1>17 DEF ClassesSound
<1>19. ClassesAre'
  <2>1. \A c \in Classes : ~In(categories, c)
    BY <1>7, Apart DEF In
  <2>2. ClassesSound(s, mapped, categories, calls)
    BY <1>5, <1>17, <1>18, <2>1 DEF ClassesSound
  <2> QED
    BY <1>1, <1>10, <1>16, <2>2 DEF ClassesAre
<1>20. CategoriesAre'
  <2>1. \A k : ~In(categories', k)
    BY <1>1 DEF In
  <2>2. \A k \in Categories : ImageOf(k) \in Prepared <=> calls[k] = 1 \/ In(categories, k)
    BY <1>2, <1>15 DEF Listings, CategoriesAre
  <2>3. Once(categories')
    BY <1>1 DEF Once
  <2> QED
    BY <1>1, <1>10, <1>13, <2>1, <2>2, <2>3 DEF CategoriesAre
<1>21. ASSUME NEW i \in DOMAIN categories, categories[i] # Nil
       PROVE  /\ calls[categories[i]] = 0 /\ ImageOf(categories[i]) \in mapped /\ categories[i] \in Categories
              /\ \A c \in Above[ClassOf[categories[i]]] \cap HasLoad : calls[c] = 1
  <2>1. PICK k \in Categories : k = categories[i]
    BY <1>7, <1>21
  <2>2. In(categories, k)
    BY <2>1 DEF In
  <2>3. calls[k] = 0 /\ ImageOf(k) \in Prepared
    BY <1>2, <2>2 DEF Listings, CategoriesAre
  <2>4. k \in Items /\ Parent(k) = ClassOf[k] /\ Parent(k) # NoClass
    BY Apart, LoadMethodsAssumption DEF Parent
  <2>5. \A c \in Above[ClassOf[k]] \cap HasLoad : c \in flagged
    BY <1>2, <2>3, <2>4, ChainFlagged DEF Listings
  <2> QED
    BY <1>18, <2>1, <2>3, <2>5 DEF Prepared
<1>22. TodoIs'
  <2>1. Once(categories)
    BY <1>2 DEF Listings, CategoriesAre
  <2> QED
    BY <1>1, <1>10, <1>21, <2>1 DEF TodoIs
<1>23. Empty'
  BY <1>1, <1>10 DEF Empty
<1>24. Left'
  BY <1>1, <1>2, <1>10 DEF Left
<1> QED
  BY <1>10, <1>11, <1>12, <1>14, <1>19, <1>20, <1>22, <1>23, <1>24 DEF IInv

-----------------------------------------------------------------------------
(* Steps that return                                                       *)

LEMMA PopStep ==
  ASSUME IInv, NEW t \in Threads, owner = t, ~At(t, "prepare"), owner' \in {NoThread, t},
         stack' = [stack EXCEPT ![t] = Tail(stack[t])],
         UNCHANGED <<mapped, flagged, classes, categories, loading, calls, late>>,
         IF Len(stack[t]) = 1 THEN owner' = NoThread /\ depth' = 0 /\ phase = "unlock"
         ELSE owner' = t /\ depth' = 1
  PROVE  IInv'
<1>1. Types /\ Others /\ Holder /\ Lock /\ Empty /\ TodoIs /\ PreparesAre /\ Listings /\ Left
  BY DEF IInv, Listings
<1>2. /\ stack[t] \in Seq(Calls) /\ stack[t] # <<>> /\ t # NoThread
      /\ phase = stack[t][Len(stack[t])].at /\ todo = stack[t][Len(stack[t])].todo
  BY <1>1, TopIs, Where, LoadMethodsAssumption
<1>3. PICK s \in Seq(Calls) : s = stack[t]
  BY <1>2
<1>4. Shape(s, mapped) /\ Len(s) \in 1..3
  BY <1>1, <1>2, <1>3 DEF Holder, Shape
<1>5. PICK r : r = Tail(s)
  OBVIOUS
<1>6. /\ r \in Seq(Calls) /\ Len(r) = Len(s) - 1
      /\ \A i \in 1..Len(s) - 1 : r[i] = s[i + 1]
  BY <1>2, <1>3, <1>5, PopIs
<1>7. stack' = [stack EXCEPT ![t] = r]
  BY <1>3, <1>5
<1>8. \/ Len(s) = 1 /\ r = <<>>
      \/ Len(s) = 2 /\ Len(r) = 1 /\ r[1] = s[2]
      \/ Len(s) = 3 /\ Len(r) = 2 /\ r[1] = s[2] /\ r[2] = s[3]
  <2>1. CASE Len(s) = 1
    BY <1>6, <2>1
  <2>2. CASE Len(s) = 2
    BY <1>6, <2>2
  <2>3. CASE Len(s) = 3
    BY <1>6, <2>3
  <2> QED
    BY <1>4, <2>1, <2>2, <2>3
<1>9. Len(s) # 1 => /\ Shape(r, mapped) /\ Depth(r) = 1 /\ r # <<>>
                    /\ r[Len(r)].at = phase /\ r[Len(r)].todo = todo /\ r[1].at # "prepare"
  <2>1. CASE Len(s) = 2
    <3>1. Len(r) = 1 /\ r[1] = s[2]
      BY <1>8, <2>1
    <3>2. s[2].at \in AtWork \cup {"call", "unlock"}
      BY <1>4, <2>1 DEF Shape
    <3> QED
      <4>1. Shape(r, mapped) /\ Depth(r) = 1
        BY <3>1, <3>2 DEF Shape, Depth
      <4>2. s[2].at = phase /\ s[2].todo = todo /\ s[2].at # "prepare"
        BY <1>2, <1>3, <2>1, <3>2 DEF AtWork
      <4>3. r # <<>>
        BY <1>6, <3>1
      <4> QED
        BY <3>1, <4>1, <4>2, <4>3
  <2>2. CASE Len(s) = 3
    <3>1. Len(r) = 2 /\ r[1] = s[2] /\ r[2] = s[3]
      BY <1>8, <2>2
    <3>2. /\ s[3].at \in AtWork \cup {"call", "unlock"} /\ s[3].at \in Calling
          /\ MethodOf(s[3], s[2], mapped) /\ s[2].todo = <<>>
      BY <1>4, <2>2 DEF Shape
    <3>3. Shape(r, mapped)
      BY <3>1, <3>2 DEF Shape
    <3>4. s[2].at # "prepare"
      BY <3>2 DEF MethodOf
    <3>5. Depth(r) = 1 /\ r # <<>>
      <4>1. Len(r) # 3
        BY <3>1
      <4>2. r # <<>>
        BY <1>6, <3>1
      <4> QED
        BY <4>1, <4>2 DEF Depth
    <3>6. r[Len(r)].at = phase /\ r[Len(r)].todo = todo
      BY <1>2, <1>3, <2>2, <3>1
    <3> QED
      BY <2>2, <3>1, <3>3, <3>4, <3>5, <3>6
  <2> QED
    BY <1>4, <2>1, <2>2
<1>10. /\ IF owner' = NoThread THEN r = <<>> ELSE Shape(r, mapped')
       /\ depth' = IF owner' = NoThread THEN 0 ELSE Depth(r)
  BY <1>2, <1>3, <1>8, <1>9
<1>11. /\ Others' /\ Holder'
       /\ owner' = t => phase' = r[Len(r)].at /\ todo' = r[Len(r)].todo
       /\ owner' = NoThread => phase' = "none" /\ todo' = <<>>
       /\ loading' = (phase' \in AtWork) => Lock'
  <2>1. owner \in {NoThread, t}
    OBVIOUS
  <2> QED
    BY <1>1, <1>6, <1>7, <1>10, <2>1, HolderStep
<1>12. Unprepared' = Unprepared /\ PreparesAre' /\ ~At(t, "prepare")'
  <2>1. r # <<>> => r[1].at # "prepare"
    BY <1>8, <1>9
  <2> QED
    BY <1>1, <1>6, <1>7, <2>1, KeepPrepares
<1>13. Types'
  <2>1. stack' \in [Threads -> Seq(Calls)]
    BY <1>1, <1>6, <1>7, StackIs
  <2>2. owner' \in Threads \cup {NoThread}
    OBVIOUS
  <2> QED
    BY <1>1, <2>1, <2>2 DEF Types
<1>14. \/ phase' = "none" /\ phase = "unlock" /\ todo' = <<>> /\ todo = <<>>
       \/ phase' = phase /\ todo' = todo
  BY <1>1, <1>2, <1>3, <1>9, <1>11 DEF Empty
<1>15. Lock'
  <2>1. phase' \in AtWork <=> phase \in AtWork
    BY <1>14 DEF AtWork
  <2>2. loading' = (phase' \in AtWork)
    BY <1>1, <2>1 DEF Lock
  <2> QED
    BY <1>11, <2>2
<1>16. todo' = todo
  BY <1>14
<1>17. Listings'
  BY <1>1, <1>12, <1>16, KeepLists
<1>18. TodoIs'
  BY <1>1, <1>14, <1>16, KeepTodo
<1>19. Empty'
  BY <1>1, <1>14 DEF Empty
<1>20. Left'
  BY <1>1, <1>12, <1>14, KeepLeft DEF Over
<1> QED
  BY <1>11, <1>12, <1>13, <1>15, <1>17, <1>18, <1>19, <1>20 DEF IInv, Listings

LEMMA UnlockStep == ASSUME IInv, NEW t \in Threads, Unlock(t) PROVE IInv'
<1>1. /\ At(t, "unlock") /\ depth' = depth - 1
      /\ owner' = IF depth = 1 THEN NoThread ELSE t
      /\ stack' = [stack EXCEPT ![t] = Tail(stack[t])]
      /\ UNCHANGED <<mapped, flagged, classes, categories, loading, calls, late>>
  BY DEF Unlock, lists
<1>2. Types /\ Others /\ Holder /\ Lock /\ Empty
  BY DEF IInv
<1>3. /\ owner = t /\ ~At(t, "prepare") /\ stack[t] # <<>>
      /\ \/ Len(stack[t]) = 1 /\ depth = 1
         \/ Len(stack[t]) = 3 /\ depth = 2
  BY <1>1, <1>2, Where, TopIs
<1>4. Len(stack[t]) = 1 => phase = "unlock"
  BY <1>1, <1>2, <1>3, Where, TopIs
<1>5. IF Len(stack[t]) = 1 THEN owner' = NoThread /\ depth' = 0 /\ phase = "unlock"
      ELSE owner' = t /\ depth' = 1
  BY <1>1, <1>3, <1>4
<1> QED
  BY <1>1, <1>3, <1>5, PopStep

LEMMA EndMethodStep == ASSUME IInv, NEW t \in Threads, EndMethod(t) PROVE IInv'
<1>1. /\ InMethod(t) /\ stack' = [stack EXCEPT ![t] = Tail(stack[t])]
      /\ UNCHANGED <<mapped, flagged, classes, categories, loading, calls, lock, late>>
  BY DEF EndMethod, lists
<1>2. Types /\ Others /\ Holder /\ Lock /\ Empty
  BY DEF IInv
<1>3. owner = t /\ ~At(t, "prepare") /\ stack[t] # <<>> /\ Len(stack[t]) = 2 /\ depth = 1
  BY <1>1, <1>2, Where, TopIs DEF InMethod
<1>4. owner' = t /\ depth' = 1
  BY <1>1, <1>3 DEF lock
<1>5. IF Len(stack[t]) = 1 THEN owner' = NoThread /\ depth' = 0 /\ phase = "unlock"
      ELSE owner' = t /\ depth' = 1
  BY <1>3, <1>4
<1> QED
  BY <1>1, <1>3, <1>4, <1>5, PopStep

-----------------------------------------------------------------------------
(* The next method of a detached list                                      *)

(* The rest of a list                                                      *)
LEMMA TailIs ==
  ASSUME NEW S, NEW list \in Seq(S), list # <<>>
  PROVE  /\ Head(list) \in S /\ In(list, Head(list)) /\ Head(list) = list[1] /\ 1 \in DOMAIN list
         /\ Tail(list) \in Seq(S)
         /\ \A i \in DOMAIN Tail(list) : i + 1 \in DOMAIN list /\ Tail(list)[i] = list[i + 1]
         /\ \A x : In(Tail(list), x) => In(list, x)
         /\ \A x : In(list, x) /\ x # Head(list) => In(Tail(list), x)
         /\ Once(list) => Once(Tail(list)) /\ (Head(list) # Nil => ~In(Tail(list), Head(list)))
         /\ Sorted(list) => Sorted(Tail(list))
<1>1. PICK n \in Nat : n + 1 = Len(list)
  <2>1. Len(list) \in Nat /\ Len(list) # 0
    OBVIOUS
  <2> QED
    BY <2>1
<1>2. PICK r : r = Tail(list)
  OBVIOUS
<1>3. r \in Seq(S) /\ Len(r) = n /\ DOMAIN r = 1..n /\ \A i \in 1..n : r[i] = list[i + 1]
  BY <1>1, <1>2
<1>4. DOMAIN list = 1..n + 1 /\ Head(list) = list[1] /\ list[1] \in S
  BY <1>1
<1>5. \A i \in 1..n : i + 1 \in 1..n + 1
  OBVIOUS
<1>6. In(list, Head(list)) /\ 1 \in DOMAIN list
  BY <1>4 DEF In
<1>7. \A x : In(r, x) => In(list, x)
  BY <1>3, <1>4, <1>5 DEF In
<1>8. ASSUME NEW x, In(list, x), x # Head(list) PROVE In(r, x)
  <2>1. PICK i \in 1..n + 1 : list[i] = x
    BY <1>4, <1>8 DEF In
  <2>2. i # 1
    BY <1>4, <1>8, <2>1
  <2>3. i - 1 \in 1..n /\ (i - 1) + 1 = i
    BY <2>2
  <2> QED
    BY <1>3, <2>1, <2>3 DEF In
<1>9. ASSUME Once(list) PROVE Once(r) /\ (Head(list) # Nil => ~In(r, Head(list)))
  <2>1. \A i, j \in 1..n + 1 : list[i] = list[j] /\ list[i] # Nil => i = j
    BY <1>4, <1>9 DEF Once
  <2>2. \A i, j \in 1..n : list[i + 1] = list[j + 1] /\ list[i + 1] # Nil => i = j
    BY <1>5, <2>1
  <2>3. \A i \in 1..n : list[1] # Nil => list[i + 1] # list[1]
    <3> SUFFICES ASSUME NEW i \in 1..n, list[1] # Nil, list[i + 1] = list[1] PROVE FALSE
      OBVIOUS
    <3>1. i + 1 \in 1..n + 1 /\ 1 \in 1..n + 1 /\ i + 1 # 1
      OBVIOUS
    <3> QED
      BY <2>1, <3>1
  <2> QED
    BY <1>3, <1>4, <2>2, <2>3 DEF Once, In
<1>10. ASSUME Sorted(list) PROVE Sorted(r)
  <2> SUFFICES ASSUME NEW i \in 1..n, NEW j \in 1..n, r[i] \in Classes, r[j] \in Classes,
                      r[j] \in Above[Super[r[i]]]
               PROVE  j < i
    BY <1>3 DEF Sorted
  <2>1. PICK a \in 1..n + 1, b \in 1..n + 1 : a = i + 1 /\ b = j + 1
    OBVIOUS
  <2>2. list[a] = r[i] /\ list[b] = r[j]
    BY <1>3, <2>1
  <2>3. b < a
    BY <1>4, <1>10, <2>2 DEF Sorted
  <2> QED
    BY <2>1, <2>3
<1> QED
  BY <1>2, <1>3, <1>4, <1>5, <1>6, <1>7, <1>8, <1>9, <1>10

(* Classes that wait, when one of them is called                           *)
LEMMA OneCalled ==
  ASSUME NEW s, NEW images, NEW list, list \in Seq(Items \cup {Nil}), list # <<>>, Once(list),
         NEW made, ClassesSound(s, images, list, made),
         NEW after, \A c \in Classes : c # Head(list) => after[c] = made[c],
         Head(list) \in Classes => after[Head(list)] = 1
  PROVE  ClassesSound(s, images, Tail(list), after)
<1>1. PICK fl, cl, tl, hd : fl = s.flagged /\ cl = s.classes /\ tl = Tail(list) /\ hd = Head(list)
  OBVIOUS
<1>2. /\ In(list, hd)
      /\ \A i \in DOMAIN tl : i + 1 \in DOMAIN list /\ tl[i] = list[i + 1]
      /\ \A x : In(tl, x) => In(list, x)
      /\ \A x : In(list, x) /\ x # hd => In(tl, x)
  BY <1>1, TailIs
<1>3. /\ fl \subseteq Classes /\ cl \in Seq(Classes \cup {Nil})
      /\ \A d \in fl : ImageOf(d) \in images /\ Super[d] \in fl \cup {NoClass}
      /\ \A d \in fl \cap HasLoad : made[d] = 1 \/ In(list, d) \/ In(cl, d)
      /\ \A d \in Classes \ fl : made[d] = 0 /\ ~In(list, d)
      /\ \A i \in DOMAIN cl : cl[i] # Nil => cl[i] \in fl \cap HasLoad /\ made[cl[i]] = 0 /\ ~In(list, cl[i])
      /\ Once(cl) /\ Sorted(cl)
      /\ \A i \in DOMAIN cl, j \in DOMAIN list :
           cl[i] \in Classes /\ list[j] \in Classes => cl[i] \notin Above[Super[list[j]]]
  BY <1>1 DEF ClassesSound
<1>4. \A c \in Classes : c # hd => after[c] = made[c]
  BY <1>1
<1>5. hd \in Classes => after[hd] = 1
  BY <1>1
<1>6. \A d \in fl \cap HasLoad : after[d] = 1 \/ In(tl, d) \/ In(cl, d)
  BY <1>2, <1>3, <1>4, <1>5
<1>7. \A d \in Classes \ fl : after[d] = 0 /\ ~In(tl, d)
  BY <1>2, <1>3, <1>4
<1>8. \A i \in DOMAIN cl : cl[i] # Nil => cl[i] \in fl \cap HasLoad /\ after[cl[i]] = 0 /\ ~In(tl, cl[i])
  BY <1>2, <1>3, <1>4
<1>9. \A i \in DOMAIN cl, j \in DOMAIN tl :
        cl[i] \in Classes /\ tl[j] \in Classes => cl[i] \notin Above[Super[tl[j]]]
  BY <1>2, <1>3
<1>10. ClassesSound(s, images, tl, after)
  BY <1>1, <1>3, <1>6, <1>7, <1>8, <1>9 DEF ClassesSound
<1> QED
  BY <1>1, <1>10

(* Whose turn it is                                                        *)
LEMMA HeadReady ==
  ASSUME Types, Listings, TodoIs, todo \in Seq(Items \cup {Nil}), todo # <<>>, Head(todo) # Nil,
         NEW l \in {"class", "category"}, phase = l
  PROVE  /\ Head(todo) \in Items /\ calls[Head(todo)] = 0 /\ ImageOf(Head(todo)) \in mapped
         /\ \A c \in Above[Parent(Head(todo))] \cap HasLoad : calls[c] = 1
<1>1. PICK x : x = Head(todo)
  OBVIOUS
<1>2. x = todo[1] /\ 1 \in DOMAIN todo /\ In(todo, x) /\ x \in Items
  BY <1>1, TailIs
<1>3. calls[x] = 0 /\ ImageOf(x) \in mapped
  BY <1>1, <1>2 DEF TodoIs
<1>4. CASE l = "category"
  <2>1. x \in Categories /\ \A c \in Above[ClassOf[x]] \cap HasLoad : calls[c] = 1
    BY <1>1, <1>2, <1>4 DEF TodoIs
  <2>2. Parent(x) = ClassOf[x]
    BY <2>1, Apart DEF Parent
  <2> QED
    BY <1>1, <1>2, <1>3, <2>1, <2>2
<1>5. CASE l = "class"
  <2>1. x \in Classes /\ Sorted(todo)
    BY <1>1, <1>2, <1>5 DEF TodoIs
  <2>2. Parent(x) = Super[x]
    BY <2>1 DEF Parent
  <2>3. PICK s : s = [flagged |-> flagged, classes |-> classes]
    OBVIOUS
  <2>4. s.flagged = flagged /\ s.classes = classes /\ ClassesSound(s, mapped, todo, calls)
    BY <2>3 DEF Listings, ClassesAre
  <2>5. /\ \A c \in flagged : Super[c] \in flagged \cup {NoClass}
        /\ \A c \in flagged \cap HasLoad : calls[c] = 1 \/ In(todo, c) \/ In(classes, c)
        /\ \A c \in Classes \ flagged : ~In(todo, c)
        /\ \A i \in DOMAIN classes, j \in DOMAIN todo :
             classes[i] \in Classes /\ todo[j] \in Classes => classes[i] \notin Above[Super[todo[j]]]
    BY <2>4 DEF ClassesSound
  <2>6. x \in flagged
    BY <1>2, <2>1, <2>5
  <2>7. \A c \in Above[Super[x]] : c \in flagged
    <3>1. \A c \in Classes : c \in flagged => Above[c] \subseteq flagged
      BY <2>5, AboveIn
    <3> QED
      BY <2>1, <2>5, <2>6, <3>1, AboveAre, SuperIn
  <2>8. ASSUME NEW c \in Above[Super[x]] \cap HasLoad PROVE calls[c] = 1
    <3>1. c \in Classes /\ (calls[c] = 1 \/ In(todo, c) \/ In(classes, c))
      BY <2>5, <2>7, Apart
    <3>2. ~In(classes, c)
      BY <1>2, <2>1, <2>5, <2>8, <3>1 DEF In
    <3>3. ~In(todo, c)
      <4> SUFFICES ASSUME NEW j \in DOMAIN todo, todo[j] = c PROVE FALSE
        BY DEF In
      <4>1. j < 1
        BY <1>2, <2>1, <2>8, <3>1 DEF Sorted
      <4>2. j \in 1..Len(todo)
        OBVIOUS
      <4> QED
        BY <4>1, <4>2
    <3> QED
      BY <3>1, <3>2, <3>3
  <2> QED
    BY <1>1, <1>2, <1>3, <2>2, <2>8
<1> QED
  BY <1>4, <1>5

(* The lists, when a method of the detached list is called, or a gap is    *)
(* left out.                                                               *)
LEMMA TodoStep ==
  ASSUME Types, Listings, TodoIs, Empty, todo \in Seq(Items \cup {Nil}), todo # <<>>,
         NEW l \in {"class", "category"}, phase = l, phase' = l, todo' = Tail(todo),
         Unprepared' = Unprepared, UNCHANGED <<mapped, flagged, classes, categories>>,
         calls' = IF Head(todo) = Nil THEN calls ELSE [calls EXCEPT ![Head(todo)] = calls[Head(todo)] + 1]
  PROVE  calls' \in [Items -> 0..1] /\ Listings' /\ TodoIs' /\ Empty'
<1>1. PICK x : x = Head(todo)
  OBVIOUS
<1>2. /\ x \in Items \cup {Nil} /\ x = todo[1] /\ In(todo, x)
      /\ \A i \in DOMAIN todo' : i + 1 \in DOMAIN todo /\ todo'[i] = todo[i + 1]
      /\ \A y : In(todo', y) => In(todo, y)
      /\ \A y : In(todo, y) /\ y # x => In(todo', y)
      /\ Once(todo) => Once(todo') /\ (x # Nil => ~In(todo', x))
      /\ Sorted(todo) => Sorted(todo')
  BY <1>1, TailIs
<1>3. Once(todo)
  BY DEF TodoIs
<1>4. x # Nil => /\ x \in Items /\ calls[x] = 0 /\ ImageOf(x) \in mapped
                 /\ \A c \in Above[Parent(x)] \cap HasLoad : calls[c] = 1
  BY <1>1, HeadReady
<1>5. calls \in [Items -> 0..1]
  BY DEF Types
<1>6. /\ \A y \in Items : y # x => calls'[y] = calls[y]
      /\ x # Nil => calls'[x] = 1
      /\ calls' \in [Items -> 0..1]
  BY <1>1, <1>4, <1>5
<1>7. \A y \in Items : calls[y] = 1 => calls'[y] = 1
  BY <1>2, <1>6
<1>8. Nil \notin Items
  BY LoadMethodsAssumption
<1>9. Prepared' = Prepared
  BY DEF Prepared
<1>10. Linked'
  BY <1>9 DEF Listings, Linked
<1>11. ClassesPrepared'
  BY <1>9 DEF Listings, ClassesPrepared
<1>12. ClassesAre'
  <2>1. ClassesSound([flagged |-> flagged, classes |-> classes], mapped, todo, calls)
    BY DEF Listings, ClassesAre
  <2>2. /\ \A c \in Classes : c # Head(todo) => calls'[c] = calls[c]
        /\ Head(todo) \in Classes => calls'[Head(todo)] = 1
    BY <1>1, <1>6, Apart
  <2>3. ClassesSound([flagged |-> flagged, classes |-> classes], mapped, Tail(todo), calls')
    BY <1>3, <2>1, <2>2, OneCalled
  <2> QED
    BY <2>3 DEF ClassesAre
<1>13. CategoriesAre'
  <2>1. /\ \A k \in Categories : ImageOf(k) \in Prepared <=> calls[k] = 1 \/ In(todo, k) \/ In(categories, k)
        /\ \A k \in Categories : In(categories, k) => calls[k] = 0 /\ ~In(todo, k)
        /\ Once(categories)
    BY DEF Listings, CategoriesAre
  <2>2. ASSUME NEW k \in Categories
        PROVE  /\ ImageOf(k) \in Prepared <=> calls'[k] = 1 \/ In(todo', k) \/ In(categories, k)
               /\ In(categories, k) => calls'[k] = 0 /\ ~In(todo', k)
    <3>1. k \in Items /\ k # Nil
      BY Apart
    <3>2. CASE k = x
      BY <1>2, <1>6, <2>1, <3>1, <3>2
    <3>3. CASE k # x
      BY <1>2, <1>6, <2>1, <3>1, <3>3
    <3> QED
      BY <3>2, <3>3
  <2> QED
    BY <1>9, <2>1, <2>2 DEF CategoriesAre
<1>14. ParentFirst'
  <2> SUFFICES ASSUME NEW item \in Loadable, calls'[item] > 0, NEW c \in Above[Parent(item)] \cap HasLoad
               PROVE  calls'[c] > 0
    BY DEF ParentFirst
  <2>1. item \in Items /\ c \in Items
    BY Apart DEF Loadable
  <2>2. calls[c] = 1
    <3>1. CASE item = x
      BY <1>4, <1>8, <2>1, <3>1
    <3>2. CASE item # x
      <4>1. calls[item] > 0
        BY <1>6, <2>1, <3>2
      <4>2. calls[c] > 0
        BY <4>1 DEF Listings, ParentFirst
      <4> QED
        BY <1>5, <2>1, <4>2
    <3> QED
      BY <3>1, <3>2
  <2> QED
    BY <1>7, <2>1, <2>2
<1>15. TodoIs'
  <2> SUFFICES /\ Once(todo')
               /\ \A i \in DOMAIN todo' : todo'[i] # Nil =>
                    /\ calls'[todo'[i]] = 0 /\ ImageOf(todo'[i]) \in mapped
                    /\ l = "category" => todo'[i] \in Categories /\
                         \A c \in Above[ClassOf[todo'[i]]] \cap HasLoad : calls'[c] = 1
                    /\ l # "category" => l = "class" /\ todo'[i] \in Classes
               /\ l = "class" => Sorted(todo')
    BY DEF TodoIs
  <2>1. ASSUME NEW i \in DOMAIN todo', todo'[i] # Nil
        PROVE  /\ calls'[todo'[i]] = 0 /\ ImageOf(todo'[i]) \in mapped
               /\ l = "category" => todo'[i] \in Categories /\
                    \A c \in Above[ClassOf[todo'[i]]] \cap HasLoad : calls'[c] = 1
               /\ l # "category" => l = "class" /\ todo'[i] \in Classes
    <3>1. PICK j \in DOMAIN todo : todo'[i] = todo[j]
      BY <1>2
    <3>2. /\ calls[todo[j]] = 0 /\ ImageOf(todo[j]) \in mapped
          /\ l = "category" => todo[j] \in Categories /\
               \A c \in Above[ClassOf[todo[j]]] \cap HasLoad : calls[c] = 1
          /\ l # "category" => l = "class" /\ todo[j] \in Classes
      BY <2>1, <3>1 DEF TodoIs
    <3>3. In(todo', todo'[i])
      BY DEF In
    <3>4. todo[j] # x /\ todo[j] \in Items
      BY <1>2, <1>3, <2>1, <3>1, <3>3
    <3> QED
      BY <1>6, <1>7, <3>1, <3>2, <3>4, Apart
  <2>2. l = "class" => Sorted(todo')
    BY <1>2 DEF TodoIs
  <2> QED
    BY <1>2, <1>3, <2>1, <2>2
<1>16. Empty'
  BY DEF Empty
<1> QED
  BY <1>6, <1>10, <1>11, <1>12, <1>13, <1>14, <1>15, <1>16 DEF Listings

LEMMA CallNextStep ==
  ASSUME IInv, NEW t \in Threads, NEW l \in {"class", "category"}, At(t, l), CallNext(t)
  PROVE  IInv'
<1>1. Types /\ Others /\ Holder /\ Lock /\ Empty /\ TodoIs /\ PreparesAre /\ Listings /\ Left
  BY DEF IInv, Listings
<1>2. l \in AtWork
  BY DEF AtWork
<1>3. owner = t /\ Len(stack[t]) = 1 /\ loading /\ t # NoThread
  BY <1>1, <1>2, Where, LoadMethodsAssumption
<1>4. /\ ~At(t, "prepare") /\ stack[t] \in Seq(Calls) /\ stack[t] # <<>> /\ Top(t) \in Calls /\ Top(t).at = l
      /\ phase = l /\ todo = Top(t).todo
  BY <1>1, <1>3, Where, TopIs
<1>5. todo \in Seq(Items \cup {Nil}) /\ todo # <<>>
  BY <1>4 DEF CallNext, Calls
<1>6. PICK x : x = Head(todo)
  OBVIOUS
<1>7. PICK f : f = [Top(t) EXCEPT !.todo = Tail(Top(t).todo)]
  OBVIOUS
<1>8. f \in Calls /\ f.at = l /\ f.todo = Tail(todo)
  BY <1>4, <1>5, <1>7, TailIs DEF Calls
<1>9. /\ UNCHANGED <<mapped, flagged, classes, categories, loading, lock, late>>
      /\ calls' = IF x = Nil THEN calls ELSE [calls EXCEPT ![x] = calls[x] + 1]
      /\ x = Nil => Replace(t, f)
      /\ x # Nil => stack' = [stack EXCEPT ![t] = <<Call("load", x)>> \o (<<f>> \o Tail(stack[t]))]
  BY <1>4, <1>6, <1>7 DEF CallNext, lists, Replace
<1>10. loading' = TRUE
  BY <1>1, <1>3, <1>9 DEF Lock
<1>11. /\ stack' \in [Threads -> Seq(Calls)] /\ Others' /\ Holder' /\ PreparesAre' /\ Unprepared' = Unprepared
       /\ phase' = l /\ todo' = Tail(todo) /\ owner' = t /\ ~At(t, "prepare")'
       /\ loading' = (phase' \in AtWork) => Lock'
  <2>1. CASE x = Nil
    BY <1>1, <1>2, <1>3, <1>4, <1>8, <1>9, <2>1, ReplaceStep
  <2>2. CASE x # Nil
    <3>1. x \in Items /\ ImageOf(x) \in mapped
      BY <1>1, <1>4, <1>5, <1>6, <2>2, HeadReady
    <3>2. PICK g : g = Call("load", x)
      OBVIOUS
    <3>3. g \in Calls /\ g.at = "load" /\ g.item = x /\ g.todo = <<>>
      BY <3>1, <3>2, LoadMethodsAssumption DEF Call, Calls, Labels
    <3>4. PICK b : b = <<f>> \o Tail(stack[t])
      OBVIOUS
    <3>5. b \in Seq(Calls) /\ Len(b) = 1 /\ b[1] = f
      BY <1>3, <1>4, <1>8, <3>4, ReplaceIs
    <3>6. PICK r : r = <<g>> \o b
      OBVIOUS
    <3>7. r \in Seq(Calls) /\ Len(r) = 2 /\ r[1] = g /\ r[2] = f
      <4>1. 1 \in 1..Len(b) /\ Len(b) + 1 = 2 /\ 1 + 1 = 2
        BY <3>5
      <4> QED
        BY <3>3, <3>5, <3>6, <4>1, PushIs
    <3>8. Shape(r, mapped) /\ Depth(r) = 1
      <4>1. MethodOf(f, g, mapped) /\ l \in Calling /\ \A i \in 1..1 : r[i].todo = <<>>
        BY <1>8, <3>1, <3>3, <3>7 DEF MethodOf, Calling
      <4> QED
        BY <1>2, <1>8, <3>3, <3>7, <4>1 DEF Shape, Depth
    <3>9. stack' = [stack EXCEPT ![t] = r]
      BY <1>9, <2>2, <3>2, <3>4, <3>6
    <3>10. owner' = t /\ depth' = 1 /\ mapped' = mapped
      BY <1>1, <1>2, <1>3, <1>4, <1>9, Where DEF lock
    <3>11. /\ Others' /\ Holder' /\ phase' = r[2].at /\ todo' = r[2].todo
           /\ loading' = (phase' \in AtWork) => Lock'
      <4>1. /\ owner \in {NoThread, t} /\ owner' \in {NoThread, t}
            /\ IF owner' = NoThread THEN r = <<>> ELSE Shape(r, mapped')
            /\ depth' = (IF owner' = NoThread THEN 0 ELSE Depth(r))
        BY <1>3, <3>8, <3>10
      <4> QED
        BY <1>1, <3>7, <3>9, <3>10, <4>1, HolderStep
    <3>12. Unprepared' = Unprepared /\ PreparesAre' /\ ~At(t, "prepare")'
      <4>1. r # <<>> => r[1].at # "prepare"
        BY <3>3, <3>7
      <4> QED
        BY <1>1, <1>4, <3>7, <3>9, <3>10, <4>1, KeepPrepares
    <3>13. stack' \in [Threads -> Seq(Calls)]
      BY <1>1, <3>7, <3>9, StackIs
    <3> QED
      BY <1>8, <3>7, <3>10, <3>11, <3>12, <3>13
  <2> QED
    BY <2>1, <2>2
<1>12. Lock'
  BY <1>2, <1>10, <1>11
<1>13. calls' \in [Items -> 0..1] /\ Listings' /\ TodoIs' /\ Empty'
  BY <1>1, <1>4, <1>5, <1>6, <1>9, <1>11, TodoStep
<1>14. Types'
  BY <1>1, <1>9, <1>11, <1>13 DEF Types, lock
<1>15. Left'
  BY <1>1, <1>9, <1>11, KeepLeft DEF Over
<1> QED
  BY <1>11, <1>12, <1>13, <1>14, <1>15 DEF IInv, Listings

(* A -dealloc method of an object in the pool                              *)
LEMMA PopPoolStep == ASSUME IInv, NEW t \in Threads, PopPool(t) PROVE IInv'
<1>1. Types /\ Others /\ Holder /\ Lock /\ Empty /\ TodoIs /\ PreparesAre /\ Listings /\ Left
  BY DEF IInv, Listings
<1>2. PICK g : g = Call("dealloc", Top(t).item)
  OBVIOUS
<1>3. /\ At(t, "pool") /\ PoolLoads /\ stack' = [stack EXCEPT ![t] = <<g>> \o stack[t]]
      /\ UNCHANGED <<mapped, flagged, classes, categories, loading, calls, lock, late>>
  BY <1>2 DEF PopPool, lists
<1>4. "pool" \in AtWork /\ "pool" \in Calling
  BY DEF AtWork, Calling
<1>5. owner = t /\ Len(stack[t]) = 1 /\ depth = 1 /\ t # NoThread
  BY <1>1, <1>3, <1>4, Where, LoadMethodsAssumption
<1>6. /\ ~At(t, "prepare") /\ stack[t] \in Seq(Calls) /\ stack[t] # <<>> /\ Top(t) \in Calls
      /\ stack[t][1].at = "pool" /\ phase = "pool" /\ todo = stack[t][1].todo
  BY <1>1, <1>3, <1>5, Where, TopIs
<1>7. g \in Calls /\ g.at = "dealloc" /\ g.todo = <<>>
  BY <1>2, <1>6, LoadMethodsAssumption DEF Call, Calls, Labels
<1>8. PICK r : r = <<g>> \o stack[t]
  OBVIOUS
<1>9. r \in Seq(Calls) /\ Len(r) = 2 /\ r[1] = g /\ r[2] = stack[t][1]
  <2>1. 1 \in 1..Len(stack[t]) /\ Len(stack[t]) + 1 = 2 /\ 1 + 1 = 2
    BY <1>5
  <2> QED
    BY <1>6, <1>7, <1>8, <2>1, PushIs
<1>10. Shape(r, mapped) /\ Depth(r) = 1
  <2>1. MethodOf(r[2], r[1], mapped) /\ \A i \in 1..1 : r[i].todo = <<>>
    BY <1>3, <1>6, <1>7, <1>9 DEF MethodOf
  <2> QED
    BY <1>4, <1>6, <1>9, <2>1 DEF Shape, Depth
<1>11. r[Len(r)].at = phase /\ r[Len(r)].todo = todo
  BY <1>6, <1>9
<1>12. stack' = [stack EXCEPT ![t] = r] /\ mapped' = mapped /\ UNCHANGED <<owner, depth, loading>>
  BY <1>3, <1>8 DEF lock
<1>13. Others' /\ Holder' /\ Lock' /\ phase' = phase /\ todo' = todo
  BY <1>1, <1>5, <1>9, <1>10, <1>11, <1>12, InsideStep
<1>14. Unprepared' = Unprepared /\ PreparesAre' /\ ~At(t, "prepare")'
  <2>1. r # <<>> => r[1].at # "prepare"
    BY <1>7, <1>9
  <2> QED
    BY <1>1, <1>6, <1>9, <1>12, <2>1, KeepPrepares
<1>15. Types'
  <2>1. stack' \in [Threads -> Seq(Calls)]
    BY <1>1, <1>9, <1>12, StackIs
  <2> QED
    BY <1>1, <1>3, <1>12, <2>1 DEF Types
<1>16. Listings'
  BY <1>1, <1>3, <1>13, <1>14, KeepLists
<1>17. TodoIs' /\ Empty'
  BY <1>1, <1>3, <1>13, KeepTodo DEF Empty
<1>18. Left'
  BY <1>1, <1>3, <1>5, <1>12, <1>13, <1>14, KeepLeft
<1> QED
  BY <1>13, <1>14, <1>15, <1>16, <1>17, <1>18 DEF IInv, Listings

-----------------------------------------------------------------------------
(* Preparing an image                                                      *)

LEMMA ConcatIs ==
  ASSUME NEW S, NEW a \in Seq(S), NEW b \in Seq(S)
  PROVE  /\ a \o b \in Seq(S)
         /\ \A x : In(a \o b, x) <=> In(a, x) \/ In(b, x)
         /\ Once(a) /\ Once(b) /\ (\A x : x # Nil => ~(In(a, x) /\ In(b, x))) => Once(a \o b)
<1>1. PICK r : r = a \o b
  OBVIOUS
<1>2. PICK m \in Nat, n \in Nat : m = Len(a) /\ n = Len(b)
  OBVIOUS
<1>3. /\ r \in Seq(S) /\ DOMAIN r = 1..m + n
      /\ \A i \in 1..m + n : r[i] = IF i <= m THEN a[i] ELSE b[i - m]
  BY <1>1, <1>2
<1>4. DOMAIN a = 1..m /\ DOMAIN b = 1..n
  BY <1>2
<1>5. \A i \in 1..m + n : (i \in 1..m /\ r[i] = a[i]) \/ (i \notin 1..m /\ i - m \in 1..n /\ r[i] = b[i - m])
  <2> SUFFICES ASSUME NEW i \in 1..m + n
               PROVE  (i \in 1..m /\ r[i] = a[i]) \/ (i \notin 1..m /\ i - m \in 1..n /\ r[i] = b[i - m])
    OBVIOUS
  <2>1. CASE i <= m
    BY <1>3, <2>1
  <2>2. CASE ~(i <= m)
    BY <1>3, <2>2
  <2> QED
    BY <2>1, <2>2
<1>6. \A i \in 1..m : i \in 1..m + n /\ r[i] = a[i]
  BY <1>3
<1>7. \A i \in 1..n : m + i \in 1..m + n /\ r[m + i] = b[i]
  <2> SUFFICES ASSUME NEW i \in 1..n PROVE m + i \in 1..m + n /\ r[m + i] = b[i]
    OBVIOUS
  <2>1. m + i \in 1..m + n /\ ~(m + i <= m) /\ (m + i) - m = i
    OBVIOUS
  <2> QED
    BY <1>3, <2>1
<1>8. \A x : In(r, x) => In(a, x) \/ In(b, x)
  BY <1>3, <1>4, <1>5 DEF In
<1>9. \A x : In(a, x) \/ In(b, x) => In(r, x)
  BY <1>3, <1>4, <1>6, <1>7 DEF In
<1>10. ASSUME Once(a), Once(b), \A x : x # Nil => ~(In(a, x) /\ In(b, x)) PROVE Once(r)
  <2> SUFFICES ASSUME NEW i \in 1..m + n, NEW j \in 1..m + n, r[i] = r[j], r[i] # Nil PROVE i = j
    BY <1>3 DEF Once
  <2>1. CASE i \in 1..m /\ j \in 1..m
    BY <1>4, <1>6, <1>10, <2>1 DEF Once
  <2>2. CASE i \notin 1..m /\ j \notin 1..m
    <3>1. /\ i - m \in 1..n /\ j - m \in 1..n /\ r[i] = b[i - m] /\ r[j] = b[j - m]
      BY <1>5, <2>2
    <3>2. i - m = j - m
      BY <1>4, <1>10, <3>1 DEF Once
    <3> QED
      BY <3>2
  <2>3. ASSUME NEW k \in 1..m + n, NEW l \in 1..m + n, k \in 1..m, l \notin 1..m, r[k] = r[l], r[k] # Nil PROVE FALSE
    <3>1. r[k] = a[k] /\ l - m \in 1..n /\ r[l] = b[l - m]
      BY <1>5, <1>6, <2>3
    <3>2. In(a, r[k]) /\ In(b, r[k])
      BY <1>4, <2>3, <3>1 DEF In
    <3> QED
      BY <1>10, <2>3, <3>2
  <2> QED
    BY <2>1, <2>2, <2>3
<1> QED
  BY <1>1, <1>3, <1>8, <1>9, <1>10

LEMMA PrepareStep == ASSUME IInv, NEW t \in Threads, Prepare(t) PROVE IInv'
<1>1. Types /\ Others /\ Holder /\ Lock /\ Empty /\ TodoIs /\ PreparesAre /\ Listings /\ Left
  BY DEF IInv, Listings
<1>2. PICK image : image = Top(t).item
  OBVIOUS
<1>3. PICK s : s = [flagged |-> flagged, classes |-> classes]
  OBVIOUS
<1>4. PICK after : after = ScheduleAll(s, ClassList[image])
  OBVIOUS
<1>5. /\ At(t, "prepare") /\ owner \in {NoThread, t} /\ owner' = t /\ depth' = depth + 1
      /\ flagged' = after.flagged /\ classes' = after.classes
      /\ categories' = categories \o CategoryList[image]
      /\ Goto(t, "call") /\ UNCHANGED <<mapped, loading, calls, late>>
  BY <1>2, <1>3, <1>4 DEF Prepare
<1>6. /\ t # NoThread /\ stack[t] \in Seq(Calls) /\ stack[t] # <<>>
      /\ Top(t) = stack[t][1] /\ Top(t) \in Calls
  BY <1>1, <1>5, TopIs, LoadMethodsAssumption
<1>7. PICK f : f = [Top(t) EXCEPT !.at = "call"]
  OBVIOUS
<1>8. f \in Calls /\ f.at = "call" /\ f.todo = Top(t).todo
  BY <1>6, <1>7 DEF Calls, Labels
<1>9. PICK r : r = <<f>> \o Tail(stack[t])
  OBVIOUS
<1>10. /\ r \in Seq(Calls) /\ Len(r) = Len(stack[t]) /\ r[1] = f /\ r # <<>>
       /\ \A i \in 2..Len(stack[t]) : r[i] = stack[t][i]
  <2>1. r \in Seq(Calls) /\ Len(r) = Len(stack[t]) /\ r[1] = f /\ \A i \in 2..Len(stack[t]) : r[i] = stack[t][i]
    BY <1>6, <1>8, <1>9, ReplaceIs
  <2>2. Len(stack[t]) >= 1
    BY <1>6
  <2> QED
    BY <2>1, <2>2
<1>11. stack' = [stack EXCEPT ![t] = r]
  BY <1>5, <1>7, <1>9 DEF Goto, Replace
<1>12. /\ Shape(r, mapped') /\ depth' = Depth(r)
       /\ IF owner = NoThread THEN Len(r) = 1 /\ r[1].todo = <<>> ELSE Len(r) = 3 /\ r[3] = stack[t][3]
  <2>1. CASE owner = NoThread
    <3>1. Len(stack[t]) = 1 /\ Top(t).todo = <<>> /\ depth = 0
      BY <1>1, <1>6, <2>1, Where
    <3> QED
      BY <1>5, <1>8, <1>10, <2>1, <3>1 DEF Shape, Depth
  <2>2. CASE owner = t
    <3>1. Len(stack[t]) = 3 /\ depth = 1
      BY <1>1, <1>5, <2>2, Where
    <3>2. PICK z : z = stack[t]
      OBVIOUS
    <3>3. Shape(z, mapped) /\ Len(z) = 3
      BY <1>1, <1>6, <2>2, <3>1, <3>2 DEF Holder
    <3>4. /\ z[3].at \in AtWork \cup {"call", "unlock"} /\ z[3].at \in Calling
          /\ MethodOf(z[3], z[2], mapped) /\ z[1].todo = <<>> /\ z[2].todo = <<>>
      BY <3>3 DEF Shape
    <3>5. Len(r) = 3 /\ r[1] = f /\ r[2] = z[2] /\ r[3] = z[3]
      BY <1>10, <3>1, <3>2
    <3>6. f.todo = <<>>
      BY <1>6, <1>8, <3>2, <3>4
    <3>7. \A i \in 1..2 : r[i].todo = <<>>
      BY <3>4, <3>5, <3>6
    <3>8. Shape(r, mapped) /\ Depth(r) = 2
      BY <1>8, <3>4, <3>5, <3>7 DEF Shape, Depth
    <3> QED
      BY <1>5, <1>6, <2>2, <3>1, <3>2, <3>5, <3>8
  <2> QED
    BY <1>5, <2>1, <2>2
<1>13. /\ Others' /\ Holder' /\ phase' = r[Len(r)].at /\ todo' = r[Len(r)].todo
       /\ loading' = (phase' \in AtWork) => Lock'
  <2>1. /\ owner' \in {NoThread, t}
        /\ IF owner' = NoThread THEN r = <<>> ELSE Shape(r, mapped')
        /\ depth' = (IF owner' = NoThread THEN 0 ELSE Depth(r))
    BY <1>5, <1>6, <1>12
  <2> QED
    BY <1>1, <1>5, <1>10, <1>11, <2>1, HolderStep
<1>14. \/ owner = NoThread /\ phase = "none" /\ todo = <<>> /\ ~loading /\ phase' = "call" /\ todo' = <<>>
       \/ owner = t /\ phase' = phase /\ todo' = todo /\ loading /\ phase \in Calling
  <2>1. CASE owner = NoThread
    BY <1>1, <1>8, <1>10, <1>12, <1>13, <2>1, Where
  <2>2. CASE owner = t
    BY <1>1, <1>5, <1>6, <1>10, <1>12, <1>13, <2>2, Where
  <2> QED
    BY <1>5, <2>1, <2>2
<1>15. todo' = todo
  BY <1>14
<1>16. Lock'
  <2>1. phase' \in AtWork <=> phase \in AtWork
    BY <1>14 DEF AtWork, Calling
  <2>2. loading' = (phase' \in AtWork)
    BY <1>1, <1>5, <2>1 DEF Lock
  <2> QED
    BY <1>13, <2>2
(* The image is prepared.                                                  *)
<1>17. image \in mapped /\ image \in Images /\ image \in Unprepared
  BY <1>1, <1>2, <1>5 DEF PreparesAre, Types, Unprepared
<1>18. /\ stack' \in [Threads -> Seq(Calls)]
       /\ \A u \in Threads : At(u, "prepare")' <=> At(u, "prepare") /\ u # t
       /\ \A u \in Threads : u # t => Top(u)' = Top(u)
  <2>1. ~At(t, "prepare")'
    BY <1>1, <1>8, <1>10, <1>11, StackIs
  <2> QED
    BY <1>1, <1>10, <1>11, <2>1, StackIs
<1>19. PreparesAre'
  BY <1>1, <1>5, <1>18 DEF PreparesAre
<1>20. \A x : x \in Unprepared' <=> x \in Unprepared /\ x # image
  <2>1. \A u \in Threads : At(u, "prepare") /\ Top(u).item = image => u = t
    BY <1>1, <1>2, <1>5 DEF PreparesAre
  <2> QED
    BY <1>2, <1>18, <2>1 DEF Unprepared
<1>21. \A x : x \in Prepared' <=> x \in Prepared \/ x = image
  BY <1>5, <1>17, <1>20 DEF Prepared
<1>22. image \notin Prepared
  BY <1>17 DEF Prepared
<1>23. Linked'
  BY <1>1, <1>5, <1>21 DEF Listings, Linked
(* Its classes                                                             *)
<1>24. PICK list : list = ClassList[image]
  OBVIOUS
<1>25. list \in Seq(Classes) /\ \A i \in 1..Len(list) : ImageOf(list[i]) = image
  <2>1. list \in Seq(Classes)
    BY <1>17, <1>24, LoadMethodsAssumption
  <2>2. \A i \in 1..Len(list) : list[i] \in Classes /\ list[i] \in Contents(image)
    BY <1>17, <1>24, ContentsAre
  <2> QED
    BY <1>17, <2>1, <2>2, ImageIs, Apart
<1>26. Complete(Prepared')
  <2> SUFFICES ASSUME NEW c \in Classes, ImageOf(c) \in Prepared', Super[c] # NoClass
               PROVE  ImageOf(Super[c]) \in Prepared'
    BY DEF Complete
  <2>1. c \in Items /\ Parent(c) = Super[c]
    BY Apart DEF Parent
  <2>2. ImageOf(Super[c]) \in Needs(ImageOf(c)) \cup {ImageOf(c)}
    BY <2>1, NeedsAre
  <2> QED
    BY <1>23, <2>2 DEF Linked, Prepared
<1>27. ClassesSound(s, Prepared', todo, calls)
  <2>1. s.flagged = flagged /\ s.classes = classes /\ ClassesSound(s, mapped, todo, calls)
    BY <1>1, <1>3 DEF Listings, ClassesAre
  <2>2. \A c \in s.flagged : ImageOf(c) \in Prepared'
    BY <1>1, <1>21, <2>1 DEF Listings, ClassesPrepared
  <2> QED
    BY <2>1, <2>2 DEF ClassesSound
<1>28. /\ ClassesSound(after, Prepared', todo, calls) /\ s.flagged \subseteq after.flagged
       /\ \A i \in 1..Len(list) : list[i] \in HasLoad => list[i] \in after.flagged
  <2>1. PICK P : P = Prepared'
    OBVIOUS
  <2>2. \A i \in 1..Len(list) : ImageOf(list[i]) \in P
    BY <1>21, <1>25, <2>1
  <2>3. ClassesSound(s, P, todo, calls) /\ Complete(P)
    BY <1>26, <1>27, <2>1
  <2> QED
    BY <1>4, <1>24, <1>25, <2>1, <2>2, <2>3, ScheduleAllSound DEF Extends
<1>29. ClassesAre'
  <2>1. PICK z : z = [flagged |-> after.flagged, classes |-> after.classes]
    OBVIOUS
  <2>2. z.flagged = after.flagged /\ z.classes = after.classes
    BY <2>1
  <2>3. ClassesSound(z, mapped, todo, calls)
    <3>1. \A x \in Prepared' : x \in mapped
      BY <1>5 DEF Prepared
    <3> QED
      BY <1>28, <2>2, <3>1 DEF ClassesSound
  <2> QED
    BY <1>5, <1>15, <2>1, <2>3 DEF ClassesAre
<1>30. ClassesPrepared'
  <2> SUFFICES ASSUME NEW c \in HasLoad, ImageOf(c) \in Prepared' PROVE c \in flagged'
    BY <1>5, <1>28 DEF ClassesPrepared, ClassesSound
  <2>1. CASE ImageOf(c) \in Prepared
    <3>1. c \in flagged
      BY <1>1, <2>1 DEF Listings, ClassesPrepared
    <3> QED
      BY <1>3, <1>5, <1>28, <3>1
  <2>2. CASE ImageOf(c) = image
    <3>1. c \in Classes /\ c \in Contents(image)
      BY <2>2, ImageIs, Apart
    <3>2. PICK i \in 1..Len(list) : list[i] = c
      BY <1>17, <1>24, <3>1, ContentsAre
    <3> QED
      BY <1>5, <1>28, <3>2
  <2> QED
    BY <1>21, <2>1, <2>2
(* Its categories                                                          *)
<1>31. PICK cats : cats = CategoryList[image]
  OBVIOUS
<1>32. cats \in Seq(Categories \cup {Nil}) /\ cats \in Seq(Categories) /\ Once(cats)
  <2>1. /\ cats \in Seq(Categories)
        /\ \A i, j \in DOMAIN cats : cats[i] = cats[j] => i = j
    BY <1>17, <1>31, LoadMethodsAssumption
  <2>2. Categories \subseteq Categories \cup {Nil}
    OBVIOUS
  <2>3. cats \in Seq(Categories \cup {Nil})
    BY <2>1, <2>2
  <2> QED
    BY <2>1, <2>3 DEF Once
<1>33. \A k \in Categories : In(cats, k) <=> ImageOf(k) = image
  <2>1. ASSUME NEW k \in Categories, In(cats, k) PROVE ImageOf(k) = image
    <3>1. PICK i \in 1..Len(cats) : cats[i] = k
      BY <1>32, <2>1 DEF In
    <3>2. k \in Contents(image) /\ k \in Items
      BY <1>17, <1>31, <3>1, ContentsAre, Apart
    <3> QED
      BY <1>17, <3>2, ImageIs
  <2>2. ASSUME NEW k \in Categories, ImageOf(k) = image PROVE In(cats, k)
    <3>1. k \in Contents(image)
      BY <2>2, ImageIs, Apart
    <3>2. PICK i \in 1..Len(cats) : cats[i] = k
      BY <1>17, <1>31, <3>1, ContentsAre
    <3>3. i \in DOMAIN cats
      BY <1>32, <3>2
    <3> QED
      BY <3>2, <3>3 DEF In
  <2> QED
    BY <2>1, <2>2
<1>34. /\ calls \in [Items -> 0..1] /\ categories \in Seq(Categories \cup {Nil})
       /\ \A k \in Categories : ImageOf(k) \in Prepared <=> calls[k] = 1 \/ In(todo, k) \/ In(categories, k)
       /\ \A k \in Categories : In(categories, k) => calls[k] = 0 /\ ~In(todo, k)
       /\ Once(categories)
  BY <1>1 DEF Types, Listings, CategoriesAre
<1>35. \A x : x # Nil => ~(In(categories, x) /\ In(cats, x))
  <2> SUFFICES ASSUME NEW x, x # Nil, In(categories, x), In(cats, x) PROVE FALSE
    OBVIOUS
  <2>1. x \in Categories
    BY <1>32 DEF In
  <2> QED
    BY <1>22, <1>33, <1>34, <2>1
<1>36. /\ categories' \in Seq(Categories \cup {Nil}) /\ Once(categories')
       /\ \A x : In(categories', x) <=> In(categories, x) \/ In(cats, x)
  BY <1>5, <1>31, <1>32, <1>34, <1>35, ConcatIs
<1>37. ASSUME NEW k \in Categories
       PROVE  /\ ImageOf(k) \in Prepared' <=> calls[k] = 1 \/ In(todo, k) \/ In(categories', k)
              /\ In(categories', k) => calls[k] = 0 /\ ~In(todo, k)
  <2>1. calls[k] \in 0..1
    BY <1>34, Apart
  <2>2. CASE ImageOf(k) = image
    BY <1>21, <1>22, <1>33, <1>34, <1>36, <2>1, <2>2
  <2>3. CASE ImageOf(k) # image
    BY <1>21, <1>33, <1>34, <1>36, <2>3
  <2> QED
    BY <2>2, <2>3
<1>38. CategoriesAre'
  BY <1>5, <1>15, <1>36, <1>37 DEF CategoriesAre
<1>39. ParentFirst'
  BY <1>1, <1>5 DEF Listings, ParentFirst
<1>40. TodoIs'
  BY <1>1, <1>5, <1>14, <1>15, KeepTodo
<1>41. Empty'
  BY <1>1, <1>5, <1>14 DEF Empty, Calling
<1>42. Types'
  BY <1>1, <1>5, <1>18, <1>36 DEF Types
(* What is added while the pool is popped is of this image.                *)
<1>43. \A c : In(classes', c) => c \in Classes \cup {Nil} /\ (c = Nil \/ ImageOf(c) = image \/ In(classes, c))
  <2> SUFFICES ASSUME NEW c, In(classes', c), c # Nil, ~In(classes, c) PROVE c \in Classes /\ ImageOf(c) = image
    <3>1. classes' \in Seq(Classes \cup {Nil})
      BY <1>5, <1>28 DEF ClassesSound
    <3>2. \A c : In(classes', c) => c \in Classes \cup {Nil}
      BY <3>1 DEF In
    <3> QED
      BY <3>2
  <2>1. c \in after.flagged \cap HasLoad /\ calls[c] = 0 /\ ~In(todo, c) /\ c \in Classes
    BY <1>5, <1>28, Apart DEF ClassesSound, In
  <2>2. ImageOf(c) \in Prepared'
    BY <1>28, <2>1 DEF ClassesSound
  <2>3. s.flagged = flagged /\ s.classes = classes
    BY <1>3
  <2>4. c \notin flagged
    BY <1>27, <2>1, <2>3 DEF ClassesSound
  <2>5. ImageOf(c) \notin Prepared
    BY <1>1, <2>1, <2>4 DEF Listings, ClassesPrepared
  <2> QED
    BY <1>21, <2>1, <2>2, <2>5
<1>44. Left'
  <2>1. ~At(t, "prepare")'
    BY <1>18
  <2>2. \A u \in Threads : owner' = u => ~At(u, "prepare")'
    BY <1>5, <2>1
  <2>3. late' # {} => PoolLoads
    BY <1>1, <1>5 DEF Left
  <2>4. ASSUME phase' \in {"none", "pool", "unlock"} PROVE AllLate(classes)' /\ AllLate(categories)'
    <3>1. owner = t /\ phase = "pool"
      BY <1>14, <2>4 DEF Calling
    <3>2. image \in late /\ AllLate(classes) /\ AllLate(categories)
      BY <1>1, <1>2, <1>5, <3>1 DEF Left
    <3>3. \A c : In(classes', c) /\ c # Nil => ImageOf(c) \in late
      BY <1>43, <3>2 DEF AllLate, In
    <3>4. \A k : In(categories', k) /\ k # Nil => ImageOf(k) \in late
      <4> SUFFICES ASSUME NEW k, In(categories', k), k # Nil PROVE ImageOf(k) \in late
        OBVIOUS
      <4>1. CASE In(categories, k)
        BY <3>2, <4>1 DEF AllLate, In
      <4>2. CASE In(cats, k)
        <5>1. k \in Categories
          BY <1>32, <4>2 DEF In
        <5> QED
          BY <1>33, <3>2, <4>2, <5>1
      <4> QED
        BY <1>36, <4>1, <4>2
    <3> QED
      BY <1>5, <3>3, <3>4 DEF AllLate, In
  <2> QED
    BY <2>2, <2>3, <2>4 DEF Left
<1> QED
  BY <1>13, <1>16, <1>19, <1>23, <1>29, <1>30, <1>38, <1>39, <1>40, <1>41, <1>42, <1>44 DEF IInv

-----------------------------------------------------------------------------
(* Images come and go                                                      *)

(* The program runs in threads that are idle and in its methods.           *)
LEMMA CallerIs ==
  ASSUME Types, Others, Holder, Lock, Empty, NEW t \in Threads, Runs(t)
  PROVE  /\ ~At(t, "prepare")
         /\ \/ stack[t] = <<>> /\ Caller(t) = <<>> /\ owner # t
            \/ /\ InMethod(t) /\ owner = t /\ depth = 1 /\ Len(stack[t]) = 2
               /\ Caller(t) \in Seq(Calls) /\ Len(Caller(t)) = 2
               /\ Caller(t)[1].at = Top(t).at /\ Caller(t)[1].at # "prepare"
               /\ Caller(t)[1].item = Top(t).item /\ Caller(t)[1].todo = <<>>
               /\ Caller(t)[2] = stack[t][2] /\ stack[t][2].at \in Calling
               /\ MethodOf(Caller(t)[2], Caller(t)[1], mapped)
               /\ phase = stack[t][2].at /\ todo = stack[t][2].todo
<1>1. CASE stack[t] = <<>>
  BY <1>1, TopIs, Where DEF Caller
<1>2. CASE stack[t] # <<>>
  <2>1. InMethod(t) /\ Top(t).made < MaxCalls
    BY <1>2 DEF Runs
  <2>2. /\ owner = t /\ depth = 1 /\ Len(stack[t]) = 2 /\ t # NoThread
        /\ stack[t] \in Seq(Calls) /\ Top(t) = stack[t][1] /\ Top(t) \in Calls
        /\ phase = stack[t][2].at /\ todo = stack[t][2].todo
    BY <1>2, <2>1, TopIs, Where, LoadMethodsAssumption
  <2>3. PICK s : s = stack[t]
    OBVIOUS
  <2>4. Shape(s, mapped) /\ Len(s) = 2 /\ s[1] = Top(t)
    BY <2>2, <2>3 DEF Holder
  <2>5. s[2].at \in Calling /\ MethodOf(s[2], s[1], mapped) /\ s[1].todo = <<>>
    BY <2>4 DEF Shape
  <2>6. PICK g : g = [Top(t) EXCEPT !.made = Top(t).made + 1]
    OBVIOUS
  <2>7. g \in Calls /\ g.at = Top(t).at /\ g.item = Top(t).item /\ g.todo = Top(t).todo
    <3>1. Top(t).made + 1 \in 0..MaxCalls
      BY <2>1, <2>2, LoadMethodsAssumption DEF Calls
    <3> QED
      BY <2>2, <2>6, <3>1 DEF Calls
  <2>8. PICK c : c = <<g>> \o Tail(s)
    OBVIOUS
  <2>9. c = Caller(t)
    BY <1>2, <2>3, <2>6, <2>8 DEF Caller
  <2>10. c \in Seq(Calls) /\ Len(c) = 2 /\ c[1] = g /\ c[2] = s[2]
    <3>1. s \in Seq(Calls) /\ s # <<>> /\ 2 \in 2..Len(s)
      BY <1>2, <2>2, <2>3
    <3> QED
      BY <2>2, <2>3, <2>7, <2>8, <3>1, ReplaceIs
  <2>11. ~At(t, "prepare") /\ g.at # "prepare"
    BY <2>1, <2>7 DEF InMethod, At
  <2>12. MethodOf(s[2], g, mapped)
    BY <2>4, <2>5, <2>7 DEF MethodOf
  <2> QED
    BY <2>1, <2>2, <2>3, <2>4, <2>5, <2>7, <2>9, <2>10, <2>11, <2>12
<1> QED
  BY <1>1, <1>2

(* A step of a thread outside of the lock                                  *)
LEMMA OutsideStep ==
  ASSUME Types, Others, Lock, NEW t \in Threads, owner # t, NEW r, r \in Seq(Calls),
         stack' = [stack EXCEPT ![t] = r], UNCHANGED <<owner, depth, loading>>,
         r = <<>> \/ (Len(r) = 1 /\ r[1].at = "prepare" /\ r[1].todo = <<>>),
         owner # NoThread => Shape(stack[owner], mapped')
  PROVE  Others' /\ Holder' /\ Lock' /\ phase' = phase /\ todo' = todo
<1>1. /\ stack'[t] = r
      /\ \A u \in Threads \ {t} : stack'[u] = stack[u]
  BY StackIs
<1>2. owner # NoThread => owner \in Threads \ {t} /\ stack'[owner] = stack[owner]
  BY <1>1 DEF Types
<1>3. Others'
  BY <1>1 DEF Others
<1>4. Holder'
  BY <1>2 DEF Holder
<1>5. phase' = phase /\ todo' = todo
  BY <1>2 DEF phase, todo, Outermost
<1>6. Lock'
  BY <1>2, <1>5 DEF Lock
<1> QED
  BY <1>3, <1>4, <1>5, <1>6

(* More images in memory                                                   *)
LEMMA ShapeMore ==
  ASSUME NEW s, NEW images, NEW more, images \subseteq more, Shape(s, images)
  PROVE  Shape(s, more)
  BY DEF Shape, MethodOf

LEMMA OpenStep ==
  ASSUME IInv, NEW t \in Threads, NEW image \in Images, Open(t, image)
  PROVE  IInv'
<1>1. Types /\ Others /\ Holder /\ Lock /\ Empty /\ TodoIs /\ PreparesAre /\ Listings /\ Left
  BY DEF IInv, Listings
<1>2. PICK r : r = IF Contents(image) \cap Loadable = {} THEN Caller(t)
                   ELSE <<Call("prepare", image)>> \o Caller(t)
  OBVIOUS
<1>3. /\ Runs(t) /\ image \notin mapped /\ Needs(image) \subseteq mapped
      /\ \A f \in Frames : f.at = "prepare" => f.item \notin Needs(image)
      /\ mapped' = mapped \cup {image} /\ stack' = [stack EXCEPT ![t] = r]
      /\ late' = IF At(t, "dealloc") THEN late \cup {image} ELSE late
      /\ UNCHANGED <<flagged, classes, categories, loading, owner, depth, calls>>
  BY <1>2 DEF Open, lists, lock
<1>4. PICK g : g = Call("prepare", image)
  OBVIOUS
<1>5. g \in Calls /\ g.at = "prepare" /\ g.item = image /\ g.todo = <<>>
  BY <1>4, LoadMethodsAssumption DEF Call, Calls, Labels
<1>6. ~At(t, "prepare") /\ Caller(t) \in Seq(Calls) /\ (Caller(t) # <<>> => Caller(t)[1].at # "prepare")
  <2>1. <<>> \in Seq(Calls)
    OBVIOUS
  <2> QED
    BY <1>1, <1>3, <2>1, CallerIs
<1>7. /\ r \in Seq(Calls)
      /\ IF Contents(image) \cap Loadable = {} THEN r = Caller(t)
         ELSE /\ r[1] = g /\ Len(r) = Len(Caller(t)) + 1 /\ r # <<>>
              /\ \A i \in 1..Len(Caller(t)) : r[i + 1] = Caller(t)[i]
  <2>1. CASE Contents(image) \cap Loadable = {}
    BY <1>2, <1>6, <2>1
  <2>2. CASE Contents(image) \cap Loadable # {}
    <3>1. r = <<g>> \o Caller(t)
      BY <1>2, <1>4, <2>2
    <3>2. /\ r \in Seq(Calls) /\ r[1] = g /\ Len(r) = Len(Caller(t)) + 1
          /\ \A i \in 1..Len(Caller(t)) : r[i + 1] = Caller(t)[i]
      BY <1>5, <1>6, <3>1, PushIs
    <3>3. r # <<>>
      BY <1>6, <3>2
    <3> QED
      BY <2>2, <3>2, <3>3
  <2> QED
    BY <2>1, <2>2
(* The calls                                                               *)
<1>8. Others' /\ Holder' /\ Lock' /\ phase' = phase /\ todo' = todo
  <2>1. CASE owner # t
    <3>1. Caller(t) = <<>>
      BY <1>1, <1>3, <2>1, CallerIs
    <3>2. r = <<>> \/ (Len(r) = 1 /\ r[1].at = "prepare" /\ r[1].todo = <<>>)
      <4>1. CASE Contents(image) \cap Loadable = {}
        BY <1>7, <3>1, <4>1
      <4>2. CASE Contents(image) \cap Loadable # {}
        <5>1. Len(r) = Len(Caller(t)) + 1 /\ r[1] = g
          BY <1>7, <4>2
        <5>2. Len(r) = 1
          BY <3>1, <5>1
        <5> QED
          BY <1>5, <5>1, <5>2
      <4> QED
        BY <4>1, <4>2
    <3>3. owner # NoThread => Shape(stack[owner], mapped')
      BY <1>1, <1>3, ShapeMore DEF Holder
    <3> QED
      BY <1>1, <1>3, <1>7, <2>1, <3>2, <3>3, OutsideStep
  <2>2. CASE owner = t
    <3>1. PICK c : c = Caller(t)
      OBVIOUS
    <3>2. /\ depth = 1 /\ c \in Seq(Calls) /\ Len(c) = 2
          /\ c[1].at # "prepare" /\ c[1].todo = <<>> /\ MethodOf(c[2], c[1], mapped')
          /\ c[2].at \in Calling /\ phase = c[2].at /\ todo = c[2].todo
      <4>1. /\ depth = 1 /\ c \in Seq(Calls) /\ Len(c) = 2
            /\ c[1].at # "prepare" /\ c[1].todo = <<>> /\ MethodOf(c[2], c[1], mapped)
            /\ c[2].at \in Calling /\ phase = c[2].at /\ todo = c[2].todo
        BY <1>1, <1>3, <2>2, <3>1, CallerIs, Where
      <4>2. MethodOf(c[2], c[1], mapped')
        BY <1>3, <4>1 DEF MethodOf
      <4> QED
        BY <4>1, <4>2
    <3>3. /\ Shape(r, mapped') /\ Depth(r) = 1 /\ r[Len(r)].at = phase /\ r[Len(r)].todo = todo
      <4>1. CASE Contents(image) \cap Loadable = {}
        <5>1. r = c
          BY <1>7, <3>1, <4>1
        <5> QED
          <6>1. Len(r) = 2 /\ r[1] = c[1] /\ r[2] = c[2]
            BY <3>2, <5>1
          <6>2. r[2].at \in AtWork \cup {"call", "unlock"} /\ \A i \in 1..1 : r[i].todo = <<>>
            BY <3>2, <6>1 DEF AtWork, Calling
          <6>3. Shape(r, mapped')
            BY <1>3, <3>2, <6>1, <6>2 DEF Shape
          <6> QED
            BY <3>2, <6>1, <6>3 DEF Depth
      <4>2. CASE Contents(image) \cap Loadable # {}
        <5>1. Len(r) = Len(c) + 1 /\ r[1] = g /\ \A i \in 1..Len(c) : r[i + 1] = c[i]
          BY <1>7, <3>1, <4>2
        <5>2. Len(r) = 3 /\ r[1] = g /\ r[2] = c[1] /\ r[3] = c[2]
          <6>1. 1 \in 1..Len(c) /\ 2 \in 1..Len(c) /\ 1 + 1 = 2 /\ 2 + 1 = 3 /\ Len(c) + 1 = 3
            BY <3>2
          <6> QED
            BY <5>1, <6>1
        <5>3. \A i \in 1..2 : r[i].todo = <<>>
          BY <1>5, <3>2, <5>2
        <5> QED
          <6>1. r[3].at \in AtWork
            BY <3>2, <5>2 DEF AtWork, Calling
          <6> QED
            BY <1>5, <3>2, <5>2, <5>3, <6>1 DEF Shape, Depth
      <4> QED
        BY <4>1, <4>2
    <3> QED
      BY <1>1, <1>3, <1>7, <2>2, <3>2, <3>3, InsideStep
  <2> QED
    BY <2>1, <2>2
(* The images                                                              *)
<1>9. /\ stack' \in [Threads -> Seq(Calls)]
      /\ \A u \in Threads : u # t => (At(u, "prepare")' <=> At(u, "prepare")) /\ Top(u)' = Top(u)
      /\ At(t, "prepare")' <=> Contents(image) \cap Loadable # {}
      /\ At(t, "prepare")' => Top(t)'.item = image
  <2>1. CASE Contents(image) \cap Loadable = {}
    <3>1. ~At(t, "prepare")'
      BY <1>1, <1>3, <1>6, <1>7, <2>1, StackIs
    <3> QED
      BY <1>1, <1>3, <1>7, <2>1, <3>1, StackIs
  <2>2. CASE Contents(image) \cap Loadable # {}
    <3>1. At(t, "prepare")' /\ Top(t)' = g
      <4>1. r # <<>> /\ r[1] = g
        BY <1>7, <2>2
      <4>2. Top(t)' = r[1] /\ (At(t, "prepare")' <=> r[1].at = "prepare")
        BY <1>1, <1>3, <1>7, <4>1, StackIs
      <4> QED
        BY <1>5, <4>1, <4>2
    <3>2. /\ stack' \in [Threads -> Seq(Calls)]
          /\ \A u \in Threads : u # t => (At(u, "prepare")' <=> At(u, "prepare")) /\ Top(u)' = Top(u)
      BY <1>1, <1>3, <1>7, StackIs
    <3>3. Top(t)'.item = image
      BY <1>5, <3>1
    <3> QED
      BY <2>2, <3>1, <3>2, <3>3
  <2> QED
    BY <2>1, <2>2
<1>10. \A x : x \in Unprepared' <=> x \in Unprepared \/ (x = image /\ Contents(image) \cap Loadable # {})
  BY <1>6, <1>9 DEF Unprepared
<1>11. Unprepared \subseteq mapped
  BY <1>1 DEF Unprepared, PreparesAre
<1>12. PreparesAre'
  BY <1>1, <1>3, <1>6, <1>9 DEF PreparesAre
<1>13. \A x : x \in Prepared' <=> x \in Prepared \/ (x = image /\ Contents(image) \cap Loadable = {})
  BY <1>3, <1>10, <1>11 DEF Prepared
<1>14. image \notin Prepared
  BY <1>3 DEF Prepared
<1>15. Linked'
  <2>1. Needs(image) \subseteq Prepared
    <3>1. \A u \in Threads : At(u, "prepare") => Top(u) \in Frames
      <4> SUFFICES ASSUME NEW u \in Threads, At(u, "prepare") PROVE Top(u) \in Frames
        OBVIOUS
      <4>1. Top(u) = stack[u][1] /\ 1 \in DOMAIN stack[u]
        BY <1>1, TopIs
      <4> QED
        BY <4>1 DEF Frames, ToSet
    <3>2. \A x \in Unprepared : x \notin Needs(image)
      BY <1>3, <3>1, TopIs DEF Unprepared, At
    <3> QED
      BY <1>3, <3>2 DEF Prepared
  <2> QED
    BY <1>1, <1>3, <1>13, <2>1 DEF Listings, Linked
<1>16. ClassesAre'
  <2>1. PICK s : s = [flagged |-> flagged, classes |-> classes]
    OBVIOUS
  <2>2. ClassesSound(s, mapped, todo, calls)
    BY <1>1, <2>1 DEF Listings, ClassesAre
  <2>3. ClassesSound(s, mapped \cup {image}, todo, calls)
    BY <2>2 DEF ClassesSound
  <2> QED
    BY <1>3, <1>8, <2>1, <2>3 DEF ClassesAre
<1>17. \A item \in Loadable : ImageOf(item) = image => Contents(image) \cap Loadable # {}
  BY ImageIs, Apart DEF Loadable
<1>18. \A item \in Loadable : ImageOf(item) \in Prepared' <=> ImageOf(item) \in Prepared
  BY <1>13, <1>17
<1>19. ClassesPrepared'
  BY <1>1, <1>3, <1>13, <1>18 DEF Listings, ClassesPrepared, Loadable
<1>20. CategoriesAre'
  BY <1>1, <1>3, <1>8, <1>18 DEF Listings, CategoriesAre, Loadable
<1>21. ParentFirst'
  BY <1>1, <1>3 DEF Listings, ParentFirst
<1>22. TodoIs'
  BY <1>1, <1>3, <1>8 DEF TodoIs
<1>23. Empty'
  BY <1>1, <1>3, <1>8 DEF Empty
<1>24. Types'
  BY <1>1, <1>3, <1>9 DEF Types
<1>25. Left'
  <2>1. late \subseteq late'
    BY <1>3
  <2>2. phase' \in Over => AllLate(classes)' /\ AllLate(categories)'
    BY <1>1, <1>3, <1>8, <2>1 DEF Left, Over, AllLate
  <2>3. ASSUME NEW u \in Threads, owner' = u, phase' = "pool", At(u, "prepare")' PROVE Top(u)'.item \in late'
    <3>1. CASE u # t
      BY <1>1, <1>3, <1>8, <1>9, <2>1, <2>3, <3>1 DEF Left
    <3>2. CASE u = t
      <4>1. At(t, "dealloc")
        <5>1. owner = t /\ phase = "pool" /\ InMethod(t)
          BY <1>1, <1>3, <1>8, <2>3, <3>2, CallerIs
        <5>2. MethodOf(Caller(t)[2], Caller(t)[1], mapped) /\ Caller(t)[2].at = "pool" /\ Caller(t)[1].at = Top(t).at
          BY <1>1, <1>3, <5>1, CallerIs
        <5>3. Top(t).at = "dealloc"
          BY <5>2 DEF MethodOf
        <5> QED
          BY <5>1, <5>3 DEF InMethod, At
      <4> QED
        BY <1>3, <1>9, <2>3, <3>2, <4>1
    <3> QED
      BY <3>1, <3>2
  <2>4. late' # {} => PoolLoads
    <3>1. CASE At(t, "dealloc")
      <4>1. /\ stack[t] # <<>> /\ InMethod(t) /\ Top(t).at = "dealloc"
        BY <3>1 DEF At, InMethod
      <4>2. MethodOf(Caller(t)[2], Caller(t)[1], mapped) /\ Caller(t)[1].at = "dealloc"
        BY <1>1, <1>3, <4>1, CallerIs
      <4> QED
        BY <4>2 DEF MethodOf
    <3>2. CASE ~At(t, "dealloc")
      BY <1>1, <1>3, <3>2 DEF Left
    <3> QED
      BY <3>1, <3>2
  <2> QED
    BY <2>2, <2>3, <2>4 DEF Left, Over
<1> QED
  BY <1>8, <1>12, <1>15, <1>16, <1>19, <1>20, <1>21, <1>22, <1>23, <1>24, <1>25 DEF IInv

LEMMA RemovedIs ==
  ASSUME NEW S, Nil \in S, NEW list \in Seq(S), NEW X
  PROVE  /\ RemoveFrom(list, X) \in Seq(S) /\ DOMAIN RemoveFrom(list, X) = DOMAIN list
         /\ \A i \in DOMAIN list : RemoveFrom(list, X)[i] = IF list[i] \in X THEN Nil ELSE list[i]
         /\ \A x : x # Nil => (In(RemoveFrom(list, X), x) <=> In(list, x) /\ x \notin X)
         /\ Once(list) => Once(RemoveFrom(list, X))
         /\ Sorted(list) => Sorted(RemoveFrom(list, X))
         /\ list = <<>> => RemoveFrom(list, X) = <<>>
<1>1. PICK r : r = RemoveFrom(list, X)
  OBVIOUS
<1>2. r = [i \in 1..Len(list) |-> IF list[i] \in X THEN Nil ELSE list[i]]
  BY <1>1 DEF RemoveFrom
<1>3. /\ r \in Seq(S) /\ DOMAIN r = DOMAIN list
      /\ \A i \in DOMAIN list : r[i] = IF list[i] \in X THEN Nil ELSE list[i]
  BY <1>2
<1>4. \A x : x # Nil => (In(r, x) <=> In(list, x) /\ x \notin X)
  BY <1>3 DEF In
<1>5. Once(list) => Once(r)
  BY <1>3 DEF Once
<1>6. Sorted(list) => Sorted(r)
  BY <1>3, Apart DEF Sorted
<1>7. list = <<>> => r = <<>>
  BY <1>2
<1> QED
  BY <1>1, <1>3, <1>4, <1>5, <1>6, <1>7

(* The classes that wait, when an image is unloaded none of whose classes  *)
(* is in the detached list, and that has no superclass of another image.   *)
LEMMA ClassesRemoved ==
  ASSUME NEW s, NEW images, NEW list, NEW made, ClassesSound(s, images, list, made),
         NEW image \in Images, \A c \in Contents(image) : ~In(list, c),
         \A c \in Classes : ImageOf(c) \in images \ {image} /\ Super[c] # NoClass => ImageOf(Super[c]) # image,
         NEW after, \A c \in Classes : after[c] = IF c \in Contents(image) THEN 0 ELSE made[c]
  PROVE  ClassesSound([flagged |-> s.flagged \ Contents(image), classes |-> RemoveFrom(s.classes, Contents(image))],
                      images \ {image}, list, after)
<1>1. PICK fl, cl : fl = s.flagged /\ cl = s.classes
  OBVIOUS
<1>2. PICK X : X = Contents(image)
  OBVIOUS
<1>3. PICK r : r = [flagged |-> fl \ X, classes |-> RemoveFrom(cl, X)]
  OBVIOUS
<1>4. r.flagged = fl \ X /\ r.classes = RemoveFrom(cl, X)
  BY <1>3
<1>5. PICK rl : rl = r.classes
  OBVIOUS
<1>6. /\ fl \subseteq Classes /\ cl \in Seq(Classes \cup {Nil})
      /\ \A d \in fl : ImageOf(d) \in images /\ Super[d] \in fl \cup {NoClass}
      /\ \A d \in fl \cap HasLoad : made[d] = 1 \/ In(list, d) \/ In(cl, d)
      /\ \A d \in Classes \ fl : made[d] = 0 /\ ~In(list, d)
      /\ \A i \in DOMAIN cl : cl[i] # Nil => cl[i] \in fl \cap HasLoad /\ made[cl[i]] = 0 /\ ~In(list, cl[i])
      /\ Once(cl) /\ Sorted(cl)
      /\ \A i \in DOMAIN cl, j \in DOMAIN list :
           cl[i] \in Classes /\ list[j] \in Classes => cl[i] \notin Above[Super[list[j]]]
  BY <1>1 DEF ClassesSound
<1>7. /\ rl \in Seq(Classes \cup {Nil}) /\ DOMAIN rl = DOMAIN cl
      /\ \A i \in DOMAIN cl : rl[i] = IF cl[i] \in X THEN Nil ELSE cl[i]
      /\ \A x : x # Nil => (In(rl, x) <=> In(cl, x) /\ x \notin X)
      /\ Once(rl) /\ Sorted(rl)
  BY <1>4, <1>5, <1>6, RemovedIs
<1>8. \A c \in Classes : c \in X <=> ImageOf(c) = image
  BY <1>2, ImageIs, Apart
<1>9. \A c \in Classes : after[c] = IF c \in X THEN 0 ELSE made[c]
  BY <1>2
<1>10. r.flagged \subseteq Classes
  BY <1>4, <1>6
<1>11. \A d \in r.flagged : ImageOf(d) \in images \ {image} /\ Super[d] \in r.flagged \cup {NoClass}
  BY <1>4, <1>6, <1>8
<1>12. \A d \in r.flagged \cap HasLoad : after[d] = 1 \/ In(list, d) \/ In(rl, d)
  BY <1>4, <1>6, <1>7, <1>9, Apart
<1>13. \A d \in Classes \ r.flagged : after[d] = 0 /\ ~In(list, d)
  BY <1>2, <1>4, <1>6, <1>9
<1>14. \A i \in DOMAIN rl : rl[i] # Nil => rl[i] \in r.flagged \cap HasLoad /\ after[rl[i]] = 0 /\ ~In(list, rl[i])
  BY <1>4, <1>6, <1>7, <1>9
<1>15. \A i \in DOMAIN rl, j \in DOMAIN list :
         rl[i] \in Classes /\ list[j] \in Classes => rl[i] \notin Above[Super[list[j]]]
  BY <1>6, <1>7, Apart
<1>16. ClassesSound(r, images \ {image}, list, after)
  BY <1>5, <1>7, <1>10, <1>11, <1>12, <1>13, <1>14, <1>15 DEF ClassesSound
<1> QED
  BY <1>1, <1>2, <1>3, <1>16

LEMMA CloseStep ==
  ASSUME IInv, Careful, NEW t \in Threads, NEW image \in Images, Close(t, image)
  PROVE  IInv'
<1>1. Types /\ Others /\ Holder /\ Lock /\ Empty /\ TodoIs /\ PreparesAre /\ Listings /\ Left
  BY DEF IInv, Listings
<1>2. PICK X : X = Contents(image)
  OBVIOUS
<1>3. PICK r : r = Caller(t)
  OBVIOUS
<1>4. /\ Runs(t) /\ image \in mapped /\ owner \in {NoThread, t}
      /\ \A other \in mapped : image \notin Needs(other)
      /\ \A f \in Frames : f.item \notin X \cup {image}
      /\ X \cap Detached = {}
      /\ mapped' = mapped \ {image} /\ flagged' = flagged \ X
      /\ classes' = RemoveFrom(classes, X) /\ categories' = RemoveFrom(categories, X)
      /\ calls' = [item \in Items |-> IF item \in X THEN 0 ELSE calls[item]]
      /\ stack' = [stack EXCEPT ![t] = r] /\ late' = late \ {image}
      /\ UNCHANGED <<loading, owner, depth>>
  BY <1>2, <1>3 DEF Close, lock
<1>5. \A item \in Items : item \in X <=> ImageOf(item) = image
  BY <1>2, ImageIs
<1>6. \A u \in Threads : \A i \in DOMAIN stack[u] : stack[u][i] \in Frames
  BY DEF Frames, ToSet
<1>7. \A u \in Threads : stack[u] # <<>> => 1 \in DOMAIN stack[u] /\ Len(stack[u]) \in DOMAIN stack[u] /\ Top(u) = stack[u][1]
  BY <1>1, TopIs
<1>8. /\ ~At(t, "prepare") /\ r \in Seq(Calls) /\ (r # <<>> => r[1].at # "prepare")
  <2>1. <<>> \in Seq(Calls)
    OBVIOUS
  <2> QED
    BY <1>1, <1>3, <1>4, <2>1, CallerIs
(* The calls                                                               *)
<1>9. Others' /\ Holder' /\ Lock' /\ phase' = phase /\ todo' = todo
  <2>1. CASE owner # t
    <3>1. r = <<>> /\ owner = NoThread
      BY <1>1, <1>3, <1>4, <2>1, CallerIs
    <3> QED
      BY <1>1, <1>4, <1>8, <2>1, <3>1, OutsideStep
  <2>2. CASE owner = t
    <3>1. /\ depth = 1 /\ Len(r) = 2 /\ stack[t] # <<>>
          /\ r[1].item = Top(t).item /\ r[1].todo = <<>> /\ MethodOf(r[2], r[1], mapped)
          /\ r[2].at \in Calling /\ phase = r[2].at /\ todo = r[2].todo
      BY <1>1, <1>3, <1>4, <2>2, CallerIs, Where
    <3>2. MethodOf(r[2], r[1], mapped')
      <4>1. r[1].item \in Items => ImageOf(r[1].item) # image
        BY <1>4, <1>5, <1>6, <1>7, <3>1
      <4> QED
        BY <1>4, <3>1, <4>1 DEF MethodOf
    <3>3. r[2].at \in AtWork \cup {"call", "unlock"} /\ \A i \in 1..1 : r[i].todo = <<>>
      BY <3>1 DEF AtWork, Calling
    <3>4. Shape(r, mapped')
      BY <3>1, <3>2, <3>3 DEF Shape
    <3>5. Depth(r) = 1 /\ r[Len(r)].at = phase /\ r[Len(r)].todo = todo
      BY <3>1 DEF Depth
    <3> QED
      BY <1>1, <1>4, <1>8, <2>2, <3>1, <3>4, <3>5, InsideStep
  <2> QED
    BY <2>1, <2>2
(* The images                                                              *)
<1>10. ~At(t, "prepare")'
  BY <1>1, <1>4, <1>8, StackIs
<1>11. /\ stack' \in [Threads -> Seq(Calls)]
       /\ \A u \in Threads : (At(u, "prepare")' <=> At(u, "prepare"))
       /\ \A u \in Threads : At(u, "prepare") => Top(u)' = Top(u)
  BY <1>1, <1>4, <1>8, <1>10, StackIs
<1>12. \A u \in Threads : At(u, "prepare") => Top(u).item # image
  BY <1>4, <1>6, <1>7 DEF At
<1>13. PreparesAre'
  BY <1>1, <1>4, <1>11, <1>12 DEF PreparesAre
<1>14. \A x : x \in Unprepared' <=> x \in Unprepared
  BY <1>11 DEF Unprepared
<1>15. \A x : x \in Prepared' <=> x \in Prepared /\ x # image
  BY <1>4, <1>14 DEF Prepared
<1>16. Linked'
  BY <1>1, <1>4, <1>15 DEF Listings, Linked
(* What a class needs, or a category, stays.                               *)
<1>17. \A item \in Items : ImageOf(item) \in mapped' /\ Parent(item) # NoClass =>
         Parent(item) \in Classes /\ ImageOf(Parent(item)) \in mapped'
  <2> SUFFICES ASSUME NEW item \in Items, ImageOf(item) \in mapped', Parent(item) # NoClass
               PROVE  Parent(item) \in Classes /\ ImageOf(Parent(item)) \in mapped'
    OBVIOUS
  <2>1. Parent(item) \in Classes /\ ImageOf(Parent(item)) \in Needs(ImageOf(item)) \cup {ImageOf(item)}
    BY NeedsAre
  <2>2. Needs(ImageOf(item)) \subseteq mapped'
    BY <1>16 DEF Linked, Prepared
  <2> QED
    BY <2>1, <2>2
<1>18. \A item \in Items : ImageOf(item) \in mapped' =>
         \A c \in Above[Parent(item)] : c \in Classes /\ c \notin X
  <2>1. PICK S : S = {c \in Classes : ImageOf(c) \in mapped'}
    OBVIOUS
  <2>2. \A c \in Classes : c \in S => Super[c] \in S \cup {NoClass}
    BY <1>17, <2>1, Apart DEF Parent
  <2>3. \A c \in Classes : c \in S => Above[c] \subseteq S
    BY <2>2, AboveIn
  <2>4. \A c \in S : c \in Classes /\ c \notin X
    BY <1>4, <1>5, <2>1, Apart
  <2> QED
    BY <1>17, <2>1, <2>3, <2>4, AboveAre
<1>19. \A x \in X : ~In(todo, x)
  <2>1. CASE owner = t
    <3>1. stack[t] # <<>> /\ todo = stack[t][Len(stack[t])].todo
      BY <1>1, <2>1, Where
    <3>2. stack[t][Len(stack[t])] \in Frames
      BY <1>6, <1>7, <3>1
    <3>3. \A i \in DOMAIN todo : todo[i] \in Detached
      BY <3>1, <3>2 DEF Detached, ToSet
    <3> QED
      BY <1>4, <3>3 DEF In
  <2>2. CASE owner = NoThread
    BY <1>1, <2>2, Where DEF In
  <2> QED
    BY <1>4, <2>1, <2>2
<1>20. /\ calls' \in [Items -> 0..1]
       /\ \A item \in Items : calls'[item] = IF item \in X THEN 0 ELSE calls[item]
  BY <1>1, <1>4 DEF Types
<1>21. PICK s : s = [flagged |-> flagged, classes |-> classes]
  OBVIOUS
<1>22. s.flagged = flagged /\ s.classes = classes /\ ClassesSound(s, mapped, todo, calls)
  BY <1>1, <1>21 DEF Listings, ClassesAre
<1>23. ClassesAre'
  <2>1. \A c \in Classes : ImageOf(c) \in mapped \ {image} /\ Super[c] # NoClass => ImageOf(Super[c]) # image
    BY <1>4, <1>17, Apart DEF Parent
  <2>2. \A c \in Classes : calls'[c] = IF c \in Contents(image) THEN 0 ELSE calls[c]
    BY <1>2, <1>20, Apart
  <2>3. ClassesSound([flagged |-> s.flagged \ Contents(image), classes |-> RemoveFrom(s.classes, Contents(image))],
                     mapped \ {image}, todo, calls')
    BY <1>2, <1>19, <1>22, <2>1, <2>2, ClassesRemoved
  <2> QED
    BY <1>2, <1>4, <1>9, <1>22, <2>3 DEF ClassesAre
<1>24. ClassesPrepared'
  <2>1. \A c \in HasLoad : ImageOf(c) \in Prepared' => c \in flagged'
    BY <1>1, <1>4, <1>5, <1>15, Apart DEF Listings, ClassesPrepared
  <2>2. flagged \subseteq Items
    BY <1>22, Apart DEF ClassesSound
  <2>3. \A c \in flagged' : ImageOf(c) \in Prepared'
    BY <1>1, <1>4, <1>5, <1>15, <2>2 DEF Listings, ClassesPrepared
  <2> QED
    BY <2>1, <2>3 DEF ClassesPrepared
<1>25. /\ categories \in Seq(Categories \cup {Nil})
       /\ \A k \in Categories : ImageOf(k) \in Prepared <=> calls[k] = 1 \/ In(todo, k) \/ In(categories, k)
       /\ \A k \in Categories : In(categories, k) => calls[k] = 0 /\ ~In(todo, k)
       /\ Once(categories)
  BY <1>1 DEF Types, Listings, CategoriesAre
<1>26. /\ categories' \in Seq(Categories \cup {Nil}) /\ Once(categories')
       /\ \A x : x # Nil => (In(categories', x) <=> In(categories, x) /\ x \notin X)
  <2>1. Nil \in Categories \cup {Nil}
    OBVIOUS
  <2> QED
    BY <1>4, <1>25, <2>1, RemovedIs
<1>27. CategoriesAre'
  <2>1. ASSUME NEW k \in Categories
        PROVE  /\ ImageOf(k) \in Prepared' <=> calls'[k] = 1 \/ In(todo, k) \/ In(categories', k)
               /\ In(categories', k) => calls'[k] = 0 /\ ~In(todo, k)
    <3>1. k \in Items /\ k # Nil
      BY Apart
    <3>2. CASE k \in X
      BY <1>5, <1>15, <1>19, <1>20, <1>26, <3>1, <3>2
    <3>3. CASE k \notin X
      BY <1>5, <1>15, <1>20, <1>25, <1>26, <3>1, <3>3
    <3> QED
      BY <3>2, <3>3
  <2> QED
    BY <1>9, <1>26, <2>1 DEF CategoriesAre
<1>28. ParentFirst'
  <2> SUFFICES ASSUME NEW item \in Loadable, calls'[item] > 0, NEW c \in Above[Parent(item)] \cap HasLoad
               PROVE  calls'[c] > 0
    BY DEF ParentFirst
  <2>1. item \in Items /\ c \in Items /\ calls[item] \in 0..1
    BY <1>1, Apart DEF Loadable, Types
  <2>2. item \notin X /\ calls[item] = 1
    BY <1>20, <2>1
  <2>3. ImageOf(item) \in mapped
    <3>1. CASE item \in Classes
      BY <1>22, <2>2, <3>1 DEF ClassesSound
    <3>2. CASE item \in Categories
      BY <1>25, <2>2, <3>2 DEF Prepared
    <3> QED
      BY <2>1, <3>1, <3>2, Apart
  <2>4. ImageOf(item) \in mapped'
    BY <1>4, <1>5, <2>1, <2>2, <2>3
  <2>5. c \notin X
    BY <1>18, <2>1, <2>4
  <2>6. calls[c] > 0
    BY <1>1, <2>2 DEF Listings, ParentFirst
  <2> QED
    BY <1>20, <2>1, <2>5, <2>6
<1>29. TodoIs'
  <2>1. ASSUME NEW i \in DOMAIN todo, todo[i] # Nil
        PROVE  /\ calls'[todo[i]] = 0 /\ ImageOf(todo[i]) \in mapped'
               /\ phase = "category" => todo[i] \in Categories /\
                    \A c \in Above[ClassOf[todo[i]]] \cap HasLoad : calls'[c] = 1
               /\ phase # "category" => phase = "class" /\ todo[i] \in Classes
    <3>1. /\ calls[todo[i]] = 0 /\ ImageOf(todo[i]) \in mapped
          /\ phase = "category" => todo[i] \in Categories /\
               \A c \in Above[ClassOf[todo[i]]] \cap HasLoad : calls[c] = 1
          /\ phase # "category" => phase = "class" /\ todo[i] \in Classes
      BY <1>1, <2>1 DEF TodoIs
    <3>2. todo[i] \in Items /\ todo[i] \notin X
      BY <1>19, <3>1, Apart DEF In
    <3>3. calls'[todo[i]] = 0 /\ ImageOf(todo[i]) \in mapped'
      BY <1>4, <1>5, <1>20, <3>1, <3>2
    <3>4. ASSUME phase = "category", NEW c \in Above[ClassOf[todo[i]]] \cap HasLoad PROVE calls'[c] = 1
      <4>1. Parent(todo[i]) = ClassOf[todo[i]]
        BY <3>1, <3>4, Apart DEF Parent
      <4>2. c \in Items /\ c \notin X
        BY <1>18, <3>2, <3>3, <4>1, Apart
      <4> QED
        BY <1>20, <3>1, <3>4, <4>2
    <3> QED
      BY <3>1, <3>3, <3>4
  <2>2. Once(todo) /\ (phase = "class" => Sorted(todo))
    BY <1>1 DEF TodoIs
  <2> QED
    BY <1>9, <2>1, <2>2 DEF TodoIs
<1>30. Empty'
  <2>1. classes \in Seq(Classes \cup {Nil}) /\ Nil \in Classes \cup {Nil}
    BY <1>22 DEF ClassesSound
  <2>2. classes = <<>> => classes' = <<>>
    BY <1>4, <2>1, RemovedIs
  <2> QED
    BY <1>1, <1>9, <2>2 DEF Empty
<1>31. Types'
  BY <1>1, <1>4, <1>11, <1>20, <1>26 DEF Types
<1>32. Left'
  <2>1. \A c : In(classes', c) /\ c # Nil => c \in Items /\ In(classes, c) /\ c \notin X
    <3>1. classes \in Seq(Classes \cup {Nil}) /\ Nil \in Classes \cup {Nil}
      BY <1>22 DEF ClassesSound
    <3>2. \A c : c # Nil => (In(classes', c) <=> In(classes, c) /\ c \notin X)
      BY <1>4, <3>1, RemovedIs
    <3>3. \A c : In(classes, c) /\ c # Nil => c \in Items
      BY <3>1, Apart DEF In
    <3> QED
      BY <3>2, <3>3
  <2>2. \A k : In(categories', k) /\ k # Nil => k \in Items /\ In(categories, k) /\ k \notin X
    <3>1. \A k : In(categories, k) /\ k # Nil => k \in Items
      BY <1>25, Apart DEF In
    <3> QED
      BY <1>26, <3>1
  <2>3. ASSUME phase' \in {"none", "pool", "unlock"} PROVE AllLate(classes)' /\ AllLate(categories)'
    <3>1. AllLate(classes) /\ AllLate(categories)
      BY <1>1, <1>9, <2>3 DEF Left
    <3>2. \A x : In(classes', x) /\ x # Nil => ImageOf(x) \in late'
      BY <1>4, <1>5, <2>1, <3>1 DEF AllLate, In
    <3>3. \A x : In(categories', x) /\ x # Nil => ImageOf(x) \in late'
      BY <1>4, <1>5, <2>2, <3>1 DEF AllLate, In
    <3> QED
      BY <3>2, <3>3 DEF AllLate, In
  <2>4. \A u \in Threads : owner' = u => ~At(u, "prepare")'
    <3>1. NoThread \notin Threads
      BY LoadMethodsAssumption
    <3> QED
      BY <1>4, <1>10, <3>1
  <2>5. late' # {} => PoolLoads
    BY <1>1, <1>4 DEF Left
  <2> QED
    BY <2>3, <2>4, <2>5 DEF Left
<1> QED
  BY <1>9, <1>13, <1>16, <1>23, <1>24, <1>27, <1>28, <1>29, <1>30, <1>31, <1>32 DEF IInv

-----------------------------------------------------------------------------
(* The invariant                                                           *)

(* Of up to three calls, that which is neither the outermost nor the first *)
(* of three is the next to last.                                           *)
LEMMA NextToLast ==
  ASSUME NEW n \in 1..3, NEW i \in 1..n, i # n, ~(n = 3 /\ i = 1)
  PROVE  n # 1 /\ i = n - 1
<1>1. CASE n = 1
  <2>1. i = 1
    BY <1>1
  <2> QED
    BY <1>1, <2>1
<1>2. CASE n = 2
  <2>1. i = 1 \/ i = 2
    BY <1>2
  <2> QED
    BY <1>2, <2>1
<1>3. CASE n = 3
  <2>1. i = 1 \/ i = 2 \/ i = 3
    BY <1>3
  <2> QED
    BY <1>3, <2>1
<1>4. n = 1 \/ n = 2 \/ n = 3
  OBVIOUS
<1> QED
  BY <1>1, <1>2, <1>3, <1>4

LEMMA InitHolds == Init => IInv
<1> SUFFICES ASSUME Init PROVE IInv
  OBVIOUS
<1>1. /\ mapped = {} /\ flagged = {} /\ classes = <<>> /\ categories = <<>> /\ loading = FALSE
      /\ owner = NoThread /\ depth = 0
      /\ \A t \in Threads : stack[t] = <<>>
      /\ stack = [t \in Threads |-> <<>>]
      /\ calls = [item \in Items |-> 0] /\ late = {}
  BY DEF Init
<1>2. <<>> \in Seq(Calls) /\ <<>> \in Seq(Categories \cup {Nil}) /\ <<>> \in Seq(Classes \cup {Nil})
  OBVIOUS
<1>3. phase = "none" /\ todo = <<>>
  BY <1>1 DEF phase, todo
<1>4. Types
  BY <1>1, <1>2 DEF Types
<1>5. Others /\ Holder
  BY <1>1 DEF Others, Holder
<1>6. Lock
  <2>1. phase \notin AtWork
    BY <1>3 DEF AtWork
  <2>2. loading = (phase \in AtWork)
    <3>1. (phase \in AtWork) = FALSE
      BY <2>1
    <3> QED
      BY <1>1, <3>1
  <2>3. depth = IF owner = NoThread THEN 0 ELSE Depth(stack[owner])
    BY <1>1
  <2> QED
    BY <2>2, <2>3 DEF Lock
<1>7. PreparesAre
  BY <1>1 DEF PreparesAre, At
<1>8. Linked /\ ClassesPrepared
  <2>1. \A x : x \notin Prepared
    BY <1>1 DEF Prepared
  <2> QED
    BY <1>1, <2>1 DEF Linked, ClassesPrepared
<1>9. \A x : ~In(<<>>, x)
  BY DEF In
<1>10. \A x \in Items : calls[x] = 0
  BY <1>1
<1>11. ClassesAre
  <2>1. PICK s : s = [flagged |-> flagged, classes |-> classes]
    OBVIOUS
  <2>2. s.flagged = {} /\ s.classes = <<>>
    BY <1>1, <2>1
  <2>3. ClassesSound(s, mapped, <<>>, calls)
    BY <1>2, <1>9, <1>10, <2>2, Apart DEF ClassesSound, Once, Sorted
  <2> QED
    BY <1>3, <2>1, <2>3 DEF ClassesAre
<1>12. CategoriesAre
  <2>1. \A k \in Categories : calls[k] = 0
    BY <1>10, Apart
  <2>2. \A x : x \notin Prepared
    BY <1>1 DEF Prepared
  <2> QED
    BY <1>1, <1>3, <1>9, <2>1, <2>2 DEF CategoriesAre, Once
<1>13. TodoIs /\ Empty /\ Left
  BY <1>1, <1>3 DEF TodoIs, Empty, Once, Sorted, Left, AllLate
<1>14. ParentFirst
  BY <1>10, Apart DEF ParentFirst, Loadable
<1> QED
  BY <1>4, <1>5, <1>6, <1>7, <1>8, <1>11, <1>12, <1>13, <1>14 DEF IInv

LEMMA StutterHolds == IInv /\ UNCHANGED vars => IInv'
<1> SUFFICES ASSUME IInv, UNCHANGED vars PROVE IInv'
  OBVIOUS
<1>1. UNCHANGED <<mapped, flagged, classes, categories, loading, owner, depth, stack, calls, late>>
  BY DEF vars, lists, lock
<1>2. phase' = phase /\ todo' = todo /\ Unprepared' = Unprepared
  BY <1>1 DEF phase, todo, Outermost, Unprepared, At, Top
<1>3. Types' /\ Others' /\ Holder' /\ Lock' /\ PreparesAre'
  BY <1>1, <1>2 DEF IInv, Types, Others, Holder, Lock, PreparesAre, At, Top
<1>4. Listings'
  BY <1>1, <1>2, KeepLists DEF IInv, Listings
<1>5. TodoIs' /\ Empty' /\ Left'
  BY <1>1, <1>2, KeepTodo DEF IInv, Empty, Left, AllLate, At, Top
<1> QED
  BY <1>3, <1>4, <1>5 DEF IInv, Listings

LEMMA NextHolds == Careful /\ IInv /\ [Next]_vars => IInv'
<1> SUFFICES ASSUME Careful, IInv, [Next]_vars PROVE IInv'
  OBVIOUS
<1>1. CASE UNCHANGED vars
  BY <1>1, StutterHolds
<1>2. CASE Next
  <2> PICK t \in Threads :
        \/ Prepare(t) \/ CallLoadMethods(t) \/ DetachClasses(t) \/ CallClassLoad(t) \/ EndClassLoads(t)
        \/ DetachCategories(t) \/ CallCategoryLoad(t) \/ EndCategoryLoads(t)
        \/ PopPool(t) \/ EndCallLoadMethods(t) \/ Unlock(t) \/ EndMethod(t)
        \/ \E image \in Images : Open(t, image) \/ Close(t, image)
    BY <1>2 DEF Next
  <2>1. CASE Prepare(t)
    BY <2>1, PrepareStep
  <2>2. CASE CallLoadMethods(t)
    BY <2>2, CallLoadMethodsStep
  <2>3. CASE DetachClasses(t)
    BY <2>3, DetachClassesStep
  <2>4. CASE CallClassLoad(t)
    BY <2>4, CallNextStep DEF CallClassLoad
  <2>5. CASE EndClassLoads(t)
    BY <2>5, EndClassLoadsStep
  <2>6. CASE DetachCategories(t)
    BY <2>6, DetachCategoriesStep
  <2>7. CASE CallCategoryLoad(t)
    BY <2>7, CallNextStep DEF CallCategoryLoad
  <2>8. CASE EndCategoryLoads(t)
    BY <2>8, EndCategoryLoadsStep
  <2>9. CASE Unlock(t)
    BY <2>9, UnlockStep
  <2>10. CASE EndMethod(t)
    BY <2>10, EndMethodStep
  <2>11. CASE \E image \in Images : Open(t, image) \/ Close(t, image)
    <3>1. PICK image \in Images : Open(t, image) \/ Close(t, image)
      BY <2>11
    <3> QED
      BY <3>1, OpenStep, CloseStep
  <2>12. CASE PopPool(t)
    BY <2>12, PopPoolStep
  <2>13. CASE EndCallLoadMethods(t)
    BY <2>13, EndCallLoadMethodsStep
  <2> QED
    BY <2>1, <2>2, <2>3, <2>4, <2>5, <2>6, <2>7, <2>8, <2>9, <2>10, <2>11, <2>12, <2>13
<1> QED
  BY <1>1, <1>2

(* In a program that is careful, the invariant holds in every state: what  *)
(* call_load_methods and its callers know of the lists and of each other.  *)
THEOREM SpecIInv == Careful /\ Spec => []IInv
<1>1. Init => IInv
  BY InitHolds
<1>2. Careful /\ IInv /\ [Next]_vars => IInv'
  BY NextHolds
<1>3. CASE Careful
  BY <1>1, <1>2, <1>3, PTL DEF Spec
<1> QED
  BY <1>3

-----------------------------------------------------------------------------
(* What follows from it                                                    *)

(* Superclasses receive +load before their subclasses, and classes before  *)
(* their categories, however images are loaded and unloaded in the         *)
(* meantime (schedule_class_load, call_load_methods).                      *)
THEOREM ParentsAreFirst == Careful /\ Spec => []ParentFirst
<1>1. IInv => ParentFirst
  BY DEF IInv
<1> QED
  BY <1>1, SpecIInv, PTL

(* A +load method is called once, and none while another is running: the   *)
(* outermost call_load_methods calls them all.                             *)
THEOREM EachOnce == Careful /\ Spec => []OnceOneAtATime
<1>1. ASSUME IInv PROVE OnceOneAtATime
  <2>1. Types /\ Others /\ Holder
    BY <1>1 DEF IInv
  <2>2. \A item \in Items : calls[item] <= 1
    BY <2>1 DEF Types
  <2>3. ASSUME NEW t \in Threads, NEW i \in DOMAIN stack[t], stack[t][i].at = "load"
        PROVE  owner = t /\ Len(stack[t]) # 1 /\ i = Len(stack[t]) - 1
    <3>1. stack[t] \in Seq(Calls) /\ stack[t] # <<>> /\ i \in 1..Len(stack[t])
      BY <2>1, <2>3, TopIs
    <3>2. owner = t
      <4> SUFFICES ASSUME owner # t PROVE FALSE
        OBVIOUS
      <4>1. Len(stack[t]) = 1 /\ stack[t][1].at = "prepare"
        BY <2>1, <3>1 DEF Others
      <4> QED
        BY <2>3, <3>1, <4>1
    <3>3. PICK s : s = stack[t]
      OBVIOUS
    <3>4. Shape(s, mapped)
      BY <2>1, <3>2, <3>3, LoadMethodsAssumption DEF Holder
    <3>5. PICK n \in 1..3 : n = Len(s) /\ i \in 1..n
      BY <3>1, <3>3, <3>4 DEF Shape
    <3>6. s[n].at # "load" /\ (n = 3 => s[1].at # "load")
      BY <3>4, <3>5 DEF Shape, AtWork
    <3>7. i # n /\ ~(n = 3 /\ i = 1)
      BY <2>3, <3>3, <3>6
    <3>8. n # 1 /\ i = n - 1
      BY <3>5, <3>7, NextToLast
    <3>9. Len(stack[t]) # 1 /\ i = Len(stack[t]) - 1
      BY <3>3, <3>5, <3>8
    <3> QED
      BY <3>2, <3>9
  <2> QED
    BY <2>2, <2>3 DEF OnceOneAtATime
<1>2. IInv => OnceOneAtATime
  BY <1>1
<1> QED
  BY <1>2, SpecIInv, PTL

(* When nobody is at work in load_images, the +load methods of the images  *)
(* that have been prepared have been called, or wait in a list and are of  *)
(* an image that a -dealloc method has loaded.                             *)
LEMMA Waiting ==
  ASSUME IInv, owner = NoThread, NEW image \in Done, NEW item \in Contents(image) \cap Loadable
  PROVE  calls[item] = 1 \/ (image \in late /\ item \in ToSet(classes) \cup ToSet(categories))
<1>1. Types /\ Others /\ Holder /\ Lock /\ Empty /\ PreparesAre /\ Listings /\ Left
  BY DEF IInv, Listings
<1>2. image \in mapped /\ \A f \in Frames : f.at = "prepare" => f.item # image
  BY DEF Done
<1>3. phase = "none" /\ todo = <<>> /\ AllLate(classes) /\ AllLate(categories)
  BY <1>1 DEF phase, todo, Left
<1>4. \A x : ~In(todo, x)
  BY <1>3 DEF In
<1>5. item \in Items /\ item # Nil /\ ImageOf(item) = image
  BY <1>1, <1>2, ImageIs, Apart DEF Types, Loadable
<1>6. image \notin Unprepared
  <2> SUFFICES ASSUME NEW u \in Threads, At(u, "prepare"), Top(u).item = image PROVE FALSE
    BY DEF Unprepared
  <2>1. Top(u) = stack[u][1] /\ 1 \in DOMAIN stack[u]
    BY <1>1, TopIs
  <2>2. Top(u) \in Frames
    BY <2>1 DEF Frames, ToSet
  <2> QED
    BY <1>2, <2>2 DEF At
<1>7. ImageOf(item) \in Prepared
  BY <1>2, <1>5, <1>6 DEF Prepared
<1>8. calls[item] = 1 \/ In(classes, item) \/ In(categories, item)
  <2>1. CASE item \in Categories
    BY <1>1, <1>4, <1>7, <2>1 DEF Listings, CategoriesAre
  <2>2. CASE item \in HasLoad
    <3>1. item \in flagged
      BY <1>1, <1>7, <2>2 DEF Listings, ClassesPrepared
    <3>2. PICK s : s = [flagged |-> flagged, classes |-> classes]
      OBVIOUS
    <3>3. s.flagged = flagged /\ s.classes = classes /\ ClassesSound(s, mapped, todo, calls)
      BY <1>1, <3>2 DEF Listings, ClassesAre
    <3> QED
      BY <1>4, <2>2, <3>1, <3>3 DEF ClassesSound
  <2> QED
    BY <2>1, <2>2 DEF Loadable
<1>9. In(classes, item) => image \in late /\ item \in ToSet(classes)
  BY <1>3, <1>5 DEF In, AllLate, ToSet
<1>10. In(categories, item) => image \in late /\ item \in ToSet(categories)
  BY <1>3, <1>5 DEF In, AllLate, ToSet
<1> QED
  BY <1>8, <1>9, <1>10

(* No +load method is forgotten: when nobody is at work in load_images,    *)
(* those of every image that has been prepared have been called, but for   *)
(* those of images loaded while the last call popped its pool, and these   *)
(* are in the lists.                                                       *)
THEOREM NoneIsForgotten == Careful /\ Spec => []NoneForgotten
<1>1. IInv => NoneForgotten
  BY Waiting DEF NoneForgotten
<1> QED
  BY <1>1, SpecIInv, PTL

(* When no -dealloc method of an object in the pool loads an image, they   *)
(* have all been called, as the comment of call_load_methods has it.       *)
THEOREM AllAreCalled == Careful /\ ~PoolLoads /\ Spec => []AllCalled
<1>1. ASSUME IInv, ~PoolLoads PROVE AllCalled
  <2>1. late = {}
    BY <1>1 DEF IInv, Left
  <2> QED
    BY <1>1, <2>1, Waiting DEF AllCalled
<1>2. CASE ~PoolLoads
  <2>1. IInv => AllCalled
    BY <1>1, <1>2
  <2> QED
    BY <2>1, SpecIInv, PTL
<1> QED
  BY <1>2

(* The lists hold methods of images in memory only, and only such methods  *)
(* run (remove_class_from_loadable_list).                                  *)
THEOREM LoadsAreMapped == Careful /\ Spec => []LoadsMapped
<1>1. ASSUME IInv PROVE LoadsMapped
  <2>1. Types /\ Others /\ Holder /\ Lock /\ Empty /\ TodoIs /\ PreparesAre /\ Listings
    BY <1>1 DEF IInv, Listings
  <2>2. PICK s : s = [flagged |-> flagged, classes |-> classes]
    OBVIOUS
  <2>3. s.flagged = flagged /\ s.classes = classes /\ ClassesSound(s, mapped, todo, calls)
    BY <2>1, <2>2 DEF Listings, ClassesAre
  <2>4. /\ flagged \subseteq Classes /\ classes \in Seq(Classes \cup {Nil})
        /\ \A i \in DOMAIN classes : classes[i] # Nil => ImageOf(classes[i]) \in mapped
    BY <2>3 DEF ClassesSound
  <2>5. ASSUME NEW f \in Frames
        PROVE  f \in Calls /\ (f.at = "load" => ImageOf(f.item) \in mapped)
    <3>1. PICK t \in Threads : f \in ToSet(stack[t])
      BY <2>5 DEF Frames
    <3>2. PICK i \in DOMAIN stack[t] : f = stack[t][i]
      BY <3>1 DEF ToSet
    <3>3. stack[t] \in Seq(Calls) /\ stack[t] # <<>> /\ i \in 1..Len(stack[t])
      BY <2>1, <3>2, TopIs
    <3>4. f \in Calls
      BY <3>2, <3>3
    <3>5. ASSUME f.at = "load" PROVE ImageOf(f.item) \in mapped
      <4>1. owner = t
        <5> SUFFICES ASSUME owner # t PROVE FALSE
          OBVIOUS
        <5>1. Len(stack[t]) = 1 /\ stack[t][1].at = "prepare"
          BY <2>1, <3>3 DEF Others
        <5> QED
          BY <3>2, <3>3, <3>5, <5>1
      <4>2. PICK z : z = stack[t]
        OBVIOUS
      <4>3. Shape(z, mapped)
        BY <2>1, <4>1, <4>2, LoadMethodsAssumption DEF Holder
      <4>4. PICK n \in 1..3 : n = Len(z) /\ i \in 1..n
        BY <3>3, <4>2, <4>3 DEF Shape
      <4>5. /\ z[n].at # "load" /\ (n = 3 => z[1].at # "load")
            /\ n > 1 /\ z[n - 1].at = "load" => ImageOf(z[n - 1].item) \in mapped
        BY <4>3, <4>4 DEF Shape, AtWork, MethodOf
      <4>6. i # n /\ ~(n = 3 /\ i = 1)
        BY <3>2, <3>5, <4>2, <4>5
      <4>7. n > 1 /\ i = n - 1
        <5>1. n # 1 /\ i = n - 1
          BY <4>4, <4>6, NextToLast
        <5> QED
          BY <4>4, <5>1
      <4> QED
        BY <3>2, <3>5, <4>2, <4>5, <4>7
    <3> QED
      BY <3>4, <3>5
  <2>6. categories \in Seq(Categories \cup {Nil})
    BY <2>1 DEF Types
  <2>7. TypeOK
    <3>1. mapped \subseteq Images /\ flagged \subseteq Classes
      BY <2>1, <2>4 DEF Types
    <3>2. ToSet(classes) \subseteq Classes \cup {Nil} /\ ToSet(categories) \subseteq Categories \cup {Nil}
      BY <2>4, <2>6 DEF ToSet
    <3>3. loading \in BOOLEAN
      BY <2>1 DEF Lock
    <3>4. IF depth = 0 THEN owner = NoThread ELSE owner \in Threads
      BY <2>1 DEF Lock, Types, Depth
    <3>5. calls \in [Items -> Nat]
      BY <2>1 DEF Types
    <3>7. late \subseteq Images
      BY <2>1 DEF Types
    <3>6. \A f \in Frames :
            /\ f.at \in {"prepare", "call", "classes", "class", "categories", "category", "pool", "unlock",
                         "load", "dealloc"}
            /\ f.item \in Items \cup Images /\ f.made \in 0..MaxCalls
            /\ ToSet(f.todo) \subseteq Items \cup {Nil}
      BY <2>5 DEF Calls, Labels, ToSet
    <3> QED
      BY <3>1, <3>2, <3>3, <3>4, <3>5, <3>6, <3>7 DEF TypeOK
  <2>8. \A item \in ToSet(categories) \ {Nil} : ImageOf(item) \in mapped
    <3> SUFFICES ASSUME NEW item \in ToSet(categories), item # Nil PROVE ImageOf(item) \in mapped
      OBVIOUS
    <3>1. In(categories, item) /\ item \in Categories
      BY <2>6 DEF ToSet, In
    <3> QED
      BY <2>1, <3>1 DEF Listings, CategoriesAre, Prepared
  <2>9. \A item \in ToSet(classes) \ {Nil} : ImageOf(item) \in mapped
    BY <2>4 DEF ToSet
  <2> QED
    BY <2>5, <2>7, <2>8, <2>9 DEF LoadsMapped, Running
<1>2. IInv => LoadsMapped
  BY <1>1
<1> QED
  BY <1>2, SpecIInv, PTL
=============================================================================
