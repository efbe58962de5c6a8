------------------------- MODULE MethodCacheProof -------------------------
(***************************************************************************)
(* Proofs about MethodCache: the inductive invariant, and from it that     *)
(* readers stay within allocated memory, that no cached entry is stale,    *)
(* that arrays are owned once and never full, and that sending a message   *)
(* implements Dispatch.                                                    *)
(*                                                                         *)
(* First come the capacities and the search through superclasses, then     *)
(* what a step of a reader, of the holder of cacheUpdateLock and of a      *)
(* change of methods leaves true, then one lemma for each action.          *)
(***************************************************************************)
EXTENDS MethodCacheInv, TLAPS, FiniteSetTheorems, WellFoundedInduction

(* Capacities begin with the first one and are doubled; no two of them are *)
(* larger than EmptyCapacity.                                              *)
LEMMA SizesAre ==
  /\ InitCacheSize \in Sizes
  /\ \A n \in Sizes : n \in Nat /\ n >= 4 /\ n <= MaxCapacity
  /\ \A n \in Sizes : 2 * n <= MaxCapacity => 2 * n \in Sizes
<1>1. InitCacheSize \in 0..MaxCapacity /\ InitCacheSize >= 4
  BY MethodCacheAssumption
<1>2. InitCacheSize \in Sizes
  BY <1>1 DEF Sizes
<1>3. ASSUME NEW n \in Sizes PROVE n \in Nat /\ n >= 4 /\ n <= MaxCapacity
  <2>1. PICK S : S = {k \in 0..MaxCapacity : k >= 4}
    OBVIOUS
  <2>2. S \in SUBSET (0..MaxCapacity) /\ InitCacheSize \in S
        /\ \A k \in S : 2 * k <= MaxCapacity => 2 * k \in S
    BY <1>1, <2>1
  <2>3. n \in S
    BY <2>2 DEF Sizes
  <2> QED
    BY <2>1, <2>3
<1>4. ASSUME NEW n \in Sizes, 2 * n <= MaxCapacity PROVE 2 * n \in Sizes
  <2>1. 2 * n \in 0..MaxCapacity
    BY <1>3, <1>4, MethodCacheAssumption
  <2>2. ASSUME NEW S \in SUBSET (0..MaxCapacity), InitCacheSize \in S,
               \A k \in S : 2 * k <= MaxCapacity => 2 * k \in S
        PROVE  2 * n \in S
    <3>1. n \in S
      BY <2>2 DEF Sizes
    <3> QED
      BY <1>4, <2>2, <3>1
  <2> QED
    BY <2>1, <2>2 DEF Sizes
<1> QED
  BY <1>2, <1>3, <1>4

(* What holds of the first capacity and of the double of each holds of     *)
(* all.                                                                    *)
LEMMA SizesInduction ==
  ASSUME NEW S, S \subseteq Sizes, InitCacheSize \in S,
         \A n \in S : 2 * n \in Sizes => 2 * n \in S
  PROVE  S = Sizes
<1>1. S \in SUBSET (0..MaxCapacity)
  BY DEF Sizes
<1>2. \A n \in S : 2 * n <= MaxCapacity => 2 * n \in S
  BY SizesAre
<1>3. \A n \in Sizes : n \in S
  BY <1>1, <1>2 DEF Sizes
<1> QED
  BY <1>3

(* Only one capacity is larger than _objc_empty_cache, so that one array   *)
(* of empty buckets on the heap is enough.                                 *)
LEMMA OneLargeSize ==
  ASSUME NEW m \in Sizes, NEW n \in Sizes, m > EmptyCapacity, n > EmptyCapacity
  PROVE  m = n
<1>1. PICK S : S = {y \in Sizes : y = InitCacheSize \/ \E z \in Sizes : y = 2 * z}
  OBVIOUS
<1>2. S = Sizes
  <2>1. InitCacheSize \in S
    BY <1>1, SizesAre
  <2>2. \A k \in S : 2 * k \in Sizes => 2 * k \in S
    BY <1>1
  <2> QED
    BY <1>1, <2>1, <2>2, SizesInduction
<1>3. PICK P : P = {x \in Sizes : \A y \in Sizes : y > x => y >= 2 * x}
  OBVIOUS
<1>4. \A y \in Sizes : y >= InitCacheSize
  <2>1. PICK Q : Q = {y \in Sizes : y >= InitCacheSize}
    OBVIOUS
  <2>2. \A y \in Q : 2 * y \in Sizes => 2 * y \in Q
    BY <2>1, SizesAre, MethodCacheAssumption
  <2>3. InitCacheSize \in Q
    BY <2>1, SizesAre, MethodCacheAssumption
  <2>4. Q = Sizes
    BY <2>1, <2>2, <2>3, SizesInduction
  <2> QED
    BY <2>1, <2>4
<1>5. ASSUME NEW x \in Sizes, NEW y \in Sizes, y > x,
             \A z \in Sizes : 2 * z > x => 2 * z >= 2 * x
      PROVE  y >= 2 * x
  <2>1. y # InitCacheSize
    BY <1>4, <1>5, SizesAre
  <2>2. PICK z \in Sizes : y = 2 * z
    BY <1>1, <1>2, <2>1
  <2> QED
    BY <1>5, <2>2
<1>6. InitCacheSize \in P
  <2>1. \A z \in Sizes : 2 * z >= 2 * InitCacheSize
    BY <1>4, SizesAre, MethodCacheAssumption
  <2> QED
    BY <1>3, <1>5, <2>1, SizesAre
<1>7. ASSUME NEW x \in P, 2 * x \in Sizes PROVE 2 * x \in P
  <2>1. \A z \in Sizes : z > x => z >= 2 * x
    BY <1>3
  <2>2. x \in Sizes /\ x \in Nat
    BY <1>3, SizesAre
  <2>3. \A z \in Sizes : 2 * z > 2 * x => 2 * z >= 2 * (2 * x)
    BY <2>1, <2>2, SizesAre
  <2> QED
    BY <1>3, <1>5, <1>7, <2>3
<1>8. P = Sizes
  BY <1>3, <1>6, <1>7, SizesInduction
<1>9. \A x \in Sizes, y \in Sizes : x > EmptyCapacity => ~(y > x)
  <2> SUFFICES ASSUME NEW x \in Sizes, NEW y \in Sizes, x > EmptyCapacity, y > x PROVE FALSE
    OBVIOUS
  <2>1. y >= 2 * x
    BY <1>3, <1>8
  <2>2. x \in Nat /\ y \in Nat /\ y <= MaxCapacity /\ MaxCapacity <= 2 * EmptyCapacity
    BY SizesAre, MethodCacheAssumption
  <2> QED
    BY <2>1, <2>2, MethodCacheAssumption
<1> QED
  BY <1>9, SizesAre

-----------------------------------------------------------------------------
(* Walks from a class to its root.                                         *)
LEMMA ClassInduction ==
  ASSUME NEW S, S \subseteq Classes,
         \A c \in Classes : (Super[c] = NoClass \/ Super[c] \in S) => c \in S
  PROVE  S = Classes
<1> SUFFICES ASSUME Classes \ S # {} PROVE FALSE
  OBVIOUS
<1>1. PICK c \in Classes \ S : Super[c] \notin Classes \ S
  <2>1. PICK T : T = Classes \ S
    OBVIOUS
  <2>2. T \in SUBSET Classes /\ T # {}
    BY <2>1
  <2>3. \E c \in T : Super[c] \notin T
    BY <2>2, MethodCacheAssumption, ZenonT(60)
  <2> QED
    BY <2>1, <2>3
<1>2. Super[c] = NoClass \/ Super[c] \in S
  BY <1>1, MethodCacheAssumption
<1> QED
  BY <1>1, <1>2

(* What a walk comes to: where a is true b, at the end d.                  *)
Walks(h, K, a, b, d) ==
  /\ K \subseteq Classes /\ \A c \in K : Super[c] \in K \cup {NoClass}
  /\ h = [c \in K |-> IF a[c] THEN b[c] ELSE IF Super[c] = NoClass THEN d ELSE h[Super[c]]]

(* Two walks come to the same where both are defined.                      *)
LEMMA WalksAgree ==
  ASSUME NEW g, NEW h, NEW K, NEW E, NEW a, NEW b, NEW d, Walks(g, K, a, b, d), Walks(h, E, a, b, d)
  PROVE  \A c \in K \cap E : g[c] = h[c]
<1>1. PICK S : S = {c \in Classes : c \in K \cap E => g[c] = h[c]}
  OBVIOUS
<1>2. ASSUME NEW c \in Classes, Super[c] = NoClass \/ Super[c] \in S PROVE c \in S
  <2> SUFFICES ASSUME c \in K \cap E PROVE g[c] = h[c]
    BY <1>1
  <2>1. g[c] = IF a[c] THEN b[c] ELSE IF Super[c] = NoClass THEN d ELSE g[Super[c]]
    BY DEF Walks
  <2>2. h[c] = IF a[c] THEN b[c] ELSE IF Super[c] = NoClass THEN d ELSE h[Super[c]]
    BY DEF Walks
  <2>3. Super[c] # NoClass => g[Super[c]] = h[Super[c]]
    BY <1>1, <1>2 DEF Walks
  <2> QED
    BY <2>1, <2>2, <2>3
<1>3. S = Classes
  BY <1>1, <1>2, ClassInduction
<1> QED
  BY <1>1, <1>3 DEF Walks

(* There is a walk from all classes, as each has its end.                  *)
LEMMA WalkExists ==
  ASSUME NEW a, NEW b, NEW d
  PROVE  \E h : Walks(h, Classes, a, b, d)
<1>1. PICK S : S = {c \in Classes : \E g, K : c \in K /\ Walks(g, K, a, b, d)}
  OBVIOUS
<1>2. ASSUME NEW c \in Classes, Super[c] = NoClass \/ Super[c] \in S PROVE c \in S
  <2>1. CASE Super[c] = NoClass
    <3>1. PICK g : g = [x \in {c} |-> IF a[c] THEN b[c] ELSE d]
      OBVIOUS
    <3>2. Walks(g, {c}, a, b, d)
      BY <2>1, <3>1 DEF Walks
    <3> QED
      BY <1>1, <3>2
  <2>2. CASE Super[c] \in S
    <3>1. PICK g, K : Super[c] \in K /\ Walks(g, K, a, b, d)
      BY <1>1, <2>2
    <3>2. CASE c \in K
      BY <1>1, <3>1, <3>2
    <3>3. CASE c \notin K
      <4>1. Super[c] # NoClass /\ NoClass \notin K
        BY <1>1, <2>2, <3>1, MethodCacheAssumption DEF Walks
      <4>2. PICK h : h = [x \in K \cup {c} |-> IF x = c THEN IF a[c] THEN b[c] ELSE g[Super[c]] ELSE g[x]]
        OBVIOUS
      <4>3. ASSUME NEW x \in K \cup {c}
            PROVE  h[x] = IF a[x] THEN b[x] ELSE IF Super[x] = NoClass THEN d ELSE h[Super[x]]
        <5>1. CASE x = c
          BY <3>1, <3>3, <4>1, <4>2, <5>1
        <5>2. CASE x # c
          <6>1. x \in K /\ h[x] = g[x]
            BY <4>2, <5>2
          <6>2. g[x] = IF a[x] THEN b[x] ELSE IF Super[x] = NoClass THEN d ELSE g[Super[x]]
            BY <3>1, <6>1 DEF Walks
          <6>3. Super[x] # NoClass => h[Super[x]] = g[Super[x]]
            BY <3>1, <3>3, <4>2, <6>1 DEF Walks
          <6> QED
            BY <6>1, <6>2, <6>3
        <5> QED
          BY <5>1, <5>2
      <4>4. Walks(h, K \cup {c}, a, b, d)
        <5>1. K \cup {c} \subseteq Classes /\ \A x \in K \cup {c} : Super[x] \in (K \cup {c}) \cup {NoClass}
          BY <3>1 DEF Walks
        <5>2. h = [x \in K \cup {c} |-> IF a[x] THEN b[x] ELSE IF Super[x] = NoClass THEN d ELSE h[Super[x]]]
          BY <4>2, <4>3
        <5> QED
          BY <5>1, <5>2 DEF Walks
      <4> QED
        BY <1>1, <4>4
    <3> QED
      BY <3>2, <3>3
  <2> QED
    BY <1>2, <2>1, <2>2
<1>3. S = Classes
  BY <1>1, <1>2, ClassInduction
<1>4. PICK w : w = [c \in Classes |-> CHOOSE g : \E K : c \in K /\ Walks(g, K, a, b, d)]
  OBVIOUS
<1>5. \A c \in Classes : \E K : c \in K /\ Walks(w[c], K, a, b, d)
  BY <1>1, <1>3, <1>4
<1>6. PICK h : h = [c \in Classes |-> w[c][c]]
  OBVIOUS
<1>7. ASSUME NEW c \in Classes
      PROVE  h[c] = IF a[c] THEN b[c] ELSE IF Super[c] = NoClass THEN d ELSE h[Super[c]]
  <2>1. PICK K : c \in K /\ Walks(w[c], K, a, b, d)
    BY <1>5
  <2>2. w[c][c] = IF a[c] THEN b[c] ELSE IF Super[c] = NoClass THEN d ELSE w[c][Super[c]]
    BY <2>1 DEF Walks
  <2>3. ASSUME Super[c] # NoClass PROVE h[Super[c]] = w[c][Super[c]]
    <3>1. Super[c] \in Classes /\ Super[c] \in K
      BY <2>1, <2>3, MethodCacheAssumption DEF Walks
    <3>2. PICK E : Super[c] \in E /\ Walks(w[Super[c]], E, a, b, d)
      BY <1>5, <3>1
    <3>3. w[Super[c]][Super[c]] = w[c][Super[c]]
      BY <2>1, <3>1, <3>2, WalksAgree
    <3> QED
      BY <1>6, <3>1, <3>3
  <2> QED
    BY <1>6, <2>2, <2>3
<1>8. Walks(h, Classes, a, b, d)
  BY <1>6, <1>7, MethodCacheAssumption DEF Walks
<1> QED
  BY <1>8

(* What a message finds.                                                   *)
LEMMA ResultIs ==
  ASSUME NEW ms, NEW c \in Classes, NEW s
  PROVE  Result(ms, <<c, s>>) =
           IF Version(ms, c, s) # 0 THEN Imp(c, s, Version(ms, c, s))
           ELSE IF Super[c] = NoClass THEN Forward ELSE Result(ms, <<Super[c], s>>)
<1>1. PICK f : f = Search(ms, s)
  OBVIOUS
<1>2. \A x : Result(ms, <<x, s>>) = f[x]
  BY <1>1 DEF Result
<1>3. PICK a, b : /\ a = [x \in Classes |-> Version(ms, x, s) # 0]
                  /\ b = [x \in Classes |-> Imp(x, s, Version(ms, x, s))]
  OBVIOUS
<1>4. PICK h : Walks(h, Classes, a, b, Forward)
  BY WalkExists
<1>5. h = [x \in Classes |-> IF Version(ms, x, s) # 0 THEN Imp(x, s, Version(ms, x, s))
                             ELSE IF Super[x] = NoClass THEN Forward ELSE h[Super[x]]]
  BY <1>3, <1>4 DEF Walks
<1>6. f = CHOOSE g : g = [x \in Classes |-> IF Version(ms, x, s) # 0 THEN Imp(x, s, Version(ms, x, s))
                             ELSE IF Super[x] = NoClass THEN Forward ELSE g[Super[x]]]
  BY <1>1, ZenonT(60) DEF Search
<1>7. f = [x \in Classes |-> IF Version(ms, x, s) # 0 THEN Imp(x, s, Version(ms, x, s))
                             ELSE IF Super[x] = NoClass THEN Forward ELSE f[Super[x]]]
  BY <1>5, <1>6
<1> QED
  BY <1>2, <1>7

(* The subclasses of c are c and what has a subclass of it as its          *)
(* superclass.                                                             *)
LEMMA SubclassesIs ==
  ASSUME NEW c, NEW d \in Classes
  PROVE  d \in Subclasses(c) <=> d = c \/ (Super[d] # NoClass /\ Super[d] \in Subclasses(c))
<1>1. PICK a, b : a = [x \in Classes |-> x = c] /\ b = [x \in Classes |-> TRUE]
  OBVIOUS
<1>2. PICK h : Walks(h, Classes, a, b, FALSE)
  BY WalkExists
<1>3. h = [x \in Classes |-> IF x = c THEN TRUE ELSE IF Super[x] = NoClass THEN FALSE ELSE h[Super[x]]]
  BY <1>1, <1>2 DEF Walks
<1>4. PICK S : S = {x \in Classes : h[x] \in BOOLEAN}
  OBVIOUS
<1>5. \A x \in Classes : Super[x] = NoClass \/ Super[x] \in S => x \in S
  BY <1>3, <1>4
<1>6. S = Classes
  BY <1>4, <1>5, ClassInduction
<1>7. \A x \in Classes : h[x] \in BOOLEAN /\ (Super[x] # NoClass => h[Super[x]] \in BOOLEAN)
  BY <1>4, <1>6, MethodCacheAssumption
<1>8. h = [x \in Classes |-> x = c \/ IF Super[x] = NoClass THEN FALSE ELSE h[Super[x]]]
  <2>1. ASSUME NEW x \in Classes
        PROVE  (IF x = c THEN TRUE ELSE IF Super[x] = NoClass THEN FALSE ELSE h[Super[x]])
               = (x = c \/ IF Super[x] = NoClass THEN FALSE ELSE h[Super[x]])
    BY <1>7
  <2> QED
    BY <1>3, <2>1
<1>9. PICK f : f = CHOOSE g : g = [x \in Classes |-> x = c \/ IF Super[x] = NoClass THEN FALSE ELSE g[Super[x]]]
  OBVIOUS
<1>10. f = [x \in Classes |-> x = c \/ IF Super[x] = NoClass THEN FALSE ELSE f[Super[x]]]
  BY <1>8, <1>9
<1>11. Subclasses(c) = {x \in Classes : f[x]}
  BY <1>9, ZenonT(60) DEF Subclasses
<1>12. f[d] <=> d = c \/ (Super[d] # NoClass /\ f[Super[d]])
  <2>1. f[d] = (d = c \/ IF Super[d] = NoClass THEN FALSE ELSE f[Super[d]])
    BY <1>10
  <2> QED
    BY <2>1
<1>13. Super[d] # NoClass => Super[d] \in Classes
  BY MethodCacheAssumption
<1> QED
  BY <1>11, <1>12, <1>13

(* A method that changes is found by its class and the subclasses of it.   *)
LEMMA ChangesBelow ==
  ASSUME NEW ms, NEW ns, NEW m \in Methods, \A x \in Methods \ {m} : ns[x] = ms[x],
         NEW c \in Classes \ Subclasses(m[1]), NEW s
  PROVE  Result(ns, <<c, s>>) = Result(ms, <<c, s>>)
<1>1. PICK S : S = {x \in Classes : x \notin Subclasses(m[1]) => Result(ns, <<x, s>>) = Result(ms, <<x, s>>)}
  OBVIOUS
<1>2. ASSUME NEW x \in Classes, Super[x] = NoClass \/ Super[x] \in S PROVE x \in S
  <2> SUFFICES ASSUME x \notin Subclasses(m[1]) PROVE Result(ns, <<x, s>>) = Result(ms, <<x, s>>)
    BY <1>1
  <2>1. x # m[1] /\ (Super[x] # NoClass => Super[x] \notin Subclasses(m[1]))
    BY SubclassesIs
  <2>2. <<x, s>> # m
    BY <2>1
  <2>3. Version(ns, x, s) = Version(ms, x, s)
    BY <2>2 DEF Version
  <2>4. Super[x] # NoClass => Result(ns, <<Super[x], s>>) = Result(ms, <<Super[x], s>>)
    BY <1>1, <1>2, <2>1
  <2>5. Result(ns, <<x, s>>) =
           IF Version(ns, x, s) # 0 THEN Imp(x, s, Version(ns, x, s))
           ELSE IF Super[x] = NoClass THEN Forward ELSE Result(ns, <<Super[x], s>>)
    BY ResultIs
  <2>6. Result(ms, <<x, s>>) =
           IF Version(ms, x, s) # 0 THEN Imp(x, s, Version(ms, x, s))
           ELSE IF Super[x] = NoClass THEN Forward ELSE Result(ms, <<Super[x], s>>)
    BY ResultIs
  <2> QED
    BY <2>3, <2>4, <2>5, <2>6
<1>3. S = Classes
  BY <1>1, <1>2, ClassInduction
<1> QED
  BY <1>1, <1>3

(* Methods and messages are pairs of a class and a selector.               *)
LEMMA MethodsAre == \A m \in Messages \cup Methods :
                      m = <<m[1], m[2]>> /\ m[1] \in Classes /\ m[2] \in Selectors
                      /\ m[2] \in Nat \ {0, 1}
<1> QED
  BY MethodCacheAssumption DEF Methods, Selectors

(* A selector is neither the key of an unused bucket nor that of the end   *)
(* marker.                                                                 *)
LEMMA SelectorsAre == \A s \in Selectors : s \in Nat /\ s # 0 /\ s # 1
<1> QED
  BY MethodsAre DEF Selectors

(* No implementation is the absence of one.                                *)
LEMMA ImpsAre == NoImp \notin Imps
<1>1. NoImp # Forward
  BY DEF NoImp, Forward
<1>2. \A c, s, v : NoImp # Imp(c, s, v)
  BY DEF NoImp, Imp
<1> QED
  BY <1>1, <1>2 DEF Imps

(* A method that is there is an implementation.                            *)
LEMMA VersionTyped ==
  ASSUME NEW ms \in [Methods -> 0..2], NEW c, NEW s, Version(ms, c, s) # 0
  PROVE  Imp(c, s, Version(ms, c, s)) \in Imps
<1>1. <<c, s>> \in Methods /\ Version(ms, c, s) = ms[<<c, s>>]
  BY DEF Version
<1>2. PICK m, v : m = <<c, s>> /\ v = ms[m]
  OBVIOUS
<1>3. m \in Methods /\ v \in 1..2 /\ m[1] = c /\ m[2] = s
  BY <1>1, <1>2
<1>4. Imp(m[1], m[2], v) \in Imps
  BY <1>3 DEF Imps
<1> QED
  BY <1>1, <1>2, <1>3, <1>4

(* A search comes to an implementation.                                    *)
LEMMA ResultTyped ==
  ASSUME NEW ms \in [Methods -> 0..2], NEW c \in Classes, NEW s
  PROVE  Result(ms, <<c, s>>) \in Imps
<1>1. PICK S : S = {x \in Classes : Result(ms, <<x, s>>) \in Imps}
  OBVIOUS
<1>2. ASSUME NEW x \in Classes, Super[x] = NoClass \/ Super[x] \in S PROVE x \in S
  <2>1. Result(ms, <<x, s>>) =
           IF Version(ms, x, s) # 0 THEN Imp(x, s, Version(ms, x, s))
           ELSE IF Super[x] = NoClass THEN Forward ELSE Result(ms, <<Super[x], s>>)
    BY ResultIs
  <2>2. Version(ms, x, s) # 0 => Imp(x, s, Version(ms, x, s)) \in Imps
    BY VersionTyped
  <2>3. Forward \in Imps
    BY DEF Imps
  <2> QED
    BY <1>1, <1>2, <2>1, <2>2, <2>3
<1>3. S = Classes
  BY <1>1, <1>2, ClassInduction
<1> QED
  BY <1>1, <1>3

(* A search begins within the mask.                                        *)
LEMMA HashIn == ASSUME NEW s \in Nat, NEW m \in Nat PROVE Hash(s, m) \in 0..m
<1> QED
  BY DEF Hash

(* A search stays within the mask.                                         *)
LEMMA ProbeIn ==
  ASSUME NEW s \in Nat, NEW m \in Nat, NEW n \in Nat
  PROVE  Probe(s, m, n) \in 0..m
<1>1. PICK k \in Nat : k = Hash(s, m) + n
  BY HashIn
<1> QED
  BY <1>1 DEF Probe

(* A set of numbers that is not empty has a smallest one, which Find       *)
(* returns.                                                                *)
LEMMA SmallestOne ==
  ASSUME NEW T, T \subseteq Nat, T # {}
  PROVE  \E x \in T : \A y \in T : x <= y
<1>1. PICK R : R = {ss \in Nat \X Nat : ss[1] < ss[2]}
  OBVIOUS
<1>2. IsWellFoundedOn(R, Nat)
  <2>1. IsWellFoundedOn(OpToRel(<, Nat), Nat)
    BY NatLessThanWellFounded
  <2>2. OpToRel(<, Nat) = {ss \in Nat \X Nat : ss[1] < ss[2]}
    BY ZenonT(60) DEF OpToRel
  <2> QED
    BY <1>1, <2>1, <2>2, ZenonT(60)
<1>3. \E x \in T : \A y \in T : ~ (<<y, x>> \in R)
  BY <1>2, WFMin
<1>4. \A x, y \in Nat : x < y => <<x, y>> \in R
  BY <1>1
<1>5. PICK x \in T : \A y \in T : ~ (<<y, x>> \in R)
  BY <1>3
<1>6. ASSUME NEW y \in T PROVE x <= y
  <2>1. x \in Nat /\ y \in Nat
    OBVIOUS
  <2>2. ~ (y < x)
    BY <1>4, <1>5, <2>1
  <2> QED
    BY <2>1, <2>2
<1> QED
  BY <1>6

(* A thread that has nothing to do is at no message.                       *)
LEMMA IdleIs ==
  /\ Idle \in ThreadType
  /\ Idle.pc = "idle" /\ Idle.sending = NoClass /\ Idle.todo = {}
<1>1. "idle" \in Labels
  BY DEF Labels
<1> QED
  BY <1>1 DEF Idle, ThreadType

(* A thread keeps its message when it goes on to another label.            *)
LEMMA LeaveIs ==
  ASSUME NEW me \in ThreadType, NEW label \in Labels
  PROVE  /\ Leave(me, label) \in ThreadType
         /\ Leave(me, label).pc = label
         /\ Leave(me, label).sending = me.sending
         /\ Leave(me, label).sel = me.sel
         /\ Leave(me, label).imp = me.imp
         /\ Leave(me, label).tried = me.tried
         /\ Leave(me, label).todo = me.todo
         /\ Leave(me, label).cls = IF label \in {"search", "fill", "done", "erase"} THEN me.sending ELSE me.cls
<1>1. PICK d : d = IF label \in {"search", "fill", "done", "erase"} THEN me.sending ELSE me.cls
  OBVIOUS
<1>2. d \in Classes \cup {NoClass}
  BY <1>1 DEF ThreadType
<1>3. Leave(me, label) = [Idle EXCEPT !.pc = label, !.sending = me.sending, !.sel = me.sel,
               !.tried = me.tried, !.imp = me.imp, !.todo = me.todo, !.cls = d]
  BY <1>1 DEF Leave
<1>4. Leave(me, label) = [pc |-> label, sending |-> me.sending, sel |-> me.sel, cls |-> d,
         mask |-> 0, array |-> Static, i |-> 0, wrapped |-> FALSE, imp |-> me.imp,
         tried |-> me.tried, freed |-> FALSE, todo |-> me.todo, unseen |-> {}]
  BY <1>3 DEF Idle
<1>5. me.sending \in Classes \cup {NoClass} /\ me.sel \in Nat /\ me.imp \in Imps \cup {NoImp} /\ me.tried \in BOOLEAN
      /\ me.todo \in SUBSET Classes
  BY DEF ThreadType
<1>6. Leave(me, label) \in ThreadType
  BY <1>2, <1>4, <1>5 DEF ThreadType
<1> QED
  BY <1>1, <1>4, <1>6

(* A step of a thread without cacheUpdateLock that changes no cache keeps  *)
(* the invariant when what is said of this thread holds afterwards.        *)
LEMMA ReaderStep ==
  ASSUME IInv, NEW t \in Threads, NEW r \in ThreadType, NEW X,
         th' = [th EXCEPT ![t] = r], may' = [may EXCEPT ![t] = X],
         UNCHANGED <<program, writing, lock, caches, memory>>,
         reading' \in {reading, reading \cup {t}, reading \ {t}},
         th[t].pc \notin Holding \cup {"flush"}, r.pc \notin Holding \cup {"flush"},
         writing # NoThread => t \notin reading',
         LocksOf(t)', MessageOf(t)', ReaderOf(t)', AnswerOf(t)',
         Scans(t)' /\ r.array \in garbage => Scans(t) /\ th[t].array = r.array
  PROVE  IInv'
<1> USE DEF program, caches, memory
<1>1. Types /\ Locks /\ Memory /\ ArraysOwnedOnce
      /\ \A c \in Classes : CacheOf(c) /\ FreshIn(c)
      /\ \A u \in Threads : MessageOf(u) /\ ReaderOf(u) /\ LooksOf(u) /\ UpdaterOf(u) /\ AnswerOf(u)
  BY DEF IInv
<1>2. th'[t] = r /\ \A u \in Threads : u # t => th'[u] = th[u] /\ may'[u] = may[u]
  BY <1>1 DEF Types
<1>15. \A u \in Threads : u # t => (u \in reading' <=> u \in reading)
  OBVIOUS
<1>16. \A u \in Threads : MessageOf(u) /\ ReaderOf(u) /\ LooksOf(u) /\ UpdaterOf(u) /\ AnswerOf(u)
  BY DEF IInv
<1>3. Types'
  <2>1. th' \in [Threads -> ThreadType]
    BY <1>1 DEF Types
  <2>2. may' = [u \in Threads |-> may'[u]]
    BY <1>1 DEF Types
  <2>3. reading' \subseteq Threads
    BY <1>1 DEF Types
  <2> QED
    BY <1>1, <2>1, <2>2, <2>3 DEF Types
<1>4. Locks'
  <2>1. ASSUME NEW u \in Threads PROVE LocksOf(u)'
    <3>1. CASE u = t
      BY <3>1
    <3>2. CASE u # t
      BY <1>1, <1>2, <3>2 DEF Locks, LocksOf
    <3> QED
      BY <3>1, <3>2
  <2>2. writing' # NoThread => reading' = {}
    BY <1>1 DEF Locks
  <2> QED
    BY <1>1, <2>1, <2>2 DEF Locks
<1>5. Memory'
  BY <1>1 DEF Memory
<1>6. ArraysOwnedOnce'
  BY <1>1 DEF ArraysOwnedOnce
<1>7. \A u \in Threads : lock = u => u # t
  BY <1>1 DEF Locks, LocksOf
<1>8. ASSUME NEW c \in Classes PROVE CacheOf(c)'
  <2>1. Entries(c)' = Entries(c) /\ Capacity(c)' = Capacity(c)
    BY DEF Entries, Capacity
  <2>2. Moving(c)' <=> Moving(c)
    BY <1>2, <1>7 DEF Moving
  <2>3. \A s, i : Reachable(c, s, i)' <=> Reachable(c, s, i)
    BY <2>1 DEF Reachable
  <2>4. \A i : Setting(c, i) => Setting(c, i)'
    BY <1>2, <1>7 DEF Setting
  <2>5. SizeOf(c) /\ EntriesOf(c)
    BY <1>1 DEF CacheOf
  <2>6. SizeOf(c)'
    BY <2>1, <2>2, <2>5 DEF SizeOf
  <2>7. EntriesOf(c)'
    BY <2>1, <2>3, <2>4, <2>5 DEF EntriesOf
  <2> QED
    BY <2>6, <2>7 DEF CacheOf
<1>9. ASSUME NEW c \in Classes PROVE FreshIn(c)'
  <2>1. Entries(c)' = Entries(c)
    BY DEF Entries
  <2>2. writing # t
    BY <1>1 DEF Locks, LocksOf, Holding
  <2>3. Flushing(c) => Flushing(c)'
    BY <1>2, <2>2 DEF Flushing
  <2>4. FreshIn(c)
    BY <1>1
  <2> QED
    BY <2>1, <2>3, <2>4 DEF FreshIn
<1>10. ASSUME NEW u \in Threads, u # t PROVE MessageOf(u)'
  <2>1. MessageOf(u) /\ th'[u] = th[u] /\ (u \in reading' <=> u \in reading)
    BY <1>2, <1>15, <1>16, <1>10
  <2> QED
    BY <2>1 DEF MessageOf
<1>11. ASSUME NEW u \in Threads, u # t PROVE ReaderOf(u)'
  <2>1. ReaderOf(u) /\ th'[u] = th[u]
    BY <1>2, <1>15, <1>16, <1>11
  <2> QED
    BY <2>1 DEF ReaderOf, Scans, Shared
<1>12. ASSUME NEW u \in Threads PROVE LooksOf(u)'
  <2>1. CASE u = t
    BY <1>2, <2>1 DEF LooksOf, Holding
  <2>2. CASE u # t
    <3>1. LooksOf(u) /\ th'[u] = th[u] /\ th'[t] = r
      BY <1>2, <1>15, <1>16, <2>2
    <3>2. ASSUME th[u].pc = "look", NEW v \in Threads \ th[u].unseen, Scans(v)' PROVE th'[v].array \notin garbage
      <4>1. CASE v = t
        BY <3>1, <3>2, <4>1 DEF LooksOf
      <4>2. CASE v # t
        <5>1. th'[v] = th[v]
          BY <1>2, <4>2
        <5> QED
          BY <3>1, <3>2, <5>1 DEF LooksOf, Scans
      <4> QED
        BY <4>1, <4>2
    <3> QED
      BY <3>1, <3>2 DEF LooksOf
  <2> QED
    BY <2>1, <2>2
<1>13. ASSUME NEW u \in Threads PROVE UpdaterOf(u)'
  <2>1. CASE u = t
    BY <1>2, <2>1 DEF UpdaterOf, Holding
  <2>2. CASE u # t
    <3>1. \A c : Entries(c)' = Entries(c) /\ Capacity(c)' = Capacity(c)
      BY DEF Entries, Capacity
    <3>2. \A c, s, i : Reachable(c, s, i)' <=> Reachable(c, s, i)
      BY <3>1 DEF Reachable
    <3>3. \A c, s : Ready(c, s)' <=> Ready(c, s)
      BY <3>1 DEF Ready, Shared
    <3>4. UpdaterOf(u) /\ th'[u] = th[u] /\ (u \in reading' <=> u \in reading)
      BY <1>2, <1>15, <1>16, <2>2
    <3> QED
      BY <3>1, <3>2, <3>3, <3>4 DEF UpdaterOf, Shared
  <2> QED
    BY <2>1, <2>2
<1>14. ASSUME NEW u \in Threads, u # t PROVE AnswerOf(u)'
  <2>1. AnswerOf(u) /\ th'[u] = th[u] /\ may'[u] = may[u] /\ (u \in reading' <=> u \in reading)
    BY <1>2, <1>15, <1>16, <1>14
  <2> QED
    BY <2>1 DEF AnswerOf, Scans, Message
<1> QED
  BY <1>3, <1>4, <1>5, <1>6, <1>8, <1>9, <1>10, <1>11, <1>12, <1>13, <1>14 DEF IInv

(* The parts of the invariant.                                             *)
LEMMA Parts ==
  ASSUME IInv
  PROVE  /\ Types /\ Locks /\ Memory /\ ArraysOwnedOnce
         /\ \A c \in Classes : SizeOf(c) /\ EntriesOf(c) /\ FreshIn(c)
         /\ \A t \in Threads : /\ LocksOf(t) /\ MessageOf(t) /\ ReaderOf(t)
                               /\ LooksOf(t) /\ UpdaterOf(t) /\ AnswerOf(t)
<1> QED
  BY DEF IInv, CacheOf, Locks

(* Which arrays are allocated.                                             *)
LEMMA LiveAre ==
  ASSUME ArraysOwnedOnce, Types
  PROVE  /\ \A a : a \in live <=> \/ \E c \in Classes : a = buckets[c] /\ a # Static
                                  \/ a = emptyBuckets /\ a # Static
                                  \/ a \in garbage
         /\ \A c \in Classes : buckets[c] \notin garbage
         /\ emptyBuckets \notin garbage
         /\ \A c, d \in Classes : buckets[c] = buckets[d] /\ c # d => buckets[c] \in Shared
         /\ Static \notin live /\ Static \notin garbage
<1>1. \A a : a \in Range(buckets) <=> \E c \in Classes : a = buckets[c]
  BY DEF Types, Range
<1>2. live = ((Range(buckets) \cup {emptyBuckets}) \ {Static}) \cup garbage
      /\ garbage \cap (Range(buckets) \cup {emptyBuckets}) = {}
      /\ \A c, d \in Classes : buckets[c] = buckets[d] /\ c # d => buckets[c] \in {Static, emptyBuckets}
  BY DEF ArraysOwnedOnce
<1>3. Static \notin live
  BY MethodCacheAssumption DEF Types
<1> QED
  BY <1>1, <1>2, <1>3 DEF Shared

(* The mask of a cache fits its buckets, also between the two stores.      *)
LEMMA ArrayFits ==
  ASSUME IInv, NEW c \in Classes
  PROVE  mask[c] < cap[buckets[c]] /\ mask[c] \in Nat /\ cap[buckets[c]] \in Nat
<1>1. mask[c] \in Nat /\ buckets[c] \in Arrays \cup {Static} /\ cap[buckets[c]] \in Nat
  BY Parts DEF Types
<1>2. SizeOf(c) /\ Memory
  BY Parts
<1>3. EmptyCapacity > 0 /\ cap[Static] = EmptyCapacity /\ EmptyCapacity \in Nat
  BY <1>2, MethodCacheAssumption DEF Memory
<1>4. CASE Moving(c)
  <2>1. PICK t \in Threads : lock = t /\ th[t].pc = "setmask" /\ th[t].cls = c
    BY <1>4 DEF Moving
  <2>2. UpdaterOf(t) /\ th[t].mask \in Nat
    BY Parts DEF Types, ThreadType
  <2>3. mask[c] <= th[t].mask /\ (buckets[c] = Static => th[t].mask + 1 <= EmptyCapacity)
        /\ (buckets[c] # Static => cap[buckets[c]] = th[t].mask + 1)
    BY <2>1, <2>2 DEF UpdaterOf
  <2> QED
    BY <1>1, <1>3, <2>2, <2>3
<1>5. CASE ~Moving(c)
  <2>1. (buckets[c] = Static => Capacity(c) <= EmptyCapacity)
        /\ (buckets[c] # Static => cap[buckets[c]] = Capacity(c))
    BY <1>2, <1>5 DEF SizeOf
  <2>2. CASE mask[c] # 0
    BY <1>1, <1>3, <2>1, <2>2 DEF Capacity
  <2>3. CASE mask[c] = 0
    <3>1. buckets[c] # Static => buckets[c] \in live
      BY Parts, LiveAre
    <3>2. \A a \in live : a \in Arrays
      BY Parts DEF Types
    <3>3. buckets[c] # Static => cap[buckets[c]] \in Sizes
      BY <1>2, <3>1, <3>2 DEF Memory
    <3> QED
      BY <1>1, <1>3, <2>1, <2>3, <3>3, SizesAre
  <2> QED
    BY <2>2, <2>3
<1> QED
  BY <1>1, <1>4, <1>5

(* Arrays that a reader scans are allocated, and it is within them.        *)
LEMMA ScannedIs ==
  ASSUME IInv, NEW t \in Threads, Scans(t)
  PROVE  /\ th[t].array \in live \cup {Static}
         /\ th[t].cls \in Classes /\ th[t].sending \in Classes /\ th[t].sel \in Selectors
         /\ th[t].i \in Nat /\ cap[th[t].array] \in Nat /\ th[t].i <= cap[th[t].array]
         /\ th[t].array \in Shared => DOMAIN slot[th[t].array] = {} /\ th[t].i < cap[th[t].array]
         /\ DOMAIN slot[th[t].array] \subseteq 0..cap[th[t].array] - 1
         /\ \A i \in DOMAIN slot[th[t].array] : slot[th[t].array][i].imp \in Imps
<1>1. th[t] \in ThreadType /\ th[t].pc \in Reading
  BY Parts DEF Types, Scans, Reading
<1>2. LocksOf(t) /\ MessageOf(t) /\ ReaderOf(t)
  BY Parts
<1>3. th[t].sending # NoClass
  BY <1>1, <1>2 DEF LocksOf
<1>4. th[t].cls \in Classes /\ th[t].sending \in Classes /\ th[t].sel \in Selectors
  BY <1>1, <1>2, <1>3 DEF MessageOf, ThreadType
<1>5. th[t].array \in garbage \cup Shared \cup {buckets[th[t].cls]}
      /\ th[t].i <= cap[th[t].array]
      /\ (th[t].array \in Shared => th[t].i < cap[th[t].array])
  BY <1>2 DEF ReaderOf
<1>6. th[t].array \in live \cup {Static}
  BY <1>4, <1>5, Parts, LiveAre DEF Shared
<1>7. th[t].array \in Arrays \cup {Static} /\ th[t].i \in Nat /\ cap[th[t].array] \in Nat
  BY <1>1, Parts DEF Types, ThreadType
<1>8. Memory /\ Static \notin live
  BY Parts, LiveAre
<1>9. th[t].array \in Shared => DOMAIN slot[th[t].array] = {}
  BY <1>7, <1>8 DEF Memory, Shared
<1>10. DOMAIN slot[th[t].array] \subseteq 0..cap[th[t].array] - 1
       /\ \A i \in DOMAIN slot[th[t].array] : slot[th[t].array][i] \in [key : {0} \cup Selectors, imp : Imps]
  BY <1>7, <1>8 DEF Memory
<1> QED
  BY <1>4, <1>5, <1>6, <1>7, <1>9, <1>10

(* What a reader has after it loaded the mask.                             *)
LEMMA LoadIs ==
  ASSUME NEW me \in ThreadType, me.cls \in Classes, Types
  PROVE  /\ Load(me) = [me EXCEPT !.mask = mask[me.cls], !.pc = "buckets"]
         /\ Load(me) \in ThreadType
         /\ Load(me).pc = "buckets" /\ Load(me).mask = mask[me.cls]
         /\ Load(me).cls = me.cls /\ Load(me).sending = me.sending /\ Load(me).sel = me.sel
         /\ Load(me).imp = me.imp
<1>1. PICK n \in Nat : n = mask[me.cls]
  BY DEF Types
<1>2. Load(me) = [me EXCEPT !.mask = n, !.pc = "buckets"]
  BY <1>1 DEF Load
<1>3. "buckets" \in Labels
  BY DEF Labels
<1> QED
  BY <1>1, <1>2, <1>3 DEF ThreadType

(* Sending a message keeps the invariant.                                  *)
LEMMA SendStep ==
  ASSUME IInv, NEW t \in Threads, NEW m \in Messages, Send(t, m)
  PROVE  IInv'
<1>1. m[1] \in Classes /\ m[2] \in Selectors /\ m[2] \in Nat /\ m = <<m[1], m[2]>>
  BY MethodsAre
<1>2. PICK me : me = [Idle EXCEPT !.sending = m[1], !.cls = m[1], !.sel = m[2]]
  OBVIOUS
<1>3. me \in ThreadType /\ me.sending = m[1] /\ me.cls = m[1] /\ me.sel = m[2]
  BY <1>1, <1>2, IdleIs DEF ThreadType
<1>4. PICK r : r = Load(me)
  OBVIOUS
<1>5. r \in ThreadType /\ r.pc = "buckets" /\ r.mask = mask[m[1]] /\ r.cls = m[1] /\ r.sending = m[1] /\ r.sel = m[2]
  BY <1>1, <1>3, <1>4, LoadIs, Parts
<1>6. th[t].pc = "idle" /\ th' = [th EXCEPT ![t] = r]
      /\ may' = [may EXCEPT ![t] = {Result(methods, m), Result(before, m)}]
      /\ UNCHANGED <<program, locks, caches, memory>>
  BY <1>2, <1>4 DEF Send, At
<1>7. th'[t] = r /\ may'[t] = {Result(methods, m), Result(before, m)}
  BY <1>6, Parts DEF Types
<1>8. LocksOf(t) /\ mask[m[1]] \in Nat /\ m[1] # NoClass
  BY <1>1, Parts, MethodCacheAssumption DEF Types
<1>9. t \notin reading /\ lock # t /\ writing # t
  BY <1>6, <1>8 DEF LocksOf, Holding, Reading, Updating
<1>10. reading' = reading /\ lock' = lock /\ writing' = writing /\ methods' = methods /\ before' = before
       /\ mask' = mask
  BY <1>6 DEF locks, program, caches
<1>11. LocksOf(t)'
  BY <1>5, <1>7, <1>8, <1>9, <1>10 DEF LocksOf, Holding, Reading, Updating
<1>12. MessageOf(t)'
  BY <1>1, <1>5, <1>7, <1>9, <1>10 DEF MessageOf, Reading, Updating
<1>13. ReaderOf(t)'
  BY <1>5, <1>7, <1>8, <1>10 DEF ReaderOf, Scans
<1>14. AnswerOf(t)'
  BY <1>1, <1>5, <1>7, <1>9, <1>10 DEF AnswerOf, Scans, Message
<1>15. UNCHANGED <<program, writing, lock, caches, memory>>
  BY <1>6 DEF locks
<1> QED
  BY <1>5, <1>6, <1>7, <1>9, <1>10, <1>11, <1>12, <1>13, <1>14, <1>15, ReaderStep DEF Holding, Scans

(* Loading the buckets after the mask keeps the invariant: they are large  *)
(* enough, as masks only grow.                                             *)
LEMMA LoadBucketsStep ==
  ASSUME IInv, NEW t \in Threads, LoadBuckets(t)
  PROVE  IInv'
<1>1. th[t].pc = "buckets" /\ UNCHANGED <<program, locks, caches, memory, may>>
  BY DEF LoadBuckets, At
<1>2. th[t] \in ThreadType /\ LocksOf(t) /\ MessageOf(t) /\ ReaderOf(t) /\ AnswerOf(t) /\ Types
  BY Parts DEF Types
<1>3. th[t].sending \in Classes /\ th[t].cls \in Classes /\ th[t].sel \in Selectors
      /\ (t \notin reading => th[t].cls = th[t].sending) /\ lock # t /\ writing # t
  BY <1>1, <1>2 DEF LocksOf, MessageOf, ThreadType, Reading, Holding
<1>4. PICK c, s, i, b : c = th[t].cls /\ s = th[t].sel /\ i = Hash(th[t].sel, th[t].mask) /\ b = buckets[th[t].cls]
  OBVIOUS
<1>5. c \in Classes /\ s \in Nat /\ s # 0 /\ s # 1 /\ i \in Nat /\ i <= th[t].mask /\ th[t].mask \in Nat /\ b \in Arrays \cup {Static}
  BY <1>2, <1>3, <1>4, HashIn, SelectorsAre DEF ThreadType, Types
<1>6. PICK r : r = [th[t] EXCEPT !.array = b, !.i = i, !.wrapped = FALSE, !.pc = "key"]
  OBVIOUS
<1>7. r \in ThreadType /\ r.pc = "key" /\ r.array = b /\ r.i = i /\ r.cls = c /\ r.sel = s
      /\ r.sending = th[t].sending /\ r.imp = th[t].imp
  <2>1. "key" \in Labels
    BY DEF Labels
  <2> QED
    BY <1>2, <1>4, <1>5, <1>6, <2>1 DEF ThreadType
<1>8. th' = [th EXCEPT ![t] = r] /\ th'[t] = r
  BY <1>2, <1>4, <1>6 DEF LoadBuckets, Types
<1>9. may' = [may EXCEPT ![t] = may[t]] /\ may'[t] = may[t]
  BY <1>1, <1>2 DEF Types
<1>10. i < cap[b]
  <2>1. mask[c] < cap[b] /\ mask[c] \in Nat /\ cap[b] \in Nat
    BY <1>4, <1>5, ArrayFits
  <2>2. th[t].mask <= mask[c]
    BY <1>1, <1>2, <1>4 DEF ReaderOf
  <2> QED
    BY <1>5, <2>1, <2>2
<1>11. reading' = reading /\ lock' = lock /\ writing' = writing /\ methods' = methods /\ before' = before
       /\ mask' = mask /\ slot' = slot /\ buckets' = buckets /\ cap' = cap /\ garbage' = garbage /\ emptyBuckets' = emptyBuckets
  BY <1>1 DEF locks, program, caches, memory
<1>12. LocksOf(t)'
  BY <1>1, <1>2, <1>3, <1>7, <1>8, <1>11 DEF LocksOf, Holding, Reading, Updating
<1>13. MessageOf(t)'
  BY <1>1, <1>2, <1>3, <1>4, <1>7, <1>8, <1>11 DEF MessageOf, Reading, Updating
<1>14. ReaderOf(t)'
  <2>1. cap[b] \in Nat
    BY <1>2, <1>5 DEF Types
  <2> QED
    BY <1>4, <1>5, <1>7, <1>8, <1>10, <1>11, <2>1 DEF ReaderOf, Scans, Shared
<1>15. AnswerOf(t)'
  <2>1. FreshIn(c) /\ Entries(c) = slot[b]
    BY <1>4, <1>5, Parts DEF Entries
  <2>2. Result(methods, Message(t)) \in may[t] /\ Result(before, Message(t)) \in may[t]
    BY <1>1, <1>2, <1>3, MethodCacheAssumption DEF AnswerOf
  <2>3. Message(t)' = Message(t)
    BY <1>7, <1>8, <1>4 DEF Message
  <2>4. t \in reading => Result(methods, Message(t)) = Result(methods, <<c, s>>)
    BY <1>1, <1>2, <1>4 DEF AnswerOf, Reading
  <2>5. ASSUME NEW j \in DOMAIN slot[b], slot[b][j].key = s
        PROVE  /\ t \in reading => slot[b][j].imp = Result(methods, <<c, s>>)
               /\ t \notin reading => slot[b][j].imp \in may[t]
    <3>1. \/ slot[b][j].imp = Result(methods, <<c, s>>)
          \/ slot[b][j].imp = Result(before, <<c, s>>) /\ writing # NoThread
      BY <1>5, <2>1, <2>5, MethodCacheAssumption DEF FreshIn, Flushing
    <3>2. t \in reading => writing = NoThread
      BY Parts DEF Locks
    <3>3. t \notin reading => Message(t) = <<c, s>>
      BY <1>3, <1>4 DEF Message
    <3> QED
      BY <2>2, <3>1, <3>2, <3>3
  <2> QED
    BY <1>7, <1>8, <1>9, <1>11, <2>2, <2>3, <2>4, <2>5 DEF AnswerOf, Scans, Updating
<1>16. UNCHANGED <<program, writing, lock, caches, memory>>
  BY <1>1 DEF locks
<1>17. r.array \notin garbage
  BY <1>4, <1>5, <1>7, Parts, LiveAre
<1>18. writing # NoThread => t \notin reading
  BY Parts DEF Locks
<1> QED
  BY <1>1, <1>7, <1>8, <1>9, <1>11, <1>12, <1>13, <1>14, <1>15, <1>16, <1>17, <1>18, ReaderStep DEF Holding

(* A thread that leaves a reader.                                          *)
LEMMA LeavesStep ==
  ASSUME IInv, NEW t \in Threads, NEW r \in ThreadType,
         r.pc \in {"search", "resolve", "fill", "done"}, th[t].pc \in Reading \cup {"fill"},
         r.sending = th[t].sending, r.sel = th[t].sel, r.pc = "fill" => r.cls = r.sending,
         r.pc = "search" => t \notin reading, r.pc \in {"resolve", "fill"} => t \in reading,
         r.pc = "fill" => r.imp = Result(methods, Message(t)),
         r.pc = "done" => r.imp \in may[t] /\ r.imp # NoImp,
         th' = [th EXCEPT ![t] = r], UNCHANGED <<program, locks, caches, memory, may>>
  PROVE  IInv'
<1>1. th[t] \in ThreadType /\ LocksOf(t) /\ MessageOf(t) /\ AnswerOf(t) /\ Types
  BY Parts DEF Types
<1>2. th'[t] = r /\ may' = [may EXCEPT ![t] = may[t]] /\ may'[t] = may[t]
  BY <1>1 DEF Types
<1>3. reading' = reading /\ lock' = lock /\ writing' = writing /\ methods' = methods /\ before' = before
      /\ mask' = mask
  BY DEF locks, program, caches
<1>4. lock # t /\ writing # t /\ (writing # NoThread => t \notin reading) /\ th[t].sending # NoClass
  <2>1. writing # NoThread => t \notin reading
    BY Parts DEF Locks
  <2> QED
    BY <1>1, <2>1 DEF LocksOf, Reading, Holding
<1>5. LocksOf(t)'
  BY <1>1, <1>2, <1>3, <1>4 DEF LocksOf, Holding, Reading, Updating
<1>6. MessageOf(t)'
  BY <1>1, <1>2, <1>3 DEF MessageOf, Reading, Updating
<1>7. ReaderOf(t)' /\ ~Scans(t)'
  BY <1>2 DEF ReaderOf, Scans
<1>8. AnswerOf(t)'
  <2>1. Message(t)' = Message(t)
    BY <1>2 DEF Message
  <2> QED
    BY <1>1, <1>2, <1>3, <1>4, <2>1 DEF AnswerOf, Reading, Scans, Updating
<1>9. UNCHANGED <<program, writing, lock, caches, memory>>
  BY DEF locks
<1> QED
  BY <1>2, <1>3, <1>4, <1>5, <1>6, <1>7, <1>8, <1>9, ReaderStep DEF Holding, Reading

(* A thread that goes on reading its array.                                *)
LEMMA ScansOn ==
  ASSUME IInv, NEW t \in Threads, Scans(t), NEW r \in ThreadType,
         r.pc \in {"key", "end", "imp"}, r.array = th[t].array,
         r.sending = th[t].sending, r.sel = th[t].sel, r.cls = th[t].cls,
         r.i <= cap[r.array], r.array \in Shared => r.i < cap[r.array],
         r.pc = "imp" => r.i \in DOMAIN slot[r.array] /\ slot[r.array][r.i].key = r.sel,
         th' = [th EXCEPT ![t] = r], UNCHANGED <<program, locks, caches, memory, may>>
  PROVE  IInv'
<1>1. th[t] \in ThreadType /\ LocksOf(t) /\ MessageOf(t) /\ AnswerOf(t) /\ ReaderOf(t) /\ Types
  BY Parts DEF Types
<1>2. th'[t] = r /\ may' = [may EXCEPT ![t] = may[t]] /\ may'[t] = may[t]
  BY <1>1 DEF Types
<1>3. reading' = reading /\ lock' = lock /\ writing' = writing /\ methods' = methods /\ before' = before
       /\ mask' = mask /\ slot' = slot /\ buckets' = buckets /\ cap' = cap /\ garbage' = garbage /\ emptyBuckets' = emptyBuckets
  BY DEF locks, program, caches, memory
<1>4. lock # t /\ writing # t /\ (writing # NoThread => t \notin reading) /\ th[t].sending # NoClass
  <2>1. writing # NoThread => t \notin reading
    BY Parts DEF Locks
  <2> QED
    BY <1>1, <2>1 DEF LocksOf, Reading, Holding, Scans
<1>5. LocksOf(t)'
  BY <1>1, <1>2, <1>3, <1>4 DEF LocksOf, Holding, Reading, Updating, Scans
<1>6. MessageOf(t)'
  BY <1>1, <1>2, <1>3 DEF MessageOf, Reading, Updating, Scans
<1>7. ReaderOf(t)' /\ Scans(t)'
  BY <1>1, <1>2, <1>3 DEF ReaderOf, Scans, Shared
<1>8. AnswerOf(t)'
  <2>1. Message(t)' = Message(t)
    BY <1>2 DEF Message
  <2> QED
    BY <1>1, <1>2, <1>3, <1>4, <2>1 DEF AnswerOf, Reading, Scans, Updating
<1>9. UNCHANGED <<program, writing, lock, caches, memory>>
  BY DEF locks
<1>10. th[t].pc \notin Holding \cup {"flush"} /\ r.pc \notin Holding \cup {"flush"}
  BY DEF Scans, Holding
<1> QED
  BY <1>2, <1>3, <1>4, <1>5, <1>6, <1>7, <1>8, <1>9, <1>10, ReaderStep

(* A key that is not 0 or the end marker is that of a bucket in use.       *)
LEMMA HereIs ==
  ASSUME IInv, NEW t \in Threads, Scans(t)
  PROVE  /\ Here(t).key = th[t].sel => /\ th[t].i \in DOMAIN slot[th[t].array]
                                       /\ Here(t) = slot[th[t].array][th[t].i]
         /\ Here(t).key # 0 /\ Here(t).key # 1 => th[t].i \in DOMAIN slot[th[t].array]
         /\ Here(t).key # 0 => th[t].array \notin Shared
<1>1. th[t].sel # 0 /\ th[t].sel # 1
  BY ScannedIs, SelectorsAre
<1>2. CASE th[t].i \in DOMAIN slot[th[t].array]
  <2>1. Here(t) = slot[th[t].array][th[t].i]
    BY <1>2 DEF Here
  <2>2. th[t].array \notin Shared
    BY <1>2, ScannedIs
  <2> QED
    BY <1>2, <2>1, <2>2
<1>3. CASE th[t].i \notin DOMAIN slot[th[t].array]
  <2>1. Here(t).key = IF th[t].i >= cap[th[t].array] /\ th[t].array \notin Shared THEN 1 ELSE 0
    BY <1>3 DEF Here, Bucket, Shared
  <2> QED
    BY <1>1, <2>1
<1> QED
  BY <1>2, <1>3

(* Comparing a key keeps the invariant.                                    *)
LEMMA CompareKeyStep ==
  ASSUME IInv, NEW t \in Threads, CompareKey(t)
  PROVE  IInv'
<1>1. th[t] \in ThreadType /\ th[t].pc = "key" /\ ReaderOf(t)
  BY Parts DEF Types, CompareKey, At
<1>2. PICK r : r = [th[t] EXCEPT !.pc = IF Here(t).key = th[t].sel THEN "imp" ELSE "end"]
  OBVIOUS
<1>3. "imp" \in Labels /\ "end" \in Labels
  BY DEF Labels
<1>4. /\ r \in ThreadType /\ r.pc = IF Here(t).key = th[t].sel THEN "imp" ELSE "end"
      /\ r.array = th[t].array /\ r.sending = th[t].sending /\ r.sel = th[t].sel /\ r.cls = th[t].cls /\ r.i = th[t].i
  BY <1>1, <1>2, <1>3 DEF ThreadType
<1>5. th' = [th EXCEPT ![t] = r]
  BY <1>1, <1>2 DEF CompareKey, Goto, ThreadType
<1>6. Scans(t) /\ UNCHANGED <<program, locks, caches, memory, may>>
  BY <1>1 DEF Scans, CompareKey
<1>7. Here(t).key = th[t].sel => th[t].i \in DOMAIN slot[th[t].array] /\ slot[th[t].array][th[t].i].key = th[t].sel
  BY <1>6, HereIs
<1> QED
  BY <1>1, <1>4, <1>5, <1>6, <1>7, ScansOn DEF ReaderOf

(* A thread that searches, and reads the cache of another class.           *)
LEMMA LoadsStep ==
  ASSUME IInv, NEW t \in Threads, NEW r \in ThreadType,
         r.pc = "buckets", r.cls \in Classes, r.mask = mask[r.cls],
         th[t].pc \in Reading \cup {"search"}, t \in reading \/ writing = NoThread,
         r.sending = th[t].sending, r.sel = th[t].sel,
         Result(methods, Message(t)) = Result(methods, <<r.cls, r.sel>>),
         reading' = reading \cup {t},
         th' = [th EXCEPT ![t] = r], UNCHANGED <<program, writing, lock, caches, memory, may>>
  PROVE  IInv'
<1>1. th[t] \in ThreadType /\ LocksOf(t) /\ MessageOf(t) /\ AnswerOf(t) /\ Types
  BY Parts DEF Types
<1>2. th'[t] = r /\ may' = [may EXCEPT ![t] = may[t]] /\ may'[t] = may[t]
  BY <1>1 DEF Types
<1>3. lock' = lock /\ writing' = writing /\ methods' = methods /\ before' = before /\ mask' = mask
  BY DEF program, caches
<1>4. lock # t /\ writing # t /\ writing = NoThread /\ th[t].sending # NoClass
  <2>1. writing # NoThread => reading = {}
    BY Parts DEF Locks
  <2>2. lock # t /\ th[t].sending # NoClass
    BY <1>1 DEF LocksOf, Reading, Holding
  <2> QED
    BY <2>1, <2>2, MethodCacheAssumption
<1>5. LocksOf(t)'
  BY <1>1, <1>2, <1>3, <1>4 DEF LocksOf, Holding, Reading, Updating
<1>6. MessageOf(t)'
  BY <1>1, <1>2, <1>3, <1>4 DEF MessageOf, Reading, Updating
<1>7. ReaderOf(t)' /\ ~Scans(t)'
  <2>1. mask[r.cls] \in Nat
    BY <1>1 DEF Types
  <2> QED
    BY <1>2, <1>3, <2>1 DEF ReaderOf, Scans
<1>8. AnswerOf(t)'
  <2>1. Message(t)' = Message(t)
    BY <1>2 DEF Message
  <2> QED
    BY <1>1, <1>2, <1>3, <1>4, <2>1 DEF AnswerOf, Reading, Scans, Updating
<1>9. UNCHANGED <<program, writing, lock, caches, memory>>
  OBVIOUS
<1>10. th[t].pc \notin Holding \cup {"flush"} /\ r.pc \notin Holding \cup {"flush"}
  BY DEF Reading, Holding
<1> QED
  BY <1>2, <1>3, <1>4, <1>5, <1>6, <1>7, <1>8, <1>9, <1>10, ReaderStep

(* Going on after a miss keeps the invariant: the search in the superclass *)
(* is for the same result.                                                 *)
LEMMA AfterMissStep ==
  ASSUME IInv, NEW t \in Threads, Scans(t), th' = [th EXCEPT ![t] = AfterMiss(t)],
         UNCHANGED <<program, locks, caches, memory, may>>
  PROVE  IInv'
<1>1. PICK me : me = th[t]
  OBVIOUS
<1>2. me \in ThreadType /\ me.pc \in Reading /\ LocksOf(t) /\ MessageOf(t) /\ AnswerOf(t) /\ Types
  BY <1>1, Parts DEF Types, Scans, Reading
<1>3. me.cls \in Classes /\ me.sending \in Classes /\ me.sel \in Selectors
  BY <1>1, ScannedIs
<1>4. PICK v : v = Version(methods, me.cls, me.sel)
  OBVIOUS
<1>5. {"search", "fill", "resolve", "buckets"} \subseteq Labels
  BY DEF Labels
<1>6. t \in reading => Result(methods, Message(t)) = Result(methods, <<me.cls, me.sel>>)
  BY <1>1, <1>2 DEF AnswerOf
<1>7. Result(methods, <<me.cls, me.sel>>) =
        IF v # 0 THEN Imp(me.cls, me.sel, v)
        ELSE IF Super[me.cls] = NoClass THEN Forward ELSE Result(methods, <<Super[me.cls], me.sel>>)
  BY <1>3, <1>4, ResultIs
<1>8. CASE t \notin reading
  <2>1. AfterMiss(t) = Leave(me, "search")
    BY <1>1, <1>8 DEF AfterMiss, Searching
  <2>2. PICK r : r = Leave(me, "search")
    OBVIOUS
  <2>3. r \in ThreadType /\ r.pc = "search" /\ r.sending = me.sending /\ r.sel = me.sel
    BY <1>2, <1>5, <2>2, LeaveIs
  <2> QED
    BY <1>1, <1>2, <1>8, <2>1, <2>2, <2>3, LeavesStep
<1>9. CASE t \in reading /\ v # 0
  <2>1. PICK q : q = Leave(me, "fill")
    OBVIOUS
  <2>2. q \in ThreadType /\ q.pc = "fill" /\ q.sending = me.sending /\ q.sel = me.sel /\ q.cls = me.sending
    BY <1>2, <1>5, <2>1, LeaveIs
  <2>3. PICK i, r : i = Imp(me.cls, me.sel, v) /\ r = [q EXCEPT !.imp = i]
    OBVIOUS
  <2>4. AfterMiss(t) = r
    BY <1>1, <1>4, <1>9, <2>1, <2>3 DEF AfterMiss, Searching
  <2>5. i \in Imps
    BY <1>2, <1>4, <1>9, <2>3, VersionTyped DEF Types
  <2>6. r \in ThreadType /\ r.pc = "fill" /\ r.sending = me.sending /\ r.sel = me.sel /\ r.cls = me.sending /\ r.imp = i
    BY <2>2, <2>3, <2>5 DEF ThreadType
  <2>7. i = Result(methods, Message(t))
    BY <1>6, <1>7, <1>9, <2>3
  <2> QED
    BY <1>1, <1>2, <1>9, <2>4, <2>6, <2>7, LeavesStep
<1>10. CASE t \in reading /\ v = 0 /\ Super[me.cls] # NoClass
  <2>1. PICK q : q = Leave(me, "buckets")
    OBVIOUS
  <2>2. q \in ThreadType /\ q.sending = me.sending /\ q.sel = me.sel
    BY <1>2, <1>5, <2>1, LeaveIs
  <2>3. PICK c, p, r : c = Super[me.cls] /\ p = [q EXCEPT !.cls = c] /\ r = Load(p)
    OBVIOUS
  <2>4. c \in Classes
    BY <1>3, <1>10, <2>3, MethodCacheAssumption
  <2>5. p \in ThreadType /\ p.cls = c /\ p.sending = me.sending /\ p.sel = me.sel
    BY <2>2, <2>3, <2>4 DEF ThreadType
  <2>6. r \in ThreadType /\ r.pc = "buckets" /\ r.mask = mask[c] /\ r.cls = c /\ r.sending = me.sending /\ r.sel = me.sel
    <3>1. p \in ThreadType /\ p.cls \in Classes
      BY <2>4, <2>5
    <3>2. Load(p) \in ThreadType /\ Load(p).pc = "buckets" /\ Load(p).mask = mask[p.cls]
          /\ Load(p).cls = p.cls /\ Load(p).sending = p.sending /\ Load(p).sel = p.sel
      BY <1>2, <3>1, LoadIs
    <3> QED
      BY <2>3, <2>5, <3>2
  <2>7. AfterMiss(t) = r
    BY <1>1, <1>4, <1>10, <2>1, <2>3 DEF AfterMiss, Searching
  <2>8. Result(methods, Message(t)) = Result(methods, <<r.cls, r.sel>>)
    BY <1>6, <1>7, <1>10, <2>3, <2>6
  <2>9. reading' = reading \cup {t} /\ UNCHANGED <<program, writing, lock, caches, memory, may>>
    BY <1>10 DEF locks
  <2> QED
    BY <1>1, <1>2, <1>10, <2>4, <2>6, <2>7, <2>8, <2>9, LoadsStep
<1>11. CASE t \in reading /\ v = 0 /\ Super[me.cls] = NoClass /\ me.tried
  <2>1. PICK q : q = Leave(me, "fill")
    OBVIOUS
  <2>2. q \in ThreadType /\ q.pc = "fill" /\ q.sending = me.sending /\ q.sel = me.sel /\ q.cls = me.sending
    BY <1>2, <1>5, <2>1, LeaveIs
  <2>3. PICK i, r : i = Forward /\ r = [q EXCEPT !.imp = i]
    OBVIOUS
  <2>4. AfterMiss(t) = r
    BY <1>1, <1>4, <1>11, <2>1, <2>3 DEF AfterMiss, Searching
  <2>5. i \in Imps
    BY <2>3 DEF Imps
  <2>6. r \in ThreadType /\ r.pc = "fill" /\ r.sending = me.sending /\ r.sel = me.sel /\ r.cls = me.sending /\ r.imp = i
    BY <2>2, <2>3, <2>5 DEF ThreadType
  <2>7. i = Result(methods, Message(t))
    BY <1>6, <1>7, <1>11, <2>3
  <2> QED
    BY <1>1, <1>2, <1>11, <2>4, <2>6, <2>7, LeavesStep
<1>12. CASE t \in reading /\ v = 0 /\ Super[me.cls] = NoClass /\ ~me.tried
  <2>1. PICK r : r = Leave(me, "resolve")
    OBVIOUS
  <2>2. r \in ThreadType /\ r.pc = "resolve" /\ r.sending = me.sending /\ r.sel = me.sel
    BY <1>2, <1>5, <2>1, LeaveIs
  <2>3. AfterMiss(t) = r
    BY <1>1, <1>4, <1>12, <2>1 DEF AfterMiss, Searching
  <2> QED
    BY <1>1, <1>2, <1>12, <2>2, <2>3, LeavesStep
<1> QED
  BY <1>8, <1>9, <1>10, <1>11, <1>12

(* Reading a key again keeps the invariant: there is a bucket after each   *)
(* that has a key.                                                         *)
LEMMA CompareEndStep ==
  ASSUME IInv, NEW t \in Threads, CompareEnd(t)
  PROVE  IInv'
<1>1. PICK me : me = th[t]
  OBVIOUS
<1>2. me \in ThreadType /\ me.pc = "end" /\ ReaderOf(t)
  BY <1>1, Parts DEF Types, CompareEnd, At
<1>3. Scans(t) /\ UNCHANGED <<program, locks, caches, memory, may>>
  BY <1>1, <1>2 DEF Scans, CompareEnd
<1>4. PICK k : k = Here(t).key
  OBVIOUS
<1>5. th' = [th EXCEPT ![t] =
       IF k = 0 \/ (k = 1 /\ me.wrapped) THEN AfterMiss(t)
       ELSE IF k = 1 THEN [me EXCEPT !.i = 0, !.wrapped = TRUE, !.pc = "key"]
       ELSE [me EXCEPT !.i = @ + 1, !.pc = "key"]]
  BY <1>1, <1>4 DEF CompareEnd
<1>6. "key" \in Labels
  BY DEF Labels
<1>7. me.i \in Nat /\ cap[me.array] \in Nat /\ DOMAIN slot[me.array] \subseteq 0..cap[me.array] - 1
  BY <1>1, <1>3, ScannedIs
<1>8. CASE k = 0 \/ (k = 1 /\ me.wrapped)
  BY <1>3, <1>5, <1>8, AfterMissStep
<1>9. CASE k = 1 /\ ~me.wrapped
  <2>1. PICK r : r = [me EXCEPT !.i = 0, !.wrapped = TRUE, !.pc = "key"]
    OBVIOUS
  <2>2. r \in ThreadType /\ r.pc = "key" /\ r.i = 0 /\ r.array = me.array /\ r.sending = me.sending /\ r.sel = me.sel
        /\ r.cls = me.cls
    BY <1>2, <1>6, <2>1 DEF ThreadType
  <2>3. me.array \notin Shared
    <3>1. Here(t).key # 0
      BY <1>4, <1>9
    <3> QED
      BY <1>1, <1>3, <3>1, HereIs
  <2>4. th' = [th EXCEPT ![t] = r]
    BY <1>5, <1>9, <2>1
  <2>5. r.i <= cap[r.array] /\ r.array \notin Shared
    BY <1>7, <2>2, <2>3
  <2> QED
    BY <1>1, <1>3, <2>2, <2>4, <2>5, ScansOn
<1>10. CASE k # 0 /\ k # 1
  <2>1. PICK n \in Nat : n = me.i + 1
    BY <1>7
  <2>6. PICK r : r = [me EXCEPT !.i = n, !.pc = "key"]
    OBVIOUS
  <2>2. r \in ThreadType /\ r.pc = "key" /\ r.i = n /\ r.array = me.array /\ r.sending = me.sending /\ r.sel = me.sel
        /\ r.cls = me.cls
    BY <1>2, <1>6, <2>6 DEF ThreadType
  <2>3. me.array \notin Shared /\ me.i \in DOMAIN slot[me.array]
    BY <1>1, <1>3, <1>4, <1>10, HereIs
  <2>4. th' = [th EXCEPT ![t] = r]
    BY <1>5, <1>10, <2>1, <2>6
  <2>5. n <= cap[me.array]
    BY <1>7, <2>1, <2>3
  <2> QED
    BY <1>1, <1>3, <1>7, <2>2, <2>3, <2>4, <2>5, ScansOn
<1> QED
  BY <1>8, <1>9, <1>10

(* Loading an implementation keeps the invariant: it is one of those the   *)
(* message may be answered with, although the entry was stored while the   *)
(* thread looked at it.                                                    *)
LEMMA LoadImpStep ==
  ASSUME IInv, NEW t \in Threads, LoadImp(t)
  PROVE  IInv'
<1>1. PICK me : me = th[t]
  OBVIOUS
<1>2. me \in ThreadType /\ me.pc = "imp" /\ ReaderOf(t) /\ AnswerOf(t) /\ LocksOf(t)
  BY <1>1, Parts DEF Types, LoadImp, At
<1>3. Scans(t) /\ me.pc \in Reading /\ UNCHANGED <<program, locks, caches, memory, may>>
  BY <1>1, <1>2 DEF Scans, LoadImp, Reading
<1>4. PICK i : i = Here(t).imp
  OBVIOUS
<1>5. th' = [th EXCEPT ![t] = AfterHit(t, i)]
  BY <1>4 DEF LoadImp
<1>6. me.i \in DOMAIN slot[me.array] /\ slot[me.array][me.i].key = me.sel /\ i = slot[me.array][me.i].imp
  BY <1>1, <1>2, <1>4 DEF ReaderOf, Here
<1>7. i \in Imps
  BY <1>1, <1>3, <1>6, ScannedIs
<1>8. /\ t \in reading => i = Result(methods, <<me.cls, me.sel>>) /\ i = Result(methods, Message(t))
      /\ i \in may[t]
  BY <1>1, <1>2, <1>3, <1>6, MethodCacheAssumption, ScannedIs DEF AnswerOf
<1>9. {"done", "fill", "resolve"} \subseteq Labels
  BY DEF Labels
<1>10. CASE t \notin reading \/ me.cls = me.sending
  <2>1. PICK q, r : q = Leave(me, "done") /\ r = [q EXCEPT !.imp = i]
    OBVIOUS
  <2>2. q \in ThreadType /\ q.pc = "done" /\ q.sending = me.sending /\ q.sel = me.sel
    BY <1>2, <1>9, <2>1, LeaveIs
  <2>3. r \in ThreadType /\ r.pc = "done" /\ r.sending = me.sending /\ r.sel = me.sel /\ r.imp = i
    BY <1>7, <2>1, <2>2 DEF ThreadType
  <2>4. AfterHit(t, i) = r
    BY <1>1, <1>10, <2>1 DEF AfterHit, Searching
  <2> QED
    BY <1>1, <1>3, <1>5, <1>7, <1>8, <2>3, <2>4, LeavesStep, ImpsAre
<1>11. CASE t \in reading /\ me.cls # me.sending /\ (i # Forward \/ me.tried)
  <2>1. PICK q, r : q = Leave(me, "fill") /\ r = [q EXCEPT !.imp = i]
    OBVIOUS
  <2>2. q \in ThreadType /\ q.pc = "fill" /\ q.sending = me.sending /\ q.sel = me.sel /\ q.cls = me.sending
    BY <1>2, <1>9, <2>1, LeaveIs
  <2>3. r \in ThreadType /\ r.pc = "fill" /\ r.sending = me.sending /\ r.sel = me.sel /\ r.imp = i /\ r.cls = me.sending
    BY <1>7, <2>1, <2>2 DEF ThreadType
  <2>4. AfterHit(t, i) = r
    BY <1>1, <1>11, <2>1 DEF AfterHit, Searching
  <2> QED
    BY <1>1, <1>3, <1>5, <1>8, <1>11, <2>3, <2>4, LeavesStep
<1>12. CASE t \in reading /\ me.cls # me.sending /\ ~(i # Forward \/ me.tried)
  <2>1. PICK r : r = Leave(me, "resolve")
    OBVIOUS
  <2>2. r \in ThreadType /\ r.pc = "resolve" /\ r.sending = me.sending /\ r.sel = me.sel
    BY <1>2, <1>9, <2>1, LeaveIs
  <2>3. AfterHit(t, i) = r
    BY <1>1, <1>12, <2>1 DEF AfterHit, Searching
  <2> QED
    BY <1>1, <1>3, <1>5, <1>12, <2>2, <2>3, LeavesStep
<1> QED
  BY <1>10, <1>11, <1>12

(* Taking runtimeLock to search keeps the invariant.                       *)
LEMMA LockReadStep ==
  ASSUME IInv, NEW t \in Threads, LockRead(t)
  PROVE  IInv'
<1>1. th[t] \in ThreadType /\ th[t].pc = "search" /\ LocksOf(t) /\ MessageOf(t) /\ Types
  BY Parts DEF Types, LockRead, At
<1>2. th[t].sending \in Classes
  BY <1>1 DEF LocksOf, ThreadType
<1>3. PICK c, q, r : c = th[t].sending /\ q = [th[t] EXCEPT !.cls = c] /\ r = Load(q)
  OBVIOUS
<1>4. q \in ThreadType /\ q.cls = c /\ q.sending = c /\ q.sel = th[t].sel /\ c \in Classes
  BY <1>1, <1>2, <1>3 DEF ThreadType
<1>5. Load(q) \in ThreadType /\ Load(q).pc = "buckets" /\ Load(q).mask = mask[q.cls]
      /\ Load(q).cls = q.cls /\ Load(q).sending = q.sending /\ Load(q).sel = q.sel
  BY <1>1, <1>4, LoadIs
<1>6. r \in ThreadType /\ r.pc = "buckets" /\ r.mask = mask[c] /\ r.cls = c /\ r.sending = c /\ r.sel = th[t].sel
  BY <1>3, <1>4, <1>5
<1>7. th' = [th EXCEPT ![t] = r] /\ writing = NoThread /\ reading' = reading \cup {t}
      /\ UNCHANGED <<program, writing, lock, caches, memory, may>>
  BY <1>3 DEF LockRead
<1>8. Message(t) = <<r.cls, r.sel>>
  BY <1>3, <1>6 DEF Message
<1> QED
  BY <1>1, <1>3, <1>4, <1>6, <1>7, <1>8, LoadsStep

(* Giving up runtimeLock for the method resolver keeps the invariant.      *)
LEMMA ResolveStep ==
  ASSUME IInv, NEW t \in Threads, Resolve(t)
  PROVE  IInv'
<1>1. th[t] \in ThreadType /\ th[t].pc = "resolve" /\ LocksOf(t) /\ MessageOf(t) /\ AnswerOf(t) /\ Types
  BY Parts DEF Types, Resolve, At
<1>2. PICK r : r = [th[t] EXCEPT !.tried = TRUE, !.pc = "search"]
  OBVIOUS
<1>3. "search" \in Labels
  BY DEF Labels
<1>4. r \in ThreadType /\ r.pc = "search" /\ r.sending = th[t].sending /\ r.sel = th[t].sel
  BY <1>1, <1>2, <1>3 DEF ThreadType
<1>5. th' = [th EXCEPT ![t] = r] /\ reading' = reading \ {t}
      /\ UNCHANGED <<program, writing, lock, caches, memory, may>>
  BY <1>1, <1>2 DEF Resolve, ThreadType, Types
<1>6. th'[t] = r /\ may' = [may EXCEPT ![t] = may[t]] /\ may'[t] = may[t]
  BY <1>1, <1>5 DEF Types
<1>7. lock' = lock /\ writing' = writing /\ methods' = methods /\ before' = before
  BY <1>5 DEF program
<1>8. lock # t /\ writing # t /\ th[t].sending # NoClass
  BY <1>1 DEF LocksOf, Holding
<1>9. LocksOf(t)'
  BY <1>4, <1>5, <1>6, <1>7, <1>8 DEF LocksOf, Holding, Reading, Updating
<1>10. MessageOf(t)'
  BY <1>1, <1>4, <1>5, <1>6 DEF MessageOf, Reading, Updating
<1>11. ReaderOf(t)' /\ ~Scans(t)'
  BY <1>4, <1>6 DEF ReaderOf, Scans
<1>12. AnswerOf(t)'
  <2>1. Message(t)' = Message(t)
    BY <1>4, <1>6 DEF Message
  <2> QED
    BY <1>1, <1>4, <1>5, <1>6, <1>7, <1>8, <2>1 DEF AnswerOf, Reading, Scans, Updating
<1>13. th[t].pc \notin Holding \cup {"flush"} /\ r.pc \notin Holding \cup {"flush"}
  BY <1>1, <1>4 DEF Holding
<1>14. t \notin reading' /\ UNCHANGED <<program, writing, lock, caches, memory>>
  BY <1>5
<1> QED
  BY <1>4, <1>5, <1>6, <1>9, <1>10, <1>11, <1>12, <1>13, <1>14, ReaderStep

(* Calling the implementation keeps the invariant.                         *)
LEMMA DoneStep ==
  ASSUME IInv, NEW t \in Threads, Done(t)
  PROVE  IInv'
<1>1. th[t] \in ThreadType /\ th[t].pc = "done" /\ LocksOf(t) /\ Types
  BY Parts DEF Types, Done, At
<1>2. PICK r : r = Idle
  OBVIOUS
<1>3. r \in ThreadType /\ r.pc = "idle" /\ r.sending = NoClass
  BY <1>2, IdleIs
<1>4. th' = [th EXCEPT ![t] = r] /\ reading' = reading \ {t} /\ may' = [may EXCEPT ![t] = {}]
      /\ UNCHANGED <<program, writing, lock, caches, memory>>
  BY <1>2 DEF Done
<1>5. th'[t] = r
  BY <1>1, <1>4 DEF Types
<1>6. lock # t /\ writing # t
  BY <1>1 DEF LocksOf, Holding
<1>7. LocksOf(t)'
  BY <1>3, <1>4, <1>5, <1>6 DEF LocksOf, Holding, Reading, Updating
<1>8. MessageOf(t)'
  BY <1>3, <1>4, <1>5 DEF MessageOf, Reading, Updating
<1>9. ReaderOf(t)' /\ ~Scans(t)'
  BY <1>3, <1>5 DEF ReaderOf, Scans
<1>10. AnswerOf(t)'
  BY <1>3, <1>4, <1>5 DEF AnswerOf, Reading, Scans, Updating
<1>11. th[t].pc \notin Holding \cup {"flush"} /\ r.pc \notin Holding \cup {"flush"}
  BY <1>1, <1>3 DEF Holding
<1>12. t \notin reading'
  BY <1>4
<1> QED
  BY <1>3, <1>4, <1>7, <1>8, <1>9, <1>10, <1>11, <1>12, ReaderStep

(* Not filling a cache keeps the invariant.                                *)
LEMMA FilledStep ==
  ASSUME IInv, NEW t \in Threads, th[t].pc = "fill", Goto(t, "done"),
         UNCHANGED <<program, locks, caches, memory, may>>
  PROVE  IInv'
<1>1. th[t] \in ThreadType /\ LocksOf(t) /\ MessageOf(t) /\ AnswerOf(t) /\ Types
  BY Parts DEF Types
<1>2. PICK r : r = [th[t] EXCEPT !.pc = "done"]
  OBVIOUS
<1>3. "done" \in Labels
  BY DEF Labels
<1>4. r \in ThreadType /\ r.pc = "done" /\ r.sending = th[t].sending /\ r.sel = th[t].sel /\ r.imp = th[t].imp
  BY <1>1, <1>2, <1>3 DEF ThreadType
<1>5. th' = [th EXCEPT ![t] = r]
  BY <1>1, <1>2 DEF Goto, ThreadType, Types
<1>6. t \in reading /\ th[t].sending \in Classes
  BY <1>1 DEF LocksOf, ThreadType
<1>7. r.imp = Result(methods, Message(t)) /\ r.imp \in may[t]
  BY <1>1, <1>4, <1>6, MethodCacheAssumption DEF AnswerOf, Updating
<1>8. r.imp \in Imps
  BY <1>1, <1>6, <1>7, ResultTyped DEF Message, Types
<1> QED
  BY <1>4, <1>5, <1>7, <1>8, LeavesStep, ImpsAre

(* The end of +initialize keeps the invariant.                             *)
LEMMA SetInitializedStep ==
  ASSUME IInv, NEW t \in Threads, NEW c \in Classes, SetInitialized(t, c)
  PROVE  IInv'
<1>1. /\ initializer' = [initializer EXCEPT ![c] = NoThread]
      /\ methods' = methods /\ before' = before /\ reading' = reading /\ writing' = writing /\ lock' = lock
      /\ buckets' = buckets /\ mask' = mask /\ occupied' = occupied
      /\ slot' = slot /\ cap' = cap /\ live' = live /\ garbage' = garbage /\ emptyBuckets' = emptyBuckets
      /\ th' = th /\ may' = may
  BY DEF SetInitialized, locks, caches, memory
<1>2. Types'
  BY <1>1, Parts DEF Types
<1>3. Locks'
  BY <1>1, Parts DEF Locks, LocksOf
<1>4. Memory'
  BY <1>1, Parts DEF Memory
<1>5. ArraysOwnedOnce'
  BY <1>1, Parts DEF ArraysOwnedOnce
<1>6. ASSUME NEW d \in Classes PROVE CacheOf(d)' /\ FreshIn(d)'
  <2>1. Entries(d)' = Entries(d) /\ Capacity(d)' = Capacity(d)
    BY <1>1 DEF Entries, Capacity
  <2>2. (Moving(d)' <=> Moving(d)) /\ (Flushing(d)' <=> Flushing(d))
    BY <1>1 DEF Moving, Flushing
  <2>3. \A s, i : Reachable(d, s, i)' <=> Reachable(d, s, i)
    BY <1>1, <2>1 DEF Reachable
  <2>4. \A i : Setting(d, i)' <=> Setting(d, i)
    BY <1>1 DEF Setting
  <2>5. SizeOf(d) /\ EntriesOf(d) /\ FreshIn(d)
    BY Parts
  <2>6. SizeOf(d)'
    BY <1>1, <2>1, <2>2, <2>5 DEF SizeOf
  <2>7. EntriesOf(d)'
    BY <2>1, <2>3, <2>4, <2>5 DEF EntriesOf
  <2>8. initializer[d] = NoThread => initializer'[d] = NoThread
    BY <1>1, Parts DEF Types
  <2>9. FreshIn(d)'
    BY <1>1, <2>1, <2>2, <2>5, <2>8 DEF FreshIn
  <2> QED
    BY <2>6, <2>7, <2>9 DEF CacheOf
<1>7. ASSUME NEW u \in Threads PROVE MessageOf(u)' /\ ReaderOf(u)' /\ LooksOf(u)' /\ UpdaterOf(u)' /\ AnswerOf(u)'
  <2>1. MessageOf(u) /\ ReaderOf(u) /\ LooksOf(u) /\ UpdaterOf(u) /\ AnswerOf(u)
    BY Parts
  <2>2. MessageOf(u)' /\ ReaderOf(u)'
    BY <1>1, <2>1 DEF MessageOf, ReaderOf, Scans, Shared
  <2>3. LooksOf(u)'
    BY <1>1, <2>1 DEF LooksOf, Scans
  <2>4. UpdaterOf(u)'
    BY <1>1, <2>1 DEF UpdaterOf, Ready, Shared, Entries, Capacity, Reachable
  <2>5. \A d \in Classes : initializer[d] = NoThread => initializer'[d] = NoThread
    BY <1>1, Parts DEF Types
  <2>6. th[u].pc \in Updating /\ u \in reading => th[u].sending \in Classes
    <3>1. th[u] \in ThreadType /\ LocksOf(u)
      BY Parts DEF Types
    <3> QED
      BY <3>1 DEF ThreadType, LocksOf
  <2>7. AnswerOf(u)'
    BY <1>1, <2>1, <2>5, <2>6 DEF AnswerOf, Scans, Message
  <2> QED
    BY <2>1, <2>2, <2>3, <2>4, <2>7
<1> QED
  BY <1>2, <1>3, <1>4, <1>5, <1>6, <1>7 DEF IInv

(* Whoever updates a cache has the lock, so that another thread neither    *)
(* begins nor sees a change of what it knows of its own step.              *)
LEMMA HolderFrame ==
  ASSUME IInv, NEW t \in Threads, NEW r \in ThreadType, th' = [th EXCEPT ![t] = r],
         lock \in {t, NoThread}, lock' \in {t, NoThread}, reading' = reading,
         \A u \in Threads \ {t} : writing' = u <=> writing = u
  PROVE  /\ th'[t] = r /\ th' \in [Threads -> ThreadType]
         /\ \A u \in Threads : u # t =>
              /\ th'[u] = th[u] /\ th[u].pc \notin Holding
              /\ LocksOf(u)' /\ MessageOf(u)' /\ LooksOf(u)' /\ UpdaterOf(u)'
<1>1. th \in [Threads -> ThreadType]
  BY Parts DEF Types
<1>2. th'[t] = r /\ th' \in [Threads -> ThreadType]
  BY <1>1
<1>3. ASSUME NEW u \in Threads, u # t
      PROVE  /\ th'[u] = th[u] /\ th[u].pc \notin Holding
             /\ LocksOf(u)' /\ MessageOf(u)' /\ LooksOf(u)' /\ UpdaterOf(u)'
  <2>1. th'[u] = th[u]
    BY <1>1, <1>3
  <2>2. LocksOf(u) /\ MessageOf(u)
    BY Parts
  <2>3. lock # u /\ lock' # u /\ (writing' = u <=> writing = u)
    BY <1>3, MethodCacheAssumption
  <2>4. th[u].pc \notin Holding
    BY <2>2, <2>3 DEF LocksOf
  <2>5. LocksOf(u)'
    BY <2>1, <2>2, <2>3 DEF LocksOf
  <2>6. MessageOf(u)'
    BY <2>1, <2>2 DEF MessageOf
  <2>7. LooksOf(u)' /\ UpdaterOf(u)'
    BY <2>1, <2>4 DEF LooksOf, UpdaterOf, Holding
  <2> QED
    BY <2>1, <2>4, <2>5, <2>6, <2>7
<1> QED
  BY <1>2, <1>3

(* What a reader with the array a relies on when the caches change.        *)
KeepsFor(u) ==
  LET a == th[u].array IN
  /\ a \in garbage' \cup Shared' \cup {buckets'[th[u].cls]}
  /\ cap'[a] = cap[a] /\ (a \in Shared' => a \in Shared)
  /\ \A i \in DOMAIN slot[a] : slot[a][i].key = th[u].sel => i \in DOMAIN slot'[a] /\ slot'[a][i].key = th[u].sel
  /\ \A i \in DOMAIN slot'[a] : slot'[a][i].key = th[u].sel =>
       \/ i \in DOMAIN slot[a] /\ slot'[a][i] = slot[a][i]
       \/ /\ u \in reading => slot'[a][i].imp = Result(methods, <<th[u].cls, th[u].sel>>)
          /\ u \notin reading => slot'[a][i].imp \in may[u]

(* A reader goes on undisturbed while its array keeps the entries of its   *)
(* selector, or gets one that answers its message.                         *)
LEMMA ReadersFrame ==
  ASSUME IInv, NEW u \in Threads, th'[u] = th[u], may' = may, reading' = reading,
         methods' = methods, before' = before \/ before' = methods, initializer' = initializer,
         \A c \in Classes : mask'[c] \in Nat /\ mask[c] <= mask'[c],
         Scans(u) => KeepsFor(u)
  PROVE  ReaderOf(u)' /\ AnswerOf(u)'
<1>1. th[u] \in ThreadType /\ LocksOf(u) /\ MessageOf(u) /\ ReaderOf(u) /\ AnswerOf(u) /\ Types
  BY Parts DEF Types
<1>2. Scans(u)' <=> Scans(u)
  BY DEF Scans
<1>3. ReaderOf(u)'
  <2>1. th[u].pc = "buckets" => th[u].mask <= mask'[th[u].cls]
    <3>1. th[u].pc = "buckets" => th[u].cls \in Classes /\ th[u].mask \in Nat /\ mask[th[u].cls] \in Nat
      BY <1>1 DEF MessageOf, Reading, ThreadType, Types
    <3> QED
      BY <1>1, <3>1 DEF ReaderOf
  <2>2. Scans(u) => /\ th[u].array \in garbage' \cup Shared' \cup {buckets'[th[u].cls]}
                    /\ th[u].i <= cap'[th[u].array]
                    /\ (th[u].array \in Shared' => th[u].i < cap'[th[u].array])
    BY <1>1 DEF ReaderOf, KeepsFor
  <2>3. th[u].pc = "imp" => th[u].i \in DOMAIN slot'[th[u].array] /\ slot'[th[u].array][th[u].i].key = th[u].sel
    BY <1>1 DEF ReaderOf, KeepsFor, Scans
  <2> QED
    BY <1>2, <2>1, <2>2, <2>3 DEF ReaderOf
<1>4. AnswerOf(u)'
  <2>1. Message(u)' = Message(u)
    BY DEF Message
  <2>2. th[u].sending # NoClass => Result(methods, Message(u)) \in may[u] /\ Result(before', Message(u)) \in may[u]
    BY <1>1 DEF AnswerOf
  <2>3. Scans(u) => \A i \in DOMAIN slot'[th[u].array] :
            slot'[th[u].array][i].key = th[u].sel =>
               /\ u \in reading => slot'[th[u].array][i].imp = Result(methods, <<th[u].cls, th[u].sel>>)
               /\ u \notin reading => slot'[th[u].array][i].imp \in may[u]
    BY <1>1 DEF AnswerOf, KeepsFor
  <2>4. /\ u \in reading /\ th[u].pc \in Reading =>
             Result(methods, Message(u)) = Result(methods, <<th[u].cls, th[u].sel>>)
        /\ u \in reading /\ th[u].pc \in Updating => th[u].imp = Result(methods, Message(u))
        /\ u \in reading /\ th[u].pc \in Updating \ {"fill"} => initializer[th[u].sending] = NoThread
        /\ th[u].pc = "done" => th[u].imp \in may[u] /\ th[u].imp # NoImp
    BY <1>1 DEF AnswerOf
  <2> QED
    BY <1>2, <2>1, <2>2, <2>3, <2>4 DEF AnswerOf
<1> QED
  BY <1>3, <1>4

(* What is said of a cache whose buckets do not change still holds.        *)
LEMMA CacheFrame ==
  ASSUME IInv, NEW d \in Classes, Entries(d)' = Entries(d), buckets'[d] = buckets[d], mask'[d] = mask[d],
         occupied'[d] = occupied[d], cap'[buckets[d]] = cap[buckets[d]], Moving(d)' <=> Moving(d),
         \A i : Setting(d, i) => Setting(d, i)'
  PROVE  CacheOf(d)'
<1>1. SizeOf(d) /\ EntriesOf(d)
  BY Parts
<1>2. Capacity(d)' = Capacity(d)
  BY DEF Capacity
<1>3. \A s, i : Reachable(d, s, i)' <=> Reachable(d, s, i)
  BY DEF Reachable
<1>4. SizeOf(d)'
  BY <1>1, <1>2 DEF SizeOf
<1>5. EntriesOf(d)'
  BY <1>1, <1>3 DEF EntriesOf
<1> QED
  BY <1>4, <1>5 DEF CacheOf

(* A cache that does not change stays fresh while the methods do not       *)
(* change.                                                                 *)
LEMMA FreshFrame ==
  ASSUME IInv, NEW d \in Classes, Entries(d)' = Entries(d), methods' = methods, before' = before,
         initializer' = initializer, Flushing(d) => Flushing(d)' \/ DOMAIN Entries(d) = {}
  PROVE  FreshIn(d)'
<1>1. FreshIn(d)
  BY Parts
<1> QED
  BY <1>1 DEF FreshIn

(* A step of the thread that has the lock, or takes it, that changes no    *)
(* cache.                                                                  *)
LEMMA HolderStep ==
  ASSUME IInv, NEW t \in Threads, NEW r \in ThreadType, th' = [th EXCEPT ![t] = r],
         lock \in {t, NoThread}, lock' \in {t, NoThread},
         UNCHANGED <<program, reading, writing, caches, memory, may>>,
         th[t].pc \notin {"setmask", "setkey"}, r.pc \notin {"setmask", "setkey"},
         \A c \in Classes : c \in th[t].todo \ r.todo /\ writing = t => DOMAIN Entries(c) = {},
         LocksOf(t)', MessageOf(t)', ReaderOf(t)', LooksOf(t)', UpdaterOf(t)', AnswerOf(t)'
  PROVE  IInv'
<1>1. /\ methods' = methods /\ before' = before /\ reading' = reading /\ writing' = writing
      /\ initializer' = initializer /\ buckets' = buckets /\ mask' = mask /\ occupied' = occupied
      /\ slot' = slot /\ cap' = cap /\ live' = live /\ garbage' = garbage /\ emptyBuckets' = emptyBuckets
      /\ may' = may
  BY DEF program, caches, memory
<1>2. /\ th'[t] = r /\ th' \in [Threads -> ThreadType]
      /\ \A u \in Threads : u # t =>
           /\ th'[u] = th[u] /\ th[u].pc \notin Holding
           /\ LocksOf(u)' /\ MessageOf(u)' /\ LooksOf(u)' /\ UpdaterOf(u)'
  BY <1>1, HolderFrame
<1>3. Types'
  BY <1>1, <1>2, Parts DEF Types
<1>4. Locks'
  <2>1. \A u \in Threads : LocksOf(u)'
    BY <1>2
  <2>2. (writing # NoThread => reading = {}) /\ (writing = NoThread => before = methods)
    BY Parts DEF Locks
  <2> QED
    BY <1>1, <2>1, <2>2 DEF Locks
<1>5. Memory'
  BY <1>1, Parts DEF Memory
<1>6. ArraysOwnedOnce'
  BY <1>1, Parts DEF ArraysOwnedOnce
<1>7. ASSUME NEW d \in Classes PROVE CacheOf(d)' /\ FreshIn(d)'
  <2>1. Entries(d)' = Entries(d)
    BY <1>1 DEF Entries
  <2>2. ~Moving(d) /\ ~Moving(d)' /\ \A i : ~Setting(d, i)
    BY <1>2, MethodCacheAssumption DEF Moving, Setting
  <2>3. Flushing(d) => Flushing(d)' \/ DOMAIN Entries(d) = {}
    <3>1. ASSUME NEW u \in Threads, writing = u, d \in th[u].todo, DOMAIN Entries(d) # {}
          PROVE  writing' = u /\ d \in th'[u].todo
      <4>1. CASE u = t
        BY <1>1, <1>2, <3>1, <4>1
      <4>2. CASE u # t
        BY <1>1, <1>2, <3>1, <4>2
      <4> QED
        BY <4>1, <4>2
    <3> QED
      BY <3>1 DEF Flushing
  <2>4. CacheOf(d)'
    BY <1>1, <2>1, <2>2, CacheFrame
  <2>5. FreshIn(d)'
    BY <1>1, <2>1, <2>3, FreshFrame
  <2> QED
    BY <2>4, <2>5
<1>8. ASSUME NEW u \in Threads, u # t PROVE ReaderOf(u)' /\ AnswerOf(u)'
  <2>1. \A c \in Classes : mask'[c] \in Nat /\ mask[c] <= mask'[c]
    BY <1>1, Parts DEF Types
  <2>2. Scans(u) => KeepsFor(u)
    <3>1. ReaderOf(u)
      BY Parts
    <3> QED
      BY <1>1, <3>1 DEF ReaderOf, KeepsFor, Shared
  <2>3. th'[u] = th[u]
    BY <1>2, <1>8
  <2> QED
    BY <1>1, <2>1, <2>2, <2>3, ReadersFrame
<1>9. ASSUME NEW u \in Threads
      PROVE  MessageOf(u)' /\ ReaderOf(u)' /\ LooksOf(u)' /\ UpdaterOf(u)' /\ AnswerOf(u)'
  BY <1>2, <1>8
<1> QED
  BY <1>3, <1>4, <1>5, <1>6, <1>7, <1>9 DEF IInv

(* Outside a replacement, the buckets that caches share are just those     *)
(* that the code recognizes as constant and empty.                         *)
LEMMA EmptyIs ==
  ASSUME IInv, NEW c \in Classes, ~Moving(c)
  PROVE  ConstantEmpty(c) <=> buckets[c] \in Shared
<1>1. SizeOf(c) /\ Memory /\ Types
  BY Parts
<1>2. mask[c] \in Nat /\ buckets[c] \in Arrays \cup {Static} /\ occupied[c] = Cardinality(DOMAIN slot[buckets[c]])
      /\ (buckets[c] = Static => Capacity(c) <= EmptyCapacity)
      /\ (buckets[c] # Static => cap[buckets[c]] = Capacity(c))
  BY <1>1 DEF SizeOf, Types, Entries
<1>3. Capacity(c) \in Nat /\ EmptyCapacity \in Nat
  BY <1>2, MethodCacheAssumption DEF Capacity
<1>4. ConstantEmpty(c) => buckets[c] \in Shared
  BY DEF ConstantEmpty, EmptyFor, Shared
<1>5. ASSUME buckets[c] \in Shared PROVE ConstantEmpty(c)
  <2>1. DOMAIN slot[buckets[c]] = {}
    <3>1. Static \notin live
      BY Parts, LiveAre
    <3> QED
      BY <1>1, <1>5, <3>1 DEF Memory, Shared
  <2>2. occupied[c] = 0
    BY <1>2, <2>1, FS_EmptySet
  <2>3. CASE buckets[c] = Static
    BY <1>2, <2>2, <2>3 DEF ConstantEmpty, EmptyFor
  <2>4. CASE buckets[c] # Static
    <3>1. buckets[c] = emptyBuckets /\ Capacity(c) > EmptyCapacity
      BY <1>1, <1>2, <1>5, <2>4 DEF Shared, Memory
    <3>2. ~(Capacity(c) <= EmptyCapacity)
      BY <1>3, <3>1
    <3> QED
      BY <2>2, <3>1, <3>2 DEF ConstantEmpty, EmptyFor
  <2> QED
    BY <2>3, <2>4
<1> QED
  BY <1>4, <1>5

(* No buckets are being replaced unless the holder of the lock is at it.   *)
LEMMA NotMoving ==
  ASSUME lock = NoThread \/ \E t \in Threads : lock = t /\ th[t].pc # "setmask", NEW c
  PROVE  ~Moving(c)
<1> QED
  BY MethodCacheAssumption DEF Moving

(* A key that is not there is found nowhere.                               *)
LEMMA HasNoEntry ==
  ASSUME IInv, NEW c \in Classes, lock = NoThread, NEW s \in Selectors, ~HasEntry(c, s)
  PROVE  \A i \in DOMAIN Entries(c) : Entries(c)[i].key # s
<1> SUFFICES ASSUME NEW i \in DOMAIN Entries(c), Entries(c)[i].key = s PROVE FALSE
  OBVIOUS
<1>1. EntriesOf(c) /\ s # 0 /\ mask[c] \in Nat
  BY Parts, SelectorsAre DEF Types
<1>2. \A j \in DOMAIN Entries(c) : Entries(c)[j].key # 0
  BY <1>1, MethodCacheAssumption DEF EntriesOf, Setting
<1>3. Reachable(c, s, i)
  BY <1>1 DEF EntriesOf
<1>4. PICK n \in 0..mask[c] : i = Probe(s, mask[c], n) /\ \A k \in 0..n - 1 : Probe(s, mask[c], k) \in DOMAIN Entries(c)
  BY <1>3 DEF Reachable
<1>5. \A j \in DOMAIN Entries(c) : Key(c, j) = Entries(c)[j].key
  BY DEF Key, Entries
<1>6. PICK N : N = {k \in 0..n : Key(c, Probe(s, mask[c], k)) \in {0, s}}
  OBVIOUS
<1>7. n \in N /\ N \subseteq Nat
  BY <1>1, <1>4, <1>5, <1>6
<1>8. PICK k \in N : \A l \in N : k <= l
  BY <1>7, SmallestOne
<1>9. k \in 0..mask[c] /\ k \in 0..n
  BY <1>1, <1>6
<1>10. Key(c, Probe(s, mask[c], k)) = s
  <2>1. CASE k = n
    BY <1>4, <1>5, <2>1
  <2>2. CASE k # n
    <3>1. k \in 0..n - 1
      BY <1>1, <1>9, <2>2
    <3>2. Probe(s, mask[c], k) \in DOMAIN Entries(c)
      BY <1>4, <3>1
    <3> QED
      BY <1>2, <1>5, <1>6, <3>2
  <2> QED
    BY <2>1, <2>2
<1>11. \A l \in 0..k - 1 : Key(c, Probe(s, mask[c], l)) \notin {0, s}
  <2>1. ASSUME NEW l \in 0..k - 1 PROVE l \notin N /\ l \in 0..n
    BY <1>1, <1>8, <1>9
  <2> QED
    BY <1>6, <2>1
<1>12. Probe(s, mask[c], k) \in Find(c, s)
  BY <1>6, <1>9, <1>11 DEF Find
<1> QED
  BY <1>10, <1>12 DEF HasEntry

(* Beginning to insert into a cache with room keeps the invariant.         *)
LEMMA FillRoomStep ==
  ASSUME IInv, NEW t \in Threads, th[t].pc = "fill", lock = NoThread, lock' = t,
         initializer[th[t].sending] = NoThread, ~HasEntry(th[t].sending, th[t].sel),
         ~ConstantEmpty(th[t].sending),
         occupied[th[t].sending] + 1 <= (Capacity(th[t].sending) \div 4) * 3,
         th' = [th EXCEPT ![t].pc = "insert"],
         UNCHANGED <<program, reading, writing, caches, memory, may>>
  PROVE  IInv'
<1>1. th[t] \in ThreadType /\ LocksOf(t) /\ MessageOf(t) /\ AnswerOf(t) /\ Types
  BY Parts DEF Types
<1>2. PICK r : r = [th[t] EXCEPT !.pc = "insert"]
  OBVIOUS
<1>3. "insert" \in Labels
  BY DEF Labels
<1>4. r \in ThreadType /\ r.pc = "insert" /\ r.sending = th[t].sending /\ r.sel = th[t].sel /\ r.imp = th[t].imp
      /\ r.cls = th[t].cls /\ r.todo = th[t].todo
  BY <1>1, <1>2, <1>3 DEF ThreadType
<1>5. th' = [th EXCEPT ![t] = r] /\ th'[t] = r
  BY <1>1, <1>2 DEF ThreadType, Types
<1>6. t \in reading /\ th[t].sending \in Classes /\ th[t].cls = th[t].sending /\ th[t].sel \in Selectors /\ writing # t
  BY <1>1 DEF LocksOf, MessageOf, ThreadType, Updating
<1>7. /\ methods' = methods /\ before' = before /\ reading' = reading /\ writing' = writing
      /\ initializer' = initializer /\ buckets' = buckets /\ mask' = mask /\ occupied' = occupied
      /\ slot' = slot /\ cap' = cap /\ live' = live /\ garbage' = garbage /\ emptyBuckets' = emptyBuckets
      /\ may' = may
  BY DEF program, caches, memory
<1>8. LocksOf(t)'
  BY <1>1, <1>4, <1>5, <1>6, <1>7 DEF LocksOf, Holding, Reading, Updating
<1>9. MessageOf(t)'
  BY <1>1, <1>4, <1>5, <1>6, <1>7 DEF MessageOf, Reading, Updating
<1>10. ReaderOf(t)' /\ LooksOf(t)'
  BY <1>4, <1>5 DEF ReaderOf, Scans, LooksOf
<1>11. UpdaterOf(t)'
  <2>1. PICK c, s : c = th[t].sending /\ s = th[t].sel
    OBVIOUS
  <2>2. buckets[c] \notin Shared
    BY <1>6, <2>1, EmptyIs, NotMoving
  <2>3. \A i \in DOMAIN Entries(c) : Entries(c)[i].key # s
    BY <1>6, <2>1, HasNoEntry
  <2>4. Ready(c, s)
    BY <2>1, <2>2, <2>3 DEF Ready
  <2>5. Ready(c, s)'
    BY <1>7, <2>4 DEF Ready, Entries, Capacity, Shared
  <2> QED
    BY <1>4, <1>5, <1>6, <2>1, <2>5 DEF UpdaterOf
<1>12. AnswerOf(t)'
  <2>1. Message(t)' = Message(t)
    BY <1>4, <1>5 DEF Message
  <2> QED
    BY <1>1, <1>4, <1>5, <1>6, <1>7, <2>1 DEF AnswerOf, Reading, Scans, Updating
<1> QED
  BY <1>4, <1>5, <1>8, <1>9, <1>10, <1>11, <1>12, HolderStep

(* Taking cacheUpdateLock to flush keeps the invariant.                    *)
LEMMA LockFlushStep ==
  ASSUME IInv, NEW t \in Threads, LockFlush(t)
  PROVE  IInv'
<1>1. th[t] \in ThreadType /\ th[t].pc = "flush" /\ LocksOf(t) /\ MessageOf(t) /\ AnswerOf(t) /\ Types
  BY Parts DEF Types, LockFlush, At
<1>2. PICK r : r = [th[t] EXCEPT !.pc = "erase"]
  OBVIOUS
<1>3. "erase" \in Labels
  BY DEF Labels
<1>4. r \in ThreadType /\ r.pc = "erase" /\ r.sending = th[t].sending /\ r.todo = th[t].todo
  BY <1>1, <1>2, <1>3 DEF ThreadType
<1>5. th' = [th EXCEPT ![t] = r] /\ th'[t] = r
  BY <1>1, <1>2 DEF ThreadType, Types, LockFlush, Goto
<1>6. lock = NoThread /\ lock' = t /\ UNCHANGED <<program, reading, writing, caches, memory, may>>
      /\ reading' = reading /\ writing' = writing
  BY DEF LockFlush
<1>7. writing = t /\ th[t].sending = NoClass /\ t \notin reading
  BY <1>1 DEF LocksOf, Reading, Updating
<1>8. LocksOf(t)'
  BY <1>4, <1>5, <1>6, <1>7 DEF LocksOf, Holding, Reading, Updating
<1>9. MessageOf(t)' /\ ReaderOf(t)' /\ LooksOf(t)' /\ UpdaterOf(t)'
  BY <1>4, <1>5, <1>6, <1>7 DEF MessageOf, Reading, Updating, ReaderOf, Scans, LooksOf, UpdaterOf
<1>10. AnswerOf(t)'
  BY <1>4, <1>5, <1>6, <1>7 DEF AnswerOf, Scans
<1> QED
  BY <1>1, <1>4, <1>5, <1>6, <1>8, <1>9, <1>10, HolderStep

(* Beginning to collect garbage keeps the invariant.                       *)
LEMMA CollectALotStep ==
  ASSUME IInv, NEW t \in Threads, CollectALot(t)
  PROVE  IInv'
<1>1. th[t] \in ThreadType /\ th[t].pc = "collect" /\ LocksOf(t) /\ Types
  BY Parts DEF Types, CollectALot, At
<1>2. PICK r : r = [th[t] EXCEPT !.pc = "look", !.unseen = Threads \ {t}]
  OBVIOUS
<1>3. "look" \in Labels
  BY DEF Labels
<1>4. r \in ThreadType /\ r.pc = "look" /\ r.sending = th[t].sending /\ r.todo = th[t].todo /\ r.unseen = Threads \ {t}
  BY <1>1, <1>2, <1>3 DEF ThreadType
<1>5. th' = [th EXCEPT ![t] = r] /\ th'[t] = r
  BY <1>1, <1>2 DEF ThreadType, Types, CollectALot
<1>6. lock = NoThread /\ lock' = t /\ UNCHANGED <<program, reading, writing, caches, memory, may>>
      /\ reading' = reading /\ writing' = writing
  BY DEF CollectALot
<1>7. writing # t /\ th[t].sending = NoClass /\ t \notin reading
  BY <1>1 DEF LocksOf, Reading, Updating
<1>8. LocksOf(t)'
  BY <1>4, <1>5, <1>6, <1>7 DEF LocksOf, Holding, Reading, Updating
<1>9. MessageOf(t)' /\ ReaderOf(t)' /\ UpdaterOf(t)'
  BY <1>4, <1>5, <1>6, <1>7 DEF MessageOf, Reading, Updating, ReaderOf, Scans, UpdaterOf
<1>10. LooksOf(t)'
  BY <1>4, <1>5 DEF LooksOf, Scans
<1>11. AnswerOf(t)'
  BY <1>4, <1>5, <1>6, <1>7 DEF AnswerOf, Scans
<1> QED
  BY <1>1, <1>4, <1>5, <1>6, <1>7, <1>8, <1>9, <1>10, <1>11, HolderStep

(* Looking at a thread keeps the invariant: one that is seen outside a     *)
(* reader cannot come to garbage any more.                                 *)
LEMMA LookStep ==
  ASSUME IInv, NEW t \in Threads, NEW u \in Threads, Look(t, u)
  PROVE  IInv'
<1>1. PICK me : me = th[t]
  OBVIOUS
<1>2. /\ me \in ThreadType /\ me.pc = "look" /\ LocksOf(t) /\ MessageOf(t) /\ AnswerOf(t) /\ LooksOf(t)
      /\ UpdaterOf(t) /\ Types
  BY <1>1, Parts DEF Types, Look, At
<1>3. lock = t /\ lock' = lock /\ reading' = reading /\ writing' = writing /\ UNCHANGED <<program, reading, writing, caches, memory, may>>
  BY <1>1, <1>2 DEF LocksOf, Holding, Look, locks
<1>4. /\ methods' = methods /\ before' = before /\ initializer' = initializer /\ buckets' = buckets
      /\ mask' = mask /\ occupied' = occupied
      /\ slot' = slot /\ cap' = cap /\ live' = live /\ garbage' = garbage /\ emptyBuckets' = emptyBuckets
      /\ may' = may
  BY <1>3 DEF program, caches, memory
<1>5. ASSUME NEW r \in ThreadType, r.pc = "look", r.sending = me.sending, r.sel = me.sel, r.cls = me.cls,
             r.imp = me.imp, r.todo = me.todo, (r.unseen = me.unseen \ {u} /\ ~InReader(u)) \/ r.unseen = Threads \ {t},
             th' = [th EXCEPT ![t] = r]
      PROVE  IInv'
  <2>1. th'[t] = r /\ \A v \in Threads : v # t => th'[v] = th[v]
    BY <1>2, <1>5 DEF Types
  <2>2. LocksOf(t)'
    BY <1>1, <1>2, <1>3, <1>5, <2>1 DEF LocksOf, Holding, Reading, Updating
  <2>3. MessageOf(t)' /\ ReaderOf(t)'
    BY <1>1, <1>2, <1>3, <1>5, <2>1 DEF MessageOf, Reading, Updating, ReaderOf, Scans
  <2>4. LooksOf(t)'
    <3>1. ASSUME NEW v \in Threads \ r.unseen, Scans(v)' PROVE th'[v].array \notin garbage
      <4>1. v # t
        BY <1>5, <2>1, <3>1 DEF Scans
      <4>2. th'[v] = th[v] /\ Scans(v)
        BY <2>1, <3>1, <4>1 DEF Scans
      <4>3. v \notin me.unseen
        BY <1>5, <3>1, <4>1, <4>2 DEF InReader, Scans
      <4> QED
        BY <1>1, <1>2, <4>2, <4>3 DEF LooksOf
    <3> QED
      BY <1>4, <1>5, <2>1, <3>1 DEF LooksOf
  <2>5. UpdaterOf(t)'
    <3>1. t \in reading => Ready(me.cls, me.sel)
      BY <1>1, <1>2 DEF UpdaterOf
    <3>2. t \in reading => Ready(me.cls, me.sel)'
      BY <1>1, <1>4, <3>1, <2>1 DEF Ready, Entries, Capacity, Shared
    <3> QED
      BY <1>3, <1>5, <2>1, <3>2 DEF UpdaterOf
  <2>6. AnswerOf(t)'
    <3>1. Message(t)' = Message(t)
      BY <1>1, <1>5, <2>1 DEF Message
    <3> QED
      BY <1>1, <1>2, <1>3, <1>4, <1>5, <2>1, <3>1 DEF AnswerOf, Reading, Scans, Updating
  <2> QED
    BY <1>1, <1>2, <1>3, <1>5, <2>2, <2>3, <2>4, <2>5, <2>6, HolderStep
<1>6. CASE ~InReader(u)
  <2>1. PICK r : r = [me EXCEPT !.unseen = me.unseen \ {u}]
    OBVIOUS
  <2>2. r \in ThreadType /\ r.pc = "look" /\ r.sending = me.sending /\ r.sel = me.sel /\ r.cls = me.cls
        /\ r.imp = me.imp /\ r.todo = me.todo /\ r.unseen = me.unseen \ {u}
    BY <1>2, <2>1 DEF ThreadType
  <2>3. th' = [th EXCEPT ![t] = r]
    <3>1. th' = [th EXCEPT ![t] = [th[t] EXCEPT !.unseen = th[t].unseen \ {u}]]
      BY <1>2, <1>6 DEF Look, Types
    <3> QED
      BY <1>1, <2>1, <3>1
  <2> QED
    BY <1>5, <1>6, <2>2, <2>3
<1>7. CASE InReader(u) /\ CollectsALot(t)
  <2>1. PICK r : r = [me EXCEPT !.unseen = Threads \ {t}]
    OBVIOUS
  <2>2. r \in ThreadType /\ r.pc = "look" /\ r.sending = me.sending /\ r.sel = me.sel /\ r.cls = me.cls
        /\ r.imp = me.imp /\ r.todo = me.todo /\ r.unseen = Threads \ {t}
    BY <1>2, <2>1 DEF ThreadType
  <2>3. th' = [th EXCEPT ![t] = r]
    BY <1>1, <1>2, <1>7, <2>1 DEF Look, Types
  <2> QED
    BY <1>5, <2>2, <2>3
<1>8. CASE InReader(u) /\ ~CollectsALot(t)
  <2>1. PICK l, r : l = Replaced(t) /\ r = Leave(me, l)
    OBVIOUS
  <2>2. th' = [th EXCEPT ![t] = r]
    BY <1>1, <1>2, <1>8, <2>1 DEF Look, Types
  <2>3. th'[t] = r
    BY <1>2, <2>2 DEF Types
  <2>4. \/ l = "erase" /\ writing = t /\ t \notin reading /\ me.sending = NoClass
        \/ l = "insert" /\ writing # t /\ t \in reading /\ me.sending # NoClass
    <3>1. writing = t => t \notin reading
      BY Parts, MethodCacheAssumption DEF Locks
    <3> QED
      BY <1>1, <1>2, <1>8, <2>1, <3>1 DEF Replaced, CollectsALot, Searching, LocksOf
  <2>5. "erase" \in Labels /\ "insert" \in Labels
    BY DEF Labels
  <2>6. r \in ThreadType /\ r.pc = l /\ r.sending = me.sending /\ r.sel = me.sel /\ r.imp = me.imp /\ r.todo = me.todo
        /\ (l = "insert" => r.cls = me.cls)
    BY <1>2, <2>1, <2>4, <2>5, LeaveIs
  <2>7. LocksOf(t)'
    BY <1>1, <1>2, <1>3, <2>3, <2>4, <2>6 DEF LocksOf, Holding, Reading, Updating
  <2>8. MessageOf(t)' /\ ReaderOf(t)' /\ LooksOf(t)'
    BY <1>1, <1>2, <1>3, <2>3, <2>4, <2>6 DEF MessageOf, Reading, Updating, ReaderOf, Scans, LooksOf
  <2>9. UpdaterOf(t)'
    <3>1. t \in reading => Ready(me.cls, me.sel)
      BY <1>1, <1>2 DEF UpdaterOf
    <3>2. t \in reading => Ready(me.cls, me.sel)'
      BY <1>1, <1>4, <3>1, <2>3 DEF Ready, Entries, Capacity, Shared
    <3> QED
      BY <1>3, <2>3, <2>4, <2>6, <3>2 DEF UpdaterOf
  <2>10. AnswerOf(t)'
    <3>1. Message(t)' = Message(t)
      BY <1>1, <2>3, <2>6 DEF Message
    <3> QED
      BY <1>1, <1>2, <1>3, <1>4, <2>3, <2>4, <2>6, <3>1 DEF AnswerOf, Reading, Scans, Updating
  <2> QED
    BY <1>1, <1>2, <1>3, <2>2, <2>4, <2>6, <2>7, <2>8, <2>9, <2>10, HolderStep
<1> QED
  BY <1>6, <1>7, <1>8

(* Passing over a cache that is empty keeps the invariant.                 *)
LEMMA EraseNothingStep ==
  ASSUME IInv, NEW t \in Threads, NEW c \in Classes, th[t].pc = "erase",
         Capacity(c) = 0 \/ occupied[c] = 0, th' = [th EXCEPT ![t].todo = @ \ {c}],
         UNCHANGED <<program, locks, caches, memory, may>>
  PROVE  IInv'
<1>1. PICK me : me = th[t]
  OBVIOUS
<1>2. me \in ThreadType /\ me.pc = "erase" /\ LocksOf(t) /\ Types
  BY <1>1, Parts DEF Types
<1>3. lock = t /\ lock' = lock /\ reading' = reading /\ writing' = writing /\ UNCHANGED <<program, reading, writing, caches, memory, may>>
  BY <1>1, <1>2 DEF LocksOf, Holding, locks
<1>4. PICK r : r = [me EXCEPT !.todo = @ \ {c}]
  OBVIOUS
<1>5. r \in ThreadType /\ r.pc = "erase" /\ r.sending = me.sending /\ r.sel = me.sel /\ r.cls = me.cls
      /\ r.todo = me.todo \ {c}
  BY <1>2, <1>4 DEF ThreadType
<1>6. th' = [th EXCEPT ![t] = r] /\ th'[t] = r
  BY <1>1, <1>2, <1>4 DEF Types
<1>7. writing = t /\ me.sending = NoClass /\ t \notin reading
  BY <1>1, <1>2 DEF LocksOf, Reading, Updating
<1>8. LocksOf(t)'
  BY <1>3, <1>5, <1>6, <1>7 DEF LocksOf, Holding, Reading, Updating
<1>9. MessageOf(t)' /\ ReaderOf(t)' /\ LooksOf(t)' /\ UpdaterOf(t)'
  BY <1>3, <1>5, <1>6, <1>7 DEF MessageOf, Reading, Updating, ReaderOf, Scans, LooksOf, UpdaterOf
<1>10. AnswerOf(t)'
  BY <1>3, <1>5, <1>6, <1>7 DEF AnswerOf, Scans
<1>11. DOMAIN Entries(c) = {}
  <2>1. SizeOf(c) /\ ~Moving(c) /\ Memory
    BY <1>1, <1>2, <1>3, Parts, NotMoving
  <2>2. occupied[c] \in Nat /\ mask[c] \in Nat /\ buckets[c] \in Arrays \cup {Static} /\ cap[buckets[c]] \in Nat
    BY <1>2 DEF Types
  <2>3. 4 * occupied[c] <= 3 * Capacity(c) /\ occupied[c] = Cardinality(DOMAIN Entries(c))
    BY <2>1 DEF SizeOf
  <2>4. occupied[c] = 0
    BY <2>2, <2>3
  <2>5. DOMAIN Entries(c) \subseteq 0..cap[buckets[c]] - 1
    BY <2>1, <2>2 DEF Memory, Entries
  <2>6. IsFiniteSet(DOMAIN Entries(c))
    <3>1. PICK n \in Int : n = cap[buckets[c]] - 1
      BY <2>2
    <3>2. IsFiniteSet(0..n)
      <4>1. PICK o \in Int : o = 0
        OBVIOUS
      <4>2. IsFiniteSet(o..n)
        BY FS_Interval, ZenonT(60)
      <4> QED
        BY <4>1, <4>2
    <3> QED
      BY <2>5, <3>1, <3>2, FS_Subset
  <2> QED
    BY <2>3, <2>4, <2>6, FS_EmptySet
<1>12. \A d \in Classes : d \in th[t].todo \ r.todo /\ writing = t => DOMAIN Entries(d) = {}
  BY <1>1, <1>5, <1>11
<1> QED
  BY <1>1, <1>2, <1>3, <1>5, <1>6, <1>8, <1>9, <1>10, <1>12, HolderStep

(* ArraysOwnedOnce in terms of the arrays.                                 *)
Owned ==
  /\ \A a \in Arrays : a \in live <=> (\E c \in Classes : a = buckets[c]) \/ a = emptyBuckets \/ a \in garbage
  /\ garbage \subseteq Arrays /\ emptyBuckets \notin garbage
  /\ \A c \in Classes : buckets[c] \notin garbage
  /\ \A c, d \in Classes : buckets[c] = buckets[d] /\ c # d => buckets[c] \in Shared

(* The two say the same.                                                   *)
LEMMA OwnedIs == Types => (ArraysOwnedOnce <=> Owned)
<1> SUFFICES ASSUME Types PROVE ArraysOwnedOnce <=> Owned
  OBVIOUS
<1>1. ArraysOwnedOnce => Owned
  <2> SUFFICES ASSUME ArraysOwnedOnce PROVE Owned
    OBVIOUS
  <2>1. garbage \subseteq live
    BY DEF ArraysOwnedOnce
  <2> QED
    BY <2>1, LiveAre, MethodCacheAssumption DEF Owned, Types
<1>2. Owned => ArraysOwnedOnce
  <2> SUFFICES ASSUME Owned PROVE ArraysOwnedOnce
    OBVIOUS
  <2>1. \A a : a \in Range(buckets) <=> \E c \in Classes : a = buckets[c]
    BY DEF Types, Range
  <2>2. live \subseteq Arrays /\ \A c \in Classes : buckets[c] \in Arrays \cup {Static}
    BY DEF Types
  <2>3. emptyBuckets \in Arrays \cup {Static} /\ Static \notin Arrays
    BY MethodCacheAssumption DEF Types
  <2>4. live = ((Range(buckets) \cup {emptyBuckets}) \ {Static}) \cup garbage
    <3>1. ASSUME NEW a PROVE a \in live <=> a \in ((Range(buckets) \cup {emptyBuckets}) \ {Static}) \cup garbage
      BY <2>1, <2>2, <2>3 DEF Owned
    <3> QED
      BY <3>1
  <2>5. garbage \cap (Range(buckets) \cup {emptyBuckets}) = {}
    BY <2>1 DEF Owned
  <2>6. \A c, d \in Classes : buckets[c] = buckets[d] /\ c # d => buckets[c] \in {Static, emptyBuckets}
    BY DEF Owned, Shared
  <2> QED
    BY <2>4, <2>5, <2>6 DEF ArraysOwnedOnce
<1> QED
  BY <1>1, <1>2

(* They do after a step.                                                   *)
LEMMA OwnedNext == Types' => (ArraysOwnedOnce' <=> Owned')
<1> QED
  BY OwnedIs, PTL

(* Storing the mask keeps the invariant.                                   *)
LEMMA SetMaskStep ==
  ASSUME IInv, NEW t \in Threads, SetMask(t)
  PROVE  IInv'
<1>1. PICK me : me = th[t]
  OBVIOUS
<1>2. /\ me \in ThreadType /\ me.pc = "setmask" /\ LocksOf(t) /\ MessageOf(t) /\ AnswerOf(t)
      /\ UpdaterOf(t) /\ Types /\ Memory /\ th[t].pc = "setmask"
  BY <1>1, Parts DEF Types, SetMask, At
<1>3. PICK c : c = me.cls
  OBVIOUS
<1>4. c \in Classes /\ lock = t /\ me.mask \in Nat /\ mask[c] \in Nat /\ mask[c] <= me.mask /\ me.mask + 1 \in Sizes
      /\ (buckets[c] = Static => me.mask + 1 <= EmptyCapacity)
      /\ (buckets[c] # Static => cap[buckets[c]] = me.mask + 1)
      /\ (t \in reading => buckets[c] \notin Shared) /\ me.mask >= 3
  BY <1>1, <1>2, <1>3, SizesAre DEF LocksOf, Holding, MessageOf, UpdaterOf, ThreadType, Types
<1>5. /\ methods' = methods /\ before' = before /\ initializer' = initializer /\ buckets' = buckets
      /\ reading' = reading /\ writing' = writing /\ lock' = lock
      /\ slot' = slot /\ cap' = cap /\ live' = live /\ garbage' = garbage /\ emptyBuckets' = emptyBuckets
      /\ may' = may
      /\ mask' = [mask EXCEPT ![c] = me.mask] /\ occupied' = [occupied EXCEPT ![c] = 0]
  BY <1>1, <1>3 DEF SetMask, program, locks, memory
<1>6. PICK l : l = Replaced(t)
  OBVIOUS
<1>7. \/ l = "erase" /\ writing = t /\ t \notin reading /\ me.sending = NoClass
      \/ l = "insert" /\ writing # t /\ t \in reading /\ me.sending # NoClass /\ c = me.sending
  <2>1. writing = t => t \notin reading
    BY Parts, MethodCacheAssumption DEF Locks
  <2> QED
    BY <1>1, <1>2, <1>3, <1>6, <2>1 DEF Replaced, LocksOf, MessageOf, Updating
<1>8. {"look", "erase", "insert"} \subseteq Labels
  BY DEF Labels
<1>9. PICK r \in ThreadType :
        /\ th' = [th EXCEPT ![t] = r]
        /\ (r.pc = l \/ (r.pc = "look" /\ r.unseen = Threads \ {t}))
        /\ r.sending = me.sending /\ r.sel = me.sel /\ r.imp = me.imp /\ r.todo = me.todo
        /\ (r.pc # "erase" => r.cls = c)
  <2>1. CASE me.freed /\ GarbageSize >= Threshold
    <3>1. PICK q : q = Leave(me, "look")
      OBVIOUS
    <3>2. q \in ThreadType /\ q.pc = "look" /\ q.sending = me.sending /\ q.sel = me.sel /\ q.imp = me.imp
          /\ q.todo = me.todo /\ q.cls = c
      BY <1>2, <1>3, <1>8, <3>1, LeaveIs
    <3>3. PICK r : r = [q EXCEPT !.unseen = Threads \ {t}]
      OBVIOUS
    <3>4. r \in ThreadType /\ r.pc = "look" /\ r.sending = me.sending /\ r.sel = me.sel /\ r.imp = me.imp
          /\ r.todo = me.todo /\ r.cls = c /\ r.unseen = Threads \ {t}
      BY <3>2, <3>3 DEF ThreadType
    <3>5. th' = [th EXCEPT ![t] = r]
      BY <1>1, <1>2, <2>1, <3>1, <3>3 DEF SetMask, Types
    <3> QED
      BY <3>4, <3>5
  <2>2. CASE ~(me.freed /\ GarbageSize >= Threshold)
    <3>1. PICK r : r = Leave(me, l)
      OBVIOUS
    <3>2. r \in ThreadType /\ r.pc = l /\ r.sending = me.sending /\ r.sel = me.sel /\ r.imp = me.imp
          /\ r.todo = me.todo /\ (l # "erase" => r.cls = c)
      BY <1>2, <1>3, <1>7, <1>8, <3>1, LeaveIs
    <3>3. th' = [th EXCEPT ![t] = r]
      BY <1>1, <1>2, <1>6, <2>2, <3>1 DEF SetMask, Types
    <3>4. r.pc # "erase" => r.cls = c
      BY <3>2
    <3> QED
      BY <3>2, <3>3, <3>4, ZenonT(60)
  <2> QED
    BY <2>1, <2>2
<1>10. /\ th'[t] = r /\ th' \in [Threads -> ThreadType]
       /\ \A u \in Threads : u # t =>
           /\ th'[u] = th[u] /\ th[u].pc \notin Holding
           /\ LocksOf(u)' /\ MessageOf(u)' /\ LooksOf(u)' /\ UpdaterOf(u)'
  BY <1>4, <1>5, <1>9, HolderFrame
<1>11. r.pc \in {"erase", "insert", "look"}
  BY <1>7, <1>9
<1>12. Types'
  BY <1>2, <1>4, <1>5, <1>10 DEF Types
<1>13. LocksOf(t)'
  BY <1>4, <1>5, <1>7, <1>9, <1>10 DEF LocksOf, Holding, Reading, Updating
<1>14. Locks'
  <2>1. \A u \in Threads : LocksOf(u)'
    BY <1>10, <1>13
  <2>2. (writing # NoThread => reading = {}) /\ (writing = NoThread => before = methods)
    BY Parts DEF Locks
  <2> QED
    BY <1>5, <2>1, <2>2 DEF Locks
<1>15. Memory'
  BY <1>2, <1>5 DEF Memory
<1>16. ArraysOwnedOnce'
  BY <1>5, Parts DEF ArraysOwnedOnce
<1>17. Moving(c) /\ DOMAIN Entries(c) = {}
  <2>1. Moving(c)
    BY <1>1, <1>2, <1>3, <1>4 DEF Moving
  <2> QED
    BY <1>4, <2>1, Parts DEF SizeOf
<1>18. \A d : ~Moving(d)' /\ (d # c => ~Moving(d)) /\ \A i : ~Setting(d, i)
  BY <1>1, <1>2, <1>3, <1>4, <1>5, <1>10, <1>11 DEF Moving, Setting
<1>19. ASSUME NEW d \in Classes PROVE CacheOf(d)' /\ FreshIn(d)'
  <2>1. Entries(d)' = Entries(d)
    BY <1>5 DEF Entries
  <2>2. FreshIn(d)'
    <3>1. Flushing(d) => Flushing(d)'
      BY <1>1, <1>5, <1>9, <1>10 DEF Flushing
    <3> QED
      BY <1>5, <2>1, <3>1, FreshFrame
  <2>3. CASE d # c
    <3>1. mask'[d] = mask[d] /\ occupied'[d] = occupied[d]
      BY <1>2, <1>5, <2>3 DEF Types
    <3>2. CacheOf(d)'
      BY <1>5, <1>18, <2>1, <2>3, <3>1, CacheFrame
    <3> QED
      BY <2>2, <3>2
  <2>4. CASE d = c
    <3>1. mask'[c] = me.mask /\ occupied'[c] = 0
      BY <1>2, <1>4, <1>5 DEF Types
    <3>2. Capacity(c)' = me.mask + 1
      BY <1>4, <3>1 DEF Capacity
    <3>3. DOMAIN Entries(c)' = {}
      BY <1>17, <2>1, <2>4
    <3>4. SizeOf(c)'
      BY <1>4, <1>5, <1>18, <3>1, <3>2, <3>3, FS_EmptySet DEF SizeOf
    <3>5. EntriesOf(c)'
      BY <3>3 DEF EntriesOf
    <3> QED
      BY <2>2, <2>4, <3>4, <3>5 DEF CacheOf
  <2> QED
    BY <2>3, <2>4
<1>20. ASSUME NEW u \in Threads, u # t PROVE ReaderOf(u)' /\ AnswerOf(u)'
  <2>1. \A d \in Classes : mask'[d] \in Nat /\ mask[d] <= mask'[d]
    BY <1>2, <1>4, <1>5 DEF Types
  <2>2. Scans(u) => KeepsFor(u)
    <3>1. ReaderOf(u)
      BY Parts
    <3> QED
      BY <1>5, <3>1 DEF ReaderOf, KeepsFor, Shared
  <2>3. th'[u] = th[u]
    BY <1>10, <1>20
  <2> QED
    BY <1>5, <2>1, <2>2, <2>3, ReadersFrame
<1>21. MessageOf(t)' /\ ReaderOf(t)'
  BY <1>1, <1>2, <1>5, <1>7, <1>9, <1>10, <1>11 DEF MessageOf, ReaderOf, Scans, Reading, Updating
<1>22. LooksOf(t)'
  BY <1>7, <1>9, <1>10, <1>11 DEF LooksOf, Scans
<1>23. UpdaterOf(t)'
  <2>1. t \in reading => Ready(c, me.sel)'
    <3>1. Entries(c)' = Entries(c)
      BY <1>5 DEF Entries
    <3>2. mask'[c] = me.mask /\ occupied'[c] = 0
      BY <1>2, <1>4, <1>5 DEF Types
    <3>3. PICK n \in Nat : n = me.mask + 1
      BY <1>4
    <3>4. Capacity(c)' = n /\ n >= 4
      BY <1>4, <3>2, <3>3 DEF Capacity
    <3>5. 0 + 1 <= (n \div 4) * 3
      BY <3>4
    <3> QED
      BY <1>4, <1>5, <1>17, <3>1, <3>2, <3>4, <3>5 DEF Ready, Shared
  <2> QED
    BY <1>5, <1>7, <1>9, <1>10, <1>11, <2>1 DEF UpdaterOf
<1>24. AnswerOf(t)'
  <2>1. Message(t)' = Message(t)
    BY <1>1, <1>9, <1>10 DEF Message
  <2> QED
    BY <1>1, <1>2, <1>5, <1>9, <1>10, <1>11, <2>1 DEF AnswerOf, Reading, Scans, Updating
<1>25. ASSUME NEW u \in Threads
       PROVE  MessageOf(u)' /\ ReaderOf(u)' /\ LooksOf(u)' /\ UpdaterOf(u)' /\ AnswerOf(u)'
  BY <1>10, <1>20, <1>21, <1>22, <1>23, <1>24
<1> QED
  BY <1>12, <1>14, <1>15, <1>16, <1>19, <1>25 DEF IInv

(* The array b that becomes the buckets of a cache, with capacity n: a new *)
(* one, an array of empty buckets, or a new one that caches will share.    *)
NewArray(b, n) ==
  /\ b \in Arrays \ live /\ live' = live \cup {b} /\ cap' = [cap EXCEPT ![b] = n]
  /\ emptyBuckets' = emptyBuckets
SharedArray(b, n) ==
  /\ \/ b = Static /\ n <= EmptyCapacity
     \/ b = emptyBuckets /\ b # Static /\ n = cap[b]
  /\ live' = live /\ cap' = cap /\ emptyBuckets' = emptyBuckets
NewShared(b, n) ==
  /\ b \in Arrays \ live /\ live' = live \cup {b} /\ cap' = [cap EXCEPT ![b] = n]
  /\ emptyBuckets = Static /\ emptyBuckets' = b /\ n > EmptyCapacity

(* Storing new buckets before their mask keeps the invariant: a reader     *)
(* that loads them has a mask no larger than theirs.                       *)
LEMMA StoreStep ==
  ASSUME IInv, NEW t \in Threads, NEW c \in Classes, NEW b \in Arrays \cup {Static}, NEW n \in Sizes,
         NEW r \in ThreadType, lock \in {t, NoThread}, lock' = t, th[t].pc \in {"fill", "erase"},
         UNCHANGED <<program, reading, writing, mask, occupied, slot, may>>,
         th' = [th EXCEPT ![t] = r], r.pc = "setmask", r.cls = c, r.mask = n - 1,
         r.sending = th[t].sending, r.sel = th[t].sel, r.imp = th[t].imp,
         \A d \in Classes : d \in th[t].todo /\ d # c => d \in r.todo,
         t \in reading => c = th[t].sending /\ initializer[c] = NoThread /\ NewArray(b, n),
         NewArray(b, n) \/ SharedArray(b, n) \/ NewShared(b, n),
         mask[c] <= n - 1, StoreBuckets(c, b)
  PROVE  IInv'
<1>1. /\ th[t] \in ThreadType /\ LocksOf(t) /\ MessageOf(t) /\ AnswerOf(t)
      /\ Types /\ Memory /\ Owned
  BY Parts, OwnedIs DEF Types
<1>2. PICK old : old = buckets[c]
  OBVIOUS
<1>3. /\ methods' = methods /\ before' = before /\ initializer' = initializer
      /\ reading' = reading /\ writing' = writing
      /\ slot' = slot /\ mask' = mask /\ occupied' = occupied /\ may' = may
      /\ buckets' = [buckets EXCEPT ![c] = b]
  BY DEF program, StoreBuckets
<1>4. ~Moving(c) /\ lock' \in {t, NoThread}
  BY NotMoving
<1>5. garbage' = IF old \in Shared THEN garbage ELSE garbage \cup {old}
  BY <1>2, <1>4, EmptyIs DEF StoreBuckets
<1>6. /\ buckets'[c] = b /\ \A d \in Classes : d # c => buckets'[d] = buckets[d]
      /\ \A d \in Classes : buckets[d] \in Arrays \cup {Static}
  BY <1>1, <1>3 DEF Types
<1>7. /\ \A d \in Classes : buckets[d] \in live \cup {Static}
      /\ emptyBuckets \in live \cup {Static} /\ garbage \subseteq live /\ live \subseteq Arrays
      /\ Static \notin Arrays
  BY <1>1, <1>6, MethodCacheAssumption DEF Owned, Types
<1>8. /\ n \in Nat /\ n >= 4 /\ n <= MaxCapacity
  BY SizesAre
<1>9. /\ live' \subseteq Arrays /\ emptyBuckets' \in Arrays \cup {Static}
      /\ cap' \in [Arrays \cup {Static} -> Nat]
      /\ \A a \in live \cup {Static} : cap'[a] = cap[a]
      /\ b \in live' \cup {Static} /\ Shared \subseteq Shared' /\ Shared' \subseteq Shared \cup {b}
      /\ DOMAIN slot[b] = {}
      /\ (b = Static => n <= EmptyCapacity) /\ (b # Static => cap'[b] = n)
      /\ (b \in live => b \in Shared)
  <2>1. CASE NewArray(b, n)
    BY <1>1, <1>7, <1>8, <2>1 DEF NewArray, Types, Memory, Shared
  <2>2. CASE SharedArray(b, n)
    <3>1. DOMAIN slot[Static] = {} /\ DOMAIN slot[emptyBuckets] = {}
      BY <1>1, <1>7 DEF Memory
    <3> QED
      BY <1>1, <1>7, <2>2, <3>1 DEF SharedArray, Types, Shared
  <2>3. CASE NewShared(b, n)
    BY <1>1, <1>7, <1>8, <2>3 DEF NewShared, Types, Memory, Shared
  <2> QED
    BY <2>1, <2>2, <2>3
<1>10. /\ th'[t] = r /\ th' \in [Threads -> ThreadType]
       /\ \A u \in Threads : u # t =>
           /\ th'[u] = th[u] /\ th[u].pc \notin Holding
           /\ LocksOf(u)' /\ MessageOf(u)' /\ LooksOf(u)' /\ UpdaterOf(u)'
  BY <1>3, <1>4, HolderFrame
<1>11. Types'
  BY <1>1, <1>3, <1>9, <1>10, MethodCacheAssumption DEF Types
<1>12. \/ t \in reading /\ writing # t /\ th[t].sending # NoClass
       \/ t \notin reading /\ writing = t /\ th[t].sending = NoClass
  <2>1. writing = t => t \notin reading
    BY Parts, MethodCacheAssumption DEF Locks
  <2> QED
    BY <1>1, <2>1 DEF LocksOf
<1>13. LocksOf(t)'
  BY <1>1, <1>3, <1>10, <1>12 DEF LocksOf, Holding, Reading, Updating
<1>14. Locks'
  <2>1. \A u \in Threads : LocksOf(u)'
    BY <1>10, <1>13
  <2>2. (writing # NoThread => reading = {}) /\ (writing = NoThread => before = methods)
    BY Parts DEF Locks
  <2> QED
    BY <1>3, <2>1, <2>2 DEF Locks
<1>15. Memory'
  <2>1. ASSUME NEW a \in Arrays \cup {Static}
        PROVE  /\ slot[a] = [i \in DOMAIN slot[a] |-> slot[a][i]]
               /\ DOMAIN slot[a] \subseteq 0..cap'[a] - 1
               /\ \A i \in DOMAIN slot[a] : slot[a][i] \in [key : {0} \cup Selectors, imp : Imps]
               /\ a \notin live' => DOMAIN slot[a] = {}
               /\ a \in live' => cap'[a] \in Sizes
               /\ cap'[a] <= MaxCapacity
    <3>1. /\ slot[a] = [i \in DOMAIN slot[a] |-> slot[a][i]]
          /\ DOMAIN slot[a] \subseteq 0..cap[a] - 1
          /\ \A i \in DOMAIN slot[a] : slot[a][i] \in [key : {0} \cup Selectors, imp : Imps]
          /\ a \notin live => DOMAIN slot[a] = {}
          /\ a \in live => cap[a] \in Sizes
          /\ cap[a] <= MaxCapacity
      BY <1>1 DEF Memory
    <3>2. \/ live' = live /\ cap' = cap
          \/ live' = live \cup {b} /\ cap' = [cap EXCEPT ![b] = n] /\ b \in Arrays
      BY DEF NewArray, SharedArray, NewShared
    <3>3. CASE live' = live /\ cap' = cap
      BY <3>1, <3>3
    <3>4. CASE live' = live \cup {b} /\ cap' = [cap EXCEPT ![b] = n] /\ b \in Arrays
      <4>1. CASE a = b
        BY <1>1, <1>8, <1>9, <3>1, <3>4, <4>1 DEF Types
      <4>2. CASE a # b
        BY <1>1, <3>1, <3>4, <4>2 DEF Types
      <4> QED
        BY <4>1, <4>2
    <3> QED
      BY <3>2, <3>3, <3>4
  <2>2. cap'[Static] = EmptyCapacity
    BY <1>1, <1>9 DEF Memory
  <2>3. DOMAIN slot[emptyBuckets'] = {} /\ (emptyBuckets' # Static => cap'[emptyBuckets'] > EmptyCapacity)
    <3>1. CASE emptyBuckets' = emptyBuckets
      BY <1>1, <1>7, <1>9, <3>1 DEF Memory
    <3>2. CASE NewShared(b, n)
      <4>1. emptyBuckets' = b /\ n > EmptyCapacity /\ b \in Arrays
        BY <3>2 DEF NewShared
      <4> QED
        BY <1>7, <1>9, <4>1
    <3> QED
      BY <3>1, <3>2 DEF NewArray, SharedArray
  <2> QED
    BY <1>3, <2>1, <2>2, <2>3 DEF Memory
<1>16. ArraysOwnedOnce'
  <2>1. \A d \in Classes : d # c /\ old \notin Shared => buckets[d] # old
    BY <1>1, <1>2 DEF Owned
  <2>2. ASSUME NEW a \in Arrays
        PROVE  a \in live' <=> (\E d \in Classes : a = buckets'[d]) \/ a = emptyBuckets' \/ a \in garbage'
    <3>1. a \in live <=> (\E d \in Classes : a = buckets[d]) \/ a = emptyBuckets \/ a \in garbage
      BY <1>1 DEF Owned
    <3>2. (\E d \in Classes : a = buckets'[d]) <=> a = b \/ \E d \in Classes : d # c /\ a = buckets[d]
      BY <1>6
    <3>3. (\E d \in Classes : a = buckets[d]) <=> a = old \/ \E d \in Classes : d # c /\ a = buckets[d]
      BY <1>2
    <3>4. a = old => a \in garbage' \/ a = emptyBuckets
      BY <1>5, <1>7 DEF Shared
    <3>5. a \in garbage' <=> a \in garbage \/ (a = old /\ old \notin Shared)
      BY <1>5
    <3>6. CASE NewArray(b, n)
      BY <3>1, <3>2, <3>3, <3>4, <3>5, <3>6 DEF NewArray
    <3>7. CASE SharedArray(b, n)
      BY <1>7, <3>1, <3>2, <3>3, <3>4, <3>5, <3>7 DEF SharedArray
    <3>8. CASE NewShared(b, n)
      BY <1>7, <3>1, <3>2, <3>3, <3>4, <3>5, <3>8 DEF NewShared
    <3> QED
      BY <3>6, <3>7, <3>8
  <2>3. garbage' \subseteq Arrays
    BY <1>2, <1>5, <1>6, <1>7 DEF Shared
  <2>4. b \notin garbage'
    <3>1. b \in live => b \in Shared /\ b \notin garbage
      BY <1>1, <1>7, <1>9 DEF Owned, Shared
    <3>2. b \notin live => b \notin garbage /\ (b = old => b \in Shared)
      BY <1>2, <1>7 DEF Shared
    <3> QED
      BY <1>5, <3>1, <3>2
  <2>5. emptyBuckets' \notin garbage'
    <3>1. emptyBuckets \notin garbage'
      BY <1>1, <1>5 DEF Owned, Shared
    <3> QED
      BY <2>4, <3>1 DEF NewArray, SharedArray, NewShared
  <2>6. \A d \in Classes : buckets'[d] \notin garbage'
    BY <1>1, <1>5, <1>6, <2>1, <2>4 DEF Owned
  <2>7. ASSUME NEW d \in Classes, NEW e \in Classes, buckets'[d] = buckets'[e], d # e PROVE buckets'[d] \in Shared'
    <3>1. CASE d # c /\ e # c
      BY <1>1, <1>6, <1>9, <2>7, <3>1 DEF Owned
    <3>2. CASE d = c \/ e = c
      <4>1. \E x \in Classes : buckets[x] = b /\ buckets'[d] = b
        BY <1>6, <2>7, <3>2
      <4>2. b \in live \cup {Static}
        BY <1>7, <4>1
      <4> QED
        BY <1>9, <4>1, <4>2 DEF Shared
    <3> QED
      BY <3>1, <3>2
  <2>8. Owned'
    BY <2>2, <2>3, <2>5, <2>6, <2>7 DEF Owned
  <2> QED
    BY <1>11, <2>8, OwnedNext
<1>17. \A d : ~Moving(d) /\ (Moving(d)' <=> d = c) /\ \A i : ~Setting(d, i)
  BY <1>10, MethodCacheAssumption DEF Moving, Setting
<1>18. ASSUME NEW d \in Classes, d # c PROVE CacheOf(d)' /\ FreshIn(d)'
  <2>1. Entries(d)' = Entries(d) /\ buckets'[d] = buckets[d] /\ cap'[buckets[d]] = cap[buckets[d]]
    BY <1>3, <1>6, <1>7, <1>9, <1>18 DEF Entries
  <2>2. Flushing(d) => Flushing(d)'
    BY <1>3, <1>10, <1>18 DEF Flushing
  <2>3. FreshIn(d)'
    BY <1>3, <2>1, <2>2, FreshFrame
  <2>4. CacheOf(d)'
    BY <1>3, <1>17, <1>18, <2>1, CacheFrame
  <2> QED
    BY <2>3, <2>4
<1>19. CacheOf(c)' /\ FreshIn(c)'
  <2>1. DOMAIN Entries(c)' = {}
    BY <1>3, <1>6, <1>9 DEF Entries
  <2>2. SizeOf(c)'
    <3>1. SizeOf(c)
      BY Parts
    <3> QED
      BY <1>3, <1>17, <2>1, <3>1 DEF SizeOf, Capacity
  <2> QED
    BY <2>1, <2>2 DEF CacheOf, EntriesOf, FreshIn
<1>20. ASSUME NEW u \in Threads, u # t PROVE ReaderOf(u)' /\ AnswerOf(u)'
  <2>1. \A d \in Classes : mask'[d] \in Nat /\ mask[d] <= mask'[d]
    BY <1>1, <1>3 DEF Types
  <2>2. Scans(u) => KeepsFor(u)
    <3> SUFFICES ASSUME Scans(u) PROVE KeepsFor(u)
      OBVIOUS
    <3>1. PICK a : a = th[u].array
      OBVIOUS
    <3>2. a \in live \cup {Static} /\ a \in garbage \cup Shared \cup {buckets[th[u].cls]} /\ th[u].cls \in Classes
      BY <3>1, Parts, ScannedIs DEF ReaderOf
    <3>3. a \in garbage' \cup Shared' \cup {buckets'[th[u].cls]}
      BY <1>2, <1>5, <1>6, <1>9, <3>2
    <3>4. cap'[a] = cap[a] /\ (a \in Shared' => a \in Shared)
      BY <1>7, <1>9, <3>2 DEF Shared
    <3> QED
      BY <1>3, <3>1, <3>3, <3>4 DEF KeepsFor
  <2>3. th'[u] = th[u]
    BY <1>10, <1>20
  <2> QED
    BY <1>3, <2>1, <2>2, <2>3, ReadersFrame
<1>21. MessageOf(t)' /\ ReaderOf(t)' /\ LooksOf(t)'
  BY <1>1, <1>3, <1>10, <1>12 DEF MessageOf, ReaderOf, Scans, LooksOf, Reading, Updating
<1>22. UpdaterOf(t)'
  <2>1. t \in reading => b \notin Shared'
    BY <1>7 DEF NewArray, Shared
  <2>2. n - 1 + 1 = n
    BY <1>8
  <2> QED
    BY <1>3, <1>6, <1>9, <1>10, <2>1, <2>2 DEF UpdaterOf
<1>23. AnswerOf(t)'
  <2>1. Message(t)' = Message(t)
    BY <1>10 DEF Message
  <2>2. t \in reading => th[t].pc = "fill"
    BY <1>1 DEF LocksOf, Reading, Updating
  <2> QED
    BY <1>1, <1>3, <1>10, <2>1, <2>2 DEF AnswerOf, Reading, Scans, Updating
<1>24. ASSUME NEW u \in Threads
       PROVE  MessageOf(u)' /\ ReaderOf(u)' /\ LooksOf(u)' /\ UpdaterOf(u)' /\ AnswerOf(u)'
  BY <1>10, <1>20, <1>21, <1>22, <1>23
<1> QED
  BY <1>11, <1>14, <1>15, <1>16, <1>18, <1>19, <1>24 DEF IInv

(* Filling a cache up to its insertion keeps the invariant.                *)
LEMMA FillStep ==
  ASSUME IInv, NEW t \in Threads, Fill(t)
  PROVE  IInv'
<1>1. /\ th[t] \in ThreadType /\ th[t].pc = "fill" /\ LocksOf(t) /\ MessageOf(t) /\ Types /\ lock = NoThread
  BY Parts DEF Types, Fill, At
<1>2. PICK c, n, s : c = th[t].sending /\ n = Capacity(c) /\ s = th[t].sel
  OBVIOUS
<1>3. t \in reading /\ c \in Classes /\ th[t].cls = c /\ th[t].sel \in Selectors
  BY <1>1, <1>2 DEF LocksOf, MessageOf, ThreadType, Updating
<1>4. UNCHANGED <<program, reading, writing, mask, occupied, slot, emptyBuckets, may>>
  BY DEF Fill
<1>5. ~Moving(c) /\ SizeOf(c) /\ mask[c] \in Nat /\ n \in Nat /\ buckets[c] \in Arrays \cup {Static}
  BY <1>1, <1>2, <1>3, NotMoving, Parts DEF Types, Capacity
<1>6. ASSUME NEW m \in Sizes, n <= m, Reallocate(t, c, m), lock' = t, initializer[c] = NoThread
      PROVE  IInv'
  <2>1. PICK a \in Arrays \ live :
          /\ live' = live \cup {a}
          /\ cap' = [cap EXCEPT ![a] = m]
          /\ StoreBuckets(c, a)
          /\ th' = [th EXCEPT ![t].pc = "setmask", ![t].mask = m - 1,
                                ![t].freed = ~ConstantEmpty(c)]
    BY <1>6 DEF Reallocate
  <2>2. PICK f \in BOOLEAN : f = ~ConstantEmpty(c)
    BY DEF ConstantEmpty
  <2>3. m \in Nat /\ m >= 4 /\ m - 1 \in Nat
    BY SizesAre
  <2>4. PICK r : r = [th[t] EXCEPT !.pc = "setmask", !.mask = m - 1, !.freed = f]
    OBVIOUS
  <2>5. "setmask" \in Labels
    BY DEF Labels
  <2>6. r \in ThreadType /\ r.pc = "setmask" /\ r.mask = m - 1 /\ r.cls = c /\ r.sending = th[t].sending
        /\ r.sel = th[t].sel /\ r.imp = th[t].imp /\ r.todo = th[t].todo
    BY <1>1, <1>3, <2>3, <2>4, <2>5 DEF ThreadType
  <2>7. th' = [th EXCEPT ![t] = r]
    BY <1>1, <2>1, <2>2, <2>4 DEF Types
  <2>8. NewArray(a, m)
    BY <1>4, <2>1 DEF NewArray
  <2>9. mask[c] <= m - 1
    BY <1>2, <1>5, <1>6, <2>3 DEF Capacity
  <2>10. UNCHANGED <<program, reading, writing, mask, occupied, slot, may>>
    BY <1>4
  <2> QED
    BY <1>1, <1>2, <1>3, <1>6, <2>1, <2>6, <2>7, <2>8, <2>9, <2>10, StoreStep
<1>7. CASE Goto(t, "done") /\ UNCHANGED <<lock, buckets, garbage, cap, live>>
  BY <1>1, <1>4, <1>7, FilledStep DEF locks, caches, memory
<1>8. CASE /\ initializer[c] = NoThread /\ ~HasEntry(c, th[t].sel) /\ lock' = t
           /\ ConstantEmpty(c) /\ Reallocate(t, c, IF n = 0 THEN InitCacheSize ELSE n)
  <2>1. PICK m : m = IF n = 0 THEN InitCacheSize ELSE n
    OBVIOUS
  <2>2. m \in Sizes /\ n <= m
    BY <1>2, <1>5, <2>1, SizesAre DEF SizeOf, Capacity
  <2>3. Reallocate(t, c, m)
    BY <1>8, <2>1
  <2> QED
    BY <1>6, <1>8, <2>2, <2>3
<1>9. CASE /\ initializer[c] = NoThread /\ ~HasEntry(c, th[t].sel) /\ lock' = t
           /\ ~ConstantEmpty(c) /\ occupied[c] + 1 <= (n \div 4) * 3
           /\ th' = [th EXCEPT ![t].pc = "insert"]
           /\ UNCHANGED <<buckets, garbage, cap, live>>
  <2>1. UNCHANGED <<program, reading, writing, caches, memory, may>>
    BY <1>4, <1>9 DEF caches, memory
  <2> QED
    BY <1>1, <1>2, <1>9, <2>1, FillRoomStep
<1>10. CASE /\ initializer[c] = NoThread /\ ~HasEntry(c, th[t].sel) /\ lock' = t
            /\ ~ConstantEmpty(c) /\ Reallocate(t, c, Grown(c))
  <2>1. PICK m : m = Grown(c)
    OBVIOUS
  <2>2. n \in Sizes
    <3>1. buckets[c] # Static
      BY <1>3, <1>5, <1>10, EmptyIs DEF Shared
    <3>2. mask[c] < n
      BY <1>2, <1>3, <1>5, <3>1, ArrayFits DEF SizeOf
    <3> QED
      BY <1>2, <1>5, <3>2 DEF SizeOf, Capacity
  <2>3. m \in Sizes /\ n <= m
    BY <1>2, <2>1, <2>2, SizesAre, MethodCacheAssumption DEF Grown
  <2>4. Reallocate(t, c, m)
    BY <1>10, <2>1
  <2> QED
    BY <1>6, <1>10, <2>3, <2>4
<1> QED
  BY <1>2, <1>7, <1>8, <1>9, <1>10 DEF Fill

(* Erasing a cache keeps the invariant.                                    *)
LEMMA EraseStep ==
  ASSUME IInv, NEW t \in Threads, NEW c \in Classes, Erase(t, c)
  PROVE  IInv'
<1>1. /\ th[t] \in ThreadType /\ th[t].pc = "erase" /\ LocksOf(t) /\ Types /\ Memory
  BY Parts DEF Types, Erase, At
<1>2. lock = t /\ writing = t /\ t \notin reading /\ lock' = lock
  BY <1>1 DEF LocksOf, Holding, Reading, Updating, Erase, locks
<1>3. PICK n, todo : n = Capacity(c) /\ todo = th[t].todo \ {c}
  OBVIOUS
<1>4. ~Moving(c) /\ SizeOf(c) /\ mask[c] \in Nat /\ n \in Nat /\ buckets[c] \in Arrays \cup {Static}
      /\ occupied[c] \in Nat
  BY <1>1, <1>2, <1>3, NotMoving, Parts DEF Types, Capacity
<1>5. CASE (n = 0 \/ occupied[c] = 0) /\ th' = [th EXCEPT ![t].todo = todo] /\ UNCHANGED <<buckets, memory>>
  <2>1. UNCHANGED <<program, locks, caches, memory, may>>
    BY <1>5 DEF Erase, caches
  <2>2. th' = [th EXCEPT ![t].todo = @ \ {c}]
    BY <1>3, <1>5
  <2> QED
    BY <1>1, <1>3, <1>5, <2>1, <2>2, EraseNothingStep
<1>6. ASSUME NEW b \in Arrays \cup {Static}, n > 0, occupied[c] > 0,
             th' = [th EXCEPT ![t].pc = "setmask", ![t].todo = todo, ![t].cls = c, ![t].mask = n - 1,
                                ![t].freed = TRUE],
             slot' = slot, StoreBuckets(c, b), SharedArray(b, n) \/ NewShared(b, n)
      PROVE  IInv'
  <2>1. n \in Sizes /\ mask[c] <= n - 1 /\ n - 1 \in Nat
    BY <1>3, <1>4, <1>6 DEF SizeOf, Capacity
  <2>2. PICK r : r = [th[t] EXCEPT !.pc = "setmask", !.todo = todo, !.cls = c, !.mask = n - 1, !.freed = TRUE]
    OBVIOUS
  <2>3. "setmask" \in Labels /\ todo \in SUBSET Classes
    BY <1>1, <1>3 DEF Labels, ThreadType
  <2>4. r \in ThreadType /\ r.pc = "setmask" /\ r.mask = n - 1 /\ r.cls = c /\ r.sending = th[t].sending
        /\ r.sel = th[t].sel /\ r.imp = th[t].imp /\ r.todo = todo
    BY <1>1, <2>1, <2>2, <2>3 DEF ThreadType
  <2>5. th' = [th EXCEPT ![t] = r]
    BY <1>1, <1>6, <2>2 DEF Types
  <2>6. UNCHANGED <<program, reading, writing, mask, occupied, slot, may>>
    BY <1>6 DEF Erase, locks
  <2>7. \A d \in Classes : d \in th[t].todo /\ d # c => d \in r.todo
    BY <1>3, <2>4
  <2> QED
    BY <1>1, <1>2, <1>6, <2>1, <2>4, <2>5, <2>6, <2>7, StoreStep
<1>7. CASE /\ n > 0 /\ occupied[c] > 0
           /\ th' = [th EXCEPT ![t].pc = "setmask", ![t].todo = todo, ![t].cls = c, ![t].mask = n - 1,
                                ![t].freed = TRUE]
           /\ n <= EmptyCapacity \/ emptyBuckets # Static
           /\ StoreBuckets(c, EmptyFor(n))
           /\ UNCHANGED <<slot, cap, live, emptyBuckets>>
  <2>1. PICK b : b = EmptyFor(n)
    OBVIOUS
  <2>2. n \in Sizes
    BY <1>3, <1>4, <1>7 DEF SizeOf, Capacity
  <2>3. CASE n <= EmptyCapacity
    <3>1. b = Static
      BY <2>1, <2>3 DEF EmptyFor
    <3>2. SharedArray(b, n)
      BY <1>7, <2>3, <3>1 DEF SharedArray
    <3> QED
      BY <1>6, <1>7, <2>1, <3>1, <3>2
  <2>4. CASE ~(n <= EmptyCapacity)
    <3>1. b = emptyBuckets /\ b # Static
      BY <1>7, <2>1, <2>4 DEF EmptyFor
    <3>2. b \in live /\ b \in Arrays
      <4>1. Owned
        BY <1>1, Parts, OwnedIs
      <4> QED
        BY <1>1, <3>1, <4>1 DEF Owned, Types
    <3>3. cap[b] \in Sizes /\ cap[b] > EmptyCapacity
      BY <1>1, <3>1, <3>2 DEF Memory
    <3>4. n > EmptyCapacity
      BY <1>4, <2>4, MethodCacheAssumption
    <3>5. n = cap[b]
      BY <2>2, <3>3, <3>4, OneLargeSize
    <3>6. SharedArray(b, n)
      BY <1>7, <3>1, <3>5 DEF SharedArray
    <3> QED
      BY <1>6, <1>7, <2>1, <3>2, <3>6
  <2> QED
    BY <2>3, <2>4
<1>8. CASE /\ n > 0 /\ occupied[c] > 0
           /\ th' = [th EXCEPT ![t].pc = "setmask", ![t].todo = todo, ![t].cls = c, ![t].mask = n - 1,
                                ![t].freed = TRUE]
           /\ n > EmptyCapacity /\ emptyBuckets = Static
           /\ \E a \in Arrays \ live :
                   /\ live' = live \cup {a}
                   /\ cap' = [cap EXCEPT ![a] = n]
                   /\ emptyBuckets' = a
                   /\ StoreBuckets(c, a)
           /\ slot' = slot
  <2>1. PICK a \in Arrays \ live :
                   /\ live' = live \cup {a}
                   /\ cap' = [cap EXCEPT ![a] = n]
                   /\ emptyBuckets' = a
                   /\ StoreBuckets(c, a)
    BY <1>8
  <2>2. NewShared(a, n)
    BY <1>8, <2>1 DEF NewShared
  <2> QED
    BY <1>6, <1>8, <2>1, <2>2
<1> QED
  BY <1>3, <1>5, <1>7, <1>8 DEF Erase

(* Freeing the garbage keeps the invariant: every thread has been seen     *)
(* outside a reader since it was garbage.                                  *)
LEMMA FreeStep ==
  ASSUME IInv, NEW t \in Threads, Free(t)
  PROVE  IInv'
<1>1. PICK me : me = th[t]
  OBVIOUS
<1>2. /\ me \in ThreadType /\ me.pc = "look" /\ th[t].pc = "look" /\ LocksOf(t) /\ MessageOf(t)
      /\ AnswerOf(t) /\ LooksOf(t) /\ UpdaterOf(t) /\ Types /\ Memory /\ Owned /\ me.unseen = {}
  BY <1>1, Parts, OwnedIs DEF Types, Free, At
<1>3. /\ methods' = methods /\ before' = before /\ initializer' = initializer
      /\ reading' = reading /\ writing' = writing
      /\ buckets' = buckets /\ mask' = mask /\ occupied' = occupied /\ emptyBuckets' = emptyBuckets
      /\ may' = may /\ live' = live \ garbage /\ garbage' = {}
      /\ slot' = [a \in DOMAIN slot |-> IF a \in garbage THEN <<>> ELSE slot[a]]
      /\ cap' = [a \in DOMAIN cap |-> IF a \in garbage THEN 0 ELSE cap[a]]
  BY DEF Free, program, caches
<1>4. DOMAIN slot = Arrays \cup {Static} /\ DOMAIN cap = Arrays \cup {Static}
  BY <1>2 DEF Types
<1>5. /\ \A a \in Arrays \cup {Static} : a \in garbage => slot'[a] = <<>> /\ cap'[a] = 0
      /\ \A a \in Arrays \cup {Static} : a \notin garbage => slot'[a] = slot[a] /\ cap'[a] = cap[a]
  BY <1>3, <1>4
<1>6. \A u \in Threads : Scans(u) => th[u].array \notin garbage
  BY <1>1, <1>2 DEF LooksOf
<1>7. lock = t
  BY <1>2 DEF LocksOf, Holding
<1>8. {"erase", "insert"} \subseteq Labels
  BY DEF Labels
<1>9. PICK r \in ThreadType :
        /\ th' = [th EXCEPT ![t] = r]
        /\ \/ r.pc = "idle" /\ lock' = NoThread /\ writing # t /\ t \notin reading /\ r.sending = NoClass
              /\ me.sending = NoClass
           \/ /\ lock' = t /\ r.sending = me.sending /\ r.sel = me.sel /\ r.imp = me.imp /\ r.todo = me.todo
              /\ \/ r.pc = "erase" /\ writing = t /\ t \notin reading /\ me.sending = NoClass
                 \/ r.pc = "insert" /\ writing # t /\ t \in reading /\ me.sending # NoClass /\ r.cls = me.cls
  <2>1. writing = t => t \notin reading
    BY Parts, MethodCacheAssumption DEF Locks
  <2>2. CASE CollectsALot(t)
    <3>1. writing # t /\ t \notin reading /\ me.sending = NoClass
      BY <1>1, <1>2, <2>2 DEF CollectsALot, Searching, LocksOf
    <3>2. th' = [th EXCEPT ![t] = Idle] /\ lock' = NoThread
      BY <2>2 DEF Free
    <3> QED
      BY <3>1, <3>2, IdleIs
  <2>3. CASE ~CollectsALot(t)
    <3>1. PICK l, r : l = Replaced(t) /\ r = Leave(me, l)
      OBVIOUS
    <3>2. \/ l = "erase" /\ writing = t /\ t \notin reading /\ me.sending = NoClass
          \/ l = "insert" /\ writing # t /\ t \in reading /\ me.sending # NoClass
      BY <1>1, <1>2, <2>1, <2>3, <3>1 DEF Replaced, CollectsALot, Searching, LocksOf
    <3>3. r \in ThreadType /\ r.pc = l /\ r.sending = me.sending /\ r.sel = me.sel /\ r.imp = me.imp /\ r.todo = me.todo
          /\ (l = "insert" => r.cls = me.cls)
      BY <1>2, <1>8, <3>1, <3>2, LeaveIs
    <3>4. th' = [th EXCEPT ![t] = r] /\ lock' = t
      BY <1>1, <1>2, <1>7, <2>3, <3>1 DEF Free, Types
    <3> QED
      BY <3>2, <3>3, <3>4
  <2> QED
    BY <2>2, <2>3
<1>10. /\ th'[t] = r /\ th' \in [Threads -> ThreadType]
       /\ \A u \in Threads : u # t =>
           /\ th'[u] = th[u] /\ th[u].pc \notin Holding
           /\ LocksOf(u)' /\ MessageOf(u)' /\ LooksOf(u)' /\ UpdaterOf(u)'
  <2>1. lock' \in {t, NoThread} /\ \A u \in Threads \ {t} : writing' = u <=> writing = u
    BY <1>3, <1>9
  <2> QED
    BY <1>3, <1>7, <1>9, <2>1, HolderFrame
<1>11. Types'
  <2>1. lock' \in Threads \cup {NoThread}
    BY <1>9
  <2>2. slot' = [a \in Arrays \cup {Static} |-> slot'[a]] /\ cap' \in [Arrays \cup {Static} -> Nat]
    BY <1>2, <1>3, <1>4 DEF Types
  <2> QED
    BY <1>2, <1>3, <1>10, <2>1, <2>2 DEF Types
<1>12. LocksOf(t)'
  BY <1>3, <1>9, <1>10, MethodCacheAssumption DEF LocksOf, Holding, Reading, Updating
<1>13. Locks'
  <2>1. \A u \in Threads : LocksOf(u)'
    BY <1>10, <1>12
  <2>2. (writing # NoThread => reading = {}) /\ (writing = NoThread => before = methods)
    BY Parts DEF Locks
  <2> QED
    BY <1>3, <2>1, <2>2 DEF Locks
<1>14. garbage \subseteq live /\ Static \notin garbage /\ Static \notin Arrays
       /\ \A d \in Classes : buckets[d] \in Arrays \cup {Static} /\ buckets[d] \notin garbage
  BY <1>2, MethodCacheAssumption DEF Owned, Types
<1>15. Memory'
  <2>1. ASSUME NEW a \in Arrays \cup {Static}
        PROVE  /\ slot'[a] = [i \in DOMAIN slot'[a] |-> slot'[a][i]]
               /\ DOMAIN slot'[a] \subseteq 0..cap'[a] - 1
               /\ \A i \in DOMAIN slot'[a] : slot'[a][i] \in [key : {0} \cup Selectors, imp : Imps]
               /\ a \notin live' => DOMAIN slot'[a] = {}
               /\ a \in live' => cap'[a] \in Sizes
               /\ cap'[a] <= MaxCapacity
    <3>1. CASE a \in garbage
      <4>1. PICK none : none = <<>>
        OBVIOUS
      <4>2. DOMAIN none = {} /\ none = [i \in DOMAIN none |-> none[i]]
        BY <4>1
      <4>3. slot'[a] = none /\ cap'[a] = 0 /\ a \notin live'
        BY <1>3, <1>5, <3>1, <4>1
      <4> QED
        BY <4>2, <4>3, MethodCacheAssumption
    <3>2. CASE a \notin garbage
      <4>1. slot'[a] = slot[a] /\ cap'[a] = cap[a] /\ (a \in live' <=> a \in live)
        BY <1>3, <1>5, <3>2
      <4> QED
        BY <1>2, <4>1 DEF Memory
    <3> QED
      BY <3>1, <3>2
  <2>2. cap'[Static] = EmptyCapacity
    BY <1>2, <1>5, <1>14 DEF Memory
  <2>3. slot'[emptyBuckets] = slot[emptyBuckets] /\ cap'[emptyBuckets] = cap[emptyBuckets]
    BY <1>2, <1>5 DEF Owned, Types
  <2> QED
    BY <1>2, <1>3, <2>1, <2>2, <2>3 DEF Memory
<1>16. ArraysOwnedOnce'
  <2>1. Owned'
    BY <1>2, <1>3 DEF Owned, Shared
  <2> QED
    BY <1>11, <2>1, OwnedNext
<1>17. \A d : ~Moving(d) /\ ~Moving(d)' /\ \A i : ~Setting(d, i)
  BY <1>2, <1>7, <1>9, <1>10, MethodCacheAssumption DEF Moving, Setting
<1>18. ASSUME NEW d \in Classes PROVE CacheOf(d)' /\ FreshIn(d)'
  <2>1. Entries(d)' = Entries(d) /\ cap'[buckets[d]] = cap[buckets[d]]
    BY <1>3, <1>5, <1>14 DEF Entries
  <2>2. Flushing(d) => Flushing(d)'
    BY <1>1, <1>3, <1>9, <1>10 DEF Flushing
  <2>3. FreshIn(d)'
    BY <1>3, <2>1, <2>2, FreshFrame
  <2>4. CacheOf(d)'
    BY <1>3, <1>17, <2>1, CacheFrame
  <2> QED
    BY <2>3, <2>4
<1>19. ASSUME NEW u \in Threads, u # t PROVE ReaderOf(u)' /\ AnswerOf(u)'
  <2>1. \A d \in Classes : mask'[d] \in Nat /\ mask[d] <= mask'[d]
    BY <1>2, <1>3 DEF Types
  <2>2. Scans(u) => KeepsFor(u)
    <3> SUFFICES ASSUME Scans(u) PROVE KeepsFor(u)
      OBVIOUS
    <3>1. PICK a : a = th[u].array
      OBVIOUS
    <3>2. a \in garbage \cup Shared \cup {buckets[th[u].cls]} /\ a \notin garbage /\ a \in Arrays \cup {Static}
      BY <1>2, <1>6, <3>1, Parts DEF ReaderOf, Types, ThreadType
    <3>3. slot'[a] = slot[a] /\ cap'[a] = cap[a]
      BY <1>5, <3>2
    <3> QED
      BY <1>3, <3>1, <3>2, <3>3 DEF KeepsFor, Shared
  <2>3. th'[u] = th[u]
    BY <1>10, <1>19
  <2> QED
    BY <1>3, <2>1, <2>2, <2>3, ReadersFrame
<1>20. MessageOf(t)' /\ ReaderOf(t)' /\ LooksOf(t)'
  BY <1>1, <1>2, <1>3, <1>9, <1>10 DEF MessageOf, ReaderOf, Scans, LooksOf, Reading, Updating
<1>21. UpdaterOf(t)'
  <2>1. t \in reading => Ready(me.cls, me.sel) /\ me.cls \in Classes
    <3>1. t \in reading => me.cls = me.sending /\ me.sending \in Classes
      BY <1>1, <1>2 DEF MessageOf, LocksOf, ThreadType, Updating
    <3> QED
      BY <1>1, <1>2, <3>1 DEF UpdaterOf
  <2>2. t \in reading => Ready(me.cls, me.sel)'
    <3>1. t \in reading => Entries(me.cls)' = Entries(me.cls)
      BY <1>3, <1>5, <1>14, <2>1 DEF Entries
    <3> QED
      BY <1>3, <2>1, <3>1, <1>10, <1>1 DEF Ready, Capacity, Shared
  <2> QED
    BY <1>3, <1>9, <1>10, <2>2 DEF UpdaterOf
<1>22. AnswerOf(t)'
  <2>1. r.sending # NoClass => Message(t)' = Message(t)
    BY <1>1, <1>9, <1>10 DEF Message
  <2> QED
    BY <1>1, <1>2, <1>3, <1>9, <1>10, <2>1 DEF AnswerOf, Reading, Scans, Updating
<1>23. ASSUME NEW u \in Threads
       PROVE  MessageOf(u)' /\ ReaderOf(u)' /\ LooksOf(u)' /\ UpdaterOf(u)' /\ AnswerOf(u)'
  BY <1>10, <1>19, <1>20, <1>21, <1>22
<1> QED
  BY <1>11, <1>13, <1>15, <1>16, <1>18, <1>23 DEF IInv

(* Giving up both locks after a flush keeps the invariant.                 *)
LEMMA ErasedStep ==
  ASSUME IInv, NEW t \in Threads, Erased(t)
  PROVE  IInv'
<1>1. /\ th[t] \in ThreadType /\ th[t].pc = "erase" /\ th[t].todo = {} /\ LocksOf(t) /\ Types
  BY Parts DEF Types, Erased, At
<1>2. lock = t /\ writing = t /\ t \notin reading
  BY <1>1 DEF LocksOf, Holding, Reading, Updating
<1>3. /\ lock' = NoThread /\ writing' = NoThread /\ before' = methods
      /\ methods' = methods /\ initializer' = initializer /\ reading' = reading
      /\ buckets' = buckets /\ mask' = mask /\ occupied' = occupied
      /\ slot' = slot /\ cap' = cap /\ live' = live /\ garbage' = garbage /\ emptyBuckets' = emptyBuckets
      /\ may' = may
  BY DEF Erased, caches, memory
<1>4. PICK r \in ThreadType : th' = [th EXCEPT ![t] = r] /\ r.pc \in {"idle", "collect"} /\ r.sending = NoClass
  <2>1. PICK q : q = [Idle EXCEPT !.pc = "collect"]
    OBVIOUS
  <2>2. "collect" \in Labels
    BY DEF Labels
  <2>3. q \in ThreadType /\ q.pc = "collect" /\ q.sending = NoClass
    BY <2>1, <2>2, IdleIs DEF ThreadType
  <2>4. th' = [th EXCEPT ![t] = IF methods = before THEN q ELSE Idle]
    BY <2>1 DEF Erased
  <2> QED
    BY <2>3, <2>4, IdleIs
<1>5. /\ th'[t] = r /\ th' \in [Threads -> ThreadType]
      /\ \A u \in Threads : u # t =>
           /\ th'[u] = th[u] /\ th[u].pc \notin Holding
           /\ LocksOf(u)' /\ MessageOf(u)' /\ LooksOf(u)' /\ UpdaterOf(u)'
  <2>1. lock \in {t, NoThread} /\ lock' \in {t, NoThread}
        /\ \A u \in Threads \ {t} : writing' = u <=> writing = u
    BY <1>2, <1>3, MethodCacheAssumption
  <2> QED
    BY <1>3, <1>4, <2>1, HolderFrame
<1>6. Types'
  BY <1>1, <1>3, <1>5 DEF Types
<1>7. LocksOf(t)'
  BY <1>2, <1>3, <1>4, <1>5, MethodCacheAssumption DEF LocksOf, Holding, Reading, Updating
<1>8. Locks'
  <2>1. \A u \in Threads : LocksOf(u)'
    BY <1>5, <1>7
  <2> QED
    BY <1>3, <2>1 DEF Locks
<1>9. Memory'
  BY <1>3, Parts DEF Memory
<1>10. ArraysOwnedOnce'
  BY <1>3, Parts DEF ArraysOwnedOnce
<1>11. \A d : ~Moving(d) /\ ~Moving(d)' /\ \A i : ~Setting(d, i)
  BY <1>1, <1>2, <1>3, MethodCacheAssumption DEF Moving, Setting
<1>12. ASSUME NEW d \in Classes PROVE CacheOf(d)' /\ FreshIn(d)'
  <2>1. Entries(d)' = Entries(d)
    BY <1>3 DEF Entries
  <2>2. ~Flushing(d)
    BY <1>1, <1>2 DEF Flushing
  <2>3. FreshIn(d)
    BY Parts
  <2>4. FreshIn(d)'
    BY <1>3, <2>1, <2>2, <2>3 DEF FreshIn
  <2>5. CacheOf(d)'
    BY <1>3, <1>11, <2>1, CacheFrame
  <2> QED
    BY <2>4, <2>5
<1>13. ASSUME NEW u \in Threads, u # t PROVE ReaderOf(u)' /\ AnswerOf(u)'
  <2>1. \A d \in Classes : mask'[d] \in Nat /\ mask[d] <= mask'[d]
    BY <1>1, <1>3 DEF Types
  <2>2. Scans(u) => KeepsFor(u)
    <3>1. ReaderOf(u)
      BY Parts
    <3> QED
      BY <1>3, <3>1 DEF ReaderOf, KeepsFor, Shared
  <2>3. th'[u] = th[u]
    BY <1>5, <1>13
  <2> QED
    BY <1>3, <2>1, <2>2, <2>3, ReadersFrame
<1>14. MessageOf(t)' /\ ReaderOf(t)' /\ LooksOf(t)' /\ UpdaterOf(t)'
  BY <1>2, <1>3, <1>4, <1>5 DEF MessageOf, ReaderOf, Scans, LooksOf, UpdaterOf, Reading, Updating
<1>15. AnswerOf(t)'
  BY <1>2, <1>3, <1>4, <1>5 DEF AnswerOf, Reading, Scans, Updating
<1>16. ASSUME NEW u \in Threads
       PROVE  MessageOf(u)' /\ ReaderOf(u)' /\ LooksOf(u)' /\ UpdaterOf(u)' /\ AnswerOf(u)'
  BY <1>5, <1>13, <1>14, <1>15
<1> QED
  BY <1>6, <1>8, <1>9, <1>10, <1>12, <1>16 DEF IInv

(* The buckets E with the key k and the implementation p in the bucket i.  *)
With(E, i, k, p) == [j \in DOMAIN E \cup {i} |-> IF j = i THEN Bucket(k, p) ELSE E[j]]

(* The two changes that storing into a bucket makes, of the array and of   *)
(* the thread.                                                             *)
Stores(b, f) == slot' = [slot EXCEPT ![b] = f]
Turns(t, r) == th' = [th EXCEPT ![t] = r]

(* Storing into one bucket of the array that is the cache of c alone.      *)
LEMMA BucketFrame ==
  ASSUME IInv, NEW t \in Threads, lock = t, NEW c \in Classes, buckets[c] \notin Shared, ~Moving(c),
         th[t].pc \in {"insert", "setkey"} /\ th[t].cls = c,
         NEW f, NEW i \in 0..mask[c], NEW k \in {0} \cup Selectors, NEW p \in Imps,
         Stores(buckets[c], f),
         f = With(slot[buckets[c]], i, k, p),
         i \in DOMAIN slot[buckets[c]] => slot[buckets[c]][i].key = 0,
         k # 0 => p = Result(methods, <<c, k>>) /\ initializer[c] = NoThread,
         NEW r \in ThreadType, Turns(t, r), r.pc \in {"setkey", "done"}, r.todo = th[t].todo,
         UNCHANGED <<program, reading, writing, buckets, mask, cap, live, garbage, emptyBuckets, may>>,
         \A d \in Classes : d # c => occupied'[d] = occupied[d]
  PROVE  /\ Memory' /\ (Types' => ArraysOwnedOnce')
         /\ slot'[buckets[c]] = f /\ Entries(c)' = f
         /\ \A d \in Classes : d # c => CacheOf(d)' /\ FreshIn(d)'
         /\ FreshIn(c)'
         /\ \A u \in Threads : u # t /\ th'[u] = th[u] => ReaderOf(u)' /\ AnswerOf(u)'
<1>1. /\ Types /\ Memory /\ Owned /\ ArraysOwnedOnce
  BY Parts, OwnedIs DEF Types
<1>2. /\ methods' = methods /\ before' = before /\ initializer' = initializer
      /\ reading' = reading /\ writing' = writing
      /\ buckets' = buckets /\ mask' = mask /\ emptyBuckets' = emptyBuckets
      /\ may' = may /\ live' = live /\ garbage' = garbage /\ cap' = cap
  BY DEF program
<1>3. PICK b : b = buckets[c]
  OBVIOUS
<1>4. b \in Arrays \cup {Static} /\ DOMAIN slot = Arrays \cup {Static}
      /\ slot'[b] = f /\ \A a \in Arrays \cup {Static} : a # b => slot'[a] = slot[a]
  BY <1>1, <1>3 DEF Types, Stores
<1>5. b \in live /\ b \in Arrays /\ b \notin garbage /\ b # emptyBuckets /\ b # Static
  BY <1>1, <1>3, <1>4 DEF Owned, Shared
<1>6. mask[c] < cap[b] /\ mask[c] \in Nat /\ cap[b] \in Nat
  BY <1>3, ArrayFits
<1>7. /\ DOMAIN f = DOMAIN slot[b] \cup {i} /\ f[i] = Bucket(k, p) /\ f[i].key = k /\ f[i].imp = p
      /\ \A j \in DOMAIN slot[b] : j # i => f[j] = slot[b][j]
      /\ f = [j \in DOMAIN f |-> f[j]]
  BY <1>3 DEF Bucket, With
<1>8. Bucket(k, p) \in [key : {0} \cup Selectors, imp : Imps]
  BY DEF Bucket
<1>9. Memory'
  <2>1. ASSUME NEW a \in Arrays \cup {Static}
        PROVE  /\ slot'[a] = [j \in DOMAIN slot'[a] |-> slot'[a][j]]
               /\ DOMAIN slot'[a] \subseteq 0..cap[a] - 1
               /\ \A j \in DOMAIN slot'[a] : slot'[a][j] \in [key : {0} \cup Selectors, imp : Imps]
               /\ a \notin live => DOMAIN slot'[a] = {}
    <3>1. /\ slot[a] = [j \in DOMAIN slot[a] |-> slot[a][j]]
          /\ DOMAIN slot[a] \subseteq 0..cap[a] - 1
          /\ \A j \in DOMAIN slot[a] : slot[a][j] \in [key : {0} \cup Selectors, imp : Imps]
          /\ a \notin live => DOMAIN slot[a] = {}
      BY <1>1 DEF Memory
    <3>2. CASE a = b
      <4>1. i \in 0..cap[b] - 1
        BY <1>6
      <4>2. \A j \in DOMAIN f : f[j] \in [key : {0} \cup Selectors, imp : Imps]
        BY <1>7, <1>8, <3>1, <3>2
      <4>3. DOMAIN f \subseteq 0..cap[b] - 1
        BY <1>7, <3>1, <3>2, <4>1
      <4> QED
        BY <1>4, <1>5, <1>7, <3>2, <4>2, <4>3
    <3>3. CASE a # b
      BY <1>4, <3>1, <3>3
    <3> QED
      BY <3>2, <3>3
  <2>2. \A a \in Arrays \cup {Static} : (a \in live => cap[a] \in Sizes) /\ cap[a] <= MaxCapacity
    BY <1>1 DEF Memory
  <2>3. cap[Static] = EmptyCapacity /\ (emptyBuckets # Static => cap[emptyBuckets] > EmptyCapacity)
        /\ DOMAIN slot[emptyBuckets] = {}
    BY <1>1 DEF Memory
  <2>4. slot'[emptyBuckets] = slot[emptyBuckets]
    BY <1>1, <1>4, <1>5 DEF Types
  <2> QED
    BY <1>2, <2>1, <2>2, <2>3, <2>4 DEF Memory
<1>10. Types' => ArraysOwnedOnce'
  <2>1. Owned'
    BY <1>1, <1>2 DEF Owned, Shared
  <2> QED
    BY <2>1, OwnedNext
<1>11. \A d \in Classes : d # c => buckets[d] # b
  BY <1>1, <1>3 DEF Owned
<1>12. th'[t] = r /\ \A u \in Threads : u # t => th'[u] = th[u]
  BY <1>1 DEF Types, Turns
<1>13. \A d : Flushing(d) => Flushing(d)'
  BY <1>2, <1>12 DEF Flushing
<1>14. ASSUME NEW d \in Classes, d # c PROVE CacheOf(d)' /\ FreshIn(d)'
  <2>1. buckets[d] \in Arrays \cup {Static}
    BY <1>1 DEF Types
  <2>2. Entries(d)' = Entries(d)
    BY <1>2, <1>4, <1>11, <1>14, <2>1 DEF Entries
  <2>3. FreshIn(d)'
    BY <1>2, <1>13, <2>2, FreshFrame
  <2>4. ~Moving(d) /\ ~Moving(d)' /\ \A j : ~Setting(d, j)
    <3>1. \A u \in Threads : u # t => lock # u /\ th[u].pc \notin {"setmask"}
      BY Parts DEF LocksOf, Holding
    <3> QED
      BY <1>12, <1>14, <3>1 DEF Moving, Setting
  <2>5. CacheOf(d)'
    BY <1>2, <1>14, <2>2, <2>4, CacheFrame
  <2> QED
    BY <2>3, <2>5
<1>15. Entries(c)' = f /\ Entries(c) = slot[b]
  BY <1>2, <1>3, <1>4 DEF Entries
<1>16. FreshIn(c)'
  <2>1. FreshIn(c)
    BY Parts
  <2>2. ASSUME NEW j \in DOMAIN f, f[j].key # 0
        PROVE  /\ initializer[c] = NoThread
               /\ \/ f[j].imp = Result(methods, <<c, f[j].key>>)
                  \/ f[j].imp = Result(before, <<c, f[j].key>>) /\ Flushing(c)
    <3>1. CASE j = i
      BY <1>7, <2>2, <3>1
    <3>2. CASE j # i
      BY <1>7, <1>15, <2>1, <2>2, <3>2 DEF FreshIn
    <3> QED
      BY <3>1, <3>2
  <2> QED
    BY <1>2, <1>13, <1>15, <2>2 DEF FreshIn
<1>17. ASSUME NEW u \in Threads, th'[u] = th[u] PROVE ReaderOf(u)' /\ AnswerOf(u)'
  <2>1. \A d \in Classes : mask'[d] \in Nat /\ mask[d] <= mask'[d]
    BY <1>1, <1>2 DEF Types
  <2>2. Scans(u) => KeepsFor(u)
    <3> SUFFICES ASSUME Scans(u) PROVE KeepsFor(u)
      OBVIOUS
    <3>1. PICK a, s : a = th[u].array /\ s = th[u].sel
      OBVIOUS
    <3>2. a \in garbage \cup Shared \cup {buckets[th[u].cls]} /\ a \in Arrays \cup {Static} /\ th[u].cls \in Classes
          /\ s # 0
      BY <1>1, <3>1, Parts, ScannedIs, SelectorsAre DEF ReaderOf, Types, ThreadType
    <3>3. CASE a # b
      <4>1. slot'[a] = slot[a]
        BY <1>4, <3>2, <3>3
      <4> QED
        BY <1>2, <3>1, <3>2, <4>1 DEF KeepsFor, Shared
    <3>4. CASE a = b
      <4>1. th[u].cls = c
        BY <1>5, <1>11, <3>2, <3>4 DEF Shared
      <4>2. \A j \in DOMAIN slot[a] : slot[a][j].key = s => j \in DOMAIN f /\ f[j].key = s
        BY <1>3, <1>7, <3>2, <3>4
      <4>3. ASSUME NEW j \in DOMAIN f, f[j].key = s
            PROVE  \/ j \in DOMAIN slot[a] /\ f[j] = slot[a][j]
                   \/ /\ u \in reading => f[j].imp = Result(methods, <<c, s>>)
                      /\ u \notin reading => f[j].imp \in may[u]
        <5>1. CASE j # i
          BY <1>7, <3>4, <5>1
        <5>2. CASE j = i
          <6>1. f[j].imp = Result(methods, <<c, s>>)
            BY <1>7, <3>2, <4>3, <5>2
          <6>2. th[u].pc \in Reading /\ th[u].sending # NoClass
            BY Parts, ScannedIs, MethodCacheAssumption DEF Scans, Reading
          <6>3. u \notin reading => Message(u) = <<c, s>>
            BY <3>1, <4>1, <6>2, Parts DEF MessageOf, Message
          <6>4. Result(methods, Message(u)) \in may[u]
            BY <6>2, Parts DEF AnswerOf
          <6> QED
            BY <6>1, <6>3, <6>4
        <5> QED
          BY <5>1, <5>2
      <4> QED
        BY <1>2, <1>4, <3>1, <3>2, <3>4, <4>1, <4>2, <4>3 DEF KeepsFor, Shared
    <3> QED
      BY <3>3, <3>4
  <2> QED
    BY <1>2, <1>17, <2>1, <2>2, ReadersFrame
<1> QED
  BY <1>3, <1>4, <1>9, <1>10, <1>14, <1>15, <1>16, <1>17

(* One more bucket in use.                                                 *)
LEMMA OneMore ==
  ASSUME NEW n \in Nat, NEW S \in SUBSET (0..n), NEW i \in 0..n, i \notin S
  PROVE  Cardinality(S \cup {i}) = Cardinality(S) + 1
<1>1. \A x, y \in Int : IsFiniteSet(x..y)
  BY FS_Interval, ZenonT(60)
<1>2. IsFiniteSet(0..n)
  BY <1>1
<1>3. IsFiniteSet(S)
  BY <1>2, FS_Subset
<1> QED
  BY <1>3, FS_AddElement

(* The insertion of an implementation keeps the invariant.                 *)
LEMMA InsertStep ==
  ASSUME IInv, NEW t \in Threads, Insert(t)
  PROVE  IInv'
<1>1. /\ th[t] \in ThreadType /\ th[t].pc = "insert" /\ LocksOf(t) /\ MessageOf(t) /\ AnswerOf(t)
      /\ UpdaterOf(t) /\ Types /\ Memory
  BY Parts DEF Types, Insert, At
<1>2. PICK c, s, p, b : c = th[t].cls /\ s = th[t].sel /\ p = th[t].imp /\ b = buckets[c]
  OBVIOUS
<1>3. lock = t /\ t \in reading /\ writing # t /\ th[t].sending = c /\ c \in Classes /\ s \in Selectors
  BY <1>1, <1>2 DEF LocksOf, MessageOf, ThreadType, Holding, Updating
<1>4. Ready(c, s) /\ p = Result(methods, <<c, s>>) /\ initializer[c] = NoThread
  BY <1>1, <1>2, <1>3 DEF UpdaterOf, AnswerOf, Message, Updating
<1>5. p \in Imps
  BY <1>1, <1>3, <1>4, ResultTyped DEF Types
<1>6. ~Moving(c) /\ ~Moving(c)'
  <2>1. lock' = t /\ th'[t].pc = "setkey"
    BY <1>1, <1>3 DEF Insert, locks, Types, ThreadType
  <2>2. ~Moving(c)
    BY <1>1, <1>3, NotMoving
  <2> QED
    BY <2>1, <2>2 DEF Moving
<1>7. PICK i \in Find(c, s) :
       /\ slot' = [slot EXCEPT ![b] = [j \in DOMAIN @ \cup {i} |-> IF j = i THEN Bucket(0, p) ELSE @[j]]]
       /\ th' = [th EXCEPT ![t].pc = "setkey", ![t].i = i]
       /\ occupied' = IF Key(c, i) # 0 THEN occupied ELSE [occupied EXCEPT ![c] = @ + 1]
  BY <1>2 DEF Insert
<1>8. PICK n \in 0..mask[c] :
        /\ i = Probe(s, mask[c], n) /\ Key(c, i) \in {0, s}
        /\ \A k \in 0..n - 1 : Key(c, Probe(s, mask[c], k)) \notin {0, s}
  BY <1>7 DEF Find
<1>9. PICK E : E = slot[b] /\ E = Entries(c)
  BY <1>2 DEF Entries
<1>10. \A j \in DOMAIN E : E[j].key # 0 /\ E[j].key # s
  <2>1. EntriesOf(c)
    BY <1>3, Parts
  <2>2. \A j : ~Setting(c, j)
    BY <1>1, <1>3 DEF Setting
  <2> QED
    BY <1>4, <1>9, <2>1, <2>2 DEF EntriesOf, Ready
<1>11. i \notin DOMAIN E /\ Key(c, i) = 0
       /\ \A k \in 0..n - 1 : Probe(s, mask[c], k) \in DOMAIN E
  BY <1>2, <1>8, <1>9, <1>10 DEF Key
<1>12. mask[c] < cap[b] /\ mask[c] \in Nat /\ cap[b] \in Nat /\ i \in 0..mask[c] /\ n \in Nat
  <2>1. mask[c] < cap[b] /\ mask[c] \in Nat /\ cap[b] \in Nat
    BY <1>2, <1>3, ArrayFits
  <2>2. n \in Nat /\ s \in Nat
    BY <1>3, <2>1, SelectorsAre
  <2> QED
    BY <1>8, <2>1, <2>2, ProbeIn
<1>13. PICK f : f = [j \in DOMAIN E \cup {i} |-> IF j = i THEN Bucket(0, p) ELSE E[j]]
  OBVIOUS
<1>14. slot' = [slot EXCEPT ![b] = f]
  BY <1>7, <1>9, <1>13
<1>15. occupied' = [occupied EXCEPT ![c] = @ + 1]
  BY <1>7, <1>11
<1>16. PICK r : r = [th[t] EXCEPT !.pc = "setkey", !.i = i]
  OBVIOUS
<1>17. "setkey" \in Labels /\ i \in Nat
  BY <1>12 DEF Labels
<1>18. r \in ThreadType /\ r.pc = "setkey" /\ r.sending = c /\ r.sel = s /\ r.imp = p
       /\ r.cls = c /\ r.todo = th[t].todo /\ r.i = i
  BY <1>1, <1>2, <1>3, <1>16, <1>17 DEF ThreadType
<1>19. th' = [th EXCEPT ![t] = r]
  BY <1>1, <1>7, <1>16 DEF Types
<1>20. /\ methods' = methods /\ before' = before /\ initializer' = initializer
       /\ reading' = reading /\ writing' = writing /\ lock' = lock
       /\ buckets' = buckets /\ mask' = mask /\ emptyBuckets' = emptyBuckets
       /\ may' = may /\ live' = live /\ garbage' = garbage /\ cap' = cap
  BY DEF Insert, program, locks
<1>21. buckets[c] \notin Shared
  BY <1>4 DEF Ready
<1>22. /\ Memory' /\ (Types' => ArraysOwnedOnce')
       /\ slot'[b] = f /\ Entries(c)' = f
       /\ \A d \in Classes : d # c => CacheOf(d)' /\ FreshIn(d)'
       /\ FreshIn(c)'
       /\ \A u \in Threads : u # t /\ th'[u] = th[u] => ReaderOf(u)' /\ AnswerOf(u)'
  <2>1. \A d \in Classes : d # c => occupied'[d] = occupied[d]
    BY <1>1, <1>15 DEF Types
  <2>2. PICK k : k = 0
    OBVIOUS
  <2>3. /\ k \in {0} \cup Selectors /\ (k # 0 => p = Result(methods, <<c, k>>) /\ initializer[c] = NoThread)
        /\ f = With(slot[buckets[c]], i, k, p)
    BY <1>2, <1>9, <1>13, <2>2 DEF With
  <2>4. /\ Stores(buckets[c], f)
        /\ i \in DOMAIN slot[buckets[c]] => slot[buckets[c]][i].key = 0
    BY <1>2, <1>9, <1>11, <1>14 DEF Stores
  <2>5. UNCHANGED <<program, reading, writing, buckets, mask, cap, live, garbage, emptyBuckets, may>>
    BY <1>20 DEF program
  <2>6. th[t].pc \in {"insert", "setkey"} /\ th[t].cls = c /\ r.pc \in {"setkey", "done"} /\ r.todo = th[t].todo
    BY <1>1, <1>2, <1>18
  <2> QED
    <3>1. lock = t /\ c \in Classes /\ buckets[c] \notin Shared /\ ~Moving(c) /\ Turns(t, r)
      BY <1>3, <1>6, <1>19, <1>21 DEF Turns
    <3>2. i \in 0..mask[c] /\ k \in {0} \cup Selectors /\ p \in Imps /\ r \in ThreadType
      BY <1>5, <1>12, <1>18, <2>3
    <3>3. /\ Memory' /\ (Types' => ArraysOwnedOnce')
          /\ slot'[buckets[c]] = f /\ Entries(c)' = f
          /\ \A d \in Classes : d # c => CacheOf(d)' /\ FreshIn(d)'
          /\ FreshIn(c)'
          /\ \A u \in Threads : u # t /\ th'[u] = th[u] => ReaderOf(u)' /\ AnswerOf(u)'
      BY <2>1, <2>3, <2>4, <2>5, <2>6, <3>1, <3>2, BucketFrame, SMTT(60)
    <3> QED
      BY <1>2, <3>3
<1>23. /\ th'[t] = r /\ th' \in [Threads -> ThreadType]
       /\ \A u \in Threads : u # t =>
           /\ th'[u] = th[u] /\ th[u].pc \notin Holding
           /\ LocksOf(u)' /\ MessageOf(u)' /\ LooksOf(u)' /\ UpdaterOf(u)'
  BY <1>3, <1>18, <1>19, <1>20, HolderFrame
<1>24. Types'
  <2>1. occupied' \in [Classes -> Nat]
    BY <1>1, <1>3, <1>15 DEF Types
  <2>2. slot' = [a \in Arrays \cup {Static} |-> slot'[a]]
    BY <1>1, <1>14 DEF Types
  <2> QED
    BY <1>1, <1>3, <1>20, <1>23, <2>1, <2>2 DEF Types
<1>25. LocksOf(t)'
  BY <1>1, <1>3, <1>18, <1>20, <1>23, MethodCacheAssumption DEF LocksOf, Holding, Reading, Updating
<1>26. Locks'
  <2>1. \A u \in Threads : LocksOf(u)'
    BY <1>23, <1>25
  <2>2. (writing # NoThread => reading = {}) /\ (writing = NoThread => before = methods)
    BY Parts DEF Locks
  <2> QED
    BY <1>20, <2>1, <2>2 DEF Locks
<1>27. /\ DOMAIN f = DOMAIN E \cup {i} /\ f[i].key = 0 /\ f[i] = Bucket(0, p)
       /\ \A j \in DOMAIN E : f[j] = E[j]
  BY <1>11, <1>13 DEF Bucket
<1>28. SizeOf(c)'
  <2>1. SizeOf(c)
    BY <1>3, Parts
  <2>2. occupied'[c] = occupied[c] + 1 /\ occupied[c] \in Nat
    BY <1>1, <1>3, <1>15 DEF Types
  <2>3. Cardinality(DOMAIN f) = Cardinality(DOMAIN E) + 1
    <3>1. DOMAIN E \subseteq 0..cap[b] - 1
      BY <1>1, <1>2, <1>3, <1>9 DEF Memory, Types
    <3>2. PICK m : m = cap[b] - 1
      OBVIOUS
    <3>3. m \in Nat /\ DOMAIN E \in SUBSET (0..m) /\ i \in 0..m
      BY <1>12, <3>1, <3>2
    <3> QED
      BY <1>11, <1>27, <3>3, OneMore
  <2>4. Capacity(c)' = Capacity(c) /\ Capacity(c) \in Nat
    BY <1>12, <1>20 DEF Capacity
  <2>5. 4 * occupied'[c] <= 3 * Capacity(c)
    <3>1. PICK q : q = Capacity(c)
      OBVIOUS
    <3>2. occupied'[c] <= (q \div 4) * 3
      BY <1>4, <2>2, <3>1 DEF Ready
    <3>3. q \div 4 \in Nat /\ 4 * (q \div 4) <= q
      BY <2>4, <3>1
    <3> QED
      BY <2>2, <2>4, <3>1, <3>2, <3>3
  <2> QED
    BY <1>6, <1>9, <1>20, <1>22, <2>1, <2>2, <2>3, <2>4, <2>5 DEF SizeOf
<1>29. EntriesOf(c)'
  <2>1. EntriesOf(c)
    BY <1>3, Parts
  <2>2. Setting(c, i)'
    BY <1>3, <1>18, <1>20, <1>23 DEF Setting
  <2>3. ASSUME NEW k, NEW j, Reachable(c, k, j) PROVE Reachable(c, k, j)'
    BY <1>9, <1>20, <1>22, <1>27, <2>3 DEF Reachable
  <2>4. ASSUME NEW j \in DOMAIN f
        PROVE  /\ f[j].key = 0 => Setting(c, j)'
               /\ f[j].key # 0 => Reachable(c, f[j].key, j)'
               /\ \A l \in DOMAIN f : f[j].key = f[l].key => j = l
    <3>1. CASE j = i
      BY <1>10, <1>27, <2>2, <3>1
    <3>2. CASE j # i
      <4>1. j \in DOMAIN E /\ f[j] = E[j] /\ E[j].key # 0
        BY <1>10, <1>27, <3>2
      <4>2. Reachable(c, E[j].key, j) /\ \A l \in DOMAIN E : E[j].key = E[l].key => j = l
        BY <1>9, <2>1, <4>1 DEF EntriesOf
      <4> QED
        BY <1>27, <2>3, <4>1, <4>2
    <3> QED
      BY <3>1, <3>2
  <2> QED
    BY <1>22, <2>4 DEF EntriesOf
<1>30. CacheOf(c)'
  BY <1>28, <1>29 DEF CacheOf
<1>31. MessageOf(t)' /\ ReaderOf(t)' /\ LooksOf(t)'
  BY <1>1, <1>3, <1>18, <1>20, <1>23 DEF MessageOf, ReaderOf, Scans, LooksOf, Reading, Updating
<1>32. UpdaterOf(t)'
  <2>1. Reachable(c, s, i)'
    BY <1>8, <1>11, <1>20, <1>22, <1>27 DEF Reachable
  <2>2. \A j \in DOMAIN f : f[j].key # s
    BY <1>3, <1>10, <1>27, SelectorsAre
  <2>3. buckets'[c] \notin Shared'
    BY <1>20, <1>21 DEF Shared
  <2> QED
    BY <1>18, <1>22, <1>23, <1>27, <2>1, <2>2, <2>3 DEF UpdaterOf
<1>33. AnswerOf(t)'
  <2>1. Message(t)' = Message(t)
    BY <1>2, <1>3, <1>18, <1>23 DEF Message
  <2> QED
    BY <1>1, <1>2, <1>3, <1>18, <1>20, <1>23, <2>1 DEF AnswerOf, Reading, Scans, Updating
<1>34. ASSUME NEW u \in Threads
       PROVE  MessageOf(u)' /\ ReaderOf(u)' /\ LooksOf(u)' /\ UpdaterOf(u)' /\ AnswerOf(u)'
  BY <1>22, <1>23, <1>31, <1>32, <1>33
<1>35. \A d \in Classes : CacheOf(d)' /\ FreshIn(d)'
  BY <1>22, <1>30
<1> QED
  BY <1>22, <1>24, <1>26, <1>34, <1>35 DEF IInv

(* The key that makes an entry visible keeps the invariant.                *)
LEMMA SetKeyStep ==
  ASSUME IInv, NEW t \in Threads, SetKey(t)
  PROVE  IInv'
<1>1. /\ th[t] \in ThreadType /\ th[t].pc = "setkey" /\ LocksOf(t) /\ MessageOf(t) /\ AnswerOf(t)
      /\ UpdaterOf(t) /\ Types /\ Memory
  BY Parts DEF Types, SetKey, At
<1>2. PICK c, s, p, b, i : c = th[t].cls /\ s = th[t].sel /\ p = th[t].imp /\ b = buckets[c] /\ i = th[t].i
  OBVIOUS
<1>3. lock = t /\ t \in reading /\ writing # t /\ th[t].sending = c /\ c \in Classes /\ s \in Selectors
  BY <1>1, <1>2 DEF LocksOf, MessageOf, ThreadType, Holding, Updating
<1>4. p = Result(methods, <<c, s>>) /\ initializer[c] = NoThread /\ p \in may[t]
  BY <1>1, <1>2, <1>3, MethodCacheAssumption DEF AnswerOf, Message, Updating
<1>5. p \in Imps
  BY <1>1, <1>3, <1>4, ResultTyped DEF Types
<1>6. PICK E : E = slot[b] /\ E = Entries(c)
  BY <1>2 DEF Entries
<1>7. /\ buckets[c] \notin Shared /\ i \in DOMAIN E /\ E[i] = Bucket(0, p)
      /\ \A j \in DOMAIN E : E[j].key # s
      /\ Reachable(c, s, i)
  BY <1>1, <1>2, <1>6 DEF UpdaterOf
<1>8. ~Moving(c) /\ lock' = NoThread
  <2>1. ~Moving(c)
    BY <1>1, <1>3, NotMoving
  <2> QED
    BY <2>1 DEF SetKey
<1>9. mask[c] \in Nat /\ i \in 0..mask[c]
  <2>1. PICK n \in 0..mask[c] : i = Probe(s, mask[c], n)
    BY <1>7 DEF Reachable
  <2>2. mask[c] \in Nat /\ s \in Nat
    BY <1>1, <1>3, SelectorsAre DEF Types
  <2>3. n \in Nat
    BY <2>2
  <2> QED
    BY <2>1, <2>2, <2>3, ProbeIn
<1>10. b \in Arrays \cup {Static}
  BY <1>1, <1>2, <1>3 DEF Types
<1>11. PICK f : f = With(E, i, s, p)
  OBVIOUS
<1>12. /\ DOMAIN f = DOMAIN E /\ f[i] = Bucket(s, p) /\ f[i].key = s
       /\ \A j \in DOMAIN E : j # i => f[j] = E[j]
  BY <1>7, <1>11 DEF With, Bucket
<1>13. slot' = [slot EXCEPT ![b] = f]
  <2>1. E = [j \in DOMAIN E |-> E[j]]
    <3>1. slot[b] = [j \in DOMAIN slot[b] |-> slot[b][j]]
      BY <1>1, <1>10 DEF Memory
    <3> QED
      BY <1>6, <3>1
  <2>2. [E[i] EXCEPT !.key = s] = Bucket(s, p)
    BY <1>7 DEF Bucket
  <2>3. [E EXCEPT ![i].key = s] = [E EXCEPT ![i] = Bucket(s, p)]
    BY <2>2
  <2>4. [E EXCEPT ![i] = Bucket(s, p)] = f
    BY <1>7, <1>11, <2>1 DEF With
  <2>5. slot' = [slot EXCEPT ![b] = [@ EXCEPT ![i].key = s]]
    BY <1>2 DEF SetKey
  <2>6. slot' = [slot EXCEPT ![b] = [E EXCEPT ![i].key = s]]
    BY <1>6, <2>5
  <2> QED
    BY <2>3, <2>4, <2>6
<1>14. PICK r : r = Leave(th[t], "done")
  OBVIOUS
<1>15. "done" \in Labels
  BY DEF Labels
<1>16. r \in ThreadType /\ r.pc = "done" /\ r.sending = c /\ r.sel = s /\ r.imp = p /\ r.todo = th[t].todo
  BY <1>1, <1>2, <1>3, <1>14, <1>15, LeaveIs
<1>17. th' = [th EXCEPT ![t] = r]
  BY <1>14 DEF SetKey
<1>18. /\ methods' = methods /\ before' = before /\ initializer' = initializer
       /\ reading' = reading /\ writing' = writing /\ occupied' = occupied
       /\ buckets' = buckets /\ mask' = mask /\ emptyBuckets' = emptyBuckets
       /\ may' = may /\ live' = live /\ garbage' = garbage /\ cap' = cap
  BY DEF SetKey, program, caches
<1>19. /\ Memory' /\ (Types' => ArraysOwnedOnce')
       /\ slot'[b] = f /\ Entries(c)' = f
       /\ \A d \in Classes : d # c => CacheOf(d)' /\ FreshIn(d)'
       /\ FreshIn(c)'
       /\ \A u \in Threads : u # t /\ th'[u] = th[u] => ReaderOf(u)' /\ AnswerOf(u)'
  <2>1. \A d \in Classes : d # c => occupied'[d] = occupied[d]
    BY <1>18
  <2>2. PICK k : k = s
    OBVIOUS
  <2>9. k \in {0} \cup Selectors /\ (k # 0 => p = Result(methods, <<c, k>>) /\ initializer[c] = NoThread)
        /\ f = With(slot[buckets[c]], i, k, p)
    BY <1>2, <1>3, <1>4, <1>6, <1>11, <2>2
  <2>3. /\ Stores(buckets[c], f)
        /\ i \in DOMAIN slot[buckets[c]] => slot[buckets[c]][i].key = 0
    BY <1>2, <1>6, <1>7, <1>13 DEF Stores, Bucket
  <2>4. UNCHANGED <<program, reading, writing, buckets, mask, cap, live, garbage, emptyBuckets, may>>
    BY <1>18 DEF program
  <2>5. th[t].pc \in {"insert", "setkey"} /\ th[t].cls = c /\ r.pc \in {"setkey", "done"} /\ r.todo = th[t].todo
    BY <1>1, <1>2, <1>16
  <2>6. lock = t /\ c \in Classes /\ buckets[c] \notin Shared /\ ~Moving(c) /\ Turns(t, r)
    BY <1>3, <1>7, <1>8, <1>17 DEF Turns
  <2>7. i \in 0..mask[c] /\ p \in Imps /\ r \in ThreadType
    BY <1>5, <1>9, <1>16
  <2>8. /\ Memory' /\ (Types' => ArraysOwnedOnce')
        /\ slot'[buckets[c]] = f /\ Entries(c)' = f
        /\ \A d \in Classes : d # c => CacheOf(d)' /\ FreshIn(d)'
        /\ FreshIn(c)'
        /\ \A u \in Threads : u # t /\ th'[u] = th[u] => ReaderOf(u)' /\ AnswerOf(u)'
    BY <2>1, <2>9, <2>3, <2>4, <2>5, <2>6, <2>7, BucketFrame, SMTT(60)
  <2> QED
    BY <1>2, <2>8
<1>20. /\ th'[t] = r /\ th' \in [Threads -> ThreadType]
       /\ \A u \in Threads : u # t =>
           /\ th'[u] = th[u] /\ th[u].pc \notin Holding
           /\ LocksOf(u)' /\ MessageOf(u)' /\ LooksOf(u)' /\ UpdaterOf(u)'
  <2>1. lock \in {t, NoThread} /\ lock' \in {t, NoThread}
    BY <1>3, <1>8
  <2> QED
    BY <1>16, <1>17, <1>18, <2>1, HolderFrame
<1>21. Types'
  <2>1. slot' = [a \in Arrays \cup {Static} |-> slot'[a]]
    BY <1>1, <1>13 DEF Types
  <2> QED
    BY <1>1, <1>8, <1>18, <1>20, <2>1 DEF Types
<1>22. LocksOf(t)'
  BY <1>1, <1>3, <1>8, <1>16, <1>18, <1>20, MethodCacheAssumption DEF LocksOf, Holding, Reading, Updating
<1>23. Locks'
  <2>1. \A u \in Threads : LocksOf(u)'
    BY <1>20, <1>22
  <2>2. (writing # NoThread => reading = {}) /\ (writing = NoThread => before = methods)
    BY Parts DEF Locks
  <2> QED
    BY <1>18, <2>1, <2>2 DEF Locks
<1>24. ~Moving(c)'
  BY <1>8, MethodCacheAssumption DEF Moving
<1>25. SizeOf(c)'
  <2>1. SizeOf(c)
    BY <1>3, Parts
  <2> QED
    BY <1>6, <1>8, <1>12, <1>18, <1>19, <1>24, <2>1 DEF SizeOf, Capacity
<1>26. EntriesOf(c)'
  <2>1. EntriesOf(c)
    BY <1>3, Parts
  <2>2. \A j : Setting(c, j) => j = i
    BY <1>2, <1>3 DEF Setting
  <2>3. ASSUME NEW k, NEW j, Reachable(c, k, j) PROVE Reachable(c, k, j)'
    BY <1>6, <1>12, <1>18, <1>19, <2>3 DEF Reachable
  <2>4. ASSUME NEW j \in DOMAIN f
        PROVE  /\ f[j].key # 0 /\ Reachable(c, f[j].key, j)'
               /\ \A l \in DOMAIN f : f[j].key = f[l].key => j = l
    <3>1. CASE j = i
      <4>1. s # 0
        BY <1>3, SelectorsAre
      <4> QED
        BY <1>7, <1>12, <2>3, <3>1, <4>1
    <3>2. CASE j # i
      <4>1. j \in DOMAIN E /\ f[j] = E[j] /\ E[j].key # 0 /\ E[j].key # s
        BY <1>6, <1>7, <1>12, <2>1, <2>2, <3>2 DEF EntriesOf
      <4>2. Reachable(c, E[j].key, j) /\ \A l \in DOMAIN E : E[j].key = E[l].key => j = l
        BY <1>6, <2>1, <4>1 DEF EntriesOf
      <4> QED
        BY <1>12, <2>3, <4>1, <4>2
    <3> QED
      BY <3>1, <3>2
  <2> QED
    BY <1>19, <2>4 DEF EntriesOf
<1>27. CacheOf(c)'
  BY <1>25, <1>26 DEF CacheOf
<1>28. MessageOf(t)' /\ ReaderOf(t)' /\ LooksOf(t)' /\ UpdaterOf(t)'
  BY <1>3, <1>16, <1>18, <1>20 DEF MessageOf, ReaderOf, Scans, LooksOf, UpdaterOf, Reading, Updating
<1>29. AnswerOf(t)'
  <2>1. Message(t)' = Message(t)
    BY <1>2, <1>3, <1>16, <1>20 DEF Message
  <2>2. p # NoImp
    BY <1>5, ImpsAre
  <2> QED
    BY <1>1, <1>3, <1>4, <1>16, <1>18, <1>20, <2>1, <2>2 DEF AnswerOf, Reading, Scans, Updating
<1>30. ASSUME NEW u \in Threads
       PROVE  MessageOf(u)' /\ ReaderOf(u)' /\ LooksOf(u)' /\ UpdaterOf(u)' /\ AnswerOf(u)'
  BY <1>19, <1>20, <1>28, <1>29
<1>31. \A d \in Classes : CacheOf(d)' /\ FreshIn(d)'
  BY <1>19, <1>27
<1> QED
  BY <1>19, <1>21, <1>23, <1>30, <1>31 DEF IInv

(* Beginning to flush caches, with methods as they were or changed where   *)
(* the caches of all classes concerned are flushed, keeps the invariant.   *)
LEMMA WriteStep ==
  ASSUME IInv, NEW t \in Threads, NEW classes \in SUBSET Classes, Write(t, classes),
         UNCHANGED <<before, initializer, reading, lock, caches, memory>>,
         methods' \in [Methods -> 0..2], may' = [u \in Threads |-> may'[u]],
         \A u \in Threads : may[u] \subseteq may'[u],
         \A u \in Threads : th[u].sending # NoClass => Result(methods', Message(u)) \in may'[u],
         \A c \in Classes \ classes : \A s : Result(methods', <<c, s>>) = Result(methods, <<c, s>>)
  PROVE  IInv'
<1>1. /\ th[t] \in ThreadType /\ th[t].pc = "idle" /\ LocksOf(t) /\ Types
      /\ reading = {} /\ writing = NoThread /\ before = methods
  BY Parts DEF Types, Write, At, Locks
<1>2. /\ writing' = t /\ before' = methods /\ before' = before /\ initializer' = initializer /\ reading' = {}
      /\ lock' = lock /\ buckets' = buckets /\ mask' = mask /\ occupied' = occupied
      /\ slot' = slot /\ cap' = cap /\ live' = live /\ garbage' = garbage /\ emptyBuckets' = emptyBuckets
  BY <1>1 DEF Write, caches, memory
<1>3. PICK r : r = [Idle EXCEPT !.pc = "flush", !.todo = classes]
  OBVIOUS
<1>4. "flush" \in Labels
  BY DEF Labels
<1>5. r \in ThreadType /\ r.pc = "flush" /\ r.sending = NoClass /\ r.todo = classes
  BY <1>3, <1>4, IdleIs DEF ThreadType
<1>6. th' = [th EXCEPT ![t] = r]
  BY <1>3 DEF Write
<1>7. th'[t] = r /\ th' \in [Threads -> ThreadType] /\ \A u \in Threads : u # t => th'[u] = th[u]
  BY <1>1, <1>5, <1>6 DEF Types
<1>8. Types'
  BY <1>1, <1>2, <1>7 DEF Types
<1>9. Locks'
  <2>1. LocksOf(t)'
    BY <1>1, <1>2, <1>5, <1>7 DEF LocksOf, Holding, Reading, Updating
  <2>2. ASSUME NEW u \in Threads, u # t PROVE LocksOf(u)'
    <3>1. LocksOf(u) /\ writing # u
      BY <1>1, Parts, MethodCacheAssumption
    <3> QED
      BY <1>1, <1>2, <1>7, <2>2, <3>1 DEF LocksOf
  <2> QED
    BY <1>2, <2>1, <2>2, MethodCacheAssumption DEF Locks
<1>10. Memory'
  BY <1>2, Parts DEF Memory
<1>11. ArraysOwnedOnce'
  BY <1>2, Parts DEF ArraysOwnedOnce
<1>12. ASSUME NEW d \in Classes PROVE CacheOf(d)' /\ FreshIn(d)'
  <2>1. Entries(d)' = Entries(d)
    BY <1>2 DEF Entries
  <2>2. (Moving(d)' <=> Moving(d)) /\ \A i : Setting(d, i) => Setting(d, i)'
    BY <1>1, <1>2, <1>5, <1>7 DEF Moving, Setting
  <2>3. CacheOf(d)'
    BY <1>2, <2>1, <2>2, CacheFrame
  <2>4. ~Flushing(d)
    BY <1>1, MethodCacheAssumption DEF Flushing
  <2>5. d \in classes => Flushing(d)'
    BY <1>2, <1>5, <1>7 DEF Flushing
  <2>6. FreshIn(d)
    BY Parts
  <2>7. FreshIn(d)'
    BY <1>2, <2>1, <2>4, <2>5, <2>6 DEF FreshIn
  <2> QED
    BY <2>3, <2>7
<1>13. MessageOf(t)' /\ ReaderOf(t)' /\ LooksOf(t)' /\ UpdaterOf(t)'
  BY <1>2, <1>5, <1>7 DEF MessageOf, ReaderOf, Scans, LooksOf, UpdaterOf, Reading, Updating
<1>14. AnswerOf(t)'
  BY <1>2, <1>5, <1>7 DEF AnswerOf, Reading, Scans, Updating
<1>15. ASSUME NEW u \in Threads, u # t
       PROVE  MessageOf(u)' /\ ReaderOf(u)' /\ LooksOf(u)' /\ UpdaterOf(u)' /\ AnswerOf(u)'
  <2>1. MessageOf(u) /\ ReaderOf(u) /\ LooksOf(u) /\ UpdaterOf(u) /\ AnswerOf(u) /\ th'[u] = th[u]
    BY <1>7, <1>15, Parts
  <2>2. MessageOf(u)' /\ ReaderOf(u)'
    BY <1>1, <1>2, <2>1 DEF MessageOf, ReaderOf, Scans, Shared
  <2>3. LooksOf(u)'
    <3>1. ~Scans(t)'
      BY <1>5, <1>7 DEF Scans
    <3>2. \A v \in Threads : Scans(v)' => Scans(v) /\ th'[v] = th[v]
      BY <1>7, <3>1 DEF Scans
    <3> QED
      BY <1>2, <2>1, <3>2 DEF LooksOf
  <2>4. UpdaterOf(u)'
    BY <1>1, <1>2, <2>1 DEF UpdaterOf, Ready, Shared, Entries, Capacity, Reachable
  <2>5. Message(u)' = Message(u) /\ (Scans(u)' <=> Scans(u))
    BY <2>1 DEF Message, Scans
  <2>6. may[u] \subseteq may'[u] /\ (th[u].sending # NoClass => Result(methods', Message(u)) \in may'[u])
    BY <1>15
  <2>7. th[u].sending # NoClass => Result(before, Message(u)) \in may'[u]
    BY <2>1, <2>6 DEF AnswerOf
  <2>8. Scans(u) => \A i \in DOMAIN slot[th[u].array] :
              slot[th[u].array][i].key = th[u].sel => slot[th[u].array][i].imp \in may'[u]
    BY <1>1, <2>1, <2>6 DEF AnswerOf
  <2>9. th[u].pc = "done" => th[u].imp \in may'[u] /\ th[u].imp # NoImp
    BY <2>1, <2>6 DEF AnswerOf
  <2>10. AnswerOf(u)'
    BY <1>2, <2>1, <2>5, <2>6, <2>7, <2>8, <2>9 DEF AnswerOf
  <2> QED
    BY <2>2, <2>3, <2>4, <2>10
<1>16. ASSUME NEW u \in Threads
       PROVE  MessageOf(u)' /\ ReaderOf(u)' /\ LooksOf(u)' /\ UpdaterOf(u)' /\ AnswerOf(u)'
  BY <1>13, <1>14, <1>15
<1> QED
  BY <1>8, <1>9, <1>10, <1>11, <1>12, <1>16 DEF IInv

(* Adding a method, or replacing its implementation, keeps the invariant.  *)
LEMMA ChangeMethodStep ==
  ASSUME IInv, NEW t \in Threads, NEW m \in Changed, ChangeMethod(t, m)
  PROVE  IInv'
<1>1. Types /\ m \in Methods
  BY Parts DEF Methods
<1>2. methods' = [methods EXCEPT ![m] = IF @ = 1 THEN 2 ELSE 1]
  BY DEF ChangeMethod
<1>3. methods' \in [Methods -> 0..2] /\ \A x \in Methods \ {m} : methods'[x] = methods[x]
  BY <1>1, <1>2 DEF Types
<1>4. may' = [u \in Threads |-> IF may[u] = {} THEN {} ELSE may[u] \cup {Result(methods', <<th[u].sending, th[u].sel>>)}]
  BY DEF ChangeMethod
<1>5. may' = [u \in Threads |-> may'[u]] /\ \A u \in Threads : may[u] \subseteq may'[u]
  BY <1>4
<1>6. ASSUME NEW u \in Threads, th[u].sending # NoClass PROVE Result(methods', Message(u)) \in may'[u]
  <2>1. may[u] # {}
    BY <1>6, Parts DEF AnswerOf
  <2> QED
    BY <1>4, <2>1 DEF Message
<1>7. UNCHANGED <<before, initializer, reading, lock, caches, memory>>
  BY DEF ChangeMethod
<1>8. CASE Write(t, Subclasses(m[1]))
  <2>1. Subclasses(m[1]) \in SUBSET Classes
    BY DEF Subclasses
  <2>2. ASSUME NEW c \in Classes \ Subclasses(m[1]), NEW s
        PROVE  Result(methods', <<c, s>>) = Result(methods, <<c, s>>)
    BY <1>1, <1>3, ChangesBelow
  <2> QED
    BY <1>3, <1>5, <1>6, <1>7, <1>8, <2>1, <2>2, WriteStep
<1>9. CASE Write(t, Classes)
  BY <1>3, <1>5, <1>6, <1>7, <1>9, WriteStep
<1> QED
  BY <1>8, <1>9 DEF ChangeMethod

(* Flushing the caches of all classes keeps the invariant.                 *)
LEMMA FlushAllStep ==
  ASSUME IInv, NEW t \in Threads, FlushAll(t)
  PROVE  IInv'
<1>1. methods' = methods /\ may' = may /\ Write(t, Classes)
      /\ UNCHANGED <<before, initializer, reading, lock, caches, memory>>
  BY DEF FlushAll, program
<1>2. methods' \in [Methods -> 0..2] /\ may' = [u \in Threads |-> may'[u]]
  BY <1>1, Parts DEF Types
<1>3. \A u \in Threads : th[u].sending # NoClass => Result(methods', Message(u)) \in may'[u]
  BY <1>1, Parts DEF AnswerOf
<1> QED
  BY <1>1, <1>2, <1>3, WriteStep

(* The states in which a program begins to send messages satisfy the       *)
(* invariant, with a cache that holds entries too.                         *)
LEMMA InitStep == Init => IInv
<1> SUFFICES ASSUME Init PROVE IInv
  OBVIOUS
<1>1. AtFirst \in [Methods -> 0..2]
  BY DEF AtFirst
<1>2. /\ methods = AtFirst /\ before = AtFirst /\ reading = {} /\ writing = NoThread /\ lock = NoThread
      /\ garbage = {} /\ emptyBuckets = Static
      /\ th = [t \in Threads |-> Idle] /\ may = [t \in Threads |-> {}]
  BY DEF Init
<1>3. th \in [Threads -> ThreadType] /\ \A t \in Threads : th[t].pc = "idle" /\ th[t].sending = NoClass /\ th[t].todo = {}
  BY <1>2, IdleIs
<1>4. Locks
  <2>1. ASSUME NEW t \in Threads PROVE LocksOf(t)
    BY <1>2, <1>3, <2>1, MethodCacheAssumption DEF LocksOf, Holding, Reading, Updating
  <2> QED
    BY <1>2, <2>1 DEF Locks
<1>5. ASSUME NEW t \in Threads PROVE MessageOf(t) /\ ReaderOf(t) /\ LooksOf(t) /\ UpdaterOf(t) /\ AnswerOf(t)
  BY <1>2, <1>3, <1>5 DEF MessageOf, ReaderOf, Scans, LooksOf, UpdaterOf, AnswerOf, Reading, Updating
<1>6. \A d : ~Moving(d) /\ \A i : ~Setting(d, i)
  BY <1>2, MethodCacheAssumption DEF Moving, Setting
<1>7. InitCacheSize \in Sizes /\ InitCacheSize \in Nat /\ InitCacheSize >= 4 /\ InitCacheSize <= MaxCapacity
      /\ EmptyCapacity \in Nat /\ MaxCapacity \in Nat /\ EmptyCapacity <= MaxCapacity /\ Static \notin Arrays /\ InitCacheSize - 1 \in Nat
  BY SizesAre, MethodCacheAssumption
<1>8. PICK e : e = <<>>
  OBVIOUS
<1>9. DOMAIN e = {} /\ e = [i \in DOMAIN e |-> e[i]] /\ Cardinality(DOMAIN e) = 0
  <2>1. DOMAIN e = {}
    BY <1>8
  <2> QED
    BY <1>8, <2>1, FS_EmptySet
<1>10. ASSUME NEW w \in Classes \cup {NoClass}, NEW a \in Arrays \cup {Static}, NEW E,
              w = NoClass <=> a = Static,
              initializer \in [Classes -> Threads \cup {NoThread}],
              w # NoClass => initializer = [c \in Classes |-> NoThread],
              buckets = [c \in Classes |-> IF c = w THEN a ELSE Static],
              mask = [c \in Classes |-> IF c = w THEN InitCacheSize - 1 ELSE 0],
              occupied = [c \in Classes |-> IF c = w THEN Cardinality(DOMAIN E) ELSE 0],
              slot = [b \in Arrays \cup {Static} |-> IF b = a /\ a # Static THEN E ELSE e],
              cap = [b \in Arrays \cup {Static} |-> IF b = Static THEN EmptyCapacity
                                                 ELSE IF b = a THEN InitCacheSize ELSE 0],
              live = IF a = Static THEN {} ELSE {a},
              w # NoClass =>
                /\ E = [i \in DOMAIN E |-> E[i]] /\ DOMAIN E \subseteq 0..InitCacheSize - 1
                /\ Cardinality(DOMAIN E) \in Nat /\ 4 * Cardinality(DOMAIN E) <= 3 * InitCacheSize
                /\ \A i \in DOMAIN E :
                     /\ E[i] \in [key : Selectors, imp : Imps]
                     /\ E[i].imp = Result(AtFirst, <<w, E[i].key>>)
                     /\ \A j \in DOMAIN E : E[i].key = E[j].key => i = j
                     /\ \E n \in 0..InitCacheSize - 1 :
                          /\ i = Probe(E[i].key, InitCacheSize - 1, n)
                          /\ \A k \in 0..n - 1 : Probe(E[i].key, InitCacheSize - 1, k) \in DOMAIN E
       PROVE  IInv
  <2>1. NoClass \notin Classes
    BY MethodCacheAssumption
  <2>2. Types
    BY <1>1, <1>2, <1>3, <1>7, <1>10, <2>1 DEF Types
  <2>3. Memory
    <3>1. ASSUME NEW b \in Arrays \cup {Static}
          PROVE  /\ slot[b] = [i \in DOMAIN slot[b] |-> slot[b][i]]
                 /\ DOMAIN slot[b] \subseteq 0..cap[b] - 1
                 /\ \A i \in DOMAIN slot[b] : slot[b][i] \in [key : {0} \cup Selectors, imp : Imps]
                 /\ b \notin live => DOMAIN slot[b] = {}
                 /\ b \in live => cap[b] \in Sizes
                 /\ cap[b] <= MaxCapacity
      <4>1. CASE b = a /\ a # Static
        <5>1. slot[b] = E /\ cap[b] = InitCacheSize /\ b \in live /\ w # NoClass
          BY <1>10, <4>1
        <5>2. \A i \in DOMAIN E : E[i] \in [key : {0} \cup Selectors, imp : Imps]
          BY <1>10, <5>1
        <5> QED
          BY <1>7, <1>10, <5>1, <5>2
      <4>2. CASE ~(b = a /\ a # Static)
        <5>1. slot[b] = e /\ b \notin live /\ cap[b] \in {EmptyCapacity, 0}
          BY <1>7, <1>10, <4>2
        <5>2. slot[b] = [i \in DOMAIN slot[b] |-> slot[b][i]] /\ DOMAIN slot[b] = {}
          BY <1>9, <5>1
        <5>3. cap[b] <= MaxCapacity
          BY <1>7, <5>1
        <5> QED
          BY <5>1, <5>2, <5>3
      <4> QED
        BY <4>1, <4>2
    <3>2. cap[Static] = EmptyCapacity /\ DOMAIN slot[Static] = {}
      BY <1>9, <1>10
    <3> QED
      BY <1>2, <3>1, <3>2 DEF Memory
  <2>4. ArraysOwnedOnce
    <3>1. Owned
      BY <1>2, <1>7, <1>10, <2>1 DEF Owned, Shared
    <3> QED
      BY <2>2, <3>1, OwnedIs
  <2>5. ASSUME NEW c \in Classes PROVE CacheOf(c) /\ FreshIn(c)
    <3>1. CASE c = w
      <4>1. /\ Entries(c) = E /\ buckets[c] = a /\ a # Static /\ mask[c] = InitCacheSize - 1 /\ cap[a] = InitCacheSize
            /\ occupied[c] = Cardinality(DOMAIN E) /\ initializer[c] = NoThread /\ w # NoClass
        BY <1>10, <2>1, <2>5, <3>1 DEF Entries
      <4>2. Capacity(c) = InitCacheSize
        BY <1>7, <4>1 DEF Capacity
      <4>3. SizeOf(c)
        BY <1>6, <1>7, <1>10, <4>1, <4>2 DEF SizeOf
      <4>4. \A i \in DOMAIN E : E[i].key # 0 /\ Reachable(c, E[i].key, i)
        <5>1. \A i \in DOMAIN E : E[i].key # 0
          BY <1>10, <4>1, SelectorsAre
        <5> QED
          BY <1>10, <4>1, <5>1 DEF Reachable
      <4>5. EntriesOf(c)
        BY <1>10, <4>1, <4>4 DEF EntriesOf
      <4>6. FreshIn(c)
        BY <1>2, <1>10, <3>1, <4>1 DEF FreshIn
      <4> QED
        BY <4>3, <4>5, <4>6 DEF CacheOf
    <3>2. CASE c # w
      <4>1. DOMAIN Entries(c) = {} /\ buckets[c] = Static /\ mask[c] = 0 /\ occupied[c] = 0
            /\ Cardinality(DOMAIN Entries(c)) = 0
        BY <1>9, <1>10, <2>5, <3>2 DEF Entries
      <4>2. Capacity(c) = 0
        BY <4>1 DEF Capacity
      <4>3. SizeOf(c)
        BY <1>6, <1>7, <4>1, <4>2 DEF SizeOf
      <4>4. EntriesOf(c) /\ FreshIn(c)
        BY <4>1 DEF EntriesOf, FreshIn
      <4> QED
        BY <4>3, <4>4 DEF CacheOf
    <3> QED
      BY <3>1, <3>2
  <2> QED
    BY <1>4, <1>5, <2>2, <2>3, <2>4, <2>5 DEF IInv
<1>11. CASE /\ initializer \in {[c \in Classes |-> IF Super[c] = NoClass THEN NoThread ELSE t] : t \in Threads}
            /\ buckets = [c \in Classes |-> Static]
            /\ mask = [c \in Classes |-> 0]
            /\ occupied = [c \in Classes |-> 0]
            /\ slot = [a \in Arrays \cup {Static} |-> <<>>]
            /\ cap = [a \in Arrays \cup {Static} |-> IF a = Static THEN EmptyCapacity ELSE 0]
            /\ live = {}
  <2>1. initializer \in [Classes -> Threads \cup {NoThread}]
    BY <1>11
  <2>2. PICK w, a, E : w = NoClass /\ a = Static /\ E = e
    OBVIOUS
  <2>3. /\ buckets = [c \in Classes |-> IF c = w THEN a ELSE Static]
        /\ mask = [c \in Classes |-> IF c = w THEN InitCacheSize - 1 ELSE 0]
        /\ occupied = [c \in Classes |-> IF c = w THEN Cardinality(DOMAIN E) ELSE 0]
        /\ slot = [b \in Arrays \cup {Static} |-> IF b = a /\ a # Static THEN E ELSE e]
        /\ cap = [b \in Arrays \cup {Static} |-> IF b = Static THEN EmptyCapacity
                                                 ELSE IF b = a THEN InitCacheSize ELSE 0]
        /\ live = IF a = Static THEN {} ELSE {a}
    BY <1>8, <1>11, <2>2, MethodCacheAssumption
  <2> QED
    BY <1>10, <2>1, <2>2, <2>3
<1>12. ASSUME NEW a \in Arrays,
              initializer = [c \in Classes |-> NoThread],
              buckets = [c \in Classes |-> IF c = Warm THEN a ELSE Static],
              mask = [c \in Classes |-> IF c = Warm THEN InitCacheSize - 1 ELSE 0],
              occupied = [c \in Classes |-> IF c = Warm THEN Cardinality(DOMAIN Cached) ELSE 0],
              slot = [b \in Arrays \cup {Static} |-> IF b = a THEN Cached ELSE <<>>],
              cap = [b \in Arrays \cup {Static} |-> IF b = Static THEN EmptyCapacity
                                                 ELSE IF b = a THEN InitCacheSize ELSE 0],
              live = {a}
       PROVE  IInv
  <2>1. a # Static /\ Warm # NoClass /\ Warm \in Classes
    BY <1>7, <1>12, WarmAssumption, MethodCacheAssumption
  <2>2. initializer \in [Classes -> Threads \cup {NoThread}]
    BY <1>12
  <2>3. /\ slot = [b \in Arrays \cup {Static} |-> IF b = a /\ a # Static THEN Cached ELSE e]
        /\ live = IF a = Static THEN {} ELSE {a}
    BY <1>8, <1>12, <2>1
  <2>4. Cardinality(DOMAIN Cached) \in Nat
    <3>1. PICK m : m = InitCacheSize - 1
      OBVIOUS
    <3>2. m \in Nat /\ DOMAIN Cached \subseteq 0..m
      BY <1>7, <3>1, WarmAssumption
    <3>3. \A x, y \in Int : IsFiniteSet(x..y)
      BY FS_Interval, ZenonT(60)
    <3>4. IsFiniteSet(0..m)
      BY <3>2, <3>3
    <3> QED
      BY <3>2, <3>4, FS_Subset, FS_CardinalityType
  <2>5. ASSUME NEW i \in DOMAIN Cached
        PROVE  /\ Cached[i] \in [key : Selectors, imp : Imps]
               /\ Cached[i].imp = Result(AtFirst, <<Warm, Cached[i].key>>)
               /\ \A j \in DOMAIN Cached : Cached[i].key = Cached[j].key => i = j
               /\ \E n \in 0..InitCacheSize - 1 :
                    /\ i = Probe(Cached[i].key, InitCacheSize - 1, n)
                    /\ \A k \in 0..n - 1 : Probe(Cached[i].key, InitCacheSize - 1, k) \in DOMAIN Cached
    <3>1. PICK s \in Selectors :
         /\ Cached[i] = Bucket(s, Result(AtFirst, <<Warm, s>>))
         /\ \A j \in DOMAIN Cached : Cached[j].key = s => j = i
         /\ \E n \in 0..InitCacheSize - 1 :
              /\ i = Probe(s, InitCacheSize - 1, n)
              /\ \A k \in 0..n - 1 : Probe(s, InitCacheSize - 1, k) \in DOMAIN Cached
      BY <2>5, WarmAssumption DEF Selectors
    <3>2. Cached[i].key = s /\ Cached[i].imp = Result(AtFirst, <<Warm, s>>)
          /\ Cached[i] = [key |-> s, imp |-> Result(AtFirst, <<Warm, s>>)]
      BY <3>1 DEF Bucket
    <3>3. Result(AtFirst, <<Warm, s>>) \in Imps
      BY <1>1, <2>1, ResultTyped
    <3>4. \A j \in DOMAIN Cached : Cached[i].key = Cached[j].key => i = j
      BY <3>1, <3>2
    <3>5. Cached[i] \in [key : Selectors, imp : Imps]
      BY <3>2, <3>3
    <3> QED
      BY <3>1, <3>2, <3>4, <3>5
  <2> QED
    BY <1>7, <1>10, <1>12, <2>1, <2>2, <2>3, <2>4, <2>5, WarmAssumption
<1> QED
  BY <1>11, <1>12 DEF Init

(* Each step keeps the invariant.                                          *)
THEOREM InductiveStep == IInv /\ [Next]_vars => IInv'
<1> SUFFICES ASSUME IInv, [Next]_vars PROVE IInv'
  OBVIOUS
<1>1. ASSUME NEW t \in Threads, Step(t) PROVE IInv'
  <2>1. CASE LoadBuckets(t) \/ CompareKey(t) \/ CompareEnd(t) \/ LoadImp(t)
    BY <2>1, LoadBucketsStep, CompareKeyStep, CompareEndStep, LoadImpStep
  <2>2. CASE LockRead(t) \/ Resolve(t) \/ Done(t)
    BY <2>2, LockReadStep, ResolveStep, DoneStep
  <2>3. CASE SetMask(t) \/ (\E u \in Threads : Look(t, u)) \/ Free(t)
    BY <2>3, SetMaskStep, LookStep, FreeStep
  <2>4. CASE Fill(t) \/ Insert(t) \/ SetKey(t)
    BY <2>4, FillStep, InsertStep, SetKeyStep
  <2>5. CASE LockFlush(t) \/ (\E c \in Classes : Erase(t, c)) \/ Erased(t) \/ CollectALot(t)
    BY <2>5, LockFlushStep, EraseStep, ErasedStep, CollectALotStep
  <2> QED
    BY <1>1, <2>1, <2>2, <2>3, <2>4, <2>5 DEF Step
<1>2. CASE UNCHANGED vars
  <2>1. /\ methods' = methods /\ before' = before /\ initializer' = initializer
        /\ reading' = reading /\ writing' = writing /\ lock' = lock
        /\ buckets' = buckets /\ mask' = mask /\ occupied' = occupied
        /\ slot' = slot /\ cap' = cap /\ live' = live /\ garbage' = garbage /\ emptyBuckets' = emptyBuckets
        /\ th' = th /\ may' = may
    BY <1>2 DEF vars, program, locks, caches, memory
  <2>2. Types' /\ Memory' /\ ArraysOwnedOnce'
    <3>1. Types'
      BY <2>1, Parts DEF Types
    <3>2. Memory'
      BY <2>1, Parts DEF Memory
    <3>3. ArraysOwnedOnce'
      BY <2>1, Parts DEF ArraysOwnedOnce
    <3> QED
      BY <3>1, <3>2, <3>3
  <2>3. Locks'
    BY <2>1, Parts DEF Locks, LocksOf
  <2>4. ASSUME NEW d \in Classes PROVE CacheOf(d)' /\ FreshIn(d)'
    <3>1. Entries(d)' = Entries(d)
      BY <2>1 DEF Entries
    <3>2. (Moving(d)' <=> Moving(d)) /\ (Flushing(d)' <=> Flushing(d)) /\ \A i : Setting(d, i) => Setting(d, i)'
      BY <2>1 DEF Moving, Flushing, Setting
    <3> QED
      BY <2>1, <3>1, <3>2, CacheFrame, FreshFrame
  <2>5. ASSUME NEW u \in Threads PROVE MessageOf(u)' /\ ReaderOf(u)' /\ LooksOf(u)' /\ UpdaterOf(u)' /\ AnswerOf(u)'
    <3>1. MessageOf(u) /\ ReaderOf(u) /\ LooksOf(u) /\ UpdaterOf(u) /\ AnswerOf(u)
      BY Parts
    <3>2. MessageOf(u)' /\ ReaderOf(u)'
      BY <2>1, <3>1 DEF MessageOf, ReaderOf, Scans, Shared
    <3>3. LooksOf(u)'
      BY <2>1, <3>1 DEF LooksOf, Scans
    <3>4. UpdaterOf(u)'
      BY <2>1, <3>1 DEF UpdaterOf, Ready, Shared, Entries, Capacity, Reachable
    <3>5. AnswerOf(u)'
      BY <2>1, <3>1 DEF AnswerOf, Scans, Message
    <3> QED
      BY <3>2, <3>3, <3>4, <3>5
  <2> QED
    BY <2>2, <2>3, <2>4, <2>5 DEF IInv
<1> QED
  <2>1. CASE Next
    <3>1. PICK t \in Threads :
            \/ Step(t)
            \/ Room /\ \E m \in Messages : Send(t, m)
            \/ Room /\ \E m \in Changed : ChangeMethod(t, m)
            \/ FlushAll(t)
            \/ \E c \in Classes : SetInitialized(t, c)
      BY <2>1 DEF Next
    <3> QED
      BY <1>1, <3>1, SendStep, ChangeMethodStep, FlushAllStep, SetInitializedStep
  <2> QED
    BY <1>2, <2>1

(* The inductive invariant holds.                                          *)
THEOREM SpecIInv == Spec => []IInv
<1> QED
  BY InitStep, InductiveStep, PTL DEF Spec

(* A reader only looks at memory that is allocated and within it.          *)
THEOREM ReadersAreSafe == Spec => []ReadersSafe
<1>1. IInv => ReadersSafe
  <2> SUFFICES ASSUME IInv, NEW t \in Threads, th[t].pc \in {"key", "end", "imp"}
               PROVE  /\ th[t].array \in live \cup {Static}
                      /\ th[t].i < cap[th[t].array] + IF th[t].array \in {Static, emptyBuckets} THEN 0 ELSE 1
    BY DEF ReadersSafe
  <2>1. Scans(t)
    BY DEF Scans
  <2>2. PICK a, i, n : a = th[t].array /\ i = th[t].i /\ n = cap[a]
    OBVIOUS
  <2>3. a \in live \cup {Static} /\ i \in Nat /\ n \in Nat /\ i <= n /\ (a \in {Static, emptyBuckets} => i < n)
    BY <2>1, <2>2, ScannedIs DEF Shared
  <2> QED
    BY <2>2, <2>3
<1> QED
  BY <1>1, SpecIInv, PTL

(* A cached entry is what the class would find now.                        *)
THEOREM EntriesAreFresh == Spec => []NoStaleEntry
<1>1. IInv => NoStaleEntry
  <2> SUFFICES ASSUME IInv, NEW c \in Classes, NEW i \in DOMAIN slot[buckets[c]],
                      slot[buckets[c]][i].key # 0
               PROVE  /\ writing = NoThread =>
                           slot[buckets[c]][i].imp = Result(methods, <<c, slot[buckets[c]][i].key>>)
                      /\ initializer[c] = NoThread
    BY DEF NoStaleEntry
  <2>1. FreshIn(c) /\ Locks
    BY Parts
  <2>2. writing = NoThread => before = methods
    BY <2>1 DEF Locks
  <2> QED
    BY <2>1, <2>2 DEF FreshIn, Entries
<1> QED
  BY <1>1, SpecIInv, PTL

(* Caches are arrays of their own, none of which leaks, and never full.    *)
THEOREM ArraysAreSound == Spec => []ArraysSound
<1>1. IInv => TypeOK
  <2> SUFFICES ASSUME IInv PROVE TypeOK
    OBVIOUS
  <2>1. Types /\ Memory /\ Owned /\ \A c \in Classes : SizeOf(c)
    BY Parts, OwnedIs
  <2>2. live \subseteq Arrays /\ garbage \subseteq live /\ emptyBuckets \in live \cup {Static}
    BY <2>1 DEF Owned, Types
  <2>3. ASSUME NEW c \in Classes
        PROVE  mask[c] \in 0..MaxCapacity - 1 /\ occupied[c] \in 0..MaxCapacity
    <3>1. mask[c] \in Nat /\ occupied[c] \in Nat /\ MaxCapacity \in Nat /\ MaxCapacity >= 4
      BY <2>1, MethodCacheAssumption DEF Types
    <3>2. mask[c] = 0 \/ (mask[c] + 1 <= MaxCapacity)
      BY <2>1, SizesAre DEF SizeOf
    <3>3. 4 * occupied[c] <= 3 * Capacity(c) /\ Capacity(c) = IF mask[c] = 0 THEN 0 ELSE mask[c] + 1
      BY <2>1 DEF SizeOf, Capacity
    <3> QED
      BY <3>1, <3>2, <3>3
  <2>4. mask \in [Classes -> 0..MaxCapacity - 1] /\ occupied \in [Classes -> 0..MaxCapacity]
    BY <2>1, <2>3 DEF Types
  <2>5. ASSUME NEW a \in Arrays \cup {Static}
        PROVE  /\ cap[a] \in 0..MaxCapacity
               /\ DOMAIN slot[a] \subseteq 0..cap[a] - 1
               /\ \A i \in DOMAIN slot[a] : slot[a][i] \in Buckets
    <3>1. cap[a] \in Nat /\ cap[a] <= MaxCapacity /\ MaxCapacity \in Nat /\ DOMAIN slot[a] \subseteq 0..cap[a] - 1
          /\ \A i \in DOMAIN slot[a] : slot[a][i] \in [key : {0} \cup Selectors, imp : Imps]
      BY <2>1, MethodCacheAssumption DEF Types, Memory
    <3>2. \A b \in [key : {0} \cup Selectors, imp : Imps] : b \in Buckets
      <4> SUFFICES ASSUME NEW b \in [key : {0} \cup Selectors, imp : Imps] PROVE b \in Buckets
        OBVIOUS
      <4>1. PICK k \in {0} \cup Selectors, p \in Imps : b = [key |-> k, imp |-> p]
        OBVIOUS
      <4>2. b = Bucket(k, p)
        BY <4>1 DEF Bucket
      <4> QED
        BY <4>2 DEF Buckets, Selectors, Imps
    <3> QED
      BY <3>1, <3>2
  <2>6. ASSUME NEW t \in Threads
        PROVE  /\ th[t].pc \in {"idle", "buckets", "key", "end", "imp", "search", "resolve", "done",
                        "fill", "insert", "setkey", "setmask", "look", "flush", "erase", "collect"}
               /\ th[t].sending \in Classes \cup {NoClass} /\ th[t].unseen \subseteq Threads
    <3>1. th[t] \in ThreadType
      BY <2>1 DEF Types
    <3> QED
      BY <3>1 DEF ThreadType, Labels
  <2> QED
    BY <2>1, <2>2, <2>4, <2>5, <2>6 DEF TypeOK, Types
<1>2. IInv => SearchEnds
  <2> SUFFICES ASSUME IInv, lock = NoThread, NEW c \in Classes
               PROVE  /\ occupied[c] = Cardinality(DOMAIN slot[buckets[c]])
                      /\ \A i, j \in DOMAIN slot[buckets[c]] : slot[buckets[c]][i].key = slot[buckets[c]][j].key => i = j
                      /\ 4 * occupied[c] <= 3 * Capacity(c)
    BY DEF SearchEnds
  <2>1. SizeOf(c) /\ EntriesOf(c)
    BY Parts
  <2>2. ~Moving(c)
    BY NotMoving
  <2> QED
    BY <2>1, <2>2 DEF SizeOf, EntriesOf, Entries
<1>3. IInv => ArraysSound
  BY <1>1, <1>2, Parts DEF ArraysSound
<1> QED
  BY <1>3, SpecIInv, PTL

(* What D has for the message a thread sends, and for its answer.          *)
Sent(t) == IF th[t].sending = NoClass THEN NoImp ELSE <<th[t].sending, th[t].sel>>
Answer(t) == IF At(t, "done") THEN th[t].imp ELSE NoImp

(* A thread that sends nothing may be answered with nothing.               *)
Quiet == \A t \in Threads : th[t].sending = NoClass => may[t] = {}

(* A message is not the absence of one.                                    *)
LEMMA SentIs == \A t : Sent(t) = NoImp <=> th[t].sending = NoClass
<1>1. \A c, s : <<c, s>> # <<>>
  OBVIOUS
<1> QED
  BY <1>1 DEF Sent, NoImp

(* A step of a thread that goes on with the message it sends.              *)
LEMMA GoesOn ==
  ASSUME IInv, IInv', Quiet, NEW t \in Threads, NEW r, th' = [th EXCEPT ![t] = r],
         r.sending = th[t].sending, th[t].sending # NoClass => r.sel = th[t].sel,
         th[t].pc # "done", methods' = methods, before' = before \/ before' = methods, may' = may,
         r.pc = "done" => before' = before
  PROVE  [D!Next]_(D!vars) /\ Quiet'
<1>1. Types
  BY Parts
<1>2. th'[t] = r /\ \A u \in Threads : u # t => th'[u] = th[u]
  BY <1>1 DEF Types
<1>3. \A u \in Threads : Sent(u)' = Sent(u)
  BY <1>2 DEF Sent
<1>4. [u \in Threads |-> Sent(u)]' = [u \in Threads |-> Sent(u)]
  BY <1>3
<1>5. Quiet'
  BY <1>2 DEF Quiet
<1>6. CASE r.pc # "done"
  <2>1. \A u \in Threads : Answer(u)' = Answer(u)
    BY <1>2, <1>6 DEF Answer, At
  <2>2. [u \in Threads |-> Answer(u)]' = [u \in Threads |-> Answer(u)]
    BY <2>1
  <2>3. CASE before' = before
    <3>1. UNCHANGED D!vars
      BY <1>4, <2>2, <2>3 DEF D!vars, Sent, Answer
    <3> QED
      BY <1>5, <3>1
  <2>4. CASE before' = methods
    <3>1. D!EndChange
      BY <1>4, <2>2, <2>4 DEF D!EndChange, Sent, Answer
    <3> QED
      BY <1>5, <3>1 DEF D!Next
  <2> QED
    BY <2>3, <2>4
<1>7. CASE r.pc = "done"
  <2>1. AnswerOf(t)' /\ LocksOf(t)'
    BY DEF IInv, Locks
  <2>2. r.imp \in may[t] /\ r.sending # NoClass
    BY <1>2, <1>7, <2>1 DEF AnswerOf, LocksOf
  <2>3. [u \in Threads |-> Answer(u)]' = [[u \in Threads |-> Answer(u)] EXCEPT ![t] = r.imp]
    <3>1. Answer(t)' = r.imp /\ \A u \in Threads : u # t => Answer(u)' = Answer(u)
      BY <1>2, <1>7 DEF Answer, At
    <3> QED
      BY <3>1
  <2>4. Answer(t) = NoImp /\ Sent(t) # NoImp
    BY <2>2, SentIs DEF Answer, At
  <2>5. D!Answer(t)
    BY <1>4, <1>7, <2>2, <2>3, <2>4 DEF D!Answer, Sent, Answer
  <2> QED
    BY <1>5, <2>5 DEF D!Next
<1> QED
  BY <1>6, <1>7

(* What a thread reads or writes in a cache, it does for the message it    *)
(* sends.                                                                  *)
LEMMA StepsGoOn ==
  ASSUME IInv, IInv', Quiet, NEW t \in Threads, Step(t), ~Done(t)
  PROVE  [D!Next]_(D!vars) /\ Quiet'
<1>1. th[t] \in ThreadType /\ LocksOf(t) /\ MessageOf(t) /\ Types
  BY Parts DEF Types
<1>2. ASSUME NEW r, th' = [th EXCEPT ![t] = r], r.sending = th[t].sending, r.sel = th[t].sel,
             th[t].pc # "done", UNCHANGED <<program, may>>
      PROVE  [D!Next]_(D!vars) /\ Quiet'
  <2>1. methods' = methods /\ before' = before /\ may' = may
    BY <1>2 DEF program
  <2> QED
    BY <1>2, <2>1, GoesOn
<1>3. \A me \in ThreadType : \A label \in Labels : Leave(me, label).sending = me.sending /\ Leave(me, label).sel = me.sel
                                                  /\ Leave(me, label) \in ThreadType
  BY LeaveIs
<1>4. {"search", "resolve", "done", "fill", "erase", "insert", "look", "buckets"} \subseteq Labels
  BY DEF Labels
<1>5. CASE LoadBuckets(t)
  <2>1. PICK r : r = [th[t] EXCEPT !.array = buckets[th[t].cls], !.i = Hash(th[t].sel, th[t].mask),
                                   !.wrapped = FALSE, !.pc = "key"]
    OBVIOUS
  <2>2. r.sending = th[t].sending /\ r.sel = th[t].sel
    BY <1>1, <2>1 DEF ThreadType
  <2>3. th' = [th EXCEPT ![t] = r] /\ th[t].pc # "done" /\ UNCHANGED <<program, may>>
    BY <1>5, <2>1 DEF LoadBuckets, At
  <2> QED
    BY <1>2, <2>2, <2>3
<1>6. CASE CompareKey(t)
  <2>1. PICK r : r = [th[t] EXCEPT !.pc = IF Here(t).key = th[t].sel THEN "imp" ELSE "end"]
    OBVIOUS
  <2>2. r.sending = th[t].sending /\ r.sel = th[t].sel
    BY <1>1, <2>1 DEF ThreadType
  <2>3. th' = [th EXCEPT ![t] = r] /\ th[t].pc # "done" /\ UNCHANGED <<program, may>>
    BY <1>1, <1>6, <2>1 DEF CompareKey, At, Goto, Types
  <2> QED
    BY <1>2, <2>2, <2>3
<1>7. AfterMiss(t).sending = th[t].sending /\ AfterMiss(t).sel = th[t].sel
  <2>1. PICK me, v : me = th[t] /\ v = Version(methods, me.cls, me.sel)
    OBVIOUS
  <2>2. \A label \in Labels : Leave(me, label).sending = me.sending /\ Leave(me, label).sel = me.sel
                             /\ Leave(me, label) \in ThreadType
    BY <1>1, <1>3, <2>1
  <2>3. PICK q : q = [Leave(me, "fill") EXCEPT !.imp = Imp(me.cls, me.sel, v)]
    OBVIOUS
  <2>4. PICK p : p = [Leave(me, "fill") EXCEPT !.imp = Forward]
    OBVIOUS
  <2>5. PICK o : o = [Leave(me, "buckets") EXCEPT !.cls = Super[me.cls]]
    OBVIOUS
  <2>6. /\ q.sending = me.sending /\ q.sel = me.sel
        /\ p.sending = me.sending /\ p.sel = me.sel
        /\ o.sending = me.sending /\ o.sel = me.sel
    <3>1. Leave(me, "fill") \in ThreadType /\ Leave(me, "buckets") \in ThreadType
      BY <1>4, <2>2
    <3> QED
      BY <1>4, <2>2, <2>3, <2>4, <2>5, <3>1 DEF ThreadType
  <2>7. Load(o).sending = me.sending /\ Load(o).sel = me.sel
    <3>1. o \in [DOMAIN o -> {o[x] : x \in DOMAIN o}] /\ "sending" \in DOMAIN o /\ "sel" \in DOMAIN o
      <4>1. Leave(me, "buckets") \in ThreadType
        BY <1>4, <2>2
      <4> QED
        BY <2>5, <4>1 DEF ThreadType
    <3> QED
      BY <2>6, <3>1 DEF Load
  <2>8. AfterMiss(t) \in {Leave(me, "search"), q, Load(o), p, Leave(me, "resolve")}
    BY <2>1, <2>3, <2>4, <2>5 DEF AfterMiss
  <2> QED
    BY <1>4, <2>1, <2>2, <2>6, <2>7, <2>8
<1>8. CASE CompareEnd(t)
  <2>1. PICK q : q = [th[t] EXCEPT !.i = 0, !.wrapped = TRUE, !.pc = "key"]
    OBVIOUS
  <2>2. PICK p : p = [th[t] EXCEPT !.i = @ + 1, !.pc = "key"]
    OBVIOUS
  <2>3. PICK r : r = IF Here(t).key = 0 \/ (Here(t).key = 1 /\ th[t].wrapped) THEN AfterMiss(t)
                     ELSE IF Here(t).key = 1 THEN q ELSE p
    OBVIOUS
  <2>4. q.sending = th[t].sending /\ q.sel = th[t].sel /\ p.sending = th[t].sending /\ p.sel = th[t].sel
    BY <1>1, <2>1, <2>2 DEF ThreadType
  <2>5. r.sending = th[t].sending /\ r.sel = th[t].sel
    BY <1>7, <2>3, <2>4
  <2>6. th' = [th EXCEPT ![t] = r] /\ th[t].pc # "done" /\ UNCHANGED <<program, may>>
    BY <1>8, <2>1, <2>2, <2>3 DEF CompareEnd, At
  <2> QED
    BY <1>2, <2>5, <2>6
<1>9. CASE LoadImp(t)
  <2>1. PICK me, imp : me = th[t] /\ imp = Here(t).imp
    OBVIOUS
  <2>2. PICK q : q = [Leave(me, "done") EXCEPT !.imp = imp]
    OBVIOUS
  <2>3. PICK p : p = [Leave(me, "fill") EXCEPT !.imp = imp]
    OBVIOUS
  <2>4. /\ q.sending = me.sending /\ q.sel = me.sel
        /\ p.sending = me.sending /\ p.sel = me.sel
        /\ Leave(me, "resolve").sending = me.sending /\ Leave(me, "resolve").sel = me.sel
    BY <1>1, <1>3, <1>4, <2>1, <2>2, <2>3 DEF ThreadType
  <2>5. AfterHit(t, imp) \in {q, p, Leave(me, "resolve")}
    BY <2>1, <2>2, <2>3 DEF AfterHit
  <2>6. th' = [th EXCEPT ![t] = AfterHit(t, imp)] /\ th[t].pc # "done" /\ UNCHANGED <<program, may>>
    BY <1>9, <2>1 DEF LoadImp, At
  <2> QED
    BY <1>2, <2>1, <2>4, <2>5, <2>6
<1>10. CASE LockRead(t)
  <2>1. PICK q : q = [th[t] EXCEPT !.cls = th[t].sending]
    OBVIOUS
  <2>2. q \in ThreadType /\ q.cls \in Classes /\ q.sending = th[t].sending /\ q.sel = th[t].sel
    BY <1>1, <1>10, <2>1 DEF ThreadType, LockRead, At, LocksOf
  <2>3. Load(q).sending = th[t].sending /\ Load(q).sel = th[t].sel
    BY <1>1, <2>2, LoadIs
  <2>4. th' = [th EXCEPT ![t] = Load(q)] /\ th[t].pc # "done" /\ UNCHANGED <<program, may>>
    BY <1>10, <2>1 DEF LockRead, At
  <2> QED
    BY <1>2, <2>3, <2>4
<1>11. CASE Resolve(t)
  <2>1. PICK r : r = [th[t] EXCEPT !.tried = TRUE, !.pc = "search"]
    OBVIOUS
  <2>2. r.sending = th[t].sending /\ r.sel = th[t].sel
    BY <1>1, <2>1 DEF ThreadType
  <2>3. th' = [th EXCEPT ![t] = r] /\ th[t].pc # "done" /\ UNCHANGED <<program, may>>
    BY <1>1, <1>11, <2>1 DEF Resolve, At, Types
  <2> QED
    BY <1>2, <2>2, <2>3
<1>12. Replaced(t) \in {"erase", "insert"}
  BY DEF Replaced
<1>13. CASE SetMask(t)
  <2>1. PICK q : q = [Leave(th[t], "look") EXCEPT !.unseen = Threads \ {t}]
    OBVIOUS
  <2>2. q.sending = th[t].sending /\ q.sel = th[t].sel
    BY <1>1, <1>3, <1>4, <2>1 DEF ThreadType
  <2>3. PICK p : p = Leave(th[t], Replaced(t))
    OBVIOUS
  <2>4. p.sending = th[t].sending /\ p.sel = th[t].sel
    BY <1>1, <1>3, <1>4, <1>12, <2>3
  <2>5. th' = [th EXCEPT ![t] = IF th[t].freed /\ GarbageSize >= Threshold THEN q ELSE p]
    BY <1>13, <2>1, <2>3 DEF SetMask
  <2>6. th[t].pc # "done" /\ UNCHANGED <<program, may>>
    BY <1>13 DEF SetMask, At
  <2> QED
    BY <1>2, <2>2, <2>4, <2>5, <2>6
<1>14. ASSUME NEW u \in Threads, Look(t, u) PROVE [D!Next]_(D!vars) /\ Quiet'
  <2>1. PICK q : q = [th[t] EXCEPT !.unseen = @ \ {u}]
    OBVIOUS
  <2>2. PICK p : p = [th[t] EXCEPT !.unseen = Threads \ {t}]
    OBVIOUS
  <2>3. PICK o : o = Leave(th[t], Replaced(t))
    OBVIOUS
  <2>4. /\ q.sending = th[t].sending /\ q.sel = th[t].sel /\ p.sending = th[t].sending /\ p.sel = th[t].sel
        /\ o.sending = th[t].sending /\ o.sel = th[t].sel
    BY <1>1, <1>3, <1>4, <1>12, <2>1, <2>2, <2>3 DEF ThreadType
  <2>5. th' = [th EXCEPT ![t] = IF ~InReader(u) THEN q ELSE IF CollectsALot(t) THEN p ELSE o]
    BY <1>14, <2>1, <2>2, <2>3 DEF Look
  <2>6. th[t].pc # "done" /\ UNCHANGED <<program, may>>
    BY <1>14 DEF Look, At
  <2> QED
    BY <1>2, <2>4, <2>5, <2>6
<1>15. CASE Free(t)
  <2>1. th[t].pc = "look" /\ methods' = methods /\ before' = before /\ may' = may
    BY <1>15 DEF Free, At, program
  <2>2. CASE CollectsALot(t)
    <3>1. th' = [th EXCEPT ![t] = Idle]
      BY <1>15, <2>2 DEF Free
    <3>2. th[t].sending = NoClass
      BY <1>1, <2>1, <2>2 DEF LocksOf, CollectsALot, Searching
    <3> QED
      BY <2>1, <3>1, <3>2, IdleIs, GoesOn
  <2>3. CASE ~CollectsALot(t)
    <3>1. th' = [th EXCEPT ![t] = Leave(th[t], Replaced(t))]
      BY <1>15, <2>3 DEF Free
    <3>2. Leave(th[t], Replaced(t)).sending = th[t].sending /\ Leave(th[t], Replaced(t)).sel = th[t].sel
      BY <1>1, <1>3, <1>4, <1>12
    <3> QED
      BY <2>1, <3>1, <3>2, GoesOn
  <2> QED
    BY <2>2, <2>3
<1>16. CASE Fill(t)
  <2>1. PICK c : c = th[t].sending
    OBVIOUS
  <2>2. th[t].pc # "done" /\ UNCHANGED <<program, may>>
    BY <1>16 DEF Fill, At
  <2>3. ASSUME NEW label, th' = [th EXCEPT ![t].pc = label] PROVE [D!Next]_(D!vars) /\ Quiet'
    <3>1. PICK r : r = [th[t] EXCEPT !.pc = label]
      OBVIOUS
    <3>2. r.sending = th[t].sending /\ r.sel = th[t].sel
      BY <1>1, <3>1 DEF ThreadType
    <3>3. th' = [th EXCEPT ![t] = r]
      BY <1>1, <2>3, <3>1 DEF Types
    <3> QED
      BY <1>2, <2>2, <3>2, <3>3
  <2>4. ASSUME NEW n, NEW f, th' = [th EXCEPT ![t].pc = "setmask", ![t].mask = n - 1, ![t].freed = f]
        PROVE  [D!Next]_(D!vars) /\ Quiet'
    <3>1. PICK r : r = [th[t] EXCEPT !.pc = "setmask", !.mask = n - 1, !.freed = f]
      OBVIOUS
    <3>2. r.sending = th[t].sending /\ r.sel = th[t].sel
      BY <1>1, <3>1 DEF ThreadType
    <3>3. th' = [th EXCEPT ![t] = r]
      BY <1>1, <2>4, <3>1 DEF Types
    <3> QED
      BY <1>2, <2>2, <3>2, <3>3
  <2>5. \/ \E label : th' = [th EXCEPT ![t].pc = label]
        \/ \E n : Reallocate(t, c, n)
    BY <1>16, <2>1 DEF Fill, Goto
  <2>6. ASSUME NEW n, Reallocate(t, c, n) PROVE [D!Next]_(D!vars) /\ Quiet'
    <3>1. PICK f : f = ~ConstantEmpty(c)
      OBVIOUS
    <3>2. th' = [th EXCEPT ![t].pc = "setmask", ![t].mask = n - 1, ![t].freed = f]
      BY <2>6, <3>1 DEF Reallocate
    <3> QED
      BY <2>4, <3>2
  <2> QED
    BY <2>3, <2>5, <2>6
<1>17. CASE Insert(t)
  <2>1. PICK i : th' = [th EXCEPT ![t].pc = "setkey", ![t].i = i]
    BY <1>17 DEF Insert
  <2>2. PICK r : r = [th[t] EXCEPT !.pc = "setkey", !.i = i]
    OBVIOUS
  <2>3. r.sending = th[t].sending /\ r.sel = th[t].sel
    BY <1>1, <2>2 DEF ThreadType
  <2>4. th' = [th EXCEPT ![t] = r] /\ th[t].pc # "done" /\ UNCHANGED <<program, may>>
    BY <1>1, <1>17, <2>1, <2>2 DEF Insert, At, Types
  <2> QED
    BY <1>2, <2>3, <2>4
<1>18. CASE SetKey(t)
  <2>1. th' = [th EXCEPT ![t] = Leave(th[t], "done")] /\ th[t].pc # "done" /\ UNCHANGED <<program, may>>
    BY <1>18 DEF SetKey, At
  <2> QED
    BY <1>1, <1>2, <1>3, <1>4, <2>1
<1>19. CASE LockFlush(t)
  <2>1. PICK r : r = [th[t] EXCEPT !.pc = "erase"]
    OBVIOUS
  <2>2. r.sending = th[t].sending /\ r.sel = th[t].sel
    BY <1>1, <2>1 DEF ThreadType
  <2>3. th' = [th EXCEPT ![t] = r] /\ th[t].pc # "done" /\ UNCHANGED <<program, may>>
    BY <1>1, <1>19, <2>1 DEF LockFlush, At, Goto, Types
  <2> QED
    BY <1>2, <2>2, <2>3
<1>20. ASSUME NEW c \in Classes, Erase(t, c) PROVE [D!Next]_(D!vars) /\ Quiet'
  <2>1. PICK todo, n : todo = th[t].todo \ {c} /\ n = Capacity(c)
    OBVIOUS
  <2>2. PICK q : q = [th[t] EXCEPT !.todo = todo]
    OBVIOUS
  <2>3. PICK p : p = [th[t] EXCEPT !.pc = "setmask", !.todo = todo, !.cls = c, !.mask = n - 1, !.freed = TRUE]
    OBVIOUS
  <2>4. q.sending = th[t].sending /\ q.sel = th[t].sel /\ p.sending = th[t].sending /\ p.sel = th[t].sel
    BY <1>1, <2>2, <2>3 DEF ThreadType
  <2>5. th[t].pc # "done" /\ UNCHANGED <<program, may>>
    BY <1>20 DEF Erase, At
  <2>6. \/ th' = [th EXCEPT ![t].todo = todo]
        \/ th' = [th EXCEPT ![t].pc = "setmask", ![t].todo = todo, ![t].cls = c, ![t].mask = n - 1, ![t].freed = TRUE]
    BY <1>20, <2>1 DEF Erase
  <2>7. th' = [th EXCEPT ![t] = q] \/ th' = [th EXCEPT ![t] = p]
    BY <1>1, <2>2, <2>3, <2>6 DEF Types
  <2> QED
    BY <1>2, <2>4, <2>5, <2>7
<1>21. CASE Erased(t)
  <2>1. PICK q : q = [Idle EXCEPT !.pc = "collect"]
    OBVIOUS
  <2>2. q.sending = NoClass /\ Idle.sending = NoClass /\ q.pc = "collect" /\ Idle.pc = "idle"
    BY <2>1, IdleIs DEF ThreadType
  <2>3. th' = [th EXCEPT ![t] = IF methods = before THEN q ELSE Idle]
        /\ th[t].pc = "erase" /\ methods' = methods /\ before' = methods /\ may' = may
    BY <1>21, <2>1 DEF Erased, At
  <2>4. th[t].sending = NoClass
    BY <1>1, <2>3 DEF LocksOf
  <2> QED
    BY <2>2, <2>3, <2>4, GoesOn
<1>22. CASE CollectALot(t)
  <2>1. PICK r : r = [th[t] EXCEPT !.pc = "look", !.unseen = Threads \ {t}]
    OBVIOUS
  <2>2. r.sending = th[t].sending /\ r.sel = th[t].sel
    BY <1>1, <2>1 DEF ThreadType
  <2>3. th' = [th EXCEPT ![t] = r] /\ th[t].pc # "done" /\ UNCHANGED <<program, may>>
    BY <1>1, <1>22, <2>1 DEF CollectALot, At, Types
  <2> QED
    BY <1>2, <2>2, <2>3
<1> QED
  BY <1>5, <1>6, <1>8, <1>9, <1>10, <1>11, <1>13, <1>14, <1>15, <1>16, <1>17, <1>18, <1>19, <1>20, <1>21, <1>22
  DEF Step

(* The initial states are those of Dispatch.                               *)
LEMMA DispatchInit == Init => D!Init /\ Quiet
<1> SUFFICES ASSUME Init PROVE D!Init /\ Quiet
  OBVIOUS
<1>1. th = [t \in Threads |-> Idle] /\ may = [t \in Threads |-> {}] /\ before = methods
  BY DEF Init
<1>2. \A t \in Threads : Sent(t) = NoImp /\ Answer(t) = NoImp
  BY <1>1, IdleIs DEF Sent, Answer, At
<1>3. D!Init
  BY <1>1, <1>2 DEF D!Init, Sent, Answer
<1> QED
  BY <1>1, <1>3 DEF Quiet

(* A step that concerns no thread is none of Dispatch.                     *)
LEMMA ProgramGoesOn ==
  ASSUME Quiet, th' = th, methods' = methods, before' = before, may' = may
  PROVE  [D!Next]_(D!vars) /\ Quiet'
<1>1. UNCHANGED D!vars
  <2>1. \A t : Sent(t)' = Sent(t) /\ Answer(t)' = Answer(t)
    BY DEF Sent, Answer, At
  <2> QED
    BY <2>1 DEF D!vars, Sent, Answer
<1> QED
  BY <1>1 DEF Quiet

(* Sending a message is that of Dispatch.                                  *)
LEMMA SendIsSend ==
  ASSUME IInv, Quiet, NEW t \in Threads, NEW m \in Messages, Send(t, m)
  PROVE  [D!Next]_(D!vars) /\ Quiet'
<1>1. Types /\ LocksOf(t) /\ th[t].pc = "idle"
  BY Parts DEF Send, At
<1>2. m = <<m[1], m[2]>> /\ m[1] \in Classes /\ m[2] \in Selectors /\ m[2] \in Nat
  BY MethodsAre
<1>3. PICK q : q = [Idle EXCEPT !.sending = m[1], !.cls = m[1], !.sel = m[2]]
  OBVIOUS
<1>4. q \in ThreadType /\ q.cls \in Classes /\ q.sending = m[1] /\ q.sel = m[2]
  BY <1>2, <1>3, IdleIs DEF ThreadType
<1>5. PICK r : r = Load(q)
  OBVIOUS
<1>6. r.sending = m[1] /\ r.sel = m[2] /\ r.pc = "buckets"
  BY <1>1, <1>4, <1>5, LoadIs
<1>7. th' = [th EXCEPT ![t] = r]
  BY <1>3, <1>5 DEF Send
<1>8. th'[t] = r /\ \A u \in Threads : u # t => th'[u] = th[u]
  BY <1>1, <1>7 DEF Types
<1>9. th[t].sending = NoClass /\ m[1] # NoClass
  BY <1>1, <1>2, MethodCacheAssumption DEF LocksOf
<1>10. Sent(t) = NoImp /\ Sent(t)' = m /\ \A u \in Threads : u # t => Sent(u)' = Sent(u)
  BY <1>2, <1>6, <1>8, <1>9 DEF Sent
<1>11. [u \in Threads |-> Sent(u)]' = [[u \in Threads |-> Sent(u)] EXCEPT ![t] = m]
  BY <1>10
<1>12. \A u \in Threads : Answer(u)' = Answer(u)
  BY <1>1, <1>6, <1>8 DEF Answer, At
<1>13. [u \in Threads |-> Answer(u)]' = [u \in Threads |-> Answer(u)]
  BY <1>12
<1>14. /\ methods' = methods /\ before' = before
       /\ may' = [may EXCEPT ![t] = {Result(methods, m), Result(before, m)}]
  BY DEF Send, program
<1>15. D!Send(t, m)
  BY <1>10, <1>11, <1>13, <1>14 DEF D!Send, Sent, Answer
<1>16. Quiet'
  BY <1>1, <1>6, <1>8, <1>9, <1>14 DEF Quiet, Types
<1> QED
  BY <1>15, <1>16 DEF D!Next

(* Calling the implementation is the return of Dispatch.                   *)
LEMMA DoneIsReturn ==
  ASSUME IInv, Quiet, NEW t \in Threads, Done(t)
  PROVE  [D!Next]_(D!vars) /\ Quiet'
<1>1. Types /\ AnswerOf(t) /\ th[t].pc = "done"
  BY Parts DEF Done, At
<1>2. th' = [th EXCEPT ![t] = Idle] /\ may' = [may EXCEPT ![t] = {}] /\ methods' = methods /\ before' = before
  BY DEF Done, program
<1>3. th'[t] = Idle /\ \A u \in Threads : u # t => th'[u] = th[u]
  BY <1>1, <1>2 DEF Types
<1>4. Answer(t) # NoImp
  BY <1>1 DEF Answer, At, AnswerOf
<1>5. Sent(t)' = NoImp /\ Answer(t)' = NoImp /\ \A u \in Threads : u # t => Sent(u)' = Sent(u) /\ Answer(u)' = Answer(u)
  BY <1>3, IdleIs DEF Sent, Answer, At
<1>6. /\ [u \in Threads |-> Sent(u)]' = [[u \in Threads |-> Sent(u)] EXCEPT ![t] = NoImp]
      /\ [u \in Threads |-> Answer(u)]' = [[u \in Threads |-> Answer(u)] EXCEPT ![t] = NoImp]
  BY <1>5
<1>7. D!Return(t)
  BY <1>2, <1>4, <1>6 DEF D!Return, Sent, Answer
<1>8. Quiet'
  BY <1>1, <1>2, <1>3 DEF Quiet, Types
<1> QED
  BY <1>7, <1>8 DEF D!Next

(* A thread that begins to flush caches sends nothing.                     *)
LEMMA WriterIsSilent ==
  ASSUME IInv, NEW t \in Threads, NEW classes, Write(t, classes)
  PROVE  /\ \A u \in Threads : (th'[u].sending = NoClass <=> th[u].sending = NoClass)
         /\ \A u \in Threads : Sent(u)' = Sent(u) /\ Answer(u)' = Answer(u)
         /\ before = methods
<1>1. Types /\ LocksOf(t) /\ th[t].pc = "idle" /\ Locks /\ writing = NoThread
  BY Parts DEF Write, At
<1>2. PICK r : r = [Idle EXCEPT !.pc = "flush", !.todo = classes]
  OBVIOUS
<1>3. r.pc = "flush" /\ r.sending = NoClass
  BY <1>2, IdleIs DEF ThreadType
<1>4. th'[t] = r /\ \A u \in Threads : u # t => th'[u] = th[u]
  BY <1>1, <1>2 DEF Write, Types
<1>5. th[t].sending = NoClass
  BY <1>1 DEF LocksOf
<1> QED
  BY <1>1, <1>3, <1>4, <1>5 DEF Sent, Answer, At, Locks

(* A method changes with runtimeLock, when the change before has returned. *)
LEMMA ChangeIsBeginChange ==
  ASSUME IInv, Quiet, NEW t \in Threads, NEW m \in Changed, ChangeMethod(t, m)
  PROVE  [D!Next]_(D!vars) /\ Quiet'
<1>1. \E classes : Write(t, classes)
  BY DEF ChangeMethod
<1>2. /\ \A u \in Threads : (th'[u].sending = NoClass <=> th[u].sending = NoClass)
      /\ \A u \in Threads : Sent(u)' = Sent(u) /\ Answer(u)' = Answer(u)
      /\ before = methods
  BY <1>1, WriterIsSilent
<1>3. /\ before' = before
      /\ may' = [u \in Threads |-> IF may[u] = {} THEN {}
                                   ELSE may[u] \cup {Result(methods', <<th[u].sending, th[u].sel>>)}]
  BY DEF ChangeMethod
<1>4. ASSUME NEW u \in Threads
      PROVE  (may[u] = {} <=> Sent(u) = NoImp) /\ (Sent(u) # NoImp => Sent(u) = <<th[u].sending, th[u].sel>>)
  <2>1. th[u].sending # NoClass => may[u] # {}
    BY Parts DEF AnswerOf
  <2>2. th[u].sending = NoClass => may[u] = {}
    BY DEF Quiet
  <2> QED
    BY <2>1, <2>2, SentIs DEF Sent
<1>5. may' = [u \in Threads |-> IF Sent(u) = NoImp THEN {} ELSE may[u] \cup {Result(methods', Sent(u))}]
  BY <1>3, <1>4
<1>6. /\ [u \in Threads |-> Sent(u)]' = [u \in Threads |-> Sent(u)]
      /\ [u \in Threads |-> Answer(u)]' = [u \in Threads |-> Answer(u)]
  BY <1>2
<1>7. D!BeginChange
  BY <1>2, <1>3, <1>5, <1>6 DEF D!BeginChange, Sent, Answer
<1>8. Quiet'
  BY <1>2, <1>3 DEF Quiet
<1> QED
  BY <1>7, <1>8 DEF D!Next

(* Flushing all caches is no step of Dispatch.                             *)
LEMMA FlushAllGoesOn ==
  ASSUME IInv, Quiet, NEW t \in Threads, FlushAll(t)
  PROVE  [D!Next]_(D!vars) /\ Quiet'
<1>1. Write(t, Classes) /\ methods' = methods /\ before' = before /\ may' = may
  BY DEF FlushAll, program
<1>2. /\ \A u \in Threads : (th'[u].sending = NoClass <=> th[u].sending = NoClass)
      /\ \A u \in Threads : Sent(u)' = Sent(u) /\ Answer(u)' = Answer(u)
  BY <1>1, WriterIsSilent
<1>3. /\ [u \in Threads |-> Sent(u)]' = [u \in Threads |-> Sent(u)]
      /\ [u \in Threads |-> Answer(u)]' = [u \in Threads |-> Answer(u)]
  BY <1>2
<1>4. UNCHANGED D!vars
  BY <1>1, <1>3 DEF D!vars, Sent, Answer
<1> QED
  BY <1>1, <1>2, <1>4 DEF Quiet

(* Each step is one of Dispatch, or none.                                  *)
LEMMA DispatchStep == IInv /\ IInv' /\ Quiet /\ [Next]_vars => [D!Next]_(D!vars) /\ Quiet'
<1> SUFFICES ASSUME IInv, IInv', Quiet, [Next]_vars PROVE [D!Next]_(D!vars) /\ Quiet'
  OBVIOUS
<1>1. CASE UNCHANGED vars
  BY <1>1, ProgramGoesOn DEF vars, program
<1>2. CASE Next
  <2>1. PICK t \in Threads :
            \/ Step(t)
            \/ Room /\ \E m \in Messages : Send(t, m)
            \/ Room /\ \E m \in Changed : ChangeMethod(t, m)
            \/ FlushAll(t)
            \/ \E c \in Classes : SetInitialized(t, c)
    BY <1>2 DEF Next
  <2>2. ASSUME NEW c \in Classes, SetInitialized(t, c) PROVE [D!Next]_(D!vars) /\ Quiet'
    BY <2>2, ProgramGoesOn DEF SetInitialized
  <2> QED
    BY <2>1, <2>2, StepsGoOn, DoneIsReturn, SendIsSend, ChangeIsBeginChange, FlushAllGoesOn
<1> QED
  BY <1>1, <1>2

(* Sending a message, by cache or by search, implements Dispatch: it is    *)
(* answered with a method the class had while it was sent, and never with  *)
(* one whose replacement had returned before.                              *)
THEOREM CachesImplementDispatch == Spec => DispatchSpec
<1> QED
  BY SpecIInv, DispatchInit, DispatchStep, PTL DEF Spec, DispatchSpec, D!Spec
=============================================================================
