-------------------------- MODULE InitializeProof --------------------------
(***************************************************************************)
(* Theorems about Initialize, for every tree of classes, every set of      *)
(* threads and all programs.                                               *)
(*                                                                         *)
(* The invariant IInv of InitializeInv holds initially and is kept by      *)
(* every action.  The steps that only move a call are dealt with together: *)
(* they keep what the invariant says of lists and classes, and it remains  *)
(* to show what the call knows at its new place.                           *)
(***************************************************************************)
EXTENDS InitializeInv, SequenceTheorems, TLAPS

-----------------------------------------------------------------------------
(* The tree of classes                                                     *)

(* What passes from each superclass to its subclasses holds of all.        *)
LEMMA ClassInduction ==
  ASSUME NEW S, \A c \in Classes : (c = Root \/ (Super[c] \in Classes /\ Super[c] \in S)) => c \in S
  PROVE  Classes \subseteq S
<1> SUFFICES ASSUME Classes \ S # {} PROVE FALSE
  OBVIOUS
<1>1. PICK c \in Classes \ S : Super[c] \notin Classes \ S
  <2>1. PICK T : T = Classes \ S
    OBVIOUS
  <2>2. T \in SUBSET Classes /\ T # {}
    BY <2>1
  <2>3. \E c \in T : Super[c] \notin T
    BY <2>2, InitializeAssumption, ZenonT(60)
  <2> QED
    BY <2>1, <2>3
<1>2. c = Root \/ (Super[c] \in Classes /\ Super[c] \in S)
  BY <1>1, InitializeAssumption
<1> QED
  BY <1>1, <1>2

(* The superclass of a class.                                              *)
LEMMA SuperIn == \A c \in Classes : c # Root => Super[c] \in Classes
  BY InitializeAssumption

(* The sets that have the superclasses of c and of their own elements.     *)
Upward(c) == {S \in SUBSET Classes : \A x \in S \cup {c} : x # Root => Super[x] \in S}

(* The superclasses of a class.                                            *)
LEMMA AncestorsAre ==
  \A c \in Classes : /\ Ancestors[c] = IF c = Root THEN {} ELSE {Super[c]} \cup Ancestors[Super[c]]
                     /\ Ancestors[c] \subseteq Classes
<1>1. PICK A : A = [c \in Classes |-> {d \in Classes : \A S \in Upward(c) : d \in S}]
  OBVIOUS
<1>2. ASSUME NEW c \in Classes PROVE A[c] = IF c = Root THEN {} ELSE {Super[c]} \cup A[Super[c]]
  <2>1. CASE c = Root
    <3>1. {} \in Upward(c)
      BY <2>1 DEF Upward
    <3> QED
      BY <1>1, <2>1, <3>1
  <2>2. CASE c # Root
    <3>1. Super[c] \in Classes
      BY <2>2, SuperIn
    <3>2. PICK S : S = {Super[c]} \cup A[Super[c]]
      OBVIOUS
    <3>3. \A d : d \in A[Super[c]] <=> d \in Classes /\ \A R \in Upward(Super[c]) : d \in R
      BY <1>1, <3>1
    <3>4. \A d : d \in A[c] <=> d \in Classes /\ \A R \in Upward(c) : d \in R
      BY <1>1
    <3>5. ASSUME NEW x \in S \cup {c}, x # Root PROVE Super[x] \in S
      <4>1. CASE x = c
        BY <3>2, <4>1
      <4>2. CASE x = Super[c]
        <5>1. \A R \in Upward(Super[c]) : Super[x] \in R
          BY <3>5, <4>2 DEF Upward
        <5> QED
          BY <3>1, <3>2, <3>3, <3>5, <4>2, <5>1, SuperIn
      <4>3. CASE x \in A[Super[c]]
        <5>1. \A R \in Upward(Super[c]) : x \in R /\ Super[x] \in R
          BY <3>3, <3>5, <4>3 DEF Upward
        <5> QED
          BY <3>2, <3>3, <3>5, <4>3, <5>1, SuperIn
      <4> QED
        BY <3>2, <4>1, <4>2, <4>3
    <3>6. S \in Upward(c)
      BY <3>1, <3>2, <3>3, <3>5 DEF Upward
    <3>7. \A R \in Upward(c) : Super[c] \in R /\ R \in Upward(Super[c])
      BY <2>2 DEF Upward
    <3>8. A[c] = S
      <4>1. \A d : d \in A[c] => d \in S
        BY <3>4, <3>6
      <4>2. \A d : d \in S => d \in A[c]
        BY <3>1, <3>2, <3>3, <3>4, <3>7
      <4> QED
        <5>1. A[c] \subseteq S /\ S \subseteq A[c]
          BY <4>1, <4>2
        <5> QED
          BY <5>1
    <3> QED
      BY <2>2, <3>2, <3>8
  <2> QED
    BY <2>1, <2>2
<1>3. A = [c \in Classes |-> IF c = Root THEN {} ELSE {Super[c]} \cup A[Super[c]]]
  BY <1>1, <1>2
<1>4. Ancestors = CHOOSE f : f = [c \in Classes |-> IF c = Root THEN {} ELSE {Super[c]} \cup f[Super[c]]]
  BY ZenonT(60) DEF Ancestors
<1>5. Ancestors = [c \in Classes |-> IF c = Root THEN {} ELSE {Super[c]} \cup Ancestors[Super[c]]]
  BY <1>3, <1>4
<1>6. \A c \in Classes : Ancestors[c] = IF c = Root THEN {} ELSE {Super[c]} \cup Ancestors[Super[c]]
  BY <1>5
<1>7. PICK S : S = {c \in Classes : Ancestors[c] \subseteq Classes}
  OBVIOUS
<1>8. \A c \in Classes : (c = Root \/ (Super[c] \in Classes /\ Super[c] \in S)) => c \in S
  BY <1>6, <1>7
<1>9. Classes \subseteq S
  BY <1>8, ClassInduction
<1> QED
  BY <1>6, <1>7, <1>9

(* A set that has the superclass of each of its classes has all of them.   *)
LEMMA AncestorsIn ==
  ASSUME NEW S, \A c \in Classes : c \in S /\ c # Root => Super[c] \in S
  PROVE  \A c \in Classes : c \in S => Ancestors[c] \subseteq S
<1>1. PICK P : P = {c \in Classes : c \in S => Ancestors[c] \subseteq S}
  OBVIOUS
<1>2. \A c \in Classes : (c = Root \/ (Super[c] \in Classes /\ Super[c] \in P)) => c \in P
  BY <1>1, AncestorsAre
<1>3. Classes \subseteq P
  BY <1>2, ClassInduction
<1> QED
  BY <1>1, <1>3

(* The superclasses of the superclasses are among them, and no class is    *)
(* among its own.                                                          *)
LEMMA Above ==
  \A c \in Classes : /\ c \notin Ancestors[c]
                     /\ c # Root => Super[c] # c
                     /\ \A d \in Ancestors[c] : Ancestors[d] \subseteq Ancestors[c]
<1>1. ASSUME NEW c \in Classes PROVE \A d \in Ancestors[c] : Ancestors[d] \subseteq Ancestors[c]
  <2>1. PICK S : S = Ancestors[c]
    OBVIOUS
  <2>2. PICK P : P = {x \in Classes : \A d \in Ancestors[x] : Ancestors[d] \subseteq Ancestors[x]}
    OBVIOUS
  <2>3. ASSUME NEW x \in Classes, x = Root \/ (Super[x] \in Classes /\ Super[x] \in P) PROVE x \in P
    <3>1. CASE x = Root
      BY <2>2, <3>1, AncestorsAre
    <3>2. CASE x # Root
      <4>1. Ancestors[x] = {Super[x]} \cup Ancestors[Super[x]]
        BY <3>2, AncestorsAre
      <4> QED
        BY <2>2, <2>3, <3>2, <4>1
    <3> QED
      BY <3>1, <3>2
  <2>4. Classes \subseteq P
    BY <2>3, ClassInduction
  <2> QED
    BY <2>2, <2>4
<1>2. PICK S : S = {c \in Classes : c \notin Ancestors[c]}
  OBVIOUS
<1>3. ASSUME NEW c \in Classes, c = Root \/ (Super[c] \in Classes /\ Super[c] \in S) PROVE c \in S
  <2>1. CASE c = Root
    BY <1>2, <2>1, AncestorsAre
  <2>2. CASE c # Root
    <3>1. Ancestors[c] = {Super[c]} \cup Ancestors[Super[c]] /\ Super[c] \in Classes
      BY <1>3, <2>2, AncestorsAre
    <3>2. c \in Ancestors[Super[c]] => Super[c] \in Ancestors[Super[c]]
      BY <1>1, <3>1
    <3>3. c = Super[c] => Super[c] \in Ancestors[Super[c]]
      BY <3>1
    <3> QED
      BY <1>2, <1>3, <2>2, <3>1, <3>2, <3>3
  <2> QED
    BY <2>1, <2>2
<1>4. Classes \subseteq S
  BY <1>3, ClassInduction
<1>5. \A c \in Classes : c \notin Ancestors[c]
  BY <1>2, <1>4
<1>6. \A c \in Classes : c # Root => Super[c] # c
  BY <1>5, AncestorsAre
<1> QED
  BY <1>1, <1>5, <1>6

(* What is finished with c: what was put off with c as its superclass, and *)
(* with these.                                                             *)
LEMMA FinishedWithIs ==
  ASSUME NEW c \in Classes
  PROVE  /\ FinishedWith(c) \subseteq Classes /\ c \in FinishedWith(c)
         /\ \A d \in Classes \ {c} :
              d \in FinishedWith(c) <=> d # Root /\ pending[d] > 0 /\ Super[d] \in FinishedWith(c)
<1>1. \A d : d \in FinishedWith(c) <=>
         \/ d = c
         \/ /\ d \in Classes /\ c \in Ancestors[d]
            /\ \A e \in {d} \cup Ancestors[d] : c \in Ancestors[e] => pending[e] > 0
  BY DEF FinishedWith
<1>2. ASSUME NEW d \in Classes \ {c}, d \in FinishedWith(c)
      PROVE  d # Root /\ pending[d] > 0 /\ Super[d] \in FinishedWith(c)
  <2>1. /\ c \in Ancestors[d]
        /\ \A e \in {d} \cup Ancestors[d] : c \in Ancestors[e] => pending[e] > 0
    BY <1>1, <1>2
  <2>2. d # Root /\ Ancestors[d] = {Super[d]} \cup Ancestors[Super[d]] /\ Super[d] \in Classes
    BY <2>1, AncestorsAre, SuperIn
  <2>3. pending[d] > 0
    BY <2>1
  <2>4. Super[d] \in FinishedWith(c)
    BY <1>1, <2>1, <2>2
  <2> QED
    BY <2>2, <2>3, <2>4
<1>3. ASSUME NEW d \in Classes \ {c}, d # Root, pending[d] > 0, Super[d] \in FinishedWith(c)
      PROVE  d \in FinishedWith(c)
  <2>1. Ancestors[d] = {Super[d]} \cup Ancestors[Super[d]] /\ Super[d] \in Classes
    BY <1>3, AncestorsAre, SuperIn
  <2>2. CASE Super[d] = c
    <3>1. \A e \in Ancestors[c] : c \notin Ancestors[e]
      BY Above
    <3>2. \A e \in {d} \cup Ancestors[d] : c \in Ancestors[e] => pending[e] > 0
      BY <1>3, <2>1, <2>2, <3>1, Above
    <3> QED
      BY <1>1, <2>1, <2>2, <3>2
  <2>3. CASE Super[d] # c
    <3>1. /\ c \in Ancestors[Super[d]]
          /\ \A e \in {Super[d]} \cup Ancestors[Super[d]] : c \in Ancestors[e] => pending[e] > 0
      BY <1>1, <1>3, <2>3
    <3> QED
      BY <1>1, <1>3, <2>1, <3>1
  <2> QED
    BY <2>2, <2>3
<1> QED
  BY <1>1, <1>2, <1>3

(* What passes from a class that is finished to those put off for it.      *)
LEMMA FinishedInduction ==
  ASSUME NEW c \in Classes, NEW S, c \in S,
         \A d \in FinishedWith(c) \ {c} : Super[d] \in FinishedWith(c) \cap S => d \in S
  PROVE  FinishedWith(c) \subseteq S
<1>1. PICK P : P = {d \in Classes : d \in FinishedWith(c) => d \in S}
  OBVIOUS
<1>2. ASSUME NEW d \in Classes, d = Root \/ (Super[d] \in Classes /\ Super[d] \in P) PROVE d \in P
  BY <1>1, <1>2, FinishedWithIs
<1>3. Classes \subseteq P
  BY <1>2, ClassInduction
<1> QED
  BY <1>1, <1>3, FinishedWithIs

-----------------------------------------------------------------------------
(* Sequences                                                               *)

(* A sequence without its last element.                                    *)
LEMMA Shorter ==
  ASSUME NEW S, NEW s \in Seq(S), s # <<>>
  PROVE  /\ Len(s) \in Nat \ {0} /\ DOMAIN s = 1..Len(s)
         /\ Last(s) = s[Len(s)] /\ Last(s) \in S
         /\ Front(s) \in Seq(S) /\ Len(Front(s)) = Len(s) - 1
         /\ DOMAIN Front(s) = 1..Len(s) - 1
         /\ \A i \in 1..Len(s) - 1 : Front(s)[i] = s[i]
<1>1. Len(s) \in Nat \ {0} /\ DOMAIN s = 1..Len(s)
  BY EmptySeq, LenProperties
<1>2. \A i \in 1..Len(s) : s[i] \in S
  BY <1>1, ElementOfSeq
<1>3. Last(s) = s[Len(s)]
  BY DEF Last
<1>4. Len(s) - 1 \in 0..Len(s) /\ \A i \in 1..Len(s) - 1 : s[i] \in S
  BY <1>1, <1>2
<1>5. /\ Front(s) \in Seq(S) /\ Len(Front(s)) = Len(s) - 1
      /\ \A i \in 1..Len(s) - 1 : Front(s)[i] = s[i]
  BY <1>1, <1>4, SubSeqProperties DEF Front
<1>6. DOMAIN Front(s) = 1..Len(s) - 1
  BY <1>5, LenProperties
<1> QED
  BY <1>1, <1>2, <1>3, <1>5, <1>6

(* A longer sequence.                                                      *)
LEMMA Longer ==
  ASSUME NEW S, NEW s \in Seq(S), NEW e \in S
  PROVE  /\ Len(s) \in Nat /\ DOMAIN s = 1..Len(s)
         /\ Append(s, e) \in Seq(S) /\ Len(Append(s, e)) = Len(s) + 1
         /\ DOMAIN Append(s, e) = 1..Len(s) + 1
         /\ Append(s, e) # <<>>
         /\ Append(s, e)[Len(s) + 1] = e
         /\ \A i \in 1..Len(s) : Append(s, e)[i] = s[i]
<1>1. Len(s) \in Nat /\ DOMAIN s = 1..Len(s)
  BY LenProperties
<1>2. /\ Append(s, e) \in Seq(S) /\ Len(Append(s, e)) = Len(s) + 1
      /\ Append(s, e)[Len(s) + 1] = e
      /\ \A i \in 1..Len(s) : Append(s, e)[i] = s[i]
  BY <1>1, AppendProperties
<1>3. DOMAIN Append(s, e) = 1..Len(s) + 1
  BY <1>2, LenProperties
<1>4. Append(s, e) # <<>>
  BY <1>1, <1>2, EmptySeq
<1> QED
  BY <1>1, <1>2, <1>3, <1>4

(* Another last element.                                                   *)
LEMMA Replaced ==
  ASSUME NEW S, NEW s \in Seq(S), s # <<>>, NEW e \in S
  PROVE  /\ Append(Front(s), e) \in Seq(S) /\ Len(Append(Front(s), e)) = Len(s)
         /\ DOMAIN Append(Front(s), e) = 1..Len(s)
         /\ Append(Front(s), e) # <<>>
         /\ Append(Front(s), e)[Len(s)] = e
         /\ \A i \in 1..Len(s) - 1 : Append(Front(s), e)[i] = s[i]
<1>1. PICK r \in Seq(S) : r = Front(s)
  BY Shorter
<1>2. /\ Len(s) \in Nat \ {0} /\ Len(r) = Len(s) - 1
      /\ \A i \in 1..Len(s) - 1 : r[i] = s[i]
  BY <1>1, Shorter
<1> QED
  BY <1>1, <1>2, Longer

-----------------------------------------------------------------------------
(* What the changes of a stack do                                          *)

Others(t) == \A u \in Threads \ {t} : stack'[u] = stack[u]

(* The first m calls of t are as they were.                                *)
Below(t, m) == \A i \in 1..m : stack'[t][i] = stack[t][i]

(* Then t is in n calls, the innermost of them f.                          *)
Ends(t, n, f) ==
  /\ stack' \in [Threads -> Seq(Frames)] /\ Others(t)
  /\ stack'[t] # <<>> /\ Len(stack'[t]) = n /\ DOMAIN stack'[t] = 1..n
  /\ stack'[t][n] = f /\ Top(t)' = f /\ Label(t)' = f.pc

(* The calls of a thread, and the innermost of them.                       *)
LEMMA Tops ==
  ASSUME Types, NEW t \in Threads
  PROVE  /\ stack[t] \in Seq(Frames) /\ Len(stack[t]) \in Nat
         /\ DOMAIN stack[t] = 1..Len(stack[t])
         /\ stack[t] # <<>> <=> Len(stack[t]) > 0
         /\ stack[t] # <<>> => /\ Top(t) = stack[t][Len(stack[t])]
                               /\ Top(t) \in Frames /\ Label(t) = Top(t).pc
         /\ \A i \in 1..Len(stack[t]) : stack[t][i] \in Frames
<1>1. stack[t] \in Seq(Frames)
  BY DEF Types
<1>2. Len(stack[t]) \in Nat /\ DOMAIN stack[t] = 1..Len(stack[t])
  BY <1>1, LenProperties
<1>3. stack[t] # <<>> <=> Len(stack[t]) > 0
  BY <1>1, <1>2, EmptySeq
<1>4. stack[t] # <<>> => Top(t) = stack[t][Len(stack[t])] /\ Top(t) \in Frames
  BY <1>1, Shorter DEF Top
<1>5. \A i \in 1..Len(stack[t]) : stack[t][i] \in Frames
  BY <1>1, <1>2, ElementOfSeq
<1> QED
  BY <1>1, <1>2, <1>3, <1>4, <1>5 DEF Label

(* The innermost call goes on.                                             *)
LEMMA BecomeFrames ==
  ASSUME Types, NEW t \in Threads, stack[t] # <<>>, NEW f \in Frames,
         stack' = [stack EXCEPT ![t] = Append(Front(stack[t]), f)]
  PROVE  Ends(t, Len(stack[t]), f) /\ Below(t, Len(stack[t]) - 1)
<1>1. PICK r \in Seq(Frames) : r = Append(Front(stack[t]), f)
  BY Tops, Replaced
<1>2. /\ Len(r) = Len(stack[t]) /\ DOMAIN r = 1..Len(stack[t]) /\ r # <<>>
      /\ r[Len(stack[t])] = f /\ \A i \in 1..Len(stack[t]) - 1 : r[i] = stack[t][i]
  BY <1>1, Tops, Replaced
<1>3. stack' = [stack EXCEPT ![t] = r]
  BY <1>1
<1>4. stack' \in [Threads -> Seq(Frames)] /\ Others(t) /\ stack'[t] = r
  BY <1>3 DEF Types, Others
<1>5. Last(r) = f
  BY <1>2, Shorter
<1> QED
  BY <1>2, <1>4, <1>5 DEF Ends, Top, Label, Below

(* It goes on to a label.                                                  *)
LEMMA GoOnFrames ==
  ASSUME Types, NEW t \in Threads, stack[t] # <<>>, NEW label \in Labels, GoOn(t, label)
  PROVE  /\ [Top(t) EXCEPT !.pc = label] \in Frames
         /\ Ends(t, Len(stack[t]), [Top(t) EXCEPT !.pc = label])
         /\ Below(t, Len(stack[t]) - 1)
<1>1. PICK n : n = Len(stack[t])
  OBVIOUS
<1>2. /\ n \in Nat \ {0} /\ DOMAIN stack[t] = 1..n /\ stack[t] \in Seq(Frames)
      /\ Top(t) = stack[t][n] /\ Top(t) \in Frames
      /\ \A i \in 1..n : stack[t][i] \in Frames
  BY <1>1, Tops
<1>3. PICK f : f = [Top(t) EXCEPT !.pc = label]
  OBVIOUS
<1>4. f \in Frames /\ f.pc = label
  BY <1>2, <1>3 DEF Frames
<1>5. PICK r : r = [stack[t] EXCEPT ![n] = f]
  OBVIOUS
<1>6. r \in Seq(Frames) /\ Len(r) = n /\ DOMAIN r = 1..n /\ r[n] = f
      /\ \A i \in 1..n - 1 : r[i] = stack[t][i]
  <2>1. r \in [1..n -> Frames] /\ r[n] = f /\ \A i \in 1..n - 1 : r[i] = stack[t][i]
    BY <1>2, <1>4, <1>5
  <2>2. r \in Seq(Frames)
    BY <1>2, <2>1, SeqDef
  <2>3. Len(r) = n
    BY <1>2, <2>1, <2>2, LenProperties
  <2> QED
    BY <2>1, <2>2, <2>3
<1>7. stack' = [stack EXCEPT ![t] = r]
  BY <1>1, <1>2, <1>3, <1>5 DEF GoOn, Types
<1>8. stack' \in [Threads -> Seq(Frames)] /\ Others(t) /\ stack'[t] = r
  BY <1>6, <1>7 DEF Types, Others
<1>9. r # <<>> /\ Last(r) = f
  BY <1>2, <1>6, EmptySeq DEF Last
<1> QED
  BY <1>1, <1>2, <1>3, <1>4, <1>6, <1>8, <1>9 DEF Ends, Top, Label, Below

(* The innermost call makes another one.                                   *)
LEMMA CallFrames ==
  ASSUME Types, NEW t \in Threads, stack[t] # <<>>, NEW f \in Frames, NEW g \in Frames,
         stack' = [stack EXCEPT ![t] = Append(Append(Front(stack[t]), f), g)]
  PROVE  /\ Ends(t, Len(stack[t]) + 1, g) /\ stack'[t][Len(stack[t])] = f
         /\ Below(t, Len(stack[t]) - 1)
<1>1. PICK q \in Seq(Frames) : q = Append(Front(stack[t]), f)
  BY Tops, Replaced
<1>2. /\ Len(q) = Len(stack[t]) /\ Len(q) \in Nat \ {0} /\ q[Len(q)] = f
      /\ \A i \in 1..Len(stack[t]) - 1 : q[i] = stack[t][i]
  BY <1>1, Tops, Replaced
<1>3. PICK r \in Seq(Frames) : r = Append(q, g)
  BY Longer
<1>4. /\ Len(r) = Len(q) + 1 /\ DOMAIN r = 1..Len(q) + 1 /\ r # <<>>
      /\ r[Len(q) + 1] = g /\ \A i \in 1..Len(q) : r[i] = q[i]
  BY <1>3, Longer
<1>5. stack' = [stack EXCEPT ![t] = r]
  BY <1>1, <1>3
<1>6. stack' \in [Threads -> Seq(Frames)] /\ Others(t) /\ stack'[t] = r
  BY <1>5 DEF Types, Others
<1>7. Last(r) = g
  BY <1>4, Shorter
<1>8. Below(t, Len(stack[t]) - 1)
  <2>1. Len(q) = Len(stack[t]) /\ Len(q) \in Nat /\ stack'[t] = r
    BY <1>2, <1>6
  <2> QED
    BY <1>2, <1>4, <2>1 DEF Below
<1>9. Top(t)' = g /\ Label(t)' = g.pc
  BY <1>4, <1>6, <1>7 DEF Top, Label
<1> QED
  BY <1>2, <1>4, <1>6, <1>8, <1>9 DEF Ends

(* The innermost call returns.                                             *)
LEMMA ReturnFrames ==
  ASSUME Types, NEW t \in Threads, stack[t] # <<>>, Return(t)
  PROVE  /\ stack' \in [Threads -> Seq(Frames)] /\ Others(t)
         /\ Len(stack'[t]) = Len(stack[t]) - 1 /\ DOMAIN stack'[t] = 1..Len(stack[t]) - 1
         /\ stack'[t] = <<>> => Label(t)' = "program"
         /\ stack'[t] # <<>> => /\ Len(stack[t]) > 1
                                /\ Top(t)' = stack[t][Len(stack[t]) - 1]
                                /\ Label(t)' = Top(t)'.pc
         /\ Below(t, Len(stack[t]) - 1)
<1>1. PICK r \in Seq(Frames) : r = Front(stack[t])
  BY Tops, Shorter
<1>2. /\ Len(r) = Len(stack[t]) - 1 /\ DOMAIN r = 1..Len(stack[t]) - 1
      /\ \A i \in 1..Len(stack[t]) - 1 : r[i] = stack[t][i]
      /\ Len(stack[t]) \in Nat \ {0}
  BY <1>1, Tops, Shorter
<1>3. stack' = [stack EXCEPT ![t] = r]
  BY <1>1 DEF Return
<1>4. stack' \in [Threads -> Seq(Frames)] /\ Others(t) /\ stack'[t] = r
  BY <1>3 DEF Types, Others
<1>5. ASSUME r # <<>> PROVE Len(r) > 0 /\ Last(r) = r[Len(r)]
  <2>1. Len(r) \in Nat \ {0} /\ Last(r) = r[Len(r)]
    BY <1>5, Shorter
  <2> QED
    BY <2>1
<1>6. stack'[t] # <<>> => Len(stack[t]) > 1 /\ Top(t)' = stack[t][Len(stack[t]) - 1]
  BY <1>2, <1>4, <1>5 DEF Top
<1>7. Label(t)' = IF stack'[t] = <<>> THEN "program" ELSE Top(t)'.pc
  BY DEF Label
<1> QED
  BY <1>2, <1>4, <1>6, <1>7 DEF Below

(* The program makes a call.                                               *)
LEMMA FirstFrame ==
  ASSUME Types, NEW t \in Threads, NEW f \in Frames, stack' = [stack EXCEPT ![t] = <<f>>]
  PROVE  Ends(t, 1, f)
<1>1. <<f>> \in Seq(Frames) /\ Len(<<f>>) = 1 /\ <<f>>[1] = f /\ <<f>> # <<>> /\ DOMAIN <<f>> = 1..1
  OBVIOUS
<1>2. stack' \in [Threads -> Seq(Frames)] /\ Others(t) /\ stack'[t] = <<f>>
  BY <1>1 DEF Types, Others
<1>3. Last(<<f>>) = f
  BY <1>1 DEF Last
<1> QED
  BY <1>1, <1>2, <1>3 DEF Ends, Top, Label

-----------------------------------------------------------------------------
(* What steps keep                                                         *)

(* Classes are initialized once.                                           *)
Grows ==
  \A c \in Classes : /\ state[c] # "no" => state'[c] # "no"
                     /\ state[c] = "initialized" => state'[c] = "initialized"

(* What others do does not change what holds of a thread's calls and list, *)
(* as long as they let its classes be.                                     *)
LEMMA Apart ==
  ASSUME Types, Types', Grows, forkChild' = forkChild,
         NEW u \in Threads, Nested(u), Works(u), Knows(u), List(u),
         stack'[u] = stack[u], mine'[u] = mine[u], u \in unwinding' <=> u \in unwinding,
         \A i \in DOMAIN stack[u] : stack[u][i].pc \in Active => pending'[stack[u][i].cls] = 0,
         \A c \in mine[u] \cap Trivial :
           pending[c] > 0 => pending'[c] > 0 \/ state'[c] = "initialized"
  PROVE  Nested(u)' /\ Works(u)' /\ Knows(u)' /\ List(u)'
<1>1. Top(u)' = Top(u) /\ (stack[u] # <<>> => Top(u) \in Frames)
  BY Tops DEF Top
<1>2. mine[u] \subseteq Classes
  BY DEF Types
<1>3. \A c \in Classes : Begun(u, c) => Begun(u, c)'
  BY SuperIn DEF Begun, Grows
<1>4. Nested(u)'
  BY DEF Nested
<1>5. Works(u)'
  BY DEF Works
<1>6. Knows(u)'
  <2> SUFFICES ASSUME stack[u] # <<>>
               PROVE  LET c == Top(u).cls
                          pc == Top(u).pc IN
                      /\ pc \in Tried \/ (pc = "try" /\ u \notin unwinding) => Begun(u, c)'
                      /\ pc \in Tried => state'[c] # "no"
                      /\ pc = "record" => c \notin mine'[u]
                      /\ pc = "recheck" => state'[c] = "initialized"
                      /\ pc = "wait" => /\ ~forkChild'
                                        /\ \A d \in mine'[u] : d \notin Ancestors[c] /\ c \notin Ancestors[d]
    BY <1>1 DEF Knows
  <2>1. Top(u).cls \in Classes
    BY <1>1 DEF Frames
  <2>2. PICK c, pc : c \in Classes /\ c = Top(u).cls /\ pc = Top(u).pc
    BY <2>1
  <2>3. /\ pc \in Tried \/ (pc = "try" /\ u \notin unwinding) => Begun(u, c)
        /\ pc \in Tried => state[c] # "no"
        /\ pc = "record" => c \notin mine[u]
        /\ pc = "recheck" => state[c] = "initialized"
        /\ pc = "wait" => /\ ~forkChild
                          /\ \A d \in mine[u] : d \notin Ancestors[c] /\ c \notin Ancestors[d]
    BY <2>2 DEF Knows
  <2>4. /\ state[c] # "no" => state'[c] # "no"
        /\ state[c] = "initialized" => state'[c] = "initialized"
        /\ Begun(u, c) => Begun(u, c)'
    BY <1>3, <2>2 DEF Grows
  <2> QED
    BY <1>1, <2>2, <2>3, <2>4
<1>7. List(u)'
  <2>1. ASSUME NEW c \in mine[u] PROVE state'[c] # "no" /\ Begun(u, c)'
    BY <1>2, <1>3, <2>1 DEF List, Grows
  <2>2. ASSUME NEW c \in mine[u], c \in Trivial, state'[c] = "initializing"
        PROVE  pending'[c] > 0 \/ Working(u, c)'
    <3>1. c \in Classes /\ state[c] = "initializing"
      BY <1>2, <2>2 DEF List, Grows, Types
    <3>2. pending[c] > 0 \/ Working(u, c)
      BY <2>2, <3>1 DEF List
    <3> QED
      BY <1>1, <2>2, <3>2 DEF Working
  <2> QED
    BY <2>1, <2>2 DEF List
<1> QED
  BY <1>4, <1>5, <1>6, <1>7

(* The steps that only move the innermost call.                            *)
Moves(t) ==
  /\ UNCHANGED <<uses, state, mine, pending, forkChild, halted>>
  /\ stack' \in [Threads -> Seq(Frames)] /\ Others(t)
  /\ \A u \in Threads \ {t} : u \in unwinding' <=> u \in unwinding
  /\ unwinding' \subseteq Threads /\ asleep' \subseteq Threads
  /\ Label(t) \notin {"record", "fork"}
  /\ Label(t)' = "record" => forkChild

(* They keep the invariant, if it holds of the call at its new place.      *)
LEMMA MovesKeep ==
  ASSUME IInv, NEW t \in Threads, Moves(t), Nested(t)', Works(t)', Knows(t)', List(t)'
  PROVE  IInv'
<1>1. Types' /\ Grows /\ Types
  BY DEF IInv, Moves, Types, Grows
<1>2. \A u \in Threads \ {t} : Top(u)' = Top(u) /\ Label(u)' = Label(u)
  BY DEF Moves, Others, Top, Label
<1>3. Tree'
  BY DEF IInv, Moves, Tree
<1>4. Pending'
  <2> SUFFICES ASSUME NEW d \in Classes, pending[d] > 0
               PROVE  /\ d # Root /\ state[d] = "initializing" /\ state[Super[d]] = "initializing"
                      /\ Super[d] \in Trivial => pending[Super[d]] > 0
                      /\ \A u \in Threads : Super[d] \in mine[u] =>
                           \/ d \in mine[u]
                           \/ forkChild /\ Label(u)' = "fork" /\ Top(u)'.cls = Super[d] /\ Super[d] \notin Trivial
    BY DEF Moves, Pending
  <2>1. /\ d # Root /\ state[d] = "initializing" /\ state[Super[d]] = "initializing"
        /\ Super[d] \in Trivial => pending[Super[d]] > 0
        /\ \A u \in Threads : Super[d] \in mine[u] =>
             \/ d \in mine[u]
             \/ forkChild /\ Label(u) = "fork" /\ Top(u).cls = Super[d] /\ Super[d] \notin Trivial
    BY DEF IInv, Pending
  <2>2. Label(t) # "fork"
    BY DEF Moves
  <2> QED
    BY <1>2, <2>1, <2>2
<1>5. ASSUME NEW u \in Threads PROVE Nested(u)' /\ Works(u)' /\ Knows(u)' /\ List(u)'
  <2>1. CASE u = t
    BY <2>1
  <2>2. CASE u # t
    <3>1. Nested(u) /\ Works(u) /\ Knows(u) /\ List(u)
      BY DEF IInv
    <3>2. /\ stack'[u] = stack[u] /\ mine'[u] = mine[u] /\ forkChild' = forkChild
          /\ u \in unwinding' <=> u \in unwinding
          /\ pending' = pending
      BY <2>2 DEF Moves, Others
    <3>3. \A i \in DOMAIN stack[u] : stack[u][i].pc \in Active => pending'[stack[u][i].cls] = 0
      BY <3>1, <3>2 DEF Works
    <3> QED
      BY <1>1, <3>1, <3>2, <3>3, Apart
  <2> QED
    BY <2>1, <2>2
<1>6. CASE forkChild
  <2>1. PICK p \in Threads : \A u \in Threads \ {p} : \A c \in mine[u] :
          state[c] = "initialized" \/ (Label(u) = "fork" /\ Top(u).cls = c)
    BY <1>6 DEF IInv, Child
  <2>2. \A u \in Threads \ {p} : \A c \in mine[u] :
          state[c] = "initialized" \/ (Label(u)' = "fork" /\ Top(u)'.cls = c)
    BY <1>2, <2>1 DEF Moves
  <2>3. Child'
    BY <2>2 DEF Child, Moves
  <2> QED
    BY <1>1, <1>3, <1>4, <1>5, <1>6, <2>3 DEF IInv, Moves
<1>7. CASE ~forkChild
  <2>1. \A u \in Threads, c \in Classes : Owns(u, c)' <=> Owns(u, c)
    BY <1>2, <1>7 DEF Moves, Owns
  <2>2. Owners'
    BY <1>7, <2>1 DEF IInv, Owners, Moves
  <2> QED
    BY <1>1, <1>3, <1>4, <1>5, <1>7, <2>2 DEF IInv, Moves
<1> QED
  BY <1>6, <1>7

(* The innermost call goes on with the class it has.                       *)
LEMMA GoesFrames ==
  ASSUME Types, NEW t \in Threads, stack[t] # <<>>, NEW f,
         Ends(t, Len(stack[t]), f), Below(t, Len(stack[t]) - 1)
  PROVE  \E n \in Nat \ {0} :
           /\ n = Len(stack[t]) /\ DOMAIN stack[t] = 1..n /\ Top(t) = stack[t][n]
           /\ DOMAIN stack'[t] = 1..n /\ Len(stack'[t]) = n /\ stack'[t][n] = f /\ Top(t)' = f
           /\ \A i \in 1..n : i # n => stack'[t][i] = stack[t][i]
           /\ stack'[t] # <<>>
<1>1. PICK n : n = Len(stack[t])
  OBVIOUS
<1>2. n \in Nat \ {0} /\ \A i \in 1..n : i # n => i \in 1..n - 1
  BY <1>1, Tops
<1>3. /\ DOMAIN stack[t] = 1..n /\ Top(t) = stack[t][n]
      /\ DOMAIN stack'[t] = 1..n /\ Len(stack'[t]) = n /\ stack'[t][n] = f /\ Top(t)' = f
      /\ \A i \in 1..n : i # n => stack'[t][i] = stack[t][i]
      /\ stack'[t] # <<>>
  BY <1>1, <1>2, Tops DEF Ends, Below
<1> QED
  BY <1>1, <1>2, <1>3

(* It waits for what it waited for, or for nothing.                        *)
LEMMA GoesNested ==
  ASSUME Types, NEW t \in Threads, Nested(t), stack[t] # <<>>, NEW f,
         Ends(t, Len(stack[t]), f), Below(t, Len(stack[t]) - 1), f.cls = Top(t).cls
  PROVE  Nested(t)'
<1>1. PICK n \in Nat \ {0} :
        /\ n = Len(stack[t]) /\ DOMAIN stack[t] = 1..n /\ Top(t) = stack[t][n]
        /\ DOMAIN stack'[t] = 1..n /\ Len(stack'[t]) = n /\ stack'[t][n] = f /\ Top(t)' = f
        /\ \A i \in 1..n : i # n => stack'[t][i] = stack[t][i]
        /\ stack'[t] # <<>>
  BY GoesFrames
<1>2. /\ n \in Nat \ {0} /\ DOMAIN stack[t] = 1..n /\ Top(t) = stack[t][n]
      /\ DOMAIN stack'[t] = 1..n /\ Len(stack'[t]) = n /\ stack'[t][n] = f
      /\ \A i \in 1..n : i # n => stack'[t][i] = stack[t][i]
  BY <1>1
<1> SUFFICES ASSUME NEW i \in 1..n, i # n
             PROVE  \/ /\ stack'[t][i].pc = "try" /\ stack'[t][i].cls # Root
                       /\ stack'[t][i + 1].cls = Super[stack'[t][i].cls]
                    \/ stack'[t][i].pc = "body" /\ stack'[t][i].cls \notin Trivial
  BY <1>2 DEF Nested
<1>3. i + 1 \in 1..n /\ stack'[t][i] = stack[t][i]
  BY <1>2
<1>4. stack'[t][i + 1].cls = stack[t][i + 1].cls
  BY <1>2, <1>3
<1> QED
  BY <1>1, <1>2, <1>3, <1>4 DEF Nested

(* It has the class it had, and its place in the list.                     *)
LEMMA GoesOn ==
  ASSUME Types, NEW t \in Threads, Nested(t), Works(t), List(t), stack[t] # <<>>, NEW f \in Frames,
         Ends(t, Len(stack[t]), f), Below(t, Len(stack[t]) - 1),
         UNCHANGED <<mine, pending, forkChild>>,
         f.cls = Top(t).cls, f.pc \in Active <=> Top(t).pc \in Active,
         f.pc = "fork" => forkChild, f.pc = "body" /\ f.cls \in Trivial => f.todo = {}
  PROVE  Nested(t)' /\ Works(t)' /\ (state' = state => List(t)')
<1>1. PICK n \in Nat \ {0} :
        /\ n = Len(stack[t]) /\ DOMAIN stack[t] = 1..n /\ Top(t) = stack[t][n]
        /\ DOMAIN stack'[t] = 1..n /\ Len(stack'[t]) = n /\ stack'[t][n] = f /\ Top(t)' = f
        /\ \A i \in 1..n : i # n => stack'[t][i] = stack[t][i]
        /\ stack'[t] # <<>>
  BY GoesFrames
<1>2. /\ n \in Nat \ {0} /\ DOMAIN stack[t] = 1..n /\ Top(t) = stack[t][n]
      /\ DOMAIN stack'[t] = 1..n /\ stack'[t][n] = f /\ Top(t)' = f /\ stack'[t] # <<>>
      /\ \A i \in 1..n : i # n => stack'[t][i] = stack[t][i]
  BY <1>1
<1>3. \A i \in 1..n : /\ stack'[t][i].cls = stack[t][i].cls
                      /\ stack'[t][i].pc \in Active <=> stack[t][i].pc \in Active
  BY <1>2
<1>4. Works(t)'
  <2> SUFFICES ASSUME NEW i \in 1..n, stack'[t][i].pc \in Active
               PROVE  /\ stack'[t][i].cls \in mine[t] /\ pending[stack'[t][i].cls] = 0
                      /\ stack'[t][i].pc = "fork" => forkChild
                      /\ stack'[t][i].pc = "body" /\ stack'[t][i].cls \in Trivial => stack'[t][i].todo = {}
                      /\ \A j \in 1..n : stack'[t][j].pc \in Active /\ stack'[t][j].cls = stack'[t][i].cls => i = j
    BY <1>2 DEF Works
  <2>1. /\ stack[t][i].cls \in mine[t] /\ pending[stack[t][i].cls] = 0
        /\ stack[t][i].pc = "fork" => forkChild
        /\ stack[t][i].pc = "body" /\ stack[t][i].cls \in Trivial => stack[t][i].todo = {}
        /\ \A j \in 1..n : stack[t][j].pc \in Active /\ stack[t][j].cls = stack[t][i].cls => i = j
    BY <1>2, <1>3 DEF Works
  <2>2. \A j \in 1..n : stack'[t][j].pc \in Active /\ stack'[t][j].cls = stack'[t][i].cls => i = j
    BY <1>3, <2>1
  <2>3. stack'[t][i] = f \/ stack'[t][i] = stack[t][i]
    BY <1>2
  <2> QED
    BY <1>3, <2>1, <2>2, <2>3
<1>5. state' = state => List(t)'
  BY <1>2 DEF List, Working, Begun
<1>6. Nested(t)'
  BY GoesNested
<1> QED
  BY <1>4, <1>5, <1>6

(* It calls, to initialize the superclass or in its +initialize method.    *)
LEMMA CallsOn ==
  ASSUME IInv, NEW t \in Threads, stack[t] # <<>>, NEW f \in Frames, NEW g \in Frames,
         Ends(t, Len(stack[t]) + 1, g), stack'[t][Len(stack[t])] = f, Below(t, Len(stack[t]) - 1),
         UNCHANGED <<state, mine, pending, forkChild>>,
         f.cls = Top(t).cls, f.pc \in Active <=> Top(t).pc \in Active, g.pc = "enter",
         \/ f.pc = "try" /\ f.cls # Root /\ g.cls = Super[f.cls]
         \/ f.pc = "body" /\ f.cls \notin Trivial
  PROVE  Nested(t)' /\ Works(t)' /\ List(t)'
<1>1. PICK n : n = Len(stack[t])
  OBVIOUS
<1>2. /\ n \in Nat \ {0} /\ DOMAIN stack[t] = 1..n /\ Top(t) = stack[t][n]
      /\ DOMAIN stack'[t] = 1..n + 1 /\ Len(stack'[t]) = n + 1
      /\ stack'[t][n] = f /\ stack'[t][n + 1] = g
      /\ \A i \in 1..n + 1 : i # n /\ i # n + 1 => i \in 1..n /\ stack'[t][i] = stack[t][i]
      /\ stack'[t] # <<>>
  <2>1. n \in Nat \ {0} /\ DOMAIN stack[t] = 1..n /\ Top(t) = stack[t][n]
    BY <1>1, Tops DEF IInv
  <2>2. \A i \in 1..n + 1 : i # n /\ i # n + 1 => i \in 1..n - 1 /\ i \in 1..n
    BY <2>1
  <2>3. \A i \in 1..n - 1 : stack'[t][i] = stack[t][i]
    BY <1>1 DEF Below
  <2>4. /\ DOMAIN stack'[t] = 1..n + 1 /\ Len(stack'[t]) = n + 1 /\ stack'[t] # <<>>
        /\ stack'[t][n + 1] = g /\ stack'[t][n] = f
    BY <1>1 DEF Ends
  <2> QED
    BY <2>1, <2>2, <2>3, <2>4
<1>3. Nested(t) /\ Works(t) /\ List(t)
  BY DEF IInv
<1>4. \A i \in 1..n : /\ stack'[t][i].cls = stack[t][i].cls
                      /\ stack'[t][i].pc \in Active <=> stack[t][i].pc \in Active
  <2> SUFFICES ASSUME NEW i \in 1..n PROVE /\ stack'[t][i].cls = stack[t][i].cls
                                           /\ stack'[t][i].pc \in Active <=> stack[t][i].pc \in Active
    OBVIOUS
  <2>1. i \in 1..n + 1 /\ i # n + 1
    BY <1>2
  <2>2. CASE i = n
    BY <1>2, <2>2
  <2>3. CASE i # n
    BY <1>2, <2>1, <2>3
  <2> QED
    BY <2>2, <2>3
<1>5. Nested(t)'
  <2> SUFFICES ASSUME NEW i \in 1..n
               PROVE  \/ /\ stack'[t][i].pc = "try" /\ stack'[t][i].cls # Root
                         /\ stack'[t][i + 1].cls = Super[stack'[t][i].cls]
                      \/ stack'[t][i].pc = "body" /\ stack'[t][i].cls \notin Trivial
    BY <1>2 DEF Nested
  <2>1. CASE i = n
    BY <1>2, <2>1
  <2>2. CASE i # n
    <3>1. i + 1 \in 1..n /\ stack'[t][i] = stack[t][i]
      BY <1>2, <2>2
    <3>2. stack'[t][i + 1].cls = stack[t][i + 1].cls
      BY <1>4, <3>1
    <3> QED
      BY <1>1, <1>2, <1>3, <2>2, <3>1, <3>2 DEF Nested
  <2> QED
    BY <2>1, <2>2
<1>6. g.pc \notin Active
  BY DEF Active
<1>7. Works(t)'
  <2> SUFFICES ASSUME NEW i \in 1..n + 1, stack'[t][i].pc \in Active
               PROVE  /\ stack'[t][i].cls \in mine[t] /\ pending[stack'[t][i].cls] = 0
                      /\ stack'[t][i].pc = "fork" => forkChild
                      /\ stack'[t][i].pc = "body" /\ stack'[t][i].cls \in Trivial => stack'[t][i].todo = {}
                      /\ \A j \in 1..n + 1 : stack'[t][j].pc \in Active /\ stack'[t][j].cls = stack'[t][i].cls => i = j
    BY <1>2 DEF Works
  <2>1. i \in 1..n
    BY <1>2, <1>6
  <2>2. /\ stack[t][i].cls \in mine[t] /\ pending[stack[t][i].cls] = 0
        /\ stack[t][i].pc = "fork" => forkChild
        /\ stack[t][i].pc = "body" /\ stack[t][i].cls \in Trivial => stack[t][i].todo = {}
        /\ \A j \in 1..n : stack[t][j].pc \in Active /\ stack[t][j].cls = stack[t][i].cls => i = j
    BY <1>2, <1>3, <1>4, <2>1 DEF Works
  <2>3. ASSUME NEW j \in 1..n + 1, stack'[t][j].pc \in Active, stack'[t][j].cls = stack'[t][i].cls PROVE i = j
    <3>1. j \in 1..n
      BY <1>2, <1>6, <2>3
    <3> QED
      BY <1>4, <2>1, <2>2, <2>3, <3>1
  <2>4. (stack'[t][i] = f /\ f.pc \in {"try", "body"} /\ (f.pc = "body" => f.cls \notin Trivial))
        \/ stack'[t][i] = stack[t][i]
    <3>1. CASE i = n
      BY <1>2, <3>1
    <3>2. CASE i # n
      <4>1. i \in 1..n + 1 /\ i # n + 1
        BY <1>2, <2>1
      <4> QED
        BY <1>2, <3>2, <4>1
    <3> QED
      BY <3>1, <3>2
  <2> QED
    BY <1>4, <2>1, <2>2, <2>3, <2>4
<1>8. List(t)'
  <2>1. \A c \in mine[t] : Working(t, c) => c \notin Trivial
    BY DEF Working, Active
  <2> QED
    BY <1>3, <2>1 DEF List, Begun
<1> QED
  BY <1>5, <1>7, <1>8

(* It returns to its caller, with the class initialized or in the list of  *)
(* the thread, or with an exception.                                       *)
LEMMA ReturnKnows ==
  ASSUME IInv, NEW t \in Threads, stack[t] # <<>>, Return(t),
         t \in unwinding' \/ Top(t).cls \in mine'[t] \/ state'[Top(t).cls] = "initialized"
  PROVE  Nested(t)' /\ Knows(t)'
<1>1. PICK n : n = Len(stack[t])
  OBVIOUS
<1>2. /\ n \in Nat \ {0} /\ DOMAIN stack[t] = 1..n /\ Top(t) = stack[t][n]
      /\ Len(stack'[t]) = n - 1 /\ DOMAIN stack'[t] = 1..n - 1
      /\ stack'[t] # <<>> => n > 1 /\ Top(t)' = stack[t][n - 1]
      /\ \A i \in 1..n - 1 : stack'[t][i] = stack[t][i]
  BY <1>1, Tops, ReturnFrames DEF IInv, Below
<1>3. Nested(t)
  BY DEF IInv
<1>4. Nested(t)'
  <2> SUFFICES ASSUME NEW i \in 1..n - 1, i # n - 1
               PROVE  \/ /\ stack'[t][i].pc = "try" /\ stack'[t][i].cls # Root
                         /\ stack'[t][i + 1].cls = Super[stack'[t][i].cls]
                      \/ stack'[t][i].pc = "body" /\ stack'[t][i].cls \notin Trivial
    BY <1>2 DEF Nested
  <2>1. i \in 1..n /\ i # n /\ i + 1 \in 1..n - 1
    BY <1>2
  <2>2. stack'[t][i] = stack[t][i] /\ stack'[t][i + 1] = stack[t][i + 1]
    BY <1>2, <2>1
  <2> QED
    BY <1>1, <1>2, <1>3, <2>1, <2>2 DEF Nested
<1>5. Knows(t)'
  <2> SUFFICES ASSUME stack'[t] # <<>> PROVE Knows(t)'
    BY DEF Knows
  <2>1. n - 1 \in 1..n /\ n - 1 # n /\ (n - 1) + 1 = n /\ Top(t)' = stack[t][n - 1]
    BY <1>2
  <2>2. \/ /\ stack[t][n - 1].pc = "try" /\ stack[t][n - 1].cls # Root
           /\ stack[t][n].cls = Super[stack[t][n - 1].cls]
        \/ stack[t][n - 1].pc = "body"
    BY <1>1, <1>2, <1>3, <2>1 DEF Nested
  <2>3. PICK f : f = stack[t][n - 1]
    OBVIOUS
  <2>4. f.pc \in {"try", "body"} /\ Top(t)' = f
    BY <2>1, <2>2, <2>3
  <2>5. f.pc = "try" /\ t \notin unwinding' => Begun(t, f.cls)'
    BY <1>2, <2>2, <2>3 DEF Begun
  <2> QED
    BY <2>4, <2>5 DEF Knows, Tried
<1> QED
  BY <1>4, <1>5

(* A call that does not have its class in the list returns.                *)
LEMMA ReturnsOn ==
  ASSUME IInv, NEW t \in Threads, stack[t] # <<>>, Return(t), Top(t).pc \notin Active,
         UNCHANGED <<state, mine, pending, forkChild>>
  PROVE  Works(t)' /\ List(t)'
<1>1. PICK n : n = Len(stack[t])
  OBVIOUS
<1>2. /\ n \in Nat \ {0} /\ DOMAIN stack[t] = 1..n /\ DOMAIN stack'[t] = 1..n - 1
      /\ \A i \in 1..n - 1 : i \in 1..n /\ stack'[t][i] = stack[t][i]
  <2>1. \A i \in 1..n - 1 : i \in 1..n
    BY <1>1, Tops DEF IInv
  <2> QED
    BY <1>1, <2>1, Tops, ReturnFrames DEF IInv, Below
<1>3. Works(t) /\ List(t)
  BY DEF IInv
<1>4. Works(t)'
  BY <1>2, <1>3 DEF Works
<1>5. List(t)'
  BY <1>3 DEF List, Working, Begun
<1> QED
  BY <1>4, <1>5

-----------------------------------------------------------------------------
(* The steps that only move a call                                         *)

(* The superclass is initialized, or there is none.                        *)
LEMMA SuperDoneIs == \A c \in Classes : SuperDone(c) <=> c = Root \/ state[Super[c]] = "initialized"
  BY InitializeAssumption DEF SuperDone

(* A thread at a label is in a call.                                       *)
LEMMA AtIs ==
  ASSUME IInv, NEW t \in Threads, NEW label, label # "program", At(t, label)
  PROVE  /\ halted = "no" /\ t \notin unwinding /\ Label(t) = label
         /\ stack[t] # <<>> /\ Top(t) \in Frames /\ Top(t).pc = label /\ Top(t).cls \in Classes
<1>1. halted = "no" /\ t \notin unwinding /\ Label(t) = label
  BY DEF At
<1>2. stack[t] # <<>> /\ Top(t).pc = label
  BY <1>1 DEF Label
<1>3. Top(t) \in Frames
  BY <1>2, Tops DEF IInv
<1> QED
  BY <1>1, <1>2, <1>3 DEF Frames

(* What a call of t knows of its class it knows at another label.          *)
LEMMA KnowsNext ==
  ASSUME NEW t \in Threads, NEW f, stack'[t] # <<>>, Top(t)' = f,
         f.pc \in Tried \/ (f.pc = "try" /\ t \notin unwinding') => Begun(t, f.cls)',
         f.pc \in Tried => state'[f.cls] # "no",
         f.pc = "record" => f.cls \notin mine'[t],
         f.pc = "recheck" => state'[f.cls] = "initialized",
         f.pc = "wait" => /\ ~forkChild'
                          /\ \A d \in mine'[t] : d \notin Ancestors[f.cls] /\ f.cls \notin Ancestors[d]
  PROVE  Knows(t)'
  BY DEF Knows

(* A message begins a call.                                                *)
LEMMA MessageStep ==
  ASSUME IInv, NEW t \in Threads, NEW c \in Classes, Message(t, c)
  PROVE  IInv'
<1>1. At(t, "program") /\ stack' = [stack EXCEPT ![t] = <<Frame(c)>>]
      /\ UNCHANGED <<uses, state, mine, pending, unwinding, asleep, forkChild, halted>>
  BY DEF Message
<1>2. Frame(c) \in Frames /\ Frame(c).pc = "enter"
  BY DEF Frame, Frames, Labels
<1>3. Ends(t, 1, Frame(c)) /\ Types
  BY <1>1, <1>2, FirstFrame DEF IInv
<1>4. Label(t) = "program" /\ Label(t)' = "enter"
  BY <1>1, <1>2, <1>3 DEF At, Ends
<1>5. Moves(t)
  BY <1>1, <1>3, <1>4 DEF Moves, Ends, Types
<1>6. stack'[t] # <<>> /\ DOMAIN stack'[t] = 1..1 /\ Len(stack'[t]) = 1 /\ stack'[t][1] = Frame(c)
      /\ Top(t)' = Frame(c)
  BY <1>3 DEF Ends
<1>7. Nested(t)'
  BY <1>6 DEF Nested
<1>8. Works(t)'
  BY <1>2, <1>6 DEF Works, Active
<1>9. Knows(t)'
  BY <1>2, <1>6, KnowsNext DEF Tried
<1>10. List(t)'
  <2>1. stack[t] = <<>>
    <3>1. stack[t] # <<>> => Top(t).pc \in Labels
      BY <1>3, Tops DEF Frames
    <3> QED
      BY <1>4, <3>1 DEF Label, Labels
  <2>2. List(t)
    BY DEF IInv
  <2> QED
    BY <1>1, <2>1, <2>2 DEF List, Working, Begun
<1> QED
  BY <1>5, <1>7, <1>8, <1>9, <1>10, MovesKeep

(* The call for the superclass comes first.                                *)
LEMMA EnterStep ==
  ASSUME IInv, NEW t \in Threads, Enter(t)
  PROVE  IInv'
<1>1. PICK c, tried : c = Top(t).cls /\ tried = [Top(t) EXCEPT !.pc = "try"]
  OBVIOUS
<1>2. /\ At(t, "enter")
      /\ stack' = [stack EXCEPT ![t] = IF SuperDone(c) THEN Append(Front(stack[t]), tried)
                                       ELSE Append(Append(Front(stack[t]), tried), Frame(Super[c]))]
      /\ UNCHANGED <<uses, state, mine, pending, unwinding, asleep, forkChild, halted>>
  BY <1>1 DEF Enter
<1>3. /\ halted = "no" /\ t \notin unwinding /\ Label(t) = "enter"
      /\ stack[t] # <<>> /\ Top(t) \in Frames /\ Top(t).pc = "enter" /\ c \in Classes
  BY <1>1, <1>2, AtIs
<1>4. tried \in Frames /\ tried.pc = "try" /\ tried.cls = c
  BY <1>1, <1>3 DEF Frames, Labels
<1>5. Types
  BY DEF IInv
<1>6. CASE SuperDone(c)
  <2>1. Ends(t, Len(stack[t]), tried) /\ Below(t, Len(stack[t]) - 1)
    BY <1>2, <1>3, <1>4, <1>5, <1>6, BecomeFrames
  <2>2. Nested(t)' /\ Works(t)' /\ List(t)'
    BY <1>1, <1>2, <1>3, <1>4, <2>1, GoesOn DEF Active, IInv
  <2>3. Begun(t, c)'
    BY <1>2, <1>3, <1>6, SuperDoneIs DEF Begun
  <2>4. Knows(t)'
    BY <1>4, <2>1, <2>3, KnowsNext DEF Tried, Ends
  <2>5. Moves(t)
    BY <1>2, <1>3, <1>4, <1>5, <2>1 DEF Moves, Ends, Types
  <2> QED
    BY <2>2, <2>4, <2>5, MovesKeep
<1>7. CASE ~SuperDone(c)
  <2>1. c # Root /\ Super[c] \in Classes
    BY <1>3, <1>7, SuperDoneIs, SuperIn
  <2>2. PICK g : g = Frame(Super[c])
    OBVIOUS
  <2>3. g \in Frames /\ g.pc = "enter" /\ g.cls = Super[c]
    BY <2>1, <2>2 DEF Frame, Frames, Labels
  <2>4. stack' = [stack EXCEPT ![t] = Append(Append(Front(stack[t]), tried), g)]
    BY <1>2, <1>7, <2>2
  <2>5. /\ Ends(t, Len(stack[t]) + 1, g) /\ stack'[t][Len(stack[t])] = tried
        /\ Below(t, Len(stack[t]) - 1)
    BY <1>3, <1>4, <1>5, <2>3, <2>4, CallFrames
  <2>6. Nested(t)' /\ Works(t)' /\ List(t)'
    BY <1>1, <1>2, <1>3, <1>4, <2>1, <2>3, <2>5, CallsOn DEF Active
  <2>7. Knows(t)'
    BY <2>3, <2>5, KnowsNext DEF Tried, Ends
  <2>8. Moves(t)
    BY <1>2, <1>3, <1>5, <2>3, <2>5 DEF Moves, Ends, Types
  <2> QED
    BY <2>6, <2>7, <2>8, MovesKeep
<1> QED
  BY <1>6, <1>7

(* A +initialize method sends a message.                                   *)
LEMMA BodyMessagesStep ==
  ASSUME IInv, NEW t \in Threads, NEW c \in Classes, BodyMessages(t, c)
  PROVE  IInv'
<1>1. PICK rest : rest = [Top(t) EXCEPT !.todo = @ \ {c}]
  OBVIOUS
<1>2. /\ At(t, "body") /\ c \in Top(t).todo
      /\ stack' = [stack EXCEPT ![t] = IF state[c] = "initialized" THEN Append(Front(stack[t]), rest)
                                       ELSE Append(Append(Front(stack[t]), rest), Frame(c))]
      /\ UNCHANGED <<uses, state, mine, pending, unwinding, asleep, forkChild, halted>>
  BY <1>1 DEF BodyMessages
<1>3. /\ halted = "no" /\ t \notin unwinding /\ Label(t) = "body"
      /\ stack[t] # <<>> /\ Top(t) \in Frames /\ Top(t).pc = "body"
  BY <1>2, AtIs
<1>4. rest \in Frames /\ rest.pc = "body" /\ rest.cls = Top(t).cls
  BY <1>1, <1>3 DEF Frames
<1>5. Types /\ Works(t)
  BY DEF IInv
<1>6. Top(t).cls \notin Trivial
  <2>1. PICK n : n = Len(stack[t]) /\ n \in DOMAIN stack[t] /\ Top(t) = stack[t][n]
    BY <1>3, <1>5, Tops
  <2> QED
    BY <1>2, <1>3, <1>5, <2>1 DEF Works, Active
<1>7. CASE state[c] = "initialized"
  <2>1. Ends(t, Len(stack[t]), rest) /\ Below(t, Len(stack[t]) - 1)
    BY <1>2, <1>3, <1>4, <1>5, <1>7, BecomeFrames
  <2>2. Nested(t)' /\ Works(t)' /\ List(t)'
    BY <1>2, <1>3, <1>4, <1>6, <2>1, GoesOn DEF Active, IInv
  <2>3. Knows(t)'
    BY <1>4, <2>1, KnowsNext DEF Tried, Ends
  <2>4. Moves(t)
    BY <1>2, <1>3, <1>4, <1>5, <2>1 DEF Moves, Ends, Types
  <2> QED
    BY <2>2, <2>3, <2>4, MovesKeep
<1>8. CASE state[c] # "initialized"
  <2>1. PICK g : g = Frame(c)
    OBVIOUS
  <2>2. g \in Frames /\ g.pc = "enter"
    BY <2>1 DEF Frame, Frames, Labels
  <2>3. stack' = [stack EXCEPT ![t] = Append(Append(Front(stack[t]), rest), g)]
    BY <1>2, <1>8, <2>1
  <2>4. /\ Ends(t, Len(stack[t]) + 1, g) /\ stack'[t][Len(stack[t])] = rest
        /\ Below(t, Len(stack[t]) - 1)
    BY <1>3, <1>4, <1>5, <2>2, <2>3, CallFrames
  <2>5. Nested(t)' /\ Works(t)' /\ List(t)'
    BY <1>2, <1>3, <1>4, <1>6, <2>2, <2>4, CallsOn DEF Active
  <2>6. Knows(t)'
    BY <2>2, <2>4, KnowsNext DEF Tried, Ends
  <2>7. Moves(t)
    BY <1>2, <1>3, <1>5, <2>2, <2>4 DEF Moves, Ends, Types
  <2> QED
    BY <2>5, <2>6, <2>7, MovesKeep
<1> QED
  BY <1>7, <1>8

(* The call of t goes on to a label.                                       *)
LEMMA GoOnStep ==
  ASSUME IInv, NEW t \in Threads, stack[t] # <<>>, NEW label \in Labels, GoOn(t, label),
         UNCHANGED <<uses, state, mine, pending, asleep, forkChild, halted>>,
         \A u \in Threads \ {t} : u \in unwinding' <=> u \in unwinding,
         unwinding' \subseteq Threads,
         Top(t).pc \notin {"record", "fork"}, label # "fork", label = "record" => forkChild,
         label \in Active <=> Top(t).pc \in Active, label # "body",
         label \in Tried \/ (label = "try" /\ t \notin unwinding') => Begun(t, Top(t).cls),
         label \in Tried => state[Top(t).cls] # "no",
         label = "record" => Top(t).cls \notin mine[t],
         label = "recheck" => state[Top(t).cls] = "initialized",
         label = "wait" => /\ ~forkChild
                           /\ \A d \in mine[t] : d \notin Ancestors[Top(t).cls] /\ Top(t).cls \notin Ancestors[d]
  PROVE  IInv'
<1>1. PICK f : f = [Top(t) EXCEPT !.pc = label]
  OBVIOUS
<1>2. Types /\ Top(t) \in Frames /\ Label(t) = Top(t).pc
  BY Tops DEF IInv
<1>3. f \in Frames /\ Ends(t, Len(stack[t]), f) /\ Below(t, Len(stack[t]) - 1)
  BY <1>1, <1>2, GoOnFrames
<1>4. f.pc = label /\ f.cls = Top(t).cls
  BY <1>1, <1>2 DEF Frames
<1>5. Nested(t)' /\ Works(t)' /\ List(t)'
  BY <1>3, <1>4, GoesOn DEF IInv
<1>6. Begun(t, f.cls)' <=> Begun(t, Top(t).cls)
  BY <1>4 DEF Begun
<1>7. Knows(t)'
  BY <1>3, <1>4, <1>6, KnowsNext DEF Ends
<1>8. Moves(t)
  BY <1>2, <1>3, <1>4 DEF Moves, Ends, Types
<1> QED
  BY <1>5, <1>7, <1>8, MovesKeep

(* A call is below the one that returns, if there is one, where a call can *)
(* be that made it.                                                        *)
LEMMA Returned ==
  ASSUME Types, NEW t \in Threads, Nested(t), stack[t] # <<>>, Return(t)
  PROVE  /\ stack' \in [Threads -> Seq(Frames)] /\ Others(t)
         /\ Label(t)' \in {"program", "try", "body"}
         /\ \E n \in Nat \ {0} :
              /\ DOMAIN stack[t] = 1..n /\ Top(t) = stack[t][n] /\ DOMAIN stack'[t] = 1..n - 1
              /\ \A i \in 1..n - 1 : i \in 1..n /\ i # n /\ stack'[t][i] = stack[t][i]
<1>1. PICK n : n = Len(stack[t])
  OBVIOUS
<1>2. /\ stack' \in [Threads -> Seq(Frames)] /\ Others(t)
      /\ DOMAIN stack'[t] = 1..n - 1
      /\ stack'[t] = <<>> => Label(t)' = "program"
      /\ stack'[t] # <<>> => /\ n > 1
                             /\ Top(t)' = stack[t][n - 1]
                             /\ Label(t)' = Top(t)'.pc
      /\ \A i \in 1..n - 1 : stack'[t][i] = stack[t][i]
  BY <1>1, ReturnFrames DEF Below
<1>3. n \in Nat \ {0} /\ DOMAIN stack[t] = 1..n /\ Top(t) = stack[t][n]
  BY <1>1, Tops
<1>4. \A i \in 1..n - 1 : i \in 1..n /\ i # n
  BY <1>3
<1>5. Label(t)' \in {"program", "try", "body"}
  <2>1. CASE stack'[t] # <<>>
    <3>1. n - 1 \in DOMAIN stack[t] /\ n - 1 # n
      BY <1>2, <1>3, <2>1
    <3>2. stack[t][n - 1].pc \in {"try", "body"}
      BY <1>1, <3>1 DEF Nested
    <3> QED
      BY <1>2, <2>1, <3>2
  <2> QED
    BY <1>2, <2>1
<1> QED
  BY <1>2, <1>3, <1>4, <1>5

(* The call of t returns.                                                  *)
LEMMA ReturnStep ==
  ASSUME IInv, NEW t \in Threads, stack[t] # <<>>, Return(t),
         UNCHANGED <<uses, state, mine, pending, unwinding, forkChild, halted>>, asleep' \subseteq Threads,
         Top(t).pc \notin Active \cup {"record"},
         t \in unwinding \/ Top(t).cls \in mine[t] \/ state[Top(t).cls] = "initialized"
  PROVE  IInv'
<1>1. Types /\ Label(t) = Top(t).pc /\ Nested(t)
  BY Tops DEF IInv
<1>2. /\ stack' \in [Threads -> Seq(Frames)] /\ Others(t)
      /\ Label(t)' # "record"
  BY <1>1, Returned
<1>3. Nested(t)' /\ Knows(t)'
  BY ReturnKnows
<1>4. Works(t)' /\ List(t)'
  BY ReturnsOn
<1>5. Moves(t)
  BY <1>1, <1>2 DEF Moves, Types, Active
<1> QED
  BY <1>3, <1>4, <1>5, MovesKeep

(* What is initialized, or in the list of a thread, is closed upwards.     *)
LEMMA Upwards ==
  ASSUME Tree, NEW u \in Threads, List(u), mine[u] \subseteq Classes,
         NEW c \in Classes, state[c] = "initialized" \/ c \in mine[u] \/ Begun(u, c)
  PROVE  \A d \in Ancestors[c] : state[d] = "initialized" \/ d \in mine[u]
<1>1. PICK S : S = {d \in Classes : state[d] = "initialized" \/ d \in mine[u]}
  OBVIOUS
<1>2. \A d \in Classes : d \in S /\ d # Root => Super[d] \in S
  BY <1>1, SuperIn DEF Tree, List, Begun
<1>3. \A d \in Classes : d \in S => Ancestors[d] \subseteq S
  BY <1>2, AncestorsIn
<1>4. Ancestors[c] \subseteq S
  <2>1. CASE c \in S
    BY <1>3, <2>1
  <2>2. CASE c \notin S
    <3>1. c = Root \/ Super[c] \in S
      BY <1>1, <2>2, SuperIn DEF Begun
    <3> QED
      BY <1>3, <3>1, AncestorsAre, SuperIn
  <2> QED
    BY <2>1, <2>2
<1> QED
  BY <1>1, <1>4

(* Who has a class has begun with its superclass.                          *)
LEMMA OwnerBegun ==
  ASSUME IInv, NEW u \in Threads, NEW c, Owns(u, c)
  PROVE  Begun(u, c)
<1>1. CASE c \in mine[u]
  BY <1>1 DEF IInv, List
<1>2. CASE c \notin mine[u]
  <2>1. Label(u) = "record" /\ Top(u).cls = c
    BY <1>2 DEF Owns
  <2>2. stack[u] # <<>> /\ Top(u).pc = "record"
    BY <2>1 DEF Label
  <2> QED
    BY <2>1, <2>2 DEF IInv, Knows, Tried
<1> QED
  BY <1>1, <1>2

(* A class that another thread is initializing is no relative of one that  *)
(* t is initializing.                                                      *)
LEMMA NoRelative ==
  ASSUME IInv, ~forkChild, NEW t \in Threads, Label(t) # "record",
         NEW c \in Classes, state[c] = "initializing", c \notin mine[t]
  PROVE  \A d \in mine[t] : d \notin Ancestors[c] /\ c \notin Ancestors[d]
<1>1. Types /\ Tree /\ Owners
  BY DEF IInv
<1>2. \A u \in Threads : mine[u] \subseteq Classes /\ List(u)
  BY DEF IInv, Types
<1>3. ASSUME NEW d \in mine[t], c \in Ancestors[d] PROVE FALSE
  <2>1. d \in Classes
    BY <1>2, <1>3
  <2>2. state[c] = "initialized" \/ c \in mine[t]
    BY <1>1, <1>2, <1>3, <2>1, Upwards
  <2> QED
    BY <2>2
<1>4. ASSUME NEW d \in mine[t], d \in Ancestors[c] PROVE FALSE
  <2>1. PICK u \in Threads : Owns(u, c)
    BY <1>1 DEF Owners
  <2>2. u # t
    BY <2>1 DEF Owns
  <2>3. Begun(u, c)
    BY <2>1, OwnerBegun
  <2>4. state[d] = "initialized" \/ d \in mine[u]
    BY <1>1, <1>2, <1>4, <2>3, Upwards
  <2>5. d \in Classes /\ Owns(t, d) /\ (d \in mine[u] => Owns(u, d))
    BY <1>2, <1>4 DEF Owns
  <2>6. state[d] = "initializing" /\ ~Owns(u, d)
    BY <1>1, <2>2, <2>5 DEF Owners
  <2> QED
    BY <2>4, <2>5, <2>6
<1> QED
  BY <1>3, <1>4

(* The child of a fork stops.                                              *)
LEMMA HaltKeeps ==
  ASSUME IInv, UNCHANGED <<uses, state, mine, pending, stack, unwinding, asleep, forkChild>>, Halt("afterFork")
  PROVE  IInv'
<1>1. Types'
  BY DEF IInv, Types, Halt
<1>2. Tree'
  BY DEF IInv, Tree
<1>3. Pending'
  BY DEF IInv, Pending, Label, Top
<1>4. ASSUME NEW t \in Threads PROVE Nested(t)' /\ Works(t)' /\ Knows(t)' /\ List(t)'
  <2>1. Nested(t) /\ Works(t) /\ Knows(t) /\ List(t)
    BY DEF IInv
  <2>2. Nested(t)' /\ Works(t)'
    BY <2>1 DEF Nested, Works
  <2>3. Knows(t)'
    BY <2>1 DEF Knows, Top, Begun
  <2>4. List(t)'
    BY <2>1 DEF List, Begun, Working, Top
  <2> QED
    BY <2>2, <2>3, <2>4
<1>5. forkChild => Child'
  BY DEF IInv, Child, Label, Top
<1>6. ~forkChild => Owners'
  BY DEF IInv, Owners, Owns, Label, Top
<1> QED
  BY <1>1, <1>2, <1>3, <1>4, <1>5, <1>6 DEF IInv

(* A +initialize method returns.                                           *)
LEMMA BodyEndsStep ==
  ASSUME IInv, NEW t \in Threads, BodyEnds(t)
  PROVE  IInv'
<1>1. At(t, "body") /\ GoOn(t, "finish")
      /\ UNCHANGED <<uses, state, mine, pending, unwinding, asleep, forkChild, halted>>
  BY DEF BodyEnds
<1>2. stack[t] # <<>> /\ Top(t).pc = "body"
  BY <1>1, AtIs
<1>3. "finish" \in Labels /\ unwinding' \subseteq Threads
  BY <1>1 DEF Labels, IInv, Types
<1> QED
  BY <1>1, <1>2, <1>3, GoOnStep DEF Active, Tried

(* It throws.                                                              *)
LEMMA BodyThrowsStep ==
  ASSUME IInv, NEW t \in Threads, BodyThrows(t)
  PROVE  IInv'
<1>1. At(t, "body") /\ GoOn(t, "finish") /\ unwinding' = unwinding \cup {t}
      /\ UNCHANGED <<uses, state, mine, pending, asleep, forkChild, halted>>
  BY DEF BodyThrows
<1>2. stack[t] # <<>> /\ Top(t).pc = "body"
  BY <1>1, AtIs
<1>3. "finish" \in Labels /\ unwinding' \subseteq Threads
      /\ \A u \in Threads \ {t} : u \in unwinding' <=> u \in unwinding
  BY <1>1 DEF Labels, IInv, Types
<1> QED
  BY <1>1, <1>2, <1>3, GoOnStep DEF Active, Tried

(* The exception is caught, or goes on to the caller.                      *)
LEMMA UnwindStep ==
  ASSUME IInv, NEW t \in Threads, Unwind(t)
  PROVE  IInv'
<1>1. t \in unwinding /\ UNCHANGED <<uses, state, mine, pending, asleep, forkChild, halted>>
  BY DEF Unwind
<1>2. Types /\ Nested(t) /\ Works(t) /\ Knows(t) /\ List(t)
  BY DEF IInv
<1>3. ASSUME Label(t) \in {"program", "body"}, unwinding' = unwinding \ {t}, UNCHANGED stack PROVE IInv'
  <2>1. Top(t)' = Top(t) /\ Label(t)' = Label(t)
    BY <1>3 DEF Top, Label
  <2>2. Moves(t)
    BY <1>1, <1>2, <1>3, <2>1 DEF Moves, Others, Types
  <2>3. Nested(t)' /\ Works(t)'
    BY <1>1, <1>2, <1>3 DEF Nested, Works
  <2>4. Knows(t)'
    <3>1. stack[t] # <<>> => Top(t).pc = "body"
      <4>1. stack[t] # <<>> => Top(t).pc \in Labels /\ Top(t).pc = Label(t)
        BY <1>2, Tops DEF Frames
      <4> QED
        BY <1>3, <4>1 DEF Labels
    <3> QED
      BY <1>3, <2>1, <3>1 DEF Knows, Tried
  <2>5. List(t)'
    BY <1>1, <1>2, <1>3, <2>1 DEF List, Begun, Working
  <2> QED
    BY <2>2, <2>3, <2>4, <2>5, MovesKeep
<1>4. ASSUME Label(t) = "body", GoOn(t, "finish"), UNCHANGED unwinding PROVE IInv'
  <2>1. stack[t] # <<>> /\ Top(t).pc = "body"
    BY <1>4 DEF Label
  <2>2. "finish" \in Labels /\ unwinding' \subseteq Threads
    BY <1>2, <1>4 DEF Labels, Types
  <2> QED
    BY <1>1, <1>4, <2>1, <2>2, GoOnStep DEF Active, Tried
<1>5. ASSUME Label(t) = "try", Return(t), UNCHANGED unwinding PROVE IInv'
  <2>1. stack[t] # <<>> /\ Top(t).pc = "try"
    BY <1>5 DEF Label
  <2>2. asleep' \subseteq Threads
    BY <1>1, <1>2 DEF Types
  <2> QED
    BY <1>1, <1>5, <2>1, <2>2, ReturnStep DEF Active
<1> QED
  BY <1>3, <1>4, <1>5 DEF Unwind

(* The class is this thread's, or another's, or done.                      *)
LEMMA CheckStep ==
  ASSUME IInv, NEW t \in Threads, Check(t)
  PROVE  IInv'
<1>1. /\ At(t, "check")
      /\ UNCHANGED <<uses, state, mine, pending, unwinding, asleep, forkChild, halted>>
  BY DEF Check
<1>2. /\ halted = "no" /\ t \notin unwinding /\ Label(t) = "check"
      /\ stack[t] # <<>> /\ Top(t) \in Frames /\ Top(t).pc = "check" /\ Top(t).cls \in Classes
  BY <1>1, AtIs
<1>3. unwinding' \subseteq Threads /\ asleep' \subseteq Threads /\ Types
  BY <1>1 DEF IInv, Types
<1>4. Begun(t, Top(t).cls) /\ state[Top(t).cls] # "no"
  BY <1>2 DEF IInv, Knows, Tried
<1>5. CASE state[Top(t).cls] # "initializing" /\ GoOn(t, "recheck")
  <2>1. state[Top(t).cls] = "initialized"
    BY <1>2, <1>3, <1>4, <1>5 DEF Types
  <2>2. "recheck" \in Labels
    BY DEF Labels
  <2> QED
    BY <1>1, <1>2, <1>3, <1>4, <1>5, <2>1, <2>2, GoOnStep DEF Active, Tried
<1>6. CASE Top(t).cls \in mine[t] /\ Return(t)
  BY <1>1, <1>2, <1>3, <1>6, ReturnStep DEF Active
<1>7. CASE state[Top(t).cls] = "initializing" /\ Top(t).cls \notin mine[t] /\ ~forkChild /\ GoOn(t, "wait")
  <2>1. \A d \in mine[t] : d \notin Ancestors[Top(t).cls] /\ Top(t).cls \notin Ancestors[d]
    BY <1>2, <1>7, NoRelative
  <2>2. "wait" \in Labels
    BY DEF Labels
  <2> QED
    BY <1>1, <1>2, <1>3, <1>4, <1>7, <2>1, <2>2, GoOnStep DEF Active, Tried
<1>8. CASE state[Top(t).cls] = "initializing" /\ Top(t).cls \notin mine[t] /\ forkChild /\ GoOn(t, "record")
  <2>1. "record" \in Labels
    BY DEF Labels
  <2> QED
    BY <1>1, <1>2, <1>3, <1>4, <1>8, <2>1, GoOnStep DEF Active, Tried
<1> QED
  BY <1>5, <1>6, <1>7, <1>8 DEF Check

(* Only a class that is initialized comes to the last question.            *)
LEMMA RecheckStep ==
  ASSUME IInv, NEW t \in Threads, Recheck(t)
  PROVE  IInv'
<1>1. /\ At(t, "recheck")
      /\ UNCHANGED <<uses, state, mine, pending, unwinding, asleep, forkChild>>
  BY DEF Recheck
<1>2. stack[t] # <<>> /\ Top(t).pc = "recheck"
  BY <1>1, AtIs
<1>3. state[Top(t).cls] = "initialized"
  BY <1>2 DEF IInv, Knows
<1>4. Return(t) /\ UNCHANGED halted
  BY <1>3 DEF Recheck
<1>5. asleep' \subseteq Threads
  BY <1>1 DEF IInv, Types
<1> QED
  BY <1>1, <1>2, <1>3, <1>4, <1>5, ReturnStep DEF Active

(* A turn of the loop that waits.                                          *)
LEMMA WaitStep ==
  ASSUME IInv, NEW t \in Threads, Wait(t)
  PROVE  IInv'
<1>1. /\ At(t, "wait")
      /\ UNCHANGED <<uses, state, mine, pending, unwinding, forkChild, halted>>
  BY DEF Wait
<1>2. stack[t] # <<>> /\ Top(t).pc = "wait" /\ Label(t) = "wait"
  BY <1>1, AtIs
<1>3. Types /\ Nested(t) /\ Works(t) /\ Knows(t) /\ List(t)
  BY DEF IInv
<1>4. CASE state[Top(t).cls] = "initialized"
  <2>1. Return(t) /\ asleep' \subseteq Threads
    BY <1>3, <1>4 DEF Wait, Types
  <2> QED
    BY <1>1, <1>2, <1>4, <2>1, ReturnStep DEF Active
<1>5. CASE state[Top(t).cls] # "initialized"
  <2>1. asleep' = asleep \cup {t} /\ stack' = stack
    BY <1>5 DEF Wait
  <2>2. Top(t)' = Top(t) /\ Label(t)' = Label(t)
    BY <2>1 DEF Top, Label
  <2>3. Moves(t)
    BY <1>1, <1>2, <1>3, <2>1, <2>2 DEF Moves, Others, Types
  <2>4. Nested(t)' /\ Works(t)'
    BY <1>1, <1>3, <2>1 DEF Nested, Works
  <2>5. Knows(t)'
    BY <1>1, <1>3, <2>1, <2>2 DEF Knows, Begun
  <2>6. List(t)'
    BY <1>1, <1>3, <2>1, <2>2 DEF List, Begun, Working
  <2> QED
    BY <2>3, <2>4, <2>5, <2>6, MovesKeep
<1> QED
  BY <1>4, <1>5

-----------------------------------------------------------------------------
(* A class begins                                                          *)

(* The class is taken, with its superclass taken before it.                *)
LEMMA TryStep ==
  ASSUME IInv, NEW t \in Threads, Try(t)
  PROVE  IInv'
<1>1. At(t, "try") /\ UNCHANGED <<uses, mine, pending, unwinding, asleep, forkChild, halted>>
  BY DEF Try
<1>2. /\ halted = "no" /\ t \notin unwinding /\ Label(t) = "try"
      /\ stack[t] # <<>> /\ Top(t) \in Frames /\ Top(t).pc = "try"
  BY <1>1, AtIs
<1>3. PICK c \in Classes : c = Top(t).cls
  BY <1>2 DEF Frames
<1>4. Types /\ Tree /\ Pending /\ Nested(t) /\ Works(t) /\ Knows(t) /\ List(t)
  BY DEF IInv
<1>5. Begun(t, c)
  BY <1>2, <1>3, <1>4 DEF Knows
<1>6. CASE state[c] # "no"
  <2>1. GoOn(t, "check") /\ UNCHANGED state
    BY <1>3, <1>6 DEF Try
  <2>2. "check" \in Labels /\ unwinding' \subseteq Threads
    BY <1>1, <1>4 DEF Labels, Types
  <2> QED
    BY <1>1, <1>2, <1>3, <1>5, <1>6, <2>1, <2>2, GoOnStep DEF Active, Tried
<1>7. CASE state[c] = "no"
  <2>1. GoOn(t, "record") /\ state' = [state EXCEPT ![c] = "initializing"]
    BY <1>3, <1>7 DEF Try
  <2>2. PICK f : f = [Top(t) EXCEPT !.pc = "record"]
    OBVIOUS
  <2>3. f \in Frames /\ Ends(t, Len(stack[t]), f) /\ Below(t, Len(stack[t]) - 1)
    <3>1. "record" \in Labels
      BY DEF Labels
    <3> QED
      BY <1>2, <1>4, <2>1, <2>2, <3>1, GoOnFrames
  <2>4. f.pc = "record" /\ f.cls = c
    BY <1>2, <1>3, <2>2 DEF Frames
  <2>5. Label(t)' = "record" /\ Top(t)' = f /\ stack'[t] # <<>> /\ Others(t)
    BY <2>3, <2>4 DEF Ends
  <2>6. \A u \in Threads \ {t} : Top(u)' = Top(u) /\ Label(u)' = Label(u)
    BY <2>5 DEF Others, Top, Label
  <2>7. state'[c] = "initializing" /\ \A x \in Classes : x # c => state'[x] = state[x]
    BY <1>4, <2>1 DEF Types
  <2>8. Grows
    BY <1>7, <2>7 DEF Grows
  <2>9. Types'
    BY <1>1, <1>4, <2>1, <2>3 DEF Types, Ends
  <2>10. \A u \in Threads : c \notin mine[u]
    BY <1>7 DEF IInv, List
  <2>11. Begun(t, c)'
    BY <1>1, <1>5, <2>8, SuperIn DEF Begun, Grows
  <2>12. Tree'
    <3> SUFFICES ASSUME NEW x \in Classes \ {Root}
                 PROVE  /\ state'[x] = "initialized" => state'[Super[x]] = "initialized"
                        /\ state'[x] = "initializing" => state'[Super[x]] # "no"
      BY DEF Tree
    <3>1. Super[x] \in Classes
      BY SuperIn
    <3>2. CASE x = c
      <4>1. state[Super[x]] = "initialized" \/ Super[x] \in mine[t]
        BY <1>5, <3>2 DEF Begun
      <4>2. state[Super[x]] # "no"
        BY <1>4, <4>1 DEF List
      <4> QED
        BY <2>7, <2>8, <3>1, <3>2, <4>2 DEF Grows
    <3>3. CASE x # c
      BY <1>4, <2>7, <2>8, <3>1, <3>3 DEF Tree, Grows
    <3> QED
      BY <3>2, <3>3
  <2>13. Pending'
    <3> SUFFICES ASSUME NEW d \in Classes, pending[d] > 0
                 PROVE  /\ d # Root /\ state'[d] = "initializing" /\ state'[Super[d]] = "initializing"
                        /\ Super[d] \in Trivial => pending[Super[d]] > 0
                        /\ \A u \in Threads : Super[d] \in mine[u] =>
                             \/ d \in mine[u]
                             \/ forkChild /\ Label(u)' = "fork" /\ Top(u)'.cls = Super[d] /\ Super[d] \notin Trivial
      BY <1>1 DEF Pending
    <3>1. /\ d # Root /\ state[d] = "initializing" /\ state[Super[d]] = "initializing"
          /\ Super[d] \in Trivial => pending[Super[d]] > 0
          /\ \A u \in Threads : Super[d] \in mine[u] =>
               \/ d \in mine[u]
               \/ forkChild /\ Label(u) = "fork" /\ Top(u).cls = Super[d] /\ Super[d] \notin Trivial
      BY <1>4 DEF Pending
    <3>2. state'[d] = "initializing" /\ state'[Super[d]] = "initializing"
      BY <1>7, <2>7, <3>1, SuperIn
    <3> QED
      BY <1>2, <2>6, <3>1, <3>2
  <2>14. Nested(t)' /\ Works(t)'
    BY <1>1, <1>2, <1>3, <1>4, <2>3, <2>4, GoesOn DEF Active
  <2>15. Knows(t)'
    BY <1>1, <2>4, <2>5, <2>7, <2>10, <2>11, KnowsNext
  <2>16. List(t)'
    <3>1. \A x \in mine[t] : x \in Classes /\ x # c
      BY <1>4, <2>10 DEF Types
    <3>2. \A x \in Classes : Begun(t, x) => Begun(t, x)'
      BY <1>1, <2>8, SuperIn DEF Begun, Grows
    <3>3. \A x : ~Working(t, x)
      BY <1>2 DEF Working, Active
    <3> QED
      BY <1>1, <1>4, <2>7, <3>1, <3>2, <3>3 DEF List
  <2>17. ASSUME NEW u \in Threads PROVE Nested(u)' /\ Works(u)' /\ Knows(u)' /\ List(u)'
    <3>1. CASE u = t
      BY <2>14, <2>15, <2>16, <3>1
    <3>2. CASE u # t
      <4>1. Nested(u) /\ Works(u) /\ Knows(u) /\ List(u)
        BY DEF IInv
      <4>2. stack'[u] = stack[u]
        BY <2>5, <3>2 DEF Others
      <4>3. \A i \in DOMAIN stack[u] : stack[u][i].pc \in Active => pending'[stack[u][i].cls] = 0
        BY <1>1, <4>1 DEF Works
      <4> QED
        BY <1>1, <1>4, <2>8, <2>9, <4>1, <4>2, <4>3, Apart
    <3> QED
      BY <3>1, <3>2
  <2>18. forkChild => Child'
    <3> SUFFICES ASSUME forkChild PROVE Child'
      OBVIOUS
    <3>1. PICK p \in Threads : \A u \in Threads \ {p} : \A x \in mine[u] :
            state[x] = "initialized" \/ (Label(u) = "fork" /\ Top(u).cls = x)
      BY DEF IInv, Child
    <3>2. \A u \in Threads \ {p} : \A x \in mine[u] :
            state'[x] = "initialized" \/ (Label(u)' = "fork" /\ Top(u)'.cls = x)
      <4>1. ASSUME NEW u \in Threads \ {p}, NEW x \in mine[u]
            PROVE  state'[x] = "initialized" \/ (Label(u)' = "fork" /\ Top(u)'.cls = x)
        <5>1. x \in Classes
          BY <1>4 DEF Types
        <5>2. state[x] = "initialized" \/ (Label(u) = "fork" /\ Top(u).cls = x)
          BY <3>1
        <5> QED
          BY <1>2, <2>6, <2>8, <5>1, <5>2 DEF Grows
      <4> QED
        BY <4>1
    <3> QED
      BY <1>1, <3>2 DEF Child
  <2>19. ~forkChild => Owners'
    <3> SUFFICES ASSUME ~forkChild PROVE Owners'
      OBVIOUS
    <3>1. Owners
      BY DEF IInv
    <3>2. \A u \in Threads : ~Owns(u, c)
      BY <1>7, <3>1 DEF Owners
    <3>3. \A u \in Threads, x \in Classes : Owns(u, x)' <=> Owns(u, x) \/ (u = t /\ x = c)
      <4>1. ASSUME NEW u \in Threads, NEW x \in Classes
            PROVE  Owns(u, x)' <=> Owns(u, x) \/ (u = t /\ x = c)
        <5>1. CASE u = t
          BY <1>1, <1>2, <2>4, <2>5, <5>1 DEF Owns
        <5>2. CASE u # t
          BY <1>1, <2>6, <5>2 DEF Owns
        <5> QED
          BY <5>1, <5>2
      <4> QED
        BY <4>1
    <3> SUFFICES ASSUME NEW x \in Classes
                 PROVE  /\ state'[x] = "initializing" => \E u \in Threads : Owns(u, x)'
                        /\ \A u \in Threads : Owns(u, x)' =>
                             state'[x] = "initializing" /\ \A v \in Threads \ {u} : ~Owns(v, x)'
      BY DEF Owners
    <3>4. CASE x = c
      BY <2>7, <3>2, <3>3, <3>4
    <3>5. CASE x # c
      BY <2>7, <3>1, <3>3, <3>5 DEF Owners
    <3> QED
      BY <3>4, <3>5
  <2> QED
    BY <1>1, <2>9, <2>12, <2>13, <2>17, <2>18, <2>19 DEF IInv
<1> QED
  BY <1>6, <1>7

(* A class that was put off is in the list of who has begun with its       *)
(* superclass.                                                             *)
LEMMA PutOff ==
  ASSUME IInv, NEW t \in Threads, Label(t) # "fork",
         NEW c \in Classes, Begun(t, c), c \notin mine[t]
  PROVE  pending[c] = 0
<1> SUFFICES ASSUME pending[c] # 0 PROVE FALSE
  OBVIOUS
<1>1. pending[c] > 0
  BY DEF IInv, Types
<1>2. c # Root /\ state[Super[c]] = "initializing"
  BY <1>1 DEF IInv, Pending
<1>3. Super[c] \in mine[t]
  BY <1>2 DEF Begun
<1> QED
  BY <1>1, <1>3 DEF IInv, Pending

(* It joins the list of the thread, with nothing put off for it there.     *)
LEMMA RecordStep ==
  ASSUME IInv, NEW t \in Threads, Record(t)
  PROVE  IInv'
<1>1. At(t, "record") /\ UNCHANGED <<uses, state, pending, unwinding, asleep, forkChild>>
  BY DEF Record
<1>2. /\ halted = "no" /\ t \notin unwinding /\ Label(t) = "record"
      /\ stack[t] # <<>> /\ Top(t) \in Frames /\ Top(t).pc = "record"
  BY <1>1, AtIs
<1>3. PICK c \in Classes : c = Top(t).cls
  BY <1>2 DEF Frames
<1>4. Types /\ Tree /\ Pending /\ Nested(t) /\ Works(t) /\ Knows(t) /\ List(t)
  BY DEF IInv
<1>5. Begun(t, c) /\ state[c] # "no" /\ c \notin mine[t]
  BY <1>2, <1>3, <1>4 DEF Knows, Tried
<1>6. pending[c] = 0
  BY <1>2, <1>5, PutOff
<1>7. PICK f : f = [cls |-> c, pc |-> IF forkChild THEN "fork" ELSE "body",
                    todo |-> IF forkChild THEN {} ELSE uses[c]]
  OBVIOUS
<1>8. /\ mine' = [mine EXCEPT ![t] = @ \cup {c}]
      /\ stack' = [stack EXCEPT ![t] = Append(Front(stack[t]), f)]
      /\ UNCHANGED halted
  BY <1>3, <1>4, <1>5, <1>7 DEF Record, Types
<1>9. f \in Frames /\ f.cls = c /\ f.pc \in Active
      /\ (forkChild => f.pc = "fork") /\ (~forkChild => f.pc = "body" /\ f.todo = uses[c])
      /\ (f.pc = "fork" => forkChild)
  <2>1. uses[c] \in SUBSET Classes
    BY <1>4, InitializeAssumption DEF Types
  <2> QED
    BY <1>7, <2>1 DEF Frames, Labels, Active
<1>10. Ends(t, Len(stack[t]), f) /\ Below(t, Len(stack[t]) - 1)
  BY <1>2, <1>4, <1>8, <1>9, BecomeFrames
<1>11. Label(t)' = f.pc /\ Top(t)' = f /\ stack'[t] # <<>> /\ Others(t)
  BY <1>10 DEF Ends
<1>12. \A u \in Threads \ {t} : Top(u)' = Top(u) /\ Label(u)' = Label(u) /\ mine'[u] = mine[u]
  BY <1>8, <1>11 DEF Others, Top, Label
<1>13. mine'[t] = mine[t] \cup {c}
  BY <1>4, <1>8 DEF Types
<1>14. Types' /\ Grows
  BY <1>1, <1>4, <1>8, <1>10 DEF Types, Ends, Grows
<1>15. Tree'
  BY <1>1, <1>4 DEF Tree
<1>16. Nested(t)'
  BY <1>2, <1>3, <1>4, <1>9, <1>10, GoesNested
<1>17. Works(t)'
  <2>1. PICK n \in Nat \ {0} :
          /\ n = Len(stack[t]) /\ DOMAIN stack[t] = 1..n /\ Top(t) = stack[t][n]
          /\ DOMAIN stack'[t] = 1..n /\ Len(stack'[t]) = n /\ stack'[t][n] = f /\ Top(t)' = f
          /\ \A i \in 1..n : i # n => stack'[t][i] = stack[t][i]
          /\ stack'[t] # <<>>
    BY <1>2, <1>4, <1>10, GoesFrames
  <2>2. \A i \in 1..n : i # n /\ stack'[t][i].pc \in Active => stack'[t][i].cls # c
    BY <1>4, <1>5, <2>1 DEF Works
  <2> SUFFICES ASSUME NEW i \in 1..n, stack'[t][i].pc \in Active
               PROVE  /\ stack'[t][i].cls \in mine'[t] /\ pending[stack'[t][i].cls] = 0
                      /\ stack'[t][i].pc = "fork" => forkChild
                      /\ stack'[t][i].pc = "body" /\ stack'[t][i].cls \in Trivial => stack'[t][i].todo = {}
                      /\ \A j \in 1..n : stack'[t][j].pc \in Active /\ stack'[t][j].cls = stack'[t][i].cls => i = j
    BY <1>1, <2>1 DEF Works
  <2>3. CASE i = n
    <3>1. c \in Trivial => uses[c] = {}
      BY <1>4, InitializeAssumption DEF Types
    <3>2. \A j \in 1..n : stack'[t][j].pc \in Active /\ stack'[t][j].cls = c => j = n
      BY <2>2
    <3> QED
      BY <1>6, <1>9, <1>13, <2>1, <2>3, <3>1, <3>2
  <2>4. CASE i # n
    <3>1. stack'[t][i] = stack[t][i] /\ stack[t][i].pc \in Active
      BY <2>1, <2>4
    <3>2. /\ stack[t][i].cls \in mine[t] /\ pending[stack[t][i].cls] = 0
          /\ stack[t][i].pc = "fork" => forkChild
          /\ stack[t][i].pc = "body" /\ stack[t][i].cls \in Trivial => stack[t][i].todo = {}
          /\ \A j \in 1..n : stack[t][j].pc \in Active /\ stack[t][j].cls = stack[t][i].cls => i = j
      BY <1>4, <2>1, <3>1 DEF Works
    <3>3. ASSUME NEW j \in 1..n, stack'[t][j].pc \in Active, stack'[t][j].cls = stack'[t][i].cls PROVE i = j
      <4>1. j # n
        BY <1>5, <1>9, <2>1, <3>1, <3>2, <3>3
      <4>2. stack'[t][j] = stack[t][j]
        BY <2>1, <4>1
      <4> QED
        BY <3>1, <3>2, <3>3, <4>2
    <3> QED
      BY <1>13, <3>1, <3>2, <3>3
  <2> QED
    BY <2>3, <2>4
<1>18. Knows(t)'
  BY <1>9, <1>11, KnowsNext DEF Active, Tried
<1>19. List(t)'
  <2>1. \A x : ~Working(t, x)
    BY <1>2 DEF Working, Active
  <2>2. \A x : Begun(t, x) => Begun(t, x)'
    BY <1>1, <1>13 DEF Begun
  <2>3. Working(t, c)'
    BY <1>9, <1>11 DEF Working
  <2> QED
    BY <1>1, <1>4, <1>5, <1>13, <2>1, <2>2, <2>3 DEF List
<1>20. ASSUME NEW u \in Threads PROVE Nested(u)' /\ Works(u)' /\ Knows(u)' /\ List(u)'
  <2>1. CASE u = t
    BY <1>16, <1>17, <1>18, <1>19, <2>1
  <2>2. CASE u # t
    <3>1. Nested(u) /\ Works(u) /\ Knows(u) /\ List(u)
      BY DEF IInv
    <3>2. stack'[u] = stack[u] /\ mine'[u] = mine[u]
      BY <1>11, <1>12, <2>2 DEF Others
    <3>3. \A i \in DOMAIN stack[u] : stack[u][i].pc \in Active => pending'[stack[u][i].cls] = 0
      BY <1>1, <3>1 DEF Works
    <3> QED
      BY <1>1, <1>4, <1>14, <3>1, <3>2, <3>3, Apart
  <2> QED
    BY <2>1, <2>2
<1>21. ASSUME ~forkChild, NEW d \in Classes, pending[d] > 0, Super[d] = c PROVE FALSE
  <2>1. d # Root /\ state[d] = "initializing" /\ state[c] = "initializing"
    BY <1>4, <1>21 DEF Pending
  <2>2. Owners
    BY <1>21 DEF IInv
  <2>3. PICK v \in Threads : Owns(v, d)
    BY <2>1, <2>2 DEF Owners
  <2>4. c \in mine[v]
    BY <1>21, <2>1, <2>3, OwnerBegun DEF Begun
  <2>5. v # t /\ Owns(v, c) /\ Owns(t, c)
    BY <1>2, <1>3, <1>5, <2>4 DEF Owns
  <2> QED
    BY <2>2, <2>5 DEF Owners
<1>22. Pending'
  <2> SUFFICES ASSUME NEW d \in Classes, pending[d] > 0
               PROVE  /\ d # Root /\ state[d] = "initializing" /\ state[Super[d]] = "initializing"
                      /\ Super[d] \in Trivial => pending[Super[d]] > 0
                      /\ \A u \in Threads : Super[d] \in mine'[u] =>
                           \/ d \in mine'[u]
                           \/ forkChild /\ Label(u)' = "fork" /\ Top(u)'.cls = Super[d] /\ Super[d] \notin Trivial
    BY <1>1 DEF Pending
  <2>1. /\ d # Root /\ state[d] = "initializing" /\ state[Super[d]] = "initializing"
        /\ Super[d] \in Trivial => pending[Super[d]] > 0
        /\ \A u \in Threads : Super[d] \in mine[u] =>
             \/ d \in mine[u]
             \/ forkChild /\ Label(u) = "fork" /\ Top(u).cls = Super[d] /\ Super[d] \notin Trivial
    BY <1>4 DEF Pending
  <2>2. ASSUME NEW u \in Threads, Super[d] \in mine'[u]
        PROVE  \/ d \in mine'[u]
               \/ forkChild /\ Label(u)' = "fork" /\ Top(u)'.cls = Super[d] /\ Super[d] \notin Trivial
    <3>1. CASE u # t
      BY <1>12, <2>1, <2>2, <3>1
    <3>2. CASE u = t /\ Super[d] \in mine[t]
      BY <1>2, <1>13, <2>1, <3>2
    <3>3. CASE u = t /\ Super[d] = c
      <4>1. forkChild
        BY <1>21, <3>3
      <4>2. c \notin Trivial
        BY <1>6, <2>1, <3>3
      <4> QED
        BY <1>9, <1>11, <3>3, <4>1, <4>2
    <3> QED
      BY <1>13, <2>2, <3>1, <3>2, <3>3
  <2> QED
    BY <2>1, <2>2
<1>23. forkChild => Child'
  <2> SUFFICES ASSUME forkChild PROVE Child'
    OBVIOUS
  <2>1. PICK p \in Threads : \A u \in Threads \ {p} : \A x \in mine[u] :
          state[x] = "initialized" \/ (Label(u) = "fork" /\ Top(u).cls = x)
    BY DEF IInv, Child
  <2>2. ASSUME NEW u \in Threads \ {p}, NEW x \in mine'[u]
        PROVE  state'[x] = "initialized" \/ (Label(u)' = "fork" /\ Top(u)'.cls = x)
    <3>1. CASE u # t
      BY <1>1, <1>12, <2>1, <2>2, <3>1
    <3>2. CASE u = t /\ x \in mine[t]
      BY <1>1, <1>2, <2>1, <3>2
    <3>3. CASE u = t /\ x = c
      BY <1>9, <1>11, <3>3
    <3> QED
      BY <1>13, <2>2, <3>1, <3>2, <3>3
  <2> QED
    BY <2>2 DEF Child
<1>24. ~forkChild => Owners'
  <2> SUFFICES ASSUME ~forkChild PROVE Owners'
    OBVIOUS
  <2>1. \A u \in Threads, x \in Classes : Owns(u, x)' <=> Owns(u, x)
    <3>1. ASSUME NEW u \in Threads, NEW x \in Classes PROVE Owns(u, x)' <=> Owns(u, x)
      <4>1. CASE u = t
        BY <1>2, <1>3, <1>9, <1>11, <1>13, <4>1 DEF Owns
      <4>2. CASE u # t
        BY <1>12, <4>2 DEF Owns
      <4> QED
        BY <4>1, <4>2
    <3> QED
      BY <3>1
  <2> QED
    BY <1>1, <2>1 DEF IInv, Owners
<1> QED
  BY <1>1, <1>14, <1>15, <1>20, <1>22, <1>23, <1>24 DEF IInv

-----------------------------------------------------------------------------
(* A class is finished, or put off                                         *)

(* The innermost call of t finishes its class.                             *)
Ending(t, c) ==
  /\ stack[t] # <<>> /\ Top(t).cls = c /\ Top(t).pc \in {"finish", "fork"}
  /\ Top(t).pc = "fork" => c \in Trivial

(* Its class is in the list, and is not put off.                           *)
LEMMA EndingIs ==
  ASSUME IInv, NEW t \in Threads, NEW c, Ending(t, c)
  PROVE  /\ c \in Classes /\ c \in mine[t] /\ pending[c] = 0 /\ state[c] # "no" /\ Begun(t, c)
         /\ Label(t) = Top(t).pc
<1>1. PICK n : n = Len(stack[t])
  OBVIOUS
<1>2. n \in DOMAIN stack[t] /\ Top(t) = stack[t][n] /\ Top(t) \in Frames /\ Label(t) = Top(t).pc
  BY <1>1, Tops DEF IInv, Ending
<1>3. c \in mine[t] /\ pending[c] = 0
  BY <1>2 DEF IInv, Works, Ending, Active
<1> QED
  BY <1>2, <1>3 DEF IInv, List, Ending, Frames

(* A thread has what it is to finish: _finishInitializing does not stop    *)
(* the process.                                                            *)
LEMMA HasAll ==
  ASSUME IInv, NEW t \in Threads, NEW c, Ending(t, c)
  PROVE  FinishedWith(c) \subseteq mine[t] /\ \A d \in FinishedWith(c) \ {c} : pending[d] = 1
<1>1. c \in Classes /\ c \in mine[t] /\ Label(t) = Top(t).pc
  BY EndingIs
<1>2. \A d \in FinishedWith(c) \ {c} : d \in Classes /\ pending[d] > 0
  BY <1>1, FinishedWithIs
<1>3. ASSUME NEW d \in FinishedWith(c) \ {c}, Super[d] \in mine[t] PROVE d \in mine[t]
  <2>1. \/ d \in mine[t]
        \/ Label(t) = "fork" /\ Top(t).cls = Super[d] /\ Super[d] \notin Trivial
    BY <1>2, <1>3 DEF IInv, Pending
  <2> QED
    BY <1>1, <2>1 DEF Ending
<1>4. FinishedWith(c) \subseteq mine[t]
  BY <1>1, <1>3, FinishedInduction
<1>5. \A d \in FinishedWith(c) \ {c} : pending[d] = 1
  BY <1>2 DEF IInv, Types
<1> QED
  BY <1>4, <1>5

(* The class is finished, with all that was put off for it.                *)
LEMMA FinishInitializingStep ==
  ASSUME IInv, NEW t \in Threads, NEW c, Ending(t, c), SuperDone(c),
         FinishInitializing(t, c), Return(t), UNCHANGED <<uses, unwinding, forkChild>>
  PROVE  IInv'
<1>1. /\ c \in Classes /\ c \in mine[t] /\ pending[c] = 0 /\ state[c] # "no" /\ Begun(t, c)
      /\ Label(t) = Top(t).pc /\ Label(t) \in {"finish", "fork"}
  BY EndingIs DEF Ending
<1>2. PICK F : F = FinishedWith(c)
  OBVIOUS
<1>3. F \subseteq mine[t] /\ \A d \in F \ {c} : pending[d] = 1
  BY <1>2, HasAll
<1>4. /\ state' = [d \in Classes |-> IF d \in F THEN "initialized" ELSE state[d]]
      /\ mine' = [mine EXCEPT ![t] = @ \ F]
      /\ pending' = [d \in Classes |-> IF d \in F \ {c} THEN 0 ELSE pending[d]]
      /\ asleep' = {} /\ UNCHANGED halted
  BY <1>2, <1>3 DEF FinishInitializing
<1>5. /\ F \subseteq Classes /\ c \in F
      /\ \A d \in Classes \ {c} : d \in F <=> d # Root /\ pending[d] > 0 /\ Super[d] \in F
  BY <1>1, <1>2, FinishedWithIs
<1>6. Types /\ Tree /\ Pending /\ Nested(t) /\ Works(t) /\ List(t)
  BY DEF IInv
<1>7. /\ stack' \in [Threads -> Seq(Frames)] /\ Others(t)
      /\ Label(t)' \in {"program", "try", "body"}
  BY <1>6, Returned DEF Ending
<1>8. /\ mine'[t] = mine[t] \ F
      /\ \A u \in Threads \ {t} : /\ Top(u)' = Top(u) /\ Label(u)' = Label(u) /\ mine'[u] = mine[u]
                                  /\ stack'[u] = stack[u]
  BY <1>4, <1>6, <1>7 DEF Others, Top, Label, Types
<1>9. /\ \A d \in Classes : d \in F => state'[d] = "initialized"
      /\ \A d \in Classes : d \notin F => state'[d] = state[d]
  BY <1>4
<1>10. \A d \in Classes : pending'[d] = 0 \/ (d \notin F /\ pending'[d] = pending[d])
  BY <1>1, <1>4
<1>11. \A d \in Classes : d \notin F => pending'[d] = pending[d]
  BY <1>4
<1>12. Types'
  BY <1>4, <1>6, <1>7 DEF Types
<1>13. Grows
  BY <1>9 DEF Grows
<1>14. Tree'
  <2> SUFFICES ASSUME NEW x \in Classes \ {Root}
               PROVE  /\ state'[x] = "initialized" => state'[Super[x]] = "initialized"
                      /\ state'[x] = "initializing" => state'[Super[x]] # "no"
    BY DEF Tree
  <2>1. Super[x] \in Classes
    BY SuperIn
  <2>2. CASE x = c
    <3>1. state[Super[x]] = "initialized"
      BY <1>1, <2>2, SuperDoneIs
    <3> QED
      BY <1>5, <1>9, <1>13, <2>1, <2>2, <3>1 DEF Grows
  <2>3. CASE x # c /\ x \in F
    BY <1>5, <1>9, <2>1, <2>3
  <2>4. CASE x \notin F
    BY <1>6, <1>9, <1>13, <2>1, <2>4 DEF Tree, Grows
  <2> QED
    BY <2>2, <2>3, <2>4
<1>15. Pending'
  <2> SUFFICES ASSUME NEW d \in Classes, pending'[d] > 0
               PROVE  /\ d # Root /\ state'[d] = "initializing" /\ state'[Super[d]] = "initializing"
                      /\ Super[d] \in Trivial => pending'[Super[d]] > 0
                      /\ \A u \in Threads : Super[d] \in mine'[u] =>
                           \/ d \in mine'[u]
                           \/ forkChild /\ Label(u)' = "fork" /\ Top(u)'.cls = Super[d] /\ Super[d] \notin Trivial
    BY DEF Pending
  <2>1. d \notin F /\ pending[d] > 0
    BY <1>10
  <2>2. /\ d # Root /\ state[d] = "initializing" /\ state[Super[d]] = "initializing"
        /\ Super[d] \in Trivial => pending[Super[d]] > 0
        /\ \A u \in Threads : Super[d] \in mine[u] =>
             \/ d \in mine[u]
             \/ forkChild /\ Label(u) = "fork" /\ Top(u).cls = Super[d] /\ Super[d] \notin Trivial
    BY <1>6, <2>1 DEF Pending
  <2>3. Super[d] \in Classes /\ Super[d] \notin F
    BY <1>5, <2>1, <2>2, SuperIn
  <2>4. ASSUME NEW u \in Threads, Super[d] \in mine'[u]
        PROVE  \/ d \in mine'[u]
               \/ forkChild /\ Label(u)' = "fork" /\ Top(u)'.cls = Super[d] /\ Super[d] \notin Trivial
    <3>1. CASE u # t
      BY <1>8, <2>2, <2>4, <3>1
    <3>2. CASE u = t
      <4>1. d \in mine[t]
        BY <1>1, <1>8, <2>2, <2>4, <3>2 DEF Ending
      <4> QED
        BY <1>8, <2>1, <3>2, <4>1
    <3> QED
      BY <3>1, <3>2
  <2> QED
    BY <1>9, <1>11, <2>1, <2>2, <2>3, <2>4
<1>16. Nested(t)' /\ Knows(t)'
  <2>1. state'[Top(t).cls] = "initialized"
    BY <1>5, <1>9 DEF Ending
  <2> QED
    BY <2>1, ReturnKnows DEF Ending
<1>17. Works(t)'
  <2>1. PICK n \in Nat \ {0} :
              /\ DOMAIN stack[t] = 1..n /\ Top(t) = stack[t][n] /\ DOMAIN stack'[t] = 1..n - 1
              /\ \A i \in 1..n - 1 : i \in 1..n /\ i # n /\ stack'[t][i] = stack[t][i]
    BY <1>6, Returned DEF Ending
  <2> SUFFICES ASSUME NEW i \in 1..n - 1, stack[t][i].pc \in Active
               PROVE  /\ stack[t][i].cls \in mine'[t] /\ pending'[stack[t][i].cls] = 0
                      /\ stack[t][i].pc = "fork" => forkChild
                      /\ stack[t][i].pc = "body" /\ stack[t][i].cls \in Trivial => stack[t][i].todo = {}
                      /\ \A j \in 1..n - 1 : stack[t][j].pc \in Active /\ stack[t][j].cls = stack[t][i].cls => i = j
    BY <2>1 DEF Works
  <2>2. n \in 1..n
    OBVIOUS
  <2>3. /\ stack[t][i].cls \in mine[t] /\ pending[stack[t][i].cls] = 0
        /\ stack[t][i].pc = "fork" => forkChild
        /\ stack[t][i].pc = "body" /\ stack[t][i].cls \in Trivial => stack[t][i].todo = {}
        /\ \A j \in 1..n : stack[t][j].pc \in Active /\ stack[t][j].cls = stack[t][i].cls => i = j
    BY <1>6, <2>1 DEF Works
  <2>4. stack[t][i].cls # c
    BY <2>1, <2>2, <2>3 DEF Ending, Active
  <2>5. stack[t][i].cls \in Classes
    BY <1>6, <2>3 DEF Types
  <2>6. stack[t][i].cls \notin F
    BY <1>5, <2>3, <2>4, <2>5
  <2> QED
    BY <1>8, <1>11, <2>1, <2>3, <2>5, <2>6
<1>18. List(t)'
  <2>1. mine[t] \subseteq Classes
    BY <1>6 DEF Types
  <2>2. ASSUME NEW x \in mine'[t]
        PROVE  /\ state'[x] # "no" /\ Begun(t, x)'
               /\ x \in Trivial /\ state'[x] = "initializing" => pending'[x] > 0 \/ Working(t, x)'
    <3>1. x \in mine[t] /\ x \notin F /\ x \in Classes
      BY <1>8, <2>1, <2>2
    <3>2. /\ state[x] # "no" /\ Begun(t, x)
          /\ x \in Trivial /\ state[x] = "initializing" => pending[x] > 0 \/ Working(t, x)
      BY <1>6, <3>1 DEF List
    <3>3. ~Working(t, x)
      BY <1>5, <3>1 DEF Working, Ending
    <3>4. Begun(t, x)'
      <4>1. x = Root \/ (Super[x] \in Classes /\ (state[Super[x]] = "initialized" \/ Super[x] \in mine[t]))
        BY <3>1, <3>2, SuperIn DEF Begun
      <4> QED
        BY <1>8, <1>9, <1>13, <4>1 DEF Begun, Grows
    <3> QED
      BY <1>9, <1>11, <3>1, <3>2, <3>3, <3>4
  <2> QED
    BY <2>2 DEF List
<1>19. ASSUME NEW u \in Threads PROVE Nested(u)' /\ Works(u)' /\ Knows(u)' /\ List(u)'
  <2>1. CASE u = t
    BY <1>16, <1>17, <1>18, <2>1
  <2>2. CASE u # t
    <3>1. Nested(u) /\ Works(u) /\ Knows(u) /\ List(u) /\ mine[u] \subseteq Classes
      BY DEF IInv, Types
    <3>2. stack'[u] = stack[u] /\ mine'[u] = mine[u]
      BY <1>8, <2>2
    <3>3. \A i \in DOMAIN stack[u] : stack[u][i].pc \in Active => pending'[stack[u][i].cls] = 0
      <4>1. \A i \in DOMAIN stack[u] : stack[u][i].pc \in Active =>
              stack[u][i].cls \in Classes /\ pending[stack[u][i].cls] = 0
        BY <3>1 DEF Works
      <4> QED
        BY <1>10, <4>1
    <3>4. \A x \in mine[u] \cap Trivial : pending[x] > 0 => pending'[x] > 0 \/ state'[x] = "initialized"
      BY <1>9, <1>11, <3>1
    <3> QED
      BY <1>6, <1>12, <1>13, <3>1, <3>2, <3>3, <3>4, Apart
  <2> QED
    BY <2>1, <2>2
<1>20. forkChild => Child'
  <2> SUFFICES ASSUME forkChild PROVE Child'
    OBVIOUS
  <2>1. PICK p \in Threads : \A u \in Threads \ {p} : \A x \in mine[u] :
          state[x] = "initialized" \/ (Label(u) = "fork" /\ Top(u).cls = x)
    BY DEF IInv, Child
  <2>2. ASSUME NEW u \in Threads \ {p}, NEW x \in mine'[u]
        PROVE  state'[x] = "initialized" \/ (Label(u)' = "fork" /\ Top(u)'.cls = x)
    <3>1. x \in Classes /\ x \in mine[u] /\ (u = t => x \notin F)
      BY <1>6, <1>8, <2>2 DEF Types
    <3>2. state[x] = "initialized" \/ (Label(u) = "fork" /\ Top(u).cls = x)
      BY <2>1, <3>1
    <3>3. CASE u # t
      BY <1>8, <1>13, <3>1, <3>2, <3>3 DEF Grows
    <3>4. CASE u = t
      BY <1>5, <1>13, <3>1, <3>2, <3>4 DEF Grows, Ending
    <3> QED
      BY <3>3, <3>4
  <2> QED
    BY <2>2 DEF Child
<1>21. ~forkChild => Owners'
  <2> SUFFICES ASSUME ~forkChild PROVE Owners'
    OBVIOUS
  <2>1. Owners
    BY DEF IInv
  <2>2. \A u \in Threads, x \in Classes : Owns(u, x)' <=> Owns(u, x) /\ (u = t => x \notin F)
    <3>1. ASSUME NEW u \in Threads, NEW x \in Classes
          PROVE  Owns(u, x)' <=> Owns(u, x) /\ (u = t => x \notin F)
      <4>1. CASE u = t
        BY <1>1, <1>7, <1>8, <4>1 DEF Owns
      <4>2. CASE u # t
        BY <1>8, <4>2 DEF Owns
      <4> QED
        BY <4>1, <4>2
    <3> QED
      BY <3>1
  <2> SUFFICES ASSUME NEW x \in Classes
               PROVE  /\ state'[x] = "initializing" => \E u \in Threads : Owns(u, x)'
                      /\ \A u \in Threads : Owns(u, x)' =>
                           state'[x] = "initializing" /\ \A v \in Threads \ {u} : ~Owns(v, x)'
    BY DEF Owners
  <2>3. CASE x \in F
    <3>1. Owns(t, x)
      BY <1>3, <2>3 DEF Owns
    <3>2. \A u \in Threads : ~Owns(u, x)'
      BY <2>1, <2>2, <2>3, <3>1 DEF Owners
    <3> QED
      BY <1>9, <2>3, <3>2
  <2>4. CASE x \notin F
    BY <1>9, <2>1, <2>2, <2>4 DEF Owners
  <2> QED
    BY <2>3, <2>4
<1> QED
  BY <1>12, <1>14, <1>15, <1>19, <1>20, <1>21 DEF IInv

(* It is put off: its superclass is in the list of the same thread.        *)
LEMMA FinishInitializingAfterStep ==
  ASSUME IInv, NEW t \in Threads, NEW c, Ending(t, c), ~SuperDone(c),
         FinishInitializingAfter(c), Return(t), UNCHANGED <<uses, unwinding, forkChild>>
  PROVE  IInv'
<1>1. /\ c \in Classes /\ c \in mine[t] /\ pending[c] = 0 /\ state[c] # "no" /\ Begun(t, c)
      /\ Label(t) = Top(t).pc /\ Label(t) \in {"finish", "fork"}
  BY EndingIs DEF Ending
<1>2. Types /\ Tree /\ Pending /\ Nested(t) /\ Works(t) /\ List(t)
  BY DEF IInv
<1>3. PICK s \in Classes : s = Super[c] /\ s # c /\ c # Root /\ state[s] # "initialized" /\ s \in mine[t]
  <2>1. c # Root /\ state[Super[c]] # "initialized"
    BY <1>1, SuperDoneIs
  <2> QED
    BY <1>1, <2>1, SuperIn, Above DEF Begun
<1>4. state[s] = "initializing" /\ state[c] = "initializing"
  <2>1. state[s] # "no"
    BY <1>2, <1>3 DEF List
  <2>2. state[c] # "initialized"
    BY <1>1, <1>2, <1>3 DEF Tree
  <2> QED
    BY <1>1, <1>2, <1>3, <2>1, <2>2 DEF Types
<1>5. s \in Trivial => pending[s] > 0
  BY <1>2, <1>3, <1>4 DEF List, Working, Ending
<1>6. ASSUME NEW p \in Threads, \A u \in Threads \ {p} : \A x \in mine[u] :
               state[x] = "initialized" \/ (Label(u) = "fork" /\ Top(u).cls = x)
      PROVE  t = p
  <2> SUFFICES ASSUME t # p PROVE FALSE
    OBVIOUS
  <2>1. Top(t).cls = s
    BY <1>3, <1>6
  <2> QED
    BY <1>3, <2>1 DEF Ending
<1>7. ASSUME NEW u \in Threads \ {t}, s \in mine[u]
      PROVE  forkChild /\ Label(u) = "fork" /\ Top(u).cls = s /\ s \notin Trivial
  <2>1. CASE ~forkChild
    BY <1>3, <1>7, <2>1 DEF IInv, Owners, Owns
  <2>2. CASE forkChild
    <3>1. Label(u) = "fork" /\ Top(u).cls = s
      BY <1>3, <1>6, <1>7, <2>2 DEF IInv, Child
    <3>2. stack[u] # <<>>
      BY <3>1 DEF Label
    <3>3. PICK n \in DOMAIN stack[u] : Top(u) = stack[u][n] /\ Top(u).pc = "fork"
      BY <1>2, <3>1, <3>2, Tops
    <3>4. pending[s] = 0
      BY <3>1, <3>3 DEF IInv, Works, Active
    <3> QED
      BY <1>5, <2>2, <3>1, <3>4
  <2> QED
    BY <2>1, <2>2
<1>8. ASSUME NEW u \in Threads \ {t}, c \in mine[u] PROVE FALSE
  <2>1. CASE ~forkChild
    BY <1>1, <1>8, <2>1 DEF IInv, Owners, Owns
  <2>2. CASE forkChild
    <3>1. Label(u) = "fork" /\ Top(u).cls = c
      BY <1>4, <1>6, <1>8, <2>2 DEF IInv, Child
    <3>2. s \in mine[u]
      BY <1>3, <1>8 DEF IInv, List, Begun
    <3> QED
      BY <1>3, <1>7, <3>1, <3>2
  <2> QED
    BY <2>1, <2>2
<1>9. /\ UNCHANGED <<state, mine, asleep, halted>>
      /\ pending' = [pending EXCEPT ![c] = @ + 1]
  BY DEF FinishInitializingAfter
<1>10. pending'[c] = 1 /\ \A d \in Classes : d # c => pending'[d] = pending[d]
  BY <1>1, <1>2, <1>9 DEF Types
<1>11. /\ stack' \in [Threads -> Seq(Frames)] /\ Others(t)
       /\ Label(t)' \in {"program", "try", "body"}
  BY <1>2, Returned DEF Ending
<1>12. \A u \in Threads \ {t} : /\ Top(u)' = Top(u) /\ Label(u)' = Label(u) /\ stack'[u] = stack[u]
  BY <1>11 DEF Others, Top, Label
<1>13. Types'
  BY <1>1, <1>2, <1>9, <1>11 DEF Types
<1>14. Grows /\ Tree'
  BY <1>2, <1>9 DEF Grows, Tree
<1>15. Pending'
  <2> SUFFICES ASSUME NEW d \in Classes, pending'[d] > 0
               PROVE  /\ d # Root /\ state[d] = "initializing" /\ state[Super[d]] = "initializing"
                      /\ Super[d] \in Trivial => pending'[Super[d]] > 0
                      /\ \A u \in Threads : Super[d] \in mine[u] =>
                           \/ d \in mine[u]
                           \/ forkChild /\ Label(u)' = "fork" /\ Top(u)'.cls = Super[d] /\ Super[d] \notin Trivial
    BY <1>9 DEF Pending
  <2>1. CASE d = c
    <3>1. ASSUME NEW u \in Threads, s \in mine[u]
          PROVE  \/ c \in mine[u]
                 \/ forkChild /\ Label(u)' = "fork" /\ Top(u)'.cls = s /\ s \notin Trivial
      BY <1>1, <1>7, <1>12, <3>1
    <3>2. s \in Trivial => pending'[s] > 0
      BY <1>3, <1>5, <1>10
    <3> QED
      BY <1>3, <1>4, <2>1, <3>1, <3>2
  <2>2. CASE d # c
    <3>1. pending[d] > 0
      BY <1>10, <2>2
    <3>2. /\ d # Root /\ state[d] = "initializing" /\ state[Super[d]] = "initializing"
          /\ Super[d] \in Trivial => pending[Super[d]] > 0
          /\ \A u \in Threads : Super[d] \in mine[u] =>
               \/ d \in mine[u]
               \/ forkChild /\ Label(u) = "fork" /\ Top(u).cls = Super[d] /\ Super[d] \notin Trivial
      BY <1>2, <3>1 DEF Pending
    <3>3. Super[d] \in Trivial => pending'[Super[d]] > 0
      BY <1>1, <1>10, <3>2, SuperIn
    <3>4. ASSUME NEW u \in Threads, Super[d] \in mine[u]
          PROVE  \/ d \in mine[u]
                 \/ forkChild /\ Label(u)' = "fork" /\ Top(u)'.cls = Super[d] /\ Super[d] \notin Trivial
      BY <1>1, <1>12, <3>2, <3>4 DEF Ending
    <3> QED
      BY <3>2, <3>3, <3>4
  <2> QED
    BY <2>1, <2>2
<1>16. Nested(t)' /\ Knows(t)'
  BY <1>1, <1>9, ReturnKnows DEF Ending
<1>17. Works(t)'
  <2>1. PICK n \in Nat \ {0} :
              /\ DOMAIN stack[t] = 1..n /\ Top(t) = stack[t][n] /\ DOMAIN stack'[t] = 1..n - 1
              /\ \A i \in 1..n - 1 : i \in 1..n /\ i # n /\ stack'[t][i] = stack[t][i]
    BY <1>2, Returned DEF Ending
  <2> SUFFICES ASSUME NEW i \in 1..n - 1, stack[t][i].pc \in Active
               PROVE  /\ stack[t][i].cls \in mine[t] /\ pending'[stack[t][i].cls] = 0
                      /\ stack[t][i].pc = "fork" => forkChild
                      /\ stack[t][i].pc = "body" /\ stack[t][i].cls \in Trivial => stack[t][i].todo = {}
                      /\ \A j \in 1..n - 1 : stack[t][j].pc \in Active /\ stack[t][j].cls = stack[t][i].cls => i = j
    BY <1>9, <2>1 DEF Works
  <2>2. n \in 1..n
    OBVIOUS
  <2>3. /\ stack[t][i].cls \in mine[t] /\ pending[stack[t][i].cls] = 0
        /\ stack[t][i].pc = "fork" => forkChild
        /\ stack[t][i].pc = "body" /\ stack[t][i].cls \in Trivial => stack[t][i].todo = {}
        /\ \A j \in 1..n : stack[t][j].pc \in Active /\ stack[t][j].cls = stack[t][i].cls => i = j
    BY <1>2, <2>1 DEF Works
  <2>4. stack[t][i].cls # c
    BY <2>1, <2>2, <2>3 DEF Ending, Active
  <2>5. stack[t][i].cls \in Classes
    BY <1>2, <2>3 DEF Types
  <2> QED
    BY <1>10, <2>1, <2>3, <2>4, <2>5
<1>18. List(t)'
  <2>1. ASSUME NEW x \in mine[t]
        PROVE  /\ state[x] # "no" /\ Begun(t, x)
               /\ x \in Trivial /\ state[x] = "initializing" => pending'[x] > 0
    <3>1. /\ state[x] # "no" /\ Begun(t, x) /\ x \in Classes
          /\ x \in Trivial /\ state[x] = "initializing" => pending[x] > 0 \/ Working(t, x)
      BY <1>2 DEF List, Types
    <3>2. Working(t, x) => x = c
      BY DEF Working, Ending
    <3> QED
      BY <1>10, <3>1, <3>2
  <2> QED
    BY <1>9, <2>1 DEF List, Begun
<1>19. ASSUME NEW u \in Threads PROVE Nested(u)' /\ Works(u)' /\ Knows(u)' /\ List(u)'
  <2>1. CASE u = t
    BY <1>16, <1>17, <1>18, <2>1
  <2>2. CASE u # t
    <3>1. Nested(u) /\ Works(u) /\ Knows(u) /\ List(u) /\ mine[u] \subseteq Classes
      BY DEF IInv, Types
    <3>2. stack'[u] = stack[u] /\ mine'[u] = mine[u]
      BY <1>9, <1>12, <2>2
    <3>3. \A i \in DOMAIN stack[u] : stack[u][i].pc \in Active => pending'[stack[u][i].cls] = 0
      <4>1. \A i \in DOMAIN stack[u] : stack[u][i].pc \in Active =>
              stack[u][i].cls \in mine[u] /\ pending[stack[u][i].cls] = 0
        BY <3>1 DEF Works
      <4>2. c \notin mine[u]
        BY <1>8, <2>2
      <4> QED
        BY <1>10, <3>1, <4>1, <4>2
    <3>4. \A x \in mine[u] \cap Trivial : pending[x] > 0 => pending'[x] > 0 \/ state'[x] = "initialized"
      BY <1>10, <3>1
    <3> QED
      BY <1>2, <1>13, <1>14, <3>1, <3>2, <3>3, <3>4, Apart
  <2> QED
    BY <2>1, <2>2
<1>20. forkChild => Child'
  <2> SUFFICES ASSUME forkChild PROVE Child'
    OBVIOUS
  <2>1. PICK p \in Threads : \A u \in Threads \ {p} : \A x \in mine[u] :
          state[x] = "initialized" \/ (Label(u) = "fork" /\ Top(u).cls = x)
    BY DEF IInv, Child
  <2>2. t = p
    BY <1>6, <2>1
  <2>3. \A u \in Threads \ {p} : \A x \in mine'[u] :
          state'[x] = "initialized" \/ (Label(u)' = "fork" /\ Top(u)'.cls = x)
    BY <1>9, <1>12, <2>1, <2>2
  <2> QED
    BY <2>3 DEF Child
<1>21. ~forkChild => Owners'
  <2> SUFFICES ASSUME ~forkChild PROVE Owners'
    OBVIOUS
  <2>1. \A u \in Threads, x \in Classes : Owns(u, x)' <=> Owns(u, x)
    <3>1. ASSUME NEW u \in Threads, NEW x \in Classes PROVE Owns(u, x)' <=> Owns(u, x)
      <4>1. CASE u = t
        BY <1>1, <1>9, <1>11, <4>1 DEF Owns
      <4>2. CASE u # t
        BY <1>9, <1>12, <4>2 DEF Owns
      <4> QED
        BY <4>1, <4>2
    <3> QED
      BY <3>1
  <2> QED
    BY <1>9, <2>1 DEF IInv, Owners
<1> QED
  BY <1>13, <1>14, <1>15, <1>19, <1>20, <1>21 DEF IInv

(* The end of the call, after its +initialize method.                      *)
LEMMA FinishStep ==
  ASSUME IInv, NEW t \in Threads, Finish(t)
  PROVE  IInv'
<1>1. stack[t] # <<>> /\ Top(t).pc = "finish"
  BY DEF Finish, Label
<1>2. PICK c : c = Top(t).cls
  OBVIOUS
<1>3. Ending(t, c)
  BY <1>1, <1>2 DEF Ending
<1>4. Return(t) /\ UNCHANGED <<uses, unwinding, forkChild>> /\ LockAndFinish(t, c)
  BY <1>2 DEF Finish
<1>5. CASE SuperDone(c) /\ FinishInitializing(t, c)
  BY <1>3, <1>4, <1>5, FinishInitializingStep
<1>6. CASE ~SuperDone(c) /\ FinishInitializingAfter(c)
  BY <1>3, <1>4, <1>6, FinishInitializingAfterStep
<1> QED
  BY <1>4, <1>5, <1>6 DEF LockAndFinish

(* The end of the call, in the child of a fork.                            *)
LEMMA ForkChildInitializeStep ==
  ASSUME IInv, NEW t \in Threads, ForkChildInitialize(t)
  PROVE  IInv'
<1>1. stack[t] # <<>> /\ Top(t).pc = "fork"
  BY DEF ForkChildInitialize, At, Label
<1>2. PICK c : c = Top(t).cls
  OBVIOUS
<1>3. UNCHANGED <<uses, unwinding, forkChild>>
  BY DEF ForkChildInitialize
<1>4. CASE c \in Trivial
  <2>1. Ending(t, c)
    BY <1>1, <1>2, <1>4 DEF Ending
  <2>2. Return(t) /\ LockAndFinish(t, c)
    BY <1>2, <1>4 DEF ForkChildInitialize
  <2>3. CASE SuperDone(c) /\ FinishInitializing(t, c)
    BY <1>3, <2>1, <2>2, <2>3, FinishInitializingStep
  <2>4. CASE ~SuperDone(c) /\ FinishInitializingAfter(c)
    BY <1>3, <2>1, <2>2, <2>4, FinishInitializingAfterStep
  <2> QED
    BY <2>2, <2>3, <2>4 DEF LockAndFinish
<1>5. CASE c \notin Trivial
  <2>1. Halt("afterFork") /\ UNCHANGED <<state, mine, pending, stack, asleep>>
    BY <1>2, <1>5 DEF ForkChildInitialize
  <2> QED
    BY <1>3, <2>1, HaltKeeps
<1> QED
  BY <1>4, <1>5

-----------------------------------------------------------------------------
(* Forks, and the whole specification                                      *)

(* In the child only the thread that forked has calls and a list.          *)
LEMMA ForkStep ==
  ASSUME IInv, NEW t \in Threads, Fork(t)
  PROVE  IInv'
<1>1. /\ ~forkChild /\ forkChild' /\ UNCHANGED <<uses, state, pending, halted>>
      /\ mine' = [u \in Threads |-> IF u = t THEN mine[t] ELSE {}]
      /\ stack' = [u \in Threads |-> IF u = t THEN stack[t] ELSE <<>>]
      /\ unwinding' = {} /\ asleep' = {} /\ Label(t) \in {"program", "body"}
      /\ forkChild' = TRUE
  BY DEF Fork, At
<1>2. Types /\ Tree /\ Pending /\ Nested(t) /\ Works(t) /\ List(t) /\ Owners
  BY <1>1 DEF IInv
<1>3. mine'[t] = mine[t] /\ stack'[t] = stack[t] /\ Top(t)' = Top(t)
  BY <1>1 DEF Top
<1>4. \A u \in Threads \ {t} : mine'[u] = {} /\ stack'[u] = <<>>
  BY <1>1
<1>5. Types'
  <2>1. mine' \in [Threads -> SUBSET Classes]
    BY <1>1, <1>2 DEF Types
  <2>2. stack' \in [Threads -> Seq(Frames)]
    BY <1>1, <1>2 DEF Types
  <2> QED
    BY <1>1, <1>2, <2>1, <2>2 DEF Types
<1>6. Tree'
  BY <1>1, <1>2 DEF Tree
<1>7. Pending'
  <2> SUFFICES ASSUME NEW d \in Classes, pending[d] > 0
               PROVE  /\ d # Root /\ state[d] = "initializing" /\ state[Super[d]] = "initializing"
                      /\ Super[d] \in Trivial => pending[Super[d]] > 0
                      /\ \A u \in Threads : Super[d] \in mine'[u] => d \in mine'[u]
    BY <1>1 DEF Pending
  <2>1. /\ d # Root /\ state[d] = "initializing" /\ state[Super[d]] = "initializing"
        /\ Super[d] \in Trivial => pending[Super[d]] > 0
        /\ Super[d] \in mine[t] => d \in mine[t]
    BY <1>1, <1>2 DEF Pending
  <2> QED
    BY <1>3, <1>4, <2>1
<1>8. ASSUME NEW u \in Threads PROVE Nested(u)' /\ Works(u)' /\ Knows(u)' /\ List(u)'
  <2>1. CASE u = t
    <3>1. Nested(t)' /\ Works(t)'
      BY <1>1, <1>2, <1>3 DEF Nested, Works
    <3>2. Knows(t)'
      <4>1. stack[t] # <<>> => Top(t).pc = "body"
        BY <1>1, <1>2, Tops DEF Frames, Labels
      <4> QED
        BY <1>3, <4>1 DEF Knows, Tried
    <3>3. List(t)'
      BY <1>1, <1>2, <1>3 DEF List, Begun, Working
    <3> QED
      BY <2>1, <3>1, <3>2, <3>3
  <2>2. CASE u # t
    <3>1. mine'[u] = {} /\ stack'[u] = <<>>
      BY <1>4, <2>2
    <3>2. DOMAIN stack'[u] = {}
      BY <3>1
    <3> QED
      BY <3>1, <3>2 DEF Nested, Works, Knows, List
  <2> QED
    BY <2>1, <2>2
<1>9. Child'
  BY <1>4 DEF Child
<1> QED
  BY <1>1, <1>5, <1>6, <1>7, <1>8, <1>9 DEF IInv

(* Only the classes that are initialized early are so, with superclasses.  *)
LEMMA InitIInv == Init => IInv
<1> SUFFICES ASSUME Init PROVE IInv
  OBVIOUS
<1>1. /\ \A t \in Threads : stack[t] = <<>> /\ mine[t] = {} /\ Label(t) = "program"
      /\ \A c \in Classes : pending[c] = 0
      /\ \A c \in Classes : state[c] = IF c \in Early THEN "initialized" ELSE "no"
      /\ ~forkChild
  BY DEF Init, Label
<1>2. Types
  <2>1. <<>> \in Seq(Frames)
    OBVIOUS
  <2>2. stack \in [Threads -> Seq(Frames)]
    BY <2>1 DEF Init
  <2>3. /\ state \in [Classes -> {"no", "initializing", "initialized"}]
        /\ mine \in [Threads -> SUBSET Classes] /\ pending \in [Classes -> 0..1]
    BY DEF Init
  <2> QED
    BY <2>2, <2>3 DEF Init, Types
<1>3. Tree
  BY <1>1, InitializeAssumption DEF Tree
<1>4. Pending
  BY <1>1 DEF Pending
<1>5. ASSUME NEW t \in Threads PROVE Nested(t) /\ Works(t) /\ Knows(t) /\ List(t)
  <2>1. mine[t] = {} /\ stack[t] = <<>>
    BY <1>1
  <2>2. DOMAIN stack[t] = {}
    BY <2>1
  <2> QED
    BY <2>1, <2>2 DEF Nested, Works, Knows, List
<1>6. Owners
  BY <1>1 DEF Owners, Owns
<1> QED
  BY <1>1, <1>2, <1>3, <1>4, <1>5, <1>6 DEF IInv

(* Every action keeps the invariant.                                       *)
LEMMA NextStep == IInv /\ Next => IInv'
<1> SUFFICES ASSUME IInv, NEW t \in Threads, (\E c \in Classes : Message(t, c)) \/ Step(t) \/ Fork(t)
             PROVE  IInv'
  BY DEF Next
<1>1. CASE \E c \in Classes : Message(t, c)
  BY <1>1, MessageStep
<1>2. CASE Enter(t)
  BY <1>2, EnterStep
<1>3. CASE Try(t)
  BY <1>3, TryStep
<1>4. CASE Record(t)
  BY <1>4, RecordStep
<1>5. CASE \E c \in Classes : BodyMessages(t, c)
  BY <1>5, BodyMessagesStep
<1>6. CASE BodyEnds(t)
  BY <1>6, BodyEndsStep
<1>7. CASE BodyThrows(t)
  BY <1>7, BodyThrowsStep
<1>8. CASE Finish(t)
  BY <1>8, FinishStep
<1>9. CASE Unwind(t)
  BY <1>9, UnwindStep
<1>10. CASE Check(t)
  BY <1>10, CheckStep
<1>11. CASE Recheck(t)
  BY <1>11, RecheckStep
<1>12. CASE Wait(t)
  BY <1>12, WaitStep
<1>13. CASE ForkChildInitialize(t)
  BY <1>13, ForkChildInitializeStep
<1>14. CASE Fork(t)
  BY <1>14, ForkStep
<1> QED
  BY <1>1, <1>2, <1>3, <1>4, <1>5, <1>6, <1>7, <1>8, <1>9, <1>10, <1>11, <1>12, <1>13, <1>14 DEF Step

(* So does a step that changes nothing.                                    *)
LEMMA StutterStep == IInv /\ UNCHANGED vars => IInv'
<1> SUFFICES ASSUME IInv, UNCHANGED vars PROVE IInv'
  OBVIOUS
<1>1. UNCHANGED <<uses, state, mine, pending, stack, unwinding, asleep, forkChild, halted>>
  BY DEF vars
<1>2. Types' /\ Tree' /\ Pending'
  BY <1>1 DEF IInv, Types, Tree, Pending, Label, Top
<1>3. ASSUME NEW t \in Threads PROVE Nested(t)' /\ Works(t)' /\ Knows(t)' /\ List(t)'
  <2>1. Nested(t) /\ Works(t) /\ Knows(t) /\ List(t)
    BY DEF IInv
  <2> QED
    BY <1>1, <2>1 DEF Nested, Works, Knows, List, Begun, Working, Top
<1>4. forkChild => Child'
  BY <1>1 DEF IInv, Child, Label, Top
<1>5. ~forkChild => Owners'
  BY <1>1 DEF IInv, Owners, Owns, Label, Top
<1> QED
  BY <1>1, <1>2, <1>3, <1>4, <1>5 DEF IInv

(* The invariant holds in every state of every behaviour.                  *)
THEOREM SpecIInv == Spec => []IInv
<1>1. IInv /\ [Next]_vars => IInv'
  BY NextStep, StutterStep
<1> QED
  BY <1>1, InitIInv, PTL DEF Spec

-----------------------------------------------------------------------------
(* What the invariant gives                                                *)

(* Threads take families of classes from the top: the classes that are     *)
(* initialized or being initialized are a contiguous part of the tree, and *)
(* no thread waits for a class of the family that it is initializing.      *)
THEOREM FamiliesAreSound == Spec => []FamiliesSound
<1>1. ASSUME IInv PROVE FamiliesSound
  <2>1. Types /\ Tree
    BY <1>1 DEF IInv
  <2>2. TypeOK
    <3>1. ASSUME NEW t \in Threads, NEW i \in DOMAIN stack[t]
          PROVE  /\ stack[t][i].cls \in Classes /\ stack[t][i].todo \subseteq Classes
                 /\ stack[t][i].pc \in Labels
                 /\ i < Len(stack[t]) => stack[t][i].pc \in {"try", "body"}
      <4>1. stack[t][i] \in Frames /\ i \in Nat /\ Len(stack[t]) \in Nat
        BY <2>1, Tops
      <4>2. i # Len(stack[t]) => stack[t][i].pc \in {"try", "body"}
        BY <1>1 DEF IInv, Nested
      <4> QED
        BY <4>1, <4>2 DEF Frames
    <3> QED
      BY <2>1, <3>1 DEF Types, TypeOK, Labels
  <2>3. Contiguous
    <3> SUFFICES ASSUME NEW c \in Classes \ {Root}, NEW t \in Threads, c \in mine[t]
                 PROVE  state[Super[c]] = "initialized" \/ Super[c] \in mine[t]
      BY <2>1 DEF Contiguous, Tree
    <3> QED
      BY <1>1 DEF IInv, List, Begun
  <2>4. NoWaitWithinFamily
    <3> SUFFICES ASSUME NEW t \in Threads, Label(t) = "wait", NEW d \in mine[t]
                 PROVE  d \notin Ancestors[Top(t).cls] /\ Top(t).cls \notin Ancestors[d]
      BY DEF NoWaitWithinFamily
    <3>1. stack[t] # <<>> /\ Top(t).pc = "wait"
      BY DEF Label
    <3> QED
      BY <1>1, <3>1 DEF IInv, Knows
  <2> QED
    BY <2>2, <2>3, <2>4 DEF FamiliesSound
<1> QED
  BY <1>1, SpecIInv, PTL

(* The runtime never stops the process by a check of its own: no thread    *)
(* begins a class twice or finishes one it does not have, nor does the     *)
(* child of a fork with what its parent left behind.                       *)
THEOREM NeverStopsFatally == Spec => []NeverFatal
<1>1. IInv => NeverFatal
  BY DEF IInv, Types, NeverFatal
<1> QED
  BY <1>1, SpecIInv, PTL

(* A call that ends has made its class its thread's, or found it done,     *)
(* unless an exception ends it.                                            *)
LEMMA Returns ==
  ASSUME IInv, NEW u \in Threads, (\E c \in Classes : Message(u, c)) \/ Step(u)
  PROVE  /\ Others(u)
         /\ \/ Len(stack'[u]) >= Len(stack[u])
            \/ u \in unwinding'
            \/ state'[Top(u).cls] = "initialized" \/ Top(u).cls \in mine'[u]
<1>1. Types /\ Len(stack[u]) \in Nat
  BY Tops DEF IInv
<1>2. ASSUME NEW c \in Classes, Message(u, c)
      PROVE  Others(u) /\ Len(stack'[u]) >= Len(stack[u])
  <2>1. Frame(c) \in Frames
    BY DEF Frame, Frames, Labels
  <2>2. Ends(u, 1, Frame(c))
    BY <1>1, <1>2, <2>1, FirstFrame DEF Message
  <2>3. stack[u] = <<>>
    <3>1. Label(u) = "program"
      BY <1>2 DEF Message, At
    <3>2. stack[u] # <<>> => Top(u).pc \in Labels /\ Top(u).pc = Label(u)
      BY <1>1, Tops DEF Frames
    <3> QED
      BY <3>1, <3>2 DEF Labels
  <2>4. Len(stack[u]) = 0
    BY <2>3
  <2> QED
    BY <2>2, <2>4 DEF Ends
<1>3. ASSUME NEW label \in Labels, GoOn(u, label), stack[u] # <<>>
      PROVE  Others(u) /\ Len(stack'[u]) >= Len(stack[u])
  <2>1. Ends(u, Len(stack[u]), [Top(u) EXCEPT !.pc = label])
    BY <1>1, <1>3, GoOnFrames
  <2>2. Others(u) /\ Len(stack'[u]) = Len(stack[u])
    BY <2>1 DEF Ends
  <2> QED
    BY <1>1, <2>2
<1>4. ASSUME Return(u), stack[u] # <<>>
      PROVE  Others(u)
  BY <1>1, <1>4, ReturnFrames
<1>5. ASSUME stack' = stack
      PROVE  Others(u) /\ Len(stack'[u]) >= Len(stack[u])
  BY <1>1, <1>5 DEF Others
<1>6. "try" \in Labels /\ "record" \in Labels /\ "check" \in Labels /\ "finish" \in Labels
      /\ "recheck" \in Labels /\ "wait" \in Labels
  BY DEF Labels
<1>7. CASE Enter(u)
  <2>1. PICK tried, g : tried = [Top(u) EXCEPT !.pc = "try"] /\ g = Frame(Super[Top(u).cls])
    OBVIOUS
  <2>2. /\ At(u, "enter")
        /\ \/ stack' = [stack EXCEPT ![u] = Append(Front(stack[u]), tried)]
           \/ /\ stack' = [stack EXCEPT ![u] = Append(Append(Front(stack[u]), tried), g)]
              /\ ~SuperDone(Top(u).cls)
    BY <1>7, <2>1 DEF Enter
  <2>3. stack[u] # <<>> /\ Top(u) \in Frames /\ Top(u).cls \in Classes
    BY <2>2, AtIs
  <2>4. tried \in Frames
    BY <2>1, <2>3 DEF Frames, Labels
  <2>5. CASE stack' = [stack EXCEPT ![u] = Append(Front(stack[u]), tried)]
    <3>1. Ends(u, Len(stack[u]), tried)
      BY <1>1, <2>3, <2>4, <2>5, BecomeFrames
    <3> QED
      BY <1>1, <3>1 DEF Ends
  <2>6. CASE /\ stack' = [stack EXCEPT ![u] = Append(Append(Front(stack[u]), tried), g)]
             /\ ~SuperDone(Top(u).cls)
    <3>1. Super[Top(u).cls] \in Classes
      BY <2>3, <2>6, SuperDoneIs, SuperIn
    <3>2. g \in Frames
      BY <2>1, <3>1 DEF Frame, Frames, Labels
    <3>3. Ends(u, Len(stack[u]) + 1, g)
      BY <1>1, <2>3, <2>4, <2>6, <3>2, CallFrames
    <3> QED
      BY <1>1, <3>3 DEF Ends
  <2> QED
    BY <2>2, <2>5, <2>6
<1>8. CASE Try(u)
  <2>1. stack[u] # <<>>
    BY <1>8, AtIs DEF Try
  <2> QED
    BY <1>3, <1>6, <1>8, <2>1 DEF Try
<1>9. CASE Record(u)
  <2>1. At(u, "record")
    BY <1>9 DEF Record
  <2>2. /\ Label(u) = "record" /\ stack[u] # <<>> /\ Top(u) \in Frames
        /\ Top(u).pc = "record" /\ Top(u).cls \in Classes
    BY <2>1, AtIs
  <2>3. PICK f : f = [cls |-> Top(u).cls, pc |-> IF forkChild THEN "fork" ELSE "body",
                      todo |-> IF forkChild THEN {} ELSE uses[Top(u).cls]]
    OBVIOUS
  <2>4. Top(u).cls \notin mine[u]
    BY <2>2 DEF IInv, Knows
  <2>5. stack' = [stack EXCEPT ![u] = Append(Front(stack[u]), f)]
    BY <1>1, <1>9, <2>3, <2>4 DEF Record, Types
  <2>6. f \in Frames
    <3>1. uses[Top(u).cls] \in SUBSET Classes
      BY <1>1, <2>2, InitializeAssumption DEF Types
    <3> QED
      BY <2>2, <2>3, <3>1 DEF Frames, Labels
  <2>7. Ends(u, Len(stack[u]), f)
    BY <1>1, <2>2, <2>5, <2>6, BecomeFrames
  <2> QED
    BY <1>1, <2>7 DEF Ends
<1>10. ASSUME NEW c \in Classes, BodyMessages(u, c)
       PROVE  Others(u) /\ Len(stack'[u]) >= Len(stack[u])
  <2>1. PICK rest, g : rest = [Top(u) EXCEPT !.todo = @ \ {c}] /\ g = Frame(c)
    OBVIOUS
  <2>2. /\ At(u, "body")
        /\ \/ stack' = [stack EXCEPT ![u] = Append(Front(stack[u]), rest)]
           \/ stack' = [stack EXCEPT ![u] = Append(Append(Front(stack[u]), rest), g)]
    BY <1>10, <2>1 DEF BodyMessages
  <2>3. stack[u] # <<>> /\ Top(u) \in Frames
    BY <2>2, AtIs
  <2>4. rest \in Frames /\ g \in Frames
    BY <2>1, <2>3 DEF Frame, Frames, Labels
  <2>5. CASE stack' = [stack EXCEPT ![u] = Append(Front(stack[u]), rest)]
    <3>1. Ends(u, Len(stack[u]), rest)
      BY <1>1, <2>3, <2>4, <2>5, BecomeFrames
    <3> QED
      BY <1>1, <3>1 DEF Ends
  <2>6. CASE stack' = [stack EXCEPT ![u] = Append(Append(Front(stack[u]), rest), g)]
    <3>1. Ends(u, Len(stack[u]) + 1, g)
      BY <1>1, <2>3, <2>4, <2>6, CallFrames
    <3> QED
      BY <1>1, <3>1 DEF Ends
  <2> QED
    BY <2>2, <2>5, <2>6
<1>11. CASE BodyEnds(u)
  <2>1. stack[u] # <<>>
    BY <1>11, AtIs DEF BodyEnds
  <2> QED
    BY <1>3, <1>6, <1>11, <2>1 DEF BodyEnds
<1>12. CASE BodyThrows(u)
  <2>1. stack[u] # <<>>
    BY <1>12, AtIs DEF BodyThrows
  <2> QED
    BY <1>3, <1>6, <1>12, <2>1 DEF BodyThrows
<1>13. ASSUME NEW c, Ending(u, c), LockAndFinish(u, c)
       PROVE  state'[c] = "initialized" \/ c \in mine'[u]
  <2>1. c \in Classes /\ c \in mine[u]
    BY <1>13, EndingIs
  <2>2. CASE SuperDone(c) /\ FinishInitializing(u, c)
    <3>1. state' = [d \in Classes |-> IF d \in FinishedWith(c) THEN "initialized" ELSE state[d]]
      BY <1>13, <2>2, HasAll DEF FinishInitializing
    <3> QED
      BY <2>1, <3>1, FinishedWithIs
  <2>3. CASE FinishInitializingAfter(c)
    BY <2>1, <2>3 DEF FinishInitializingAfter
  <2> QED
    BY <1>13, <2>2, <2>3 DEF LockAndFinish
<1>14. CASE Finish(u)
  <2>1. stack[u] # <<>> /\ Top(u).pc = "finish"
    BY <1>14 DEF Finish, Label
  <2>2. PICK c : c = Top(u).cls
    OBVIOUS
  <2>3. Ending(u, c) /\ LockAndFinish(u, c) /\ Return(u)
    BY <1>14, <2>1, <2>2 DEF Ending, Finish
  <2> QED
    BY <1>4, <1>13, <2>1, <2>2, <2>3
<1>15. CASE ForkChildInitialize(u)
  <2>1. stack[u] # <<>> /\ Top(u).pc = "fork"
    BY <1>15 DEF ForkChildInitialize, At, Label
  <2>2. PICK c : c = Top(u).cls
    OBVIOUS
  <2>3. CASE c \in Trivial
    <3>1. Ending(u, c) /\ LockAndFinish(u, c) /\ Return(u)
      BY <1>15, <2>1, <2>2, <2>3 DEF Ending, ForkChildInitialize
    <3> QED
      BY <1>4, <1>13, <2>1, <2>2, <3>1
  <2>4. CASE c \notin Trivial
    <3>1. stack' = stack
      BY <1>15, <2>2, <2>4 DEF ForkChildInitialize
    <3> QED
      BY <1>5, <3>1
  <2> QED
    BY <2>3, <2>4
<1>16. CASE Unwind(u)
  <2>1. CASE UNCHANGED stack
    BY <1>5, <2>1
  <2>2. CASE Label(u) = "body" /\ GoOn(u, "finish")
    <3>1. stack[u] # <<>>
      BY <2>2 DEF Label
    <3> QED
      BY <1>3, <1>6, <2>2, <3>1
  <2>3. CASE Label(u) = "try" /\ Return(u) /\ UNCHANGED unwinding
    <3>1. stack[u] # <<>> /\ u \in unwinding'
      BY <1>16, <2>3 DEF Label, Unwind
    <3> QED
      BY <1>4, <2>3, <3>1
  <2> QED
    BY <1>16, <2>1, <2>2, <2>3 DEF Unwind
<1>17. CASE Check(u)
  <2>1. stack[u] # <<>> /\ mine' = mine
    BY <1>17, AtIs DEF Check
  <2>2. CASE Top(u).cls \in mine[u] /\ Return(u)
    BY <1>4, <2>1, <2>2
  <2>3. CASE GoOn(u, "recheck") \/ GoOn(u, "wait") \/ GoOn(u, "record")
    BY <1>3, <1>6, <2>1, <2>3
  <2> QED
    BY <1>17, <2>2, <2>3 DEF Check
<1>18. CASE Recheck(u)
  <2>1. stack[u] # <<>> /\ state' = state
    BY <1>18, AtIs DEF Recheck
  <2>2. CASE state[Top(u).cls] = "initialized" /\ Return(u)
    BY <1>4, <2>1, <2>2
  <2>3. CASE stack' = stack
    BY <1>5, <2>3
  <2> QED
    BY <1>18, <2>2, <2>3 DEF Recheck
<1>19. CASE Wait(u)
  <2>1. stack[u] # <<>> /\ state' = state
    BY <1>19, AtIs DEF Wait
  <2>2. CASE state[Top(u).cls] = "initialized" /\ Return(u)
    BY <1>4, <2>1, <2>2
  <2>3. CASE stack' = stack
    BY <1>5, <2>3
  <2> QED
    BY <1>19, <2>2, <2>3 DEF Wait
<1> QED
  BY <1>2, <1>7, <1>8, <1>9, <1>10, <1>11, <1>12, <1>14, <1>15, <1>16, <1>17, <1>18, <1>19 DEF Step

(* A call returns to its sender only when the class and its superclasses   *)
(* are initialized, or are being initialized by the same thread.           *)
THEOREM ReturnsAreInitialized == Spec => ReturnsInitialized
<1>1. ASSUME IInv, IInv', [Next]_vars, NEW t \in Threads,
             forkChild' = forkChild, t \notin unwinding', Len(stack'[t]) < Len(stack[t])
      PROVE  \A c \in {Top(t).cls} \cup Ancestors[Top(t).cls] : state'[c] = "initialized" \/ c \in mine'[t]
  <2>1. Len(stack[t]) \in Nat /\ stack'[t] \in Seq(Frames)
    BY <1>1, Tops DEF IInv, Types
  <2>2. stack'[t] # stack[t]
    BY <1>1, <2>1
  <2>3. Len(stack'[t]) \in Nat
    BY <2>1, LenProperties
  <2>4. PICK u \in Threads : (\E c \in Classes : Message(u, c)) \/ Step(u)
    BY <1>1, <2>2 DEF Next, Fork, vars
  <2>5. u = t
    BY <1>1, <2>2, <2>4, Returns DEF Others
  <2>6. state'[Top(t).cls] = "initialized" \/ Top(t).cls \in mine'[t]
    BY <1>1, <2>1, <2>3, <2>4, <2>5, Returns
  <2>7. Top(t).cls \in Classes
    <3>1. stack[t] # <<>>
      BY <1>1, <2>1, <2>3, Tops DEF IInv
    <3> QED
      BY <1>1, <3>1, Tops DEF IInv, Frames
  <2>8. PICK S : S = {d \in Classes : state'[d] = "initialized" \/ d \in mine'[t]}
    OBVIOUS
  <2>9. \A d \in Classes : d \in S /\ d # Root => Super[d] \in S
    BY <1>1, <2>8, SuperIn DEF IInv, Tree, List, Begun
  <2>10. Ancestors[Top(t).cls] \subseteq S
    BY <2>6, <2>7, <2>8, <2>9, AncestorsIn
  <2> QED
    BY <2>6, <2>8, <2>10
<1>2. IInv /\ IInv' /\ [Next]_vars =>
        [\A t \in Threads :
           forkChild' = forkChild /\ t \notin unwinding' /\ Len(stack'[t]) < Len(stack[t]) =>
           \A c \in {Top(t).cls} \cup Ancestors[Top(t).cls] :
             state'[c] = "initialized" \/ c \in mine'[t]]_vars
  BY <1>1
<1> QED
  BY <1>2, SpecIInv, PTL DEF Spec, ReturnsInitialized
=============================================================================
