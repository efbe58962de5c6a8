------------------------- MODULE WeakReferencesProof -------------------------
(***************************************************************************)
(* Theorems about WeakReferences, for any threads, objects, variables and  *)
(* side tables, and any nesting of calls.                                  *)
(*                                                                         *)
(* The invariant IInv of WeakReferencesInv holds initially and is kept by  *)
(* every action.  An action changes the stack of its thread in one of six  *)
(* ways, whose effects are lemmas; what other threads know is kept when    *)
(* the locks that the action holds are theirs no longer, or not yet.       *)
(* In the end each action is shown to be one of WeakVariables, or none.    *)
(***************************************************************************)
EXTENDS WeakReferencesInv, FiniteSetTheorems, SequenceTheorems, TLAPS

-----------------------------------------------------------------------------
(* Sequences                                                               *)

(* A sequence without its last element.                                    *)
LEMMA Shorter ==
  ASSUME NEW S, NEW s \in Seq(S), s # <<>>
  PROVE  /\ Len(s) \in Nat \ {0} /\ DOMAIN s = 1..Len(s)
         /\ Last(s) = s[Len(s)] /\ Last(s) \in S
         /\ Front(s) \in Seq(S) /\ Len(Front(s)) = Len(s) - 1
         /\ DOMAIN Front(s) = 1..Len(s) - 1
         /\ \A i \in 1..Len(s) - 1 : Front(s)[i] = s[i]
<1>1. Len(s) \in Nat \ {0} /\ DOMAIN s = 1..Len(s)
  BY EmptySeq, LenProperties
<1>2. \A i \in 1..Len(s) : s[i] \in S
  BY <1>1, ElementOfSeq
<1>3. Last(s) = s[Len(s)]
  BY DEF Last
<1>4. Len(s) - 1 \in 0..Len(s) /\ \A i \in 1..Len(s) - 1 : s[i] \in S
  BY <1>1, <1>2
<1>5. /\ Front(s) \in Seq(S) /\ Len(Front(s)) = Len(s) - 1
      /\ \A i \in 1..Len(s) - 1 : Front(s)[i] = s[i]
  BY <1>1, <1>4, SubSeqProperties DEF Front
<1>6. DOMAIN Front(s) = 1..Len(s) - 1
  BY <1>5, LenProperties
<1> QED
  BY <1>1, <1>2, <1>3, <1>5, <1>6

(* A longer sequence.                                                      *)
LEMMA Longer ==
  ASSUME NEW S, NEW s \in Seq(S), NEW e \in S
  PROVE  /\ Len(s) \in Nat /\ DOMAIN s = 1..Len(s)
         /\ Append(s, e) \in Seq(S) /\ Len(Append(s, e)) = Len(s) + 1
         /\ DOMAIN Append(s, e) = 1..Len(s) + 1
         /\ Append(s, e) # <<>>
         /\ Append(s, e)[Len(s) + 1] = e
         /\ \A i \in 1..Len(s) : Append(s, e)[i] = s[i]
<1>1. Len(s) \in Nat /\ DOMAIN s = 1..Len(s)
  BY LenProperties
<1>2. /\ Append(s, e) \in Seq(S) /\ Len(Append(s, e)) = Len(s) + 1
      /\ Append(s, e)[Len(s) + 1] = e
      /\ \A i \in 1..Len(s) : Append(s, e)[i] = s[i]
  BY <1>1, AppendProperties
<1>3. DOMAIN Append(s, e) = 1..Len(s) + 1
  BY <1>2, LenProperties
<1>4. Append(s, e) # <<>>
  BY <1>1, <1>2, EmptySeq
<1> QED
  BY <1>1, <1>2, <1>3, <1>4

(* Another last element.                                                   *)
LEMMA Replaced ==
  ASSUME NEW S, NEW s \in Seq(S), s # <<>>, NEW e \in S
  PROVE  /\ Append(Front(s), e) \in Seq(S) /\ Len(Append(Front(s), e)) = Len(s)
         /\ DOMAIN Append(Front(s), e) = 1..Len(s)
         /\ Append(Front(s), e) # <<>>
         /\ Append(Front(s), e)[Len(s)] = e
         /\ \A i \in 1..Len(s) - 1 : Append(Front(s), e)[i] = s[i]
<1>1. PICK r \in Seq(S) : r = Front(s)
  BY Shorter
<1>2. /\ Len(s) \in Nat \ {0} /\ Len(r) = Len(s) - 1
      /\ \A i \in 1..Len(s) - 1 : r[i] = s[i]
  BY <1>1, Shorter
<1> QED
  BY <1>1, <1>2, Longer


-----------------------------------------------------------------------------
(* What the changes of a stack do                                          *)

Others(t) == \A u \in Threads \ {t} : stack'[u] = stack[u]

(* The first m calls of t are as they were.                                *)
Below(t, m) == \A i \in 1..m : stack'[t][i] = stack[t][i]

LEMMA Tops ==
  ASSUME Types, NEW t \in Threads
  PROVE  /\ stack[t] \in Seq(FrameType) /\ Len(stack[t]) \in Nat
         /\ DOMAIN stack[t] = 1..Len(stack[t])
         /\ stack[t] # <<>> <=> Len(stack[t]) > 0
         /\ stack[t] # <<>> => /\ Top(t) = stack[t][Len(stack[t])]
                               /\ Top(t) \in FrameType
         /\ \A i \in 1..Len(stack[t]) : stack[t][i] \in FrameType
<1>1. stack[t] \in Seq(FrameType)
  BY DEF Types
<1>2. Len(stack[t]) \in Nat /\ DOMAIN stack[t] = 1..Len(stack[t])
  BY <1>1, LenProperties
<1>3. stack[t] # <<>> <=> Len(stack[t]) > 0
  BY <1>1, <1>2, EmptySeq
<1>4. stack[t] # <<>> => Top(t) = stack[t][Len(stack[t])] /\ Top(t) \in FrameType
  BY <1>1, Shorter DEF Top
<1>5. \A i \in 1..Len(stack[t]) : stack[t][i] \in FrameType
  BY <1>1, <1>2, ElementOfSeq
<1> QED
  BY <1>1, <1>2, <1>3, <1>4, <1>5

(* The innermost call goes on.                                             *)
LEMMA BecomeFrames ==
  ASSUME Types, NEW t \in Threads, stack[t] # <<>>, NEW g \in FrameType, Become(t, g)
  PROVE  /\ stack' \in [Threads -> Seq(FrameType)] /\ Others(t)
         /\ stack'[t] # <<>> /\ Len(stack'[t]) = Len(stack[t])
         /\ DOMAIN stack'[t] = 1..Len(stack[t])
         /\ stack'[t][Len(stack[t])] = g /\ Top(t)' = g
         /\ Below(t, Len(stack[t]) - 1)
<1>1. PICK r \in Seq(FrameType) : r = Append(Front(stack[t]), g)
  BY Tops, Replaced
<1>2. /\ Len(r) = Len(stack[t]) /\ DOMAIN r = 1..Len(stack[t]) /\ r # <<>>
      /\ r[Len(stack[t])] = g /\ \A i \in 1..Len(stack[t]) - 1 : r[i] = stack[t][i]
  BY <1>1, Tops, Replaced
<1>3. stack' = [stack EXCEPT ![t] = r]
  BY <1>1 DEF Become
<1>4. stack' \in [Threads -> Seq(FrameType)] /\ Others(t) /\ stack'[t] = r
  BY <1>3 DEF Types, Others
<1>5. Last(r) = g
  BY <1>2, Shorter
<1> QED
  BY <1>2, <1>4, <1>5 DEF Top, Below

(* Another call is made.                                                   *)
LEMMA EnterFrames ==
  ASSUME Types, NEW t \in Threads, NEW g \in FrameType, Enter(t, g)
  PROVE  /\ stack' \in [Threads -> Seq(FrameType)] /\ Others(t)
         /\ stack'[t] # <<>> /\ Len(stack'[t]) = Len(stack[t]) + 1
         /\ DOMAIN stack'[t] = 1..Len(stack[t]) + 1
         /\ stack'[t][Len(stack[t]) + 1] = g /\ Top(t)' = g
         /\ Below(t, Len(stack[t]))
<1>1. PICK r \in Seq(FrameType) : r = Append(stack[t], g)
  BY Tops, Longer
<1>2. /\ Len(r) = Len(stack[t]) + 1 /\ DOMAIN r = 1..Len(stack[t]) + 1 /\ r # <<>>
      /\ r[Len(stack[t]) + 1] = g /\ \A i \in 1..Len(stack[t]) : r[i] = stack[t][i]
  BY <1>1, Tops, Longer
<1>3. stack' = [stack EXCEPT ![t] = r]
  BY <1>1 DEF Enter
<1>4. stack' \in [Threads -> Seq(FrameType)] /\ Others(t) /\ stack'[t] = r
  BY <1>3 DEF Types, Others
<1>5. Last(r) = g
  BY <1>2, Shorter
<1> QED
  BY <1>2, <1>4, <1>5 DEF Top, Below

(* The innermost call makes another one.                                   *)
BecomeEnter(t, f, g) == stack' = [stack EXCEPT ![t] = Append(Append(Front(stack[t]), f), g)]

LEMMA BecomeEnterFrames ==
  ASSUME Types, NEW t \in Threads, stack[t] # <<>>, NEW f \in FrameType, NEW g \in FrameType,
         BecomeEnter(t, f, g)
  PROVE  /\ stack' \in [Threads -> Seq(FrameType)] /\ Others(t)
         /\ stack'[t] # <<>> /\ Len(stack'[t]) = Len(stack[t]) + 1
         /\ DOMAIN stack'[t] = 1..Len(stack[t]) + 1
         /\ stack'[t][Len(stack[t])] = f
         /\ stack'[t][Len(stack[t]) + 1] = g /\ Top(t)' = g
         /\ Below(t, Len(stack[t]) - 1)
<1>1. PICK q \in Seq(FrameType) : q = Append(Front(stack[t]), f)
  BY Tops, Replaced
<1>2. /\ Len(q) = Len(stack[t]) /\ Len(q) \in Nat \ {0} /\ q[Len(q)] = f
      /\ \A i \in 1..Len(stack[t]) - 1 : q[i] = stack[t][i]
  BY <1>1, Tops, Replaced
<1>3. PICK r \in Seq(FrameType) : r = Append(q, g)
  BY Longer
<1>4. /\ Len(r) = Len(q) + 1 /\ DOMAIN r = 1..Len(q) + 1 /\ r # <<>>
      /\ r[Len(q) + 1] = g /\ \A i \in 1..Len(q) : r[i] = q[i]
  BY <1>3, Longer
<1>5. stack' = [stack EXCEPT ![t] = r]
  BY <1>1, <1>3 DEF BecomeEnter
<1>6. stack' \in [Threads -> Seq(FrameType)] /\ Others(t) /\ stack'[t] = r
  BY <1>5 DEF Types, Others
<1>7. Last(r) = g
  BY <1>4, Shorter
<1>8. Below(t, Len(stack[t]) - 1)
  <2>1. Len(q) = Len(stack[t]) /\ Len(q) \in Nat /\ stack'[t] = r
    BY <1>2, <1>6
  <2> QED
    BY <1>2, <1>4, <2>1 DEF Below
<1>9. Top(t)' = g
  BY <1>6, <1>7 DEF Top
<1> QED
  BY <1>2, <1>4, <1>6, <1>8, <1>9

(* The innermost call returns.                                             *)
LEMMA ReturnFrames ==
  ASSUME Types, NEW t \in Threads, stack[t] # <<>>, Return(t)
  PROVE  /\ stack' \in [Threads -> Seq(FrameType)] /\ Others(t)
         /\ Len(stack'[t]) = Len(stack[t]) - 1
         /\ DOMAIN stack'[t] = 1..Len(stack[t]) - 1
         /\ stack'[t] # <<>> => /\ Len(stack[t]) > 1
                                /\ Top(t)' = stack[t][Len(stack[t]) - 1]
         /\ Below(t, Len(stack[t]) - 1)
<1>1. PICK r \in Seq(FrameType) : r = Front(stack[t])
  BY Tops, Shorter
<1>2. /\ Len(r) = Len(stack[t]) - 1 /\ DOMAIN r = 1..Len(stack[t]) - 1
      /\ \A i \in 1..Len(stack[t]) - 1 : r[i] = stack[t][i]
      /\ Len(stack[t]) \in Nat \ {0}
  BY <1>1, Tops, Shorter
<1>3. stack' = [stack EXCEPT ![t] = r]
  BY <1>1 DEF Return
<1>4. stack' \in [Threads -> Seq(FrameType)] /\ Others(t) /\ stack'[t] = r
  BY <1>3 DEF Types, Others
<1>5. ASSUME r # <<>> PROVE Len(r) > 0 /\ Last(r) = r[Len(r)]
  <2>1. Len(r) \in Nat \ {0} /\ Last(r) = r[Len(r)]
    BY <1>5, Shorter
  <2> QED
    BY <2>1
<1> QED
  BY <1>2, <1>4, <1>5 DEF Top, Below

(* A load returns a value, which the call that copies goes on with.        *)
LEMMA ReturnValueFrames ==
  ASSUME Types, NEW t \in Threads, stack[t] # <<>>,
         NEW v \in Objects \cup {Nil}, ReturnValue(t, v),
         NEW n \in Nat, n = Len(stack[t]) - 1
  PROVE  /\ stack' \in [Threads -> Seq(FrameType)] /\ Others(t)
         /\ Len(stack'[t]) = n /\ DOMAIN stack'[t] = 1..n
         /\ \/ /\ stack'[t] # <<>> => n > 0 /\ stack[t][n].fn \notin Copies /\ Top(t)' = stack[t][n]
               /\ Below(t, n)
            \/ /\ n > 0 /\ stack[t][n].fn \in Copies /\ stack'[t] # <<>>
               /\ Top(t)' = [stack[t][n] EXCEPT !.new = v, !.pc = "init"]
               /\ stack'[t][n] = Top(t)'
               /\ Below(t, n - 1)
<1>1. PICK q \in Seq(FrameType) : q = Front(stack[t])
  BY Tops, Shorter
<1>2. /\ Len(q) = n /\ DOMAIN q = 1..n /\ \A i \in 1..n : q[i] = stack[t][i]
      /\ q # <<>> => n > 0 /\ Last(q) = stack[t][n] /\ Last(q) \in FrameType
      /\ n > 0 => q # <<>>
  <2>1. /\ Len(q) = n /\ DOMAIN q = 1..n /\ \A i \in 1..n : q[i] = stack[t][i]
    BY <1>1, Tops, Shorter
  <2>2. n > 0 <=> q # <<>>
    BY <2>1, EmptySeq
  <2>3. q # <<>> => Last(q) = q[n] /\ Last(q) \in FrameType
    BY <2>1, Shorter
  <2> QED
    BY <2>1, <2>2, <2>3
<1>3. CASE q # <<>> /\ Last(q).fn \in Copies
  <2>1. PICK g : g = [stack[t][n] EXCEPT !.new = v, !.pc = "init"]
    OBVIOUS
  <2>2. g \in FrameType
    BY <1>2, <1>3, <2>1 DEF FrameType
  <2>3. PICK r \in Seq(FrameType) : r = Append(Front(q), g)
    <3>1. q # <<>>
      BY <1>3
    <3>2. Append(Front(q), g) \in Seq(FrameType)
      BY <3>1, <2>2, Replaced
    <3> QED
      BY <3>2
  <2>4. /\ Len(r) = n /\ DOMAIN r = 1..n /\ r # <<>> /\ r[n] = g
        /\ \A i \in 1..n - 1 : r[i] = q[i]
    <3>1. q # <<>> /\ Len(q) = n
      BY <1>2, <1>3
    <3>2. /\ Len(r) = Len(q) /\ DOMAIN r = 1..Len(q) /\ r # <<>> /\ r[Len(q)] = g
          /\ \A i \in 1..Len(q) - 1 : r[i] = q[i]
      BY <3>1, <2>2, <2>3, Replaced
    <3> QED
      BY <3>1, <3>2
  <2>5. stack' = [stack EXCEPT ![t] = r]
    BY <1>1, <1>2, <1>3, <2>1, <2>3 DEF ReturnValue, Copies
  <2>6. stack' \in [Threads -> Seq(FrameType)] /\ Others(t) /\ stack'[t] = r
    BY <2>5 DEF Types, Others
  <2>7. Last(r) = g
    BY <2>4, Shorter
  <2> QED
    BY <1>2, <1>3, <2>1, <2>4, <2>6, <2>7 DEF Top, Below
<1>4. CASE ~(q # <<>> /\ Last(q).fn \in Copies)
  <2>1. Return(t)
    BY <1>1, <1>4 DEF ReturnValue, Copies
  <2>2. n + 1 = Len(stack[t])
    BY Tops
  <2> QED
    BY <1>2, <1>4, <2>1, <2>2, ReturnFrames
<1> QED
  BY <1>3, <1>4


-----------------------------------------------------------------------------
(* The order of calls                                                      *)

(* A call that has made another one is at one of these places.             *)
LEMMA Outer ==
  ASSUME Types, NEW t \in Threads, Nested(t), NEW i \in 1..Len(stack[t]), i # Len(stack[t])
  PROVE  /\ Above(stack[t][i], stack[t][i + 1])
         /\ stack[t][i].pc \in {"load", "release", "end", "setNil", "read", "run"}
         /\ stack[t][i].fn \in Copies /\ stack[t][i].pc \notin {"end", "setNil"} =>
              /\ stack[t][i].pc \in {"load", "release"}
              /\ stack[t][i + 1].fn \in {"loadWeak"} \cup Inits
<1>1. DOMAIN stack[t] = 1..Len(stack[t])
  BY Tops
<1>2. Above(stack[t][i], stack[t][i + 1])
  BY <1>1 DEF Nested
<1> QED
  BY <1>2 DEF Above, Copies, Inits, StoreFns

LEMMA NestedKept ==
  ASSUME NEW t \in Threads, Nested(t), NEW m \in Nat, NEW k \in Nat,
         DOMAIN stack[t] = 1..Len(stack[t]), Len(stack[t]) \in Nat, m <= Len(stack[t]),
         DOMAIN stack'[t] = 1..k, Len(stack'[t]) = k, m <= k, Below(t, m),
         stack'[t] # <<>> => k > 0,
         \A i \in m + 1..k : Locals(stack'[t][i]),
         \A i \in 1..k - 1 : i >= m => Above(stack'[t][i], stack'[t][i + 1]),
         stack'[t] # <<>> => Top(t)'.pc # "load"
  PROVE  Nested(t)'
<1>1. \A i \in 1..k : Locals(stack'[t][i])
  <2> SUFFICES ASSUME NEW i \in 1..k PROVE Locals(stack'[t][i])
    OBVIOUS
  <2>1. CASE i \in 1..m
    <3>1. i \in DOMAIN stack[t]
      BY <2>1
    <3>2. Locals(stack[t][i])
      BY <3>1 DEF Nested
    <3> QED
      BY <2>1, <3>2 DEF Below
  <2>2. CASE i \in m + 1..k
    BY <2>2
  <2> QED
    BY <2>1, <2>2
<1>2. \A i \in 1..k - 1 : Above(stack'[t][i], stack'[t][i + 1])
  <2> SUFFICES ASSUME NEW i \in 1..k - 1 PROVE Above(stack'[t][i], stack'[t][i + 1])
    OBVIOUS
  <2>1. CASE i < m
    <3>1. Above(stack[t][i], stack[t][i + 1])
      BY <2>1 DEF Nested
    <3>2. stack'[t][i] = stack[t][i] /\ stack'[t][i + 1] = stack[t][i + 1]
      BY <2>1 DEF Below
    <3> QED
      BY <3>1, <3>2
  <2>2. CASE i >= m
    BY <2>2
  <2> QED
    BY <2>1, <2>2
<1> QED
  BY <1>1, <1>2 DEF Nested

-----------------------------------------------------------------------------
(* Whose a variable is                                                     *)

(* Neither call owns a variable that the other one uses.                   *)
Apart(f, g) == /\ Owns(f) \cap {g.loc, g.src} = {}
               /\ Owns(g) \cap {f.loc, f.src} = {}

SameShape(f, g) == f.fn = g.fn /\ f.loc = g.loc /\ f.src = g.src

(* The first m calls of t keep their variables; those above them share     *)
(* none, except with their kin.                                            *)
LEMMA ExclusiveKept ==
  ASSUME Exclusive, NEW t \in Threads, NEW m \in Nat, NEW k \in Nat, Others(t),
         DOMAIN stack[t] = 1..Len(stack[t]), Len(stack[t]) \in Nat, m <= Len(stack[t]),
         DOMAIN stack'[t] = 1..k, m <= k,
         \A i \in 1..m : SameShape(stack'[t][i], stack[t][i]),
         \A i \in m + 1..k : \A u \in Threads : \A j \in DOMAIN stack'[u] :
           Apart(stack'[t][i], stack'[u][j]) \/ Kin(t, i, u, j)'
  PROVE  Exclusive'
<1> SUFFICES ASSUME NEW u \in Threads, NEW v \in Threads,
                    NEW i \in DOMAIN stack'[u], NEW j \in DOMAIN stack'[v],
                    Owns(stack'[u][i]) \cap {stack'[v][j].loc, stack'[v][j].src} # {}
             PROVE  Kin(u, i, v, j)'
  BY DEF Exclusive
<1>1. \A w \in Threads : \A l \in DOMAIN stack'[w] :
        \/ w = t /\ l \in m + 1..k
        \/ l \in DOMAIN stack[w] /\ SameShape(stack'[w][l], stack[w][l])
  BY DEF Others, SameShape
<1>2. CASE u = t /\ i \in m + 1..k
  BY <1>2 DEF Apart
<1>3. CASE v = t /\ j \in m + 1..k
  <2>1. Kin(t, j, u, i)'
    BY <1>3 DEF Apart
  <2> QED
    BY <1>3, <2>1 DEF Kin
<1>4. CASE /\ i \in DOMAIN stack[u] /\ SameShape(stack'[u][i], stack[u][i])
           /\ j \in DOMAIN stack[v] /\ SameShape(stack'[v][j], stack[v][j])
  <2>1. Owns(stack'[u][i]) = Owns(stack[u][i])
    BY <1>4 DEF SameShape, Owns
  <2>2. Owns(stack[u][i]) \cap {stack[v][j].loc, stack[v][j].src} # {}
    BY <1>4, <2>1 DEF SameShape
  <2>3. Kin(u, i, v, j)
    BY <1>4, <2>2 DEF Exclusive
  <2> QED
    BY <1>4, <2>3 DEF Kin, SameShape
<1> QED
  BY <1>1, <1>2, <1>3, <1>4

(* A call of the program that uses a variable others may use, or none.     *)
LEMMA SharedApart ==
  ASSUME NEW f, NEW g, g.fn \in Stores \cup {"loadWeak", "dealloc", "initialize"},
         Owns(f) \cap {g.loc, g.src} = {}
  PROVE  Apart(f, g) /\ Apart(g, f)
BY DEF Owns, Apart, Stores

LEMMA OwnsItsOwn ==
  ASSUME NEW f
  PROVE  Owns(f) \subseteq {f.loc, f.src}
BY DEF Owns

(* A call of the program that uses variables nobody uses.                  *)
LEMMA UnusedApart ==
  ASSUME NEW f, NEW g, {g.loc, g.src} \cap {f.loc, f.src} \subseteq {Nil},
         Nil \notin Owns(f), Nil \notin Owns(g)
  PROVE  Apart(f, g) /\ Apart(g, f)
BY OwnsItsOwn DEF Apart

(* What a call owns is a variable.                                         *)
LEMMA OwnsVariables ==
  ASSUME NEW f, Locals(f)
  PROVE  Owns(f) \subseteq Locations /\ Nil \notin Owns(f)
<1>1. Nil \notin Locations
  BY WeakAssumption
<1>2. f.fn \in Inits \cup {"destroyWeak"} => f.loc \in Locations
  BY DEF Locals, Inits
<1>3. f.fn \in Copies => f.loc \in Locations /\ f.src \in Locations
  BY DEF Locals, Copies
<1> QED
  BY <1>1, <1>2, <1>3 DEF Owns, Inits, Copies


(* What a copying call makes for a variable it owns has that variable to   *)
(* itself but for the copying call.                                        *)
LEMMA ChildApart ==
  ASSUME Types, Exclusive, NEW t \in Threads, Nested(t), stack[t] # <<>>,
         Top(t).fn \in Copies,
         NEW g, {g.loc, g.src} \subseteq Owns(Top(t)) \cup {Nil}, Nil \notin Owns(g),
         NEW u \in Threads, NEW j \in DOMAIN stack[u], ~(u = t /\ j = Len(stack[t])),
         Nested(u)
  PROVE  Apart(g, stack[u][j])
<1> DEFINE n == Len(stack[t])
           f == stack[t][n]
<1>1. n \in DOMAIN stack[t] /\ n \in Nat \ {0} /\ Top(t) = f /\ DOMAIN stack[t] = 1..n
  BY Tops
<1>2. ~Kin(t, n, u, j) /\ ~Kin(u, j, t, n)
  <2> SUFFICES ASSUME u = t, j = n - 1, stack[t][j].fn \in Copies PROVE FALSE
    BY <1>1 DEF Kin
  <2>1. Above(stack[t][j], stack[t][j + 1]) /\ stack[t][j + 1] = f
    BY <1>1, Outer
  <2> QED
    BY <1>1, <2>1 DEF Above, Copies, Inits, StoreFns
<1>3. Apart(f, stack[u][j])
  BY <1>1, <1>2 DEF Exclusive, Apart
<1>4. Owns(g) \subseteq Owns(f)
  BY <1>1, OwnsItsOwn
<1>5. Nil \notin Owns(stack[u][j])
  BY OwnsVariables DEF Nested
<1>6. Owns(f) \subseteq {f.loc, f.src}
  BY OwnsItsOwn
<1>7. Owns(g) \cap {stack[u][j].loc, stack[u][j].src} = {}
  BY <1>3, <1>4 DEF Apart
<1>8. Owns(stack[u][j]) \cap {g.loc, g.src} = {}
  BY <1>1, <1>3, <1>5, <1>6 DEF Apart
<1> QED
  BY <1>7, <1>8 DEF Apart

-----------------------------------------------------------------------------
(* What the calls of a thread know, while variables stay as they are       *)

LEMMA VariablesKept ==
  ASSUME NEW t \in Threads, VariablesOf(t), NEW m \in Nat, NEW k \in Nat,
         DOMAIN stack[t] = 1..Len(stack[t]), Len(stack[t]) \in Nat, m <= Len(stack[t]),
         DOMAIN stack'[t] = 1..k, m <= k, Below(t, m), UNCHANGED storage,
         \A i \in m + 1..k : Variables(stack'[t][i]),
         stack'[t] # <<>> => (Top(t)'.pc = "setNil" => ~isWeak[Top(t)'.src])
  PROVE  VariablesOf(t)'
<1>1. \A i \in 1..k : Variables(stack'[t][i])
  <2> SUFFICES ASSUME NEW i \in 1..k PROVE Variables(stack'[t][i])
    OBVIOUS
  <2>1. CASE i \in 1..m
    <3>1. i \in DOMAIN stack[t]
      BY <2>1
    <3>2. Variables(stack[t][i])
      BY <3>1 DEF VariablesOf
    <3> QED
      BY <2>1, <3>2 DEF Below
  <2>2. CASE i \in m + 1..k
    BY <2>2
  <2> QED
    BY <2>1, <2>2
<1>2. \A i \in 1..k : Variables(stack[t][i])'
  BY <1>1 DEF Variables, storage
<1> QED
  BY <1>2 DEF VariablesOf, storage

LEMMA OthersVariables ==
  ASSUME NEW t \in Threads, Others(t), UNCHANGED storage,
         NEW u \in Threads \ {t}, VariablesOf(u)
  PROVE  VariablesOf(u)'
BY DEF VariablesOf, Variables, Others, storage, Top

LEMMA PairsKept ==
  ASSUME NEW f, Pairs(f), UNCHANGED <<storage, table, weakBit>>
  PROVE  Pairs(f)'
BY DEF Pairs, storage

LEMMA OthersPairs ==
  ASSUME NEW t \in Threads, Others(t), UNCHANGED <<storage, table, weakBit>>,
         NEW u \in Threads \ {t}, stack[u] # <<>> => Pairs(Top(u))
  PROVE  stack'[u] # <<>> => Pairs(Top(u))'
BY DEF Pairs, Others, storage, Top

(* No thread gets or gives up a lock but t.                                *)
LocksOfOthers(t) ==
  \A s \in Stripes : \A u \in Threads \ {t} : lock'[s] = u <=> lock[s] = u

LEMMA OthersLocked ==
  ASSUME NEW t \in Threads, Others(t), LocksOfOthers(t),
         NEW u \in Threads \ {t}, Locked(u)
  PROVE  Locked(u)'
<1>1. Holds(u)' = Holds(u)
  BY DEF LocksOfOthers, Holds
<1>2. stack'[u] = stack[u] /\ Top(u)' = Top(u)
  BY DEF Others, Top
<1> QED
  BY <1>1, <1>2 DEF Locked

(* The tables are as they were, and nothing is in progress that was not.   *)
LEMMA TablesKept ==
  ASSUME NEW t \in Threads, TablesAgree, Others(t), UNCHANGED <<storage, table>>,
         stack[t] # <<>> =>
           \A o \in Objects, l \in Locations :
             /\ Moves(Top(t), o, l) => stack'[t] # <<>> /\ Moves(Top(t)', o, l)
             /\ Clears(Top(t), o) => stack'[t] # <<>> /\ Clears(Top(t)', o)
  PROVE  TablesAgree'
<1> SUFFICES ASSUME NEW o \in Objects, NEW l \in Locations,
                    ~(<<o, l>> \in table <=> isWeak[l] /\ value[l] = o)
             PROVE  \E u \in Threads :
                      /\ stack'[u] # <<>>
                      /\ Moves(Top(u), o, l)' \/ (Clears(Top(u), o)' /\ value[l] # o)
  BY DEF TablesAgree, storage
<1>1. PICK u \in Threads : /\ stack[u] # <<>>
                           /\ Moves(Top(u), o, l) \/ (Clears(Top(u), o) /\ value[l] # o)
  BY DEF TablesAgree
<1>2. CASE u = t
  BY <1>1, <1>2 DEF Moves, Clears, Removed, Added
<1>3. CASE u # t
  <2>1. stack'[u] = stack[u] /\ Top(u)' = Top(u)
    BY <1>3 DEF Others, Top
  <2> QED
    BY <1>1, <2>1 DEF Moves, Clears, Removed, Added
<1> QED
  BY <1>2, <1>3

-----------------------------------------------------------------------------
(* A step that keeps the first m calls of t                                *)

Cut(t, m, k) ==
  /\ stack' \in [Threads -> Seq(FrameType)] /\ Others(t) /\ Below(t, m)
  /\ DOMAIN stack[t] = 1..Len(stack[t]) /\ Len(stack[t]) \in Nat
  /\ m \in 0..Len(stack[t]) /\ k \in Nat /\ m <= k
  /\ DOMAIN stack'[t] = 1..k /\ Len(stack'[t]) = k
  /\ stack'[t] # <<>> <=> k > 0
  /\ k > 0 => Top(t)' = stack'[t][k]

(* No frame of the new stack has hold of a lock except t's innermost call. *)
LEMMA CallingKept ==
  ASSUME Types, Calling, NEW t \in Threads, NEW m, NEW k, Cut(t, m, k),
         LocksOfOthers(t), Locked(t)',
         \A i \in m + 1..k :
           /\ Locals(stack'[t][i])
           /\ IF i \in DOMAIN stack[t] THEN SameShape(stack'[t][i], stack[t][i])
              ELSE \A u \in Threads : \A j \in DOMAIN stack'[u] :
                     Apart(stack'[t][i], stack'[u][j]) \/ Kin(t, i, u, j)',
         \A i \in 1..k : i >= m /\ i # k => Above(stack'[t][i], stack'[t][i + 1]),
         k > 0 => stack'[t][k].pc # "load"
  PROVE  Calling'
<1>1. Nested(t)'
  <2>1. Nested(t)
    BY DEF Calling
  <2> QED
    BY <2>1, NestedKept DEF Cut
<1>2. \A u \in Threads \ {t} : Nested(u)' /\ Locked(u)'
  <2> SUFFICES ASSUME NEW u \in Threads \ {t} PROVE Nested(u)' /\ Locked(u)'
    OBVIOUS
  <2>1. Nested(u) /\ Locked(u)
    BY DEF Calling
  <2>2. Others(t)
    BY DEF Cut
  <2>3. stack'[u] = stack[u] /\ Top(u)' = Top(u)
    BY <2>2 DEF Others, Top
  <2> QED
    BY <2>1, <2>2, <2>3, OthersLocked DEF Nested
<1>3. Exclusive'
  <2>1. PICK e \in Nat : e = IF k <= Len(stack[t]) THEN k ELSE Len(stack[t])
    BY DEF Cut
  <2>2. /\ m \in Nat /\ k \in Nat /\ e <= Len(stack[t]) /\ e <= k
        /\ DOMAIN stack[t] = 1..Len(stack[t]) /\ Len(stack[t]) \in Nat
        /\ DOMAIN stack'[t] = 1..k /\ Others(t)
    BY <2>1 DEF Cut
  <2>3. \A i \in 1..m : SameShape(stack'[t][i], stack[t][i])
    BY DEF Cut, Below, SameShape
  <2>4. \A i \in 1..e : SameShape(stack'[t][i], stack[t][i])
    BY <2>1, <2>2, <2>3
  <2>5. \A i \in e + 1..k : \A u \in Threads : \A j \in DOMAIN stack'[u] :
          Apart(stack'[t][i], stack'[u][j]) \/ Kin(t, i, u, j)'
    <3>1. \A i \in e + 1..k : i \notin DOMAIN stack[t] /\ i \in m + 1..k
      BY <2>1, <2>2 DEF Cut
    <3> QED
      BY <3>1
  <2>6. Exclusive
    BY DEF Calling
  <2> QED
    BY <2>2, <2>4, <2>5, <2>6, ExclusiveKept
<1> QED
  BY <1>1, <1>2, <1>3 DEF Calling

LEMMA LockedNow ==
  ASSUME NEW t \in Threads, NEW m, NEW k, Cut(t, m, k)
  PROVE  /\ k > 0 /\ HasLocked(stack'[t][k], Holds(t)') => Locked(t)'
         /\ k = 0 /\ Holds(t)' = {} => Locked(t)'
BY DEF Cut, Locked, HasLocked

LEMMA UnlockAll ==
  ASSUME Types, NEW t \in Threads, Unlock(t)
  PROVE  /\ Holds(t)' = {} /\ LocksOfOthers(t)
         /\ lock' \in [Stripes -> Threads \cup {NoThread}]
BY WeakAssumption DEF Unlock, Types, Holds, LocksOfOthers

LEMMA SameLocks ==
  ASSUME NEW t \in Threads, UNCHANGED lock
  PROVE  Holds(t)' = Holds(t) /\ LocksOfOthers(t)
BY DEF Holds, LocksOfOthers

(* The innermost call goes on.                                             *)
LEMMA Advance ==
  ASSUME Types, Calling, NEW t \in Threads, stack[t] # <<>>, NEW g, Become(t, g),
         Locals(g), SameShape(g, Top(t)), g.pc # "load",
         LocksOfOthers(t), HasLocked(g, Holds(t)'),
         NEW n, n = Len(stack[t])
  PROVE  /\ Calling' /\ Cut(t, n - 1, n) /\ n \in Nat \ {0} /\ stack'[t][n] = g
         /\ stack[t][n] = Top(t)
<1>1. g \in FrameType
  BY DEF Locals
<1>2. n \in Nat \ {0} /\ stack[t][n] = Top(t) /\ DOMAIN stack[t] = 1..n
  BY Tops
<1>3. Cut(t, n - 1, n) /\ stack'[t][n] = g
  BY <1>1, <1>2, BecomeFrames DEF Cut
<1>4. Locked(t)'
  BY <1>2, <1>3, LockedNow
<1>5. \A i \in 1..n : i >= n - 1 /\ i # n => Above(stack'[t][i], stack'[t][i + 1])
  <2> SUFFICES ASSUME NEW i \in 1..n, i >= n - 1, i # n PROVE Above(stack'[t][i], stack'[t][i + 1])
    OBVIOUS
  <2>1. i \in 1..Len(stack[t]) /\ i # Len(stack[t]) /\ i + 1 = n /\ i \in 1..n - 1
    BY <1>2
  <2>2. Above(stack[t][i], stack[t][i + 1])
    BY <2>1, Outer DEF Calling
  <2>3. stack'[t][i] = stack[t][i]
    BY <1>3, <2>1 DEF Cut, Below
  <2> QED
    BY <1>2, <1>3, <2>1, <2>2, <2>3 DEF Above, SameShape
<1>6. \A i \in n - 1 + 1..n : i = n
  BY <1>2
<1> QED
  BY <1>2, <1>3, <1>4, <1>5, <1>6, CallingKept

(* The program may make calls: it holds no locks.                          *)
LEMMA ProgramHolds ==
  ASSUME Types, Calling, NEW t \in Threads, ProgramRuns(t)
  PROVE  /\ Holds(t) = {}
         /\ stack[t] # <<>> => Top(t).fn \in {"dealloc", "initialize"} /\ Top(t).pc = "run"
<1>1. Locked(t)
  BY DEF Calling
<1>2. CASE stack[t] = <<>>
  BY <1>1, <1>2 DEF Locked
<1>3. CASE At(t, {"dealloc", "initialize"}, "run") /\ stack[t] # <<>>
  BY <1>1, <1>3 DEF Locked, HasLocked, InSection, InTables, Registers, At
<1> QED
  BY <1>2, <1>3 DEF ProgramRuns, At

(* The program makes a call.                                               *)
LEMMA Descend ==
  ASSUME Types, Calling, NEW t \in Threads, ProgramRuns(t), NEW g, Enter(t, g),
         Locals(g), g.pc # "load", ~InSection(g), UNCHANGED lock,
         \A u \in Threads : \A j \in DOMAIN stack[u] : Apart(g, stack[u][j]),
         NEW n, n = Len(stack[t])
  PROVE  Calling' /\ Cut(t, n, n + 1) /\ n \in Nat /\ stack'[t][n + 1] = g
<1>1. g \in FrameType
  BY DEF Locals
<1>2. n \in Nat /\ DOMAIN stack[t] = 1..n
  BY Tops
<1>3. Cut(t, n, n + 1) /\ stack'[t][n + 1] = g
  BY <1>1, <1>2, EnterFrames DEF Cut
<1>4. Locked(t)' /\ LocksOfOthers(t)
  <2>1. Holds(t)' = {} /\ LocksOfOthers(t)
    BY ProgramHolds, SameLocks
  <2>2. HasLocked(g, {})
    BY DEF HasLocked, InSection
  <2>3. n + 1 > 0
    BY <1>2
  <2> QED
    BY <1>2, <1>3, <2>1, <2>2, <2>3, LockedNow
<1>5. \A i \in 1..n + 1 : i >= n /\ i # n + 1 => Above(stack'[t][i], stack'[t][i + 1])
  <2> SUFFICES ASSUME NEW i \in 1..n, i >= n PROVE Above(stack'[t][i], stack'[t][i + 1])
    BY <1>2
  <2>1. i = n /\ stack[t] # <<>> /\ stack[t][i] = Top(t)
    BY <1>2, Tops
  <2>2. stack'[t][i] = Top(t)
    BY <1>3, <2>1 DEF Cut, Below
  <2>3. Top(t).fn \in {"dealloc", "initialize"} /\ Top(t).pc = "run"
    BY <2>1, ProgramHolds
  <2> QED
    BY <2>2, <2>3 DEF Above
<1>6. \A u \in Threads : \A j \in DOMAIN stack'[u] :
        Apart(g, stack'[u][j]) \/ Kin(t, n + 1, u, j)'
  <2> SUFFICES ASSUME NEW u \in Threads, NEW j \in DOMAIN stack'[u], ~(u = t /\ j = n + 1)
               PROVE  Apart(g, stack'[u][j])
    BY DEF Kin
  <2>1. j \in DOMAIN stack[u] /\ stack'[u][j] = stack[u][j]
    BY <1>2, <1>3 DEF Cut, Below, Others
  <2> QED
    BY <2>1
<1>7. \A i \in n + 1..n + 1 : i = n + 1 /\ i \notin DOMAIN stack[t]
  BY <1>2
<1> QED
  BY <1>2, <1>3, <1>4, <1>5, <1>6, <1>7, CallingKept

(* The innermost call makes a call of the runtime's own.                   *)
LEMMA Push ==
  ASSUME Types, Calling, NEW t \in Threads, stack[t] # <<>>, NEW f, NEW g, BecomeEnter(t, f, g),
         Locals(f), SameShape(f, Top(t)), Locals(g), g.pc # "load", Above(f, g),
         LocksOfOthers(t), Holds(t)' = {}, ~InSection(g),
         \A u \in Threads : \A j \in DOMAIN stack[u] :
           Apart(g, stack[u][j]) \/ (u = t /\ j = Len(stack[t]) /\ f.fn \in Copies),
         NEW n, n = Len(stack[t])
  PROVE  /\ Calling' /\ Cut(t, n - 1, n + 1) /\ n \in Nat \ {0}
         /\ stack'[t][n] = f /\ stack'[t][n + 1] = g /\ stack[t][n] = Top(t)
<1>1. f \in FrameType /\ g \in FrameType
  BY DEF Locals
<1>2. n \in Nat \ {0} /\ stack[t][n] = Top(t) /\ DOMAIN stack[t] = 1..n
  BY Tops
<1>3. Cut(t, n - 1, n + 1) /\ stack'[t][n] = f /\ stack'[t][n + 1] = g
  BY <1>1, <1>2, BecomeEnterFrames DEF Cut
<1>4. Locked(t)'
  <2>1. HasLocked(g, {}) /\ n + 1 > 0
    BY <1>2 DEF HasLocked, InSection
  <2> QED
    BY <1>3, <2>1, LockedNow
<1>5. \A i \in 1..n + 1 : i >= n - 1 /\ i # n + 1 => Above(stack'[t][i], stack'[t][i + 1])
  <2> SUFFICES ASSUME NEW i \in 1..n, i >= n - 1 PROVE Above(stack'[t][i], stack'[t][i + 1])
    BY <1>2
  <2>1. CASE i = n
    BY <1>3, <2>1
  <2>2. CASE i # n
    <3>1. i \in 1..Len(stack[t]) /\ i # Len(stack[t]) /\ i + 1 = n /\ i \in 1..n - 1
      BY <1>2, <2>2
    <3>2. Above(stack[t][i], stack[t][i + 1])
      BY <3>1, Outer DEF Calling
    <3>3. stack'[t][i] = stack[t][i]
      BY <1>3, <3>1 DEF Cut, Below
    <3> QED
      BY <1>2, <1>3, <3>1, <3>2, <3>3 DEF Above, SameShape
  <2> QED
    BY <2>1, <2>2
<1>6. \A u \in Threads : \A j \in DOMAIN stack'[u] :
        Apart(g, stack'[u][j]) \/ Kin(t, n + 1, u, j)'
  <2> SUFFICES ASSUME NEW u \in Threads, NEW j \in DOMAIN stack'[u], ~(u = t /\ j = n + 1)
               PROVE  Apart(g, stack'[u][j]) \/ Kin(t, n + 1, u, j)'
    BY DEF Kin
  <2>1. j \in DOMAIN stack[u] /\ SameShape(stack'[u][j], stack[u][j])
    <3>1. CASE u # t
      <4>1. stack'[u] = stack[u]
        BY <1>3, <3>1 DEF Cut, Others
      <4> QED
        BY <4>1 DEF SameShape
    <3>2. CASE u = t
      <4>1. DOMAIN stack'[t] = 1..n + 1
        BY <1>3 DEF Cut
      <4>2. j \in 1..n
        BY <1>2, <3>2, <4>1
      <4>3. CASE j = n
        BY <1>2, <1>3, <3>2, <4>2, <4>3
      <4>4. CASE j # n
        <5>1. j \in 1..n - 1
          BY <1>2, <4>2, <4>4
        <5>2. stack'[t][j] = stack[t][j]
          BY <1>3, <5>1 DEF Cut, Below
        <5> QED
          BY <1>2, <3>2, <4>2, <5>2 DEF SameShape
      <4> QED
        BY <4>3, <4>4
    <3> QED
      BY <3>1, <3>2
  <2>2. CASE Apart(g, stack[u][j])
    BY <2>1, <2>2 DEF Apart, SameShape, Owns
  <2>3. CASE u = t /\ j = n /\ f.fn \in Copies
    BY <1>2, <1>3, <2>3 DEF Kin
  <2> QED
    BY <2>1, <2>2, <2>3
<1>7. \A i \in n - 1 + 1..n + 1 :
        (i = n /\ i \in DOMAIN stack[t]) \/ (i = n + 1 /\ i \notin DOMAIN stack[t])
  BY <1>2
<1>8. n + 1 > 0 /\ stack'[t][n + 1].pc # "load"
  BY <1>2, <1>3
<1> QED
  BY <1>2, <1>3, <1>4, <1>5, <1>6, <1>7, <1>8, CallingKept

(* Whose places some of the places are.                                    *)
LEMMA PlacesOf ==
  ASSUME NEW f, Locals(f)
  PROVE  /\ f.fn \notin {"dealloc", "initialize"} => f.loc \in Locations
         /\ f.fn \in Copies => f.src \in Locations
         /\ f.pc \in {"fast", "slow"} => f.fn = "loadWeak"
         /\ f.pc = "setNil" => f.fn = "moveWeak"
         /\ f.pc \in Registers => f.fn \in Stores \cup Inits
         /\ f.pc \in InTables => f.fn \in StoreFns
<1>1. f.fn \in (Functions \cup {"initialize", "dealloc"}) \ {"message"} /\ f.pc \in Places(f.fn)
  BY DEF Locals, FrameType
<1>2. /\ f.fn \notin {"dealloc", "initialize"} => f.loc \in Locations
      /\ f.fn \in Copies => f.src \in Locations
  BY DEF Locals
<1>3. CASE f.fn \in StoreFns
  BY <1>1, <1>2, <1>3 DEF Places, InTables, Registers, Stores, Inits, StoreFns
<1>4. CASE f.fn \in {"loadWeak", "copyWeak", "moveWeak", "dealloc", "initialize"}
  BY <1>1, <1>2, <1>4 DEF Places, InTables, Registers, Stores, Inits, StoreFns
<1> QED
  BY <1>1, <1>2, <1>3, <1>4 DEF Functions, StoreFns

(* A call that is not at a place in a side table knows nothing of tables.  *)
Quiet(f) == f.pc \in {"release", "end", "setNil", "read", "run", "init"}

(* The innermost call returns.                                             *)
LEMMA Ascend ==
  ASSUME Types, Calling, NEW t \in Threads, stack[t] # <<>>, Return(t),
         Top(t).fn # "loadWeak", LocksOfOthers(t), Holds(t)' = {},
         NEW n, n = Len(stack[t])
  PROVE  /\ Calling' /\ Cut(t, n - 1, n - 1) /\ n \in Nat \ {0} /\ stack[t][n] = Top(t)
         /\ n - 1 > 0 => /\ stack'[t][n - 1] = stack[t][n - 1]
                         /\ Quiet(stack[t][n - 1]) /\ Above(stack[t][n - 1], Top(t))
<1>1. n \in Nat \ {0} /\ stack[t][n] = Top(t) /\ DOMAIN stack[t] = 1..n
  BY Tops
<1>2. Cut(t, n - 1, n - 1)
  <2>1. stack'[t] # <<>> <=> n - 1 > 0
    <3>1. stack'[t] \in Seq(FrameType) /\ Len(stack'[t]) = n - 1
      BY ReturnFrames
    <3> QED
      BY <1>1, <3>1, EmptySeq
  <2> QED
    BY <1>1, <2>1, ReturnFrames DEF Cut, Below
<1>3. ASSUME n - 1 > 0
      PROVE  /\ stack'[t][n - 1] = stack[t][n - 1]
             /\ Quiet(stack[t][n - 1]) /\ Above(stack[t][n - 1], Top(t))
  <2>1. n - 1 \in 1..Len(stack[t]) /\ n - 1 # Len(stack[t]) /\ n - 1 + 1 = n /\ n - 1 \in 1..n - 1
    BY <1>1, <1>3
  <2>2. stack'[t][n - 1] = stack[t][n - 1]
    BY <1>2, <2>1 DEF Cut, Below
  <2>3. Above(stack[t][n - 1], stack[t][n - 1 + 1])
    BY <2>1, Outer DEF Calling
  <2>4. Above(stack[t][n - 1], Top(t))
    BY <1>1, <2>1, <2>3
  <2> QED
    BY <2>2, <2>4 DEF Above, Quiet, Inits, StoreFns
<1>4. Locked(t)'
  <2>1. PICK p \in Nat : p = n - 1
    BY <1>1
  <2>2. Cut(t, p, p) /\ (p > 0 => stack'[t][p] = stack[t][p] /\ Quiet(stack[t][p]))
    BY <1>2, <1>3, <2>1
  <2>3. p > 0 => HasLocked(stack[t][p], {})
    BY <2>2 DEF Quiet, HasLocked, InSection, InTables, Registers
  <2>4. p > 0 \/ p = 0
    OBVIOUS
  <2> QED
    BY <2>2, <2>3, <2>4, LockedNow
<1>5. \A i \in n - 1 + 1..n - 1 : FALSE
  BY <1>1
<1>6. \A i \in 1..n - 1 : i >= n - 1 /\ i # n - 1 => FALSE
  BY <1>1
<1>7. n - 1 > 0 => stack'[t][n - 1].pc # "load"
  BY <1>3 DEF Quiet
<1> QED
  BY <1>1, <1>2, <1>3, <1>4, <1>5, <1>6, <1>7, CallingKept

(* A load returns: to the program, or to a call that copies.               *)
LEMMA AscendValue ==
  ASSUME Types, Calling, NEW t \in Threads, stack[t] # <<>>,
         NEW v \in Objects \cup {Nil}, ReturnValue(t, v),
         Top(t).fn = "loadWeak", LocksOfOthers(t), Holds(t)' = {}
  PROVE  /\ Calling'
         /\ \E m \in Nat, k \in Nat :
              /\ Cut(t, m, k)
              /\ \/ /\ k = m
                    /\ k > 0 => /\ stack'[t][k] = stack[t][k] /\ Quiet(stack[t][k])
                                /\ stack[t][k].fn \in {"dealloc", "initialize"}
                 \/ /\ k = m + 1 /\ k \in DOMAIN stack[t]
                    /\ stack[t][k].fn \in Copies /\ stack[t][k].pc = "load"
                    /\ stack'[t][k] = [stack[t][k] EXCEPT !.new = v, !.pc = "init"]
<1>0. PICK n : n = Len(stack[t])
  OBVIOUS
<1>1. n \in Nat \ {0} /\ stack[t][n] = Top(t) /\ DOMAIN stack[t] = 1..n
  BY <1>0, Tops
<1>2. PICK p \in Nat : p = n - 1
  BY <1>1
<1>3. /\ stack' \in [Threads -> Seq(FrameType)] /\ Others(t)
      /\ Len(stack'[t]) = p /\ DOMAIN stack'[t] = 1..p
      /\ \/ /\ stack'[t] # <<>> => p > 0 /\ stack[t][p].fn \notin Copies /\ Top(t)' = stack[t][p]
            /\ Below(t, p)
         \/ /\ p > 0 /\ stack[t][p].fn \in Copies /\ stack'[t] # <<>>
            /\ Top(t)' = [stack[t][p] EXCEPT !.new = v, !.pc = "init"]
            /\ stack'[t][p] = Top(t)'
            /\ Below(t, p - 1)
  BY <1>0, <1>2, ReturnValueFrames
<1>4. stack'[t] # <<>> <=> p > 0
  <2>1. stack'[t] \in Seq(FrameType) /\ Len(stack'[t]) = p
    BY <1>3
  <2> QED
    BY <2>1, EmptySeq
<1>5. p > 0 => /\ Above(stack[t][p], Top(t)) /\ Locals(stack[t][p]) /\ p \in 1..p
               /\ p - 1 > 0 => Above(stack[t][p - 1], stack[t][p]) /\ p - 1 \in 1..p - 1
  <2>1. p > 0 => p \in 1..Len(stack[t]) /\ p # Len(stack[t]) /\ p + 1 = n
    BY <1>0, <1>1, <1>2
  <2>2. p - 1 > 0 => p - 1 \in 1..Len(stack[t]) /\ p - 1 # Len(stack[t]) /\ p - 1 + 1 = p
    BY <1>0, <1>1, <1>2
  <2>3. p > 0 => Above(stack[t][p], stack[t][p + 1])
    BY <2>1, Outer DEF Calling
  <2>4. p - 1 > 0 => Above(stack[t][p - 1], stack[t][p - 1 + 1])
    BY <2>2, Outer DEF Calling
  <2>5. p > 0 => Locals(stack[t][p])
    BY <2>1 DEF Calling, Nested
  <2> QED
    BY <1>1, <2>1, <2>2, <2>3, <2>4, <2>5
<1>6. CASE Below(t, p) /\ (p > 0 => stack[t][p].fn \notin Copies)
  <2>1. Cut(t, p, p) /\ (p > 0 => stack'[t][p] = stack[t][p])
    BY <1>0, <1>1, <1>2, <1>3, <1>4, <1>6 DEF Cut, Below
  <2>2. p > 0 => stack[t][p].fn \in {"dealloc", "initialize"} /\ stack[t][p].pc = "run"
    BY <1>5, <1>6 DEF Above, Inits
  <2>3. Locked(t)'
    <3>1. p > 0 => HasLocked(stack[t][p], {})
      BY <2>2 DEF HasLocked, InSection, InTables, Registers
    <3>2. p > 0 \/ p = 0
      OBVIOUS
    <3> QED
      BY <2>1, <3>1, <3>2, LockedNow
  <2>4. \A i \in p + 1..p : FALSE
    OBVIOUS
  <2>5. \A i \in 1..p : i >= p /\ i # p => FALSE
    OBVIOUS
  <2>6. Calling'
    BY <2>1, <2>2, <2>3, <2>4, <2>5, CallingKept
  <2> QED
    BY <2>1, <2>2, <2>6 DEF Quiet
<1>7. CASE /\ p > 0 /\ stack[t][p].fn \in Copies /\ Below(t, p - 1)
           /\ stack'[t][p] = [stack[t][p] EXCEPT !.new = v, !.pc = "init"]
           /\ Top(t)' = stack'[t][p]
  <2>1. PICK r \in FrameType : r = stack[t][p]
    BY <1>5, <1>7 DEF Locals
  <2>2. PICK g : g = [r EXCEPT !.new = v, !.pc = "init"]
    OBVIOUS
  <2>3. g = stack'[t][p]
    BY <1>7, <2>1, <2>2
  <2>4. r.fn \in Copies /\ r.pc = "load" /\ Locals(r) /\ Above(r, Top(t))
    BY <1>5, <1>7, <2>1 DEF Above, Copies, Inits, StoreFns
  <2>5. /\ g \in FrameType /\ g.pc = "init" /\ SameShape(g, r) /\ g.old = r.old
    BY <2>2, <2>4 DEF FrameType, SameShape
  <2>6. Locals(g)
    BY <2>4, <2>5 DEF Locals, SameShape, Copies, Places, Stores, Inits
  <2>7. Cut(t, p - 1, p)
    BY <1>0, <1>1, <1>2, <1>3, <1>4, <1>7, <2>3 DEF Cut
  <2>8. Locked(t)'
    <3>1. HasLocked(g, {})
      BY <2>5 DEF HasLocked, InSection, InTables, Registers
    <3> QED
      BY <1>7, <2>3, <2>7, <3>1, LockedNow
  <2>9. \A i \in p - 1 + 1..p : i = p /\ i \in DOMAIN stack[t]
    BY <1>1, <1>2, <1>7
  <2>10. \A i \in 1..p : i >= p - 1 /\ i # p => Above(stack'[t][i], stack'[t][i + 1])
    <3> SUFFICES ASSUME p - 1 \in 1..p PROVE Above(stack'[t][p - 1], g)
      BY <2>3
    <3>1. Above(stack[t][p - 1], r) /\ p - 1 \in 1..p - 1
      BY <1>5, <2>1
    <3>2. stack'[t][p - 1] = stack[t][p - 1]
      BY <1>7, <3>1 DEF Below
    <3> QED
      BY <2>5, <3>1, <3>2 DEF Above, SameShape
  <2>11. Calling'
    BY <2>1, <2>3, <2>5, <2>6, <2>7, <2>8, <2>9, <2>10, CallingKept
  <2>12. PICK m \in Nat : m = p - 1
    BY <1>7
  <2>13. Cut(t, m, p) /\ p = m + 1 /\ p \in DOMAIN stack[t]
    BY <1>1, <1>2, <1>7, <2>7, <2>12
  <2>14. stack[t][p].fn \in Copies /\ stack[t][p].pc = "load"
    BY <2>1, <2>4
  <2> QED
    BY <1>7, <2>11, <2>13, <2>14
<1> QED
  BY <1>3, <1>4, <1>6, <1>7

-----------------------------------------------------------------------------
(* References and deallocation                                             *)

LEMMA References ==
  ASSUME Types, NEW t \in Threads, NEW i, NEW o
  PROVE  /\ IsFiniteSet(ReferencesAbove(t, i, o))
         /\ Cardinality(ReferencesAbove(t, i, o)) \in Nat
<1>1. IsFiniteSet(DOMAIN stack[t])
  BY Tops, FS_Interval
<1>2. ReferencesAbove(t, i, o) \subseteq DOMAIN stack[t]
  BY DEF ReferencesAbove
<1> QED
  BY <1>1, <1>2, FS_Subset, FS_CardinalityType

LEMMA FewerReferences ==
  ASSUME Types, NEW t \in Threads, NEW i, NEW o, ReferencesAbove(t, i, o)' \subseteq ReferencesAbove(t, i, o)
  PROVE  /\ Cardinality(ReferencesAbove(t, i, o)') <= Cardinality(ReferencesAbove(t, i, o))
         /\ Cardinality(ReferencesAbove(t, i, o)') \in Nat
BY References, FS_Subset, FS_CardinalityType

(* The innermost call has none above it.                                   *)
LEMMA NoReferences ==
  ASSUME NEW t \in Threads, NEW m, NEW k, Cut(t, m, k), NEW o
  PROVE  ReferencesAbove(t, k, o)' = {} /\ Cardinality(ReferencesAbove(t, k, o)') = 0
<1>1. ReferencesAbove(t, k, o)' = {}
  BY DEF ReferencesAbove, Cut
<1> QED
  BY <1>1, FS_EmptySet

(* A call keeps its object.                                                *)
LEMMA GivenKept ==
  ASSUME NEW t \in Threads, NEW i \in 1..Len(stack[t]), Given(t, i), Below(t, i - 1),
         NEW o, o = stack[t][i].new, stack'[t][i].new = o,
         HaveNew(stack'[t][i]) \/ stack'[t][i].pc \in {"init", "release"}
           => HaveNew(stack[t][i]) \/ stack[t][i].pc \in {"init", "release"},
         OrNil(stack[t][i]) /\ stack[t][i].pc \notin {"setBit", "assign"}
           => OrNil(stack'[t][i]) /\ stack'[t][i].pc \notin {"setBit", "assign"},
         o # Nil /\ Cardinality(ReferencesAbove(t, i, o)) < held[t][o]
           => Cardinality(ReferencesAbove(t, i, o)') < held'[t][o]
  PROVE  Given(t, i)'
BY DEF Given, Below, HaveNew, OrNil

LEMMA OthersGiven ==
  ASSUME NEW t \in Threads, NEW u \in Threads \ {t}, Others(t), held'[u] = held[u],
         NEW i \in DOMAIN stack[u], Given(u, i)
  PROVE  Given(u, i)'
<1>1. stack'[u] = stack[u]
  BY DEF Others
<1>2. \A o : ReferencesAbove(u, i, o)' = ReferencesAbove(u, i, o)
  BY <1>1 DEF ReferencesAbove, HasReference
<1> QED
  BY <1>1, <1>2 DEF Given

(* No object is freed or revived that is being deallocated.                *)
LEMMA DeallocKept ==
  ASSUME OneDealloc, NEW t \in Threads, NEW m, NEW k, Cut(t, m, k),
         \A u \in Threads : \A i \in DOMAIN stack'[u] :
           /\ stack'[u][i].fn = "dealloc" /\ memory[stack'[u][i].old] = "dealloc"
           => memory'[stack'[u][i].old] = "dealloc",
         \A i \in m + 1..k : stack'[t][i].fn = "dealloc" =>
           /\ i \in DOMAIN stack[t] /\ stack[t][i].fn = "dealloc"
           /\ stack'[t][i].old = stack[t][i].old
  PROVE  OneDealloc'
<1>1. \A u \in Threads : \A i \in DOMAIN stack'[u] : stack'[u][i].fn = "dealloc" =>
        /\ i \in DOMAIN stack[u] /\ stack[u][i].fn = "dealloc"
        /\ stack'[u][i].old = stack[u][i].old
  <2> SUFFICES ASSUME NEW u \in Threads, NEW i \in DOMAIN stack'[u],
                      stack'[u][i].fn = "dealloc"
               PROVE  /\ i \in DOMAIN stack[u] /\ stack[u][i].fn = "dealloc"
                      /\ stack'[u][i].old = stack[u][i].old
    OBVIOUS
  <2>1. CASE u # t
    BY <2>1 DEF Cut, Others
  <2>2. CASE u = t /\ i \in 1..m
    BY <2>2 DEF Cut, Below
  <2>3. CASE u = t /\ i \in m + 1..k
    BY <2>3
  <2> QED
    BY <2>1, <2>2, <2>3 DEF Cut
<1>2. \A u \in Threads : \A i \in DOMAIN stack'[u] :
        stack'[u][i].fn = "dealloc" => memory'[stack'[u][i].old] = "dealloc"
  BY <1>1 DEF OneDealloc
<1> QED
  BY <1>1, <1>2 DEF OneDealloc

(* The last reference goes, and the deallocation begins.                   *)
LEMMA DeallocBegins ==
  ASSUME OneDealloc, NEW t \in Threads, NEW m, NEW k, Cut(t, m, k), k > 0,
         NEW o \in Objects, memory \in [Objects -> {"free", "live", "dealloc"}],
         \A u \in Threads : Nested(u),
         memory[o] = "live", memory' = [memory EXCEPT ![o] = "dealloc"],
         stack'[t][k] = DeallocFrame(o),
         \A i \in m + 1..k - 1 : stack'[t][i].fn # "dealloc"
  PROVE  OneDealloc'
<1>1. \A u \in Threads : \A i \in DOMAIN stack'[u] : stack'[u][i].fn = "dealloc" =>
        \/ u = t /\ i = k
        \/ i \in DOMAIN stack[u] /\ stack'[u][i] = stack[u][i]
  <2> SUFFICES ASSUME NEW u \in Threads, NEW i \in DOMAIN stack'[u],
                      stack'[u][i].fn = "dealloc", ~(u = t /\ i = k)
               PROVE  i \in DOMAIN stack[u] /\ stack'[u][i] = stack[u][i]
    OBVIOUS
  <2>1. CASE u # t
    BY <2>1 DEF Cut, Others
  <2>2. CASE u = t /\ i \in 1..m
    BY <2>2 DEF Cut, Below
  <2>3. CASE u = t /\ i \in m + 1..k - 1
    BY <2>3
  <2> QED
    BY <2>1, <2>2, <2>3 DEF Cut
<1>2. stack'[t][k].fn = "dealloc" /\ stack'[t][k].old = o
  BY DEF DeallocFrame, Frame
<1>3. \A u \in Threads : \A i \in DOMAIN stack[u] : stack[u][i].fn = "dealloc" =>
        memory[stack[u][i].old] = "dealloc" /\ stack[u][i].old # o /\ stack[u][i].old \in Objects
  BY DEF OneDealloc, Nested, Locals
<1>4. \A x \in Objects : x # o => memory'[x] = memory[x]
  OBVIOUS
<1>5. memory'[o] = "dealloc"
  OBVIOUS
<1> SUFFICES ASSUME NEW u \in Threads, NEW v \in Threads,
                    NEW i \in DOMAIN stack'[u], NEW j \in DOMAIN stack'[v],
                    stack'[u][i].fn = "dealloc"
             PROVE  /\ memory'[stack'[u][i].old] = "dealloc"
                    /\ stack'[v][j].fn = "dealloc" /\ stack'[v][j].old = stack'[u][i].old
                       => u = v /\ i = j
  BY DEF OneDealloc
<1>6. memory'[stack'[u][i].old] = "dealloc"
  BY <1>1, <1>2, <1>3, <1>4, <1>5
<1>7. ASSUME stack'[v][j].fn = "dealloc", stack'[v][j].old = stack'[u][i].old
      PROVE  u = v /\ i = j
  <2>1. CASE u = t /\ i = k
    BY <1>1, <1>2, <1>3, <1>7, <2>1
  <2>2. CASE v = t /\ j = k
    BY <1>1, <1>2, <1>3, <1>7, <2>2
  <2>3. CASE ~(u = t /\ i = k) /\ ~(v = t /\ j = k)
    BY <1>1, <1>7, <2>3 DEF OneDealloc
  <2> QED
    BY <2>1, <2>2, <2>3
<1> QED
  BY <1>6, <1>7

(* Nobody's references change, and no object's memory.                     *)
LEMMA GivenStays ==
  ASSUME Types, NEW t \in Threads, NEW m, NEW k, Cut(t, m, k), UNCHANGED held,
         \A u \in Threads : \A i \in DOMAIN stack[u] : Given(u, i),
         \A i \in m + 1..k :
           /\ Given(t, i)'
           /\ \A o : HasReference(stack'[t][i], o) =>
                i \in DOMAIN stack[t] /\ HasReference(stack[t][i], o)
  PROVE  \A u \in Threads : \A i \in DOMAIN stack'[u] : Given(u, i)'
<1>1. \A u \in Threads \ {t} : \A i \in DOMAIN stack'[u] : Given(u, i)'
  BY OthersGiven DEF Cut, Others
<1>2. \A i \in 1..m : Given(t, i)'
  <2> SUFFICES ASSUME NEW i \in 1..m PROVE Given(t, i)'
    OBVIOUS
  <2>1. i \in 1..Len(stack[t]) /\ i \in DOMAIN stack[t] /\ Below(t, i - 1)
        /\ stack'[t][i] = stack[t][i]
    BY DEF Cut, Below
  <2>2. Given(t, i)
    BY <2>1
  <2>3. PICK o : o = stack[t][i].new
    OBVIOUS
  <2>4. ReferencesAbove(t, i, o)' \subseteq ReferencesAbove(t, i, o)
    <3> SUFFICES ASSUME NEW j \in DOMAIN stack'[t], j > i, HasReference(stack'[t][j], o)
                 PROVE  j \in DOMAIN stack[t] /\ HasReference(stack[t][j], o)
      BY <2>3 DEF ReferencesAbove, HasReference
    <3>1. CASE j \in 1..m
      BY <3>1 DEF Cut, Below
    <3>2. CASE j \in m + 1..k
      BY <3>2
    <3> QED
      BY <3>1, <3>2 DEF Cut
  <2>5. Cardinality(ReferencesAbove(t, i, o)') <= Cardinality(ReferencesAbove(t, i, o))
    BY <2>4, FewerReferences
  <2>6. PICK a \in Nat : a = Cardinality(ReferencesAbove(t, i, o))
    BY References
  <2>7. PICK b \in Nat : b = Cardinality(ReferencesAbove(t, i, o)')
    BY <2>4, FewerReferences
  <2>8. o # Nil /\ a < held[t][o] => b < held'[t][o]
    <3>1. o \in Objects \cup {Nil}
      BY <2>1, <2>3, Tops DEF FrameType
    <3>2. o # Nil => held[t][o] \in Nat
      BY <3>1 DEF Types
    <3> QED
      BY <2>5, <2>6, <2>7, <3>2
  <2> QED
    BY <2>1, <2>2, <2>3, <2>6, <2>7, <2>8, GivenKept
<1> QED
  BY <1>1, <1>2 DEF Cut

LEMMA CountingKept ==
  ASSUME Types, Counting, NEW t \in Threads, NEW m, NEW k, Cut(t, m, k),
         UNCHANGED <<memory, held>>,
         \A i \in m + 1..k :
           /\ Given(t, i)'
           /\ \A o : HasReference(stack'[t][i], o) =>
                i \in DOMAIN stack[t] /\ HasReference(stack[t][i], o)
           /\ stack'[t][i].fn = "dealloc" =>
                /\ i \in DOMAIN stack[t] /\ stack[t][i].fn = "dealloc"
                /\ stack'[t][i].old = stack[t][i].old
  PROVE  Counting'
<1>1. UNCHANGED held /\ \A u \in Threads : \A i \in DOMAIN stack[u] : Given(u, i)
  BY DEF Counting
<1>2. \A u \in Threads : \A i \in DOMAIN stack'[u] : Given(u, i)'
  BY <1>1, GivenStays
<1>3. OneDealloc'
  BY DeallocKept DEF Counting
<1>4. HeldIsLive'
  BY DEF Counting, HeldIsLive
<1> QED
  BY <1>2, <1>3, <1>4 DEF Counting

-----------------------------------------------------------------------------
(* Steps that change no variable and no table                              *)

LEMMA StoringKept ==
  ASSUME Storing, NEW t \in Threads, NEW m, NEW k, Cut(t, m, k), Types,
         UNCHANGED <<storage, table, weakBit>>,
         \A o \in Objects : memory'[o] = "free" => memory[o] = "free",
         \A i \in m + 1..k : Variables(stack'[t][i]),
         k > 0 => /\ stack'[t][k].pc = "setNil" => ~isWeak[stack'[t][k].src]
                  /\ Pairs(stack'[t][k]),
         stack[t] # <<>> =>
           \A o \in Objects, l \in Locations :
             /\ Moves(Top(t), o, l) => k > 0 /\ Moves(stack'[t][k], o, l)
             /\ Clears(Top(t), o) => k > 0 /\ Clears(stack'[t][k], o)
  PROVE  Storing'
<1>1. VariablesOf(t)'
  <2>1. VariablesOf(t)
    BY DEF Storing
  <2> QED
    BY <2>1, VariablesKept DEF Cut
<1>2. stack'[t] # <<>> => Pairs(Top(t))'
  <2> SUFFICES ASSUME stack'[t] # <<>> PROVE Pairs(Top(t))'
    OBVIOUS
  <2>1. Pairs(stack'[t][k]) /\ Top(t)' = stack'[t][k]
    BY DEF Cut
  <2>2. PICK g : g = stack'[t][k]
    OBVIOUS
  <2>3. Pairs(g)'
    BY <2>1, <2>2, PairsKept
  <2> QED
    BY <2>1, <2>2, <2>3 DEF Pairs
<1>3. \A u \in Threads \ {t} : VariablesOf(u)' /\ (stack'[u] # <<>> => Pairs(Top(u))')
  <2> SUFFICES ASSUME NEW u \in Threads \ {t}
               PROVE  VariablesOf(u)' /\ (stack'[u] # <<>> => Pairs(Top(u))')
    OBVIOUS
  <2>1. VariablesOf(u) /\ (stack[u] # <<>> => Pairs(Top(u))) /\ Others(t)
    BY DEF Storing, Cut
  <2> QED
    BY <2>1, OthersVariables, OthersPairs
<1>4. TablesAgree'
  BY TablesKept DEF Storing, Cut
<1>5. Reachable'
  BY DEF Storing, Reachable, storage, Types
<1> QED
  BY <1>1, <1>2, <1>3, <1>4, <1>5 DEF Storing

(* What a thread knows of its innermost call.                              *)
LEMMA Knows ==
  ASSUME IInv, NEW t \in Threads, stack[t] # <<>>
  PROVE  /\ Types /\ Calling /\ Storing /\ Counting
         /\ Locals(Top(t)) /\ HasLocked(Top(t), Holds(t))
         /\ Variables(Top(t)) /\ Pairs(Top(t)) /\ Given(t, Len(stack[t]))
         /\ Top(t).pc # "load"
         /\ Top(t).pc = "setNil" => ~isWeak[Top(t).src]
<1>1. Types /\ Calling /\ Storing /\ Counting
  BY DEF IInv
<1>2. Len(stack[t]) \in DOMAIN stack[t] /\ Top(t) = stack[t][Len(stack[t])]
  BY <1>1, Tops
<1>3. Locals(Top(t)) /\ Top(t).pc # "load"
  BY <1>1, <1>2 DEF Calling, Nested
<1>4. HasLocked(Top(t), Holds(t))
  BY <1>1 DEF Calling, Locked
<1>5. Variables(Top(t)) /\ Pairs(Top(t)) /\ (Top(t).pc = "setNil" => ~isWeak[Top(t).src])
  BY <1>1, <1>2 DEF Storing, VariablesOf
<1>6. Given(t, Len(stack[t]))
  BY <1>1, <1>2 DEF Counting
<1> QED
  BY <1>1, <1>3, <1>4, <1>5, <1>6

(* The object that the innermost call was given.                           *)
LEMMA TopGiven ==
  ASSUME IInv, NEW t \in Threads, stack[t] # <<>>, Top(t).new # Nil,
         HaveNew(Top(t)) \/ Top(t).pc \in {"init", "release"}
  PROVE  /\ Top(t).new \in Objects
         /\ \/ held[t][Top(t).new] > 0 /\ memory[Top(t).new] = "live"
            \/ /\ OrNil(Top(t)) /\ Top(t).pc \notin {"setBit", "assign"}
               /\ memory[Top(t).new] = "dealloc"
<1> DEFINE n == Len(stack[t])
<1>1. Top(t) = stack[t][n] /\ DOMAIN stack[t] = 1..n /\ n \in Nat \ {0}
  BY Knows, Tops
<1>2. Top(t).new \in Objects /\ Given(t, n) /\ OneDealloc /\ HeldIsLive /\ Types
  BY Knows DEF Locals, FrameType, Counting
<1>3. ReferencesAbove(t, n, Top(t).new) = {}
  BY <1>1 DEF ReferencesAbove
<1>4. Cardinality(ReferencesAbove(t, n, Top(t).new)) = 0
  BY <1>3, FS_EmptySet
<1>5. CASE Cardinality(ReferencesAbove(t, n, stack[t][n].new)) < held[t][stack[t][n].new]
  <2>1. held[t][Top(t).new] \in Nat
    BY <1>2 DEF Types
  <2>2. held[t][Top(t).new] > 0
    BY <1>1, <1>4, <1>5, <2>1
  <2> QED
    BY <1>2, <2>2 DEF HeldIsLive
<1>6. CASE /\ OrNil(stack[t][n]) /\ stack[t][n].pc \notin {"setBit", "assign"}
           /\ \E k \in 1..n - 1 : stack[t][k].fn = "dealloc" /\ stack[t][k].old = stack[t][n].new
  <2>1. PICK k \in 1..n - 1 : stack[t][k].fn = "dealloc" /\ stack[t][k].old = stack[t][n].new
    BY <1>6
  <2>2. k \in DOMAIN stack[t]
    BY <1>1
  <2>3. memory[stack[t][k].old] = "dealloc"
    BY <1>2, <2>1, <2>2 DEF OneDealloc
  <2> QED
    BY <1>1, <1>2, <1>6, <2>1, <2>3
<1> HIDE DEF n
<1> QED
  BY <1>1, <1>2, <1>5, <1>6 DEF Given

(* The innermost call goes on.                                             *)
LEMMA Onward ==
  ASSUME IInv, NEW t \in Threads, stack[t] # <<>>, NEW f, f = Top(t), NEW g, Become(t, g),
         Locals(g), SameShape(g, f), g.new = f.new, g.pc # "load",
         lock' \in [Stripes -> Threads \cup {NoThread}], LocksOfOthers(t),
         HasLocked(g, Holds(t)'),
         class' \in [Objects -> {"no", "initializing", "defaultRR", "initialized"}],
         UNCHANGED <<storage, table, objects>>,
         Variables(g), Pairs(g), g.pc = "setNil" => ~isWeak[g.src],
         g.pc \in {"init", "release"} => f.pc \in {"init", "release"},
         HaveNew(g) => g.pc \notin {"setBit", "assign"},
         g.fn = "dealloc" => g.old = f.old,
         \A o \in Objects, l \in Locations :
           (Moves(f, o, l) => Moves(g, o, l)) /\ (Clears(f, o) => Clears(g, o))
  PROVE  IInv'
<1>0. PICK n : n = Len(stack[t])
  OBVIOUS
<1>1. Types /\ Calling /\ Storing /\ Counting
  BY DEF IInv
<1>2. /\ Calling' /\ Cut(t, n - 1, n) /\ n \in Nat \ {0} /\ stack'[t][n] = g
      /\ stack[t][n] = f
  BY <1>0, <1>1, Advance
<1>3. Types'
  BY <1>1, <1>2 DEF Types, Cut, storage, objects
<1>4. \A i \in n - 1 + 1..n : i = n /\ i \in DOMAIN stack[t]
  BY <1>0, <1>2 DEF Cut
<1>5. Storing'
  <2>1. /\ \A i \in n - 1 + 1..n : Variables(stack'[t][i])
        /\ n > 0
        /\ UNCHANGED <<storage, table, weakBit, memory>>
    BY <1>2, <1>4 DEF objects
  <2> QED
    BY <1>1, <1>2, <2>1, StoringKept
<1>6. Given(t, n)'
  <2>1. Given(t, n) /\ Below(t, n - 1) /\ n \in 1..Len(stack[t])
    BY <1>0, <1>1, <1>2, <1>4 DEF Counting, Cut
  <2>2. PICK o : o = f.new
    OBVIOUS
  <2>3. ReferencesAbove(t, n, o) = {} /\ ReferencesAbove(t, n, o)' = {}
    BY <1>0, <1>2, NoReferences DEF ReferencesAbove, Cut
  <2>4. held' = held
    BY DEF objects
  <2>5. HaveNew(g) => HaveNew(f)
    BY DEF HaveNew, SameShape
  <2>6. OrNil(f) => OrNil(g) /\ g.pc \notin {"setBit", "assign"}
    BY DEF HaveNew, OrNil, SameShape
  <2>7. /\ HaveNew(stack'[t][n]) \/ stack'[t][n].pc \in {"init", "release"}
           => HaveNew(stack[t][n]) \/ stack[t][n].pc \in {"init", "release"}
        /\ OrNil(stack[t][n]) /\ stack[t][n].pc \notin {"setBit", "assign"}
           => OrNil(stack'[t][n]) /\ stack'[t][n].pc \notin {"setBit", "assign"}
    BY <1>2, <2>5, <2>6
  <2>8. /\ o = stack[t][n].new /\ stack'[t][n].new = o
        /\ Cardinality(ReferencesAbove(t, n, o)) < held[t][o]
           => Cardinality(ReferencesAbove(t, n, o)') < held'[t][o]
    BY <1>2, <2>2, <2>3, <2>4
  <2> QED
    BY <2>1, <2>7, <2>8, GivenKept
<1>7. Counting'
  <2>1. UNCHANGED <<memory, held>>
    BY DEF objects
  <2>2. \A o : HasReference(g, o) => HasReference(f, o)
    BY DEF HasReference, SameShape
  <2>3. g.fn = f.fn
    BY DEF SameShape
  <2> QED
    BY <1>1, <1>2, <1>4, <1>6, <2>1, <2>2, <2>3, CountingKept
<1> QED
  BY <1>2, <1>3, <1>5, <1>7 DEF IInv

-----------------------------------------------------------------------------
(* One lemma for each action: the steps that move one call on              *)

LEMMA ReadOldStep ==
  ASSUME IInv, NEW t \in Threads, ReadOld(t)
  PROVE  IInv'
<1>1. PICK f \in FrameType : f = Top(t) /\ stack[t] # <<>> /\ f.fn \in StoreFns /\ f.pc = "read"
  BY Knows DEF ReadOld, At, Locals
<1>2. Types /\ Locals(f) /\ Variables(f) /\ HasLocked(f, Holds(t))
  BY <1>1, Knows
<1>3. PICK v : v = IF HaveOld(f) THEN value[f.loc] ELSE Nil
  OBVIOUS
<1>4. PICK g : g = [f EXCEPT !.pc = "lock", !.old = v]
  OBVIOUS
<1>5. Become(t, g) /\ UNCHANGED <<storage, table, objects, class, lock>>
  BY <1>1, <1>3, <1>4 DEF ReadOld
<1>6. f.loc \in Locations /\ v \in Objects \cup {Nil} /\ (f.fn \in Inits => v = Nil)
  BY <1>1, <1>2, <1>3 DEF Locals, Types, HaveOld, Inits, StoreFns
<1>7. /\ g \in FrameType /\ g.fn = f.fn /\ g.loc = f.loc /\ g.src = f.src /\ g.new = f.new
      /\ g.pc = "lock" /\ g.old = v
  BY <1>4, <1>6 DEF FrameType
<1>8. Locals(g)
  BY <1>1, <1>2, <1>6, <1>7 DEF Locals, Places, Stores, Inits, Copies, StoreFns
<1>9. Variables(g) /\ Pairs(g)
  BY <1>1, <1>2, <1>7 DEF Variables, Pairs, HaveOld, HaveNew, InTables, Registers, StoreFns
<1>10. HasLocked(g, Holds(t)') /\ LocksOfOthers(t)
  <2>1. Holds(t)' = {} /\ LocksOfOthers(t)
    BY <1>1, <1>2, <1>5, SameLocks DEF HasLocked, InSection, InTables, Registers
  <2>2. Wanted(g) # {}
    BY <1>1, <1>7 DEF Wanted, HaveNew, StoreFns
  <2> QED
    BY <1>7, <2>1, <2>2 DEF HasLocked
<1>11. \A o \in Objects, l \in Locations : ~Moves(f, o, l) /\ ~Clears(f, o)
  BY <1>1 DEF Moves, Removed, Added, Clears, Registers
<1>12. SameShape(g, f)
  BY <1>7 DEF SameShape
<1>13. /\ lock' \in [Stripes -> Threads \cup {NoThread}]
       /\ class' \in [Objects -> {"no", "initializing", "defaultRR", "initialized"}]
  BY <1>2, <1>5 DEF Types
<1>14. g.fn # "dealloc"
  BY <1>1, <1>7 DEF StoreFns
<1> QED
  BY <1>1, <1>5, <1>7, <1>8, <1>9, <1>10, <1>11, <1>12, <1>13, <1>14, Onward

LEMMA LoadCheckStep ==
  ASSUME IInv, NEW t \in Threads, LoadCheck(t)
  PROVE  IInv'
<1>1. PICK f \in FrameType : f = Top(t) /\ stack[t] # <<>> /\ f.fn = "loadWeak" /\ f.pc = "check"
  BY Knows DEF LoadCheck, At, Locals
<1>2. Types /\ Locals(f) /\ Variables(f) /\ HasLocked(f, Holds(t))
  BY <1>1, Knows
<1>3. PICK p \in {"read", "slow", "fast"} :
        /\ Goto(t, p)
        /\ \/ p = "read" /\ Unlock(t)
           \/ p # "read" /\ UNCHANGED lock /\ value[f.loc] = f.old
  BY <1>1 DEF LoadCheck
<1>4. PICK g : g = [f EXCEPT !.pc = p]
  OBVIOUS
<1>5. Become(t, g) /\ UNCHANGED <<storage, table, objects, class>>
  BY <1>1, <1>3, <1>4 DEF LoadCheck, Goto
<1>6. /\ g \in FrameType /\ g.fn = f.fn /\ g.loc = f.loc /\ g.src = f.src /\ g.new = f.new
      /\ g.pc = p /\ g.old = f.old
  BY <1>3, <1>4 DEF FrameType
<1>7. Locals(g)
  BY <1>1, <1>2, <1>3, <1>6 DEF Locals, Places, Stores, Inits, Copies
<1>8. Variables(g) /\ Pairs(g)
  BY <1>1, <1>2, <1>3, <1>6
  DEF Variables, Pairs, HaveOld, HaveNew, InTables, Registers, Stores, Inits, Copies
<1>9. /\ HasLocked(g, Holds(t)') /\ LocksOfOthers(t)
      /\ lock' \in [Stripes -> Threads \cup {NoThread}]
  <2>1. CASE p = "read" /\ Unlock(t)
    BY <1>2, <1>6, <2>1, UnlockAll DEF HasLocked, InSection, InTables, Registers
  <2>2. CASE p # "read" /\ UNCHANGED lock
    <3>1. Holds(t)' = Holds(t) /\ LocksOfOthers(t) /\ lock' \in [Stripes -> Threads \cup {NoThread}]
      BY <1>2, <2>2, SameLocks DEF Types
    <3> QED
      BY <1>1, <1>2, <1>3, <1>6, <2>2, <3>1
      DEF HasLocked, InSection, InTables, Registers, HaveNew, Inits
  <2> QED
    BY <1>3, <2>1, <2>2
<1>10. \A o \in Objects, l \in Locations : ~Moves(f, o, l) /\ ~Clears(f, o)
  BY <1>1 DEF Moves, Clears, StoreFns
<1>11. SameShape(g, f)
  BY <1>6 DEF SameShape
<1>12. class' \in [Objects -> {"no", "initializing", "defaultRR", "initialized"}]
  BY <1>2, <1>5 DEF Types
<1> QED
  BY <1>1, <1>3, <1>5, <1>6, <1>7, <1>8, <1>9, <1>10, <1>11, <1>12, Onward

LEMMA RootDeallocStep ==
  ASSUME IInv, NEW t \in Threads, RootDealloc(t)
  PROVE  IInv'
<1>1. PICK f \in FrameType : f = Top(t) /\ stack[t] # <<>> /\ f.fn = "dealloc" /\ f.pc = "run"
  BY Knows DEF RootDealloc, At, Locals
<1>2. Types /\ Locals(f) /\ HasLocked(f, Holds(t)) /\ Reachable
  BY <1>1, Knows DEF Storing
<1>3. PICK p \in {"lock", "free"} : Goto(t, p) /\ (p = "free" => ~weakBit[f.old])
  BY <1>1 DEF RootDealloc
<1>4. PICK g : g = [f EXCEPT !.pc = p]
  OBVIOUS
<1>5. Become(t, g) /\ UNCHANGED <<storage, table, objects, class, lock>>
  BY <1>1, <1>3, <1>4 DEF RootDealloc, Goto
<1>6. /\ g \in FrameType /\ g.fn = f.fn /\ g.loc = f.loc /\ g.src = f.src /\ g.new = f.new
      /\ g.pc = p /\ g.old = f.old
  BY <1>3, <1>4 DEF FrameType
<1>7. Locals(g)
  BY <1>1, <1>2, <1>3, <1>6 DEF Locals, Places, Stores, Inits, Copies
<1>8. Variables(g)
  BY <1>1, <1>3, <1>6 DEF Variables, HaveOld, InTables, Registers, Stores, Inits, Copies
<1>9. Pairs(g)
  <2>1. f.old \in Objects /\ Nil \notin Objects
    BY <1>1, <1>2, WeakAssumption DEF Locals
  <2>2. p = "free" => \A l \in Locations : ~(isWeak[l] /\ value[l] = f.old)
    BY <1>2, <1>3, <2>1 DEF Reachable
  <2> QED
    BY <1>1, <1>3, <1>6, <2>2 DEF Pairs, HaveOld, HaveNew, Registers
<1>10. HasLocked(g, Holds(t)') /\ LocksOfOthers(t)
  <2>1. Holds(t)' = {} /\ LocksOfOthers(t)
    BY <1>1, <1>2, <1>5, SameLocks DEF HasLocked, InSection, InTables, Registers
  <2>2. Wanted(g) # {}
    BY <1>1, <1>6 DEF Wanted
  <2> QED
    BY <1>3, <1>6, <2>1, <2>2 DEF HasLocked, InSection, InTables, Registers
<1>11. \A o \in Objects, l \in Locations : ~Moves(f, o, l) /\ ~Clears(f, o)
  BY <1>1 DEF Moves, Clears, StoreFns
<1>12. SameShape(g, f)
  BY <1>6 DEF SameShape
<1>13. /\ lock' \in [Stripes -> Threads \cup {NoThread}]
       /\ class' \in [Objects -> {"no", "initializing", "defaultRR", "initialized"}]
  BY <1>2, <1>5 DEF Types
<1> QED
  BY <1>1, <1>3, <1>5, <1>6, <1>7, <1>8, <1>9, <1>10, <1>11, <1>12, <1>13, Onward

-----------------------------------------------------------------------------
(* Calls and returns that change no variable, no table and no reference    *)

LEMMA QuietPairs ==
  ASSUME NEW f, Quiet(f) \/ f.pc = "enter"
  PROVE  Pairs(f) /\ \A o, l : ~Moves(f, o, l) /\ ~Clears(f, o)
BY DEF Quiet, Pairs, Moves, Clears, Removed, Added, Registers

(* The innermost call returns.                                             *)
LEMMA Back ==
  ASSUME IInv, NEW t \in Threads, stack[t] # <<>>, NEW f, f = Top(t), Return(t),
         f.fn \notin {"loadWeak", "destroyWeak"},
         lock' \in [Stripes -> Threads \cup {NoThread}], LocksOfOthers(t), Holds(t)' = {},
         class' \in [Objects -> {"no", "initializing", "defaultRR", "initialized"}],
         UNCHANGED <<storage, table, objects>>,
         \A o \in Objects, l \in Locations : ~Moves(f, o, l) /\ ~Clears(f, o)
  PROVE  IInv'
<1>0. PICK n : n = Len(stack[t])
  OBVIOUS
<1>1. Types /\ Calling /\ Storing /\ Counting
  BY DEF IInv
<1>2. /\ Calling' /\ Cut(t, n - 1, n - 1) /\ n \in Nat \ {0}
      /\ n - 1 > 0 => /\ stack'[t][n - 1] = stack[t][n - 1]
                      /\ Quiet(stack[t][n - 1]) /\ Above(stack[t][n - 1], f)
  BY <1>0, <1>1, Ascend
<1>3. Types'
  BY <1>1, <1>2 DEF Types, Cut, storage, objects
<1>4. \A i \in n - 1 + 1..n - 1 : FALSE
  BY <1>2
<1>5. Storing'
  <2>1. UNCHANGED <<storage, table, weakBit, memory>>
    BY DEF objects
  <2>2. n - 1 > 0 => stack'[t][n - 1].pc # "setNil" /\ Pairs(stack'[t][n - 1])
    BY <1>2, QuietPairs DEF Above, Copies
  <2> QED
    BY <1>1, <1>2, <1>4, <2>1, <2>2, StoringKept
<1>6. Counting'
  <2>1. UNCHANGED <<memory, held>>
    BY DEF objects
  <2> QED
    BY <1>1, <1>2, <1>4, <2>1, CountingKept
<1> QED
  BY <1>2, <1>3, <1>5, <1>6 DEF IInv

(* The program makes a call.                                               *)
LEMMA Called ==
  ASSUME IInv, NEW t \in Threads, ProgramRuns(t), NEW g, Enter(t, g),
         Locals(g), g.pc \in {"read", "enter"},
         \A u \in Threads : \A j \in DOMAIN stack[u] : Apart(g, stack[u][j]),
         UNCHANGED <<storage, table, objects, class, lock>>,
         Variables(g), g.fn # "dealloc",
         g.new # Nil /\ HaveNew(g) =>
           \/ held[t][g.new] > 0
           \/ /\ OrNil(g)
              /\ \E i \in DOMAIN stack[t] : stack[t][i].fn = "dealloc" /\ stack[t][i].old = g.new
  PROVE  IInv'
<1>0. PICK n : n = Len(stack[t])
  OBVIOUS
<1>1. Types /\ Calling /\ Storing /\ Counting
  BY DEF IInv
<1>2. Calling' /\ Cut(t, n, n + 1) /\ n \in Nat /\ stack'[t][n + 1] = g
  <2>1. g.pc # "load" /\ ~InSection(g)
    BY DEF InSection, InTables, Registers
  <2> QED
    BY <1>0, <1>1, <2>1, Descend
<1>3. Types'
  BY <1>1, <1>2 DEF Types, Cut, storage, objects
<1>4. \A i \in n + 1..n + 1 : i = n + 1
  BY <1>2
<1>5. Storing'
  <2>1. UNCHANGED <<storage, table, weakBit, memory>>
    BY DEF objects
  <2>2. Pairs(g)
    BY QuietPairs DEF Quiet
  <2>3. stack[t] # <<>> => Quiet(Top(t))
    BY <1>1, ProgramHolds DEF Quiet
  <2>4. stack[t] # <<>> => \A o, l : ~Moves(Top(t), o, l) /\ ~Clears(Top(t), o)
    BY <2>3, QuietPairs
  <2>5. /\ \A i \in n + 1..n + 1 : Variables(stack'[t][i])
        /\ stack'[t][n + 1].pc # "setNil" /\ Pairs(stack'[t][n + 1])
    BY <1>2, <1>4, <2>2
  <2> QED
    BY <1>1, <1>2, <2>1, <2>4, <2>5, StoringKept
<1>6. Given(t, n + 1)'
  <2>1. Cardinality(ReferencesAbove(t, n + 1, g.new)') = 0
    BY <1>2, NoReferences
  <2>2. held' = held
    BY DEF objects
  <2>3. ASSUME NEW i \in DOMAIN stack[t], stack[t][i].fn = "dealloc", stack[t][i].old = g.new
        PROVE  \E k \in 1..n + 1 - 1 : stack'[t][k].fn = "dealloc" /\ stack'[t][k].old = g.new
    <3>1. i \in 1..n /\ i \in 1..n + 1 - 1
      BY <1>0, <1>2 DEF Cut
    <3>2. stack'[t][i] = stack[t][i]
      BY <1>2, <3>1 DEF Cut, Below
    <3> QED
      BY <2>3, <3>1, <3>2
  <2>4. g.pc \notin {"setBit", "assign", "init", "release"}
    OBVIOUS
  <2>5. ASSUME g.new # Nil, HaveNew(g)
        PROVE  \/ Cardinality(ReferencesAbove(t, n + 1, g.new)') < held'[t][g.new]
               \/ /\ OrNil(g) /\ g.pc \notin {"setBit", "assign"}
                  /\ \E k \in 1..n + 1 - 1 : stack'[t][k].fn = "dealloc" /\ stack'[t][k].old = g.new
    BY <2>1, <2>2, <2>3, <2>4, <2>5
  <2> QED
    BY <1>2, <2>4, <2>5 DEF Given, HaveNew, OrNil
<1>7. Counting'
  <2>1. UNCHANGED <<memory, held>>
    BY DEF objects
  <2>2. \A o : ~HasReference(g, o)
    BY DEF HasReference
  <2> QED
    BY <1>1, <1>2, <1>4, <1>6, <2>1, <2>2, CountingKept
<1> QED
  BY <1>2, <1>3, <1>5, <1>7 DEF IInv

(* The innermost call makes another one, and will go on at f1.             *)
LEMMA CallsOn ==
  ASSUME IInv, NEW t \in Threads, stack[t] # <<>>, NEW f, f = Top(t), NEW f1, NEW g,
         BecomeEnter(t, f1, g),
         Locals(f1), SameShape(f1, f), f1.new = f.new, Quiet(f1),
         Locals(g), g.pc \in {"read", "enter"}, Above(f1, g),
         lock' \in [Stripes -> Threads \cup {NoThread}], LocksOfOthers(t), Holds(t)' = {},
         \A u \in Threads : \A j \in DOMAIN stack[u] :
           Apart(g, stack[u][j]) \/ (u = t /\ j = Len(stack[t]) /\ f1.fn \in Copies),
         UNCHANGED <<storage, table, objects, class>>,
         Variables(f1), Variables(g),
         f1.pc \in {"init", "release"} => f.pc \in {"init", "release"},
         f.fn # "dealloc", g.fn # "dealloc",
         g.new # Nil /\ HaveNew(g) => held[t][g.new] > 0,
         \A o \in Objects, l \in Locations : ~Moves(f, o, l) /\ ~Clears(f, o)
  PROVE  IInv'
<1>0. PICK n : n = Len(stack[t])
  OBVIOUS
<1>1. Types /\ Calling /\ Storing /\ Counting
  BY DEF IInv
<1>2. /\ Calling' /\ Cut(t, n - 1, n + 1) /\ n \in Nat \ {0}
      /\ stack'[t][n] = f1 /\ stack'[t][n + 1] = g /\ stack[t][n] = f
  <2>1. g.pc # "load" /\ ~InSection(g)
    BY DEF InSection, InTables, Registers
  <2> QED
    BY <1>0, <1>1, <2>1, Push
<1>3. Types'
  BY <1>1, <1>2 DEF Types, Cut, storage, objects
<1>4. \A i \in n - 1 + 1..n + 1 : (i = n /\ i \in DOMAIN stack[t]) \/ i = n + 1
  BY <1>0, <1>2 DEF Cut
<1>5. Storing'
  <2>1. UNCHANGED <<storage, table, weakBit, memory>>
    BY DEF objects
  <2>2. Pairs(g)
    BY QuietPairs DEF Quiet
  <2>3. /\ \A i \in n - 1 + 1..n + 1 : Variables(stack'[t][i])
        /\ stack'[t][n + 1].pc # "setNil" /\ Pairs(stack'[t][n + 1])
    BY <1>2, <1>4, <2>2
  <2> QED
    BY <1>1, <1>2, <2>1, <2>3, StoringKept
<1>6. Given(t, n + 1)'
  <2>1. Cardinality(ReferencesAbove(t, n + 1, g.new)') = 0
    BY <1>2, NoReferences
  <2>2. held' = held
    BY DEF objects
  <2>3. g.new # Nil /\ HaveNew(g) => Cardinality(ReferencesAbove(t, n + 1, g.new)') < held'[t][g.new]
    BY <2>1, <2>2
  <2>4. g.pc \notin {"init", "release"}
    OBVIOUS
  <2> QED
    BY <1>2, <2>3, <2>4 DEF Given, HaveNew
<1>7. Given(t, n)'
  <2>1. Given(t, n) /\ Below(t, n - 1) /\ n \in 1..Len(stack[t])
    BY <1>0, <1>1, <1>2, <1>4 DEF Counting, Cut, Below
  <2>2. PICK o : o = f.new
    OBVIOUS
  <2>3. ReferencesAbove(t, n, o) = {} /\ ReferencesAbove(t, n, o)' = {}
    <3>1. ReferencesAbove(t, n, o) = {}
      BY <1>0, <1>2 DEF ReferencesAbove, Cut
    <3>2. ~HasReference(g, o)
      BY DEF HasReference
    <3>3. DOMAIN stack'[t] = 1..n + 1
      BY <1>2 DEF Cut
    <3>4. \A j \in 1..n + 1 : j > n => j = n + 1
      BY <1>2
    <3> QED
      BY <1>2, <3>1, <3>2, <3>3, <3>4 DEF ReferencesAbove, HasReference
  <2>4. held' = held
    BY DEF objects
  <2>5. /\ HaveNew(stack'[t][n]) \/ stack'[t][n].pc \in {"init", "release"}
           => HaveNew(stack[t][n]) \/ stack[t][n].pc \in {"init", "release"}
        /\ OrNil(stack[t][n]) /\ stack[t][n].pc \notin {"setBit", "assign"}
           => OrNil(stack'[t][n]) /\ stack'[t][n].pc \notin {"setBit", "assign"}
    BY <1>2 DEF HaveNew, OrNil, SameShape, Quiet
  <2>6. /\ o = stack[t][n].new /\ stack'[t][n].new = o
        /\ Cardinality(ReferencesAbove(t, n, o)) < held[t][o]
           => Cardinality(ReferencesAbove(t, n, o)') < held'[t][o]
    BY <1>2, <2>2, <2>3, <2>4
  <2> QED
    BY <2>1, <2>5, <2>6, GivenKept
<1>8. Counting'
  <2>1. UNCHANGED <<memory, held>>
    BY DEF objects
  <2>2. \A o : ~HasReference(g, o) /\ (HasReference(f1, o) => HasReference(f, o))
    BY DEF HasReference, SameShape
  <2>3. f1.fn # "dealloc"
    BY DEF SameShape
  <2> QED
    BY <1>1, <1>2, <1>4, <1>6, <1>7, <2>1, <2>2, <2>3, CountingKept
<1> QED
  BY <1>2, <1>3, <1>5, <1>8 DEF IInv

-----------------------------------------------------------------------------
(* The order of the side tables                                            *)

LEMMA LeastOfTwo ==
  ASSUME NEW a \in Nat, NEW b \in Nat, NEW S, S \subseteq {a, b}, S # {}
  PROVE  Min(S) \in S /\ \A x \in S : Min(S) <= x
<1>1. \E x \in S : \A y \in S : x <= y
  <2>1. CASE a \in S /\ b \in S /\ a <= b
    BY <2>1
  <2>2. CASE a \in S /\ b \in S /\ b <= a
    BY <2>2
  <2>3. CASE a \in S /\ b \notin S
    BY <2>3
  <2>4. CASE b \in S /\ a \notin S
    BY <2>4
  <2>5. a \in S \/ b \in S
    <3>1. PICK x : x \in S
      OBVIOUS
    <3> QED
      BY <3>1
  <2> QED
    BY <2>1, <2>2, <2>3, <2>4, <2>5
<1> QED
  BY <1>1 DEF Min

LEMMA WantedStripes ==
  ASSUME NEW f \in FrameType
  PROVE  /\ Wanted(f) \subseteq {Stripe[f.new], Stripe[f.old]} /\ Wanted(f) \subseteq Stripes
         /\ Stripe[f.new] \in Nat /\ Stripe[f.old] \in Nat
<1>1. f.new \in Objects \cup {Nil} /\ f.old \in Objects \cup {Nil}
  BY DEF FrameType
<1> QED
  BY <1>1, WeakAssumption DEF Wanted, Stripes

(* The next lock is the lowest of those that are wanted.                   *)
LEMMA NextLocks ==
  ASSUME IInv, NEW t \in Threads, stack[t] # <<>>, Top(t).pc = "lock"
  PROVE  /\ NextLock(t) \in Wanted(Top(t)) \ Holds(t) /\ NextLock(t) \in Stripes
         /\ NextLock(t) \in Nat
         /\ \A w \in Wanted(Top(t)) \ Holds(t) : NextLock(t) <= w
<1>1. Top(t) \in FrameType /\ HasLocked(Top(t), Holds(t))
  BY Knows DEF Locals
<1>2. Wanted(Top(t)) \ Holds(t) # {}
  BY <1>1 DEF HasLocked
<1>3. /\ Wanted(Top(t)) \ Holds(t) \subseteq {Stripe[Top(t).new], Stripe[Top(t).old]}
      /\ Stripe[Top(t).new] \in Nat /\ Stripe[Top(t).old] \in Nat
      /\ Wanted(Top(t)) \subseteq Stripes
  BY <1>1, WantedStripes
<1> QED
  BY <1>2, <1>3, LeastOfTwo DEF NextLock

(* The stack of t stays as it is.                                          *)
LEMMA SameStack ==
  ASSUME Types, NEW t \in Threads, UNCHANGED stack, NEW n, n = Len(stack[t])
  PROVE  Cut(t, n, n)
<1>1. /\ stack[t] \in Seq(FrameType) /\ Len(stack[t]) \in Nat
      /\ DOMAIN stack[t] = 1..Len(stack[t])
      /\ stack[t] # <<>> <=> Len(stack[t]) > 0
      /\ stack[t] # <<>> => Top(t) = stack[t][Len(stack[t])]
  BY Tops
<1>2. Top(t)' = Top(t)
  BY DEF Top
<1> QED
  BY <1>1, <1>2 DEF Cut, Types, Others, Below

LEMMA LockTwoStep ==
  ASSUME IInv, NEW t \in Threads, LockTwo(t)
  PROVE  IInv'
<1>1. PICK f \in FrameType : /\ f = Top(t) /\ stack[t] # <<>> /\ f.pc = "lock"
                             /\ f.fn \in StoreFns \cup {"loadWeak", "dealloc"}
  BY Knows DEF LockTwo, At, Locals
<1>2. /\ Types /\ Calling /\ Storing /\ Counting
      /\ Locals(f) /\ Variables(f) /\ HasLocked(f, Holds(t))
  BY <1>1, Knows
<1>3. PICK w \in Stripes : w = NextLock(t)
  BY <1>1, NextLocks
<1>4. /\ w \in Wanted(f) \ Holds(t) /\ w \in Nat
      /\ \A x \in Wanted(f) \ Holds(t) : w <= x
  BY <1>1, <1>3, NextLocks
<1>5. /\ lock[w] = NoThread /\ lock' = [lock EXCEPT ![w] = t]
      /\ UNCHANGED <<storage, table, objects, class>>
  BY <1>3 DEF LockTwo
<1>6. /\ LocksOfOthers(t) /\ Holds(t)' = Holds(t) \cup {w}
      /\ lock' \in [Stripes -> Threads \cup {NoThread}]
  BY <1>2, <1>5, WeakAssumption DEF Types, LocksOfOthers, Holds
<1>7. CASE Wanted(f) \subseteq Holds(t) \cup {w}
  <2>1. PICK g : g = [f EXCEPT !.pc = "check"]
    OBVIOUS
  <2>2. Become(t, g)
    BY <1>1, <1>3, <1>7, <2>1 DEF LockTwo, Goto
  <2>3. /\ g \in FrameType /\ g.fn = f.fn /\ g.loc = f.loc /\ g.src = f.src /\ g.new = f.new
        /\ g.pc = "check" /\ g.old = f.old
    BY <2>1 DEF FrameType
  <2>4. Locals(g)
    BY <1>1, <1>2, <2>3 DEF Locals, Places, Stores, Inits, Copies, StoreFns
  <2>5. Variables(g) /\ Pairs(g)
    BY <1>1, <1>2, <2>3
    DEF Variables, Pairs, HaveOld, HaveNew, InTables, Registers, Stores, Inits, Copies, StoreFns
  <2>6. HasLocked(g, Holds(t)')
    <3>1. f.fn \notin Inits => Stripe[f.old] \in Wanted(f)
      BY DEF Wanted, Inits
    <3>2. HaveNew(f) => Stripe[f.new] \in Wanted(f)
      BY DEF Wanted
    <3> QED
      BY <1>6, <1>7, <2>3, <3>1, <3>2 DEF HasLocked, InSection, HaveNew
  <2>7. \A o \in Objects, l \in Locations : ~Moves(f, o, l) /\ ~Clears(f, o)
    BY <1>1 DEF Moves, Removed, Added, Clears, Registers
  <2>8. SameShape(g, f)
    BY <2>3 DEF SameShape
  <2>9. class' \in [Objects -> {"no", "initializing", "defaultRR", "initialized"}]
    BY <1>2, <1>5 DEF Types
  <2> QED
    BY <1>1, <1>5, <1>6, <2>2, <2>3, <2>4, <2>5, <2>6, <2>7, <2>8, <2>9, Onward
<1>8. CASE ~(Wanted(f) \subseteq Holds(t) \cup {w})
  <2>1. UNCHANGED stack
    BY <1>1, <1>3, <1>8 DEF LockTwo
  <2>2. PICK n : n = Len(stack[t])
    OBVIOUS
  <2>3. Cut(t, n, n) /\ n \in Nat /\ n > 0 /\ stack'[t][n] = f
    BY <1>1, <1>2, <2>1, <2>2, SameStack, Tops
  <2>4. Locked(t)'
    <3>1. Wanted(f) \subseteq Nat
      BY WantedStripes
    <3>2. /\ Holds(t) \cup {w} \subseteq Wanted(f)
          /\ \A s \in Holds(t) \cup {w}, x \in Wanted(f) \ (Holds(t) \cup {w}) : s < x
      BY <1>1, <1>2, <1>4, <3>1 DEF HasLocked
    <3>3. HasLocked(f, Holds(t) \cup {w})
      BY <1>1, <1>8, <3>2 DEF HasLocked
    <3>4. HasLocked(stack'[t][n], Holds(t)')
      BY <1>6, <2>3, <3>3
    <3> QED
      BY <2>3, <3>4, LockedNow
  <2>5. \A i \in n + 1..n : FALSE
    BY <2>3
  <2>6. \A i \in 1..n : i >= n /\ i # n => FALSE
    BY <2>3
  <2>7. Calling'
    BY <1>1, <1>2, <1>6, <2>3, <2>4, <2>5, <2>6, CallingKept
  <2>8. Storing'
    <3>1. stack'[t][n].pc # "setNil" /\ Pairs(stack'[t][n])
      BY <1>1, <2>3, Knows
    <3>2. UNCHANGED <<storage, table, weakBit, memory>>
      BY <1>5 DEF objects
    <3> QED
      BY <1>1, <1>2, <2>3, <2>5, <3>1, <3>2, StoringKept
  <2>9. Counting'
    <3>1. UNCHANGED <<memory, held>>
      BY <1>5 DEF objects
    <3> QED
      BY <1>2, <2>3, <2>5, <3>1, CountingKept
  <2>10. Types'
    BY <1>2, <1>5, <1>6, <2>1 DEF Types, storage, objects
  <2> QED
    BY <2>7, <2>8, <2>9, <2>10 DEF IInv
<1> QED
  BY <1>7, <1>8

-----------------------------------------------------------------------------
(* The steps of a store that change no table, and those of +initialize     *)

LEMMA InitializeApart ==
  ASSUME NEW f, Nil \notin Owns(f), NEW o \in Objects
  PROVE  Apart(InitializeFrame(o), f)
BY DEF Apart, Owns, InitializeFrame, Frame

LEMMA InitializeLocals ==
  ASSUME NEW o \in Objects, NEW g, g = InitializeFrame(o)
  PROVE  /\ Locals(g) /\ Variables(g) /\ g.fn = "initialize" /\ g.pc = "enter" /\ g.new = Nil
         /\ g.old = o
<1>1. /\ g.fn = "initialize" /\ g.loc = Nil /\ g.src = Nil /\ g.old = o /\ g.new = Nil
      /\ g.pc = "enter" /\ g.prev = FALSE
      /\ g = [fn |-> "initialize", loc |-> Nil, src |-> Nil, old |-> o, new |-> Nil,
              prev |-> FALSE, pc |-> "enter"]
  BY DEF InitializeFrame, Frame
<1>2. g \in FrameType
  BY <1>1 DEF FrameType
<1> QED
  BY <1>1, <1>2
  DEF Locals, Variables, Places, HaveOld, Stores, Inits, Copies, InTables, Registers

(* Nothing that a call owns is nil.                                        *)
LEMMA NilUnowned ==
  ASSUME Calling, NEW u \in Threads, NEW j \in DOMAIN stack[u]
  PROVE  Nil \notin Owns(stack[u][j])
<1>1. Locals(stack[u][j])
  BY DEF Calling, Nested
<1> QED
  BY <1>1, OwnsVariables

LEMMA CheckStep ==
  ASSUME IInv, NEW t \in Threads, Check(t)
  PROVE  IInv'
<1>1. PICK f \in FrameType : f = Top(t) /\ stack[t] # <<>> /\ f.fn \in StoreFns /\ f.pc = "check"
  BY Knows DEF Check, At, Locals
<1>2. Types /\ Calling /\ Locals(f) /\ Variables(f) /\ HasLocked(f, Holds(t))
  BY <1>1, Knows
<1>3. CheckOld(t) /\ UNCHANGED <<storage, table, objects, class>>
  BY DEF Check
<1>4. \A o \in Objects, l \in Locations : ~Moves(f, o, l) /\ ~Clears(f, o)
  BY <1>1 DEF Moves, Removed, Added, Clears, Registers, StoreFns
<1>5. class' \in [Objects -> {"no", "initializing", "defaultRR", "initialized"}]
  BY <1>2, <1>3 DEF Types
<1>6. CASE \/ Unlock(t) /\ Goto(t, "read")
           \/ ~OldChanged(f) /\ Goto(t, "unregister") /\ UNCHANGED lock
  <2>1. PICK p \in {"read", "unregister"} :
          /\ Goto(t, p)
          /\ p = "read" => Unlock(t)
          /\ p = "unregister" => ~OldChanged(f) /\ UNCHANGED lock
    BY <1>6
  <2>2. PICK g : g = [f EXCEPT !.pc = p]
    OBVIOUS
  <2>3. Become(t, g)
    BY <1>1, <2>1, <2>2 DEF Goto
  <2>4. /\ g \in FrameType /\ g.fn = f.fn /\ g.loc = f.loc /\ g.src = f.src /\ g.new = f.new
        /\ g.pc = p /\ g.old = f.old
    BY <2>1, <2>2 DEF FrameType
  <2>5. Locals(g)
    BY <1>1, <1>2, <2>1, <2>4 DEF Locals, Places, Stores, Inits, Copies, StoreFns, InTables
  <2>6. Variables(g) /\ Pairs(g)
    BY <1>1, <1>2, <2>1, <2>4
    DEF Variables, Pairs, HaveOld, HaveNew, InTables, Registers, Stores, Inits, Copies,
        StoreFns, OldChanged
  <2>7. /\ HasLocked(g, Holds(t)') /\ LocksOfOthers(t)
        /\ lock' \in [Stripes -> Threads \cup {NoThread}]
    <3>1. CASE p = "read"
      BY <1>2, <2>1, <2>4, <3>1, UnlockAll DEF HasLocked, InSection, InTables, Registers
    <3>2. CASE p = "unregister"
      <4>1. Holds(t)' = Holds(t) /\ LocksOfOthers(t)
            /\ lock' \in [Stripes -> Threads \cup {NoThread}]
        BY <1>2, <2>1, <3>2, SameLocks DEF Types
      <4> QED
        BY <1>1, <1>2, <2>4, <3>2, <4>1 DEF HasLocked, InSection, InTables, HaveNew
    <3> QED
      BY <3>1, <3>2
  <2>8. SameShape(g, f) /\ g.fn # "dealloc"
    BY <1>1, <2>4 DEF SameShape, StoreFns
  <2> QED
    BY <1>1, <1>3, <1>4, <1>5, <2>1, <2>3, <2>4, <2>5, <2>6, <2>7, <2>8, Onward
<1>7. CASE /\ MustInitialize(f) /\ Unlock(t)
           /\ stack' = [stack EXCEPT ![t] = Append(Append(Front(@),
                          [Top(t) EXCEPT !.pc = "read", !.prev = TRUE]),
                          InitializeFrame(Top(t).new))]
  <2>1. PICK g : g = InitializeFrame(f.new)
    OBVIOUS
  <2>2. PICK f1 : f1 = [f EXCEPT !.pc = "read", !.prev = TRUE]
    OBVIOUS
  <2>3. BecomeEnter(t, f1, g)
    BY <1>1, <1>7, <2>1, <2>2 DEF BecomeEnter
  <2>4. /\ f1 \in FrameType /\ f1.fn = f.fn /\ f1.loc = f.loc /\ f1.src = f.src
        /\ f1.new = f.new /\ f1.pc = "read" /\ f1.old = f.old
    BY <2>2 DEF FrameType
  <2>5. Locals(f1) /\ SameShape(f1, f) /\ Quiet(f1)
    BY <1>1, <1>2, <2>4 DEF Locals, Places, Stores, Inits, Copies, StoreFns, SameShape, Quiet
  <2>6. Variables(f1)
    BY <1>1, <1>2, <2>4
    DEF Variables, HaveOld, InTables, Registers, Stores, Inits, Copies, StoreFns
  <2>7. f.new \in Objects
    BY <1>7 DEF MustInitialize, FrameType
  <2>8. Locals(g) /\ Variables(g) /\ g.fn = "initialize" /\ g.pc = "enter" /\ g.new = Nil
    BY <2>1, <2>7, InitializeLocals
  <2>9. Above(f1, g)
    BY <1>1, <2>4, <2>8 DEF Above
  <2>10. \A u \in Threads : \A j \in DOMAIN stack[u] : Apart(g, stack[u][j])
    BY <1>2, <2>1, <2>7, InitializeApart, NilUnowned
  <2>11. /\ LocksOfOthers(t) /\ Holds(t)' = {}
         /\ lock' \in [Stripes -> Threads \cup {NoThread}]
    BY <1>2, <1>7, UnlockAll
  <2>12. f.fn # "dealloc"
    BY <1>1 DEF StoreFns
  <2> QED
    BY <1>1, <1>3, <1>4, <2>3, <2>4, <2>5, <2>6, <2>8, <2>9, <2>10, <2>11, <2>12, CallsOn
<1> QED
  BY <1>1, <1>3, <1>6, <1>7 DEF CheckOld

LEMMA InitializeEnterStep ==
  ASSUME IInv, NEW t \in Threads, InitializeEnter(t)
  PROVE  IInv'
<1>1. PICK f \in FrameType : f = Top(t) /\ stack[t] # <<>> /\ f.fn = "initialize" /\ f.pc = "enter"
  BY Knows DEF InitializeEnter, At, Locals
<1>2. Types /\ Locals(f) /\ Variables(f) /\ HasLocked(f, Holds(t)) /\ f.old \in Objects
  BY <1>1, Knows DEF Locals
<1>3. UNCHANGED <<storage, table, objects, lock>>
  BY DEF InitializeEnter
<1>4. \A o \in Objects, l \in Locations : ~Moves(f, o, l) /\ ~Clears(f, o)
  BY <1>1 DEF Moves, Clears, StoreFns
<1>5. /\ lock' \in [Stripes -> Threads \cup {NoThread}] /\ LocksOfOthers(t) /\ Holds(t)' = {}
  BY <1>1, <1>2, <1>3, SameLocks DEF Types, HasLocked, InSection, InTables, Registers
<1>6. CASE class' = [class EXCEPT ![f.old] = "initializing"] /\ Goto(t, "run")
  <2>1. PICK g : g = [f EXCEPT !.pc = "run"]
    OBVIOUS
  <2>2. Become(t, g)
    BY <1>1, <1>6, <2>1 DEF Goto
  <2>3. /\ g \in FrameType /\ g.fn = f.fn /\ g.loc = f.loc /\ g.src = f.src /\ g.new = f.new
        /\ g.pc = "run" /\ g.old = f.old
    BY <2>1 DEF FrameType
  <2>4. Locals(g) /\ Variables(g) /\ Pairs(g) /\ SameShape(g, f)
    BY <1>1, <1>2, <2>3
    DEF Locals, Places, Stores, Inits, Copies, Variables, Pairs, HaveOld, HaveNew, Registers,
        InTables, SameShape
  <2>5. HasLocked(g, Holds(t)')
    BY <1>5, <2>3 DEF HasLocked, InSection, InTables, Registers
  <2>6. class' \in [Objects -> {"no", "initializing", "defaultRR", "initialized"}]
    BY <1>2, <1>6 DEF Types
  <2> QED
    BY <1>1, <1>3, <1>4, <1>5, <2>2, <2>3, <2>4, <2>5, <2>6, Onward
<1>7. CASE Return(t) /\ UNCHANGED class
  <2>1. class' \in [Objects -> {"no", "initializing", "defaultRR", "initialized"}]
    BY <1>2, <1>7 DEF Types
  <2> QED
    BY <1>1, <1>3, <1>4, <1>5, <1>7, <2>1, Back
<1> QED
  BY <1>1, <1>6, <1>7 DEF InitializeEnter

LEMMA SetDefaultRRStep ==
  ASSUME IInv, NEW t \in Threads, SetDefaultRR(t)
  PROVE  IInv'
<1>1. PICK f \in FrameType : f = Top(t) /\ stack[t] # <<>> /\ f.fn = "initialize" /\ f.pc = "run"
  BY Knows DEF SetDefaultRR, At, Locals
<1>2. Types /\ Locals(f) /\ Variables(f) /\ HasLocked(f, Holds(t)) /\ f.old \in Objects
  BY <1>1, Knows DEF Locals
<1>3. UNCHANGED <<storage, table, objects, lock>>
  BY DEF SetDefaultRR
<1>4. PICK g : g = [f EXCEPT !.pc = "finish"]
  OBVIOUS
<1>5. Become(t, g)
  BY <1>1, <1>4 DEF Goto, SetDefaultRR
<1>6. /\ g \in FrameType /\ g.fn = f.fn /\ g.loc = f.loc /\ g.src = f.src /\ g.new = f.new
      /\ g.pc = "finish" /\ g.old = f.old
  BY <1>4 DEF FrameType
<1>7. Locals(g) /\ Variables(g) /\ Pairs(g) /\ SameShape(g, f)
  BY <1>1, <1>2, <1>6
  DEF Locals, Places, Stores, Inits, Copies, Variables, Pairs, HaveOld, HaveNew, Registers,
      InTables, SameShape
<1>8. /\ lock' \in [Stripes -> Threads \cup {NoThread}] /\ LocksOfOthers(t)
      /\ HasLocked(g, Holds(t)')
  BY <1>1, <1>2, <1>3, <1>6, SameLocks DEF Types, HasLocked, InSection, InTables, Registers
<1>9. class' \in [Objects -> {"no", "initializing", "defaultRR", "initialized"}]
  BY <1>1, <1>2 DEF Types, SetDefaultRR
<1>10. \A o \in Objects, l \in Locations : ~Moves(f, o, l) /\ ~Clears(f, o)
  BY <1>1 DEF Moves, Clears, StoreFns
<1> QED
  BY <1>1, <1>3, <1>5, <1>6, <1>7, <1>8, <1>9, <1>10, Onward

LEMMA SetInitializedStep ==
  ASSUME IInv, NEW t \in Threads, SetInitialized(t)
  PROVE  IInv'
<1>1. PICK f \in FrameType : f = Top(t) /\ stack[t] # <<>> /\ f.fn = "initialize" /\ f.pc = "finish"
  BY Knows DEF SetInitialized, At, Locals
<1>2. Types /\ HasLocked(f, Holds(t))
  BY <1>1, Knows
<1>3. Return(t) /\ UNCHANGED <<storage, table, objects, lock>>
  BY DEF SetInitialized
<1>4. /\ lock' \in [Stripes -> Threads \cup {NoThread}] /\ LocksOfOthers(t) /\ Holds(t)' = {}
  BY <1>1, <1>2, <1>3, SameLocks DEF Types, HasLocked, InSection, InTables, Registers
<1>5. class' \in [Objects -> {"no", "initializing", "defaultRR", "initialized"}]
  BY <1>1, <1>2 DEF Types, SetInitialized
<1>6. \A o \in Objects, l \in Locations : ~Moves(f, o, l) /\ ~Clears(f, o)
  BY <1>1 DEF Moves, Clears, StoreFns
<1> QED
  BY <1>1, <1>3, <1>4, <1>5, <1>6, Back

-----------------------------------------------------------------------------
(* The references of a thread                                              *)

LEMMA OneMore ==
  ASSUME Types, NEW t \in Threads, NEW o \in Objects, held' = [held EXCEPT ![t][o] = @ + 1]
  PROVE  /\ held' \in [Threads -> [Objects -> Nat]]
         /\ \A u \in Threads \ {t} : held'[u] = held[u]
         /\ \A x \in Objects \ {o} : held'[t][x] = held[t][x]
         /\ held[t][o] \in Nat /\ held'[t][o] = held[t][o] + 1
BY DEF Types

LEMMA OneFewer ==
  ASSUME Types, NEW t \in Threads, NEW o \in Objects, held[t][o] > 0,
         held' = [held EXCEPT ![t][o] = @ - 1]
  PROVE  /\ held' \in [Threads -> [Objects -> Nat]]
         /\ \A u \in Threads \ {t} : held'[u] = held[u]
         /\ \A x \in Objects \ {o} : held'[t][x] = held[t][x]
         /\ held[t][o] \in Nat /\ held'[t][o] = held[t][o] - 1
BY DEF Types

(* A call keeps its object while the thread gets a reference to v, which   *)
(* one call at most may have above it.                                     *)
LEMMA GivenMore ==
  ASSUME Types, NEW t \in Threads, NEW i \in 1..Len(stack[t]), Given(t, i), Below(t, i),
         NEW v, NEW j, stack[t][i].new # v => held'[t][stack[t][i].new] = held[t][stack[t][i].new],
         stack[t][i].new = v => held'[t][v] = held[t][v] + 1,
         \A o : ReferencesAbove(t, i, o)' \subseteq ReferencesAbove(t, i, o)
                                                    \cup (IF o = v THEN {j} ELSE {})
  PROVE  Given(t, i)'
<1>1. PICK o : o = stack[t][i].new
  OBVIOUS
<1>2. i \in DOMAIN stack[t] /\ o \in Objects \cup {Nil} /\ stack'[t][i] = stack[t][i]
      /\ Below(t, i - 1)
  BY <1>1, Tops DEF FrameType, Below
<1>3. PICK R : R = ReferencesAbove(t, i, o)
  OBVIOUS
<1>4. PICK Q : Q = ReferencesAbove(t, i, o)'
  OBVIOUS
<1>5. IsFiniteSet(R) /\ Cardinality(R) \in Nat
  BY <1>3, References
<1>6. Q \subseteq R \cup {j} /\ (o # v => Q \subseteq R)
  BY <1>3, <1>4
<1>7. /\ IsFiniteSet(R \cup {j}) /\ Cardinality(R \cup {j}) \in Nat
      /\ Cardinality(R \cup {j}) <= Cardinality(R) + 1
  <2>1. /\ IsFiniteSet(R \cup {j})
        /\ Cardinality(R \cup {j}) = IF j \in R THEN Cardinality(R) ELSE Cardinality(R) + 1
    BY <1>5, FS_AddElement
  <2>2. PICK c \in Nat : c = Cardinality(R)
    BY <1>5
  <2>3. PICK d : d = Cardinality(R \cup {j})
    OBVIOUS
  <2>4. d \in Nat /\ d <= c + 1
    <3>1. d = c \/ d = c + 1
      BY <2>1, <2>2, <2>3
    <3> QED
      BY <3>1
  <2> QED
    BY <2>1, <2>2, <2>3, <2>4
<1>8. /\ Cardinality(Q) \in Nat /\ Cardinality(Q) <= Cardinality(R \cup {j})
      /\ o # v => Cardinality(Q) <= Cardinality(R)
  BY <1>5, <1>6, <1>7, FS_Subset, FS_CardinalityType
<1>9. o # Nil /\ Cardinality(R) < held[t][o] => Cardinality(Q) < held'[t][o]
  <2>1. o # Nil => held[t][o] \in Nat
    BY <1>2 DEF Types
  <2>2. o # v => held'[t][o] = held[t][o]
    BY <1>1
  <2>3. o = v => held'[t][o] = held[t][o] + 1
    BY <1>1
  <2>4. PICK c \in Nat : c = Cardinality(R)
    BY <1>5
  <2>5. PICK d \in Nat : d = Cardinality(Q)
    BY <1>8
  <2>6. d <= c + 1 /\ (o # v => d <= c)
    BY <1>7, <1>8, <2>4, <2>5
  <2> QED
    BY <2>1, <2>2, <2>3, <2>4, <2>5, <2>6
<1> QED
  BY <1>1, <1>2, <1>3, <1>4, <1>9, GivenKept

(* A load returns v, to which its thread now has a reference, or nil.      *)
LEMMA LoadReturns ==
  ASSUME IInv, NEW t \in Threads, stack[t] # <<>>, Top(t).fn = "loadWeak",
         NEW v \in Objects \cup {Nil}, ReturnValue(t, v),
         v = Nil => UNCHANGED held,
         v # Nil => memory[v] = "live" /\ held' = [held EXCEPT ![t][v] = @ + 1],
         lock' \in [Stripes -> Threads \cup {NoThread}], LocksOfOthers(t), Holds(t)' = {},
         UNCHANGED <<storage, table, weakBit, memory, class>>
  PROVE  IInv'
<1>1. Types /\ Calling /\ Storing /\ Counting
  BY DEF IInv
<1>0. Calling'
  BY <1>1, AscendValue
<1>2. PICK m \in Nat, k \in Nat :
        /\ Cut(t, m, k)
        /\ \/ /\ k = m
              /\ k > 0 => /\ stack'[t][k] = stack[t][k] /\ Quiet(stack[t][k])
                          /\ stack[t][k].fn \in {"dealloc", "initialize"}
           \/ /\ k = m + 1 /\ k \in DOMAIN stack[t]
              /\ stack[t][k].fn \in Copies /\ stack[t][k].pc = "load"
              /\ stack'[t][k] = [stack[t][k] EXCEPT !.new = v, !.pc = "init"]
  BY <1>1, AscendValue
<1>3. /\ held' \in [Threads -> [Objects -> Nat]]
      /\ \A u \in Threads \ {t} : held'[u] = held[u]
      /\ \A x \in Objects \ {v} : held'[t][x] = held[t][x]
      /\ v # Nil => held[t][v] \in Nat /\ held'[t][v] = held[t][v] + 1
  <2>1. CASE v = Nil
    BY <1>1, <2>1 DEF Types
  <2>2. CASE v # Nil
    BY <1>1, <2>2, OneMore
  <2> QED
    BY <2>1, <2>2
<1>4. Types'
  BY <1>1, <1>2, <1>3 DEF Types, Cut, storage
<1>5. \A i \in m + 1..k : i = k /\ k = m + 1
  BY <1>2
<1>6. ASSUME k = m + 1
      PROVE  /\ stack'[t][k].fn = stack[t][k].fn /\ stack'[t][k].loc = stack[t][k].loc
             /\ stack'[t][k].src = stack[t][k].src /\ stack'[t][k].new = v
             /\ stack'[t][k].pc = "init" /\ stack'[t][k].fn \in Copies
             /\ Variables(stack'[t][k]) /\ Quiet(stack'[t][k])
  <2>1. stack[t][k] \in FrameType /\ Variables(stack[t][k])
    BY <1>1, <1>2, <1>6 DEF Calling, Nested, Locals, Storing, VariablesOf
  <2>2. PICK r \in FrameType : r = stack[t][k]
    BY <2>1
  <2>3. PICK g : g = [r EXCEPT !.new = v, !.pc = "init"]
    OBVIOUS
  <2>4. g.fn = r.fn /\ g.loc = r.loc /\ g.src = r.src /\ g.new = v /\ g.pc = "init"
    BY <2>3 DEF FrameType
  <2>5. stack'[t][k] = g
    BY <1>2, <1>6, <2>2, <2>3
  <2>6. Variables(g) /\ Quiet(g)
    BY <1>2, <1>6, <2>1, <2>2, <2>4
    DEF Variables, Quiet, HaveOld, InTables, Registers, Copies, Stores, Inits
  <2> QED
    BY <1>2, <1>6, <2>2, <2>4, <2>5, <2>6
<1>7. Storing'
  <2>1. \A i \in m + 1..k : Variables(stack'[t][i])
    BY <1>5, <1>6
  <2>2. k > 0 => Quiet(stack'[t][k]) /\ stack'[t][k].pc # "setNil"
    <3>1. k = m \/ k = m + 1
      BY <1>2 DEF Cut
    <3>2. CASE k = m /\ k > 0
      <4>1. Locals(stack[t][k])
        <5>1. k \in DOMAIN stack[t]
          BY <3>2 , <1>2 DEF Cut
        <5> QED
          BY <1>1, <5>1 DEF Calling, Nested
      <4> QED
        BY <1>2, <3>2, <4>1 DEF Locals, Places
    <3>3. CASE k = m + 1
      BY <1>6, <3>3
    <3> QED
      BY <3>1, <3>2, <3>3
  <2>3. k > 0 => Pairs(stack'[t][k])
    BY <2>2, QuietPairs
  <2>4. \A o, l : ~Moves(Top(t), o, l) /\ ~Clears(Top(t), o)
    BY DEF Moves, Clears, StoreFns
  <2> QED
    BY <1>1, <1>2, <2>1, <2>2, <2>3, <2>4, StoringKept
<1>8. \A i \in 1..m : Given(t, i)'
  <2> SUFFICES ASSUME NEW i \in 1..m PROVE Given(t, i)'
    OBVIOUS
  <2>1. i \in 1..Len(stack[t]) /\ Below(t, i) /\ Given(t, i)
    BY <1>1, <1>2 DEF Counting, Cut, Below
  <2>2. stack[t][i].new \in Objects \cup {Nil}
    BY <1>1, <2>1, Tops DEF FrameType
  <2>3. CASE v = Nil /\ stack[t][i].new = Nil
    <3>1. stack'[t][i].new = Nil
      BY <2>1, <2>3 DEF Below
    <3> QED
      BY <3>1 DEF Given
  <2>4. CASE ~(v = Nil /\ stack[t][i].new = Nil)
    <3>1. PICK o : o = stack[t][i].new
      OBVIOUS
    <3>2. \A x : ReferencesAbove(t, i, x)'
                   \subseteq ReferencesAbove(t, i, x) \cup (IF x = v THEN {k} ELSE {})
      <4> SUFFICES ASSUME NEW x, NEW j \in DOMAIN stack'[t], j > i, HasReference(stack'[t][j], x)
                   PROVE  \/ j \in DOMAIN stack[t] /\ HasReference(stack[t][j], x)
                          \/ x = v /\ j = k
        BY DEF ReferencesAbove, HasReference
      <4>1. CASE j \in 1..m
        BY <1>2, <4>1 DEF Cut, Below
      <4>2. CASE j \in m + 1..k
        <5>1. j = k /\ k = m + 1
          BY <1>5, <4>2
        <5> QED
          BY <1>6, <5>1 DEF HasReference
      <4> QED
        BY <1>2, <4>1, <4>2 DEF Cut
    <3>3. /\ stack[t][i].new # v /\ stack[t][i].new # Nil
               => held'[t][stack[t][i].new] = held[t][stack[t][i].new]
          /\ stack[t][i].new = v => held'[t][v] = held[t][v] + 1
      BY <1>3, <2>2, <2>4
    <3>4. CASE stack[t][i].new = Nil
      <4>1. stack'[t][i].new = Nil
        BY <2>1, <3>4 DEF Below
      <4> QED
        BY <4>1 DEF Given
    <3>5. CASE stack[t][i].new # Nil
      BY <1>1, <2>1, <3>2, <3>3, <3>5, GivenMore
    <3> QED
      BY <3>4, <3>5
  <2> QED
    BY <2>3, <2>4
<1>9. k = m + 1 => Given(t, k)'
  <2> SUFFICES ASSUME k = m + 1, v # Nil PROVE Given(t, k)'
    BY <1>6 DEF Given
  <2>1. Cardinality(ReferencesAbove(t, k, v)') = 0
    BY <1>2, NoReferences
  <2>2. held'[t][v] > 0
    BY <1>3
  <2> QED
    BY <1>6, <2>1, <2>2 DEF Given
<1>10. \A u \in Threads : \A i \in DOMAIN stack'[u] : Given(u, i)'
  <2>1. \A u \in Threads \ {t} : \A i \in DOMAIN stack'[u] : Given(u, i)'
    BY <1>1, <1>2, <1>3, OthersGiven DEF Cut, Others, Counting
  <2>2. \A i \in DOMAIN stack'[t] : i \in 1..m \/ (i = k /\ k = m + 1)
    BY <1>2 DEF Cut
  <2> QED
    BY <1>8, <1>9, <2>1, <2>2
<1>11. OneDealloc'
  <2>1. \A i \in m + 1..k : stack'[t][i].fn # "dealloc"
    BY <1>5, <1>6 DEF Copies
  <2> QED
    BY <1>1, <1>2, <2>1, DeallocKept DEF Counting
<1>12. HeldIsLive'
  <2> SUFFICES ASSUME NEW u \in Threads, NEW o \in Objects, held'[u][o] > 0
               PROVE  memory[o] = "live"
    BY DEF HeldIsLive
  <2>1. CASE u = t /\ o = v
    BY <2>1, WeakAssumption
  <2>2. CASE ~(u = t /\ o = v)
    BY <1>1, <1>3, <2>2 DEF Counting, HeldIsLive
  <2> QED
    BY <2>1, <2>2
<1> QED
  BY <1>0, <1>4, <1>7, <1>10, <1>11, <1>12 DEF IInv, Counting

-----------------------------------------------------------------------------
(* The steps of a load                                                     *)

LEMMA LoadReadStep ==
  ASSUME IInv, NEW t \in Threads, LoadRead(t)
  PROVE  IInv'
<1>1. PICK f \in FrameType : f = Top(t) /\ stack[t] # <<>> /\ f.fn = "loadWeak" /\ f.pc = "read"
  BY Knows DEF LoadRead, At, Locals
<1>2. Types /\ Locals(f) /\ Variables(f) /\ HasLocked(f, Holds(t)) /\ f.loc \in Locations
  BY <1>1, Knows DEF Locals, Copies
<1>3. UNCHANGED <<storage, table, objects, class, lock>>
  BY DEF LoadRead
<1>4. /\ Holds(t)' = {} /\ LocksOfOthers(t)
      /\ lock' \in [Stripes -> Threads \cup {NoThread}]
      /\ class' \in [Objects -> {"no", "initializing", "defaultRR", "initialized"}]
  BY <1>1, <1>2, <1>3, SameLocks DEF Types, HasLocked, InSection, InTables, Registers
<1>5. CASE ReturnValue(t, Nil)
  <2>1. UNCHANGED <<storage, table, weakBit, memory, class, held>>
    BY <1>3 DEF objects
  <2>2. Nil \in Objects \cup {Nil}
    OBVIOUS
  <2> QED
    BY <1>1, <1>4, <1>5, <2>1, <2>2, LoadReturns
<1>6. CASE value[f.loc] # Nil /\ Become(t, [f EXCEPT !.pc = "lock", !.old = value[f.loc]])
  <2>1. PICK v \in Objects \cup {Nil} : v = value[f.loc]
    BY <1>2 DEF Types
  <2>2. PICK g : g = [f EXCEPT !.pc = "lock", !.old = v]
    OBVIOUS
  <2>3. Become(t, g)
    BY <1>6, <2>1, <2>2
  <2>4. /\ g \in FrameType /\ g.fn = f.fn /\ g.loc = f.loc /\ g.src = f.src /\ g.new = f.new
        /\ g.pc = "lock" /\ g.old = v
    BY <2>2 DEF FrameType
  <2>5. Locals(g) /\ Variables(g) /\ Pairs(g) /\ SameShape(g, f)
    BY <1>1, <1>2, <1>6, <2>1, <2>4
    DEF Locals, Places, Stores, Inits, Copies, Variables, Pairs, HaveOld, HaveNew, Registers,
        InTables, SameShape
  <2>6. HasLocked(g, Holds(t)')
    <3>1. Wanted(g) # {}
      BY <1>1, <2>4 DEF Wanted
    <3> QED
      BY <1>4, <2>4, <3>1 DEF HasLocked
  <2>7. \A o \in Objects, l \in Locations : ~Moves(f, o, l) /\ ~Clears(f, o)
    BY <1>1 DEF Moves, Clears, StoreFns
  <2> QED
    BY <1>1, <1>3, <1>4, <2>3, <2>4, <2>5, <2>6, <2>7, Onward
<1> QED
  BY <1>1, <1>5, <1>6 DEF LoadRead

LEMMA TryRetains ==
  ASSUME IInv, NEW t \in Threads, stack[t] # <<>>, Top(t).fn = "loadWeak",
         NEW o \in Objects, TryRetain(t, o), Unlock(t),
         UNCHANGED <<storage, table, weakBit, memory, class>>
  PROVE  IInv'
<1>1. /\ Holds(t)' = {} /\ LocksOfOthers(t)
      /\ lock' \in [Stripes -> Threads \cup {NoThread}]
  BY Knows, UnlockAll
<1>2. CASE memory[o] = "live"
  BY <1>1, <1>2, WeakAssumption, LoadReturns DEF TryRetain
<1>3. CASE memory[o] # "live"
  <2>1. Nil \in Objects \cup {Nil} /\ UNCHANGED held /\ ReturnValue(t, Nil)
    BY <1>3 DEF TryRetain
  <2> QED
    BY <1>1, <2>1, LoadReturns
<1> QED
  BY <1>2, <1>3

LEMMA LoadFastStep ==
  ASSUME IInv, NEW t \in Threads, LoadFast(t)
  PROVE  IInv'
<1>1. stack[t] # <<>> /\ Top(t).fn = "loadWeak" /\ Top(t).pc = "fast"
  BY DEF LoadFast, At
<1>2. Top(t).old \in Objects
  BY <1>1, Knows DEF Locals, FrameType
<1>3. /\ TryRetain(t, Top(t).old) /\ Unlock(t)
      /\ UNCHANGED <<storage, table, weakBit, memory, class>>
  BY DEF LoadFast
<1> QED
  BY <1>1, <1>2, <1>3, TryRetains

LEMMA LoadSlowStep ==
  ASSUME IInv, NEW t \in Threads, LoadSlow(t)
  PROVE  IInv'
<1>1. PICK f \in FrameType : f = Top(t) /\ stack[t] # <<>> /\ f.fn = "loadWeak" /\ f.pc = "slow"
  BY Knows DEF LoadSlow, At, Locals
<1>2. Types /\ Calling /\ Locals(f) /\ Variables(f) /\ f.old \in Objects
  BY <1>1, Knows DEF Locals, FrameType
<1>3. Unlock(t) /\ UNCHANGED <<storage, table, weakBit, memory, class>>
  BY DEF LoadSlow
<1>4. /\ Holds(t)' = {} /\ LocksOfOthers(t)
      /\ lock' \in [Stripes -> Threads \cup {NoThread}]
  BY <1>2, <1>3, UnlockAll
<1>5. CASE TryRetain(t, f.old)
  BY <1>1, <1>2, <1>3, <1>5, TryRetains
<1>6. CASE ReturnValue(t, Nil) /\ UNCHANGED held
  <2>1. Nil \in Objects \cup {Nil}
    OBVIOUS
  <2> QED
    BY <1>1, <1>3, <1>4, <1>6, <2>1, LoadReturns
<1>7. CASE GotoAndEnter(t, "read", InitializeFrame(f.old)) /\ UNCHANGED held
  <2>1. PICK g : g = InitializeFrame(f.old)
    OBVIOUS
  <2>2. PICK f1 : f1 = [f EXCEPT !.pc = "read"]
    OBVIOUS
  <2>3. BecomeEnter(t, f1, g)
    BY <1>1, <1>7, <2>1, <2>2 DEF BecomeEnter, GotoAndEnter
  <2>4. /\ f1 \in FrameType /\ f1.fn = f.fn /\ f1.loc = f.loc /\ f1.src = f.src
        /\ f1.new = f.new /\ f1.pc = "read" /\ f1.old = f.old
    BY <2>2 DEF FrameType
  <2>5. Locals(f1) /\ SameShape(f1, f) /\ Quiet(f1)
    BY <1>1, <1>2, <2>4 DEF Locals, Places, Stores, Inits, Copies, SameShape, Quiet
  <2>6. Variables(f1)
    BY <1>1, <1>2, <2>4 DEF Variables, HaveOld, InTables, Registers, Stores, Inits, Copies
  <2>7. Locals(g) /\ Variables(g) /\ g.fn = "initialize" /\ g.pc = "enter" /\ g.new = Nil
    BY <1>2, <2>1, InitializeLocals
  <2>8. Above(f1, g)
    BY <1>1, <2>4, <2>7 DEF Above
  <2>9. \A u \in Threads : \A j \in DOMAIN stack[u] : Apart(g, stack[u][j])
    BY <1>2, <2>1, InitializeApart, NilUnowned
  <2>10. \A o \in Objects, l \in Locations : ~Moves(f, o, l) /\ ~Clears(f, o)
    BY <1>1 DEF Moves, Clears, StoreFns
  <2>11. UNCHANGED <<storage, table, objects, class>>
    BY <1>3, <1>7 DEF objects
  <2> QED
    BY <1>1, <1>4, <2>3, <2>4, <2>5, <2>6, <2>7, <2>8, <2>9, <2>10, <2>11, CallsOn
<1> QED
  BY <1>1, <1>5, <1>6, <1>7 DEF LoadSlow

-----------------------------------------------------------------------------
(* Steps that change a variable                                            *)

(* Only the variable at l changes.                                         *)
StoredAt(l) ==
  /\ value' \in [Locations -> Objects \cup {Nil}] /\ isWeak' \in [Locations -> BOOLEAN]
  /\ \A x \in Locations \ {l} : value'[x] = value[x] /\ isWeak'[x] = isWeak[x]

LEMMA VariablesElsewhere ==
  ASSUME NEW f, Locals(f), Variables(f), NEW l, StoredAt(l), l \notin {f.loc, f.src}
  PROVE  Variables(f)'
<1>1. /\ f.fn \notin {"dealloc", "initialize"} => f.loc \in Locations \ {l}
      /\ f.fn \in Copies => f.src \in Locations \ {l}
      /\ f.pc \in {"fast", "slow"} => f.fn = "loadWeak"
  BY PlacesOf
<1> QED
  BY <1>1 DEF Variables, StoredAt, HaveOld, Inits, Stores, Copies

(* A variable stays one, and its value is not what the call relies on.     *)
LEMMA VariablesStored ==
  ASSUME NEW f, Locals(f), Variables(f), NEW l \in Locations, StoredAt(l), isWeak[l], isWeak'[l],
         f.loc = l => f.pc \notin {"fast", "slow"} \cup InTables \cup Registers
  PROVE  Variables(f)'
<1>1. /\ f.fn \notin {"dealloc", "initialize"} => f.loc \in Locations
      /\ f.fn \in Copies => f.src \in Locations
      /\ f.pc \in {"fast", "slow"} => f.fn = "loadWeak"
  BY PlacesOf
<1>2. f.fn \in Inits => f.loc # l
  BY DEF Variables
<1>3. f.fn \in Copies /\ f.pc \in {"load", "init"} => f.loc # l
  BY DEF Variables
<1> QED
  BY <1>1, <1>2, <1>3 DEF Variables, StoredAt, HaveOld, Inits, Stores, Copies

(* Nobody uses what the innermost call owns but the call that has made it. *)
LEMMA OwnedElsewhere ==
  ASSUME Types, Calling, NEW t \in Threads, stack[t] # <<>>, NEW n, n = Len(stack[t]),
         NEW l \in Owns(Top(t)),
         NEW u \in Threads, NEW j \in DOMAIN stack[u], ~(u = t /\ j = n)
  PROVE  \/ l \notin {stack[u][j].loc, stack[u][j].src}
         \/ u = t /\ j = n - 1 /\ stack[t][j].fn \in Copies /\ Above(stack[t][j], Top(t))
<1>1. n \in DOMAIN stack[t] /\ n \in Nat \ {0} /\ Top(t) = stack[t][n] /\ DOMAIN stack[t] = 1..n
  BY Tops
<1> SUFFICES ASSUME l \in {stack[u][j].loc, stack[u][j].src}
             PROVE  u = t /\ j = n - 1 /\ stack[t][j].fn \in Copies /\ Above(stack[t][j], Top(t))
  OBVIOUS
<1>2. Kin(t, n, u, j)
  BY <1>1 DEF Calling, Exclusive
<1>3. u = t /\ n = j + 1 /\ stack[t][j].fn \in Copies
  BY <1>1, <1>2 DEF Kin
<1>4. j \in 1..Len(stack[t]) /\ j # Len(stack[t])
  BY <1>1, <1>3
<1>5. Above(stack[t][j], stack[t][j + 1])
  BY <1>3, <1>4, Outer DEF Calling
<1> QED
  BY <1>1, <1>3, <1>4, <1>5

LEMMA PairsStored ==
  ASSUME NEW f, Pairs(f), NEW l \in Locations, StoredAt(l), UNCHANGED <<table, weakBit>>,
         f.fn = "dealloc" /\ f.pc = "free" => ~(isWeak'[l] /\ value'[l] = f.old)
  PROVE  Pairs(f)'
BY DEF Pairs, StoredAt

LEMMA TablesStored ==
  ASSUME TablesAgree, NEW t \in Threads, Others(t), NEW l \in Locations, StoredAt(l),
         UNCHANGED table,
         stack[t] # <<>> => \A o \in Objects : \A x \in Locations \ {l} :
                              ~Moves(Top(t), o, x) /\ ~Clears(Top(t), o),
         \A o \in Objects :
           \/ <<o, l>> \in table <=> isWeak'[l] /\ value'[l] = o
           \/ \E u \in Threads \ {t} : stack[u] # <<>> /\ Clears(Top(u), o) /\ value'[l] # o
  PROVE  TablesAgree'
<1> SUFFICES ASSUME NEW o \in Objects, NEW x \in Locations,
                    ~(<<o, x>> \in table <=> isWeak'[x] /\ value'[x] = o)
             PROVE  \E u \in Threads :
                      /\ stack'[u] # <<>>
                      /\ Moves(Top(u), o, x)' \/ (Clears(Top(u), o)' /\ value'[x] # o)
  BY DEF TablesAgree
<1>1. CASE x = l
  <2>1. PICK u \in Threads \ {t} : stack[u] # <<>> /\ Clears(Top(u), o) /\ value'[l] # o
    BY <1>1
  <2>2. stack'[u] = stack[u] /\ Top(u)' = Top(u)
    BY DEF Others, Top
  <2> QED
    BY <1>1, <2>1, <2>2 DEF Clears
<1>2. CASE x # l
  <2>1. value'[x] = value[x] /\ isWeak'[x] = isWeak[x]
    BY <1>2 DEF StoredAt
  <2>2. PICK u \in Threads : /\ stack[u] # <<>>
                             /\ Moves(Top(u), o, x) \/ (Clears(Top(u), o) /\ value[x] # o)
    BY <2>1 DEF TablesAgree
  <2>3. u # t
    BY <1>2, <2>2
  <2>4. stack'[u] = stack[u] /\ Top(u)' = Top(u)
    BY <2>3 DEF Others, Top
  <2> QED
    BY <2>1, <2>2, <2>4 DEF Moves, Clears, Removed, Added
<1> QED
  BY <1>1, <1>2

LEMMA StoringStored ==
  ASSUME IInv, NEW t \in Threads, NEW m, NEW k, Cut(t, m, k),
         NEW l \in Locations, StoredAt(l), UNCHANGED <<table, weakBit, memory>>,
         \A u \in Threads \ {t} : \A i \in DOMAIN stack[u] : \A f :
           f = stack[u][i] => Variables(f)',
         \A i \in 1..k : \A f : f = stack'[t][i] => Variables(f)',
         k > 0 => \A f : f = stack'[t][k] =>
           /\ f.pc = "setNil" => ~isWeak'[f.src]
           /\ Pairs(f)',
         \A u \in Threads \ {t} :
           stack[u] # <<>> /\ Top(u).fn = "dealloc" /\ Top(u).pc = "free"
             => ~(isWeak'[l] /\ value'[l] = Top(u).old),
         \A u \in Threads \ {t} : stack[u] # <<>> /\ Top(u).pc = "setNil" => Top(u).src # l,
         stack[t] # <<>> => \A o \in Objects : \A x \in Locations \ {l} :
                              ~Moves(Top(t), o, x) /\ ~Clears(Top(t), o),
         \A o \in Objects :
           \/ <<o, l>> \in table <=> isWeak'[l] /\ value'[l] = o
           \/ \E u \in Threads \ {t} : stack[u] # <<>> /\ Clears(Top(u), o) /\ value'[l] # o,
         isWeak'[l] /\ value'[l] # Nil => memory[value'[l]] # "free" /\ weakBit[value'[l]]
  PROVE  Storing'
<1>1. Types /\ Storing
  BY DEF IInv
<1>2. \A u \in Threads \ {t} : VariablesOf(u)' /\ (stack'[u] # <<>> => Pairs(Top(u))')
  <2> SUFFICES ASSUME NEW u \in Threads \ {t}
               PROVE  VariablesOf(u)' /\ (stack'[u] # <<>> => Pairs(Top(u))')
    OBVIOUS
  <2>1. stack'[u] = stack[u] /\ Top(u)' = Top(u)
    BY DEF Cut, Others, Top
  <2>2. \A i \in DOMAIN stack'[u] : Variables(stack[u][i])'
    <3> SUFFICES ASSUME NEW i \in DOMAIN stack'[u] PROVE Variables(stack[u][i])'
      OBVIOUS
    <3>1. PICK f : f = stack[u][i]
      OBVIOUS
    <3>2. Variables(f)' /\ stack'[u][i] = f
      BY <2>1, <3>1
    <3> QED
      BY <3>2 DEF Variables
  <2>3. ASSUME stack[u] # <<>> PROVE /\ Pairs(Top(u))'
                                     /\ Top(u)'.pc = "setNil" => ~isWeak'[Top(u)'.src]
    <3>1. PICK f : f = Top(u)
      OBVIOUS
    <3>2. Pairs(f) /\ (f.pc = "setNil" => ~isWeak[f.src])
      BY <1>1, <2>3, <3>1 DEF Storing, VariablesOf
    <3>3. Pairs(f)'
      BY <2>3, <3>1, <3>2, PairsStored
    <3>4. ASSUME f.pc = "setNil" PROVE ~isWeak'[f.src]
      <4>1. Len(stack[u]) \in DOMAIN stack[u] /\ f = stack[u][Len(stack[u])]
        BY <1>1, <2>3, <3>1, Tops
      <4>2. Variables(f)' /\ Locals(f)
        BY <4>1 DEF IInv, Calling, Nested
      <4>3. f.fn = "moveWeak" /\ f.src \in Locations
        BY <3>4, <4>2, PlacesOf DEF Copies
      <4>4. f.src # l
        BY <2>3, <3>1, <3>4
      <4> QED
        BY <3>2, <3>4, <4>3, <4>4 DEF StoredAt
    <3> QED
      BY <2>1, <3>1, <3>3, <3>4 DEF Pairs
  <2> QED
    BY <2>1, <2>2, <2>3 DEF VariablesOf
<1>3. VariablesOf(t)' /\ (stack'[t] # <<>> => Pairs(Top(t))')
  <2>1. \A i \in DOMAIN stack'[t] : Variables(stack[t][i])'
    <3> SUFFICES ASSUME NEW i \in DOMAIN stack'[t] PROVE Variables(stack[t][i])'
      OBVIOUS
    <3>1. PICK f : f = stack'[t][i]
      OBVIOUS
    <3>2. Variables(f)'
      BY <3>1 DEF Cut
    <3> QED
      BY <3>1, <3>2 DEF Variables
  <2>2. ASSUME stack'[t] # <<>> PROVE /\ Pairs(Top(t))'
                                      /\ Top(t)'.pc = "setNil" => ~isWeak'[Top(t)'.src]
    <3>1. PICK f : f = stack'[t][k]
      OBVIOUS
    <3>2. Top(t)' = f /\ k > 0
      BY <2>2, <3>1 DEF Cut
    <3>3. Pairs(f)' /\ (f.pc = "setNil" => ~isWeak'[f.src])
      BY <3>1, <3>2
    <3> QED
      BY <3>2, <3>3 DEF Pairs
  <2> QED
    BY <2>1, <2>2 DEF VariablesOf
<1>4. TablesAgree'
  BY <1>1, TablesStored DEF Cut, Storing
<1>5. Reachable'
  BY <1>1 DEF Storing, Reachable, StoredAt
<1> QED
  BY <1>2, <1>3, <1>4, <1>5 DEF Storing

-----------------------------------------------------------------------------
(* A store that gives its variable a value                                 *)

(* A call that relies on the value of its variable holds its side table.   *)
LEMMA ValueLocked ==
  ASSUME IInv, NEW u \in Threads, NEW i \in DOMAIN stack[u], NEW g, g = stack[u][i],
         g.pc \in {"fast", "slow"} \cup InTables \cup Registers, g.fn \notin Inits
  PROVE  /\ stack[u] # <<>> /\ i = Len(stack[u]) /\ g = Top(u)
         /\ value[g.loc] = g.old /\ Stripe[g.old] \in Holds(u)
<1>1. Types /\ Calling /\ Storing
  BY DEF IInv
<1>2. i \in 1..Len(stack[u]) /\ stack[u] # <<>> /\ Len(stack[u]) \in Nat
  BY <1>1, Tops
<1>3. i = Len(stack[u])
  <2>1. SUFFICES ASSUME i # Len(stack[u]) PROVE FALSE
    OBVIOUS
  <2>2. g.pc \in {"load", "release", "end", "setNil", "read", "run"}
    BY <1>1, <1>2, <2>1, Outer DEF Calling
  <2> QED
    BY <2>2 DEF InTables, Registers
<1>4. g = Top(u)
  BY <1>1, <1>2, <1>3, Tops
<1>5. Locals(g) /\ Variables(g) /\ HasLocked(g, Holds(u))
  BY <1>2, <1>4, Knows
<1>6. g.fn \in StoreFns \cup {"loadWeak"}
  BY <1>5, PlacesOf DEF Stores, Inits, StoreFns
<1>7. value[g.loc] = g.old
  <2>1. CASE g.pc \in {"fast", "slow"}
    BY <1>5, <2>1 DEF Variables
  <2>2. CASE g.pc \in InTables \cup Registers
    <3>1. g.fn \in StoreFns
      BY <1>5, <2>2, PlacesOf DEF Stores, Inits, StoreFns
    <3>2. HaveOld(g)
      BY <3>1 DEF HaveOld, Inits, StoreFns
    <3> QED
      BY <1>5, <2>2, <3>2 DEF Variables
  <2> QED
    BY <2>1, <2>2
<1>8. Stripe[g.old] \in Holds(u)
  BY <1>5 DEF HasLocked, InSection, InTables, Registers
<1> QED
  BY <1>2, <1>3, <1>4, <1>7, <1>8

(* Nor does a call that comes from a variable which another call uses.     *)
LEMMA OneMover ==
  ASSUME IInv, NEW t \in Threads, NEW u \in Threads \ {t}, stack[t] # <<>>, stack[u] # <<>>,
         Top(t).fn \in StoreFns, Top(t).pc \in InTables \cup Registers,
         Top(u).fn \in StoreFns, Top(u).pc \in InTables \cup Registers
  PROVE  Top(t).loc # Top(u).loc
<1> SUFFICES ASSUME Top(t).loc = Top(u).loc PROVE FALSE
  OBVIOUS
<1>1. Types /\ Calling
  BY DEF IInv
<1>2. /\ Len(stack[t]) \in DOMAIN stack[t] /\ Top(t) = stack[t][Len(stack[t])]
      /\ Len(stack[u]) \in DOMAIN stack[u] /\ Top(u) = stack[u][Len(stack[u])]
  BY <1>1, Tops
<1>3. Top(t).loc \notin Owns(Top(t)) /\ Top(u).loc \notin Owns(Top(u))
  <2>1. PICK i \in DOMAIN stack[t] : Top(t) = stack[t][i]
    BY <1>2
  <2>2. PICK j \in DOMAIN stack[u] : Top(u) = stack[u][j]
    BY <1>2
  <2>3. ~Kin(t, i, u, j) /\ ~Kin(u, j, t, i) /\ Exclusive
    BY <1>1 DEF Kin, Calling
  <2>4. Owns(stack[t][i]) \cap {stack[u][j].loc, stack[u][j].src} = {}
    BY <2>3 DEF Exclusive
  <2>5. Owns(stack[u][j]) \cap {stack[t][i].loc, stack[t][i].src} = {}
    BY <2>3 DEF Exclusive
  <2>6. stack[t][i].loc = stack[u][j].loc
    BY <2>1, <2>2
  <2> QED
    BY <2>1, <2>2, <2>4, <2>5, <2>6
<1>4. Top(t).fn \in Stores /\ Top(u).fn \in Stores
  BY <1>3 DEF Owns, StoreFns, Stores
<1>5. /\ value[Top(t).loc] = Top(t).old /\ Stripe[Top(t).old] \in Holds(t)
      /\ value[Top(u).loc] = Top(u).old /\ Stripe[Top(u).old] \in Holds(u)
  BY <1>2, <1>4, ValueLocked DEF Stores, Inits
<1> QED
  BY <1>5 DEF Holds

LEMMA AssignStep ==
  ASSUME IInv, NEW t \in Threads, Assign(t)
  PROVE  IInv'
<1>1. PICK f \in FrameType : f = Top(t) /\ stack[t] # <<>> /\ f.fn \in StoreFns /\ f.pc = "assign"
  BY Knows DEF Assign, At, Locals
<1>2. /\ Types /\ Calling /\ Storing /\ Counting
      /\ Locals(f) /\ Variables(f) /\ HasLocked(f, Holds(t)) /\ Pairs(f)
  BY <1>1, Knows
<1>3. Unlock(t) /\ Return(t) /\ UNCHANGED <<table, objects, class>>
  BY DEF Assign
<1>4. /\ Holds(t)' = {} /\ LocksOfOthers(t)
      /\ lock' \in [Stripes -> Threads \cup {NoThread}]
  BY <1>2, <1>3, UnlockAll
<1>5. PICK n \in Nat \ {0} : n = Len(stack[t])
  BY <1>1, <1>2, Tops
<1>6. /\ Calling' /\ Cut(t, n - 1, n - 1) /\ stack[t][n] = f
      /\ n - 1 > 0 => /\ stack'[t][n - 1] = stack[t][n - 1]
                      /\ Quiet(stack[t][n - 1]) /\ Above(stack[t][n - 1], f)
  BY <1>1, <1>2, <1>3, <1>4, <1>5, Ascend DEF StoreFns
<1>7. PICK l \in Locations : l = f.loc
  BY <1>1, <1>2, PlacesOf DEF StoreFns
<1>8. /\ StoredAt(l)
      /\ HaveNew(f) => value'[l] = f.new /\ isWeak'[l]
      /\ ~HaveNew(f) => value'[l] = value[l] /\ ~isWeak'[l]
  <2>1. f.new \in Objects \cup {Nil}
    BY DEF FrameType
  <2>2. CASE HaveNew(f)
    <3>1. value' = [value EXCEPT ![l] = f.new] /\ isWeak' = [isWeak EXCEPT ![l] = TRUE]
      BY <1>1, <1>7, <2>2 DEF Assign
    <3> QED
      BY <1>2, <2>1, <2>2, <3>1 DEF Types, StoredAt
  <2>3. CASE ~HaveNew(f)
    <3>1. value' = value /\ isWeak' = [isWeak EXCEPT ![l] = FALSE]
      BY <1>1, <1>7, <2>3 DEF Assign
    <3> QED
      BY <1>2, <2>3, <3>1 DEF Types, StoredAt
  <2> QED
    BY <2>2, <2>3
<1>9. f.fn \in Stores => isWeak[l] /\ isWeak'[l] /\ HaveNew(f)
  BY <1>2, <1>7, <1>8 DEF Variables, HaveNew, Stores
<1>10. f.fn \notin Stores => l \in Owns(f)
  BY <1>1, <1>7 DEF Owns, Stores, StoreFns
<1>11. \A u \in Threads \ {t} : \A i \in DOMAIN stack[u] : \A g :
         g = stack[u][i] => Variables(g)'
  <2> SUFFICES ASSUME NEW u \in Threads \ {t}, NEW i \in DOMAIN stack[u], NEW g, g = stack[u][i]
               PROVE  Variables(g)'
    OBVIOUS
  <2>1. Locals(g) /\ Variables(g)
    BY <1>2 DEF Calling, Nested, Storing, VariablesOf
  <2>2. CASE f.fn \in Stores
    <3>1. ASSUME g.loc = l, g.pc \in {"fast", "slow"} \cup InTables \cup Registers PROVE FALSE
      <4>1. g.fn \notin Inits
        BY <1>9, <2>1, <2>2, <3>1 DEF Variables
      <4>2. value[l] = g.old /\ Stripe[g.old] \in Holds(u)
        BY <3>1, <4>1, ValueLocked
      <4>3. value[l] = f.old /\ Stripe[f.old] \in Holds(t)
        BY <1>1, <1>2, <1>7, <2>2
        DEF Variables, HaveOld, HasLocked, InSection, InTables, Stores, Inits
      <4> QED
        BY <4>2, <4>3 DEF Holds
    <3> QED
      BY <1>8, <1>9, <2>1, <2>2, <3>1, VariablesStored
  <2>3. CASE f.fn \notin Stores
    <3>1. l \notin {g.loc, g.src}
      BY <1>1, <1>2, <1>5, <1>10, <2>3, OwnedElsewhere
    <3> QED
      BY <1>8, <2>1, <3>1, VariablesElsewhere
  <2> QED
    BY <2>2, <2>3
<1>12. \A i \in 1..n - 1 : \A g : g = stack'[t][i] => Variables(g)'
  <2> SUFFICES ASSUME NEW i \in 1..n - 1, NEW g, g = stack'[t][i] PROVE Variables(g)'
    OBVIOUS
  <2>1. i \in DOMAIN stack[t] /\ i # n /\ i \in 1..Len(stack[t]) /\ g = stack[t][i]
    BY <1>5, <1>6 DEF Cut, Below
  <2>2. Locals(g) /\ Variables(g)
    BY <1>2, <2>1 DEF Calling, Nested, Storing, VariablesOf
  <2>3. g.pc \in {"load", "release", "end", "setNil", "read", "run"}
    BY <1>2, <1>5, <2>1, Outer DEF Calling
  <2>4. CASE f.fn \in Stores
    <3>1. g.pc \notin {"fast", "slow"} \cup InTables \cup Registers
      BY <2>3 DEF InTables, Registers
    <3> QED
      BY <1>8, <1>9, <2>2, <2>4, <3>1, VariablesStored
  <2>5. CASE f.fn \notin Stores /\ l \notin {g.loc, g.src}
    BY <1>8, <2>2, <2>5, VariablesElsewhere
  <2>6. CASE f.fn \notin Stores /\ g.fn \in Copies /\ Above(g, f)
    <3>1. /\ g.loc \in Locations /\ g.src \in Locations /\ g.src # g.loc
          /\ \/ g.pc = "release" /\ l = g.loc
             \/ g.pc = "setNil"
      BY <1>1, <1>7, <2>2, <2>6 DEF Above, Locals, Copies, StoreFns
    <3> QED
      BY <1>8, <2>2, <2>6, <3>1
      DEF Variables, StoredAt, HaveOld, Copies, Inits, Stores, InTables, Registers
  <2> QED
    BY <1>1, <1>2, <1>5, <1>10, <2>1, <2>4, <2>5, <2>6, OwnedElsewhere
<1>13. n - 1 > 0 => \A g : g = stack'[t][n - 1] =>
         (g.pc = "setNil" => ~isWeak'[g.src]) /\ Pairs(g)'
  <2> SUFFICES ASSUME n - 1 > 0, NEW g, g = stack'[t][n - 1]
               PROVE  (g.pc = "setNil" => ~isWeak'[g.src]) /\ Pairs(g)'
    OBVIOUS
  <2>1. Quiet(g) /\ Above(g, f)
    BY <1>6
  <2>2. Pairs(g)'
    BY <2>1 DEF Quiet, Pairs, Registers
  <2>3. g.pc = "setNil" => f.fn = "destroyWeak" /\ g.src = l
    BY <1>1, <1>7, <2>1 DEF Above, StoreFns, Copies
  <2> QED
    BY <1>8, <2>2, <2>3 DEF HaveNew
<1>14. HaveNew(f) /\ f.new # Nil => f.new \in Objects /\ memory[f.new] = "live"
  BY <1>1, TopGiven
<1>15. \A u \in Threads \ {t} :
         stack[u] # <<>> /\ Top(u).fn = "dealloc" /\ Top(u).pc = "free"
           => ~(isWeak'[l] /\ value'[l] = Top(u).old)
  <2> SUFFICES ASSUME NEW u \in Threads \ {t}, stack[u] # <<>>, Top(u).fn = "dealloc",
                      isWeak'[l], value'[l] = Top(u).old
               PROVE  FALSE
    OBVIOUS
  <2>1. Top(u).old \in Objects
    BY Knows DEF Locals
  <2>2. memory[Top(u).old] = "dealloc"
    <3>1. Len(stack[u]) \in DOMAIN stack[u] /\ Top(u) = stack[u][Len(stack[u])]
      BY <1>2, Tops
    <3> QED
      BY <1>2, <3>1 DEF Counting, OneDealloc
  <2>3. f.new = Top(u).old /\ HaveNew(f)
    BY <1>8
  <2> QED
    BY <1>14, <2>1, <2>2, <2>3, WeakAssumption
<1>16. \A u \in Threads \ {t} : stack[u] # <<>> /\ Top(u).pc = "setNil" => Top(u).src # l
  <2> SUFFICES ASSUME NEW u \in Threads \ {t}, stack[u] # <<>>, Top(u).pc = "setNil",
                      Top(u).src = l
               PROVE  FALSE
    OBVIOUS
  <2>1. Top(u).fn = "moveWeak"
    BY Knows, PlacesOf
  <2>2. l \in Owns(Top(u))
    BY <2>1 DEF Owns
  <2>3. n \in DOMAIN stack[t]
    BY <1>2, <1>5, Tops
  <2>4. l \notin {stack[t][n].loc, stack[t][n].src}
    BY <1>2, <2>2, <2>3, OwnedElsewhere
  <2> QED
    BY <1>6, <1>7, <2>4
<1>17. \A o \in Objects : \A x \in Locations \ {l} : ~Moves(Top(t), o, x) /\ ~Clears(Top(t), o)
  BY <1>1, <1>7 DEF Moves, Clears, StoreFns
<1>18. \A o \in Objects :
         \/ <<o, l>> \in table <=> isWeak'[l] /\ value'[l] = o
         \/ \E u \in Threads \ {t} : stack[u] # <<>> /\ Clears(Top(u), o) /\ value'[l] # o
  <2> SUFFICES ASSUME NEW o \in Objects
               PROVE  \/ <<o, l>> \in table <=> isWeak'[l] /\ value'[l] = o
                      \/ \E u \in Threads \ {t} : /\ stack[u] # <<>> /\ Clears(Top(u), o)
                                                  /\ value'[l] # o
    OBVIOUS
  <2>1. CASE HaveNew(f) /\ o = f.new
    <3>1. o # Nil
      BY WeakAssumption
    <3>2. <<o, l>> \in table
      BY <1>1, <1>2, <1>7, <2>1, <3>1 DEF Pairs
    <3> QED
      BY <1>8, <2>1, <3>2
  <2>2. CASE ~(HaveNew(f) /\ o = f.new)
    <3>1. ~(isWeak'[l] /\ value'[l] = o)
      BY <1>8, <2>2
    <3>2. HaveOld(f) /\ f.old = o => <<o, l>> \notin table
      BY <1>1, <1>2, <1>7, <2>2 DEF Pairs
    <3>3. CASE <<o, l>> \in table <=> isWeak[l] /\ value[l] = o
      <4>1. HaveOld(f) => value[l] = f.old
        BY <1>1, <1>2, <1>7 DEF Variables, InTables
      <4>2. ~HaveOld(f) => ~isWeak[l]
        BY <1>1, <1>2, <1>7 DEF Variables, HaveOld, Inits, StoreFns
      <4> QED
        BY <3>1, <3>2, <3>3, <4>1, <4>2
    <3>4. ASSUME NEW u \in Threads, stack[u] # <<>>, Moves(Top(u), o, l)
          PROVE  <<o, l>> \notin table
      <4>1. CASE u = t
        BY <1>1, <2>2, <3>2, <3>4, <4>1 DEF Moves, Removed, Added
      <4>2. CASE u # t
        <5>1. Top(u).fn \in StoreFns /\ Top(u).pc \in InTables \cup Registers /\ Top(u).loc = l
          BY <3>4 DEF Moves, Removed, Added, InTables, Registers
        <5>2. f.pc \in InTables
          BY <1>1 DEF InTables
        <5> QED
          BY <1>1, <1>7, <3>4, <4>2, <5>1, <5>2, OneMover
      <4> QED
        BY <4>1, <4>2
    <3>5. ASSUME NEW u \in Threads, stack[u] # <<>>, Clears(Top(u), o), value[l] # o
          PROVE  u # t /\ value'[l] # o
      BY <1>1, <1>8, <2>2, <3>5 DEF Clears, StoreFns
    <3> QED
      BY <1>2, <3>1, <3>3, <3>4, <3>5 DEF Storing, TablesAgree
  <2> QED
    BY <2>1, <2>2
<1>19. isWeak'[l] /\ value'[l] # Nil => memory[value'[l]] # "free" /\ weakBit[value'[l]]
  BY <1>1, <1>2, <1>8, <1>14 DEF Pairs
<1>20. UNCHANGED <<table, weakBit, memory, held>>
  BY <1>3 DEF objects
<1>21. Storing'
  BY <1>6, <1>8, <1>11, <1>12, <1>13, <1>15, <1>16, <1>17, <1>18, <1>19, <1>20, StoringStored
<1>22. Counting'
  <2>1. \A i \in n - 1 + 1..n - 1 : FALSE
    OBVIOUS
  <2> QED
    BY <1>2, <1>6, <1>20, <2>1, CountingKept
<1>23. Types'
  BY <1>2, <1>3, <1>4, <1>6, <1>8, <1>20 DEF Types, Cut, StoredAt
<1> QED
  BY <1>6, <1>21, <1>22, <1>23 DEF IInv

-----------------------------------------------------------------------------
(* Storage that becomes a variable which is nil                            *)

LEMMA StoredNil ==
  ASSUME IInv, NEW t \in Threads, NEW m, NEW k, Cut(t, m, k),
         NEW l \in Locations, ~isWeak[l], StoredAt(l), value'[l] = Nil, isWeak'[l],
         UNCHANGED <<table, weakBit, memory>>,
         \A u \in Threads \ {t} : \A j \in DOMAIN stack[u] :
           l \notin {stack[u][j].loc, stack[u][j].src},
         \A i \in 1..k : \A f : f = stack'[t][i] => Variables(f)',
         k > 0 => Quiet(stack'[t][k]) /\ stack'[t][k].pc # "setNil",
         stack[t] # <<>> => Quiet(Top(t))
  PROVE  Storing'
<1>1. Types /\ Calling /\ Storing
  BY DEF IInv
<1>2. StoredAt(l) /\ value'[l] = Nil /\ isWeak'[l]
  OBVIOUS
<1>3. \A u \in Threads \ {t} : \A i \in DOMAIN stack[u] : \A f :
        f = stack[u][i] => Variables(f)'
  <2> SUFFICES ASSUME NEW u \in Threads \ {t}, NEW i \in DOMAIN stack[u], NEW f, f = stack[u][i]
               PROVE  Variables(f)'
    OBVIOUS
  <2>1. Locals(f) /\ Variables(f) /\ l \notin {f.loc, f.src}
    BY <1>1 DEF Calling, Nested, Storing, VariablesOf
  <2> QED
    BY <1>2, <2>1, VariablesElsewhere
<1>4. k > 0 => \A f : f = stack'[t][k] => (f.pc = "setNil" => ~isWeak'[f.src]) /\ Pairs(f)'
  <2> SUFFICES ASSUME NEW f, Quiet(f), f.pc # "setNil"
               PROVE  (f.pc = "setNil" => ~isWeak'[f.src]) /\ Pairs(f)'
    OBVIOUS
  <2> QED
    BY DEF Quiet, Pairs, Registers
<1>5. \A u \in Threads \ {t} : stack[u] # <<>> =>
        l \notin {Top(u).loc, Top(u).src} /\ (Top(u).fn = "dealloc" => Top(u).old # Nil)
  <2> SUFFICES ASSUME NEW u \in Threads \ {t}, stack[u] # <<>>
               PROVE  l \notin {Top(u).loc, Top(u).src} /\ (Top(u).fn = "dealloc" => Top(u).old # Nil)
    OBVIOUS
  <2>1. Len(stack[u]) \in DOMAIN stack[u] /\ Top(u) = stack[u][Len(stack[u])]
    BY <1>1, Tops
  <2>2. Top(u).fn = "dealloc" => Top(u).old \in Objects
    BY Knows DEF Locals
  <2> QED
    BY <2>1, <2>2, WeakAssumption
<1>6. stack[t] # <<>> => \A o, x : ~Moves(Top(t), o, x) /\ ~Clears(Top(t), o)
  BY QuietPairs
<1>7. \A o \in Objects :
        \/ <<o, l>> \in table <=> isWeak'[l] /\ value'[l] = o
        \/ \E u \in Threads \ {t} : stack[u] # <<>> /\ Clears(Top(u), o) /\ value'[l] # o
  <2> SUFFICES ASSUME NEW o \in Objects, <<o, l>> \in table
               PROVE  \E u \in Threads \ {t} : stack[u] # <<>> /\ Clears(Top(u), o) /\ value'[l] # o
    BY <1>2, WeakAssumption
  <2>1. PICK u \in Threads : /\ stack[u] # <<>>
                             /\ Moves(Top(u), o, l) \/ (Clears(Top(u), o) /\ value[l] # o)
    BY <1>1 DEF Storing, TablesAgree
  <2>2. u # t
    BY <1>6, <2>1
  <2>3. ~Moves(Top(u), o, l)
    BY <1>5, <2>1, <2>2 DEF Moves
  <2> QED
    BY <1>2, <2>1, <2>2, <2>3, WeakAssumption
<1>8. isWeak'[l] /\ value'[l] # Nil => memory[value'[l]] # "free" /\ weakBit[value'[l]]
  BY <1>2
<1>9. \A u \in Threads \ {t} : stack[u] # <<>> /\ Top(u).fn = "dealloc" /\ Top(u).pc = "free"
        => ~(isWeak'[l] /\ value'[l] = Top(u).old)
  BY <1>2, <1>5
<1>10. \A u \in Threads \ {t} : stack[u] # <<>> /\ Top(u).pc = "setNil" => Top(u).src # l
  BY <1>5
<1> QED
  BY <1>2, <1>3, <1>4, <1>6, <1>7, <1>8, <1>9, <1>10, StoringStored

(* A call that copies has its variables to itself.                         *)
LEMMA CopiesAlone ==
  ASSUME Types, Calling, NEW t \in Threads, stack[t] # <<>>, Top(t).fn \in Copies,
         NEW n, n = Len(stack[t]), NEW l \in Owns(Top(t)),
         NEW u \in Threads, NEW j \in DOMAIN stack[u], ~(u = t /\ j = n)
  PROVE  l \notin {stack[u][j].loc, stack[u][j].src}
<1>1. \A f : f.fn \in Copies => ~Above(f, Top(t))
  BY DEF Above, Copies, Inits, StoreFns
<1> QED
  BY <1>1, OwnedElsewhere

LEMMA MoveSetNilStep ==
  ASSUME IInv, NEW t \in Threads, MoveSetNil(t)
  PROVE  IInv'
<1>1. PICK f \in FrameType : f = Top(t) /\ stack[t] # <<>> /\ f.fn = "moveWeak" /\ f.pc = "setNil"
  BY Knows DEF MoveSetNil, At, Locals
<1>2. /\ Types /\ Calling /\ Storing /\ Counting
      /\ Locals(f) /\ Variables(f) /\ HasLocked(f, Holds(t)) /\ ~isWeak[f.src]
  BY <1>1, Knows
<1>3. Return(t) /\ UNCHANGED <<table, objects, class, lock>>
  BY DEF MoveSetNil
<1>4. Holds(t)' = {} /\ LocksOfOthers(t)
  BY <1>1, <1>2, <1>3, SameLocks DEF HasLocked, InSection, InTables, Registers
<1>5. PICK n \in Nat \ {0} : n = Len(stack[t])
  BY <1>1, <1>2, Tops
<1>6. /\ Calling' /\ Cut(t, n - 1, n - 1)
      /\ n - 1 > 0 => /\ stack'[t][n - 1] = stack[t][n - 1]
                      /\ Quiet(stack[t][n - 1]) /\ Above(stack[t][n - 1], f)
  BY <1>1, <1>2, <1>3, <1>4, <1>5, Ascend
<1>7. PICK l \in Locations : l = f.src
  BY <1>1, <1>2, PlacesOf DEF Copies
<1>8. StoredAt(l) /\ value'[l] = Nil /\ isWeak'[l] /\ l \in Owns(f)
  BY <1>1, <1>2, <1>7 DEF MoveSetNil, Owns, StoredAt, Types
<1>9. \A u \in Threads : \A j \in DOMAIN stack[u] :
        ~(u = t /\ j = n) => l \notin {stack[u][j].loc, stack[u][j].src}
  BY <1>1, <1>2, <1>5, <1>8, CopiesAlone DEF Copies
<1>10. \A i \in 1..n - 1 : \A g : g = stack'[t][i] => Variables(g)'
  <2> SUFFICES ASSUME NEW i \in 1..n - 1, NEW g, g = stack'[t][i] PROVE Variables(g)'
    OBVIOUS
  <2>1. i \in DOMAIN stack[t] /\ i # n /\ g = stack[t][i]
    BY <1>5, <1>6 DEF Cut, Below
  <2>2. Locals(g) /\ Variables(g) /\ l \notin {g.loc, g.src}
    BY <1>2, <1>9, <2>1 DEF Calling, Nested, Storing, VariablesOf
  <2> QED
    BY <1>8, <2>2, VariablesElsewhere
<1>11. n - 1 > 0 => Quiet(stack'[t][n - 1]) /\ stack'[t][n - 1].pc # "setNil"
  BY <1>1, <1>6 DEF Above, Copies, Inits, StoreFns
<1>12. Quiet(Top(t)) /\ UNCHANGED <<table, weakBit, memory, held>>
  BY <1>1, <1>3 DEF Quiet, objects
<1>13. Storing'
  <2>1. \A u \in Threads \ {t} : \A j \in DOMAIN stack[u] :
          l \notin {stack[u][j].loc, stack[u][j].src}
    BY <1>9
  <2>2. ~isWeak[l] /\ Cut(t, n - 1, n - 1) /\ UNCHANGED <<table, weakBit, memory>>
    BY <1>2, <1>6, <1>7, <1>12
  <2> QED
    BY <1>8, <1>10, <1>11, <1>12, <2>1, <2>2, StoredNil
<1>14. Counting'
  <2>1. \A i \in n - 1 + 1..n - 1 : FALSE
    OBVIOUS
  <2> QED
    BY <1>2, <1>6, <1>12, <2>1, CountingKept
<1>15. Types'
  BY <1>2, <1>3, <1>6, <1>8, <1>12 DEF Types, Cut, StoredAt
<1> QED
  BY <1>6, <1>13, <1>14, <1>15 DEF IInv

-----------------------------------------------------------------------------
(* The steps of copyWeak and moveWeak                                      *)

LEMMA CopyEndStep ==
  ASSUME IInv, NEW t \in Threads, CopyEnd(t)
  PROVE  IInv'
<1>1. PICK f \in FrameType : f = Top(t) /\ stack[t] # <<>> /\ f.fn \in Copies /\ f.pc = "end"
  BY Knows DEF CopyEnd, At, Locals, Copies
<1>2. /\ Types /\ Calling /\ Exclusive /\ Locals(f) /\ Variables(f) /\ HasLocked(f, Holds(t))
      /\ \A u \in Threads : Nested(u)
  BY <1>1, Knows DEF Calling
<1>3. UNCHANGED <<storage, table, objects, class, lock>>
  BY DEF CopyEnd
<1>4. \A o \in Objects, l \in Locations : ~Moves(f, o, l) /\ ~Clears(f, o)
  BY <1>1, QuietPairs DEF Quiet
<1>5. /\ lock' \in [Stripes -> Threads \cup {NoThread}] /\ LocksOfOthers(t) /\ Holds(t)' = {}
      /\ class' \in [Objects -> {"no", "initializing", "defaultRR", "initialized"}]
  BY <1>1, <1>2, <1>3, SameLocks DEF Types, HasLocked, InSection, InTables, Registers
<1>6. CASE f.fn = "copyWeak" /\ Return(t)
  BY <1>1, <1>3, <1>4, <1>5, <1>6, Back
<1>7. CASE /\ f.fn = "moveWeak"
           /\ GotoAndEnter(t, "setNil", Frame("destroyWeak", f.src, Nil, Nil, Nil, "read"))
  <2>1. PICK g : g = Frame("destroyWeak", f.src, Nil, Nil, Nil, "read")
    OBVIOUS
  <2>2. PICK f1 : f1 = [f EXCEPT !.pc = "setNil"]
    OBVIOUS
  <2>3. BecomeEnter(t, f1, g)
    BY <1>1, <1>7, <2>1, <2>2 DEF BecomeEnter, GotoAndEnter
  <2>4. /\ f1 \in FrameType /\ f1.fn = f.fn /\ f1.loc = f.loc /\ f1.src = f.src
        /\ f1.new = f.new /\ f1.pc = "setNil" /\ f1.old = f.old
    BY <2>2 DEF FrameType
  <2>5. Locals(f1) /\ SameShape(f1, f) /\ Quiet(f1)
    BY <1>1, <1>2, <1>7, <2>4 DEF Locals, Places, Stores, Inits, Copies, SameShape, Quiet
  <2>6. Variables(f1)
    BY <1>1, <1>2, <1>7, <2>4 DEF Variables, HaveOld, InTables, Registers, Stores, Inits, Copies
  <2>7. f.src \in Locations /\ isWeak[f.src]
    BY <1>1, <1>2, <1>7 DEF Locals, Variables, Copies
  <2>8. /\ g.fn = "destroyWeak" /\ g.loc = f.src /\ g.src = Nil /\ g.old = Nil /\ g.new = Nil
        /\ g.pc = "read" /\ g \in FrameType
    BY <2>1, <2>7 DEF Frame, FrameType, Functions
  <2>9. Locals(g) /\ Variables(g)
    BY <2>7, <2>8
    DEF Locals, Places, Variables, HaveOld, InTables, Registers, Stores, Inits, Copies
  <2>10. Above(f1, g)
    BY <1>7, <2>4, <2>8 DEF Above
  <2>11. \A u \in Threads : \A j \in DOMAIN stack[u] :
           Apart(g, stack[u][j]) \/ (u = t /\ j = Len(stack[t]) /\ f1.fn \in Copies)
    <3>1. /\ {g.loc, g.src} \subseteq Owns(Top(t)) \cup {Nil}
          /\ Nil \notin Owns(g)
      BY <1>1, <1>7, <2>7, <2>8, WeakAssumption DEF Owns
    <3> QED
      BY <1>1, <1>2, <2>4, <3>1, ChildApart
  <2>12. f.fn # "dealloc" /\ g.fn # "dealloc" /\ ~HaveNew(g) /\ f1.pc \notin {"init", "release"}
    BY <1>7, <2>4, <2>8 DEF HaveNew
  <2> QED
    BY <1>1, <1>3, <1>4, <1>5, <2>3, <2>4, <2>5, <2>6, <2>8, <2>9, <2>10, <2>11, <2>12, CallsOn
<1> QED
  BY <1>1, <1>6, <1>7 DEF CopyEnd, Copies

LEMMA CopyInitStep ==
  ASSUME IInv, NEW t \in Threads, CopyInit(t)
  PROVE  IInv'
<1>1. PICK f \in FrameType : f = Top(t) /\ stack[t] # <<>> /\ f.fn \in Copies /\ f.pc = "init"
  BY Knows DEF CopyInit, At, Locals, Copies
<1>2. /\ Types /\ Calling /\ Storing /\ Counting /\ Exclusive
      /\ Locals(f) /\ Variables(f) /\ HasLocked(f, Holds(t))
      /\ \A u \in Threads : Nested(u)
  BY <1>1, Knows DEF Calling
<1>3. UNCHANGED <<table, objects, class, lock>>
  BY DEF CopyInit
<1>4. \A o \in Objects, l \in Locations : ~Moves(f, o, l) /\ ~Clears(f, o)
  BY <1>1, QuietPairs DEF Quiet
<1>5. /\ lock' \in [Stripes -> Threads \cup {NoThread}] /\ LocksOfOthers(t) /\ Holds(t)' = {}
      /\ class' \in [Objects -> {"no", "initializing", "defaultRR", "initialized"}]
  BY <1>1, <1>2, <1>3, SameLocks DEF Types, HasLocked, InSection, InTables, Registers
<1>6. PICK f1 : f1 = [f EXCEPT !.pc = "release"]
  OBVIOUS
<1>7. /\ f1 \in FrameType /\ f1.fn = f.fn /\ f1.loc = f.loc /\ f1.src = f.src
      /\ f1.new = f.new /\ f1.pc = "release" /\ f1.old = f.old
  BY <1>6 DEF FrameType
<1>8. Locals(f1) /\ SameShape(f1, f) /\ Quiet(f1)
  BY <1>1, <1>2, <1>7 DEF Locals, Places, Stores, Inits, Copies, SameShape, Quiet
<1>9. PICK l \in Locations : l = f.loc
  BY <1>1, <1>2, PlacesOf DEF Copies
<1>10. l \in Owns(f) /\ ~isWeak[l] /\ l # f.src
  BY <1>1, <1>2, <1>9 DEF Owns, Copies, Variables, Locals
<1>11. CASE f.new # Nil
  <2>1. PICK g : g = Frame("initWeak", f.loc, Nil, Nil, f.new, "read")
    OBVIOUS
  <2>2. BecomeEnter(t, f1, g) /\ UNCHANGED storage
    BY <1>1, <1>6, <1>11, <2>1 DEF BecomeEnter, GotoAndEnter, CopyInit
  <2>3. /\ f.new \in Objects /\ held[t][f.new] > 0
    BY <1>1, <1>11, TopGiven DEF OrNil, Copies
  <2>4. /\ g.fn = "initWeak" /\ g.loc = l /\ g.src = Nil /\ g.old = Nil /\ g.new = f.new
        /\ g.pc = "read" /\ g \in FrameType
    BY <1>9, <2>1, <2>3 DEF Frame, FrameType, Functions
  <2>5. Locals(g) /\ Variables(g)
    BY <1>10, <2>4
    DEF Locals, Places, Variables, HaveOld, InTables, Registers, Stores, Inits, Copies
  <2>6. Above(f1, g)
    BY <1>1, <1>7, <1>9, <2>4 DEF Above, Inits
  <2>7. Variables(f1)
    BY <1>1, <1>2, <1>7 DEF Variables, HaveOld, InTables, Registers, Stores, Inits, Copies
  <2>8. \A u \in Threads : \A j \in DOMAIN stack[u] :
          Apart(g, stack[u][j]) \/ (u = t /\ j = Len(stack[t]) /\ f1.fn \in Copies)
    <3>1. /\ {g.loc, g.src} \subseteq Owns(Top(t)) \cup {Nil}
          /\ Nil \notin Owns(g)
      BY <1>1, <1>10, <2>4, WeakAssumption DEF Owns
    <3> QED
      BY <1>1, <1>2, <1>7, <3>1, ChildApart
  <2>9. f.fn # "dealloc" /\ g.fn # "dealloc"
    BY <1>1, <2>4 DEF Copies
  <2> QED
    BY <1>1, <1>3, <1>4, <1>5, <1>7, <1>8, <2>2, <2>3, <2>4, <2>5, <2>6, <2>7, <2>8, <2>9, CallsOn
<1>12. CASE f.new = Nil
  <2>1. Become(t, f1) /\ StoredAt(l) /\ value'[l] = Nil /\ isWeak'[l]
    BY <1>1, <1>2, <1>6, <1>9, <1>12 DEF CopyInit, Goto, StoredAt, Types
  <2>2. PICK n \in Nat \ {0} : n = Len(stack[t])
    BY <1>1, <1>2, Tops
  <2>3. HasLocked(f1, Holds(t)')
    BY <1>5, <1>7 DEF HasLocked, InSection, InTables, Registers
  <2>4. Calling' /\ Cut(t, n - 1, n) /\ stack'[t][n] = f1 /\ stack[t][n] = f
    <3>1. SameShape(f1, Top(t)) /\ Locals(f1) /\ f1.pc # "load" /\ Become(t, f1)
      BY <1>1, <1>7, <1>8, <2>1
    <3>2. stack[t] # <<>> /\ Types /\ Calling /\ LocksOfOthers(t) /\ f = Top(t)
      BY <1>1, <1>2, <1>5
    <3> QED
      BY <2>2, <2>3, <3>1, <3>2, Advance
  <2>5. \A u \in Threads : \A j \in DOMAIN stack[u] :
          ~(u = t /\ j = n) => l \notin {stack[u][j].loc, stack[u][j].src}
    BY <1>1, <1>2, <1>10, <2>2, CopiesAlone
  <2>6. \A i \in 1..n : \A g : g = stack'[t][i] => Variables(g)'
    <3> SUFFICES ASSUME NEW i \in 1..n, NEW g, g = stack'[t][i] PROVE Variables(g)'
      OBVIOUS
    <3>1. CASE i = n
      <4>1. f.src \in Locations
        BY <1>1, <1>2 DEF Locals
      <4> QED
        BY <1>1, <1>2, <1>7, <1>10, <2>1, <2>4, <3>1, <4>1
        DEF Variables, StoredAt, HaveOld, InTables, Registers, Stores, Inits, Copies
    <3>2. CASE i # n
      <4>1. i \in DOMAIN stack[t] /\ g = stack[t][i]
        BY <2>2, <2>4, <3>2 DEF Cut, Below
      <4>2. Locals(g) /\ Variables(g) /\ l \notin {g.loc, g.src}
        BY <1>2, <2>5, <3>2, <4>1 DEF Calling, Nested, Storing, VariablesOf
      <4> QED
        BY <2>1, <4>2, VariablesElsewhere
    <3> QED
      BY <3>1, <3>2
  <2>7. Quiet(stack'[t][n]) /\ stack'[t][n].pc # "setNil" /\ Quiet(Top(t))
    BY <1>1, <1>7, <1>8, <2>4 DEF Quiet
  <2>8. UNCHANGED <<table, weakBit, memory, held>>
    BY <1>3 DEF objects
  <2>9. Storing'
    <3>1. \A u \in Threads \ {t} : \A j \in DOMAIN stack[u] :
            l \notin {stack[u][j].loc, stack[u][j].src}
      BY <2>5
    <3>2. ~isWeak[l] /\ Cut(t, n - 1, n) /\ UNCHANGED <<table, weakBit, memory>>
      BY <1>10, <2>4, <2>8
    <3> QED
      BY <2>1, <2>6, <2>7, <3>1, <3>2, StoredNil
  <2>10. Counting'
    <3>1. \A i \in n - 1 + 1..n : i = n /\ i \in DOMAIN stack[t]
      BY <2>2, <2>4 DEF Cut
    <3>2. Given(t, n)'
      BY <1>7, <1>12, <2>4 DEF Given
    <3>3. \A o : HasReference(f1, o) => HasReference(f, o)
      BY <1>1, <1>7 DEF HasReference
    <3>4. f1.fn # "dealloc"
      BY <1>1, <1>7 DEF Copies
    <3> QED
      BY <1>2, <2>4, <2>8, <3>1, <3>2, <3>3, <3>4, CountingKept
  <2>11. Types'
    BY <1>2, <1>3, <1>5, <2>1, <2>4, <2>8 DEF Types, Cut, StoredAt
  <2> QED
    BY <2>4, <2>9, <2>10, <2>11 DEF IInv
<1> QED
  BY <1>11, <1>12

-----------------------------------------------------------------------------
(* A reference goes                                                        *)

LEMMA GivenFewer ==
  ASSUME Types, NEW t \in Threads, NEW i \in 1..Len(stack[t]), Given(t, i), Below(t, i),
         NEW o \in Objects, held[t][o] > 0, held' = [held EXCEPT ![t][o] = @ - 1],
         \A x : ReferencesAbove(t, i, x)' \subseteq ReferencesAbove(t, i, x),
         stack[t][i].new = o /\ Cardinality(ReferencesAbove(t, i, o)) < held[t][o]
           => Cardinality(ReferencesAbove(t, i, o)') < held[t][o] - 1
  PROVE  Given(t, i)'
<1>1. PICK v : v = stack[t][i].new
  OBVIOUS
<1>2. i \in DOMAIN stack[t] /\ v \in Objects \cup {Nil} /\ stack'[t][i] = stack[t][i]
      /\ Below(t, i - 1)
  BY <1>1, Tops DEF FrameType, Below
<1>3. /\ \A x \in Objects \ {o} : held'[t][x] = held[t][x]
      /\ held'[t][o] = held[t][o] - 1
  BY OneFewer
<1>4. PICK c \in Nat : c = Cardinality(ReferencesAbove(t, i, v))
  BY References
<1>5. PICK d \in Nat : d = Cardinality(ReferencesAbove(t, i, v)')
  BY FewerReferences
<1>6. d <= c
  BY <1>4, <1>5, FewerReferences
<1>7. v # Nil /\ c < held[t][v] => d < held'[t][v]
  <2>1. CASE v = o
    BY <1>1, <1>3, <1>4, <1>5, <2>1
  <2>2. CASE v # o /\ v # Nil
    <3>1. held[t][v] \in Nat /\ held'[t][v] = held[t][v]
      BY <1>2, <1>3, <2>2 DEF Types
    <3> QED
      BY <1>6, <3>1
  <2> QED
    BY <2>1, <2>2
<1> QED
  BY <1>1, <1>2, <1>4, <1>5, <1>7, GivenKept

LEMMA CountingDropped ==
  ASSUME Types, Calling, Counting, NEW t \in Threads, NEW m, NEW k, Cut(t, m, k),
         NEW o \in Objects, held[t][o] > 0, Drop(t, o),
         \A i \in 1..m :
           stack[t][i].new = o /\ Cardinality(ReferencesAbove(t, i, o)) < held[t][o]
             => Cardinality(ReferencesAbove(t, i, o)') < held[t][o] - 1,
         \A i \in m + 1..k :
           /\ Given(t, i)'
           /\ \A x : HasReference(stack'[t][i], x) =>
                i \in DOMAIN stack[t] /\ HasReference(stack[t][i], x)
           /\ stack'[t][i].fn = "dealloc" =>
                LastReference(t, o) /\ i = k /\ stack'[t][i] = DeallocFrame(o),
         LastReference(t, o) => k > m /\ stack'[t][k] = DeallocFrame(o)
  PROVE  /\ Counting'
         /\ memory' \in [Objects -> {"free", "live", "dealloc"}]
         /\ held' \in [Threads -> [Objects -> Nat]]
         /\ \A x \in Objects : memory'[x] = "free" => memory[x] = "free"
<1>1. /\ held' \in [Threads -> [Objects -> Nat]]
      /\ \A u \in Threads \ {t} : held'[u] = held[u]
      /\ \A x \in Objects \ {o} : held'[t][x] = held[t][x]
      /\ held[t][o] \in Nat /\ held'[t][o] = held[t][o] - 1
  BY OneFewer DEF Drop
<1>2. memory[o] = "live" /\ memory \in [Objects -> {"free", "live", "dealloc"}]
  BY DEF Counting, HeldIsLive, Types
<1>3. /\ memory' \in [Objects -> {"free", "live", "dealloc"}]
      /\ \A x \in Objects : memory'[x] = "free" => memory[x] = "free"
  BY <1>2 DEF Drop
<1>4. \A u \in Threads \ {t} : \A i \in DOMAIN stack'[u] : Given(u, i)'
  BY <1>1, OthersGiven DEF Cut, Others, Counting
<1>5. \A i \in 1..m : Given(t, i)'
  <2> SUFFICES ASSUME NEW i \in 1..m PROVE Given(t, i)'
    OBVIOUS
  <2>1. i \in 1..Len(stack[t]) /\ i \in DOMAIN stack[t] /\ Below(t, i)
    BY DEF Cut, Below
  <2>2. Given(t, i)
    BY <2>1 DEF Counting
  <2>3. \A x : ReferencesAbove(t, i, x)' \subseteq ReferencesAbove(t, i, x)
    <3> SUFFICES ASSUME NEW x, NEW j \in DOMAIN stack'[t], j > i, HasReference(stack'[t][j], x)
                 PROVE  j \in DOMAIN stack[t] /\ HasReference(stack[t][j], x)
      BY DEF ReferencesAbove, HasReference
    <3>1. CASE j \in 1..m
      BY <3>1 DEF Cut, Below
    <3>2. CASE j \in m + 1..k
      BY <3>2
    <3> QED
      BY <3>1, <3>2 DEF Cut
  <2>4. held' = [held EXCEPT ![t][o] = @ - 1]
    BY DEF Drop
  <2> QED
    BY <2>1, <2>2, <2>3, <2>4, GivenFewer
<1>6. \A u \in Threads : \A i \in DOMAIN stack'[u] : Given(u, i)'
  BY <1>4, <1>5 DEF Cut
<1>7. OneDealloc'
  <2>1. CASE LastReference(t, o)
    <3>1. memory' = [memory EXCEPT ![o] = "dealloc"]
      BY <2>1 DEF Drop
    <3>2. \A i \in m + 1..k - 1 : stack'[t][i].fn # "dealloc"
      BY DEF Cut
    <3>3. k > 0 /\ stack'[t][k] = DeallocFrame(o)
      BY <2>1 DEF Cut
    <3>4. OneDealloc /\ \A u \in Threads : Nested(u)
      BY DEF Counting, Calling
    <3> QED
      BY <1>2, <3>1, <3>2, <3>3, <3>4, DeallocBegins
  <2>2. CASE ~LastReference(t, o)
    <3>1. memory' = memory
      BY <2>2 DEF Drop
    <3>2. \A i \in m + 1..k : stack'[t][i].fn # "dealloc"
      BY <2>2
    <3>3. OneDealloc
      BY DEF Counting
    <3> QED
      BY <3>1, <3>2, <3>3, DeallocKept
  <2> QED
    BY <2>1, <2>2
<1>8. HeldIsLive'
  <2> SUFFICES ASSUME NEW u \in Threads, NEW x \in Objects, held'[u][x] > 0
               PROVE  memory'[x] = "live"
    BY DEF HeldIsLive
  <2>1. held[u][x] > 0
    BY <1>1
  <2>2. memory[x] = "live"
    BY <2>1 DEF Counting, HeldIsLive
  <2>3. CASE LastReference(t, o) /\ x = o
    <3>1. held[t][o] = 1 /\ \A w \in Threads \ {t} : held[w][o] = 0
      BY <2>3 DEF LastReference
    <3>2. u = t
      BY <2>1, <2>3, <3>1
    <3>3. held'[t][o] = 0
      BY <1>1, <3>1
    <3> QED
      BY <2>3, <3>2, <3>3
  <2>4. CASE ~(LastReference(t, o) /\ x = o)
    BY <1>2, <2>2, <2>4 DEF Drop
  <2> QED
    BY <2>3, <2>4
<1> QED
  BY <1>1, <1>3, <1>6, <1>7, <1>8 DEF Counting

LEMMA DeallocLocals ==
  ASSUME NEW o \in Objects, NEW g, g = DeallocFrame(o)
  PROVE  /\ Locals(g) /\ Variables(g) /\ g.fn = "dealloc" /\ g.pc = "run" /\ g.new = Nil
         /\ ~InSection(g) /\ Quiet(g)
         /\ \A f : Nil \notin Owns(f) => Apart(g, f)
<1>1. /\ g.fn = "dealloc" /\ g.loc = Nil /\ g.src = Nil /\ g.old = o /\ g.new = Nil
      /\ g.pc = "run" /\ g.prev = FALSE
      /\ g = [fn |-> "dealloc", loc |-> Nil, src |-> Nil, old |-> o, new |-> Nil,
              prev |-> FALSE, pc |-> "run"]
  BY DEF DeallocFrame, Frame
<1>2. g \in FrameType
  BY <1>1 DEF FrameType
<1>3. Locals(g) /\ Variables(g)
  BY <1>1, <1>2
  DEF Locals, Variables, Places, HaveOld, Stores, Inits, Copies, InTables, Registers
<1> QED
  BY <1>1, <1>3 DEF InSection, InTables, Registers, Quiet, Apart, Owns

(* A call above that has a reference has it no longer.                     *)
LEMMA OneReferenceLess ==
  ASSUME Types, NEW t \in Threads, NEW i, NEW o, NEW n, n \in ReferencesAbove(t, i, o),
         ReferencesAbove(t, i, o)' \subseteq ReferencesAbove(t, i, o) \ {n}
  PROVE  \A h \in Nat : Cardinality(ReferencesAbove(t, i, o)) < h
                          => Cardinality(ReferencesAbove(t, i, o)') < h - 1
<1>1. PICK R : R = ReferencesAbove(t, i, o)
  OBVIOUS
<1>2. PICK Q : Q = ReferencesAbove(t, i, o)'
  OBVIOUS
<1>3. IsFiniteSet(R) /\ Cardinality(R) \in Nat /\ n \in R /\ Q \subseteq R \ {n}
  BY <1>1, <1>2, References
<1>4. IsFiniteSet(R \ {n}) /\ Cardinality(R \ {n}) = Cardinality(R) - 1
  BY <1>3, FS_RemoveElement
<1>5. Cardinality(Q) <= Cardinality(R) - 1 /\ Cardinality(Q) \in Nat
  BY <1>3, <1>4, FS_Subset, FS_CardinalityType
<1> QED
  BY <1>1, <1>2, <1>3, <1>5

LEMMA CopyReleaseStep ==
  ASSUME IInv, NEW t \in Threads, CopyRelease(t)
  PROVE  IInv'
<1>1. PICK f \in FrameType : f = Top(t) /\ stack[t] # <<>> /\ f.fn \in Copies /\ f.pc = "release"
  BY Knows DEF CopyRelease, At, Locals, Copies
<1>2. /\ Types /\ Calling /\ Storing /\ Counting
      /\ Locals(f) /\ Variables(f) /\ HasLocked(f, Holds(t))
  BY <1>1, Knows
<1>3. UNCHANGED <<storage, table, weakBit, class, lock>>
  BY DEF CopyRelease
<1>4. \A o \in Objects, l \in Locations : ~Moves(f, o, l) /\ ~Clears(f, o)
  BY <1>1, QuietPairs DEF Quiet
<1>5. /\ lock' \in [Stripes -> Threads \cup {NoThread}] /\ LocksOfOthers(t) /\ Holds(t)' = {}
      /\ class' \in [Objects -> {"no", "initializing", "defaultRR", "initialized"}]
  BY <1>1, <1>2, <1>3, SameLocks DEF Types, HasLocked, InSection, InTables, Registers
<1>6. PICK f1 : f1 = [f EXCEPT !.pc = "end"]
  OBVIOUS
<1>7. /\ f1 \in FrameType /\ f1.fn = f.fn /\ f1.loc = f.loc /\ f1.src = f.src
      /\ f1.new = f.new /\ f1.pc = "end" /\ f1.old = f.old
  BY <1>6 DEF FrameType
<1>8. Locals(f1) /\ SameShape(f1, f) /\ Quiet(f1) /\ Variables(f1) /\ Pairs(f1)
  BY <1>1, <1>2, <1>7
  DEF Locals, Places, Stores, Inits, Copies, SameShape, Quiet, Variables, Pairs, HaveOld, HaveNew,
      InTables, Registers
<1>9. HasLocked(f1, Holds(t)')
  BY <1>5, <1>7 DEF HasLocked, InSection, InTables, Registers
<1>10. CASE f.new = Nil
  <2>1. Become(t, f1) /\ UNCHANGED objects
    BY <1>1, <1>6, <1>10 DEF CopyRelease, Goto, objects
  <2>2. ~HaveNew(f1) /\ f1.fn # "dealloc"
    BY <1>1, <1>7 DEF HaveNew, Copies
  <2> QED
    BY <1>1, <1>3, <1>4, <1>5, <1>7, <1>8, <1>9, <2>1, <2>2, Onward
<1>11. CASE f.new # Nil
  <2>1. PICK o \in Objects : o = f.new /\ held[t][o] > 0
    BY <1>1, <1>11, TopGiven DEF OrNil, Copies
  <2>2. Drop(t, o)
    BY <1>1, <1>11, <2>1 DEF CopyRelease
  <2>3. PICK n \in Nat \ {0} : n = Len(stack[t])
    BY <1>1, <1>2, Tops
  <2>4. PICK g : g = DeallocFrame(o)
    OBVIOUS
  <2>5. /\ Locals(g) /\ Variables(g) /\ g.fn = "dealloc" /\ g.pc = "run" /\ g.new = Nil
        /\ ~InSection(g) /\ Quiet(g) /\ \A x : Nil \notin Owns(x) => Apart(g, x)
    BY <2>4, DeallocLocals
  <2>6. PICK k : /\ k = IF LastReference(t, o) THEN n + 1 ELSE n
    OBVIOUS
  <2>7. /\ Calling' /\ Cut(t, n - 1, k) /\ stack'[t][n] = f1 /\ stack[t][n] = f
        /\ LastReference(t, o) => stack'[t][n + 1] = g
    <3>1. /\ SameShape(f1, Top(t)) /\ Locals(f1) /\ f1.pc # "load" /\ stack[t] # <<>>
          /\ f = Top(t)
      BY <1>1, <1>7, <1>8
    <3>2. CASE LastReference(t, o)
      <4>1. BecomeEnter(t, f1, g)
        BY <1>1, <1>6, <1>11, <2>1, <2>4, <3>2 DEF CopyRelease, GotoAndEnter, BecomeEnter
      <4>2. Above(f1, g) /\ g.pc # "load"
        BY <1>1, <1>7, <2>5 DEF Above
      <4>3. \A u \in Threads : \A j \in DOMAIN stack[u] : Apart(g, stack[u][j])
        BY <1>2, <2>5, NilUnowned
      <4>4. /\ Calling' /\ Cut(t, n - 1, n + 1) /\ stack'[t][n] = f1 /\ stack[t][n] = Top(t)
            /\ stack'[t][n + 1] = g
        BY <1>2, <1>5, <2>3, <2>5, <3>1, <4>1, <4>2, <4>3, Push
      <4> QED
        BY <2>6, <3>1, <3>2, <4>4
    <3>3. CASE ~LastReference(t, o)
      <4>1. Become(t, f1)
        BY <1>1, <1>6, <1>11, <2>1, <3>3 DEF CopyRelease, Goto
      <4>2. Calling' /\ Cut(t, n - 1, n) /\ stack'[t][n] = f1 /\ stack[t][n] = Top(t)
        BY <1>2, <1>5, <1>9, <2>3, <3>1, <4>1, Advance
      <4> QED
        BY <2>6, <3>1, <3>3, <4>2
    <3> QED
      BY <3>2, <3>3
  <2>8. /\ k \in Nat /\ k > n - 1 /\ n \in DOMAIN stack[t] /\ n \in DOMAIN stack'[t]
        /\ \A i \in n - 1 + 1..k : i = n \/ (i = n + 1 /\ LastReference(t, o))
    BY <2>3, <2>6, <2>7 DEF Cut
  <2>9. \A i \in n - 1 + 1..k : stack'[t][i] = f1 \/ stack'[t][i] = g
    BY <2>7, <2>8
  <2>10. ~HasReference(f1, o) /\ HasReference(f, o) /\ \A x : ~HasReference(f1, x) /\ ~HasReference(g, x)
    BY <1>1, <1>7, <2>1, <2>5 DEF HasReference
  <2>11. \A i \in 1..n - 1 :
           stack[t][i].new = o /\ Cardinality(ReferencesAbove(t, i, o)) < held[t][o]
             => Cardinality(ReferencesAbove(t, i, o)') < held[t][o] - 1
    <3> SUFFICES ASSUME NEW i \in 1..n - 1, Cardinality(ReferencesAbove(t, i, o)) < held[t][o]
                 PROVE  Cardinality(ReferencesAbove(t, i, o)') < held[t][o] - 1
      OBVIOUS
    <3>1. n \in ReferencesAbove(t, i, o)
      BY <2>7, <2>8, <2>10 DEF ReferencesAbove
    <3>2. ReferencesAbove(t, i, o)' \subseteq ReferencesAbove(t, i, o) \ {n}
      <4> SUFFICES ASSUME NEW j \in DOMAIN stack'[t], j > i, HasReference(stack'[t][j], o)
                   PROVE  j \in DOMAIN stack[t] /\ HasReference(stack[t][j], o) /\ j # n
        BY DEF ReferencesAbove, HasReference
      <4>1. j \in 1..n - 1 \/ j \in n - 1 + 1..k
        BY <2>7 DEF Cut
      <4>2. j \in 1..n - 1
        BY <2>9, <2>10, <4>1
      <4> QED
        BY <2>7, <4>2 DEF Cut, Below
    <3>3. held[t][o] \in Nat
      BY <1>2 DEF Types
    <3> QED
      BY <1>2, <3>1, <3>2, <3>3, OneReferenceLess
  <2>12. \A i \in n - 1 + 1..k :
           /\ Given(t, i)'
           /\ \A x : HasReference(stack'[t][i], x) =>
                i \in DOMAIN stack[t] /\ HasReference(stack[t][i], x)
           /\ stack'[t][i].fn = "dealloc" =>
                LastReference(t, o) /\ i = k /\ stack'[t][i] = DeallocFrame(o)
    <3> SUFFICES ASSUME NEW i \in n - 1 + 1..k
                 PROVE  /\ Given(t, i)'
                        /\ \A x : ~HasReference(stack'[t][i], x)
                        /\ stack'[t][i].fn = "dealloc" =>
                             LastReference(t, o) /\ i = k /\ stack'[t][i] = DeallocFrame(o)
      OBVIOUS
    <3>1. CASE stack'[t][i] = f1 /\ i = n
      BY <1>1, <1>7, <2>10, <3>1 DEF Given, HaveNew, Copies
    <3>2. CASE stack'[t][i] = g /\ i = n + 1 /\ LastReference(t, o)
      BY <2>4, <2>5, <2>6, <2>10, <3>2 DEF Given
    <3> QED
      BY <2>7, <2>8, <3>1, <3>2
  <2>13. LastReference(t, o) => k > n - 1 /\ stack'[t][k] = DeallocFrame(o)
    BY <2>4, <2>6, <2>7, <2>8
  <2>14. /\ Counting'
         /\ memory' \in [Objects -> {"free", "live", "dealloc"}]
         /\ held' \in [Threads -> [Objects -> Nat]]
         /\ \A x \in Objects : memory'[x] = "free" => memory[x] = "free"
    <3>1. PICK m : m = n - 1
      OBVIOUS
    <3>2. Cut(t, m, k) /\ (LastReference(t, o) => k > m /\ stack'[t][k] = DeallocFrame(o))
      BY <2>7, <2>13, <3>1
    <3>3. \A i \in 1..m :
            stack[t][i].new = o /\ Cardinality(ReferencesAbove(t, i, o)) < held[t][o]
              => Cardinality(ReferencesAbove(t, i, o)') < held[t][o] - 1
      BY <2>11, <3>1
    <3>4. \A i \in m + 1..k :
            /\ Given(t, i)'
            /\ \A x : HasReference(stack'[t][i], x) =>
                 i \in DOMAIN stack[t] /\ HasReference(stack[t][i], x)
            /\ stack'[t][i].fn = "dealloc" =>
                 LastReference(t, o) /\ i = k /\ stack'[t][i] = DeallocFrame(o)
      BY <2>12, <3>1
    <3> QED
      BY <1>2, <2>1, <2>2, <3>2, <3>3, <3>4, CountingDropped
  <2>15. Storing'
    <3>1. \A i \in n - 1 + 1..k : Variables(stack'[t][i])
      BY <1>8, <2>5, <2>9
    <3>2. stack'[t][k] = f1 \/ stack'[t][k] = g
      BY <2>6, <2>7
    <3>3. stack'[t][k].pc # "setNil" /\ Pairs(stack'[t][k])
      BY <1>7, <1>8, <2>5, <3>2, QuietPairs
    <3>4. UNCHANGED <<storage, table, weakBit>>
      BY <1>3
    <3> QED
      BY <1>1, <1>2, <1>4, <2>7, <2>14, <3>1, <3>3, <3>4, StoringKept
  <2>16. Types'
    BY <1>2, <1>3, <1>5, <2>7, <2>14 DEF Types, Cut, storage
  <2> QED
    BY <2>7, <2>14, <2>15, <2>16 DEF IInv
<1> QED
  BY <1>10, <1>11

-----------------------------------------------------------------------------
(* The program releases and allocates objects                              *)

LEMMA CallingStays ==
  ASSUME Calling, UNCHANGED <<stack, lock>>
  PROVE  Calling'
<1>1. Exclusive'
  <2>1. Exclusive
    BY DEF Calling
  <2> SUFFICES ASSUME NEW t \in Threads, NEW u \in Threads,
                      NEW i \in DOMAIN stack'[t], NEW j \in DOMAIN stack'[u],
                      Owns(stack'[t][i]) \cap {stack'[u][j].loc, stack'[u][j].src} # {}
               PROVE  Kin(t, i, u, j)'
    BY DEF Exclusive
  <2>2. stack' = stack
    OBVIOUS
  <2>3. Kin(t, i, u, j)
    BY <2>1, <2>2 DEF Exclusive
  <2> QED
    BY <2>2, <2>3 DEF Kin
<1>2. \A t \in Threads : Nested(t)' /\ Locked(t)'
  BY DEF Calling, Nested, Locked, Holds, Top
<1> QED
  BY <1>1, <1>2 DEF Calling

(* The references of the calls that have o leave one that may go.          *)
LEMMA ReferenceToSpare ==
  ASSUME Types, NEW t \in Threads, NEW o \in Objects, MayRelease(t, o),
         NEW i \in DOMAIN stack[t], stack[t][i].new = o,
         ReferencesAbove(t, i, o)' \subseteq ReferencesAbove(t, i, o)
  PROVE  Cardinality(ReferencesAbove(t, i, o)') < held[t][o] - 1
<1>1. PICK R : R = ReferencesAbove(t, i, o)
  OBVIOUS
<1>2. PICK N : N = {j \in DOMAIN stack[t] : stack[t][j].new = o}
  OBVIOUS
<1>3. IsFiniteSet(N) /\ Cardinality(N) \in Nat
  <2>1. IsFiniteSet(DOMAIN stack[t])
    BY Tops, FS_Interval
  <2> QED
    BY <1>2, <2>1, FS_Subset, FS_CardinalityType
<1>4. IsFiniteSet(R) /\ Cardinality(R) \in Nat /\ i \notin R /\ R \cup {i} \subseteq N
  <2>1. i \notin R /\ R \cup {i} \subseteq N
    <3>1. i \in Nat
      BY Tops
    <3> QED
      BY <1>1, <1>2, <3>1 DEF ReferencesAbove, HasReference
  <2> QED
    BY <1>1, <2>1, References
<1>5. IsFiniteSet(R \cup {i}) /\ Cardinality(R \cup {i}) = Cardinality(R) + 1
  BY <1>4, FS_AddElement
<1>6. Cardinality(R) + 1 <= Cardinality(N)
  BY <1>3, <1>4, <1>5, FS_Subset
<1>7. Cardinality(N) < held[t][o] /\ held[t][o] \in Nat
  BY <1>2 DEF MayRelease, Types
<1>8. PICK c \in Nat : c = Cardinality(R)
  BY <1>4
<1>9. PICK d \in Nat : d = Cardinality(ReferencesAbove(t, i, o)')
  BY FewerReferences
<1>10. d <= c
  BY <1>1, <1>8, <1>9, FewerReferences
<1> QED
  BY <1>3, <1>6, <1>7, <1>8, <1>9, <1>10

LEMMA CallReleaseStep ==
  ASSUME IInv, NEW t \in Threads, CallRelease(t)
  PROVE  IInv'
<1>1. Types /\ Calling /\ Storing /\ Counting
  BY DEF IInv
<1>2. PICK o \in Mine(t) :
        /\ MayRelease(t, o) /\ Drop(t, o)
        /\ IF LastReference(t, o) THEN Enter(t, DeallocFrame(o)) ELSE UNCHANGED stack
  BY DEF CallRelease
<1>3. o \in Objects /\ held[t][o] > 0
  BY DEF Mine
<1>4. ProgramRuns(t) /\ UNCHANGED <<storage, table, weakBit, class, lock>>
  BY DEF CallRelease
<1>5. PICK n \in Nat : n = Len(stack[t])
  BY <1>1, Tops
<1>6. PICK g : g = DeallocFrame(o)
  OBVIOUS
<1>7. /\ Locals(g) /\ Variables(g) /\ g.fn = "dealloc" /\ g.pc = "run" /\ g.new = Nil
      /\ ~InSection(g) /\ Quiet(g) /\ \A x : Nil \notin Owns(x) => Apart(g, x)
  BY <1>3, <1>6, DeallocLocals
<1>8. PICK k : k = IF LastReference(t, o) THEN n + 1 ELSE n
  OBVIOUS
<1>9. Calling' /\ Cut(t, n, k) /\ (LastReference(t, o) => stack'[t][n + 1] = g)
  <2>1. CASE LastReference(t, o)
    <3>1. Enter(t, g) /\ g.pc # "load"
      BY <1>2, <1>6, <1>7, <2>1
    <3>2. \A u \in Threads : \A j \in DOMAIN stack[u] : Apart(g, stack[u][j])
      BY <1>1, <1>7, NilUnowned
    <3>3. UNCHANGED lock
      BY <1>4
    <3> QED
      BY <1>1, <1>4, <1>5, <1>7, <1>8, <2>1, <3>1, <3>2, <3>3, Descend
  <2>2. CASE ~LastReference(t, o)
    BY <1>1, <1>2, <1>4, <1>5, <1>8, <2>2, SameStack, CallingStays
  <2> QED
    BY <2>1, <2>2
<1>10. /\ k \in Nat /\ \A i \in n + 1..k : i = n + 1 /\ i = k /\ LastReference(t, o)
       /\ LastReference(t, o) => k > n
  BY <1>8
<1>11. \A x : ~HasReference(g, x)
  BY <1>7 DEF HasReference
<1>12. \A i \in 1..n :
         stack[t][i].new = o /\ Cardinality(ReferencesAbove(t, i, o)) < held[t][o]
           => Cardinality(ReferencesAbove(t, i, o)') < held[t][o] - 1
  <2> SUFFICES ASSUME NEW i \in 1..n, stack[t][i].new = o
               PROVE  Cardinality(ReferencesAbove(t, i, o)') < held[t][o] - 1
    OBVIOUS
  <2>1. i \in DOMAIN stack[t]
    BY <1>5, <1>9 DEF Cut
  <2>2. ReferencesAbove(t, i, o)' \subseteq ReferencesAbove(t, i, o)
    <3> SUFFICES ASSUME NEW j \in DOMAIN stack'[t], j > i, HasReference(stack'[t][j], o)
                 PROVE  j \in DOMAIN stack[t] /\ HasReference(stack[t][j], o)
      BY DEF ReferencesAbove, HasReference
    <3>1. j \in 1..n \/ j \in n + 1..k
      BY <1>9 DEF Cut
    <3>2. j \in 1..n
      BY <1>9, <1>10, <1>11, <3>1
    <3> QED
      BY <1>9, <3>2 DEF Cut, Below
  <2> QED
    BY <1>1, <1>2, <1>3, <2>1, <2>2, ReferenceToSpare
<1>13. \A i \in n + 1..k :
         /\ Given(t, i)'
         /\ \A x : HasReference(stack'[t][i], x) =>
              i \in DOMAIN stack[t] /\ HasReference(stack[t][i], x)
         /\ stack'[t][i].fn = "dealloc" =>
              LastReference(t, o) /\ i = k /\ stack'[t][i] = DeallocFrame(o)
  <2> SUFFICES ASSUME NEW i \in n + 1..k
               PROVE  /\ Given(t, i)'
                      /\ \A x : ~HasReference(stack'[t][i], x)
                      /\ stack'[t][i].fn = "dealloc" =>
                           LastReference(t, o) /\ i = k /\ stack'[t][i] = DeallocFrame(o)
    OBVIOUS
  <2>1. stack'[t][i] = g /\ i = k /\ LastReference(t, o)
    BY <1>9, <1>10
  <2> QED
    BY <1>6, <1>7, <1>11, <2>1 DEF Given
<1>14. LastReference(t, o) => k > n /\ stack'[t][k] = DeallocFrame(o)
  BY <1>6, <1>8, <1>9, <1>10
<1>15. /\ Counting'
       /\ memory' \in [Objects -> {"free", "live", "dealloc"}]
       /\ held' \in [Threads -> [Objects -> Nat]]
       /\ \A x \in Objects : memory'[x] = "free" => memory[x] = "free"
  BY <1>1, <1>2, <1>3, <1>9, <1>12, <1>13, <1>14, CountingDropped
<1>16. Storing'
  <2>1. stack[t] # <<>> => Quiet(Top(t)) /\ stack[t][n] = Top(t)
    BY <1>1, <1>4, <1>5, Tops, ProgramHolds DEF Quiet
  <2>2. stack[t] # <<>> => \A x, l : ~Moves(Top(t), x, l) /\ ~Clears(Top(t), x)
    BY <2>1, QuietPairs
  <2>3. \A i \in n + 1..k : Variables(stack'[t][i])
    BY <1>7, <1>9, <1>10
  <2>4. k > 0 => stack'[t][k].pc # "setNil" /\ Pairs(stack'[t][k])
    <3>1. CASE LastReference(t, o)
      BY <1>7, <1>8, <1>9, <3>1, QuietPairs
    <3>2. CASE ~LastReference(t, o)
      <4>1. k = n /\ UNCHANGED stack
        BY <1>2, <1>8, <3>2
      <4>2. n > 0 => stack[t] # <<>> /\ stack[t][n] = Top(t)
        BY <1>1, <1>5, Tops
      <4>3. n > 0 => Top(t).pc # "setNil" /\ Quiet(Top(t))
        BY <1>1, <1>4, <2>1, <4>2, ProgramHolds
      <4> QED
        BY <4>1, <4>2, <4>3, QuietPairs
    <3> QED
      BY <3>1, <3>2
  <2>5. UNCHANGED <<storage, table, weakBit>>
    BY <1>4
  <2> QED
    BY <1>1, <1>9, <1>15, <2>2, <2>3, <2>4, <2>5, StoringKept
<1>17. Types'
  BY <1>1, <1>4, <1>9, <1>15 DEF Types, Cut, storage
<1> QED
  BY <1>9, <1>15, <1>16, <1>17 DEF IInv

LEMMA CallAllocStep ==
  ASSUME IInv, NEW t \in Threads, CallAlloc(t)
  PROVE  IInv'
<1>1. Types /\ Calling /\ Storing /\ Counting
  BY DEF IInv
<1>2. PICK o \in Objects :
        /\ memory[o] = "free"
        /\ memory' = [memory EXCEPT ![o] = "live"]
        /\ held' = [held EXCEPT ![t][o] = 1]
  BY DEF CallAlloc
<1>3. ProgramRuns(t) /\ UNCHANGED <<storage, table, weakBit, class, lock, stack>>
  BY DEF CallAlloc
<1>4. PICK n \in Nat : n = Len(stack[t])
  BY <1>1, Tops
<1>5. Calling' /\ Cut(t, n, n)
  BY <1>1, <1>3, <1>4, SameStack, CallingStays
<1>6. /\ held' \in [Threads -> [Objects -> Nat]]
      /\ \A u \in Threads : \A x \in Objects : held'[u][x] = held[u][x] \/ (u = t /\ x = o)
      /\ \A u \in Threads \ {t} : held'[u] = held[u]
      /\ held'[t][o] = 1
  BY <1>1, <1>2 DEF Types
<1>7. /\ memory' \in [Objects -> {"free", "live", "dealloc"}]
      /\ \A x \in Objects \ {o} : memory'[x] = memory[x]
      /\ memory'[o] = "live"
  BY <1>1, <1>2 DEF Types
<1>8. held[t][o] = 0
  <2>1. ~(held[t][o] > 0) /\ held[t][o] \in Nat
    BY <1>1, <1>2 DEF Counting, HeldIsLive, Types
  <2> QED
    BY <2>1
<1>9. \A i \in 1..n : Given(t, i)'
  <2> SUFFICES ASSUME NEW i \in 1..n PROVE Given(t, i)'
    OBVIOUS
  <2>1. i \in 1..Len(stack[t]) /\ i \in DOMAIN stack[t] /\ Below(t, i - 1)
        /\ stack'[t][i] = stack[t][i]
    BY <1>3, <1>4, <1>5 DEF Cut, Below
  <2>2. Given(t, i)
    BY <1>1, <2>1 DEF Counting
  <2>3. PICK v \in Objects \cup {Nil} : v = stack[t][i].new
    BY <1>1, <2>1, Tops DEF FrameType
  <2>4. ReferencesAbove(t, i, v)' = ReferencesAbove(t, i, v)
    BY <1>3 DEF ReferencesAbove, HasReference
  <2>5. PICK c \in Nat : c = Cardinality(ReferencesAbove(t, i, v))
    BY <1>1, References
  <2>6. v # Nil /\ c < held[t][v] => c < held'[t][v]
    BY <1>6, <1>8, <2>3
  <2> QED
    BY <2>1, <2>2, <2>3, <2>4, <2>5, <2>6, GivenKept
<1>10. Counting'
  <2>1. \A u \in Threads \ {t} : \A i \in DOMAIN stack'[u] : Given(u, i)'
    BY <1>1, <1>5, <1>6, OthersGiven DEF Cut, Others, Counting
  <2>2. \A u \in Threads : \A i \in DOMAIN stack'[u] : Given(u, i)'
    BY <1>5, <1>9, <2>1 DEF Cut
  <2>3. OneDealloc'
    <3>1. \A i \in n + 1..n : FALSE
      OBVIOUS
    <3>2. \A u \in Threads : \A i \in DOMAIN stack'[u] :
            /\ stack'[u][i].fn = "dealloc" /\ memory[stack'[u][i].old] = "dealloc"
            => memory'[stack'[u][i].old] = "dealloc"
      <4> SUFFICES ASSUME NEW u \in Threads, NEW i \in DOMAIN stack[u],
                          stack[u][i].fn = "dealloc", memory[stack[u][i].old] = "dealloc"
                   PROVE  memory'[stack[u][i].old] = "dealloc"
        BY <1>3
      <4>1. stack[u][i].old \in Objects
        BY <1>1 DEF Calling, Nested, Locals
      <4> QED
        BY <1>2, <1>7, <4>1
    <3> QED
      BY <1>1, <1>5, <3>1, <3>2, DeallocKept DEF Counting
  <2>4. HeldIsLive'
    BY <1>1, <1>6, <1>7 DEF Counting, HeldIsLive
  <2> QED
    BY <2>2, <2>3, <2>4 DEF Counting
<1>11. Storing'
  <2>1. stack[t] # <<>> => Quiet(Top(t)) /\ Top(t).pc # "setNil"
    BY <1>1, <1>3, ProgramHolds DEF Quiet
  <2>2. stack[t] # <<>> => \A x, l : ~Moves(Top(t), x, l) /\ ~Clears(Top(t), x)
    BY <2>1, QuietPairs
  <2>3. n > 0 => stack'[t][n].pc # "setNil" /\ Pairs(stack'[t][n])
    <3>1. n > 0 => stack[t] # <<>> /\ stack'[t][n] = Top(t)
      BY <1>1, <1>3, <1>4, Tops
    <3> QED
      BY <2>1, <3>1, QuietPairs
  <2>4. \A i \in n + 1..n : FALSE
    OBVIOUS
  <2>5. \A x \in Objects : memory'[x] = "free" => memory[x] = "free"
    BY <1>2, <1>7
  <2>6. UNCHANGED <<storage, table, weakBit>>
    BY <1>3
  <2> QED
    BY <1>1, <1>5, <2>2, <2>3, <2>4, <2>5, <2>6, StoringKept
<1>12. Types'
  BY <1>1, <1>3, <1>6, <1>7 DEF Types, storage
<1> QED
  BY <1>5, <1>10, <1>11, <1>12 DEF IInv

-----------------------------------------------------------------------------
(* The program's calls                                                     *)

LEMMA InFrames ==
  ASSUME NEW u \in Threads, NEW j \in DOMAIN stack[u]
  PROVE  stack[u][j] \in Frames
BY DEF Frames, Range

(* Nobody owns a variable that is shared, nobody uses one that is not used.*)
LEMMA SharedOrUnused ==
  ASSUME NEW l, NEW u \in Threads, NEW j \in DOMAIN stack[u]
  PROVE  /\ Unused(l) => l \notin {stack[u][j].loc, stack[u][j].src}
         /\ Unused(l) \/ Shared(l) => l \notin Owns(stack[u][j])
BY InFrames, OwnsItsOwn DEF Unused, Shared

LEMMA CallLocals ==
  ASSUME NEW fn \in StoreFns \cup {"loadWeak"}, NEW l \in Locations, NEW v \in Objects \cup {Nil},
         NEW g, g = Frame(fn, l, Nil, Nil, v, "read"),
         fn \in {"destroyWeak", "loadWeak"} => v = Nil
  PROVE  /\ Locals(g) /\ g.fn = fn /\ g.loc = l /\ g.src = Nil /\ g.new = v /\ g.pc = "read"
         /\ g.old = Nil
         /\ Variables(g) <=> (isWeak[l] <=> fn \notin Inits)
<1>1. /\ g.fn = fn /\ g.loc = l /\ g.src = Nil /\ g.old = Nil /\ g.new = v
      /\ g.pc = "read" /\ g.prev = FALSE
      /\ g = [fn |-> fn, loc |-> l, src |-> Nil, old |-> Nil, new |-> v,
              prev |-> FALSE, pc |-> "read"]
  BY DEF Frame
<1>2. g \in FrameType
  BY <1>1 DEF FrameType, Functions, StoreFns
<1>3. Locals(g)
  BY <1>1, <1>2 DEF Locals, Places, Stores, Inits, Copies, StoreFns
<1>4. Variables(g) <=> (isWeak[l] <=> fn \notin Inits)
  BY <1>1 DEF Variables, HaveOld, Stores, Inits, Copies, StoreFns, InTables, Registers
<1> QED
  BY <1>1, <1>3, <1>4

LEMMA MayStoreObjects ==
  ASSUME Calling, NEW t \in Threads, NEW fn, NEW v \in MayStore(t, fn)
  PROVE  /\ v \in Objects \cup {Nil}
         /\ v # Nil => \/ held[t][v] > 0
                       \/ /\ fn \in {"storeWeakOrNil", "initWeakOrNil"}
                          /\ \E i \in DOMAIN stack[t] : stack[t][i].fn = "dealloc"
                                                        /\ stack[t][i].old = v
<1>1. CASE v \in Deallocating(t) /\ fn \in {"storeWeakOrNil", "initWeakOrNil"}
  <2>1. PICK i \in DOMAIN stack[t] : stack[t][i].fn = "dealloc" /\ stack[t][i].old = v
    BY <1>1 DEF Deallocating, Range
  <2>2. v \in Objects
    BY <2>1 DEF Calling, Nested, Locals
  <2> QED
    BY <1>1, <2>1, <2>2
<1>2. CASE v \in Mine(t) \cup {Nil}
  BY <1>2 DEF Mine
<1> QED
  BY <1>1, <1>2 DEF MayStore

(* A call for a variable that nobody owns, or that nobody uses.            *)
LEMMA ProgramCalls ==
  ASSUME IInv, NEW t \in Threads, ProgramRuns(t),
         NEW fn \in StoreFns \cup {"loadWeak"}, NEW l \in Locations, NEW v,
         fn \in {"destroyWeak", "loadWeak"} => v = Nil,
         v = Nil \/ v \in MayStore(t, fn),
         IF fn \in Stores \cup {"loadWeak"} THEN Shared(l) ELSE Unused(l),
         isWeak[l] <=> fn \notin Inits,
         Enter(t, Frame(fn, l, Nil, Nil, v, "read")),
         UNCHANGED <<storage, table, objects, class, lock>>
  PROVE  IInv'
<1>1. Types /\ Calling
  BY DEF IInv
<1>2. v \in Objects \cup {Nil}
  BY <1>1, MayStoreObjects
<1>3. PICK g : g = Frame(fn, l, Nil, Nil, v, "read")
  OBVIOUS
<1>4. /\ Locals(g) /\ g.fn = fn /\ g.loc = l /\ g.src = Nil /\ g.new = v /\ g.pc = "read"
      /\ Variables(g)
  BY <1>2, <1>3, CallLocals
<1>5. Enter(t, g)
  BY <1>3
<1>6. \A u \in Threads : \A j \in DOMAIN stack[u] : Apart(g, stack[u][j])
  <2> SUFFICES ASSUME NEW u \in Threads, NEW j \in DOMAIN stack[u] PROVE Apart(g, stack[u][j])
    OBVIOUS
  <2>1. Nil \notin Owns(stack[u][j])
    BY <1>1, NilUnowned
  <2>2. CASE fn \in Stores \cup {"loadWeak"}
    <3>1. l \notin Owns(stack[u][j])
      BY <2>2, SharedOrUnused
    <3>2. Owns(stack[u][j]) \cap {g.loc, g.src} = {}
      BY <1>4, <2>1, <3>1
    <3> QED
      BY <1>4, <2>2, <3>2, SharedApart
  <2>3. CASE fn \notin Stores \cup {"loadWeak"}
    <3>1. l \notin {stack[u][j].loc, stack[u][j].src}
      BY <2>3, SharedOrUnused
    <3>2. Nil \notin Owns(g)
      BY <1>4, OwnsVariables
    <3>3. {g.loc, g.src} \cap {stack[u][j].loc, stack[u][j].src} \subseteq {Nil}
      BY <1>4, <3>1
    <3> QED
      BY <2>1, <3>2, <3>3, UnusedApart
  <2> QED
    BY <2>2, <2>3
<1>7. g.new # Nil /\ HaveNew(g) =>
        \/ held[t][g.new] > 0
        \/ /\ OrNil(g)
           /\ \E i \in DOMAIN stack[t] : stack[t][i].fn = "dealloc" /\ stack[t][i].old = g.new
  BY <1>1, <1>4, MayStoreObjects DEF OrNil
<1>8. g.fn # "dealloc" /\ g.pc \in {"read", "enter"}
  BY <1>4 DEF StoreFns
<1> QED
  BY <1>4, <1>5, <1>6, <1>7, <1>8, Called

LEMMA CallStoreStep ==
  ASSUME IInv, NEW t \in Threads, CallStore(t)
  PROVE  IInv'
<1>1. PICK fn \in Stores, l \in Locations : \E v \in MayStore(t, fn) :
        Shared(l) /\ Enter(t, Frame(fn, l, Nil, Nil, v, "read"))
  BY DEF CallStore, Stores
<1>2. PICK v \in MayStore(t, fn) : Shared(l) /\ Enter(t, Frame(fn, l, Nil, Nil, v, "read"))
  BY <1>1
<1>3. fn \in StoreFns /\ fn \notin Inits \cup {"destroyWeak", "loadWeak"} /\ isWeak[l]
  BY <1>2 DEF Stores, StoreFns, Inits, Shared
<1>4. ProgramRuns(t) /\ UNCHANGED <<storage, table, objects, class, lock>>
  BY DEF CallStore
<1> QED
  BY <1>2, <1>3, <1>4, ProgramCalls

LEMMA CallDestroyStep ==
  ASSUME IInv, NEW t \in Threads, CallDestroy(t)
  PROVE  IInv'
<1>1. PICK l \in Locations : /\ Unused(l) /\ isWeak[l]
                             /\ Enter(t, Frame("destroyWeak", l, Nil, Nil, Nil, "read"))
  BY DEF CallDestroy
<1>2. ProgramRuns(t) /\ UNCHANGED <<storage, table, objects, class, lock>>
  BY DEF CallDestroy
<1>3. "destroyWeak" \in StoreFns /\ "destroyWeak" \notin Inits \cup Stores
  BY DEF Stores, StoreFns, Inits
<1> QED
  BY <1>1, <1>2, <1>3, ProgramCalls

LEMMA CallLoadStep ==
  ASSUME IInv, NEW t \in Threads, CallLoad(t)
  PROVE  IInv'
<1>1. PICK l \in Locations : Shared(l) /\ Enter(t, Frame("loadWeak", l, Nil, Nil, Nil, "read"))
  BY DEF CallLoad
<1>2. ProgramRuns(t) /\ UNCHANGED <<storage, table, objects, class, lock>>
  BY DEF CallLoad
<1>3. "loadWeak" \notin Inits /\ isWeak[l]
  BY <1>1 DEF Inits, Shared
<1> QED
  BY <1>1, <1>2, <1>3, ProgramCalls

LEMMA CallMessageStep ==
  ASSUME IInv, NEW t \in Threads, CallMessage(t)
  PROVE  IInv'
<1>1. PICK o \in Objects : Enter(t, InitializeFrame(o))
  BY DEF CallMessage
<1>2. PICK g : g = InitializeFrame(o)
  OBVIOUS
<1>3. /\ Locals(g) /\ Variables(g) /\ g.fn = "initialize" /\ g.pc = "enter" /\ g.new = Nil
  BY <1>2, InitializeLocals
<1>4. \A u \in Threads : \A j \in DOMAIN stack[u] : Apart(g, stack[u][j])
  BY <1>2, InitializeApart, NilUnowned DEF IInv
<1>5. ProgramRuns(t) /\ UNCHANGED <<storage, table, objects, class, lock>> /\ Enter(t, g)
  BY <1>1, <1>2 DEF CallMessage
<1> QED
  BY <1>3, <1>4, <1>5, Called

LEMMA CallInitStep ==
  ASSUME IInv, NEW t \in Threads, CallInit(t)
  PROVE  IInv'
<1>1. PICK fn \in Inits, l \in Locations : \E v \in MayStore(t, fn) :
         /\ Unused(l) /\ ~isWeak[l]
         /\ IF v = Nil
            THEN /\ value' = [value EXCEPT ![l] = Nil]
                 /\ isWeak' = [isWeak EXCEPT ![l] = TRUE]
                 /\ UNCHANGED stack
            ELSE /\ Enter(t, Frame(fn, l, Nil, Nil, v, "read"))
                 /\ UNCHANGED storage
  BY DEF CallInit, Inits
<1>2. PICK v \in MayStore(t, fn) :
         /\ Unused(l) /\ ~isWeak[l]
         /\ IF v = Nil
            THEN /\ value' = [value EXCEPT ![l] = Nil]
                 /\ isWeak' = [isWeak EXCEPT ![l] = TRUE]
                 /\ UNCHANGED stack
            ELSE /\ Enter(t, Frame(fn, l, Nil, Nil, v, "read"))
                 /\ UNCHANGED storage
  BY <1>1
<1>3. ProgramRuns(t) /\ UNCHANGED <<table, objects, class, lock>>
  BY DEF CallInit
<1>4. CASE v # Nil
  <2>1. fn \in StoreFns /\ fn \notin Stores \cup {"destroyWeak", "loadWeak"}
    BY DEF Stores, StoreFns, Inits
  <2>2. /\ Enter(t, Frame(fn, l, Nil, Nil, v, "read"))
        /\ UNCHANGED <<storage, table, objects, class, lock>>
    BY <1>2, <1>3, <1>4
  <2> QED
    BY <1>2, <1>3, <2>1, <2>2, ProgramCalls
<1>5. CASE v = Nil
  <2>1. Types /\ Calling /\ Storing /\ Counting
    BY DEF IInv
  <2>2. UNCHANGED stack /\ StoredAt(l) /\ value'[l] = Nil /\ isWeak'[l] /\ ~isWeak[l]
    BY <1>2, <1>5, <2>1 DEF StoredAt, Types
  <2>3. PICK n \in Nat : n = Len(stack[t])
    BY <2>1, Tops
  <2>4. Calling' /\ Cut(t, n, n)
    BY <1>3, <2>1, <2>2, <2>3, SameStack, CallingStays
  <2>5. \A u \in Threads : \A j \in DOMAIN stack[u] : l \notin {stack[u][j].loc, stack[u][j].src}
    BY <1>2, SharedOrUnused
  <2>6. \A i \in 1..n : \A g : g = stack'[t][i] => Variables(g)'
    <3> SUFFICES ASSUME NEW i \in 1..n, NEW g, g = stack'[t][i] PROVE Variables(g)'
      OBVIOUS
    <3>1. i \in DOMAIN stack[t] /\ g = stack[t][i]
      BY <2>2, <2>3, <2>4 DEF Cut
    <3>2. Locals(g) /\ Variables(g) /\ l \notin {g.loc, g.src}
      BY <2>1, <2>5, <3>1 DEF Calling, Nested, Storing, VariablesOf
    <3> QED
      BY <2>2, <3>2, VariablesElsewhere
  <2>7. stack[t] # <<>> => Quiet(Top(t)) /\ Top(t).pc # "setNil"
    BY <1>3, <2>1, ProgramHolds DEF Quiet
  <2>8. n > 0 => Quiet(stack'[t][n]) /\ stack'[t][n].pc # "setNil"
    <3>1. n > 0 => stack[t] # <<>> /\ stack'[t][n] = Top(t)
      BY <2>1, <2>2, <2>3, Tops
    <3> QED
      BY <2>7, <3>1
  <2>9. UNCHANGED <<table, weakBit, memory, held>>
    BY <1>3 DEF objects
  <2>10. Storing'
    <3>1. \A u \in Threads \ {t} : \A j \in DOMAIN stack[u] :
            l \notin {stack[u][j].loc, stack[u][j].src}
      BY <2>5
    <3>2. UNCHANGED <<table, weakBit, memory>>
      BY <2>9
    <3> QED
      BY <2>2, <2>4, <2>6, <2>7, <2>8, <3>1, <3>2, StoredNil
  <2>11. Counting'
    <3>1. \A i \in n + 1..n : FALSE
      OBVIOUS
    <3> QED
      BY <2>1, <2>4, <2>9, <3>1, CountingKept
  <2>12. Types'
    BY <1>3, <2>1, <2>2, <2>9 DEF Types, StoredAt
  <2> QED
    BY <2>4, <2>10, <2>11, <2>12 DEF IInv
<1> QED
  BY <1>4, <1>5

(* Two calls at once: copyWeak or moveWeak, and the load it begins with.   *)
EnterTwo(t, f, g) == stack' = [stack EXCEPT ![t] = @ \o <<f, g>>]

LEMMA EnterTwoFrames ==
  ASSUME Types, NEW t \in Threads, NEW f \in FrameType, NEW g \in FrameType, EnterTwo(t, f, g),
         NEW n, n = Len(stack[t])
  PROVE  Cut(t, n, n + 2) /\ n \in Nat /\ stack'[t][n + 1] = f /\ stack'[t][n + 2] = g
<1>1. /\ stack[t] \in Seq(FrameType) /\ Len(stack[t]) \in Nat
      /\ DOMAIN stack[t] = 1..Len(stack[t])
  BY Tops
<1>2. PICK q : q = <<f, g>>
  OBVIOUS
<1>3. q \in Seq(FrameType) /\ Len(q) = 2 /\ q[1] = f /\ q[2] = g
  BY <1>2
<1>4. PICK r : r = stack[t] \o q
  OBVIOUS
<1>5. /\ r \in Seq(FrameType) /\ Len(r) = n + 2
      /\ \A i \in 1..n : r[i] = stack[t][i]
      /\ r[n + 1] = f /\ r[n + 2] = g
  <2>1. /\ r \in Seq(FrameType) /\ Len(r) = n + 2
        /\ \A i \in 1..n + 2 : r[i] = IF i <= n THEN stack[t][i] ELSE q[i - n]
    <3>1. PICK z \in Seq(FrameType) : z = stack[t] /\ Len(z) = n
      BY <1>1
    <3>2. /\ z \o q \in Seq(FrameType) /\ Len(z \o q) = Len(z) + Len(q)
          /\ \A i \in 1..Len(z) + Len(q) :
               (z \o q)[i] = IF i <= Len(z) THEN z[i] ELSE q[i - Len(z)]
      BY <1>3, ConcatProperties
    <3>3. r = z \o q
      BY <1>4, <3>1
    <3> QED
      BY <1>3, <3>1, <3>2, <3>3
  <2>2. n + 1 \in 1..n + 2 /\ n + 2 \in 1..n + 2 /\ n + 1 - n = 1 /\ n + 2 - n = 2
        /\ ~(n + 1 <= n) /\ ~(n + 2 <= n)
    BY <1>1
  <2>3. r[n + 1] = q[n + 1 - n] /\ r[n + 2] = q[n + 2 - n]
    BY <2>1, <2>2
  <2>4. \A i \in 1..n : i \in 1..n + 2 /\ i <= n
    BY <1>1
  <2> QED
    BY <1>3, <2>1, <2>2, <2>3, <2>4
<1>6. DOMAIN r = 1..n + 2
  BY <1>1, <1>5, LenProperties
<1>7. r # <<>>
  BY <1>1, <1>5, EmptySeq
<1>8. Last(r) = g
  BY <1>5 DEF Last
<1>9. stack' = [stack EXCEPT ![t] = r]
  BY <1>2, <1>4 DEF EnterTwo
<1>10. stack' \in [Threads -> Seq(FrameType)] /\ Others(t) /\ stack'[t] = r
  BY <1>5, <1>9 DEF Types, Others
<1>11. Top(t)' = g
  BY <1>8, <1>10 DEF Top
<1>12. n + 2 > 0 /\ n \in 0..n /\ n <= n + 2 /\ n + 2 \in Nat
  BY <1>1
<1> QED
  BY <1>1, <1>5, <1>6, <1>7, <1>10, <1>11, <1>12 DEF Cut, Below

LEMMA CallCopyStep ==
  ASSUME IInv, NEW t \in Threads, CallCopy(t)
  PROVE  IInv'
<1>1. Types /\ Calling /\ Storing /\ Counting
  BY DEF IInv
<1>2. PICK fn \in Copies, d \in Locations, s \in Locations :
        /\ d # s /\ Unused(d) /\ ~isWeak[d] /\ isWeak[s]
        /\ IF fn = "moveWeak" THEN Unused(s) ELSE Shared(s)
        /\ EnterTwo(t, Frame(fn, d, s, Nil, Nil, "load"),
                       Frame("loadWeak", s, Nil, Nil, Nil, "read"))
  BY DEF CallCopy, Copies, Shared, EnterTwo
<1>3. ProgramRuns(t) /\ UNCHANGED <<storage, table, objects, class, lock>>
  BY DEF CallCopy
<1>4. PICK f : f = Frame(fn, d, s, Nil, Nil, "load")
  OBVIOUS
<1>5. PICK g : g = Frame("loadWeak", s, Nil, Nil, Nil, "read")
  OBVIOUS
<1>6. /\ f.fn = fn /\ f.loc = d /\ f.src = s /\ f.old = Nil /\ f.new = Nil /\ f.pc = "load"
      /\ f.prev = FALSE
      /\ f = [fn |-> fn, loc |-> d, src |-> s, old |-> Nil, new |-> Nil,
              prev |-> FALSE, pc |-> "load"]
  BY <1>4 DEF Frame
<1>7. f \in FrameType
  BY <1>6 DEF FrameType, Functions, Copies
<1>8. Locals(f) /\ Variables(f)
  BY <1>2, <1>6, <1>7
  DEF Locals, Places, Variables, HaveOld, Stores, Inits, Copies, InTables, Registers
<1>9. /\ Locals(g) /\ g.fn = "loadWeak" /\ g.loc = s /\ g.src = Nil /\ g.new = Nil
      /\ g.pc = "read" /\ Variables(g)
  <2>1. Nil \in Objects \cup {Nil} /\ "loadWeak" \in StoreFns \cup {"loadWeak"}
        /\ "loadWeak" \notin Inits
    BY DEF Inits
  <2> QED
    BY <1>2, <1>5, <2>1, CallLocals
<1>10. PICK n : n = Len(stack[t])
  OBVIOUS
<1>11. EnterTwo(t, f, g) /\ f \in FrameType /\ g \in FrameType
  BY <1>2, <1>4, <1>5, <1>7, <1>9 DEF Locals
<1>12. Cut(t, n, n + 2) /\ n \in Nat /\ stack'[t][n + 1] = f /\ stack'[t][n + 2] = g
  BY <1>1, <1>10, <1>11, EnterTwoFrames
<1>13. \A i \in n + 1..n + 2 : (i = n + 1 \/ i = n + 2) /\ i \notin DOMAIN stack[t]
  BY <1>10, <1>12 DEF Cut
<1>14. \A u \in Threads : \A j \in DOMAIN stack[u] :
         Apart(f, stack[u][j]) /\ Apart(g, stack[u][j])
  <2> SUFFICES ASSUME NEW u \in Threads, NEW j \in DOMAIN stack[u]
               PROVE  Apart(f, stack[u][j]) /\ Apart(g, stack[u][j])
    OBVIOUS
  <2>1. Nil \notin Owns(stack[u][j])
    BY <1>1, NilUnowned
  <2>2. d \notin {stack[u][j].loc, stack[u][j].src} /\ s \notin Owns(stack[u][j])
    BY <1>2, SharedOrUnused
  <2>3. fn = "moveWeak" => s \notin {stack[u][j].loc, stack[u][j].src}
    BY <1>2, SharedOrUnused
  <2>4. Owns(stack[u][j]) \subseteq {stack[u][j].loc, stack[u][j].src}
    BY OwnsItsOwn
  <2>5. Owns(f) = IF fn = "moveWeak" THEN {d, s} ELSE {d}
    BY <1>6 DEF Owns, Copies
  <2>6. Apart(f, stack[u][j])
    BY <1>6, <2>2, <2>3, <2>4, <2>5 DEF Apart
  <2>7. Owns(stack[u][j]) \cap {g.loc, g.src} = {}
    BY <1>9, <2>1, <2>2
  <2>8. Apart(g, stack[u][j])
    BY <1>9, <2>7, SharedApart
  <2> QED
    BY <2>6, <2>8
<1>15. \A i \in n + 1..n + 2 : \A u \in Threads : \A j \in DOMAIN stack'[u] :
         Apart(stack'[t][i], stack'[u][j]) \/ Kin(t, i, u, j)'
  <2> SUFFICES ASSUME NEW i \in n + 1..n + 2, NEW u \in Threads, NEW j \in DOMAIN stack'[u]
               PROVE  Apart(stack'[t][i], stack'[u][j]) \/ Kin(t, i, u, j)'
    OBVIOUS
  <2>1. stack'[t][i] = f \/ stack'[t][i] = g
    BY <1>12, <1>13
  <2>2. CASE j \in DOMAIN stack[u] /\ stack'[u][j] = stack[u][j]
    BY <1>14, <2>1, <2>2
  <2>3. CASE u = t /\ j \in n + 1..n + 2
    BY <1>6, <1>12, <1>13, <2>3 DEF Kin
  <2>4. CASE u = t /\ j \in 1..n
    BY <1>10, <1>12, <2>2, <2>4 DEF Cut, Below
  <2>5. CASE u # t
    BY <1>12, <2>2, <2>5 DEF Cut, Others
  <2> QED
    BY <1>12, <2>3, <2>4, <2>5 DEF Cut
<1>16. \A i \in 1..n + 2 : i >= n /\ i # n + 2 => Above(stack'[t][i], stack'[t][i + 1])
  <2> SUFFICES ASSUME NEW i \in 1..n + 1, i >= n PROVE Above(stack'[t][i], stack'[t][i + 1])
    BY <1>12
  <2>1. CASE i = n + 1
    BY <1>6, <1>9, <1>12, <2>1 DEF Above
  <2>2. CASE i = n
    <3>1. stack[t] # <<>> /\ stack[t][n] = Top(t)
      BY <1>1, <1>10, <1>12, <2>2, Tops
    <3>2. Top(t).fn \in {"dealloc", "initialize"} /\ Top(t).pc = "run"
      BY <1>1, <1>3, <3>1, ProgramHolds
    <3>3. stack'[t][n] = Top(t)
      BY <1>12, <2>2, <3>1 DEF Cut, Below
    <3> QED
      BY <2>2, <3>2, <3>3 DEF Above
  <2> QED
    BY <1>12, <2>1, <2>2
<1>17. Locked(t)' /\ LocksOfOthers(t)
  <2>1. Holds(t)' = {} /\ LocksOfOthers(t)
    BY <1>1, <1>3, ProgramHolds, SameLocks
  <2>2. HasLocked(g, {}) /\ n + 2 > 0
    BY <1>9, <1>12 DEF HasLocked, InSection, InTables, Registers
  <2> QED
    BY <1>12, <2>1, <2>2, LockedNow
<1>18. Calling'
  <2>1. \A i \in n + 1..n + 2 : Locals(stack'[t][i])
    BY <1>8, <1>9, <1>12, <1>13
  <2>2. n + 2 > 0 => stack'[t][n + 2].pc # "load"
    BY <1>9, <1>12
  <2> QED
    BY <1>1, <1>12, <1>13, <1>15, <1>16, <1>17, <2>1, <2>2, CallingKept
<1>19. Storing'
  <2>1. stack[t] # <<>> => \A o, l : ~Moves(Top(t), o, l) /\ ~Clears(Top(t), o)
    BY <1>1, <1>3, ProgramHolds, QuietPairs DEF Quiet
  <2>2. \A i \in n + 1..n + 2 : Variables(stack'[t][i])
    BY <1>8, <1>9, <1>12, <1>13
  <2>3. stack'[t][n + 2].pc # "setNil" /\ Pairs(stack'[t][n + 2])
    BY <1>9, <1>12, QuietPairs DEF Quiet
  <2>4. UNCHANGED <<storage, table, weakBit, memory>>
    BY <1>3 DEF objects
  <2> QED
    BY <1>1, <1>12, <2>1, <2>2, <2>3, <2>4, StoringKept
<1>20. Counting'
  <2>1. \A o : ~HasReference(f, o) /\ ~HasReference(g, o)
    BY <1>6, <1>9 DEF HasReference
  <2>2. Given(t, n + 1)' /\ Given(t, n + 2)'
    BY <1>6, <1>9, <1>12 DEF Given
  <2>3. f.fn # "dealloc" /\ g.fn # "dealloc"
    BY <1>6, <1>9 DEF Copies
  <2>4. UNCHANGED <<memory, held>>
    BY <1>3 DEF objects
  <2> QED
    BY <1>1, <1>12, <1>13, <2>1, <2>2, <2>3, <2>4, CountingKept
<1>21. Types'
  BY <1>1, <1>3, <1>12 DEF Types, Cut, storage, objects
<1> QED
  BY <1>18, <1>19, <1>20, <1>21 DEF IInv

-----------------------------------------------------------------------------
(* Steps that change the side tables                                       *)

(* t writes to no side table that it has not locked.                       *)
RowsOfOthers(t) ==
  \A o \in Objects : Stripe[o] \notin Holds(t) =>
    /\ \A l \in Locations : <<o, l>> \in table' <=> <<o, l>> \in table
    /\ weakBit'[o] = weakBit[o]

LEMMA OthersRows ==
  ASSUME IInv, NEW t \in Threads, RowsOfOthers(t), table' \subseteq Objects \X Locations,
         UNCHANGED storage, NEW u \in Threads \ {t}, stack[u] # <<>>, NEW g, g = Top(u)
  PROVE  Pairs(g)'
<1>1. Locals(g) /\ HasLocked(g, Holds(u)) /\ Pairs(g) /\ table \subseteq Objects \X Locations
  BY Knows DEF Types
<1>2. g.old \in Objects \cup {Nil} /\ g.new \in Objects \cup {Nil} /\ Nil \notin Objects
  BY <1>1, WeakAssumption DEF Locals, FrameType
<1>3. Holds(u) \cap Holds(t) = {}
  BY DEF Holds
<1>4. ASSUME HaveOld(g), g.pc \in Registers \cup {"assign"}
      PROVE  <<g.old, g.loc>> \in table' <=> <<g.old, g.loc>> \in table
  <2>1. g.loc \in Locations
    BY <1>1, <1>4, PlacesOf DEF HaveOld
  <2>2. CASE g.old \in Objects
    <3>1. Stripe[g.old] \in Holds(u)
      BY <1>1, <1>4 DEF HasLocked, InSection, InTables, Registers, HaveOld, Inits
    <3> QED
      BY <1>3, <2>1, <2>2, <3>1 DEF RowsOfOthers
  <2>3. CASE g.old = Nil
    BY <1>1, <1>2, <2>3
  <2> QED
    BY <1>2, <2>2, <2>3
<1>5. ASSUME HaveNew(g), g.pc \in {"setBit", "assign"}, g.new # Nil
      PROVE  /\ <<g.new, g.loc>> \in table' <=> <<g.new, g.loc>> \in table
             /\ weakBit'[g.new] = weakBit[g.new]
  <2>1. g.loc \in Locations /\ g.new \in Objects
    BY <1>1, <1>2, <1>5, PlacesOf DEF HaveNew
  <2>2. Stripe[g.new] \in Holds(u)
    BY <1>1, <1>5 DEF HasLocked, InSection, InTables, Registers
  <2> QED
    BY <1>3, <2>1, <2>2 DEF RowsOfOthers
<1>6. UNCHANGED <<value, isWeak>>
  BY DEF storage
<1> QED
  BY <1>1, <1>4, <1>5, <1>6 DEF Pairs

(* The tables and variables that differed then differ now, for what the    *)
(* call of t is doing.                                                     *)
LEMMA TablesChanged ==
  ASSUME TablesAgree, NEW t \in Threads, NEW m, NEW k, Cut(t, m, k), k > 0, stack[t] # <<>>,
         UNCHANGED storage,
         \A o \in Objects, l \in Locations :
           \/ Moves(stack'[t][k], o, l)
           \/ <<o, l>> \in table' <=> isWeak[l] /\ value[l] = o
           \/ /\ <<o, l>> \in table' <=> <<o, l>> \in table
              /\ ~Moves(Top(t), o, l) /\ ~Clears(Top(t), o)
  PROVE  TablesAgree'
<1>1. UNCHANGED <<value, isWeak>>
  BY DEF storage
<1> SUFFICES ASSUME NEW o \in Objects, NEW l \in Locations,
                    ~(<<o, l>> \in table' <=> isWeak[l] /\ value[l] = o)
             PROVE  \E u \in Threads :
                      /\ stack'[u] # <<>>
                      /\ Moves(Top(u), o, l)' \/ (Clears(Top(u), o)' /\ value[l] # o)
  BY <1>1 DEF TablesAgree
<1>2. CASE Moves(stack'[t][k], o, l)
  <2>1. Top(t)' = stack'[t][k] /\ stack'[t] # <<>>
    BY DEF Cut
  <2> QED
    BY <1>2, <2>1 DEF Moves, Removed, Added
<1>3. CASE /\ <<o, l>> \in table' <=> <<o, l>> \in table
           /\ ~Moves(Top(t), o, l) /\ ~Clears(Top(t), o)
  <2>1. PICK u \in Threads : /\ stack[u] # <<>>
                             /\ Moves(Top(u), o, l) \/ (Clears(Top(u), o) /\ value[l] # o)
    BY <1>3 DEF TablesAgree
  <2>2. u # t
    BY <1>3, <2>1
  <2>3. stack'[u] = stack[u] /\ Top(u)' = Top(u)
    BY <2>2 DEF Cut, Others, Top
  <2> QED
    BY <2>1, <2>3 DEF Moves, Clears, Removed, Added
<1> QED
  BY <1>2, <1>3

LEMMA StoringChanged ==
  ASSUME IInv, NEW t \in Threads, NEW m, NEW k, Cut(t, m, k), UNCHANGED storage,
         RowsOfOthers(t), table' \subseteq Objects \X Locations,
         \A i \in m + 1..k : Variables(stack'[t][i]),
         k > 0 => \A f : f = stack'[t][k] => f.pc # "setNil" /\ Pairs(f)',
         TablesAgree', Reachable'
  PROVE  Storing'
<1>1. VariablesOf(t)'
  <2>1. VariablesOf(t)
    BY DEF IInv, Storing
  <2>2. stack'[t] # <<>> => Top(t)'.pc # "setNil"
    BY DEF Cut
  <2> QED
    BY <2>1, <2>2, VariablesKept DEF Cut
<1>2. stack'[t] # <<>> => Pairs(Top(t))'
  <2> SUFFICES ASSUME stack'[t] # <<>> PROVE Pairs(Top(t))'
    OBVIOUS
  <2>1. PICK f : f = stack'[t][k]
    OBVIOUS
  <2>2. Pairs(f)' /\ Top(t)' = f
    BY <2>1 DEF Cut
  <2> QED
    BY <2>2 DEF Pairs
<1>3. \A u \in Threads \ {t} : VariablesOf(u)' /\ (stack'[u] # <<>> => Pairs(Top(u))')
  <2> SUFFICES ASSUME NEW u \in Threads \ {t}
               PROVE  VariablesOf(u)' /\ (stack'[u] # <<>> => Pairs(Top(u))')
    OBVIOUS
  <2>1. VariablesOf(u) /\ Others(t)
    BY DEF IInv, Storing, Cut
  <2>2. stack'[u] = stack[u] /\ Top(u)' = Top(u)
    BY <2>1 DEF Others, Top
  <2>3. ASSUME stack[u] # <<>> PROVE Pairs(Top(u))'
    <3>1. PICK g : g = Top(u)
      OBVIOUS
    <3>2. Pairs(g)'
      BY <2>3, <3>1, OthersRows
    <3> QED
      BY <2>2, <3>1, <3>2 DEF Pairs
  <2> QED
    BY <2>1, <2>2, <2>3, OthersVariables
<1> QED
  BY <1>1, <1>2, <1>3 DEF Storing

(* A store goes on to change the tables for its variable.                  *)
LEMMA StoreGoesOn ==
  ASSUME IInv, NEW t \in Threads, stack[t] # <<>>, NEW f, f = Top(t), NEW g, Become(t, g),
         f.fn \in StoreFns, f.pc \in {"unregister"} \cup Registers,
         Locals(g), SameShape(g, f), g.old = f.old, g.pc \in Registers \cup {"assign"},
         g.new \in {f.new, Nil},
         table' \subseteq Objects \X Locations, weakBit' \in [Objects -> BOOLEAN],
         \A o \in Objects : weakBit[o] => weakBit'[o],
         RowsOfOthers(t),
         \A o \in Objects, l \in Locations :
           \/ Moves(g, o, l)
           \/ (<<o, l>> \in table' <=> <<o, l>> \in table) /\ ~Moves(f, o, l),
         Pairs(g)',
         HaveNew(g) /\ g.new # Nil /\ g.pc # "register" => held[t][g.new] > 0,
         g.pc = "register" => f.pc = "unregister",
         UNCHANGED <<storage, memory, held, class, lock>>
  PROVE  IInv'
<1>0. PICK n : n = Len(stack[t])
  OBVIOUS
<1>1. /\ Types /\ Calling /\ Storing /\ Counting /\ Locals(f) /\ Variables(f)
      /\ HasLocked(f, Holds(t)) /\ Given(t, n)
  BY <1>0, Knows
<1>2. Holds(t)' = Holds(t) /\ LocksOfOthers(t)
  BY SameLocks
<1>3. HasLocked(g, Holds(t)')
  <2>1. InSection(g) /\ g.pc # "lock" /\ InSection(f) /\ f.pc # "lock"
    BY DEF InSection, InTables, Registers
  <2> QED
    BY <1>1, <1>2, <2>1 DEF HasLocked, SameShape, HaveNew
<1>4. g.pc # "load" /\ g.pc # "setNil"
  BY DEF Registers
<1>5. /\ Calling' /\ Cut(t, n - 1, n) /\ n \in Nat \ {0} /\ stack'[t][n] = g
      /\ stack[t][n] = f
  BY <1>0, <1>1, <1>2, <1>3, <1>4, Advance
<1>6. \A i \in n - 1 + 1..n : i = n /\ i \in DOMAIN stack[t]
  BY <1>0, <1>5 DEF Cut
<1>7. Variables(g)
  BY <1>1 DEF Variables, SameShape, HaveOld, InTables, Registers, Copies, StoreFns
<1>8. Storing'
  <2>1. \A o : ~Clears(f, o)
    BY DEF Clears, StoreFns
  <2>2. n > 0
    BY <1>5
  <2>3. TablesAgree'
    <3>1. TablesAgree
      BY <1>1 DEF Storing
    <3>2. \A o \in Objects, l \in Locations :
            \/ Moves(stack'[t][n], o, l)
            \/ <<o, l>> \in table' <=> isWeak[l] /\ value[l] = o
            \/ /\ <<o, l>> \in table' <=> <<o, l>> \in table
               /\ ~Moves(Top(t), o, l) /\ ~Clears(Top(t), o)
      BY <1>5, <2>1
    <3> QED
      BY <1>5, <2>2, <3>1, <3>2, TablesChanged
  <2>4. Reachable'
    BY <1>1 DEF Storing, Reachable, storage, Types
  <2>5. \A i \in n - 1 + 1..n : Variables(stack'[t][i])
    BY <1>5, <1>6, <1>7
  <2>6. \A x : x = stack'[t][n] => x.pc # "setNil" /\ Pairs(x)'
    <3> SUFFICES ASSUME NEW x, x = g PROVE x.pc # "setNil" /\ Pairs(x)'
      BY <1>5
    <3> QED
      BY <1>4
  <2> QED
    BY <1>5, <2>3, <2>4, <2>5, <2>6, StoringChanged
<1>9. Given(t, n)'
  <2>1. Given(t, n) /\ Below(t, n - 1) /\ n \in 1..Len(stack[t])
    BY <1>0, <1>1, <1>5, <1>6 DEF Cut
  <2>2. g.pc \notin {"init", "release"}
    BY DEF Registers
  <2>3. CASE g.new = Nil \/ ~HaveNew(g)
    BY <1>5, <2>2, <2>3 DEF Given, HaveNew
  <2>4. CASE HaveNew(g) /\ g.new # Nil /\ g.pc # "register"
    <3>1. Cardinality(ReferencesAbove(t, n, g.new)') = 0
      BY <1>5, NoReferences
    <3> QED
      BY <1>5, <2>4, <3>1 DEF Given
  <2>5. CASE HaveNew(g) /\ g.new # Nil /\ g.pc = "register"
    <3>1. PICK o : o = f.new
      OBVIOUS
    <3>2. ReferencesAbove(t, n, o) = {} /\ ReferencesAbove(t, n, o)' = {}
      BY <1>0, <1>5, NoReferences DEF ReferencesAbove, Cut
    <3>3. /\ HaveNew(stack[t][n]) /\ stack[t][n].new = o /\ stack'[t][n].new = o
          /\ OrNil(stack[t][n]) => OrNil(stack'[t][n])
          /\ stack'[t][n].pc \notin {"setBit", "assign"}
      BY <1>5, <2>5, <3>1 DEF HaveNew, OrNil, SameShape
    <3>4. Cardinality(ReferencesAbove(t, n, o)) < held[t][o]
            => Cardinality(ReferencesAbove(t, n, o)') < held'[t][o]
      BY <3>2
    <3> QED
      BY <2>1, <3>3, <3>4, GivenKept
  <2> QED
    BY <2>3, <2>4, <2>5
<1>10. Counting'
  <2>1. \A o : ~HasReference(g, o)
    BY DEF HasReference, Registers
  <2>2. g.fn # "dealloc"
    BY DEF SameShape, StoreFns
  <2> QED
    BY <1>1, <1>5, <1>6, <1>9, <2>1, <2>2, CountingKept
<1>11. Types'
  BY <1>1, <1>5 DEF Types, Cut, storage
<1> QED
  BY <1>5, <1>8, <1>10, <1>11 DEF IInv

LEMMA UnregisterStep ==
  ASSUME IInv, NEW t \in Threads, Unregister(t)
  PROVE  IInv'
<1>1. PICK f \in FrameType : f = Top(t) /\ stack[t] # <<>> /\ f.fn \in StoreFns
                             /\ f.pc = "unregister"
  BY Knows DEF Unregister, At, Locals
<1>2. Types /\ Locals(f) /\ HasLocked(f, Holds(t)) /\ f.loc \in Locations
  BY <1>1, Knows, PlacesOf DEF StoreFns
<1>3. PICK p \in {"register", "assign"} :
        Goto(t, p) /\ p = IF HaveNew(f) THEN "register" ELSE "assign"
  BY <1>1 DEF Unregister
<1>4. PICK g : g = [f EXCEPT !.pc = p]
  OBVIOUS
<1>5. Become(t, g)
  BY <1>1, <1>3, <1>4 DEF Goto
<1>6. /\ table' = IF HaveOld(f) THEN table \ {<<f.old, f.loc>>} ELSE table
      /\ UNCHANGED <<storage, weakBit, memory, held, class, lock>>
  BY <1>1 DEF Unregister, objects
<1>7. /\ g \in FrameType /\ g.fn = f.fn /\ g.loc = f.loc /\ g.src = f.src /\ g.new = f.new
      /\ g.pc = p /\ g.old = f.old
  BY <1>3, <1>4 DEF FrameType
<1>8. Locals(g) /\ SameShape(g, f)
  BY <1>1, <1>2, <1>3, <1>7
  DEF Locals, Places, Stores, Inits, Copies, StoreFns, SameShape, HaveNew, InTables, Registers
<1>9. table' \subseteq Objects \X Locations /\ weakBit' \in [Objects -> BOOLEAN]
  BY <1>2, <1>6 DEF Types
<1>10. RowsOfOthers(t)
  <2> SUFFICES ASSUME NEW o \in Objects, Stripe[o] \notin Holds(t), NEW l \in Locations
               PROVE  <<o, l>> \in table' <=> <<o, l>> \in table
    BY <1>6 DEF RowsOfOthers
  <2>1. HaveOld(f) => Stripe[f.old] \in Holds(t)
    BY <1>1, <1>2 DEF HasLocked, InSection, InTables, HaveOld, Inits
  <2> QED
    BY <1>6, <2>1
<1>11. \A o \in Objects, l \in Locations :
         \/ Moves(g, o, l)
         \/ (<<o, l>> \in table' <=> <<o, l>> \in table) /\ ~Moves(f, o, l)
  <2> SUFFICES ASSUME NEW o \in Objects, NEW l \in Locations, ~Moves(g, o, l)
               PROVE  (<<o, l>> \in table' <=> <<o, l>> \in table) /\ ~Moves(f, o, l)
    OBVIOUS
  <2>1. ~Moves(f, o, l)
    BY <1>1 DEF Moves, Removed, Added, Registers
  <2>2. CASE HaveOld(f)
    <3>1. <<o, l>> # <<f.old, f.loc>>
      BY <1>1, <1>3, <1>7, <2>2 DEF Moves, Removed, Registers, HaveOld
    <3> QED
      BY <1>6, <2>1, <2>2, <3>1
  <2> QED
    BY <1>6, <2>1, <2>2
<1>12. Pairs(g)'
  <2>1. g.fn # "dealloc" /\ (HaveNew(g) <=> p = "register")
    BY <1>1, <1>3, <1>7 DEF StoreFns, HaveNew
  <2>2. HaveOld(g) => <<g.old, g.loc>> \notin table'
    BY <1>6, <1>7 DEF HaveOld
  <2> QED
    BY <1>3, <1>7, <2>1, <2>2 DEF Pairs, HaveOld, HaveNew
<1>13. /\ HaveNew(g) /\ g.new # Nil /\ g.pc # "register" => held[t][g.new] > 0
       /\ g.pc = "register" => f.pc = "unregister"
  BY <1>1, <1>3, <1>7 DEF HaveNew
<1>14. f.pc \in {"unregister"} \cup Registers /\ g.pc \in Registers \cup {"assign"}
  BY <1>1, <1>3, <1>7 DEF Registers
<1> QED
  BY <1>1, <1>5, <1>6, <1>7, <1>8, <1>9, <1>10, <1>11, <1>12, <1>13, <1>14, StoreGoesOn

LEMMA RegisterStep ==
  ASSUME IInv, NEW t \in Threads, Register(t)
  PROVE  IInv'
<1>1. PICK f \in FrameType : f = Top(t) /\ stack[t] # <<>> /\ f.fn \in StoreFns
                             /\ f.pc = "register"
  BY Knows DEF Register, At, Locals
<1>2. /\ Types /\ Locals(f) /\ HasLocked(f, Holds(t)) /\ f.loc \in Locations /\ Pairs(f)
      /\ HaveNew(f)
  <2>1. f.fn \in Stores \cup Inits
    BY <1>1, Knows, PlacesOf DEF Registers
  <2> QED
    BY <1>1, <2>1, Knows, PlacesOf DEF StoreFns, Stores, Inits, HaveNew
<1>3. WeakRegister(t) /\ UNCHANGED <<storage, memory, held, class, lock>>
  BY DEF Register
<1>4. f.pc \in {"unregister"} \cup Registers
  BY <1>1 DEF Registers
<1>5. CASE /\ ~StoresNil(f) /\ table' = table \cup {<<f.new, f.loc>>}
           /\ Goto(t, "setBit") /\ UNCHANGED weakBit
  <2>1. PICK g : g = [f EXCEPT !.pc = "setBit"]
    OBVIOUS
  <2>2. Become(t, g)
    BY <1>1, <1>5, <2>1 DEF Goto
  <2>3. /\ g \in FrameType /\ g.fn = f.fn /\ g.loc = f.loc /\ g.src = f.src /\ g.new = f.new
        /\ g.pc = "setBit" /\ g.old = f.old
    BY <2>1 DEF FrameType
  <2>4. f.new # Nil /\ f.new \in Objects /\ held[t][f.new] > 0
    BY <1>1, <1>2, <1>5, TopGiven DEF StoresNil
  <2>5. Locals(g) /\ SameShape(g, f)
    BY <1>1, <1>2, <2>3, <2>4
    DEF Locals, Places, Stores, Inits, Copies, StoreFns, SameShape, HaveNew, InTables, Registers
  <2>6. table' \subseteq Objects \X Locations /\ weakBit' \in [Objects -> BOOLEAN]
    BY <1>2, <1>5, <2>4 DEF Types
  <2>7. Stripe[f.new] \in Holds(t)
    BY <1>1, <1>2, <2>4 DEF HasLocked, InSection, Registers
  <2>8. RowsOfOthers(t)
    BY <1>5, <2>7 DEF RowsOfOthers
  <2>9. \A o \in Objects, l \in Locations :
          \/ Moves(g, o, l)
          \/ (<<o, l>> \in table' <=> <<o, l>> \in table) /\ ~Moves(f, o, l)
    <3> SUFFICES ASSUME NEW o \in Objects, NEW l \in Locations, ~Moves(g, o, l)
                 PROVE  (<<o, l>> \in table' <=> <<o, l>> \in table) /\ ~Moves(f, o, l)
      OBVIOUS
    <3>1. <<o, l>> # <<f.new, f.loc>>
      BY <1>1, <1>2, <2>3 DEF Moves, Added, HaveNew
    <3>2. ~Moves(f, o, l)
      BY <1>1, <2>3 DEF Moves, Removed, Added, HaveOld, HaveNew, Registers
    <3> QED
      BY <1>5, <3>1, <3>2
  <2>10. Pairs(g)'
    <3>1. g.fn # "dealloc"
      BY <1>1, <2>3 DEF StoreFns
    <3>2. HaveOld(g) => <<g.old, g.loc>> \notin table
      BY <1>1, <1>2, <2>3 DEF Pairs, HaveOld, Registers
    <3>3. HaveNew(g) /\ <<g.new, g.loc>> \in table' /\ g.pc = "setBit"
      BY <1>2, <1>5, <2>3 DEF HaveNew
    <3>4. HaveOld(g) => <<g.old, g.loc>> \notin table' \/ g.new = g.old
      <4> SUFFICES ASSUME HaveOld(g), g.new # g.old
                   PROVE  <<g.old, g.loc>> \notin table'
        OBVIOUS
      <4>1. <<g.old, g.loc>> # <<f.new, f.loc>>
        BY <2>3
      <4> QED
        BY <1>5, <3>2, <4>1
    <3> QED
      BY <3>1, <3>3, <3>4 DEF Pairs
  <2>11. g.pc \in Registers \cup {"assign"} /\ g.pc # "register"
    BY <2>3 DEF Registers
  <2> QED
    BY <1>1, <1>3, <1>4, <1>5, <2>2, <2>3, <2>4, <2>5, <2>6, <2>8, <2>9, <2>10, <2>11, StoreGoesOn
<1>6. CASE Become(t, [f EXCEPT !.pc = "assign", !.new = Nil]) /\ UNCHANGED <<table, weakBit>>
  <2>1. PICK g : g = [f EXCEPT !.pc = "assign", !.new = Nil]
    OBVIOUS
  <2>2. Become(t, g)
    BY <1>6, <2>1
  <2>3. /\ g \in FrameType /\ g.fn = f.fn /\ g.loc = f.loc /\ g.src = f.src /\ g.new = Nil
        /\ g.pc = "assign" /\ g.old = f.old
    BY <2>1 DEF FrameType
  <2>4. Locals(g) /\ SameShape(g, f)
    BY <1>1, <1>2, <2>3
    DEF Locals, Places, Stores, Inits, Copies, StoreFns, SameShape, HaveNew, InTables, Registers
  <2>5. table' \subseteq Objects \X Locations /\ weakBit' \in [Objects -> BOOLEAN]
    BY <1>2, <1>6 DEF Types
  <2>6. RowsOfOthers(t)
    BY <1>6 DEF RowsOfOthers
  <2>7. \A o \in Objects, l \in Locations :
          \/ Moves(g, o, l)
          \/ (<<o, l>> \in table' <=> <<o, l>> \in table) /\ ~Moves(f, o, l)
    <3>1. \A o, l : ~Moves(g, o, l) => ~Moves(f, o, l)
      BY <1>1, <2>3 DEF Moves, Removed, Added, HaveOld, HaveNew, Registers
    <3> QED
      BY <1>6, <3>1
  <2>8. Pairs(g)'
    <3>1. g.fn # "dealloc"
      BY <1>1, <2>3 DEF StoreFns
    <3>2. HaveOld(g) => <<g.old, g.loc>> \notin table
      BY <1>1, <1>2, <2>3 DEF Pairs, HaveOld, Registers
    <3> QED
      BY <1>6, <2>3, <3>1, <3>2 DEF Pairs, HaveNew, HaveOld
  <2>9. g.pc \in Registers \cup {"assign"} /\ g.pc # "register" /\ g.new = Nil
    BY <2>3
  <2> QED
    BY <1>1, <1>3, <1>4, <1>6, <2>2, <2>3, <2>4, <2>5, <2>6, <2>7, <2>8, <2>9, StoreGoesOn
<1> QED
  BY <1>1, <1>3, <1>5, <1>6 DEF WeakRegister

LEMMA SetWeaklyReferencedStep ==
  ASSUME IInv, NEW t \in Threads, SetWeaklyReferenced(t)
  PROVE  IInv'
<1>1. PICK f \in FrameType : f = Top(t) /\ stack[t] # <<>> /\ f.fn \in StoreFns
                             /\ f.pc = "setBit"
  BY Knows DEF SetWeaklyReferenced, At, Locals
<1>2. /\ Types /\ Locals(f) /\ HasLocked(f, Holds(t)) /\ f.loc \in Locations /\ Pairs(f)
      /\ HaveNew(f) /\ f.new # Nil
  <2>1. f.fn \in Stores \cup Inits
    BY <1>1, Knows, PlacesOf DEF Registers
  <2> QED
    BY <1>1, <2>1, Knows, PlacesOf DEF StoreFns, Stores, Inits, HaveNew, Locals
<1>3. f.new \in Objects /\ held[t][f.new] > 0
  BY <1>1, <1>2, TopGiven
<1>4. /\ weakBit' = [weakBit EXCEPT ![f.new] = TRUE]
      /\ UNCHANGED <<storage, table, memory, held, class, lock>>
  BY <1>1 DEF SetWeaklyReferenced
<1>5. PICK g : g = [f EXCEPT !.pc = "assign"]
  OBVIOUS
<1>6. Become(t, g)
  BY <1>1, <1>5 DEF Goto, SetWeaklyReferenced
<1>7. /\ g \in FrameType /\ g.fn = f.fn /\ g.loc = f.loc /\ g.src = f.src /\ g.new = f.new
      /\ g.pc = "assign" /\ g.old = f.old
  BY <1>5 DEF FrameType
<1>8. Locals(g) /\ SameShape(g, f)
  BY <1>1, <1>2, <1>7
  DEF Locals, Places, Stores, Inits, Copies, StoreFns, SameShape, HaveNew, InTables, Registers
<1>9. /\ table' \subseteq Objects \X Locations /\ weakBit' \in [Objects -> BOOLEAN]
      /\ \A o \in Objects : weakBit[o] => weakBit'[o]
      /\ weakBit'[f.new]
      /\ \A o \in Objects \ {f.new} : weakBit'[o] = weakBit[o]
  BY <1>2, <1>3, <1>4 DEF Types
<1>10. RowsOfOthers(t)
  <2>1. Stripe[f.new] \in Holds(t)
    BY <1>1, <1>2 DEF HasLocked, InSection, Registers
  <2> QED
    BY <1>4, <1>9, <2>1 DEF RowsOfOthers
<1>11. \A o \in Objects, l \in Locations :
         \/ Moves(g, o, l)
         \/ (<<o, l>> \in table' <=> <<o, l>> \in table) /\ ~Moves(f, o, l)
  <2>1. \A o, l : ~Moves(g, o, l) => ~Moves(f, o, l)
    BY <1>1, <1>7 DEF Moves, Removed, Added, HaveOld, HaveNew, Registers
  <2> QED
    BY <1>4, <2>1
<1>12. Pairs(g)'
  <2>1. g.fn # "dealloc"
    BY <1>1, <1>7 DEF StoreFns
  <2>2. HaveOld(g) => <<g.old, g.loc>> \notin table \/ (HaveNew(g) /\ g.new = g.old)
    BY <1>1, <1>2, <1>7 DEF Pairs, HaveOld, HaveNew, Registers
  <2>3. <<g.new, g.loc>> \in table
    BY <1>1, <1>2, <1>7 DEF Pairs
  <2> QED
    BY <1>4, <1>7, <1>9, <2>1, <2>2, <2>3 DEF Pairs, HaveOld, HaveNew
<1>13. f.pc \in {"unregister"} \cup Registers /\ g.pc \in Registers \cup {"assign"}
       /\ g.pc # "register" /\ held[t][g.new] > 0
  BY <1>1, <1>3, <1>7 DEF Registers
<1> QED
  BY <1>1, <1>4, <1>6, <1>7, <1>8, <1>9, <1>10, <1>11, <1>12, <1>13, StoreGoesOn


-----------------------------------------------------------------------------
(* The deallocation clears the variables and frees the object              *)

LEMMA ClearOneStep ==
  ASSUME IInv, NEW t \in Threads, ClearOne(t)
  PROVE  IInv'
<1>1. /\ Types /\ Calling /\ Storing /\ Counting
      /\ stack[t] # <<>> /\ Top(t).fn = "dealloc" /\ Top(t).pc = "check"
      /\ Top(t) \in FrameType
  BY Tops DEF IInv, ClearOne, At
<1>2. PICK o \in Objects : o = Top(t).old
  BY <1>1, Knows DEF Locals
<1>3. Stripe[o] \in Holds(t)
  BY <1>1, <1>2, Knows DEF HasLocked, InSection, Inits
<1>4. PICK l \in Locations :
        <<o, l>> \in table /\ value[l] = o /\ value' = [value EXCEPT ![l] = Nil]
  BY <1>2 DEF ClearOne, Referrers
<1>5. UNCHANGED <<isWeak, table, objects, class, lock, stack>>
  BY DEF ClearOne
<1>6. StoredAt(l) /\ value'[l] = Nil /\ o # Nil
  BY <1>1, <1>2, <1>4, <1>5, WeakAssumption DEF Types, StoredAt
<1>7. PICK n \in Nat : n = Len(stack[t])
  BY <1>1, Tops
<1>8. Calling' /\ Cut(t, n, n)
  BY <1>1, <1>5, <1>7, SameStack, CallingStays
<1>9. Types'
  BY <1>1, <1>5, <1>6 DEF Types, StoredAt, objects
<1>10. Counting'
  <2>1. \A i \in n + 1..n : FALSE
    OBVIOUS
  <2>2. UNCHANGED <<memory, held>>
    BY <1>5 DEF objects
  <2> QED
    BY <1>1, <1>8, <2>1, <2>2, CountingKept
(* Only this call, which holds the lock, reads the object's variables.     *)
<1>11. ASSUME NEW u \in Threads, NEW i \in DOMAIN stack[u]
       PROVE  Variables(stack[u][i])'
  <2>1. PICK g : g = stack[u][i]
    OBVIOUS
  <2>2. Locals(g) /\ Variables(g)
    BY <1>1, <2>1 DEF Calling, Nested, Storing, VariablesOf
  <2>3. ASSUME g.loc = l, g.pc \in {"fast", "slow"} \cup InTables \cup Registers,
               g.fn \notin Inits
        PROVE  FALSE
    <3>1. g = Top(u) /\ value[l] = g.old /\ Stripe[g.old] \in Holds(u)
      BY <2>1, <2>3, ValueLocked
    <3>2. u = t
      BY <1>3, <1>4, <3>1 DEF Holds
    <3> QED
      BY <1>1, <2>3, <3>1, <3>2 DEF InTables, Registers
  <2>4. g.pc \in {"fast", "slow"} => g.fn \notin Inits
    BY <2>2, PlacesOf DEF Inits
  <2>5. HaveOld(g) => g.fn \notin Inits
    BY DEF HaveOld, Inits
  <2>6. Variables(g)'
    <3>1. g.fn \in Stores \cup {"destroyWeak", "loadWeak"} => isWeak'[g.loc]
      BY <1>5, <2>2 DEF Variables
    <3>2. g.fn \in Inits => ~isWeak'[g.loc]
      BY <1>5, <2>2 DEF Variables
    <3>3. HaveOld(g) /\ g.pc \in InTables \cup Registers => value'[g.loc] = g.old
      <4> SUFFICES ASSUME HaveOld(g), g.pc \in InTables \cup Registers
                   PROVE  value'[g.loc] = g.old
        OBVIOUS
      <4>1. g.loc # l /\ value[g.loc] = g.old
        BY <2>2, <2>3, <2>5 DEF Variables
      <4>2. g.loc \in Locations
        BY <2>2, PlacesOf DEF HaveOld
      <4> QED
        BY <1>6, <4>1, <4>2 DEF StoredAt
    <3>4. g.pc \in {"fast", "slow"} => value'[g.loc] = g.old
      <4> SUFFICES ASSUME g.pc \in {"fast", "slow"}
                   PROVE  value'[g.loc] = g.old
        OBVIOUS
      <4>1. g.loc # l /\ value[g.loc] = g.old
        BY <2>2, <2>3, <2>4 DEF Variables
      <4>2. g.loc \in Locations
        BY <2>2, PlacesOf
      <4> QED
        BY <1>6, <4>1, <4>2 DEF StoredAt
    <3> QED
      BY <1>5, <2>2, <3>1, <3>2, <3>3, <3>4 DEF Variables
  <2> QED
    BY <1>5, <2>1, <2>6
<1>12. \A u \in Threads : VariablesOf(u)'
  BY <1>1, <1>5, <1>11 DEF VariablesOf, Storing, Top
<1>13. \A u \in Threads : stack'[u] # <<>> => Pairs(Top(u))'
  <2> SUFFICES ASSUME NEW u \in Threads, stack[u] # <<>> PROVE Pairs(Top(u))'
    BY <1>5
  <2>1. PICK g : g = Top(u)
    OBVIOUS
  <2>2. Pairs(g) /\ Locals(g)
    BY <2>1, Knows
  <2>3. g.fn = "dealloc" => g.old # Nil
    BY <2>2, WeakAssumption DEF Locals
  <2>4. UNCHANGED <<table, weakBit>>
    BY <1>5 DEF objects
  <2>5. Pairs(g)'
    BY <1>6, <2>2, <2>3, <2>4, PairsStored
  <2> QED
    BY <1>5, <2>1, <2>5 DEF Top
<1>14. TablesAgree'
  <2> SUFFICES ASSUME NEW x \in Objects, NEW k \in Locations
               PROVE  \/ <<x, k>> \in table <=> isWeak[k] /\ value'[k] = x
                      \/ \E u \in Threads :
                           /\ stack[u] # <<>>
                           /\ Moves(Top(u), x, k) \/ (Clears(Top(u), x) /\ value'[k] # x)
    BY <1>5 DEF TablesAgree, Top
  <2>1. \/ <<x, k>> \in table <=> isWeak[k] /\ value[k] = x
        \/ \E u \in Threads :
             /\ stack[u] # <<>>
             /\ Moves(Top(u), x, k) \/ (Clears(Top(u), x) /\ value[k] # x)
    BY <1>1 DEF Storing, TablesAgree
  <2>2. CASE k # l
    BY <1>6, <2>1, <2>2 DEF StoredAt
  <2>3. CASE k = l /\ x # o
    BY <1>4, <1>6, <2>1, <2>3, WeakAssumption
  <2>4. CASE k = l /\ x = o
    BY <1>1, <1>2, <1>6, <2>4 DEF Clears
  <2> QED
    BY <2>2, <2>3, <2>4
<1>15. Reachable'
  BY <1>1, <1>5, <1>6 DEF Storing, Reachable, StoredAt, objects
<1>16. Storing'
  BY <1>12, <1>13, <1>14, <1>15 DEF Storing
<1> QED
  BY <1>8, <1>9, <1>10, <1>16 DEF IInv

LEMMA ClearDoneStep ==
  ASSUME IInv, NEW t \in Threads, ClearDone(t)
  PROVE  IInv'
<1>1. /\ Types /\ Calling /\ Storing /\ Counting
      /\ stack[t] # <<>> /\ Top(t).fn = "dealloc" /\ Top(t).pc = "check"
      /\ Top(t) \in FrameType
  BY Tops DEF IInv, ClearDone, At
<1>2. PICK f \in FrameType : f = Top(t) /\ f.fn = "dealloc" /\ f.pc = "check"
  BY <1>1
<1>3. PICK o \in Objects : o = f.old
  BY <1>1, <1>2, Knows DEF Locals
<1>4. Stripe[o] \in Holds(t)
  BY <1>1, <1>2, <1>3, Knows DEF HasLocked, InSection, Inits
<1>5. /\ \A l \in Locations : <<o, l>> \in table => value[l] # o
      /\ table' = table \ {<<o, l>> : l \in Locations}
      /\ UNCHANGED <<storage, objects, class>> /\ Unlock(t)
  BY <1>2, <1>3 DEF ClearDone, Referrers
<1>6. PICK g : g = [f EXCEPT !.pc = "free"]
  OBVIOUS
<1>7. Become(t, g)
  BY <1>2, <1>6 DEF ClearDone, Goto
<1>8. /\ g \in FrameType /\ g.fn = "dealloc" /\ g.loc = f.loc /\ g.src = f.src
      /\ g.new = f.new /\ g.pc = "free" /\ g.old = o
  BY <1>2, <1>3, <1>6 DEF FrameType
<1>9. Locals(f)
  BY <1>1, <1>2, Knows
<1>10. Locals(g) /\ SameShape(g, f) /\ f.new = Nil
  BY <1>2, <1>3, <1>8, <1>9 DEF Locals, Places, SameShape, Stores, Inits, Copies
<1>11. /\ Holds(t)' = {} /\ LocksOfOthers(t)
       /\ lock' \in [Stripes -> Threads \cup {NoThread}]
  BY <1>1, <1>5, UnlockAll
<1>12. HasLocked(g, Holds(t)')
  BY <1>8, <1>11 DEF HasLocked, InSection, InTables, Registers
<1>13. PICK n : n = Len(stack[t])
  OBVIOUS
<1>14. /\ Calling' /\ Cut(t, n - 1, n) /\ n \in Nat \ {0} /\ stack'[t][n] = g
       /\ stack[t][n] = f
  <2>1. SameShape(g, Top(t)) /\ g.pc # "load"
    BY <1>2, <1>8, <1>10
  <2> QED
    BY <1>1, <1>2, <1>7, <1>10, <1>11, <1>12, <1>13, <2>1, Advance
<1>15. \A i \in n - 1 + 1..n : i = n
  BY <1>14
<1>16. \A l \in Locations : ~(isWeak[l] /\ value[l] = o)
  <2> SUFFICES ASSUME NEW l \in Locations, isWeak[l], value[l] = o PROVE FALSE
    OBVIOUS
  <2>1. PICK u \in Threads : stack[u] # <<>> /\ Moves(Top(u), o, l)
    BY <1>1, <1>5 DEF Storing, TablesAgree
  <2>2. PICK h : h = Top(u)
    OBVIOUS
  <2>3. HasLocked(h, Holds(u)) /\ o # Nil
    BY <2>1, <2>2, Knows, WeakAssumption
  <2>4. Stripe[o] \in Holds(u)
    <3>1. CASE Removed(h, o)
      BY <2>3, <3>1 DEF Removed, HasLocked, InSection, HaveOld, Inits, InTables, Registers
    <3>2. CASE Added(h, o)
      BY <2>3, <3>2 DEF Added, HasLocked, InSection, InTables, Registers
    <3> QED
      BY <2>1, <2>2, <3>1, <3>2 DEF Moves
  <2>5. u = t
    BY <1>4, <2>4 DEF Holds
  <2> QED
    BY <1>1, <2>1, <2>5 DEF Moves, StoreFns
<1>17. Types'
  BY <1>1, <1>5, <1>11, <1>14 DEF Types, Cut, storage, objects
<1>18. Storing'
  <2>1. RowsOfOthers(t) /\ table' \subseteq Objects \X Locations
    <3>1. table' \subseteq Objects \X Locations
      BY <1>17 DEF Types
    <3> QED
      BY <1>4, <1>5, <3>1 DEF RowsOfOthers, objects
  <2>2. Variables(g)
    BY <1>8 DEF Variables, Inits, Stores, Copies, HaveOld
  <2>3. Pairs(g)'
    <3>1. \A l \in Locations : ~(isWeak'[l] /\ value'[l] = o)
      BY <1>5, <1>16 DEF storage
    <3> QED
      BY <1>8, <3>1 DEF Pairs, HaveOld, HaveNew
  <2>4. TablesAgree'
    <3>1. \A x \in Objects, l \in Locations :
            \/ <<x, l>> \in table' <=> isWeak[l] /\ value[l] = x
            \/ /\ <<x, l>> \in table' <=> <<x, l>> \in table
               /\ ~Moves(Top(t), x, l) /\ ~Clears(Top(t), x)
      <4> SUFFICES ASSUME NEW x \in Objects, NEW l \in Locations
                   PROVE  \/ <<x, l>> \in table' <=> isWeak[l] /\ value[l] = x
                          \/ /\ <<x, l>> \in table' <=> <<x, l>> \in table
                             /\ ~Moves(Top(t), x, l) /\ ~Clears(Top(t), x)
        OBVIOUS
      <4>1. CASE x = o
        BY <1>5, <1>16, <4>1
      <4>2. CASE x # o
        <5>1. <<x, l>> \in table' <=> <<x, l>> \in table
          BY <1>5, <4>2
        <5>2. ~Moves(Top(t), x, l) /\ ~Clears(Top(t), x)
          BY <1>1, <1>2, <1>3, <4>2 DEF Moves, Clears, StoreFns
        <5> QED
          BY <5>1, <5>2
      <4> QED
        BY <4>1, <4>2
    <3>2. n > 0 /\ UNCHANGED storage /\ TablesAgree
      BY <1>1, <1>5, <1>14 DEF Storing
    <3> QED
      BY <1>1, <1>14, <3>1, <3>2, TablesChanged
  <2>5. Reachable'
    BY <1>1, <1>5 DEF Storing, Reachable, storage, objects
  <2>6. UNCHANGED storage
    BY <1>5
  <2> QED
    BY <1>8, <1>14, <1>15, <2>1, <2>2, <2>3, <2>4, <2>5, <2>6, StoringChanged
<1>19. Counting'
  <2>1. Given(t, n)'
    BY <1>8, <1>10, <1>14 DEF Given
  <2>2. UNCHANGED <<memory, held>>
    BY <1>5 DEF objects
  <2>3. \A x : ~HasReference(g, x)
    BY <1>8 DEF HasReference, Copies
  <2>4. n \in DOMAIN stack[t]
    BY <1>13, <1>14 DEF Cut
  <2> QED
    BY <1>1, <1>2, <1>3, <1>8, <1>14, <1>15, <2>1, <2>2, <2>3, <2>4, CountingKept
<1> QED
  BY <1>14, <1>17, <1>18, <1>19 DEF IInv

(* Nobody can reach the object any more when its memory is freed.          *)
LEMMA FreeStep ==
  ASSUME IInv, NEW t \in Threads, Free(t)
  PROVE  IInv'
<1>1. /\ Types /\ Calling /\ Storing /\ Counting
      /\ stack[t] # <<>> /\ Top(t).fn = "dealloc" /\ Top(t).pc = "free"
      /\ Top(t) \in FrameType
  BY Tops DEF IInv, Free, At
<1>2. PICK o \in Objects : o = Top(t).old
  BY <1>1, Knows DEF Locals
<1>3. Holds(t) = {} /\ \A l \in Locations : ~(isWeak[l] /\ value[l] = o)
  BY <1>1, <1>2, Knows DEF HasLocked, InSection, InTables, Registers, Pairs
<1>4. /\ memory' = [memory EXCEPT ![o] = "free"]
      /\ weakBit' = [weakBit EXCEPT ![o] = FALSE]
      /\ Return(t) /\ UNCHANGED <<storage, table, held, class, lock>>
  BY <1>2 DEF Free
<1>5. /\ memory' \in [Objects -> {"free", "live", "dealloc"}]
      /\ weakBit' \in [Objects -> BOOLEAN]
      /\ \A x \in Objects \ {o} : memory'[x] = memory[x] /\ weakBit'[x] = weakBit[x]
  BY <1>1, <1>4 DEF Types
<1>6. Holds(t)' = {} /\ LocksOfOthers(t)
  BY <1>3, <1>4, SameLocks
<1>7. PICK n : n = Len(stack[t])
  OBVIOUS
<1>8. /\ Calling' /\ Cut(t, n - 1, n - 1) /\ n \in Nat \ {0} /\ stack[t][n] = Top(t)
      /\ n - 1 > 0 => /\ stack'[t][n - 1] = stack[t][n - 1]
                      /\ Quiet(stack[t][n - 1]) /\ Above(stack[t][n - 1], Top(t))
  BY <1>1, <1>4, <1>6, <1>7, Ascend
<1>9. \A i \in n - 1 + 1..n - 1 : FALSE
  BY <1>8
<1>10. n \in DOMAIN stack[t] /\ memory[o] = "dealloc"
  <2>1. n \in DOMAIN stack[t]
    BY <1>7, <1>8 DEF Cut
  <2> QED
    BY <1>1, <1>2, <1>8, <2>1 DEF Counting, OneDealloc
<1>11. Types'
  BY <1>1, <1>4, <1>5, <1>8 DEF Types, Cut, storage
<1>12. Counting'
  <2>1. \A u \in Threads : \A i \in DOMAIN stack'[u] : Given(u, i)'
    <3>1. \A u \in Threads : \A i \in DOMAIN stack[u] : Given(u, i)
      BY <1>1 DEF Counting
    <3>2. UNCHANGED held
      BY <1>4
    <3> QED
      BY <1>1, <1>8, <1>9, <3>1, <3>2, GivenStays
  <2>2. OneDealloc'
    <3>1. \A u \in Threads : \A i \in DOMAIN stack'[u] :
            /\ stack'[u][i].fn = "dealloc" /\ memory[stack'[u][i].old] = "dealloc"
            => memory'[stack'[u][i].old] = "dealloc"
      <4> SUFFICES ASSUME NEW u \in Threads, NEW i \in DOMAIN stack'[u],
                          stack'[u][i].fn = "dealloc", memory[stack'[u][i].old] = "dealloc"
                   PROVE  memory'[stack'[u][i].old] = "dealloc"
        OBVIOUS
      <4>1. i \in DOMAIN stack[u] /\ stack'[u][i] = stack[u][i] /\ ~(u = t /\ i = n)
        <5>1. CASE u = t
          BY <1>8, <5>1 DEF Cut, Below
        <5>2. CASE u # t
          BY <1>8, <5>2 DEF Cut, Others
        <5> QED
          BY <5>1, <5>2
      <4>2. stack[u][i].old # o
        BY <1>1, <1>2, <1>8, <1>10, <4>1 DEF Counting, OneDealloc
      <4>3. stack[u][i].old \in Objects
        BY <1>1, <4>1 DEF Calling, Nested, Locals
      <4> QED
        BY <1>5, <4>1, <4>2, <4>3
    <3> QED
      BY <1>1, <1>8, <1>9, <3>1, DeallocKept DEF Counting
  <2>3. HeldIsLive'
    BY <1>1, <1>4, <1>5, <1>10 DEF Counting, HeldIsLive
  <2> QED
    BY <2>1, <2>2, <2>3 DEF Counting
<1>13. \A u \in Threads : VariablesOf(u)'
  <2>1. VariablesOf(t)'
    <3>1. stack'[t] # <<>> => Top(t)'.pc # "setNil"
      BY <1>1, <1>8 DEF Cut, Above, Copies
    <3>2. VariablesOf(t) /\ UNCHANGED storage
      BY <1>1, <1>4 DEF Storing
    <3>3. PICK m \in Nat : m = n - 1
      BY <1>8
    <3>4. Cut(t, m, m)
      BY <1>8, <3>3
    <3>5. /\ DOMAIN stack[t] = 1..Len(stack[t]) /\ Len(stack[t]) \in Nat /\ m <= Len(stack[t])
          /\ DOMAIN stack'[t] = 1..m /\ Below(t, m) /\ \A i \in m + 1..m : FALSE
      BY <3>4 DEF Cut
    <3> QED
      BY <3>1, <3>2, <3>5, VariablesKept
  <2>2. ASSUME NEW u \in Threads \ {t} PROVE VariablesOf(u)'
    BY <1>1, <1>4, <1>8, <2>2, OthersVariables DEF Storing, Cut
  <2> QED
    BY <2>1, <2>2
<1>14. \A u \in Threads : stack'[u] # <<>> => Pairs(Top(u))'
  <2>1. stack'[t] # <<>> => Pairs(Top(t))'
    <3> SUFFICES ASSUME stack'[t] # <<>> PROVE Pairs(Top(t))'
      OBVIOUS
    <3>1. PICK g : g = Top(t)'
      OBVIOUS
    <3>2. Quiet(g)
      BY <1>8, <3>1 DEF Cut
    <3>3. Pairs(g)'
      BY <3>2 DEF Quiet, Pairs, Registers
    <3> QED
      BY <3>1, <3>3
  <2>2. ASSUME NEW u \in Threads \ {t}, stack'[u] # <<>>
        PROVE  Pairs(Top(u))'
    <3>1. stack'[u] = stack[u] /\ stack[u] # <<>>
      BY <1>8, <2>2 DEF Cut, Others
    <3>2. PICK g : g = Top(u)
      OBVIOUS
    <3>3. Pairs(g)
      BY <3>1, <3>2, Knows
    <3>4. HaveNew(g) /\ g.pc = "assign" /\ g.new # Nil => weakBit'[g.new]
      <4> SUFFICES ASSUME HaveNew(g), g.pc = "assign", g.new # Nil PROVE weakBit'[g.new]
        OBVIOUS
      <4>1. g.new \in Objects /\ memory[g.new] = "live"
        BY <3>1, <3>2, TopGiven
      <4>2. weakBit[g.new] /\ g.new # o
        BY <1>10, <3>3, <4>1 DEF Pairs
      <4> QED
        BY <1>5, <4>1, <4>2
    <3>5. UNCHANGED <<value, isWeak, table>>
      BY <1>4 DEF storage
    <3>6. Pairs(g)'
      BY <3>3, <3>4, <3>5 DEF Pairs
    <3> QED
      BY <3>1, <3>2, <3>6 DEF Top
  <2> QED
    BY <2>1, <2>2
<1>15. TablesAgree'
  <2>1. \A x, l : ~Moves(Top(t), x, l) /\ ~Clears(Top(t), x)
    BY <1>1 DEF Moves, Clears, StoreFns
  <2> QED
    BY <1>1, <1>4, <1>8, <2>1, TablesKept DEF Storing, Cut
<1>16. Reachable'
  BY <1>1, <1>3, <1>4, <1>5 DEF Storing, Reachable, storage, Types
<1>17. Storing'
  BY <1>13, <1>14, <1>15, <1>16 DEF Storing
<1> QED
  BY <1>8, <1>11, <1>12, <1>17 DEF IInv


-----------------------------------------------------------------------------
(* The theorems                                                            *)

LEMMA InitIInv == Init => IInv
<1> SUFFICES ASSUME Init PROVE IInv
  OBVIOUS
<1>1. \A t \in Threads : stack[t] = <<>> /\ DOMAIN stack[t] = {}
  BY DEF Init
<1>2. Types
  <2>1. value \in [Locations -> Objects \cup {Nil}] /\ isWeak \in [Locations -> BOOLEAN]
    BY DEF Init
  <2>2. /\ memory \in [Objects -> {"free", "live", "dealloc"}]
        /\ weakBit \in [Objects -> BOOLEAN] /\ held \in [Threads -> [Objects -> Nat]]
    BY DEF Init
  <2>3. class \in [Objects -> {"no", "initializing", "defaultRR", "initialized"}]
    BY DEF Init
  <2>4. lock \in [Stripes -> Threads \cup {NoThread}] /\ stack \in [Threads -> Seq(FrameType)]
    BY DEF Init
  <2>5. table \subseteq Objects \X Locations
    BY DEF Init
  <2> QED
    BY <2>1, <2>2, <2>3, <2>4, <2>5 DEF Types
<1>3. Calling
  <2>1. \A t \in Threads : Holds(t) = {}
    BY WeakAssumption DEF Init, Holds
  <2> QED
    BY <1>1, <2>1 DEF Calling, Exclusive, Nested, Locked
<1>4. Storing
  <2>1. \A t \in Threads : VariablesOf(t)
    BY <1>1 DEF VariablesOf
  <2>2. TablesAgree /\ Reachable
    BY WeakAssumption DEF Init, TablesAgree, Reachable
  <2> QED
    BY <1>1, <2>1, <2>2 DEF Storing
<1>5. Counting
  <2>1. HeldIsLive
    BY DEF Init, HeldIsLive
  <2> QED
    BY <1>1, <2>1 DEF Counting, OneDealloc
<1> QED
  BY <1>2, <1>3, <1>4, <1>5 DEF IInv

LEMMA Stutter ==
  ASSUME IInv, UNCHANGED vars
  PROVE  IInv'
<1>1. UNCHANGED <<value, isWeak, table, weakBit, memory, held, class, lock, stack>>
  BY DEF vars
<1>2. Types'
  BY <1>1 DEF IInv, Types
<1>3. Calling'
  BY <1>1, CallingStays DEF IInv
<1>4. Storing'
  BY <1>1 DEF IInv, Storing, VariablesOf, Variables, TablesAgree, Pairs, Reachable, Top
<1>5. Counting'
  <2>1. ASSUME NEW t \in Threads, NEW i \in DOMAIN stack[t] PROVE Given(t, i)'
    <3>1. \A o : ReferencesAbove(t, i, o)' = ReferencesAbove(t, i, o)
      BY <1>1 DEF ReferencesAbove
    <3>2. Given(t, i)
      BY DEF IInv, Counting
    <3> QED
      BY <1>1, <3>1, <3>2 DEF Given
  <2>2. OneDealloc' /\ HeldIsLive'
    BY <1>1 DEF IInv, Counting, OneDealloc, HeldIsLive
  <2> QED
    BY <1>1, <2>1, <2>2 DEF Counting
<1> QED
  BY <1>2, <1>3, <1>4, <1>5 DEF IInv

LEMMA Invariance == IInv /\ [Next]_vars => IInv'
<1> SUFFICES ASSUME IInv, [Next]_vars PROVE IInv'
  OBVIOUS
<1>1. CASE UNCHANGED vars
  BY <1>1, Stutter
<1>2. ASSUME NEW t \in Threads, Call(t) PROVE IInv'
  BY <1>2, CallStoreStep, CallInitStep, CallDestroyStep, CallLoadStep, CallCopyStep,
     CallAllocStep, CallReleaseStep, CallMessageStep DEF Call
<1>3. ASSUME NEW t \in Threads, Run(t) PROVE IInv'
  BY <1>3, LockTwoStep, ReadOldStep, CheckStep, UnregisterStep, RegisterStep,
     SetWeaklyReferencedStep, AssignStep, LoadReadStep, LoadCheckStep, LoadFastStep,
     LoadSlowStep, CopyInitStep, CopyReleaseStep, CopyEndStep, MoveSetNilStep,
     RootDeallocStep, ClearOneStep, ClearDoneStep, FreeStep, InitializeEnterStep,
     SetDefaultRRStep, SetInitializedStep DEF Run
<1> QED
  BY <1>1, <1>2, <1>3 DEF Next

(* Every reachable state satisfies the inductive invariant: each call is at*)
(* a place of its function, knows its variable, holds the locks it needs   *)
(* there, and accounts for the references and pairs it has.                *)
THEOREM SpecIInv == Spec => []IInv
<1>1. Init => IInv
  BY InitIInv
<1>2. IInv /\ [Next]_vars => IInv'
  BY Invariance
<1> QED
  BY <1>1, <1>2, PTL DEF Spec

LEMMA TablesFollow == IInv => TablesSound
<1> SUFFICES ASSUME IInv PROVE TablesSound
  OBVIOUS
<1>1. TypeOK
  BY DEF IInv, Types, TypeOK, Calling, Nested, Locals
<1>2. RegisteredExactly
  <2> SUFFICES ASSUME NEW o \in Objects, NEW l \in Locations, lock[Stripe[o]] = NoThread,
                      ~(<<o, l>> \in table <=> isWeak[l] /\ value[l] = o)
               PROVE  FALSE
    BY DEF RegisteredExactly
  <2>1. PICK t \in Threads :
          /\ stack[t] # <<>>
          /\ Moves(Top(t), o, l) \/ (Clears(Top(t), o) /\ value[l] # o)
    BY DEF IInv, Storing, TablesAgree
  <2>2. PICK f : f = Top(t)
    OBVIOUS
  <2>3. HasLocked(f, Holds(t)) /\ o # Nil
    BY <2>1, <2>2, Knows, WeakAssumption
  <2>4. Stripe[o] \in Holds(t)
    <3>1. CASE Moves(f, o, l) /\ Removed(f, o)
      BY <2>3, <3>1 DEF Removed, HasLocked, InSection, HaveOld, Inits, InTables, Registers
    <3>2. CASE Moves(f, o, l) /\ Added(f, o)
      BY <2>3, <3>2 DEF Added, HasLocked, InSection, InTables, Registers
    <3>3. CASE Clears(f, o)
      BY <2>3, <3>3 DEF Clears, HasLocked, InSection, Inits
    <3> QED
      BY <2>1, <2>2, <3>1, <3>2, <3>3 DEF Moves
  <2> QED
    BY <2>4, WeakAssumption DEF Holds
<1>3. LoadTouchesMemory
  <2> SUFFICES ASSUME NEW t \in Threads,
                      At(t, {"loadWeak"}, "fast") \/ At(t, {"loadWeak"}, "slow")
               PROVE  memory[Top(t).old] # "free"
    BY DEF LoadTouchesMemory
  <2>1. /\ stack[t] # <<>> /\ Top(t).fn = "loadWeak" /\ Top(t).pc \in {"fast", "slow"}
    BY DEF At
  <2>2. Locals(Top(t)) /\ Variables(Top(t))
    BY <2>1, Knows
  <2>3. Top(t).loc \in Locations /\ Top(t).old # Nil
    BY <2>1, <2>2 DEF Locals
  <2>4. isWeak[Top(t).loc] /\ value[Top(t).loc] = Top(t).old
    BY <2>1, <2>2 DEF Variables
  <2> QED
    BY <2>3, <2>4 DEF IInv, Storing, Reachable
<1> QED
  BY <1>1, <1>2, <1>3 DEF TablesSound

LEMMA CyclesFollow == IInv => NoLockCycle
<1> SUFFICES ASSUME IInv, NEW t \in Threads, NEW u \in Threads,
                    At(t, StoreFns, "lock"), At(u, StoreFns, "lock"),
                    NextLock(t) \in Holds(u), NextLock(u) \in Holds(t)
             PROVE  FALSE
  BY DEF NoLockCycle
<1>1. /\ stack[t] # <<>> /\ Top(t).pc = "lock" /\ stack[u] # <<>> /\ Top(u).pc = "lock"
  BY DEF At
<1>2. /\ NextLock(t) \in Wanted(Top(t)) \ Holds(t) /\ NextLock(t) \in Nat
      /\ NextLock(u) \in Wanted(Top(u)) \ Holds(u) /\ NextLock(u) \in Nat
  BY <1>1, NextLocks
<1>3. HasLocked(Top(t), Holds(t)) /\ HasLocked(Top(u), Holds(u))
  BY <1>1, Knows
<1>4. NextLock(u) < NextLock(t)
  BY <1>1, <1>2, <1>3 DEF HasLocked
<1>5. NextLock(t) < NextLock(u)
  BY <1>1, <1>2, <1>3 DEF HasLocked
<1> QED
  BY <1>2, <1>4, <1>5

(* For any number of threads, objects, variables and side tables, the      *)
(* tables agree with the variables whenever they are unlocked, and a load  *)
(* that holds the lock reads an object that is still in memory.            *)
THEOREM TablesAreSound == Spec => []TablesSound
<1>1. Spec => []IInv
  BY SpecIInv
<1>2. IInv => TablesSound
  BY TablesFollow
<1> QED
  BY <1>1, <1>2, PTL

(* storeWeak's order of addresses excludes a circle of two threads that    *)
(* wait for each other's side tables, whatever the hash of the objects.    *)
THEOREM NoLockCycles == Spec => []NoLockCycle
<1>1. Spec => []IInv
  BY SpecIInv
<1>2. IInv => NoLockCycle
  BY CyclesFollow
<1> QED
  BY <1>1, <1>2, PTL

(* No __weak variable ever holds an object whose memory was freed.         *)
THEOREM NoDangling == Spec => []NoDanglingVariable
<1>1. Spec => []IInv
  BY SpecIInv
<1>2. IInv => NoDanglingVariable
  BY DEF IInv, Storing, Reachable, NoDanglingVariable
<1> QED
  BY <1>1, <1>2, PTL

-----------------------------------------------------------------------------
(* WeakReferences implements WeakVariables                                 *)

(* The strong references to an object.                                     *)
Held(o) == UNION {{t} \X (1..held[t][o]) : t \in Threads}

(* The references as a set: one pair of a thread and a number for each.   *)
LEMMA HeldIs ==
  ASSUME Types, NEW o \in Objects
  PROVE  /\ \A r : r \in Held(o) <=> \E t \in Threads : \E i \in 1..held[t][o] : r = <<t, i>>
         /\ Strong(o) = Cardinality(Held(o)) /\ IsFiniteSet(Held(o)) /\ Strong(o) \in Nat
         /\ Strong(o) = 0 <=> \A t \in Threads : held[t][o] = 0
<1>1. \A t \in Threads : held[t][o] \in Nat
  BY DEF Types
<1>2. \A r : r \in Held(o) <=> \E t \in Threads : \E i \in 1..held[t][o] : r = <<t, i>>
  BY DEF Held
<1>3. Strong(o) = Cardinality(Held(o))
  BY DEF Strong, Held
<1>4. IsFiniteSet(Held(o))
  <2>1. PICK R : R = {{t} \X (1..held[t][o]) : t \in Threads}
    OBVIOUS
  <2>2. IsFiniteSet(Threads)
    BY WeakAssumption
  <2>3. IsFiniteSet(R)
    <3>1. PICK f : f = [t \in Threads |-> {t} \X (1..held[t][o])]
      OBVIOUS
    <3>2. f \in Surjection(Threads, R)
      BY <2>1, <3>1 DEF Surjection
    <3> QED
      BY <2>2, <3>2, FS_Surjection
  <2>4. ASSUME NEW t \in Threads PROVE IsFiniteSet({t} \X (1..held[t][o]))
    <3>1. held[t][o] \in Int /\ 1 \in Int
      BY <1>1
    <3>2. IsFiniteSet(1..held[t][o])
      BY <3>1, FS_Interval, Zenon
    <3>3. IsFiniteSet({t})
      BY FS_Singleton
    <3> QED
      BY <3>2, <3>3, FS_Product
  <2>5. \A q \in R : IsFiniteSet(q)
    BY <2>1, <2>4
  <2> QED
    BY <2>1, <2>3, <2>5, FS_UNION DEF Held
<1>5. Strong(o) \in Nat /\ (Strong(o) = 0 <=> Held(o) = {})
  BY <1>3, <1>4, FS_CardinalityType, FS_EmptySet
<1>6. Held(o) = {} <=> \A t \in Threads : held[t][o] = 0
  <2>1. ASSUME NEW t \in Threads, held[t][o] # 0 PROVE <<t, 1>> \in Held(o)
    <3>1. 1 \in 1..held[t][o]
      BY <1>1, <2>1
    <3> QED
      BY <1>2, <3>1
  <2>2. ASSUME NEW r \in Held(o), \A t \in Threads : held[t][o] = 0 PROVE FALSE
    <3>1. PICK t \in Threads : \E i \in 1..held[t][o] : r = <<t, i>>
      BY <1>2
    <3> QED
      BY <2>2, <3>1
  <2> QED
    BY <2>1, <2>2
<1> QED
  BY <1>2, <1>3, <1>4, <1>5, <1>6

(* Others have the references they had.                                    *)
LEMMA StrongSame ==
  ASSUME NEW o, \A t \in Threads : held'[t][o] = held[t][o]
  PROVE  Strong(o)' = Strong(o)
<1>1. UNION {{t} \X (1..held'[t][o]) : t \in Threads} = UNION {{t} \X (1..held[t][o]) : t \in Threads}
  OBVIOUS
<1> QED
  BY <1>1 DEF Strong

(* A thread gets a reference.                                              *)
LEMMA StrongMore ==
  ASSUME Types, Types', NEW t \in Threads, NEW o \in Objects, held'[t][o] = held[t][o] + 1,
         \A u \in Threads \ {t} : held'[u][o] = held[u][o]
  PROVE  Strong(o)' = Strong(o) + 1
<1>1. PICK H, G : H = Held(o) /\ G = Held(o)'
  OBVIOUS
<1>2. PICK n : n = held[t][o] + 1
  OBVIOUS
<1>3. /\ \A r : r \in H <=> \E u \in Threads : \E i \in 1..held[u][o] : r = <<u, i>>
      /\ Strong(o) = Cardinality(H) /\ IsFiniteSet(H)
  BY <1>1, HeldIs
<1>4. /\ \A r : r \in G <=> \E u \in Threads : \E i \in 1..held'[u][o] : r = <<u, i>>
      /\ Strong(o)' = Cardinality(G)
  <2>1. \A r : r \in Held(o)' <=> \E u \in Threads : \E i \in 1..held'[u][o] : r = <<u, i>>
    BY DEF Held
  <2>2. Strong(o)' = Cardinality(Held(o)')
    BY DEF Strong, Held
  <2> QED
    BY <1>1, <2>1, <2>2
<1>5. held[t][o] \in Nat /\ n \in Nat /\ held'[t][o] = n
  BY <1>2 DEF Types
<1>6. <<t, n>> \notin H
  <2> SUFFICES ASSUME <<t, n>> \in H PROVE FALSE
    OBVIOUS
  <2>0. PICK u \in Threads : \E i \in 1..held[u][o] : <<t, n>> = <<u, i>>
    BY <1>3
  <2>1. PICK i \in 1..held[u][o] : <<t, n>> = <<u, i>>
    BY <2>0
  <2>2. u = t /\ i = n
    BY <2>1
  <2> QED
    BY <1>2, <1>5, <2>1, <2>2
<1>7. G = H \cup {<<t, n>>}
  <2>1. ASSUME NEW r \in G PROVE r \in H \cup {<<t, n>>}
    <3>0. PICK u \in Threads : \E i \in 1..held'[u][o] : r = <<u, i>>
      BY <1>4, <2>1
    <3>1. PICK i \in 1..held'[u][o] : r = <<u, i>>
      BY <3>0
    <3>2. CASE u = t
      <4>1. i = n \/ i \in 1..held[t][o]
        BY <1>2, <1>5, <3>1, <3>2
      <4> QED
        BY <1>3, <3>1, <3>2, <4>1
    <3>3. CASE u # t
      BY <1>3, <3>1, <3>3
    <3> QED
      BY <3>2, <3>3
  <2>2. ASSUME NEW r \in H PROVE r \in G
    <3>0. PICK u \in Threads : \E i \in 1..held[u][o] : r = <<u, i>>
      BY <1>3, <2>2
    <3>1. PICK i \in 1..held[u][o] : r = <<u, i>>
      BY <3>0
    <3>2. i \in 1..held'[u][o]
      <4>1. CASE u = t
        BY <1>2, <1>5, <3>1, <4>1
      <4>2. CASE u # t
        BY <3>1, <4>2
      <4> QED
        BY <4>1, <4>2
    <3> QED
      BY <1>4, <3>1, <3>2
  <2>3. <<t, n>> \in G
    BY <1>2, <1>4, <1>5
  <2> QED
    BY <2>1, <2>2, <2>3
<1> QED
  BY <1>3, <1>4, <1>6, <1>7, FS_AddElement

(* A thread gives one up.                                                  *)
LEMMA StrongLess ==
  ASSUME Types, Types', NEW t \in Threads, NEW o \in Objects, held[t][o] > 0,
         held'[t][o] = held[t][o] - 1,
         \A u \in Threads \ {t} : held'[u][o] = held[u][o]
  PROVE  Strong(o)' = Strong(o) - 1 /\ (LastReference(t, o) <=> Strong(o) = 1)
<1>1. PICK H, G : H = Held(o) /\ G = Held(o)'
  OBVIOUS
<1>2. PICK n : n = held[t][o]
  OBVIOUS
<1>3. /\ \A r : r \in H <=> \E u \in Threads : \E i \in 1..held[u][o] : r = <<u, i>>
      /\ Strong(o) = Cardinality(H) /\ IsFiniteSet(H) /\ Strong(o) \in Nat
  BY <1>1, HeldIs
<1>4. /\ \A r : r \in G <=> \E u \in Threads : \E i \in 1..held'[u][o] : r = <<u, i>>
      /\ Strong(o)' = Cardinality(G)
  <2>1. \A r : r \in Held(o)' <=> \E u \in Threads : \E i \in 1..held'[u][o] : r = <<u, i>>
    BY DEF Held
  <2>2. Strong(o)' = Cardinality(Held(o)')
    BY DEF Strong, Held
  <2> QED
    BY <1>1, <2>1, <2>2
<1>5. n \in Nat \ {0} /\ held'[t][o] = n - 1
  BY <1>2 DEF Types
<1>6. <<t, n>> \in H
  BY <1>2, <1>3, <1>5
<1>7. G = H \ {<<t, n>>}
  <2>1. ASSUME NEW r \in G PROVE r \in H \ {<<t, n>>}
    <3>0. PICK u \in Threads : \E i \in 1..held'[u][o] : r = <<u, i>>
      BY <1>4, <2>1
    <3>1. PICK i \in 1..held'[u][o] : r = <<u, i>>
      BY <3>0
    <3>2. i \in 1..held[u][o]
      <4>1. CASE u = t
        BY <1>2, <1>5, <3>1, <4>1
      <4>2. CASE u # t
        BY <3>1, <4>2
      <4> QED
        BY <4>1, <4>2
    <3>3. r # <<t, n>>
      <4>1. u = t => i # n
        BY <1>5, <3>1
      <4> QED
        BY <3>1, <4>1
    <3> QED
      BY <1>3, <3>1, <3>2, <3>3
  <2>2. ASSUME NEW r \in H \ {<<t, n>>} PROVE r \in G
    <3>0. PICK u \in Threads : \E i \in 1..held[u][o] : r = <<u, i>>
      BY <1>3, <2>2
    <3>1. PICK i \in 1..held[u][o] : r = <<u, i>>
      BY <3>0
    <3>2. u = t => i # n
      BY <2>2, <3>1
    <3>3. i \in 1..held'[u][o]
      <4>1. CASE u = t
        BY <1>2, <1>5, <3>1, <3>2, <4>1
      <4>2. CASE u # t
        BY <3>1, <4>2
      <4> QED
        BY <4>1, <4>2
    <3> QED
      BY <1>4, <3>1, <3>3
  <2> QED
    BY <2>1, <2>2
<1>8. Cardinality(G) = Cardinality(H) - 1 /\ IsFiniteSet(G)
  BY <1>3, <1>6, <1>7, FS_RemoveElement
<1>9. Cardinality(G) = 0 <=> G = {}
  BY <1>8, FS_EmptySet
<1>10. G = {} <=> LastReference(t, o)
  <2>1. ASSUME NEW u \in Threads, held'[u][o] # 0 PROVE <<u, 1>> \in G
    <3>1. held'[u][o] \in Nat
      BY DEF Types
    <3>2. 1 \in 1..held'[u][o]
      BY <2>1, <3>1
    <3> QED
      BY <1>4, <3>2
  <2>2. G = {} <=> \A u \in Threads : held'[u][o] = 0
    <3>1. ASSUME NEW r \in G, \A u \in Threads : held'[u][o] = 0 PROVE FALSE
      <4>1. PICK u \in Threads : \E i \in 1..held'[u][o] : r = <<u, i>>
        BY <1>4
      <4> QED
        BY <3>1, <4>1
    <3> QED
      BY <2>1, <3>1
  <2>3. held'[t][o] = 0 <=> held[t][o] = 1
    BY <1>2, <1>5
  <2> QED
    BY <2>2, <2>3 DEF LastReference
<1> QED
  BY <1>3, <1>4, <1>8, <1>9, <1>10

(* The call of t goes over the referrers of an object that deallocates.    *)
Clearer(t) == stack[t] # <<>> /\ Top(t).fn = "dealloc" /\ Top(t).pc = "check"

(* Which objects a thread is clearing.                                    *)
LEMMA ClearingIs ==
  /\ \A o : Clearing(o) <=> \E t \in Threads : Clearer(t) /\ Top(t).old = o
  /\ \A o : Clearing(o)' <=> \E t \in Threads : Clearer(t)' /\ Top(t)'.old = o
BY DEF Clearing, Clearer, At

(* A step of t before and after which it is not that call.                 *)
Passes(t) == Others(t) /\ ~Clearer(t) /\ ~Clearer(t)'

(* An object is being cleared as long as its thread's frame says so.      *)
LEMMA ClearingStays ==
  ASSUME NEW t \in Threads, Passes(t)
  PROVE  \A o : Clearing(o)' <=> Clearing(o)
<1>1. ASSUME NEW u \in Threads \ {t} PROVE Clearer(u)' = Clearer(u) /\ Top(u)' = Top(u)
  BY <1>1 DEF Passes, Others, Clearer, Top
<1> QED
  BY <1>1, ClearingIs DEF Passes

(* A variable that is not stored to shows what it did, unless its object   *)
(* starts or ends being cleared.                                           *)
LEMMA SeenKept ==
  ASSUME NEW l, value'[l] = value[l], isWeak'[l] = isWeak[l],
         Clearing(value[l])' <=> Clearing(value[l])
  PROVE  Seen(l)' = Seen(l)
BY DEF Seen

(* What a variable shows.                                                 *)
LEMMA SeenIs ==
  ASSUME Types, NEW l \in Locations
  PROVE  /\ ~isWeak[l] => Seen(l) = Raw
         /\ isWeak[l] /\ (value[l] = Nil \/ ~Clearing(value[l])) => Seen(l) = value[l]
         /\ isWeak[l] /\ value[l] # Nil /\ Clearing(value[l]) => Seen(l) = Nil
         /\ Seen(l) = Raw => ~isWeak[l]
<1>1. value[l] \in Objects \cup {Nil} /\ isWeak[l] \in BOOLEAN
  BY DEF Types
<1>2. Raw # Nil /\ Raw # value[l]
  BY <1>1, WeakAssumption
<1> QED
  BY <1>1, <1>2 DEF Seen

(* A step that leaves variables, objects and references alone, and begins  *)
(* or ends no clearing, is none of WeakVariables.                          *)
LEMMA NothingSeen ==
  ASSUME NEW t \in Threads, Passes(t), UNCHANGED <<storage, memory, held>>
  PROVE  [Abstract!Next]_(Abstract!weakVars)
<1>1. value' = value /\ isWeak' = isWeak /\ memory' = memory /\ held' = held
  BY DEF storage
<1>2. \A l \in Locations : Seen(l)' = Seen(l)
  BY <1>1, ClearingStays, SeenKept
<1>3. \A o \in Objects : Strong(o)' = Strong(o)
  BY <1>1, StrongSame
<1>4. UNCHANGED Abstract!weakVars
  BY <1>1, <1>2, <1>3 DEF Abstract!weakVars
<1> QED
  BY <1>4

-----------------------------------------------------------------------------
(* What the changes of a stack do to clearing                              *)

(* Replacing the top frame by one that clears nothing starts and ends no clearing. *)
LEMMA BecomePasses ==
  ASSUME Types, NEW t \in Threads, stack[t] # <<>>, ~Clearer(t), NEW g \in FrameType, Become(t, g),
         g.fn # "dealloc" \/ g.pc # "check"
  PROVE  Passes(t)
BY BecomeFrames DEF Passes, Clearer

(* Nor does moving to another label.                                      *)
LEMMA GotoPasses ==
  ASSUME Types, NEW t \in Threads, stack[t] # <<>>, ~Clearer(t), NEW pc, Goto(t, pc),
         pc \in {"read", "lock", "check", "unregister", "register", "setBit", "assign", "fast",
                 "slow", "load", "init", "release", "end", "setNil", "run", "free", "enter", "finish"},
         Top(t).fn # "dealloc" \/ pc # "check"
  PROVE  Passes(t)
<1>1. PICK g : g = [Top(t) EXCEPT !.pc = pc]
  OBVIOUS
<1>2. g \in FrameType /\ g.fn = Top(t).fn /\ g.pc = pc
  BY <1>1, Tops DEF FrameType
<1> QED
  BY <1>1, <1>2, BecomePasses DEF Goto

(* Nor does a call.                                                       *)
LEMMA EnterPasses ==
  ASSUME Types, NEW t \in Threads, ~Clearer(t), NEW g \in FrameType, Enter(t, g), g.pc # "check"
  PROVE  Passes(t)
BY EnterFrames DEF Passes, Clearer

(* Nor does a call that also moves the caller.                            *)
LEMMA GotoAndEnterPasses ==
  ASSUME Types, NEW t \in Threads, stack[t] # <<>>, ~Clearer(t), NEW f \in FrameType, NEW g \in FrameType,
         BecomeEnter(t, f, g), g.pc # "check"
  PROVE  Passes(t)
BY BecomeEnterFrames DEF Passes, Clearer

(* Nor does a return.                                                     *)
LEMMA ReturnPasses ==
  ASSUME Types, NEW t \in Threads, Nested(t), stack[t] # <<>>, ~Clearer(t), Return(t)
  PROVE  Passes(t)
<1>1. PICK n : n = Len(stack[t]) - 1
  OBVIOUS
<1>2. ASSUME stack'[t] # <<>> PROVE Top(t)'.pc # "check"
  <2>1. Top(t)' = stack[t][n] /\ n \in 1..Len(stack[t]) /\ n # Len(stack[t])
    BY <1>1, <1>2, ReturnFrames, Tops
  <2> QED
    BY <2>1, Outer
<1> QED
  BY <1>2, ReturnFrames DEF Passes, Clearer

(* Nor does a return that hands a value to the caller.                    *)
LEMMA ReturnValuePasses ==
  ASSUME Types, NEW t \in Threads, Nested(t), stack[t] # <<>>, ~Clearer(t), NEW v \in Objects \cup {Nil},
         ReturnValue(t, v)
  PROVE  Passes(t)
<1>1. PICK n \in Nat : n = Len(stack[t]) - 1
  <2>1. Len(stack[t]) - 1 \in Nat
    BY Tops
  <2> QED
    BY <2>1
<1>2. ASSUME stack'[t] # <<>> PROVE Top(t)'.pc # "check"
  <2>1. \/ n > 0 /\ Top(t)' = stack[t][n]
        \/ n > 0 /\ Top(t)' = [stack[t][n] EXCEPT !.new = v, !.pc = "init"]
    BY <1>1, <1>2, ReturnValueFrames
  <2>2. n \in 1..Len(stack[t]) /\ n # Len(stack[t]) /\ stack[t][n] \in FrameType
    BY <1>1, <2>1, Tops
  <2>3. stack[t][n].pc # "check"
    BY <2>2, Outer
  <2> QED
    BY <2>1, <2>2, <2>3 DEF FrameType
<1>3. Others(t)
  BY <1>1, ReturnValueFrames
<1> QED
  BY <1>2, <1>3 DEF Passes, Clearer

(* What is known at a place of a function.                                 *)
LEMMA Place ==
  ASSUME IInv, NEW t \in Threads, NEW fns, NEW pc, At(t, fns, pc)
  PROVE  /\ Types /\ Nested(t) /\ stack[t] # <<>> /\ Top(t).fn \in fns /\ Top(t).pc = pc
         /\ Top(t) \in FrameType /\ Locals(Top(t))
         /\ ("dealloc" \notin fns \/ pc # "check") => ~Clearer(t)
<1>1. stack[t] # <<>> /\ Top(t).fn \in fns /\ Top(t).pc = pc
  BY DEF At
<1>2. Types /\ Calling /\ Locals(Top(t))
  BY <1>1, Knows
<1> QED
  BY <1>1, <1>2, Tops DEF Calling, Clearer

-----------------------------------------------------------------------------
(* Steps that the variables do not show                                    *)

(* storeWeak reads the old value: nothing is seen.                        *)
LEMMA ReadOldHides ==
  ASSUME IInv, NEW t \in Threads, ReadOld(t)
  PROVE  [Abstract!Next]_(Abstract!weakVars)
<1>1. At(t, StoreFns, "read") /\ UNCHANGED <<storage, memory, held>>
  BY DEF ReadOld, objects
<1>2. Types /\ stack[t] # <<>> /\ Top(t) \in FrameType /\ Locals(Top(t)) /\ Top(t).fn \in StoreFns /\ ~Clearer(t)
  BY <1>1, Place DEF StoreFns
<1>3. PICK v : v = IF HaveOld(Top(t)) THEN value[Top(t).loc] ELSE Nil
  OBVIOUS
<1>4. v \in Objects \cup {Nil}
  BY <1>2, <1>3 DEF Types, Locals, HaveOld
<1>5. PICK g : g = [Top(t) EXCEPT !.pc = "lock", !.old = v]
  OBVIOUS
<1>6. g \in FrameType /\ g.pc = "lock"
  BY <1>2, <1>4, <1>5 DEF FrameType
<1>7. Become(t, g)
  BY <1>3, <1>5 DEF ReadOld
<1> QED
  BY <1>1, <1>2, <1>6, <1>7, BecomePasses, NothingSeen

(* Nor when it checks the value under the locks.                          *)
LEMMA CheckHides ==
  ASSUME IInv, NEW t \in Threads, Check(t)
  PROVE  [Abstract!Next]_(Abstract!weakVars)
<1>1. At(t, StoreFns, "check") /\ UNCHANGED <<storage, memory, held>>
  BY DEF Check, objects
<1>2. Types /\ stack[t] # <<>> /\ Top(t) \in FrameType /\ Locals(Top(t)) /\ Top(t).fn \in StoreFns /\ ~Clearer(t)
  BY <1>1, Place DEF StoreFns
<1>3. CASE Goto(t, "read") \/ Goto(t, "unregister")
  BY <1>1, <1>2, <1>3, GotoPasses, NothingSeen
<1>4. CASE /\ MustInitialize(Top(t))
           /\ stack' = [stack EXCEPT ![t] = Append(Append(Front(@),
                    [Top(t) EXCEPT !.pc = "read", !.prev = TRUE]),
                    InitializeFrame(Top(t).new))]
  <2>1. PICK f, g : f = [Top(t) EXCEPT !.pc = "read", !.prev = TRUE] /\ g = InitializeFrame(Top(t).new)
    OBVIOUS
  <2>2. f \in FrameType
    BY <1>2, <2>1 DEF FrameType
  <2>3. Top(t).new \in Objects
    BY <1>2, <1>4 DEF MustInitialize, FrameType
  <2>4. g \in FrameType /\ g.pc = "enter"
    BY <2>1, <2>3, InitializeLocals DEF Locals
  <2>5. BecomeEnter(t, f, g)
    BY <1>4, <2>1 DEF BecomeEnter
  <2> QED
    BY <1>1, <1>2, <2>2, <2>4, <2>5, GotoAndEnterPasses, NothingSeen
<1> QED
  BY <1>3, <1>4 DEF Check, CheckOld

(* Nor when it removes the pair of the old object.                        *)
LEMMA UnregisterHides ==
  ASSUME IInv, NEW t \in Threads, Unregister(t)
  PROVE  [Abstract!Next]_(Abstract!weakVars)
<1>1. At(t, StoreFns, "unregister") /\ UNCHANGED <<storage, memory, held>>
  BY DEF Unregister, objects
<1>2. Types /\ stack[t] # <<>> /\ ~Clearer(t)
  BY <1>1, Place
<1>3. Goto(t, "register") \/ Goto(t, "assign")
  BY DEF Unregister
<1> QED
  BY <1>1, <1>2, <1>3, GotoPasses, NothingSeen

(* Nor when it adds the pair of the new one.                              *)
LEMMA RegisterHides ==
  ASSUME IInv, NEW t \in Threads, Register(t)
  PROVE  [Abstract!Next]_(Abstract!weakVars)
<1>1. At(t, StoreFns, "register") /\ UNCHANGED <<storage, memory, held>>
  BY DEF Register
<1>2. Types /\ stack[t] # <<>> /\ ~Clearer(t) /\ Top(t) \in FrameType
  BY <1>1, Place
<1>3. CASE Goto(t, "setBit")
  BY <1>1, <1>2, <1>3, GotoPasses, NothingSeen
<1>4. CASE Become(t, [Top(t) EXCEPT !.pc = "assign", !.new = Nil])
  <2>1. PICK g : g = [Top(t) EXCEPT !.pc = "assign", !.new = Nil]
    OBVIOUS
  <2>2. g \in FrameType /\ g.pc = "assign"
    BY <1>2, <2>1 DEF FrameType
  <2> QED
    BY <1>1, <1>2, <1>4, <2>1, <2>2, BecomePasses, NothingSeen
<1> QED
  BY <1>3, <1>4 DEF Register, WeakRegister

(* Nor when it marks the object.                                          *)
LEMMA SetWeaklyReferencedHides ==
  ASSUME IInv, NEW t \in Threads, SetWeaklyReferenced(t)
  PROVE  [Abstract!Next]_(Abstract!weakVars)
<1>1. At(t, StoreFns, "setBit") /\ UNCHANGED <<storage, memory, held>> /\ Goto(t, "assign")
  BY DEF SetWeaklyReferenced
<1>2. Types /\ stack[t] # <<>> /\ ~Clearer(t)
  BY <1>1, Place
<1> QED
  BY <1>1, <1>2, GotoPasses, NothingSeen

(* Nor when a load reads the variable.                                    *)
LEMMA LoadReadHides ==
  ASSUME IInv, NEW t \in Threads, LoadRead(t)
  PROVE  [Abstract!Next]_(Abstract!weakVars)
<1>1. At(t, {"loadWeak"}, "read") /\ UNCHANGED <<storage, memory, held>>
  BY DEF LoadRead, objects
<1>2. /\ Types /\ Nested(t) /\ stack[t] # <<>> /\ ~Clearer(t) /\ Top(t) \in FrameType
      /\ Locals(Top(t)) /\ Top(t).fn = "loadWeak"
  BY <1>1, Place
<1>3. CASE ReturnValue(t, Nil)
  <2>1. Nil \in Objects \cup {Nil}
    OBVIOUS
  <2> QED
    BY <1>1, <1>2, <1>3, <2>1, ReturnValuePasses, NothingSeen
<1>4. CASE Become(t, [Top(t) EXCEPT !.pc = "lock", !.old = value[Top(t).loc]])
  <2>1. PICK g : g = [Top(t) EXCEPT !.pc = "lock", !.old = value[Top(t).loc]]
    OBVIOUS
  <2>2. value[Top(t).loc] \in Objects \cup {Nil}
    BY <1>2 DEF Types, Locals
  <2>3. g \in FrameType /\ g.pc = "lock"
    BY <1>2, <2>1, <2>2 DEF FrameType
  <2> QED
    BY <1>1, <1>2, <1>4, <2>1, <2>3, BecomePasses, NothingSeen
<1> QED
  BY <1>3, <1>4 DEF LoadRead

(* Nor when it reads it again under the lock.                             *)
LEMMA LoadCheckHides ==
  ASSUME IInv, NEW t \in Threads, LoadCheck(t)
  PROVE  [Abstract!Next]_(Abstract!weakVars)
<1>1. At(t, {"loadWeak"}, "check") /\ UNCHANGED <<storage, memory, held>>
  BY DEF LoadCheck, objects
<1>2. Types /\ stack[t] # <<>> /\ ~Clearer(t)
  BY <1>1, Place
<1>3. Goto(t, "read") \/ Goto(t, "slow") \/ Goto(t, "fast")
  BY DEF LoadCheck
<1> QED
  BY <1>1, <1>2, <1>3, GotoPasses, NothingSeen

(* Nor when a copy ends.                                                  *)
LEMMA CopyEndHides ==
  ASSUME IInv, NEW t \in Threads, CopyEnd(t)
  PROVE  [Abstract!Next]_(Abstract!weakVars)
<1>1. At(t, {"copyWeak", "moveWeak"}, "end") /\ UNCHANGED <<storage, memory, held>>
  BY DEF CopyEnd, objects
<1>2. /\ Types /\ Nested(t) /\ stack[t] # <<>> /\ ~Clearer(t) /\ Top(t) \in FrameType
      /\ Top(t).src \in Locations
  BY <1>1, Place DEF Locals, Copies
<1>3. CASE Return(t)
  BY <1>1, <1>2, <1>3, ReturnPasses, NothingSeen
<1>4. CASE GotoAndEnter(t, "setNil", Frame("destroyWeak", Top(t).src, Nil, Nil, Nil, "read"))
  <2>1. PICK f, g : /\ f = [Top(t) EXCEPT !.pc = "setNil"]
                    /\ g = Frame("destroyWeak", Top(t).src, Nil, Nil, Nil, "read")
    OBVIOUS
  <2>2. f \in FrameType /\ g \in FrameType /\ g.pc = "read"
    BY <1>2, <2>1 DEF FrameType, Frame, Functions
  <2>3. BecomeEnter(t, f, g)
    BY <1>4, <2>1 DEF BecomeEnter, GotoAndEnter
  <2> QED
    BY <1>1, <1>2, <2>2, <2>3, GotoAndEnterPasses, NothingSeen
<1> QED
  BY <1>3, <1>4 DEF CopyEnd

(* Nor when dealloc starts.                                               *)
LEMMA RootDeallocHides ==
  ASSUME IInv, NEW t \in Threads, RootDealloc(t)
  PROVE  [Abstract!Next]_(Abstract!weakVars)
<1>1. At(t, {"dealloc"}, "run") /\ UNCHANGED <<storage, memory, held>>
  BY DEF RootDealloc, objects
<1>2. Types /\ stack[t] # <<>> /\ ~Clearer(t)
  BY <1>1, Place
<1>3. Goto(t, "lock") \/ Goto(t, "free")
  BY DEF RootDealloc
<1> QED
  BY <1>1, <1>2, <1>3, GotoPasses, NothingSeen

(* Nor when a class is initialized.                                       *)
LEMMA InitializeHides ==
  ASSUME IInv, NEW t \in Threads, InitializeEnter(t) \/ SetDefaultRR(t) \/ SetInitialized(t)
  PROVE  [Abstract!Next]_(Abstract!weakVars)
<1>1. /\ At(t, {"initialize"}, "enter") \/ At(t, {"initialize"}, "run") \/ At(t, {"initialize"}, "finish")
      /\ UNCHANGED <<storage, memory, held>>
      /\ Goto(t, "run") \/ Goto(t, "finish") \/ Return(t)
  BY DEF InitializeEnter, SetDefaultRR, SetInitialized, objects
<1>2. Types /\ Nested(t) /\ stack[t] # <<>> /\ ~Clearer(t)
  BY <1>1, Place
<1>3. Passes(t)
  BY <1>1, <1>2, GotoPasses, ReturnPasses
<1> QED
  BY <1>1, <1>3, NothingSeen

(* Calls that begin.                                                       *)
LEMMA CallsHide ==
  ASSUME IInv, NEW t \in Threads, ProgramRuns(t), UNCHANGED <<storage, memory, held>>,
         NEW g \in FrameType, g.pc # "check", Enter(t, g)
  PROVE  [Abstract!Next]_(Abstract!weakVars)
<1>1. Types /\ ~Clearer(t)
  BY DEF IInv, ProgramRuns, Clearer, At
<1> QED
  BY <1>1, EnterPasses, NothingSeen

(* A client calls objc_storeWeak.                                         *)
LEMMA CallStoreHides ==
  ASSUME IInv, NEW t \in Threads, CallStore(t)
  PROVE  [Abstract!Next]_(Abstract!weakVars)
<1>1. PICK fn \in {"storeWeak", "storeWeakOrNil"}, l \in Locations :
        \E v \in MayStore(t, fn) : Enter(t, Frame(fn, l, Nil, Nil, v, "read"))
  BY DEF CallStore
<1>2. PICK v \in MayStore(t, fn) : Enter(t, Frame(fn, l, Nil, Nil, v, "read"))
  BY <1>1
<1>3. PICK g : g = Frame(fn, l, Nil, Nil, v, "read")
  OBVIOUS
<1>4. v \in Objects \cup {Nil}
  BY MayStoreObjects DEF IInv
<1>5. g \in FrameType /\ g.pc = "read"
  BY <1>3, <1>4 DEF FrameType, Frame, Functions
<1>6. ProgramRuns(t) /\ UNCHANGED <<storage, memory, held>>
  BY DEF CallStore, objects
<1> QED
  BY <1>2, <1>3, <1>5, <1>6, CallsHide

(* A client calls objc_destroyWeak.                                       *)
LEMMA CallDestroyHides ==
  ASSUME IInv, NEW t \in Threads, CallDestroy(t)
  PROVE  [Abstract!Next]_(Abstract!weakVars)
<1>1. PICK l \in Locations : Enter(t, Frame("destroyWeak", l, Nil, Nil, Nil, "read"))
  BY DEF CallDestroy
<1>2. PICK g : g = Frame("destroyWeak", l, Nil, Nil, Nil, "read")
  OBVIOUS
<1>3. g \in FrameType /\ g.pc = "read"
  BY <1>2 DEF FrameType, Frame, Functions
<1>4. ProgramRuns(t) /\ UNCHANGED <<storage, memory, held>>
  BY DEF CallDestroy, objects
<1> QED
  BY <1>1, <1>2, <1>3, <1>4, CallsHide

(* A client calls objc_loadWeakRetained.                                  *)
LEMMA CallLoadHides ==
  ASSUME IInv, NEW t \in Threads, CallLoad(t)
  PROVE  [Abstract!Next]_(Abstract!weakVars)
<1>1. PICK l \in Locations : Enter(t, Frame("loadWeak", l, Nil, Nil, Nil, "read"))
  BY DEF CallLoad
<1>2. PICK g : g = Frame("loadWeak", l, Nil, Nil, Nil, "read")
  OBVIOUS
<1>3. g \in FrameType /\ g.pc = "read"
  BY <1>2 DEF FrameType, Frame, Functions
<1>4. ProgramRuns(t) /\ UNCHANGED <<storage, memory, held>>
  BY DEF CallLoad, objects
<1> QED
  BY <1>1, <1>2, <1>3, <1>4, CallsHide

(* A client sends a message.                                              *)
LEMMA CallMessageHides ==
  ASSUME IInv, NEW t \in Threads, CallMessage(t)
  PROVE  [Abstract!Next]_(Abstract!weakVars)
<1>1. PICK o \in Objects : Enter(t, InitializeFrame(o))
  BY DEF CallMessage
<1>2. PICK g : g = InitializeFrame(o)
  OBVIOUS
<1>3. g \in FrameType /\ g.pc = "enter"
  BY <1>2 DEF FrameType, Frame, InitializeFrame
<1>4. ProgramRuns(t) /\ UNCHANGED <<storage, memory, held>>
  BY DEF CallMessage, objects
<1> QED
  BY <1>1, <1>2, <1>3, <1>4, CallsHide

(* A client calls objc_copyWeak or objc_moveWeak.                         *)
LEMMA CallCopyHides ==
  ASSUME IInv, NEW t \in Threads, CallCopy(t)
  PROVE  [Abstract!Next]_(Abstract!weakVars)
<1>1. PICK fn \in {"copyWeak", "moveWeak"}, d \in Locations, s \in Locations :
        stack' = [stack EXCEPT ![t] = @ \o <<Frame(fn, d, s, Nil, Nil, "load"),
                                            Frame("loadWeak", s, Nil, Nil, Nil, "read")>>]
  BY DEF CallCopy
<1>2. PICK f, g : f = Frame(fn, d, s, Nil, Nil, "load") /\ g = Frame("loadWeak", s, Nil, Nil, Nil, "read")
  OBVIOUS
<1>3. f \in FrameType /\ g \in FrameType /\ g.pc = "read"
  BY <1>2 DEF FrameType, Frame, Functions
<1>4. ProgramRuns(t) /\ UNCHANGED <<storage, memory, held>>
  BY DEF CallCopy, objects
<1>5. Types /\ ~Clearer(t)
  BY <1>4 DEF IInv, ProgramRuns, Clearer, At
<1>6. EnterTwo(t, f, g)
  BY <1>1, <1>2 DEF EnterTwo
<1>7. PICK n \in Nat : n = Len(stack[t])
  BY <1>5, Tops
<1>8. Cut(t, n, n + 2) /\ stack'[t][n + 2] = g
  BY <1>3, <1>5, <1>6, <1>7, EnterTwoFrames
<1>9. Passes(t)
  BY <1>3, <1>5, <1>7, <1>8 DEF Passes, Clearer, Cut
<1> QED
  BY <1>4, <1>9, NothingSeen

-----------------------------------------------------------------------------
(* Steps that the variables show                                           *)

(* Only objects that deallocate are cleared.                               *)
LEMMA ClearingDeallocates ==
  ASSUME IInv, NEW o, Clearing(o)
  PROVE  o \in Objects /\ memory[o] = "dealloc"
<1>1. PICK t \in Threads : Clearer(t) /\ Top(t).old = o
  BY ClearingIs
<1>2. stack[t] # <<>> /\ Top(t).fn = "dealloc"
  BY <1>1 DEF Clearer
<1>3. Types /\ Counting /\ Locals(Top(t))
  BY <1>2, Knows
<1>4. Len(stack[t]) \in DOMAIN stack[t] /\ Top(t) = stack[t][Len(stack[t])]
  BY <1>2, <1>3, Tops
<1> QED
  BY <1>1, <1>2, <1>3, <1>4 DEF Counting, OneDealloc, Locals

(* A variable gets a value.                                                *)
LEMMA Written ==
  ASSUME IInv, Types', NEW t \in Threads, Passes(t), NEW l \in Locations, NEW v \in Objects \cup {Nil},
         v # Nil => memory[v] = "live",
         StoredAt(l), value'[l] = v, isWeak'[l], UNCHANGED <<memory, held>>
  PROVE  [Abstract!Next]_(Abstract!weakVars)
<1>1. \A o : Clearing(o)' <=> Clearing(o)
  BY ClearingStays
<1>2. v # Nil => ~Clearing(v)
  BY ClearingDeallocates
<1>3. Seen(l)' = v
  BY <1>1, <1>2 DEF Seen
<1>4. \A x \in Locations \ {l} : Seen(x)' = Seen(x)
  BY <1>1, SeenKept DEF StoredAt
<1>5. [x \in Locations |-> Seen(x)]' = [[x \in Locations |-> Seen(x)] EXCEPT ![l] = v]
  BY <1>3, <1>4
<1>6. \A o \in Objects : Strong(o)' = Strong(o)
  BY StrongSame
<1>7. Abstract!Write(l, v)
  BY <1>5, <1>6 DEF Abstract!Write
<1> QED
  BY <1>7 DEF Abstract!Next

(* The storage of a variable goes away.                                    *)
LEMMA Destroyed ==
  ASSUME IInv, Types', NEW t \in Threads, Passes(t), NEW l \in Locations,
         StoredAt(l), isWeak[l], ~isWeak'[l], UNCHANGED <<memory, held>>
  PROVE  [Abstract!Next]_(Abstract!weakVars)
<1>1. \A o : Clearing(o)' <=> Clearing(o)
  BY ClearingStays
<1>0. Seen(l) # Raw
  BY SeenIs DEF IInv
<1>2. Seen(l)' = Raw
  BY DEF Seen
<1>3. \A x \in Locations \ {l} : Seen(x)' = Seen(x)
  BY <1>1, SeenKept DEF StoredAt
<1>4. [x \in Locations |-> Seen(x)]' = [[x \in Locations |-> Seen(x)] EXCEPT ![l] = Raw]
  BY <1>2, <1>3
<1>5. \A o \in Objects : Strong(o)' = Strong(o)
  BY StrongSame
<1>6. Abstract!Destroy(l)
  BY <1>0, <1>4, <1>5 DEF Abstract!Destroy
<1> QED
  BY <1>6 DEF Abstract!Next

(* A load takes a reference.                                               *)
LEMMA Loaded ==
  ASSUME IInv, Types', NEW t \in Threads, Passes(t), NEW l \in Locations, NEW o \in Objects,
         isWeak[l], value[l] = o, memory[o] = "live",
         held' = [held EXCEPT ![t][o] = @ + 1], UNCHANGED <<storage, memory>>
  PROVE  [Abstract!Next]_(Abstract!weakVars)
<1>1. Types /\ value' = value /\ isWeak' = isWeak
  BY DEF IInv, storage
<1>2. \A x \in Locations : Seen(x)' = Seen(x)
  BY <1>1, ClearingStays, SeenKept
<1>3. ~Clearing(o)
  BY ClearingDeallocates
<1>4. Seen(l) = o
  BY <1>1, <1>3, SeenIs
<1>5. /\ held'[t][o] = held[t][o] + 1 /\ \A u \in Threads \ {t} : held'[u] = held[u]
      /\ \A x \in Objects \ {o} : held'[t][x] = held[t][x]
  BY <1>1, OneMore
<1>6. Strong(o)' = Strong(o) + 1
  BY <1>1, <1>5, StrongMore
<1>7. \A x \in Objects \ {o} : Strong(x)' = Strong(x)
  BY <1>5, StrongSame
<1>8. /\ [x \in Locations |-> Seen(x)]' = [x \in Locations |-> Seen(x)]
      /\ [x \in Objects |-> Strong(x)]' = [[x \in Objects |-> Strong(x)] EXCEPT ![o] = @ + 1]
  BY <1>2, <1>6, <1>7
<1>9. Abstract!Load(l)
  BY <1>4, <1>8 DEF Abstract!Load
<1> QED
  BY <1>9 DEF Abstract!Next

(* A reference is given up.                                                *)
LEMMA Released ==
  ASSUME IInv, Types', NEW t \in Threads, Passes(t), NEW o \in Objects, held[t][o] > 0, Drop(t, o),
         UNCHANGED storage
  PROVE  [Abstract!Next]_(Abstract!weakVars)
<1>1. Types /\ value' = value /\ isWeak' = isWeak
  BY DEF IInv, storage
<1>2. \A x \in Locations : Seen(x)' = Seen(x)
  BY <1>1, ClearingStays, SeenKept
<1>3. memory[o] = "live"
  BY DEF IInv, Counting, HeldIsLive
<1>4. held' = [held EXCEPT ![t][o] = @ - 1]
  BY DEF Drop
<1>5. /\ held'[t][o] = held[t][o] - 1 /\ \A u \in Threads \ {t} : held'[u] = held[u]
      /\ \A x \in Objects \ {o} : held'[t][x] = held[t][x]
  BY <1>1, <1>4, OneFewer
<1>6. Strong(o)' = Strong(o) - 1 /\ (LastReference(t, o) <=> Strong(o) = 1)
  BY <1>1, <1>5, StrongLess
<1>7. \A x \in Objects \ {o} : Strong(x)' = Strong(x)
  BY <1>5, StrongSame
<1>8. memory' = [memory EXCEPT ![o] = IF Strong(o) = 1 THEN "dealloc" ELSE "live"]
  BY <1>1, <1>3, <1>6 DEF Drop, Types
<1>9. /\ [x \in Locations |-> Seen(x)]' = [x \in Locations |-> Seen(x)]
      /\ [x \in Objects |-> Strong(x)]' = [[x \in Objects |-> Strong(x)] EXCEPT ![o] = @ - 1]
  BY <1>2, <1>6, <1>7
<1>10. Abstract!Release(o)
  BY <1>3, <1>8, <1>9 DEF Abstract!Release
<1> QED
  BY <1>10 DEF Abstract!Next

(* Assign is a Write or a Destroy.                                        *)
LEMMA AssignSeen ==
  ASSUME IInv, Types', NEW t \in Threads, Assign(t)
  PROVE  [Abstract!Next]_(Abstract!weakVars)
<1>1. PICK f \in FrameType : f = Top(t) /\ stack[t] # <<>> /\ f.fn \in StoreFns /\ f.pc = "assign"
  BY Knows DEF Assign, At, Locals
<1>2. Types /\ Nested(t) /\ Locals(f) /\ Variables(f)
  BY <1>1, Knows DEF Calling
<1>3. Return(t) /\ UNCHANGED <<memory, held>>
  BY DEF Assign, objects
<1>4. Passes(t)
  BY <1>1, <1>2, <1>3, ReturnPasses DEF Clearer
<1>5. PICK l \in Locations : l = f.loc
  BY <1>1, <1>2, PlacesOf DEF StoreFns
<1>6. CASE HaveNew(f)
  <2>1. f.new \in Objects \cup {Nil}
    BY DEF FrameType
  <2>2. value' = [value EXCEPT ![l] = f.new] /\ isWeak' = [isWeak EXCEPT ![l] = TRUE]
    BY <1>1, <1>5, <1>6 DEF Assign
  <2>3. StoredAt(l) /\ value'[l] = f.new /\ isWeak'[l]
    BY <1>2, <2>1, <2>2 DEF Types, StoredAt
  <2>4. f.new # Nil => memory[f.new] = "live"
    BY <1>1, <1>6, TopGiven
  <2> QED
    BY <1>3, <1>4, <2>1, <2>3, <2>4, Written
<1>7. CASE ~HaveNew(f)
  <2>1. value' = value /\ isWeak' = [isWeak EXCEPT ![l] = FALSE]
    BY <1>1, <1>5, <1>7 DEF Assign
  <2>2. StoredAt(l) /\ ~isWeak'[l]
    BY <1>2, <2>1 DEF Types, StoredAt
  <2>3. isWeak[l]
    BY <1>1, <1>2, <1>5, <1>7 DEF Variables, HaveNew, StoreFns, Stores
  <2> QED
    BY <1>3, <1>4, <2>2, <2>3, Destroyed
<1> QED
  BY <1>6, <1>7

(* A load that retains its object is a Load.                              *)
LEMMA TryRetainSeen ==
  ASSUME IInv, Types', NEW t \in Threads, NEW f \in FrameType, f = Top(t), stack[t] # <<>>,
         f.fn = "loadWeak", f.pc \in {"fast", "slow"}, TryRetain(t, f.old), UNCHANGED <<storage, memory>>
  PROVE  [Abstract!Next]_(Abstract!weakVars)
<1>1. Types /\ Nested(t) /\ Locals(f) /\ Variables(f) /\ ~Clearer(t)
  BY Knows DEF Calling, Clearer
<1>2. PICK l \in Locations, o \in Objects : l = f.loc /\ o = f.old
  BY <1>1 DEF Locals, FrameType
<1>3. isWeak[l] /\ value[l] = o
  BY <1>1, <1>2 DEF Variables
<1>4. CASE memory[o] = "live"
  <2>1. held' = [held EXCEPT ![t][o] = @ + 1] /\ ReturnValue(t, o)
    BY <1>2, <1>4 DEF TryRetain
  <2>2. Passes(t)
    BY <1>1, <2>1, ReturnValuePasses
  <2> QED
    BY <1>3, <1>4, <2>1, <2>2, Loaded
<1>5. CASE memory[o] # "live"
  <2>1. ReturnValue(t, Nil) /\ UNCHANGED held /\ Nil \in Objects \cup {Nil}
    BY <1>2, <1>5 DEF TryRetain
  <2>2. Passes(t)
    BY <1>1, <2>1, ReturnValuePasses
  <2> QED
    BY <2>1, <2>2, NothingSeen
<1> QED
  BY <1>4, <1>5

(* A load is a Load or is not seen.                                       *)
LEMMA LoadSeen ==
  ASSUME IInv, Types', NEW t \in Threads, LoadFast(t) \/ LoadSlow(t)
  PROVE  [Abstract!Next]_(Abstract!weakVars)
<1>1. PICK f \in FrameType : f = Top(t) /\ stack[t] # <<>> /\ f.fn = "loadWeak" /\ f.pc \in {"fast", "slow"}
  BY Knows DEF LoadFast, LoadSlow, At, Locals
<1>2. Types /\ Nested(t) /\ Locals(f) /\ ~Clearer(t) /\ f.old \in Objects
  BY <1>1, Knows DEF Calling, Clearer, Locals, FrameType
<1>3. UNCHANGED <<storage, memory>>
  BY DEF LoadFast, LoadSlow
<1>4. CASE TryRetain(t, f.old)
  BY <1>1, <1>3, <1>4, TryRetainSeen
<1>5. CASE ReturnValue(t, Nil) /\ UNCHANGED held
  <2>1. Nil \in Objects \cup {Nil}
    OBVIOUS
  <2> QED
    BY <1>1, <1>2, <1>3, <1>5, <2>1, ReturnValuePasses, NothingSeen
<1>6. CASE GotoAndEnter(t, "read", InitializeFrame(f.old)) /\ UNCHANGED held
  <2>1. PICK f1, g : f1 = [f EXCEPT !.pc = "read"] /\ g = InitializeFrame(f.old)
    OBVIOUS
  <2>2. f1 \in FrameType
    BY <2>1 DEF FrameType
  <2>3. g \in FrameType /\ g.pc = "enter"
    BY <1>2, <2>1, InitializeLocals DEF Locals
  <2>4. BecomeEnter(t, f1, g)
    BY <1>1, <1>6, <2>1 DEF BecomeEnter, GotoAndEnter
  <2> QED
    BY <1>1, <1>2, <1>3, <1>6, <2>2, <2>3, <2>4, GotoAndEnterPasses, NothingSeen
<1> QED
  BY <1>1, <1>4, <1>5, <1>6 DEF LoadFast, LoadSlow

(* So is the second half of a copy.                                       *)
LEMMA CopyInitSeen ==
  ASSUME IInv, Types', NEW t \in Threads, CopyInit(t)
  PROVE  [Abstract!Next]_(Abstract!weakVars)
<1>1. At(t, {"copyWeak", "moveWeak"}, "init") /\ UNCHANGED <<memory, held>>
  BY DEF CopyInit, objects
<1>2. /\ Types /\ stack[t] # <<>> /\ ~Clearer(t) /\ Top(t) \in FrameType
      /\ Top(t).loc \in Locations
  BY <1>1, Place DEF Locals
<1>3. PICK l \in Locations : l = Top(t).loc
  BY <1>2
<1>4. CASE Top(t).new = Nil
  <2>1. /\ Goto(t, "release")
        /\ value' = [value EXCEPT ![l] = Nil] /\ isWeak' = [isWeak EXCEPT ![l] = TRUE]
    BY <1>3, <1>4 DEF CopyInit
  <2>2. StoredAt(l) /\ value'[l] = Nil /\ isWeak'[l] /\ Nil \in Objects \cup {Nil}
    BY <1>2, <2>1 DEF Types, StoredAt
  <2>3. Passes(t)
    BY <1>2, <2>1, GotoPasses
  <2> QED
    BY <1>1, <2>2, <2>3, Written
<1>5. CASE Top(t).new # Nil
  <2>1. PICK f, g : f = [Top(t) EXCEPT !.pc = "release"]
                    /\ g = Frame("initWeak", Top(t).loc, Nil, Nil, Top(t).new, "read")
    OBVIOUS
  <2>2. f \in FrameType /\ g \in FrameType /\ g.pc = "read"
    BY <1>2, <2>1 DEF FrameType, Frame, Functions
  <2>3. BecomeEnter(t, f, g) /\ UNCHANGED storage
    BY <1>5, <2>1 DEF CopyInit, BecomeEnter, GotoAndEnter
  <2> QED
    BY <1>1, <1>2, <2>2, <2>3, GotoAndEnterPasses, NothingSeen
<1> QED
  BY <1>4, <1>5

(* A move writes nil to its source.                                       *)
LEMMA MoveSetNilSeen ==
  ASSUME IInv, Types', NEW t \in Threads, MoveSetNil(t)
  PROVE  [Abstract!Next]_(Abstract!weakVars)
<1>1. At(t, {"moveWeak"}, "setNil") /\ UNCHANGED <<memory, held>> /\ Return(t)
  BY DEF MoveSetNil, objects
<1>2. /\ Types /\ Nested(t) /\ stack[t] # <<>> /\ ~Clearer(t) /\ Top(t).src \in Locations
  BY <1>1, Place DEF Locals, Copies
<1>3. PICK l \in Locations : l = Top(t).src
  BY <1>2
<1>4. value' = [value EXCEPT ![l] = Nil] /\ isWeak' = [isWeak EXCEPT ![l] = TRUE]
  BY <1>3 DEF MoveSetNil
<1>5. StoredAt(l) /\ value'[l] = Nil /\ isWeak'[l] /\ Nil \in Objects \cup {Nil}
  BY <1>2, <1>4 DEF Types, StoredAt
<1>6. Passes(t)
  BY <1>1, <1>2, ReturnPasses
<1> QED
  BY <1>1, <1>5, <1>6, Written

(* objc_initWeak of an object, or of nil.                                 *)
LEMMA CallInitSeen ==
  ASSUME IInv, Types', NEW t \in Threads, CallInit(t)
  PROVE  [Abstract!Next]_(Abstract!weakVars)
<1>1. PICK fn \in {"initWeak", "initWeakOrNil"}, l \in Locations :
        \E v \in MayStore(t, fn) :
          IF v = Nil
          THEN /\ value' = [value EXCEPT ![l] = Nil] /\ isWeak' = [isWeak EXCEPT ![l] = TRUE]
               /\ UNCHANGED stack
          ELSE Enter(t, Frame(fn, l, Nil, Nil, v, "read")) /\ UNCHANGED storage
  BY DEF CallInit
<1>2. PICK v \in MayStore(t, fn) :
          IF v = Nil
          THEN /\ value' = [value EXCEPT ![l] = Nil] /\ isWeak' = [isWeak EXCEPT ![l] = TRUE]
               /\ UNCHANGED stack
          ELSE Enter(t, Frame(fn, l, Nil, Nil, v, "read")) /\ UNCHANGED storage
  BY <1>1
<1>3. ProgramRuns(t) /\ UNCHANGED <<memory, held>>
  BY DEF CallInit, objects
<1>4. Types /\ ~Clearer(t)
  BY <1>3 DEF IInv, ProgramRuns, Clearer, At
<1>5. CASE v = Nil
  <2>1. /\ value' = [value EXCEPT ![l] = Nil] /\ isWeak' = [isWeak EXCEPT ![l] = TRUE]
        /\ stack' = stack
    BY <1>2, <1>5
  <2>2. StoredAt(l) /\ value'[l] = Nil /\ isWeak'[l] /\ Nil \in Objects \cup {Nil}
    BY <1>4, <2>1 DEF Types, StoredAt
  <2>3. Passes(t)
    BY <1>4, <2>1 DEF Passes, Clearer, Others, Top
  <2> QED
    BY <1>3, <2>2, <2>3, Written
<1>6. CASE v # Nil
  <2>1. PICK g : g = Frame(fn, l, Nil, Nil, v, "read")
    OBVIOUS
  <2>2. v \in Objects \cup {Nil}
    BY MayStoreObjects DEF IInv
  <2>3. g \in FrameType /\ g.pc = "read"
    BY <2>1, <2>2 DEF FrameType, Frame, Functions
  <2> QED
    BY <1>2, <1>3, <1>6, <2>1, <2>3, CallsHide
<1> QED
  BY <1>5, <1>6

(* A copy releases what it loaded.                                        *)
LEMMA CopyReleaseSeen ==
  ASSUME IInv, Types', NEW t \in Threads, CopyRelease(t)
  PROVE  [Abstract!Next]_(Abstract!weakVars)
<1>1. At(t, {"copyWeak", "moveWeak"}, "release") /\ UNCHANGED storage
  BY DEF CopyRelease
<1>2. /\ Types /\ Nested(t) /\ stack[t] # <<>> /\ ~Clearer(t) /\ Top(t) \in FrameType
      /\ Top(t).fn \in Copies /\ Top(t).pc = "release"
  BY <1>1, Place DEF Copies
<1>3. CASE Top(t).new = Nil
  <2>1. Goto(t, "end") /\ UNCHANGED <<held, memory>>
    BY <1>3 DEF CopyRelease
  <2>2. Passes(t)
    BY <1>2, <2>1, GotoPasses
  <2> QED
    BY <1>1, <2>1, <2>2, NothingSeen
<1>4. CASE Top(t).new # Nil
  <2>1. PICK o \in Objects : o = Top(t).new /\ held[t][o] > 0
    BY <1>2, <1>4, TopGiven DEF OrNil, Copies
  <2>2. Drop(t, o) /\ (Goto(t, "end") \/ GotoAndEnter(t, "end", DeallocFrame(o)))
    BY <1>4, <2>1 DEF CopyRelease
  <2>3. PICK f, g : f = [Top(t) EXCEPT !.pc = "end"] /\ g = DeallocFrame(o)
    OBVIOUS
  <2>4. f \in FrameType /\ g \in FrameType /\ g.pc = "run"
    BY <1>2, <2>1, <2>3 DEF FrameType, DeallocFrame, Frame
  <2>5. CASE GotoAndEnter(t, "end", DeallocFrame(o))
    <3>1. BecomeEnter(t, f, g)
      BY <2>3, <2>5 DEF BecomeEnter, GotoAndEnter
    <3>2. Passes(t)
      BY <1>2, <2>4, <3>1, GotoAndEnterPasses
    <3> QED
      BY <1>1, <2>1, <2>2, <3>2, Released
  <2>6. CASE Goto(t, "end")
    <3>1. Passes(t)
      BY <1>2, <2>6, GotoPasses
    <3> QED
      BY <1>1, <2>1, <2>2, <3>1, Released
  <2> QED
    BY <2>2, <2>5, <2>6
<1> QED
  BY <1>3, <1>4

(* A client releases what it holds.                                       *)
LEMMA CallReleaseSeen ==
  ASSUME IInv, Types', NEW t \in Threads, CallRelease(t)
  PROVE  [Abstract!Next]_(Abstract!weakVars)
<1>1. PICK o \in Mine(t) :
        Drop(t, o) /\ IF LastReference(t, o) THEN Enter(t, DeallocFrame(o)) ELSE UNCHANGED stack
  BY DEF CallRelease
<1>2. o \in Objects /\ held[t][o] > 0
  BY DEF Mine
<1>3. ProgramRuns(t) /\ UNCHANGED storage
  BY DEF CallRelease
<1>4. Types /\ ~Clearer(t)
  BY <1>3 DEF IInv, ProgramRuns, Clearer, At
<1>5. PICK g : g = DeallocFrame(o)
  OBVIOUS
<1>6. g \in FrameType /\ g.pc = "run"
  BY <1>2, <1>5 DEF FrameType, DeallocFrame, Frame
<1>7. Passes(t)
  <2>1. CASE Enter(t, g)
    BY <1>4, <1>6, <2>1, EnterPasses
  <2>2. CASE stack' = stack
    BY <1>4, <2>2 DEF Passes, Clearer, Others, Top
  <2> QED
    BY <1>1, <1>5, <2>1, <2>2
<1> QED
  BY <1>1, <1>2, <1>3, <1>7, Released

(* A client allocates an object.                                          *)
LEMMA CallAllocSeen ==
  ASSUME IInv, Types', NEW t \in Threads, CallAlloc(t)
  PROVE  [Abstract!Next]_(Abstract!weakVars)
<1>1. PICK o \in Objects :
        /\ memory[o] = "free"
        /\ memory' = [memory EXCEPT ![o] = "live"]
        /\ held' = [held EXCEPT ![t][o] = 1]
  BY DEF CallAlloc
<1>2. ProgramRuns(t) /\ UNCHANGED storage /\ stack' = stack
  BY DEF CallAlloc
<1>3. Types /\ ~Clearer(t) /\ value' = value /\ isWeak' = isWeak
  BY <1>2 DEF IInv, ProgramRuns, Clearer, At, storage
<1>4. Passes(t)
  BY <1>2, <1>3 DEF Passes, Clearer, Others, Top
<1>5. \A x \in Locations : Seen(x)' = Seen(x)
  BY <1>3, <1>4, ClearingStays, SeenKept
<1>6. \A u \in Threads : held[u][o] = 0
  <2>1. \A u \in Threads : held[u][o] \in Nat /\ ~(held[u][o] > 0)
    BY <1>1, <1>3 DEF Types, IInv, Counting, HeldIsLive
  <2> QED
    BY <2>1
<1>7. /\ held'[t][o] = held[t][o] + 1 /\ \A u \in Threads \ {t} : held'[u] = held[u]
      /\ \A x \in Objects \ {o} : held'[t][x] = held[t][x]
  <2>1. held'[t][o] = 1 /\ held[t][o] = 0
    BY <1>1, <1>3, <1>6 DEF Types
  <2> QED
    BY <1>1, <1>3, <2>1 DEF Types
<1>8. Strong(o)' = 1
  <2>1. Strong(o) = 0
    BY <1>3, <1>6, HeldIs
  <2>2. Strong(o)' = Strong(o) + 1
    BY <1>3, <1>7, StrongMore
  <2> QED
    BY <2>1, <2>2
<1>9. \A x \in Objects \ {o} : Strong(x)' = Strong(x)
  BY <1>7, StrongSame
<1>10. /\ [x \in Locations |-> Seen(x)]' = [x \in Locations |-> Seen(x)]
       /\ [x \in Objects |-> Strong(x)]' = [[x \in Objects |-> Strong(x)] EXCEPT ![o] = 1]
  BY <1>5, <1>8, <1>9
<1>11. Abstract!Alloc(o)
  BY <1>1, <1>10 DEF Abstract!Alloc
<1> QED
  BY <1>11 DEF Abstract!Next

-----------------------------------------------------------------------------
(* The clearing of an object's variables                                   *)

(* They go to nil, for all threads, when the side table is locked.         *)
LEMMA LockTwoSeen ==
  ASSUME IInv, Types', NEW t \in Threads, LockTwo(t)
  PROVE  [Abstract!Next]_(Abstract!weakVars)
<1>1. PICK f \in FrameType : /\ f = Top(t) /\ stack[t] # <<>> /\ f.pc = "lock"
                             /\ f.fn \in StoreFns \cup {"loadWeak", "dealloc"}
  BY Knows DEF LockTwo, At, Locals
<1>2. Types /\ Locals(f) /\ Counting /\ ~Clearer(t)
  BY <1>1, Knows DEF Clearer
<1>3. UNCHANGED <<storage, memory, held>> /\ (Goto(t, "check") \/ UNCHANGED stack)
  BY DEF LockTwo, objects
<1>4. CASE UNCHANGED stack
  <2>1. Passes(t)
    BY <1>2, <1>4 DEF Passes, Clearer, Others, Top
  <2> QED
    BY <1>3, <2>1, NothingSeen
<1>5. CASE Goto(t, "check") /\ f.fn # "dealloc"
  BY <1>1, <1>2, <1>3, <1>5, GotoPasses, NothingSeen
<1>6. CASE Goto(t, "check") /\ f.fn = "dealloc"
  <2>1. PICK o \in Objects : o = f.old
    BY <1>2, <1>6 DEF Locals
  <2>2. memory[o] = "dealloc"
    <3>1. Len(stack[t]) \in DOMAIN stack[t] /\ f = stack[t][Len(stack[t])]
      BY <1>1, <1>2, Tops
    <3> QED
      BY <1>2, <1>6, <2>1, <3>1 DEF Counting, OneDealloc
  <2>3. PICK g : g = [f EXCEPT !.pc = "check"]
    OBVIOUS
  <2>4. g \in FrameType /\ g.fn = "dealloc" /\ g.pc = "check" /\ g.old = o
    BY <1>6, <2>1, <2>3 DEF FrameType
  <2>5. Become(t, g)
    BY <1>1, <1>6, <2>3 DEF Goto
  <2>6. Others(t) /\ Clearer(t)' /\ Top(t)'.old = o
    BY <1>1, <1>2, <2>4, <2>5, BecomeFrames DEF Clearer
  <2>7. ASSUME NEW u \in Threads \ {t} PROVE Clearer(u)' = Clearer(u) /\ Top(u)' = Top(u)
    BY <2>6 DEF Others, Clearer, Top
  <2>8. \A x : Clearing(x)' <=> Clearing(x) \/ x = o
    BY <1>2, <2>6, <2>7, ClearingIs
  <2>9. value' = value /\ isWeak' = isWeak /\ Nil # o /\ Raw # o
    BY <1>3, WeakAssumption DEF storage
  <2>10. ASSUME NEW l \in Locations PROVE Seen(l)' = IF Seen(l) = o THEN Nil ELSE Seen(l)
    <3>1. CASE isWeak[l] /\ value[l] = o
      <4>1. Seen(l)' = Nil
        BY <2>8, <2>9, <3>1 DEF Seen
      <4>2. Seen(l) = o \/ Seen(l) = Nil
        BY <3>1 DEF Seen
      <4> QED
        BY <4>1, <4>2
    <3>2. CASE ~(isWeak[l] /\ value[l] = o)
      <4>1. Seen(l) # o
        BY <1>2, <2>9, <3>2, SeenIs
      <4>2. Seen(l)' = Seen(l)
        BY <2>8, <2>9, <3>2 DEF Seen
      <4> QED
        BY <4>1, <4>2
    <3> QED
      BY <3>1, <3>2
  <2>11. /\ [l \in Locations |-> Seen(l)]'
              = [l \in Locations |-> IF [x \in Locations |-> Seen(x)][l] = o THEN Nil
                                     ELSE [x \in Locations |-> Seen(x)][l]]
         /\ \A x \in Objects : Strong(x)' = Strong(x)
    BY <1>3, <2>10, StrongSame
  <2>12. Abstract!Clear(o)
    BY <1>3, <2>2, <2>11 DEF Abstract!Clear
  <2> QED
    BY <2>12 DEF Abstract!Next
<1> QED
  BY <1>3, <1>4, <1>5, <1>6

(* That they do so one after the other is not seen.                        *)
LEMMA ClearOneHides ==
  ASSUME IInv, Types', NEW t \in Threads, ClearOne(t)
  PROVE  [Abstract!Next]_(Abstract!weakVars)
<1>1. PICK o : o = Top(t).old
  OBVIOUS
<1>2. PICK l \in Referrers(o) : value[l] = o /\ value' = [value EXCEPT ![l] = Nil]
  BY <1>1 DEF ClearOne
<1>3. Types /\ l \in Locations
  BY DEF IInv, Referrers
<1>4. Clearing(o)
  BY <1>1 DEF ClearOne, Clearing
<1>5. isWeak' = isWeak /\ stack' = stack /\ memory' = memory /\ held' = held
  BY DEF ClearOne, objects
<1>6. \A x : Clearing(x)' <=> Clearing(x)
  BY <1>5 DEF Clearing, At, Top
<1>7. Seen(l)' = Seen(l)
  BY <1>2, <1>3, <1>4, <1>5 DEF Seen, Types
<1>8. \A x \in Locations : Seen(x)' = Seen(x)
  BY <1>2, <1>3, <1>5, <1>6, <1>7, SeenKept DEF Types
<1>9. \A x \in Objects : Strong(x)' = Strong(x)
  BY <1>5, StrongSame
<1>10. UNCHANGED Abstract!weakVars
  BY <1>5, <1>8, <1>9 DEF Abstract!weakVars
<1> QED
  BY <1>10

(* When the tables are unlocked no variable holds the object any more.     *)
LEMMA ClearDoneHides ==
  ASSUME IInv, IInv', NEW t \in Threads, ClearDone(t)
  PROVE  [Abstract!Next]_(Abstract!weakVars)
<1>1. At(t, {"dealloc"}, "check") /\ Goto(t, "free") /\ UNCHANGED <<storage, memory, held>>
  BY DEF ClearDone, objects
<1>2. Types /\ stack[t] # <<>> /\ Top(t) \in FrameType /\ Top(t).fn = "dealloc" /\ Top(t).pc = "check"
  BY <1>1, Place
<1>3. PICK o : o = Top(t).old
  OBVIOUS
<1>4. PICK g : g = [Top(t) EXCEPT !.pc = "free"]
  OBVIOUS
<1>5. g \in FrameType /\ g.fn = "dealloc" /\ g.pc = "free" /\ g.old = o
  BY <1>2, <1>3, <1>4 DEF FrameType
<1>6. Others(t) /\ stack'[t] # <<>> /\ Top(t)' = g
  BY <1>1, <1>2, <1>4, <1>5, BecomeFrames DEF Goto
<1>7. value' = value /\ isWeak' = isWeak /\ memory' = memory /\ held' = held
  BY <1>1 DEF storage
<1>8. \A l \in Locations : ~(isWeak[l] /\ value[l] = o)
  <2>1. Pairs(g)'
    BY <1>6 DEF IInv, Storing
  <2> QED
    BY <1>5, <1>7, <2>1 DEF Pairs
<1>9. ASSUME NEW u \in Threads \ {t} PROVE Clearer(u)' = Clearer(u) /\ Top(u)' = Top(u)
  BY <1>6 DEF Others, Clearer, Top
<1>10. \A x : x # o => (Clearing(x)' <=> Clearing(x))
  BY <1>2, <1>3, <1>5, <1>6, <1>9, ClearingIs DEF Clearer
<1>11. \A l \in Locations : Seen(l)' = Seen(l)
  BY <1>7, <1>8, <1>10 DEF Seen
<1>12. \A x \in Objects : Strong(x)' = Strong(x)
  BY <1>7, StrongSame
<1>13. UNCHANGED Abstract!weakVars
  BY <1>7, <1>11, <1>12 DEF Abstract!weakVars
<1> QED
  BY <1>13

(* The memory is freed: Free.                                             *)
LEMMA FreeSeen ==
  ASSUME IInv, Types', NEW t \in Threads, Free(t)
  PROVE  [Abstract!Next]_(Abstract!weakVars)
<1>1. At(t, {"dealloc"}, "free") /\ Return(t) /\ UNCHANGED <<storage, held>>
  BY DEF Free
<1>2. /\ Types /\ Nested(t) /\ stack[t] # <<>> /\ ~Clearer(t) /\ Top(t).fn = "dealloc"
      /\ Top(t).pc = "free" /\ Locals(Top(t))
  BY <1>1, Place
<1>3. PICK o \in Objects : o = Top(t).old
  BY <1>2 DEF Locals
<1>4. \A l \in Locations : ~(isWeak[l] /\ value[l] = o)
  BY <1>2, <1>3, Knows DEF Pairs
<1>5. memory[o] = "dealloc"
  <2>1. Len(stack[t]) \in DOMAIN stack[t] /\ Top(t) = stack[t][Len(stack[t])] /\ Counting
    BY <1>2, Tops DEF IInv
  <2> QED
    BY <1>2, <1>3, <2>1 DEF Counting, OneDealloc
<1>6. Passes(t)
  BY <1>1, <1>2, ReturnPasses
<1>7. value' = value /\ isWeak' = isWeak
  BY <1>1 DEF storage
<1>8. \A l \in Locations : Seen(l)' = Seen(l)
  BY <1>6, <1>7, ClearingStays, SeenKept
<1>9. \A l \in Locations : Seen(l) # o
  <2>1. Raw # o /\ Nil # o
    BY WeakAssumption
  <2> QED
    BY <1>2, <1>4, <2>1, SeenIs
<1>10. \A x \in Objects : Strong(x)' = Strong(x)
  BY <1>1, StrongSame
<1>11. memory' = [memory EXCEPT ![o] = "free"]
  BY <1>3 DEF Free
<1>12. Abstract!Free(o)
  BY <1>5, <1>8, <1>9, <1>10, <1>11 DEF Abstract!Free
<1> QED
  BY <1>12 DEF Abstract!Next

-----------------------------------------------------------------------------
(* The initial states map to initial states.                              *)
LEMMA AbstractInit == Init => Abstract!Init
<1> SUFFICES ASSUME Init PROVE Abstract!Init
  OBVIOUS
<1>1. Types
  BY InitIInv DEF IInv
<1>2. \A t \in Threads : stack[t] = <<>>
  BY DEF Init
<1>3. \A l \in Locations : Seen(l) = Nil
  BY DEF Init, Seen
<1>4. \A o \in Objects : Strong(o) = 0
  BY <1>1, HeldIs DEF Init
<1> QED
  BY <1>3, <1>4 DEF Abstract!Init, Init

(* Every step maps to a step or to a stutter.                             *)
LEMMA AbstractStep == IInv /\ IInv' /\ [Next]_vars => [Abstract!Next]_(Abstract!weakVars)
<1> SUFFICES ASSUME IInv, IInv', [Next]_vars PROVE [Abstract!Next]_(Abstract!weakVars)
  OBVIOUS
<1>1. Types'
  BY DEF IInv
<1>2. CASE UNCHANGED vars
  <2>1. value' = value /\ isWeak' = isWeak /\ memory' = memory /\ held' = held /\ stack' = stack
    BY <1>2 DEF vars
  <2>2. \A x : Clearing(x)' <=> Clearing(x)
    BY <2>1 DEF Clearing, At, Top
  <2>3. \A l \in Locations : Seen(l)' = Seen(l)
    BY <2>1, <2>2, SeenKept
  <2>4. \A o \in Objects : Strong(o)' = Strong(o)
    BY <2>1, StrongSame
  <2> QED
    BY <2>1, <2>3, <2>4 DEF Abstract!weakVars
<1>3. ASSUME NEW t \in Threads, Call(t) PROVE [Abstract!Next]_(Abstract!weakVars)
  BY <1>1, <1>3, CallStoreHides, CallInitSeen, CallDestroyHides, CallLoadHides, CallCopyHides,
     CallAllocSeen, CallReleaseSeen, CallMessageHides DEF Call
<1>4. ASSUME NEW t \in Threads, Run(t) PROVE [Abstract!Next]_(Abstract!weakVars)
  BY <1>1, <1>4, LockTwoSeen, ReadOldHides, CheckHides, UnregisterHides, RegisterHides,
     SetWeaklyReferencedHides, AssignSeen, LoadReadHides, LoadCheckHides, LoadSeen,
     CopyInitSeen, CopyReleaseSeen, CopyEndHides, MoveSetNilSeen,
     RootDeallocHides, ClearOneHides, ClearDoneHides, FreeSeen, InitializeHides DEF Run
<1> QED
  BY <1>2, <1>3, <1>4 DEF Next

(* Weak variables behave as single registers that give out live objects    *)
(* and go to nil together when their object is deallocated: module         *)
(* WeakReferences implements WeakVariables.                                *)
THEOREM ImplementsWeakVariables == Spec => WeakSpec
<1>1. Init => Abstract!Init
  BY AbstractInit
<1>2. IInv /\ IInv' /\ [Next]_vars => [Abstract!Next]_(Abstract!weakVars)
  BY AbstractStep
<1>3. Spec => []IInv
  BY SpecIInv
<1> QED
  BY <1>1, <1>2, <1>3, PTL DEF Spec, WeakSpec, Abstract!Spec

=============================================================================
