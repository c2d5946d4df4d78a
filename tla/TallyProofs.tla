---------------------------- MODULE TallyProofs ----------------------------
(***************************************************************************)
(* What a step does to the sums of module Tally.                           *)
(***************************************************************************)
EXTENDS Tally, FiniteSetTheorems, SequenceTheorems, FunctionTheorems, TLAPS

-----------------------------------------------------------------------------
(* Places in a sequence *)

LEMMA PlacesFinite ==
  ASSUME NEW T, NEW s \in Seq(T), NEW V
  PROVE  IsFiniteSet(Places(s, V)) /\ Cardinality(Places(s, V)) \in Nat
<1>1. IsFiniteSet(1 .. Len(s))
  BY FS_Interval
<1>2. Places(s, V) \in SUBSET (1 .. Len(s))
  BY DEF Places
<1>q. QED  BY <1>1, <1>2, FS_Subset, FS_CardinalityType

LEMMA PlacesEmpty ==
  ASSUME NEW V
  PROVE  Cardinality(Places(<<>>, V)) = 0
<1>1. Places(<<>>, V) = {}
  BY DEF Places
<1>q. QED  BY <1>1, FS_EmptySet

LEMMA PlacesNone ==
  ASSUME NEW T, NEW s \in Seq(T), NEW V
  PROVE  Cardinality(Places(s, V)) = 0 <=> \A i \in DOMAIN s : s[i] \notin V
<1>1. Cardinality(Places(s, V)) = 0 <=> Places(s, V) = {}
  BY PlacesFinite, FS_EmptySet
<1>q. QED  BY <1>1 DEF Places

LEMMA PlacesAppend ==
  ASSUME NEW T, NEW s \in Seq(T), NEW x \in T, NEW V
  PROVE  Cardinality(Places(Append(s, x), V))
           = Cardinality(Places(s, V)) + (IF x \in V THEN 1 ELSE 0)
<1>1. /\ DOMAIN Append(s, x) = DOMAIN s \cup {Len(s) + 1}
      /\ \A i \in DOMAIN s : Append(s, x)[i] = s[i]
      /\ Append(s, x)[Len(s) + 1] = x /\ Len(s) + 1 \notin DOMAIN s
  OBVIOUS
<1>2. Places(Append(s, x), V) = Places(s, V) \cup (IF x \in V THEN {Len(s) + 1} ELSE {})
  BY <1>1 DEF Places
<1>3. Len(s) + 1 \notin Places(s, V)
  BY <1>1 DEF Places
<1>4. CASE x \in V
  BY <1>2, <1>3, <1>4, PlacesFinite, FS_AddElement
<1>5. CASE x \notin V
  BY <1>2, <1>5, PlacesFinite
<1>q. QED  BY <1>4, <1>5

(* The places of the tail are the others, each one further on. *)
LEMMA PlacesTail ==
  ASSUME NEW T, NEW s \in Seq(T), s # <<>>, NEW V
  PROVE  Cardinality(Places(s, V))
           = Cardinality(Places(Tail(s), V)) + (IF Head(s) \in V THEN 1 ELSE 0)
<1> DEFINE A == Places(Tail(s), V)
           B == Places(s, V) \ {1}
           f == [i \in A |-> i + 1]
<1>1. /\ Tail(s) \in Seq(T) /\ Len(s) \in Nat /\ Len(s) >= 1 /\ Head(s) = s[1]
      /\ DOMAIN s = 1 .. Len(s) /\ DOMAIN Tail(s) = 1 .. Len(s) - 1
      /\ \A i \in 1 .. Len(s) - 1 : Tail(s)[i] = s[i + 1]
  OBVIOUS
<1>2. f \in Bijection(A, B)
  <2>1. \A i \in A : i \in Nat /\ i + 1 \in B
    BY <1>1 DEF Places
  <2>2. \A j \in B : j - 1 \in A /\ (j - 1) + 1 = j
    BY <1>1 DEF Places
  <2>3. f \in [A -> B] /\ \A i \in A : f[i] = i + 1
    BY <2>1
  <2>4. \A i, j \in A : f[i] = f[j] => i = j
    BY <2>1, <2>3
  <2>5. \A j \in B : \E i \in A : f[i] = j
    BY <2>2, <2>3
  <2>q. QED  BY <2>3, <2>4, <2>5, Fun_IsBij
<1>3. IsFiniteSet(A) /\ Cardinality(B) = Cardinality(A)
  <2>1. IsFiniteSet(A)
    BY <1>1, PlacesFinite
  <2>q. QED  BY <1>2, <2>1, FS_Bijection DEF ExistsBijection
<1>4. Cardinality(Places(s, V)) = Cardinality(B) + (IF 1 \in Places(s, V) THEN 1 ELSE 0)
  <2>1. /\ Cardinality(B) = IF 1 \in Places(s, V) THEN Cardinality(Places(s, V)) - 1
                                                  ELSE Cardinality(Places(s, V))
        /\ Cardinality(Places(s, V)) \in Nat
    BY PlacesFinite, FS_RemoveElement
  <2>q. QED  BY <2>1
<1>5. 1 \in Places(s, V) <=> Head(s) \in V
  BY <1>1 DEF Places
<1>q. QED  BY <1>3, <1>4, <1>5

-----------------------------------------------------------------------------
(* Families of finite sets *)

Family(f, D) == DOMAIN f = D /\ \A x \in D : IsFiniteSet(f[x])

LEMMA PairsFinite ==
  ASSUME NEW D, IsFiniteSet(D), NEW f, Family(f, D)
  PROVE  IsFiniteSet(Pairs(f)) /\ Cardinality(Pairs(f)) \in Nat
<1> DEFINE S == {{x} \X f[x] : x \in D}
           h == [x \in D |-> {x} \X f[x]]
<1>1. h \in Surjection(D, S)
  BY DEF Surjection
<1>2. IsFiniteSet(S)
  BY <1>1, FS_Surjection
<1>3. ASSUME NEW x \in D PROVE IsFiniteSet({x} \X f[x])
  BY FS_Singleton, FS_Product DEF Family
<1>4. \A t \in S : IsFiniteSet(t)
  BY <1>3
<1>5. Pairs(f) = UNION S
  BY DEF Pairs, Family
<1> HIDE DEF S
<1>6. IsFiniteSet(Pairs(f))
  BY <1>2, <1>4, <1>5, FS_UNION
<1>q. QED  BY <1>6, FS_CardinalityType

(* One member of the family changes. *)
LEMMA PairsStep ==
  ASSUME NEW D, IsFiniteSet(D), NEW f, Family(f, D), NEW g, Family(g, D),
         NEW a \in D, \A x \in D \ {a} : g[x] = f[x]
  PROVE  Cardinality(Pairs(g)) + Cardinality(f[a]) = Cardinality(Pairs(f)) + Cardinality(g[a])
<1> DEFINE rest == UNION {{x} \X f[x] : x \in D \ {a}}
<1>1. /\ Pairs(f) = rest \cup ({a} \X f[a])
      /\ Pairs(g) = rest \cup ({a} \X g[a])
  BY DEF Pairs, Family
<1>2. rest \cap ({a} \X f[a]) = {} /\ rest \cap ({a} \X g[a]) = {}
  OBVIOUS
<1>3. IsFiniteSet(rest)
  <2>1. rest \in SUBSET Pairs(f)
    BY <1>1
  <2>q. QED  BY <2>1, PairsFinite, FS_Subset
<1> HIDE DEF rest
<1>4. ASSUME NEW T, IsFiniteSet(T), rest \cap ({a} \X T) = {}
      PROVE  Cardinality(rest \cup ({a} \X T)) = Cardinality(rest) + Cardinality(T)
  <2>1. /\ IsFiniteSet({a} \X T)
        /\ Cardinality({a} \X T) = Cardinality({a}) * Cardinality(T)
    BY <1>4, FS_Singleton, FS_Product
  <2>2. Cardinality({a}) = 1 /\ Cardinality(T) \in Nat /\ Cardinality(rest) \in Nat
    BY <1>3, <1>4, FS_Singleton, FS_CardinalityType
  <2>3. Cardinality({a} \X T) = Cardinality(T)
    BY <2>1, <2>2
  <2>4. Cardinality(rest \cap ({a} \X T)) = 0
    BY <1>4, FS_EmptySet
  <2> DEFINE part == {a} \X T
  <2>5. IsFiniteSet(part) /\ Cardinality(part) = Cardinality(T) /\ Cardinality(rest \cap part) = 0
    BY <2>1, <2>3, <2>4
  <2> HIDE DEF part
  <2>6. Cardinality(rest \cup part) = Cardinality(rest) + Cardinality(part) - Cardinality(rest \cap part)
    BY <1>3, <2>5, FS_Union
  <2>7. Cardinality(rest \cup part) = Cardinality(rest) + Cardinality(T)
    BY <2>2, <2>5, <2>6
  <2>q. QED  BY <2>7 DEF part
<1>5. IsFiniteSet(f[a]) /\ IsFiniteSet(g[a])
  BY DEF Family
<1>6. /\ Cardinality(f[a]) \in Nat /\ Cardinality(g[a]) \in Nat /\ Cardinality(rest) \in Nat
  BY <1>3, <1>5, FS_CardinalityType
<1>q. QED  BY <1>1, <1>2, <1>4, <1>5, <1>6

LEMMA PairsNone ==
  ASSUME NEW D, IsFiniteSet(D), NEW f, Family(f, D)
  PROVE  Cardinality(Pairs(f)) = 0 <=> \A x \in D : f[x] = {}
<1>1. Cardinality(Pairs(f)) = 0 <=> Pairs(f) = {}
  BY PairsFinite, FS_EmptySet
<1>2. ASSUME Pairs(f) = {}, NEW x \in D PROVE f[x] = {}
  <2>1. \A y \in f[x] : <<x, y>> \in Pairs(f)
    BY DEF Pairs, Family
  <2>q. QED  BY <1>2, <2>1
<1>3. ASSUME \A x \in D : f[x] = {} PROVE Pairs(f) = {}
  <2>1. \A x \in D : {x} \X f[x] = {}
    BY <1>3
  <2>q. QED  BY <2>1 DEF Pairs, Family
<1>q. QED  BY <1>1, <1>2, <1>3

-----------------------------------------------------------------------------
(* Who has a value: one member of a function changes. *)
Holders(f, v) == {x \in DOMAIN f : f[x] = v}
=============================================================================
