---------------------------- MODULE DeflaterProofs ----------------------------
(***************************************************************************)
(* Proofs about Deflater, for every set of symbols, codes and stored       *)
(* lengths: the inductive invariant IInv, the safety invariants that       *)
(* follow, BitsConserved among them, and the refinement of Lz77, which is  *)
(* OutputTracker's once every step of Deflater is one of OutputTracker's.  *)
(***************************************************************************)
EXTENDS Deflater, FiniteSetTheorems, SequenceTheorems, WellFoundedInduction,
        TLAPS

OutP == INSTANCE OutputTrackerProofs

-----------------------------------------------------------------------------
(* Sums of bit sizes.  MapThenSumSet is a recursive function on the sets   *)
(* of indices; that there is one, and that the order in which it takes the *)
(* indices does not matter, is shown by induction on their number.         *)
BitsOf(b, S) == MapThenSumSet(LAMBDA k : b[k].bit_size, S)

Last(s) == CHOOSE x \in s : TRUE

IsSum(f, b, D) ==
  f = [s \in D |-> IF s = {} THEN 0 ELSE b[Last(s)].bit_size + f[s \ {Last(s)}]]

SumsSubsets(f, b, S) == IsSum(f, b, SUBSET S)

NaturalSizes(b, S) == \A k \in S : b[k].bit_size \in Nat

SameSizes(b, c, S) == \A k \in S : b[k].bit_size = c[k].bit_size

Upto(S, n) == {s \in SUBSET S : Cardinality(s) <= n}

(* A set of natural numbers with a member has a least one.                 *)
LEMMA LeastElement ==
  ASSUME NEW T, T \subseteq Nat, T # {}
  PROVE  \E m \in T : \A k \in T : m <= k
<1> SUFFICES ASSUME NEW R, R = {ss \in Nat \X Nat : ss[1] < ss[2]}
             PROVE  \E m \in T : \A k \in T : m <= k
  OBVIOUS
<1>1. IsWellFoundedOn(R, Nat)
  BY NatLessThanWellFounded DEF OpToRel
<1>2. \E m \in T : \A k \in T : ~ (<<k, m>> \in R)
  BY <1>1, WFMin
<1>3. ASSUME NEW k \in Nat, NEW m \in Nat, <<k, m>> \notin R
      PROVE  m <= k
  BY <1>3
<1> QED
  BY <1>2, <1>3

(* Induction, with the set of the numbers for which the claim holds.       *)
LEMMA Induction ==
  ASSUME NEW T, 0 \in T, \A n \in Nat : n \in T => n + 1 \in T
  PROVE  \A n \in Nat : n \in T
<1> SUFFICES ASSUME Nat \ T # {} PROVE FALSE
  OBVIOUS
<1>1. PICK m \in Nat \ T : \A k \in Nat \ T : m <= k
  BY LeastElement
<1>2. m # 0 /\ m - 1 \in Nat /\ m - 1 \in T
  BY <1>1
<1> QED
  BY <1>1, <1>2

(* The subsets of a finite set, by size.                                   *)
LEMMA SmallerSets ==
  ASSUME NEW S, IsFiniteSet(S), NEW n \in Nat, NEW s \in Upto(S, n + 1)
  PROVE  \A x \in s : s \ {x} \in Upto(S, n)
<1> SUFFICES ASSUME NEW x \in s PROVE s \ {x} \in Upto(S, n)
  OBVIOUS
<1>1. IsFiniteSet(s)
  BY FS_Subset DEF Upto
<1>2. Cardinality(s \ {x}) = Cardinality(s) - 1 /\ Cardinality(s) \in Nat
  BY <1>1, FS_RemoveElement, FS_CardinalityType
<1>3. Cardinality(s) <= n + 1 /\ s \in SUBSET S
  BY DEF Upto
<1> QED
  BY <1>2, <1>3 DEF Upto

(* Every subset of a finite set has one of the sizes up to the set's own.  *)
LEMMA SetsBySize ==
  ASSUME NEW S, IsFiniteSet(S)
  PROVE  /\ Upto(S, 0) = {{}}
         /\ Upto(S, Cardinality(S)) = SUBSET S
         /\ \A n \in Nat : {} \in Upto(S, n) /\ Upto(S, n) \subseteq Upto(S, n + 1)
<1>1. \A s \in SUBSET S : IsFiniteSet(s) /\ Cardinality(s) \in Nat
                            /\ (Cardinality(s) = 0 <=> s = {})
  BY FS_Subset, FS_CardinalityType, FS_EmptySet
<1>2. \A s \in SUBSET S : Cardinality(s) <= Cardinality(S)
  BY FS_Subset
<1>3. ASSUME NEW s \in SUBSET S, NEW n \in Nat, Cardinality(s) <= n
      PROVE  Cardinality(s) <= n + 1
  BY <1>1, <1>3
<1>4. Upto(S, 0) = {{}}
  BY <1>1 DEF Upto
<1>5. Upto(S, Cardinality(S)) = SUBSET S
  BY <1>2 DEF Upto
<1>6. ASSUME NEW n \in Nat
      PROVE  {} \in Upto(S, n) /\ Upto(S, n) \subseteq Upto(S, n + 1)
  <2>1. {} \in Upto(S, n)
    BY <1>1 DEF Upto
  <2> QED
    BY <1>3, <2>1 DEF Upto
<1> QED
  BY <1>4, <1>5, <1>6

(* The recursive function exists.                                          *)
LEMMA SumsExist ==
  ASSUME NEW S, IsFiniteSet(S), NEW b
  PROVE  \E f : SumsSubsets(f, b, S)
<1> SUFFICES ASSUME NEW T, T = {n \in Nat : \E f : IsSum(f, b, Upto(S, n))}
             PROVE  \E f : SumsSubsets(f, b, S)
  OBVIOUS
<1>1. 0 \in T
  <2>1. IsSum([s \in Upto(S, 0) |-> 0], b, Upto(S, 0))
    BY SetsBySize DEF IsSum
  <2> QED
    BY <2>1
<1>2. ASSUME NEW n \in Nat, n \in T PROVE n + 1 \in T
  <2>1. PICK f : IsSum(f, b, Upto(S, n))
    BY <1>2
  <2>2. PICK g : g = [s \in Upto(S, n + 1) |->
                   IF s = {} THEN 0 ELSE b[Last(s)].bit_size + f[s \ {Last(s)}]]
    OBVIOUS
  <2>3. ASSUME NEW s \in Upto(S, n) PROVE g[s] = f[s]
    BY <2>1, <2>2, SetsBySize DEF IsSum
  <2>4. ASSUME NEW s \in Upto(S, n + 1), s # {}
        PROVE  g[s \ {Last(s)}] = f[s \ {Last(s)}]
    <3>1. Last(s) \in s
      BY <2>4 DEF Last
    <3> QED
      BY <2>3, <3>1, SmallerSets
  <2>5. g = [s \in Upto(S, n + 1) |->
               IF s = {} THEN 0 ELSE b[Last(s)].bit_size + g[s \ {Last(s)}]]
    BY <2>2, <2>4
  <2>6. IsSum(g, b, Upto(S, n + 1))
    BY <2>5 DEF IsSum
  <2> QED
    BY <2>6
<1>3. Cardinality(S) \in T
  BY <1>1, <1>2, Induction, FS_CardinalityType
<1>4. PICK f : IsSum(f, b, Upto(S, Cardinality(S)))
  BY <1>3
<1>5. SumsSubsets(f, b, S)
  BY <1>4, SetsBySize DEF SumsSubsets
<1> QED
  BY <1>5

(* Two of them that sum the same sizes agree.                              *)
LEMMA SumsAgree ==
  ASSUME NEW S, IsFiniteSet(S), NEW R \in SUBSET S,
         NEW b, NEW c, SameSizes(b, c, R),
         NEW f, SumsSubsets(f, b, S), NEW g, SumsSubsets(g, c, R)
  PROVE  f[R] = g[R]
<1> SUFFICES ASSUME NEW T, T = {n \in Nat : \A s \in Upto(R, n) : f[s] = g[s]}
             PROVE  f[R] = g[R]
  OBVIOUS
<1>0. IsFiniteSet(R) /\ Cardinality(R) \in Nat
  BY FS_Subset, FS_CardinalityType
<1>1. 0 \in T
  <2>1. f[{}] = 0 /\ g[{}] = 0
    BY DEF SumsSubsets, IsSum
  <2> QED
    BY <1>0, <2>1, SetsBySize
<1>2. ASSUME NEW n \in Nat, n \in T PROVE n + 1 \in T
  <2>1. ASSUME NEW s \in Upto(R, n + 1) PROVE f[s] = g[s]
    <3>1. CASE s = {}
      BY <3>1 DEF SumsSubsets, IsSum
    <3>2. CASE s # {}
      <4>1. Last(s) \in s /\ s \in SUBSET R /\ s \in SUBSET S
        BY <2>1, <3>2 DEF Last, Upto
      <4>2. s \ {Last(s)} \in Upto(R, n)
        BY <1>0, <4>1, SmallerSets
      <4>3. f[s \ {Last(s)}] = g[s \ {Last(s)}]
        BY <1>2, <4>2
      <4>4. f[s] = b[Last(s)].bit_size + f[s \ {Last(s)}]
        BY <3>2, <4>1 DEF SumsSubsets, IsSum
      <4>5. g[s] = c[Last(s)].bit_size + g[s \ {Last(s)}]
        BY <3>2, <4>1 DEF SumsSubsets, IsSum
      <4> QED
        BY <4>1, <4>3, <4>4, <4>5 DEF SameSizes
    <3> QED
      BY <3>1, <3>2
  <2> QED
    BY <2>1
<1>3. Cardinality(R) \in T
  BY <1>0, <1>1, <1>2, Induction
<1>4. R \in Upto(R, Cardinality(R))
  BY <1>0, SetsBySize
<1> QED
  BY <1>3, <1>4

(* What MapThenSumSet means for a finite set.                              *)
LEMMA BitsOfIsSum ==
  ASSUME NEW S, IsFiniteSet(S), NEW b
  PROVE  \E f : SumsSubsets(f, b, S) /\ BitsOf(b, S) = f[S]
<1>1. \E f : SumsSubsets(f, b, S)
  BY SumsExist
<1>2. BitsOf(b, S) = (CHOOSE f : SumsSubsets(f, b, S))[S]
  BY DEF BitsOf, MapThenSumSet, MapThenFoldSet, SumsSubsets, IsSum, Last
<1>3. SumsSubsets(CHOOSE f : SumsSubsets(f, b, S), b, S)
  BY <1>1
<1> QED
  BY <1>2, <1>3

(* Equal sizes have equal sums.                                            *)
LEMMA BitsOfSame ==
  ASSUME NEW S, IsFiniteSet(S), NEW b, NEW c,
         SameSizes(b, c, S)
  PROVE  BitsOf(b, S) = BitsOf(c, S)
<1>1. PICK f : SumsSubsets(f, b, S) /\ BitsOf(b, S) = f[S]
  BY BitsOfIsSum
<1>2. PICK g : SumsSubsets(g, c, S) /\ BitsOf(c, S) = g[S]
  BY BitsOfIsSum
<1>3. f[S] = g[S]
  <2>1. SumsSubsets(f, b, S) /\ S \in SUBSET S
    BY <1>1
  <2>2. SumsSubsets(g, c, S)
    BY <1>2
  <2> QED
    BY <2>1, <2>2, SumsAgree
<1> QED
  BY <1>1, <1>2, <1>3

(* The recursion, one step.                                                *)
LEMMA BitsOfUnfolds ==
  ASSUME NEW S, IsFiniteSet(S), NEW b
  PROVE  BitsOf(b, S) = IF S = {} THEN 0
                        ELSE b[Last(S)].bit_size + BitsOf(b, S \ {Last(S)})
<1>1. PICK f : SumsSubsets(f, b, S) /\ BitsOf(b, S) = f[S]
  BY BitsOfIsSum
<1>2. CASE S = {}
  BY <1>1, <1>2 DEF SumsSubsets, IsSum
<1>3. CASE S # {}
  <2>1. IsFiniteSet(S \ {Last(S)}) /\ S \ {Last(S)} \in SUBSET S
    BY FS_Subset
  <2>2. PICK g : /\ SumsSubsets(g, b, S \ {Last(S)})
                 /\ BitsOf(b, S \ {Last(S)}) = g[S \ {Last(S)}]
    BY <2>1, BitsOfIsSum
  <2>3. f[S \ {Last(S)}] = g[S \ {Last(S)}]
    <3>1. SumsSubsets(f, b, S)
      BY <1>1
    <3>2. SumsSubsets(g, b, S \ {Last(S)})
      BY <2>2
    <3>3. SameSizes(b, b, S \ {Last(S)})
      BY DEF SameSizes
    <3> QED
      BY <2>1, <3>1, <3>2, <3>3, SumsAgree
  <2>4. f[S] = b[Last(S)].bit_size + f[S \ {Last(S)}]
    BY <1>1, <1>3 DEF SumsSubsets, IsSum
  <2> QED
    BY <1>1, <1>3, <2>2, <2>3, <2>4
<1> QED
  BY <1>2, <1>3

(* Natural sizes have a natural sum.                                       *)
LEMMA BitsOfNatural ==
  ASSUME NEW S, IsFiniteSet(S), NEW b, \A k \in S : b[k].bit_size \in Nat
  PROVE  BitsOf(b, S) \in Nat
<1> SUFFICES ASSUME NEW T,
                    T = {n \in Nat : \A s \in Upto(S, n) : BitsOf(b, s) \in Nat}
             PROVE  BitsOf(b, S) \in Nat
  OBVIOUS
<1>1. 0 \in T
  <2>1. BitsOf(b, {}) = 0
    BY BitsOfUnfolds, FS_EmptySet
  <2> QED
    BY <2>1, SetsBySize
<1>2. ASSUME NEW n \in Nat, n \in T PROVE n + 1 \in T
  <2>1. ASSUME NEW s \in Upto(S, n + 1) PROVE BitsOf(b, s) \in Nat
    <3>1. IsFiniteSet(s) /\ s \in SUBSET S
      BY FS_Subset DEF Upto
    <3>2. BitsOf(b, s) = IF s = {} THEN 0
                         ELSE b[Last(s)].bit_size + BitsOf(b, s \ {Last(s)})
      BY <3>1, BitsOfUnfolds
    <3>3. CASE s = {}
      BY <3>2, <3>3
    <3>4. CASE s # {}
      <4>1. Last(s) \in s
        BY <3>4 DEF Last
      <4>2. BitsOf(b, s \ {Last(s)}) \in Nat
        BY <1>2, <4>1, SmallerSets
      <4>3. b[Last(s)].bit_size \in Nat
        BY <3>1, <4>1
      <4> QED
        BY <3>2, <3>4, <4>2, <4>3
    <3> QED
      BY <3>3, <3>4
  <2> QED
    BY <2>1
<1>3. Cardinality(S) \in T
  BY <1>1, <1>2, Induction, FS_CardinalityType
<1>4. S \in Upto(S, Cardinality(S))
  BY SetsBySize
<1> QED
  BY <1>3, <1>4

(* Any index may be taken first.                                           *)
LEMMA BitsOfRemove ==
  ASSUME NEW S, IsFiniteSet(S), NEW b, \A k \in S : b[k].bit_size \in Nat
  PROVE  \A x \in S : BitsOf(b, S) = b[x].bit_size + BitsOf(b, S \ {x})
<1> SUFFICES ASSUME NEW T,
                    T = {n \in Nat : \A s \in Upto(S, n) : \A x \in s :
                           BitsOf(b, s) = b[x].bit_size + BitsOf(b, s \ {x})}
             PROVE  \A x \in S : BitsOf(b, S) = b[x].bit_size + BitsOf(b, S \ {x})
  OBVIOUS
<1>1. 0 \in T
  BY SetsBySize
<1>2. ASSUME NEW n \in Nat, n \in T PROVE n + 1 \in T
  <2>1. ASSUME NEW s \in Upto(S, n + 1), NEW x \in s
        PROVE  BitsOf(b, s) = b[x].bit_size + BitsOf(b, s \ {x})
    <3> SUFFICES ASSUME NEW c, c = Last(s)
                 PROVE  BitsOf(b, s) = b[x].bit_size + BitsOf(b, s \ {x})
      OBVIOUS
    <3>1. IsFiniteSet(s) /\ s \in SUBSET S /\ c \in s
      BY FS_Subset DEF Upto, Last
    <3>2. BitsOf(b, s) = b[c].bit_size + BitsOf(b, s \ {c})
      BY <3>1, BitsOfUnfolds
    <3>3. CASE x = c
      BY <3>2, <3>3
    <3>4. CASE x # c
      <4>1. s \ {c} \in Upto(S, n) /\ s \ {x} \in Upto(S, n)
        BY <3>1, SmallerSets
      <4>2. x \in s \ {c} /\ c \in s \ {x}
        BY <3>1, <3>4
      <4>3. BitsOf(b, s \ {c}) = b[x].bit_size + BitsOf(b, (s \ {c}) \ {x})
        BY <1>2, <4>1, <4>2
      <4>4. BitsOf(b, s \ {x}) = b[c].bit_size + BitsOf(b, (s \ {x}) \ {c})
        BY <1>2, <4>1, <4>2
      <4>5. (s \ {c}) \ {x} = (s \ {x}) \ {c}
        OBVIOUS
      <4>6. BitsOf(b, (s \ {x}) \ {c}) \in Nat
        <5>1. IsFiniteSet((s \ {x}) \ {c}) /\ (s \ {x}) \ {c} \subseteq S
          BY <3>1, FS_Subset
        <5> QED
          BY <5>1, BitsOfNatural
      <4>7. b[x].bit_size \in Nat /\ b[c].bit_size \in Nat
        BY <3>1
      <4>8. BitsOf(b, (s \ {c}) \ {x}) = BitsOf(b, (s \ {x}) \ {c})
        BY <4>5
      <4>9. ASSUME NEW p \in Nat, NEW q \in Nat, NEW r \in Nat,
                   NEW u, NEW v, NEW w,
                   u = p + v, v = q + r, w = p + r
            PROVE  u = q + w
        BY <4>9
      <4>10. BitsOf(b, s \ {c}) = b[x].bit_size + BitsOf(b, (s \ {x}) \ {c})
        BY <4>3, <4>8
      <4> QED
        BY <3>2, <4>4, <4>6, <4>7, <4>9, <4>10
    <3> QED
      BY <3>3, <3>4
  <2> QED
    BY <2>1
<1>3. Cardinality(S) \in T
  BY <1>1, <1>2, Induction, FS_CardinalityType
<1>4. S \in Upto(S, Cardinality(S))
  BY SetsBySize
<1> QED
  BY <1>3, <1>4

(* One more index adds its size.                                           *)
LEMMA BitsOfAdd ==
  ASSUME NEW S, IsFiniteSet(S), NEW b, NEW x, x \notin S,
         NaturalSizes(b, S), b[x].bit_size \in Nat
  PROVE  BitsOf(b, S \cup {x}) = BitsOf(b, S) + b[x].bit_size
<1>0. /\ \A k \in S : b[k].bit_size \in Nat
      /\ \A k \in S \cup {x} : b[k].bit_size \in Nat
  BY DEF NaturalSizes
<1>1. IsFiniteSet(S \cup {x}) /\ (S \cup {x}) \ {x} = S /\ x \in S \cup {x}
  BY FS_AddElement
<1>2. BitsOf(b, S \cup {x}) = b[x].bit_size + BitsOf(b, (S \cup {x}) \ {x})
  BY <1>0, <1>1, BitsOfRemove
<1>3. BitsOf(b, S) \in Nat /\ b[x].bit_size \in Nat
  BY <1>0, BitsOfNatural
<1>4. BitsOf(b, (S \cup {x}) \ {x}) = BitsOf(b, S)
  BY <1>1
<1> QED
  BY <1>2, <1>3, <1>4

-----------------------------------------------------------------------------
(* Deflater drives OutputTracker as OutputTracker expects to be driven.    *)

(* How many extra bits a symbol has.                                       *)
LEMMA ExtraBitsBounded ==
  /\ \A s \in LengthSymbols : LengthExtraBits(s) \in 0..5
  /\ \A s \in DistanceSymbols : DistanceExtraBits(s) \in 0..13
  /\ \A s \in Nat : LengthExtraBits(s) \in 0..5
<1>1. \A s \in 265..284 : ShiftRight(s - 261, 2) \in 0..5
  <2>1. \A s \in 265..284 : (s - 261) \div 4 \in 0..5
    OBVIOUS
  <2>2. 2 ^ 2 = 4
    OBVIOUS
  <2> QED
    BY <2>1, <2>2 DEF ShiftRight
<1>2. \A s \in 4..29 : ShiftRight(s, 1) - 1 \in 0..13
  <2>1. \A s \in 4..29 : s \div 2 - 1 \in 0..13
    OBVIOUS
  <2>2. 2 ^ 1 = 2
    OBVIOUS
  <2> QED
    BY <2>1, <2>2 DEF ShiftRight
<1> QED
  BY <1>1, <1>2 DEF LengthExtraBits, DistanceExtraBits, LengthSymbols,
                    DistanceSymbols

(* A run length is never zero: copy() records at least one byte.           *)
LEMMA LengthsPositive == Lengths \subseteq Nat \ {0}
<1> SUFFICES ASSUME NEW s \in Symbols \cap LengthSymbols,
                    NEW e \in 0 .. 2 ^ LengthExtraBits(s) - 1
             PROVE  decode_run_length(s, e) \in Nat \ {0}
  BY DEF Lengths, LengthsOf
<1>1. e \in Nat /\ s \in 257..285
  BY DEF LengthSymbols
<1>2. CASE s <= 264
  BY <1>1, <1>2 DEF decode_run_length
<1>3. CASE s > 284
  BY <1>1, <1>3 DEF decode_run_length
<1>4. CASE s \in 265..284
  <2>1. ((s - 265) % 4) + 4 \in Nat
    BY <1>4
  <2>2. \A n \in 0..5 : 2 ^ n \in Nat
    <3>1. /\ 2 ^ 0 = 1 /\ 2 ^ 1 = 2 /\ 2 ^ 2 = 4
          /\ 2 ^ 3 = 8 /\ 2 ^ 4 = 16 /\ 2 ^ 5 = 32
      OBVIOUS
    <3>2. ASSUME NEW n \in 0..5 PROVE 2 ^ n \in Nat
      <4>1. n = 0 \/ n = 1 \/ n = 2 \/ n = 3 \/ n = 4 \/ n = 5
        OBVIOUS
      <4>2. 2 ^ n = 1 \/ 2 ^ n = 2 \/ 2 ^ n = 4 \/ 2 ^ n = 8 \/ 2 ^ n = 16
              \/ 2 ^ n = 32
        BY <3>1, <4>1
      <4> QED
        BY <4>2
    <3> QED
      BY <3>2
  <2>3. 2 ^ LengthExtraBits(s) \in Nat
    BY <1>1, <2>2, ExtraBitsBounded DEF LengthSymbols
  <2>4. ASSUME NEW x \in Nat, NEW y \in Nat
        PROVE  x * y + 3 + e \in Nat \ {0}
    BY <1>1
  <2>5. ShiftLeft(((s - 265) % 4) + 4, LengthExtraBits(s)) + 3 + e \in Nat \ {0}
    BY <2>1, <2>3, <2>4 DEF ShiftLeft
  <2> QED
    BY <1>4, <2>5 DEF decode_run_length
<1> QED
  BY <1>1, <1>2, <1>3, <1>4

(* What OutputTracker's proofs assume holds of Deflater's operands.        *)
LEMMA Assumed == OutP!SizesAssumption /\ OutP!OperandsAssumption
<1>1. BitSizes \subseteq Nat
  BY DEF BitSizes
<1> QED
  BY <1>1, SizesAssumption, DistancesAssumption, LengthsPositive
     DEF OutP!SizesAssumption, OutP!OperandsAssumption

(* The two instances of OutputTracker say the same.                        *)
LEMMA SameInvariant == (Out!IInv <=> OutP!IInv) /\ (Out!IInv' <=> OutP!IInv')
<1>1. (Out!TypeOK <=> OutP!TypeOK) /\ (Out!TypeOK' <=> OutP!TypeOK')
  BY DEF Out!TypeOK, OutP!TypeOK, Out!Stat, OutP!Stat
<1>2. (Out!CursorsAgree <=> OutP!CursorsAgree)
      /\ (Out!CursorsAgree' <=> OutP!CursorsAgree')
  BY DEF Out!CursorsAgree, OutP!CursorsAgree, Out!Stat, OutP!Stat
<1>3. (Out!WindowCoherent <=> OutP!WindowCoherent)
      /\ (Out!WindowCoherent' <=> OutP!WindowCoherent')
  BY DEF Out!WindowCoherent, OutP!WindowCoherent, Out!Slot, OutP!Slot
<1>4. (Out!SourcesPrecede <=> OutP!SourcesPrecede)
      /\ (Out!SourcesPrecede' <=> OutP!SourcesPrecede')
  BY DEF Out!SourcesPrecede, OutP!SourcesPrecede
<1>5. (Out!LiteralsCounted <=> OutP!LiteralsCounted)
      /\ (Out!LiteralsCounted' <=> OutP!LiteralsCounted')
  BY DEF Out!LiteralsCounted, OutP!LiteralsCounted, Out!Cardinality,
         OutP!Cardinality
<1>6. (Out!RunValid <=> OutP!RunValid) /\ (Out!RunValid' <=> OutP!RunValid')
  BY DEF Out!RunValid, OutP!RunValid, Out!Reach, OutP!Reach
<1>7. (Out!CopyIdsUnique <=> OutP!CopyIdsUnique)
      /\ (Out!CopyIdsUnique' <=> OutP!CopyIdsUnique')
  BY DEF Out!CopyIdsUnique, OutP!CopyIdsUnique
<1>8. (Out!AbortsOnlyBeforeFirstByte <=> OutP!AbortsOnlyBeforeFirstByte)
      /\ (Out!AbortsOnlyBeforeFirstByte' <=> OutP!AbortsOnlyBeforeFirstByte')
  BY DEF Out!AbortsOnlyBeforeFirstByte, OutP!AbortsOnlyBeforeFirstByte
<1> QED
  BY <1>1, <1>2, <1>3, <1>4, <1>5, <1>6, <1>7, <1>8 DEF Out!IInv, OutP!IInv

(* The two instances of the output tracker take the same steps.            *)
LEMMA SameActions ==
  /\ \A value, bits : Out!Add(value, bits) <=> OutP!Add(value, bits)
  /\ \A dist, len, bits :
       Out!CopyStart(dist, len, bits) <=> OutP!CopyStart(dist, len, bits)
  /\ Out!CopyNext <=> OutP!CopyNext
<1>1. \A value, bits : Out!Add(value, bits) <=> OutP!Add(value, bits)
  BY DEF Out!Add, OutP!Add, Out!AddStat, OutP!AddStat, Out!PutByte,
         OutP!PutByte,
         Out!Slot, OutP!Slot, Out!Grown, OutP!Grown
<1>2. \A dist, len, bits :
        Out!CopyStart(dist, len, bits) <=> OutP!CopyStart(dist, len, bits)
  BY DEF Out!CopyStart, OutP!CopyStart, Out!WordSub, OutP!WordSub
<1>3. Out!CopyByte <=> OutP!CopyByte
  BY DEF Out!CopyByte, OutP!CopyByte, Out!AddStat, OutP!AddStat, Out!PutByte,
         OutP!PutByte, Out!Slot, OutP!Slot, Out!Grown, OutP!Grown, Out!Pos,
         OutP!Pos, Out!WordAdd, OutP!WordAdd
<1>4. Out!CopyAbort <=> OutP!CopyAbort
  BY DEF Out!CopyAbort, OutP!CopyAbort, Out!Pos, OutP!Pos, Out!WordAdd,
         OutP!WordAdd
<1>5. Out!CopyEnd <=> OutP!CopyEnd
  BY DEF Out!CopyEnd, OutP!CopyEnd, Out!NoRun, OutP!NoRun
<1> QED
  BY <1>1, <1>2, <1>3, <1>4, <1>5 DEF Out!CopyNext, OutP!CopyNext

(* The bits of an operation are bits an operation can have.                *)
LEMMA CodeBitsInRange == CodeBits \subseteq BitSizes /\ 8 \in BitSizes
BY InputAssumption DEF BitSizes

(* The bits of a copy fit the account they are added to.                   *)
LEMMA CopyBitsInRange ==
  ASSUME IInv, pc = "distance",
         NEW symbol \in DistanceSymbols, NEW bits \in CodeBits
  PROVE  account + (bits + DistanceExtraBits(symbol)) \in BitSizes
<1>1. account \in Nat /\ account <= 20
  BY DEF IInv, TypeOK, AccountsValid
<1>2. bits \in 0..15 /\ DistanceExtraBits(symbol) \in 0..13
  BY InputAssumption, ExtraBitsBounded
<1> QED
  BY <1>1, <1>2 DEF BitSizes

(* Every step is one of the output side's, or one it does not see.         *)
LEMMA StepsOfTracker == IInv /\ [Next]_vars => [OutP!Next]_(OutP!vars)
<1> SUFFICES ASSUME IInv, [Next]_vars PROVE [OutP!Next]_(OutP!vars)
  OBVIOUS
<1>1. ASSUME NEW value \in Byte, NEW bits \in BitSizes, Out!Add(value, bits)
      PROVE  OutP!Next
  BY <1>1, SameActions DEF OutP!Next
<1>2. CASE \E value \in Byte : RawByte(value)
  BY <1>1, <1>2, CodeBitsInRange DEF RawByte
<1>3. CASE \E symbol \in Literals, bits \in CodeBits : Literal(symbol, bits)
  BY <1>1, <1>3, CodeBitsInRange DEF Literal, Byte
<1>4. CASE \E symbol \in DistSymbols, bits \in CodeBits : Distance(symbol, bits)
  <2>1. PICK symbol \in DistSymbols, bits \in CodeBits : Distance(symbol, bits)
    BY <1>4
  <2>2. pc = "distance" /\ symbol \in DistanceSymbols
    BY <2>1 DEF Distance
  <2>3. PICK dist \in DistancesOf(symbol) :
          Out!CopyStart(dist, length,
          account + (bits + DistanceExtraBits(symbol)))
    BY <2>1 DEF Distance
  <2>4. dist \in Distances
    BY <2>2 DEF Distances
  <2>5. length \in Lengths
    BY <2>2 DEF IInv, AccountsValid
  <2>6. account + (bits + DistanceExtraBits(symbol)) \in BitSizes
    BY <2>2, CopyBitsInRange
  <2>7. OutP!CopyStart(dist, length, account + (bits + DistanceExtraBits(symbol)))
    BY <2>3, SameActions
  <2> QED
    BY <2>4, <2>5, <2>6, <2>7 DEF OutP!Next
<1>5. CASE Copy
  BY <1>5, SameActions DEF Copy, OutP!Next
<1>6. CASE UNCHANGED tracker
  BY <1>6 DEF tracker, OutP!vars
<1>7. CASE \/ \E last \in {0, 1}, method \in Methods : OpenBlock(last, method)
           \/ \E len \in RawLengths, confirmed \in BOOLEAN :
                RawHeader(len, confirmed)
           \/ RawByteMissing \/ RawEnd \/ StaticTrees \/ CloseBlock \/ Unwind
  BY <1>6, <1>7 DEF OpenBlock, RawHeader, RawByteMissing, RawEnd, StaticTrees,
                    CloseBlock, Unwind
<1>8. CASE \/ \E bits \in TableBits, accepted \in BOOLEAN :
                DynamicTrees(bits, accepted)
           \/ \E bits \in CodeBits : EndOfBlock(bits)
           \/ \E symbol \in Symbols, bits \in CodeBits : Length(symbol, bits)
           \/ \E symbol \in DistSymbols, bits \in CodeBits :
                BadDistance(symbol, bits)
           \/ UNCHANGED vars
  BY <1>6, <1>8 DEF DynamicTrees, EndOfBlock, Length, BadDistance, vars
<1> QED
  BY <1>2, <1>3, <1>4, <1>5, <1>7, <1>8 DEF Next, BlockNext, SymbolNext

(* So the output side's invariant and its history are kept.                *)
LEMMA TrackerStep ==
  IInv /\ [Next]_vars =>
    /\ Out!IInv'
    /\ cursor <= cursor' /\ \A k \in 0 .. cursor - 1 : bytes'[k] = bytes[k]
<1> SUFFICES ASSUME IInv, [Next]_vars
             PROVE  /\ Out!IInv'
                    /\ cursor <= cursor'
                    /\ \A k \in 0 .. cursor - 1 : bytes'[k] = bytes[k]
  OBVIOUS
<1>1. OutP!IInv /\ [OutP!Next]_(OutP!vars)
  BY StepsOfTracker, SameInvariant DEF IInv
<1>2. OutP!IInv'
  BY <1>1, Assumed, OutP!StepPreserves
<1>3. cursor <= cursor' /\ \A k \in 0 .. cursor - 1 : bytes'[k] = bytes[k]
  BY <1>1, Assumed, OutP!RecordedStays
<1> QED
  BY <1>2, <1>3, SameInvariant

-----------------------------------------------------------------------------
(* The types, where deflate() is, and its accounts.                        *)
LEMMA ControlStep ==
  ASSUME IInv, [Next]_vars
  PROVE  TypeOK' /\ PhaseValid' /\ AccountsValid' /\ BlocksValid'
<1> DEFINE Kept == TypeOK' /\ PhaseValid' /\ AccountsValid' /\ BlocksValid'
<1>0. /\ TypeOK /\ PhaseValid /\ AccountsValid /\ BlocksValid /\ Out!TypeOK'
  BY TrackerStep DEF IInv, Out!IInv
<1>a. /\ CodeBits \subseteq Nat /\ TableBits \subseteq Nat
      /\ RawLengths \subseteq Nat /\ CodeBits \subseteq 0..15
  BY InputAssumption
<1>1. ASSUME NEW last \in {0, 1}, NEW method \in Methods, OpenBlock(last, method)
      PROVE  Kept
  <2>1. TypeOK'
    BY <1>0, <1>a, <1>1
       DEF OpenBlock, Consume, TypeOK, tracker, accounts, Ended, Methods
  <2>2. PhaseValid'
    BY <1>0, <1>1 DEF OpenBlock, PhaseValid, tracker, Methods
  <2>3. AccountsValid'
    BY <1>0, <1>a, <1>1
       DEF OpenBlock, TypeOK, AccountsValid, BetweenBlocks, accounts, Methods
  <2>4. BlocksValid'
    BY <1>0, <1>1
       DEF OpenBlock, TypeOK, BlocksValid, AccountsValid, BetweenBlocks,
           accounts, Methods
  <2> QED
    BY <2>1, <2>2, <2>3, <2>4
<1>2. ASSUME NEW len \in RawLengths, NEW confirmed \in BOOLEAN,
             RawHeader(len, confirmed)
      PROVE  Kept
  <2>1. TypeOK'
    BY <1>0, <1>a, <1>2
       DEF RawHeader, Consume, TypeOK, tracker, accounts, Ended, Methods
  <2>2. PhaseValid'
    BY <1>0, <1>2 DEF RawHeader, PhaseValid, tracker, Methods
  <2>3. AccountsValid'
    BY <1>0, <1>a, <1>2
       DEF RawHeader, TypeOK, AccountsValid, BetweenBlocks, accounts, Methods
  <2>4. BlocksValid'
    BY <1>0, <1>2
       DEF RawHeader, TypeOK, BlocksValid, AccountsValid, BetweenBlocks,
           accounts, Methods
  <2> QED
    BY <2>1, <2>2, <2>3, <2>4
<1>3. ASSUME NEW value \in Byte, RawByte(value)
      PROVE  Kept
  <2>1. TypeOK'
    BY <1>0, <1>a, <1>3
       DEF RawByte, Consume, TypeOK, tracker, accounts, Ended, Methods, Out!Add
  <2>2. PhaseValid'
    BY <1>0, <1>3 DEF RawByte, PhaseValid, tracker, Methods, Out!Add
  <2>3. AccountsValid'
    BY <1>0, <1>a, <1>3
       DEF RawByte, TypeOK, AccountsValid, BetweenBlocks, accounts, Methods
  <2>4. BlocksValid'
    BY <1>0, <1>3
       DEF RawByte, TypeOK, BlocksValid, AccountsValid, BetweenBlocks,
           accounts, Methods
  <2> QED
    BY <2>1, <2>2, <2>3, <2>4
<1>4. CASE RawByteMissing
  <2>1. TypeOK'
    BY <1>0, <1>a, <1>4
       DEF RawByteMissing, Consume, TypeOK, tracker, accounts, Ended, Methods
  <2>2. PhaseValid'
    BY <1>0, <1>4 DEF RawByteMissing, PhaseValid, tracker, Methods
  <2>3. AccountsValid'
    BY <1>0, <1>a, <1>4
       DEF RawByteMissing, TypeOK, AccountsValid, BetweenBlocks, accounts,
           Methods
  <2>4. BlocksValid'
    BY <1>0, <1>4
       DEF RawByteMissing, TypeOK, BlocksValid, AccountsValid, BetweenBlocks,
           accounts, Methods
  <2> QED
    BY <2>1, <2>2, <2>3, <2>4
<1>5. CASE RawEnd
  <2>1. TypeOK'
    BY <1>0, <1>a, <1>5
       DEF RawEnd, Consume, TypeOK, tracker, accounts, Ended, Methods
  <2>2. PhaseValid'
    BY <1>0, <1>5 DEF RawEnd, PhaseValid, tracker, Methods
  <2>3. AccountsValid'
    BY <1>0, <1>a, <1>5
       DEF RawEnd, TypeOK, AccountsValid, BetweenBlocks, accounts, Methods
  <2>4. BlocksValid'
    BY <1>0, <1>5
       DEF RawEnd, TypeOK, BlocksValid, AccountsValid, BetweenBlocks,
           accounts, Methods
  <2> QED
    BY <2>1, <2>2, <2>3, <2>4
<1>6. CASE StaticTrees
  <2>1. TypeOK'
    BY <1>0, <1>a, <1>6
       DEF StaticTrees, Consume, TypeOK, tracker, accounts, Ended, Methods
  <2>2. PhaseValid'
    BY <1>0, <1>6 DEF StaticTrees, PhaseValid, tracker, Methods
  <2>3. AccountsValid'
    BY <1>0, <1>a, <1>6
       DEF StaticTrees, TypeOK, AccountsValid, BetweenBlocks, accounts, Methods
  <2>4. BlocksValid'
    BY <1>0, <1>6
       DEF StaticTrees, TypeOK, BlocksValid, AccountsValid, BetweenBlocks,
           accounts, Methods
  <2> QED
    BY <2>1, <2>2, <2>3, <2>4
<1>7. ASSUME NEW bits \in TableBits, NEW accepted \in BOOLEAN,
             DynamicTrees(bits, accepted)
      PROVE  Kept
  <2>1. TypeOK'
    BY <1>0, <1>a, <1>7
       DEF DynamicTrees, Consume, TypeOK, tracker, accounts, Ended, Methods
  <2>2. PhaseValid'
    BY <1>0, <1>7 DEF DynamicTrees, PhaseValid, tracker, Methods
  <2>3. AccountsValid'
    BY <1>0, <1>a, <1>7
       DEF DynamicTrees, TypeOK, AccountsValid, BetweenBlocks, accounts, Methods
  <2>4. BlocksValid'
    BY <1>0, <1>7
       DEF DynamicTrees, TypeOK, BlocksValid, AccountsValid, BetweenBlocks,
           accounts, Methods
  <2> QED
    BY <2>1, <2>2, <2>3, <2>4
<1>8. CASE CloseBlock
  <2>1. TypeOK'
    BY <1>0, <1>a, <1>8
       DEF CloseBlock, Consume, TypeOK, tracker, accounts, Ended, Methods
  <2>2. PhaseValid'
    BY <1>0, <1>8 DEF CloseBlock, PhaseValid, tracker, Methods
  <2>3. AccountsValid'
    BY <1>0, <1>a, <1>8
       DEF CloseBlock, TypeOK, AccountsValid, BetweenBlocks, accounts, Methods
  <2>4. BlocksValid'
    BY <1>0, <1>8
       DEF CloseBlock, TypeOK, BlocksValid, AccountsValid, BetweenBlocks,
           accounts, Methods
  <2> QED
    BY <2>1, <2>2, <2>3, <2>4
<1>9. CASE Unwind
  <2>1. TypeOK'
    BY <1>0, <1>a, <1>9
       DEF Unwind, Consume, TypeOK, tracker, accounts, Ended, Methods
  <2>2. PhaseValid'
    BY <1>0, <1>9 DEF Unwind, PhaseValid, tracker, Methods
  <2>3. AccountsValid'
    BY <1>0, <1>a, <1>9
       DEF Unwind, TypeOK, AccountsValid, BetweenBlocks, accounts, Methods
  <2>4. BlocksValid'
    BY <1>0, <1>9
       DEF Unwind, TypeOK, BlocksValid, AccountsValid, BetweenBlocks,
           accounts, Methods
  <2> QED
    BY <2>1, <2>2, <2>3, <2>4
<1>10. ASSUME NEW symbol \in Literals, NEW bits \in CodeBits, Literal(symbol, bits)
      PROVE  Kept
  <2>1. TypeOK'
    BY <1>0, <1>a, <1>10
       DEF Literal, Consume, TypeOK, tracker, accounts, Ended, Methods, Out!Add
  <2>2. PhaseValid'
    BY <1>0, <1>10 DEF Literal, PhaseValid, tracker, Methods, Out!Add
  <2>3. AccountsValid'
    BY <1>0, <1>a, <1>10
       DEF Literal, TypeOK, AccountsValid, BetweenBlocks, accounts, Methods
  <2>4. BlocksValid'
    BY <1>0, <1>10
       DEF Literal, TypeOK, BlocksValid, AccountsValid, BetweenBlocks,
           accounts, Methods
  <2> QED
    BY <2>1, <2>2, <2>3, <2>4
<1>11. ASSUME NEW bits \in CodeBits, EndOfBlock(bits)
      PROVE  Kept
  <2>1. TypeOK'
    BY <1>0, <1>a, <1>11
       DEF EndOfBlock, Consume, TypeOK, tracker, accounts, Ended, Methods
  <2>2. PhaseValid'
    BY <1>0, <1>11 DEF EndOfBlock, PhaseValid, tracker, Methods
  <2>3. AccountsValid'
    BY <1>0, <1>a, <1>11
       DEF EndOfBlock, TypeOK, AccountsValid, BetweenBlocks, accounts, Methods
  <2>4. BlocksValid'
    BY <1>0, <1>11
       DEF EndOfBlock, TypeOK, BlocksValid, AccountsValid, BetweenBlocks,
           accounts, Methods
  <2> QED
    BY <2>1, <2>2, <2>3, <2>4
<1>12. ASSUME NEW symbol \in Symbols, NEW bits \in CodeBits, Length(symbol, bits)
      PROVE  Kept
  <2>0. symbol \in Nat /\ bits \in 0..15 /\ LengthExtraBits(symbol) \in 0..5
    BY InputAssumption, ExtraBitsBounded
  <2>a. PICK spent \in 0..20 : /\ consumed' = consumed + spent
                              /\ account' = spent
    BY <1>0, <1>12, <2>0 DEF Length, Consume
  <2>b. \/ pc' = "distance" /\ length' \in Lengths
        \/ pc' = "throw" /\ length' = length
    BY <1>12 DEF Length, Lengths
  <2>c. /\ pc = "symbol" /\ phase' = phase
        /\ UNCHANGED <<block_account, closed, keep_going, left, blocks, misaligned>>
    BY <1>12 DEF Length, tracker
  <2>1. TypeOK'
    BY <1>0, <2>a, <2>b, <2>c DEF TypeOK
  <2>2. PhaseValid'
    BY <1>0, <2>b, <2>c DEF PhaseValid
  <2>3. AccountsValid'
    BY <1>0, <2>a, <2>b, <2>c DEF TypeOK, AccountsValid, BetweenBlocks
  <2>4. BlocksValid'
    BY <1>0, <2>b, <2>c DEF TypeOK, BlocksValid, BetweenBlocks
  <2> QED
    BY <2>1, <2>2, <2>3, <2>4
<1>13. ASSUME NEW symbol \in DistSymbols, NEW bits \in CodeBits, Distance(symbol, bits)
      PROVE  Kept
  <2>0. bits \in 0..15 /\ DistanceExtraBits(symbol) \in 0..13
    BY <1>13, InputAssumption, ExtraBitsBounded DEF Distance
  <2>a. consumed' \in Nat
    <3>1. consumed' = consumed + (bits + DistanceExtraBits(symbol))
      BY <1>13 DEF Distance, Consume
    <3>2. consumed \in Nat
      BY <1>0 DEF TypeOK
    <3> QED
      BY <2>0, <3>1, <3>2
  <2>b. /\ pc = "distance" /\ pc' = "copy" /\ account' = 0
        /\ UNCHANGED <<block_account, closed, keep_going, length, left, blocks,
                       misaligned>>
    BY <1>13 DEF Distance
  <2>c. phase' = "copying"
    BY <1>13 DEF Distance, Out!CopyStart
  <2>1. TypeOK'
    BY <1>0, <2>a, <2>b DEF TypeOK
  <2>2. PhaseValid'
    BY <2>b, <2>c DEF PhaseValid
  <2>3. AccountsValid'
    BY <1>0, <2>b DEF TypeOK, AccountsValid, BetweenBlocks
  <2>4. BlocksValid'
    BY <1>0, <2>b DEF TypeOK, BlocksValid, BetweenBlocks
  <2> QED
    BY <2>1, <2>2, <2>3, <2>4
<1>14. ASSUME NEW symbol \in DistSymbols, NEW bits \in CodeBits,
             BadDistance(symbol, bits)
      PROVE  Kept
  <2>1. TypeOK'
    BY <1>0, <1>a, <1>14
       DEF BadDistance, Consume, TypeOK, tracker, accounts, Ended, Methods
  <2>2. PhaseValid'
    BY <1>0, <1>14 DEF BadDistance, PhaseValid, tracker, Methods
  <2>3. AccountsValid'
    BY <1>0, <1>a, <1>14
       DEF BadDistance, TypeOK, AccountsValid, BetweenBlocks, accounts, Methods
  <2>4. BlocksValid'
    BY <1>0, <1>14
       DEF BadDistance, TypeOK, BlocksValid, AccountsValid, BetweenBlocks,
           accounts, Methods
  <2> QED
    BY <2>1, <2>2, <2>3, <2>4
<1>15. CASE Copy
  <2>0. phase' = "copying" \/ phase' = "idle" \/ phase' = "aborted"
    BY <1>0 DEF Out!TypeOK
  <2>a. \/ phase' = "copying" /\ pc' = "copy"
        \/ phase' = "idle" /\ pc' = "symbol"
        \/ phase' = "aborted" /\ pc' = "aborted_by_writer"
    BY <1>15, <2>0 DEF Copy
  <2>b. /\ pc = "copy"
        /\ UNCHANGED <<block_account, account, closed, keep_going, length, left,
                       blocks, consumed, misaligned>>
    BY <1>15 DEF Copy, accounts
  <2>1. TypeOK'
    BY <1>0, <2>a, <2>b DEF TypeOK, Ended
  <2>2. PhaseValid'
    BY <2>a DEF PhaseValid
  <2>3. AccountsValid'
    BY <1>0, <2>a, <2>b DEF TypeOK, AccountsValid, BetweenBlocks
  <2>4. BlocksValid'
    BY <1>0, <2>a, <2>b DEF TypeOK, BlocksValid, BetweenBlocks
  <2> QED
    BY <2>1, <2>2, <2>3, <2>4
<1>16. CASE UNCHANGED vars
  BY <1>0, <1>16
     DEF TypeOK, PhaseValid, AccountsValid, BlocksValid, BetweenBlocks, vars,
         tracker, accounts
<1> QED
  BY <1>1, <1>2, <1>3, <1>4, <1>5, <1>6, <1>7, <1>8, <1>9, <1>10, <1>11,
     <1>12, <1>13, <1>14, <1>15, <1>16 DEF Next, BlockNext, SymbolNext

-----------------------------------------------------------------------------
(* Conservation of the bits.                                               *)
Firsts == {k \in 0 .. cursor - 1 : FirstOfOperation(k)}

Pending == IF phase # "idle" /\ run.i = 0 THEN run.bit_size ELSE 0

(* The bits recorded for operations and those waiting to be.               *)
LEMMA OperationBitsIs ==
  /\ OperationBits = BitsOf(bytes, Firsts) + Pending
  /\ OperationBits' = BitsOf(bytes', Firsts') + Pending'
BY DEF OperationBits, BitsOf, Firsts, Pending, MapThenSumSet, MapThenFoldSet

(* The sums are sums of natural numbers over finite sets.                  *)
LEMMA RecordedSizes ==
  ASSUME IInv
  PROVE  /\ cursor \in Nat
         /\ \A k \in 0 .. cursor - 1 : bytes[k] \in Out!Stat
         /\ \A k \in 0 .. cursor - 1 : bytes[k].bit_size \in Nat
         /\ IsFiniteSet(Firsts) /\ Firsts \subseteq 0 .. cursor - 1
         /\ BitsOf(bytes, Firsts) \in Nat
<1>1. cursor \in Nat
  BY SizesAssumption DEF IInv, Out!IInv, Out!TypeOK
<1>2. \A k \in 0 .. cursor - 1 : bytes[k] \in Out!Stat
  BY DEF IInv, Out!IInv, Out!CursorsAgree
<1>3. \A k \in 0 .. cursor - 1 : bytes[k].bit_size \in Nat
  BY <1>2 DEF Out!Stat, BitSizes
<1>4. IsFiniteSet(Firsts) /\ Firsts \subseteq 0 .. cursor - 1
  <2>1. IsFiniteSet(0 .. cursor - 1)
    BY <1>1, FS_Interval
  <2>2. Firsts \subseteq 0 .. cursor - 1
    BY DEF Firsts
  <2> QED
    BY <2>1, <2>2, FS_Subset
<1>5. BitsOf(bytes, Firsts) \in Nat
  BY <1>3, <1>4, BitsOfNatural
<1> QED
  BY <1>1, <1>2, <1>3, <1>4, <1>5

(* Whether an index is the first of its operation is settled once it is    *)
(* recorded, so only the index recorded now can be a new one.              *)
LEMMA FirstsKept ==
  ASSUME IInv, \A k \in 0 .. cursor - 1 : bytes'[k] = bytes[k]
  PROVE  /\ \A k \in 0 .. cursor - 1 : FirstOfOperation(k)' <=> FirstOfOperation(k)
         /\ SameSizes(bytes', bytes, Firsts)
         /\ BitsOf(bytes', Firsts) = BitsOf(bytes, Firsts)
<1>1. \A k \in 0 .. cursor - 1 : FirstOfOperation(k)' <=> FirstOfOperation(k)
  <2>1. \A k \in 0 .. cursor - 1 : k = 0 \/ k - 1 \in 0 .. cursor - 1
    BY RecordedSizes
  <2> QED
    BY <2>1 DEF FirstOfOperation
<1>2. SameSizes(bytes', bytes, Firsts)
  BY RecordedSizes DEF SameSizes
<1>3. BitsOf(bytes', Firsts) = BitsOf(bytes, Firsts)
  BY <1>2, RecordedSizes, BitsOfSame
<1> QED
  BY <1>1, <1>2, <1>3

(* Where no byte is recorded no bits are.                                  *)
LEMMA NothingRecorded ==
  ASSUME IInv, \A k \in 0 .. cursor - 1 : bytes'[k] = bytes[k],
         cursor' = cursor
  PROVE  BitsOf(bytes', Firsts') = BitsOf(bytes, Firsts)
<1>1. Firsts' = Firsts
  BY FirstsKept DEF Firsts
<1> QED
  BY <1>1, FirstsKept

(* A byte adds its bits if it is the first of its operation.               *)
LEMMA ByteRecorded ==
  ASSUME IInv, Out!IInv', \A k \in 0 .. cursor - 1 : bytes'[k] = bytes[k],
         cursor' = cursor + 1, NEW n, n = cursor
  PROVE  BitsOf(bytes', Firsts') =
           IF FirstOfOperation(n)'
           THEN BitsOf(bytes, Firsts) + bytes'[n].bit_size
           ELSE BitsOf(bytes, Firsts)
<1>1. n \in Nat /\ n \notin Firsts /\ bytes'[n].bit_size \in Nat
  <2>1. n \in Nat /\ n \notin Firsts /\ cursor' = n + 1
    BY RecordedSizes
  <2>2. bytes'[n] \in Out!Stat
    BY <2>1 DEF Out!IInv, Out!CursorsAgree
  <2> QED
    BY <2>1, <2>2 DEF Out!Stat, BitSizes
<1>2. Firsts' = {k \in 0 .. n : FirstOfOperation(k)'}
  BY <1>1 DEF Firsts
<1>3. Firsts = {k \in 0 .. n - 1 : FirstOfOperation(k)'}
  BY <1>1, FirstsKept DEF Firsts
<1>4. \A k \in 0 .. n : k = n \/ k \in 0 .. n - 1
  BY <1>1
<1>5. \A k \in 0 .. n - 1 : k \in 0 .. n
  BY <1>1
<1>6. CASE FirstOfOperation(n)'
  <2>1. Firsts' = Firsts \cup {n}
    BY <1>1, <1>2, <1>3, <1>4, <1>5, <1>6
  <2>2. NaturalSizes(bytes', Firsts)
    BY RecordedSizes DEF NaturalSizes
  <2>3. BitsOf(bytes', Firsts \cup {n})
          = BitsOf(bytes', Firsts) + bytes'[n].bit_size
    BY <1>1, <2>2, RecordedSizes, BitsOfAdd
  <2> QED
    BY <1>6, <2>1, <2>3, FirstsKept
<1>7. CASE ~FirstOfOperation(n)'
  <2>1. Firsts' = Firsts
    BY <1>2, <1>3, <1>4, <1>5, <1>7
  <2> QED
    BY <1>7, <2>1, FirstsKept
<1> QED
  BY <1>6, <1>7

(* A ByteStat that is recorded is found where the cursor was.              *)
LEMMA StatRecorded ==
  ASSUME IInv, NEW stat \in Out!Stat, Out!AddStat(stat), cursor < MaxOut,
         NEW n, n = cursor
  PROVE  bytes'[n] = stat /\ cursor' = n + 1
<1>1. OutP!TypeOK /\ OutP!CursorsAgree
  BY SameInvariant DEF IInv, OutP!IInv
<1>2. stat \in OutP!Stat
  BY DEF Out!Stat, OutP!Stat
<1>3. OutP!AddStat(stat)
  BY DEF Out!AddStat, OutP!AddStat, Out!Grown, OutP!Grown
<1> QED
  BY <1>1, <1>2, <1>3, Assumed, OutP!AddStatAppends

(* A step that leaves the output alone leaves the sum alone.               *)
LEMMA QuietStep ==
  ASSUME IInv, UNCHANGED tracker
  PROVE  OperationBits' = OperationBits
<1>1. UNCHANGED <<bytes, cursor, phase, run>>
  BY DEF tracker
<1>2. BitsOf(bytes', Firsts') = BitsOf(bytes, Firsts)
  BY <1>1, NothingRecorded
<1>3. Pending' = Pending
  BY <1>1 DEF Pending
<1> QED
  BY <1>2, <1>3, OperationBitsIs

(* A literal adds the bits it was encoded in.                              *)
LEMMA AddBits ==
  ASSUME IInv, [Next]_vars, NEW value \in Byte, NEW bits \in BitSizes,
         Out!Add(value, bits)
  PROVE  OperationBits' = OperationBits + bits
<1> SUFFICES ASSUME NEW n, n = cursor
             PROVE  OperationBits' = OperationBits + bits
  OBVIOUS
<1> DEFINE stat == [source |-> cursor, copy |-> 0, bit_size |-> bits,
                    value |-> value]
<1>1. phase = "idle" /\ phase' = "idle" /\ cursor < MaxOut /\ Out!AddStat(stat)
  BY DEF Out!Add, IInv, Out!IInv, Out!CursorsAgree
<1>2. stat \in Out!Stat
  BY RecordedSizes DEF Out!Stat
<1>3. /\ bytes'[n].copy = 0 /\ bytes'[n].bit_size = bits
      /\ cursor' = n + 1
  <2> HIDE DEF stat
  <2>1. bytes'[n] = stat /\ cursor' = n + 1
    BY <1>1, <1>2, StatRecorded
  <2> QED
    BY <2>1 DEF stat
<1>4. FirstOfOperation(n)'
  BY <1>3 DEF FirstOfOperation
<1>5. BitsOf(bytes', Firsts') = BitsOf(bytes, Firsts) + bits
  BY <1>3, <1>4, TrackerStep, ByteRecorded
<1>6. Pending = 0 /\ Pending' = 0
  BY <1>1 DEF Pending
<1> QED
  BY <1>5, <1>6, OperationBitsIs, RecordedSizes DEF BitSizes

(* A copy adds its bits as soon as it starts.                              *)
LEMMA CopyStartBits ==
  ASSUME IInv, NEW dist, NEW len, NEW bits \in Nat, Out!CopyStart(dist, len, bits)
  PROVE  OperationBits' = OperationBits + bits
<1>1. /\ phase = "idle" /\ phase' = "copying" /\ run'.i = 0
      /\ run'.bit_size = bits /\ bytes' = bytes /\ cursor' = cursor
  BY DEF Out!CopyStart
<1>2. BitsOf(bytes', Firsts') = BitsOf(bytes, Firsts)
  BY <1>1, NothingRecorded
<1>3. Pending = 0 /\ Pending' = bits
  BY <1>1 DEF Pending
<1> QED
  BY <1>2, <1>3, OperationBitsIs, RecordedSizes

(* None of its steps adds any: its first byte takes over the bits that     *)
(* were pending, and the others are not first of an operation.             *)
LEMMA CopyByteBits ==
  ASSUME IInv, [Next]_vars, Out!CopyByte
  PROVE  OperationBits' = OperationBits
<1> SUFFICES ASSUME NEW n, n = cursor
             PROVE  OperationBits' = OperationBits
  OBVIOUS
<1> DEFINE stat == [source |-> Out!Pos, copy |-> copy_cur + 1,
                    bit_size |-> run.bit_size, value |-> buf[Out!Slot(Out!Pos)]]
<1>1. /\ phase = "copying" /\ phase' = "copying" /\ run.i < run.len
      /\ run'.i = run.i + 1 /\ Out!AddStat(stat)
  BY DEF Out!CopyByte, IInv, Out!IInv, Out!TypeOK
<1>2. /\ run.i \in Nat /\ run.len \in Nat /\ run.start \in 0 .. WordSize - 1
      /\ copy_cur \in Nat /\ cursor \in Nat
      /\ buf \in [0 .. WindowSize - 1 -> Byte]
  BY RecordedSizes DEF IInv, Out!IInv, Out!TypeOK
<1>3. /\ run.bit_size \in BitSizes /\ run.i <= cursor
      /\ cursor + run.len - run.i <= MaxOut
      /\ \A k \in cursor - run.i .. cursor - 1 : bytes[k].copy = copy_cur + 1
      /\ \A k \in 0 .. cursor - run.i - 1 : bytes[k].copy <= copy_cur
  BY <1>1 DEF IInv, Out!IInv, Out!RunValid
<1>4. stat \in Out!Stat
  <2>1. Out!Pos \in Nat
    BY <1>2, SizesAssumption DEF Out!Pos, Out!WordAdd
  <2>2. Out!Slot(Out!Pos) \in 0 .. WindowSize - 1
    BY <2>1, SizesAssumption DEF Out!Slot
  <2> QED
    BY <1>2, <1>3, <2>1, <2>2 DEF Out!Stat
<1>5. cursor < MaxOut
  BY <1>1, <1>2, <1>3, SizesAssumption
<1>6. /\ bytes'[n].copy = copy_cur + 1 /\ bytes'[n].bit_size = run.bit_size
      /\ cursor' = n + 1
  <2> HIDE DEF stat
  <2>1. bytes'[n] = stat /\ cursor' = n + 1
    BY <1>1, <1>4, <1>5, StatRecorded
  <2> QED
    BY <2>1 DEF stat
<1>7. /\ Out!IInv' /\ \A k \in 0 .. cursor - 1 : bytes'[k] = bytes[k]
  BY TrackerStep
<1>8. Pending' = 0
  BY <1>1, <1>2 DEF Pending
<1>9. CASE run.i = 0
  <2>1. FirstOfOperation(n)'
    <3>1. CASE n = 0
      BY <3>1 DEF FirstOfOperation
    <3>2. CASE n # 0
      <4>1. n - 1 \in 0 .. cursor - run.i - 1 /\ n - 1 \in 0 .. cursor - 1
        BY <1>2, <1>9, <3>2
      <4>2. bytes'[n - 1] = bytes[n - 1] /\ bytes[n - 1].copy <= copy_cur
        BY <1>3, <1>7, <4>1
      <4>3. bytes[n - 1].copy # copy_cur + 1
        BY <1>2, <4>2
      <4> QED
        BY <1>6, <4>2, <4>3 DEF FirstOfOperation
    <3> QED
      BY <3>1, <3>2
  <2>2. BitsOf(bytes', Firsts') = BitsOf(bytes, Firsts) + run.bit_size
    BY <1>6, <1>7, <2>1, ByteRecorded
  <2>3. Pending = run.bit_size
    BY <1>1, <1>9 DEF Pending
  <2>4. run.bit_size \in Nat
    BY <1>3 DEF BitSizes
  <2> QED
    BY <1>8, <2>2, <2>3, <2>4, OperationBitsIs, RecordedSizes
<1>10. CASE run.i # 0
  <2>1. n - 1 \in cursor - run.i .. cursor - 1 /\ n - 1 \in 0 .. cursor - 1
    BY <1>2, <1>3, <1>10
  <2>2. bytes'[n - 1] = bytes[n - 1] /\ bytes[n - 1].copy = copy_cur + 1
    BY <1>3, <1>7, <2>1
  <2>3. ~FirstOfOperation(n)'
    BY <1>2, <1>6, <2>1, <2>2 DEF FirstOfOperation
  <2>4. BitsOf(bytes', Firsts') = BitsOf(bytes, Firsts)
    BY <1>6, <1>7, <2>3, ByteRecorded
  <2>5. Pending = 0
    BY <1>1, <1>10 DEF Pending
  <2> QED
    BY <1>8, <2>4, <2>5, OperationBitsIs
<1> QED
  BY <1>9, <1>10

(* The end of a copy moves no bits, nor does its abort.                    *)
LEMMA CopyEndBits ==
  ASSUME IInv, Out!CopyAbort \/ Out!CopyEnd
  PROVE  OperationBits' = OperationBits
<1>1. bytes' = bytes /\ cursor' = cursor /\ phase = "copying"
  BY DEF Out!CopyAbort, Out!CopyEnd
<1>2. BitsOf(bytes', Firsts') = BitsOf(bytes, Firsts)
  BY <1>1, NothingRecorded
<1>3. CASE Out!CopyAbort
  <2>1. Pending' = Pending
    BY <1>1, <1>3 DEF Pending, Out!CopyAbort
  <2> QED
    BY <1>2, <2>1, OperationBitsIs
<1>4. CASE Out!CopyEnd
  <2>1. run.i = run.len /\ phase' = "idle"
    BY <1>4 DEF Out!CopyEnd
  <2>2. run.len \in Nat \ {0}
    BY <1>1, LengthsPositive DEF IInv, Out!IInv, Out!RunValid
  <2>3. Pending = 0 /\ Pending' = 0
    BY <2>1, <2>2 DEF Pending
  <2> QED
    BY <1>2, <2>3, OperationBitsIs
<1> QED
  BY <1>3, <1>4

(* The bits accounted for are a number.                                    *)
LEMMA OperationBitsNatural == ASSUME IInv PROVE OperationBits \in Nat
<1>1. run.bit_size \in BitSizes \cup {0}
  BY DEF IInv, Out!IInv, Out!TypeOK
<1>2. Pending \in Nat
  BY <1>1 DEF Pending, BitSizes
<1> QED
  BY <1>2, OperationBitsIs, RecordedSizes

(* What a step reads, it charges: to the output, to the block, to the      *)
(* operation being decoded, or to nothing when it skips to a boundary.     *)
LEMMA BitsStep ==
  ASSUME IInv, [Next]_vars
  PROVE  BitsConserved'
<1> SUFFICES ASSUME NEW o \in Nat, o = OperationBits PROVE BitsConserved'
  BY OperationBitsNatural
<1>0. /\ consumed = o + closed + block_account + account + misaligned
      /\ consumed \in Nat /\ closed \in Nat /\ block_account \in Nat
      /\ account \in Nat /\ misaligned \in Nat
  BY DEF IInv, BitsConserved, TypeOK
<1>a. /\ CodeBits \subseteq Nat /\ TableBits \subseteq Nat
      /\ \A symbol \in Symbols : LengthExtraBits(symbol) \in Nat
      /\ \A symbol \in DistanceSymbols : DistanceExtraBits(symbol) \in Nat
  BY InputAssumption, ExtraBitsBounded
<1>b. ASSUME OperationBits' = o,
             consumed' = o + closed' + block_account' + account' + misaligned'
      PROVE  BitsConserved'
  BY <1>b DEF BitsConserved
<1>c. ASSUME UNCHANGED tracker PROVE OperationBits' = o
  BY <1>c, QuietStep
<1>1. ASSUME NEW last \in {0, 1}, NEW method \in Methods,
             OpenBlock(last, method)
      PROVE  BitsConserved'
  <2>1. /\ UNCHANGED <<tracker, account, closed, misaligned>>
        /\ consumed' = consumed + 3 /\ block_account' = 3
    BY <1>1 DEF OpenBlock, Consume
  <2>2. block_account = 0
    BY <1>1 DEF IInv, AccountsValid, BetweenBlocks, OpenBlock
  <2> QED
    BY <1>0, <1>b, <1>c, <2>1, <2>2
<1>2. ASSUME NEW len \in RawLengths, NEW confirmed \in BOOLEAN,
             RawHeader(len, confirmed)
      PROVE  BitsConserved'
  <2>1. UNCHANGED <<tracker, account, closed>>
    BY <1>2 DEF RawHeader
  <2>2. PICK off : off = consumed % 8
    OBVIOUS
  <2>3. off \in 0..7
    BY <1>0, <2>2
  <2>4. /\ consumed' = consumed + ((IF off = 0 THEN 0 ELSE 8 - off) + 16 + 16)
        /\ block_account' =
             block_account + (IF off = 0 THEN 0 ELSE 7 - off) + 16 + 16
        /\ misaligned' = IF off = 0 THEN misaligned ELSE misaligned + 1
    BY <1>2, <2>2 DEF RawHeader, Consume
  <2>5. consumed' = o + closed' + block_account' + account' + misaligned'
    BY <1>0, <2>1, <2>3, <2>4
  <2> QED
    BY <1>b, <1>c, <2>1, <2>5
<1>3. ASSUME NEW value \in Byte, NEW bits \in Nat, Out!Add(value, bits),
             bits \in BitSizes, consumed' = consumed + bits,
             UNCHANGED <<accounts, misaligned>>
      PROVE  BitsConserved'
  <2>1. OperationBits' = o + bits
    BY <1>3, AddBits
  <2>2. UNCHANGED <<closed, block_account, account, misaligned>>
    BY <1>3 DEF accounts
  <2>3. consumed' = (o + bits) + closed' + block_account' + account' + misaligned'
    BY <1>0, <1>3, <2>2
  <2> QED
    BY <2>1, <2>3 DEF BitsConserved
<1>4. CASE \E value \in Byte : RawByte(value)
  BY <1>3, <1>4, CodeBitsInRange DEF RawByte, Consume
<1>5. CASE \E symbol \in Literals, bits \in CodeBits : Literal(symbol, bits)
  BY <1>a, <1>3, <1>5, CodeBitsInRange DEF Literal, Consume, Byte
<1>6. CASE RawByteMissing \/ RawEnd \/ StaticTrees \/ Unwind
  BY <1>0, <1>b, <1>c, <1>6
     DEF RawByteMissing, RawEnd, StaticTrees, Unwind, accounts
<1>7. ASSUME NEW bits \in Nat, UNCHANGED <<tracker, account, closed, misaligned>>,
             consumed' = consumed + bits, block_account' = block_account + bits
      PROVE  BitsConserved'
  BY <1>0, <1>b, <1>c, <1>7
<1>8. CASE \/ \E bits \in TableBits, accepted \in BOOLEAN :
                DynamicTrees(bits, accepted)
           \/ \E bits \in CodeBits : EndOfBlock(bits)
  BY <1>a, <1>7, <1>8 DEF DynamicTrees, EndOfBlock, Consume
<1>9. CASE CloseBlock
  <2>1. /\ UNCHANGED <<tracker, account, consumed, misaligned>>
        /\ closed' = closed + block_account /\ block_account' = 0
    BY <1>9 DEF CloseBlock
  <2> QED
    BY <1>0, <1>b, <1>c, <2>1
<1>10. ASSUME NEW symbol \in Symbols, NEW bits \in CodeBits,
              Length(symbol, bits)
       PROVE  BitsConserved'
  <2>1. PICK spent \in Nat : consumed' = consumed + spent /\ account' = spent
    BY <1>a, <1>10 DEF Length, Consume
  <2>2. UNCHANGED <<tracker, block_account, closed, misaligned>>
    BY <1>10 DEF Length
  <2>3. account = 0
    BY <1>10 DEF IInv, AccountsValid, Length
  <2> QED
    BY <1>0, <1>b, <1>c, <2>1, <2>2, <2>3
<1>11. ASSUME NEW symbol \in DistSymbols, NEW bits \in CodeBits,
              Distance(symbol, bits)
       PROVE  BitsConserved'
  <2>1. PICK spent : spent = bits + DistanceExtraBits(symbol)
    OBVIOUS
  <2>2. spent \in Nat
    BY <1>a, <1>11, <2>1 DEF Distance
  <2>3. /\ consumed' = consumed + spent /\ account' = 0
        /\ UNCHANGED <<block_account, closed, misaligned>>
    BY <1>11, <2>1 DEF Distance, Consume
  <2>4. OperationBits' = o + (account + spent)
    <3>1. PICK dist : Out!CopyStart(dist, length, account + spent)
      BY <1>11, <2>1 DEF Distance
    <3>2. account + spent \in Nat
      BY <1>0, <2>2
    <3> QED
      BY <3>1, <3>2, CopyStartBits
  <2>5. consumed' = (o + (account + spent)) + closed' + block_account' + account'
                      + misaligned'
    BY <1>0, <2>2, <2>3
  <2> QED
    BY <2>4, <2>5 DEF BitsConserved
<1>12. ASSUME NEW symbol \in DistSymbols, NEW bits \in CodeBits,
              BadDistance(symbol, bits)
       PROVE  BitsConserved'
  <2>1. /\ UNCHANGED <<tracker, block_account, closed, misaligned>>
        /\ consumed' = consumed + bits /\ account' = account + bits
        /\ bits \in Nat
    BY <1>a, <1>12 DEF BadDistance, Consume
  <2> QED
    BY <1>0, <1>b, <1>c, <2>1
<1>13. CASE Copy
  <2>1. OperationBits' = o
    BY <1>13, CopyByteBits, CopyEndBits DEF Copy, Out!CopyNext
  <2> QED
    BY <1>0, <1>b, <1>13, <2>1 DEF Copy, accounts
<1>14. CASE UNCHANGED vars
  <2>1. UNCHANGED <<tracker, closed, block_account, account, misaligned, consumed>>
    BY <1>14 DEF vars, accounts
  <2> QED
    BY <1>0, <1>b, <1>c, <2>1
<1> QED
  BY <1>1, <1>2, <1>4, <1>5, <1>6, <1>8, <1>9, <1>10, <1>11, <1>12, <1>13, <1>14
     DEF Next, BlockNext, SymbolNext

-----------------------------------------------------------------------------
(* IInv is inductive, and the safety invariants follow.                    *)

(* The invariant holds before the first block,                             *)
LEMMA InitEstablishes == Init => IInv
<1> SUFFICES ASSUME Init PROVE IInv
  OBVIOUS
<1>1. OutP!Init
  BY DEF Init, Out!Init, OutP!Init, Out!NoRun, OutP!NoRun
<1>2. Out!IInv
  BY <1>1, Assumed, OutP!InitEstablishes, SameInvariant
<1>3. TypeOK
  BY <1>2 DEF Init, TypeOK, Out!IInv
<1>4. PhaseValid /\ AccountsValid
  BY DEF Init, Out!Init, PhaseValid, AccountsValid, BetweenBlocks
<1>5. BlocksValid
  BY DEF Init, BlocksValid, BetweenBlocks
<1>6. BitsConserved
  <2>1. Firsts = {}
    BY DEF Init, Out!Init, Firsts
  <2>2. BitsOf(bytes, {}) = 0
    BY BitsOfUnfolds, FS_EmptySet
  <2>3. Pending = 0
    BY DEF Init, Out!Init, Pending
  <2>4. OperationBits = 0
    BY <2>1, <2>2, <2>3, OperationBitsIs
  <2> QED
    BY <2>4 DEF Init, BitsConserved
<1> QED
  BY <1>2, <1>3, <1>4, <1>5, <1>6 DEF IInv

(* and after every step.                                                   *)
LEMMA StepPreserves == IInv /\ [Next]_vars => IInv'
BY TrackerStep, ControlStep, BitsStep DEF IInv

(* The inductive invariant holds in every reachable state of deflate(), on *)
(* every input (zip_inl.hh:53-103, 186-219).                               *)
THEOREM Invariance == Spec => []IInv
BY InitEstablishes, StepPreserves, PTL DEF Spec

(* Every variable keeps its type: a run length is one that a symbol stands *)
(* for, no account is ever negative.                                       *)
THEOREM TypeCorrect == Spec => []TypeOK
<1>1. IInv => TypeOK
  BY DEF IInv
<1> QED
  BY <1>1, Invariance, PTL

(* Every bit that was read is charged to exactly one block or operation,   *)
(* whatever the blocks and however long the output, but for one bit at     *)
(* each skip to a boundary (zip_inl.hh:53-103, 197-219).                   *)
THEOREM BitsAreConserved == Spec => []BitsConserved
<1>1. IInv => BitsConserved
  BY DEF IInv
<1> QED
  BY <1>1, Invariance, PTL

(* When deflate() returns, its last block was marked as the last, every    *)
(* account was closed and no operation is pending (zip_inl.hh:53-103).     *)
THEOREM ReturnIsComplete == Spec => []ReturnsComplete
<1>1. IInv => ReturnsComplete
  <2> SUFFICES ASSUME IInv, pc = "done" PROVE ReturnsComplete
    BY DEF ReturnsComplete
  <2>1. keep_going = "no" /\ Len(blocks) > 0 /\ left = 0
    BY DEF IInv, BlocksValid, TypeOK
  <2>2. account = 0 /\ block_account = 0
    BY DEF IInv, AccountsValid, BetweenBlocks
  <2>3. phase = "idle"
    BY DEF IInv, PhaseValid
  <2>4. closed >= 3 * Len(blocks)
    BY DEF IInv, BlocksValid, BetweenBlocks, TypeOK
  <2>5. \A k \in 0 .. cursor - 1 : bytes[k].copy <= copy_cur
    BY <2>3 DEF IInv, Out!IInv, Out!CopyIdsUnique
  <2> QED
    BY <2>1, <2>2, <2>3, <2>4, <2>5 DEF ReturnsComplete
<1> QED
  BY <1>1, Invariance, PTL

(* An error found in the input never leaves deflate() as an exception: by  *)
(* then the block's account holds its header, and the destructor asserts   *)
(* (zip_inl.hh:53-103).                                                    *)
THEOREM NoErrorReachesCaller == Spec => []ErrorsNeverReachCaller
<1>1. Init => ErrorsNeverReachCaller
  BY DEF Init, ErrorsNeverReachCaller
<1>2. IInv /\ ErrorsNeverReachCaller /\ [Next]_vars => ErrorsNeverReachCaller'
  <2> SUFFICES ASSUME IInv, ErrorsNeverReachCaller, [Next]_vars, pc' = "threw"
               PROVE  FALSE
    BY DEF ErrorsNeverReachCaller
  <2>1. CASE Unwind
    <3>1. block_account = 0 /\ pc = "throw"
      BY <2>1 DEF Unwind
    <3> QED
      BY <3>1 DEF IInv, AccountsValid, BetweenBlocks
  <2>2. CASE Copy
    <3>1. phase' = "copying" \/ phase' = "idle" \/ phase' = "aborted"
      BY TrackerStep DEF Out!IInv, Out!TypeOK
    <3> QED
      BY <2>2, <3>1 DEF Copy
  <2>3. CASE BlockNext /\ ~Unwind
    BY <2>3 DEF BlockNext, Methods, OpenBlock, RawHeader, RawByte,
                RawByteMissing,
                RawEnd, StaticTrees, DynamicTrees, CloseBlock,
                ErrorsNeverReachCaller
  <2>4. CASE SymbolNext /\ ~Copy
    BY <2>4 DEF SymbolNext, Literal, EndOfBlock, Length, Distance, BadDistance,
                ErrorsNeverReachCaller
  <2>5. CASE UNCHANGED vars
    BY <2>5 DEF vars, ErrorsNeverReachCaller
  <2> QED
    BY <2>1, <2>2, <2>3, <2>4, <2>5 DEF Next
<1> QED
  BY <1>1, <1>2, Invariance, PTL DEF Spec

(* Across blocks of every kind the output is that of the windowless Lz77:  *)
(* each step of deflate() is one of OutputTracker's, whose refinement      *)
(* OutputTrackerProofs shows (zip_inl.hh:53-103, 197-208, 277-293).        *)
THEOREM DeflaterImplementsLz77 == Spec => ImplementsLz77
<1>1. OutP!Spec => OutP!ImplementsLz77
  BY Assumed, OutP!OutputTrackerImplementsLz77
<1>2. Init => OutP!Init
  BY DEF Init, Out!Init, OutP!Init, Out!NoRun, OutP!NoRun
<1>3. Spec => OutP!Spec
  BY <1>2, StepsOfTracker, Invariance, PTL DEF Spec, OutP!Spec
<1>4. OutP!ImplementsLz77 => ImplementsLz77
  BY PTL DEF OutP!ImplementsLz77, ImplementsLz77, Out!ImplementsLz77,
             OutP!Lz!Spec, Out!Lz!Spec, OutP!Lz!Init, Out!Lz!Init,
             OutP!Lz!Next, Out!Lz!Next, OutP!Lz!vars, Out!Lz!vars,
             OutP!Lz!Literal, Out!Lz!Literal, OutP!Lz!Match, Out!Lz!Match,
             OutP!Lz!BadMatch, Out!Lz!BadMatch, OutP!Output, Out!Output,
             OutP!Settled, Out!Settled
<1> QED
  BY <1>1, <1>3, <1>4, PTL
=============================================================================
