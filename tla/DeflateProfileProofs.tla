------------------------- MODULE DeflateProfileProofs -------------------------
(***************************************************************************)
(* Proofs about DeflateProfile, for outputs of every length and every way  *)
(* their bytes may have been copied: the inductive invariant IInv and the  *)
(* invariants that follow.                                                 *)
(***************************************************************************)
EXTENDS DeflateProfile, FiniteSetTheorems, TLAPS

-----------------------------------------------------------------------------
(* What is known of the output that flush handed over: every byte is a     *)
(* literal, or its source is an earlier byte of the same value.            *)
LEMMA StatsFacts ==
  ASSUME TypeOK
  PROVE  /\ inflated_size \in Nat
         /\ \A k \in Indices :
              /\ byte_stats[k].value \in Byte
              /\ byte_stats[k].source \in Indices
              /\ k \notin Literals =>
                   /\ byte_stats[k].source < k
                   /\ byte_stats[byte_stats[k].source].value = byte_stats[k].value
              /\ k \in Literals <=> byte_stats[k].source = k
<1>1. inflated_size \in Nat
  BY SizeAssumption DEF TypeOK
<1>2. byte_stats \in StatsOf(inflated_size)
  BY DEF TypeOK
<1> QED
  BY <1>1, <1>2 DEF StatsOf, Literals, LiteralsOf, Indices

(* An array is not the null pointer.                                       *)
LEMMA ArraysAreNotNull ==
  ASSUME TypeOK
  PROVE  \A f \in [Indices -> Nat \cup Byte] : f # Null
BY NullAssumption DEF TypeOK, Indices

(* The indices of an output are finitely many.                             *)
LEMMA IndicesAreFinite ==
  ASSUME TypeOK
  PROVE  IsFiniteSet(Indices)
BY StatsFacts, FS_Interval DEF Indices

(* The output itself never changes.                                        *)
LEMMA GivenKept ==
  ASSUME UNCHANGED given
  PROVE  /\ Indices' = Indices /\ Literals' = Literals
         /\ UNCHANGED <<inflated_size, byte_stats, literal_count>>
BY DEF given, Indices, Literals

(* The counts and answers read only the output and the array of origins.   *)
LEMMA CountsKept ==
  ASSUME UNCHANGED <<given, origins>>
  PROVE  /\ \A o, done : Counted(o, done)' = Counted(o, done)
         /\ \A o : Descendants(o)' = Descendants(o)
BY GivenKept DEF Counted, Descendants

(* Counting is over the whole output when the loop is.                     *)
LEMMA CountedAll ==
  ASSUME TypeOK, NEW o
  PROVE  Counted(o, inflated_size) = Descendants(o)
<1>1. \A k \in Indices : k < inflated_size
  BY StatsFacts DEF Indices
<1> QED
  BY <1>1 DEF Counted, Descendants

-----------------------------------------------------------------------------
(* The parts of IInv that a step leaves alone when it does not touch the   *)
(* arrays: they stay, whatever the call goes on with.                      *)
LEMMA ArraysKept ==
  ASSUME IInv, UNCHANGED <<given, arrays>>,
         HasOrigins <=> HasOrigins', OriginsPending <=> OriginsPending',
         OriginsDone' = OriginsDone, WeightsDone' = WeightsDone,
         UNCHANGED answer
  PROVE  OriginsValid' /\ WeightsValid' /\ AnswerValid'
<1>1. /\ UNCHANGED <<origins, literal_weights, contents>>
      /\ Indices' = Indices /\ Literals' = Literals
      /\ UNCHANGED <<inflated_size, byte_stats, literal_count>>
  BY GivenKept DEF arrays
<1>2. OriginsValid'
  BY <1>1 DEF IInv, OriginsValid, OriginValid
<1>3. WeightsValid'
  BY <1>1, CountsKept DEF IInv, WeightsValid
<1>4. AnswerValid'
  BY <1>1, CountsKept DEF IInv, AnswerValid
<1> QED
  BY <1>2, <1>3, <1>4

(* IInv holds of a new profile.                                            *)
LEMMA InitEstablishes == Init => IInv
<1>1. Init => inflated_size \in Nat
  BY SizeAssumption DEF Init
<1>2. LiteralsOf(inflated_size, byte_stats) \subseteq 0 .. inflated_size - 1
  BY DEF LiteralsOf
<1>3. Init => literal_count \in Nat
  <2> SUFFICES ASSUME Init PROVE literal_count \in Nat
    OBVIOUS
  <2>1. IsFiniteSet(0 .. inflated_size - 1)
    BY <1>1, FS_Interval
  <2>2. IsFiniteSet(LiteralsOf(inflated_size, byte_stats))
    BY <1>2, <2>1, FS_Subset
  <2> QED
    BY <2>2, FS_CardinalityType DEF Init
<1>4. Init => TypeOK
  BY <1>3 DEF Init, TypeOK, NoAnswer
<1>5. Init => CallValid
  BY DEF Init, CallValid, FollowingCopies
<1>6. Init => OriginsValid /\ WeightsValid /\ AnswerValid
  BY DEF Init, OriginsValid, WeightsValid, AnswerValid
<1> QED
  BY <1>4, <1>5, <1>6 DEF IInv

(* A question is asked.                                                    *)
LEMMA AskPreserves ==
  ASSUME IInv, \/ \E n \in 0 .. MaxSize - 1 : AskWeight(n)
               \/ AskContents
  PROVE  IInv'
<1>1. /\ call = "idle" /\ call' \in {"literal_weight", "contents"}
      /\ UNCHANGED <<given, arrays, i, answer>>
      /\ call' = "literal_weight" => index' \in Indices
  BY DEF AskWeight, AskContents
<1>2. /\ UNCHANGED <<origins, literal_weights, contents>>
      /\ Indices' = Indices
      /\ UNCHANGED <<inflated_size, byte_stats, literal_count>>
  BY <1>1, GivenKept DEF arrays
<1>3. TypeOK'
  BY <1>1, <1>2 DEF IInv, TypeOK
<1>4. /\ HasOrigins <=> HasOrigins'
      /\ OriginsPending <=> OriginsPending'
      /\ OriginsDone' = OriginsDone /\ WeightsDone' = WeightsDone
  BY <1>1, <1>2 DEF HasOrigins, FollowingCopies, OriginsPending, OriginsDone, WeightsDone
<1>5. CallValid'
  BY <1>1, <1>2, <1>4 DEF IInv, CallValid, FollowingCopies
<1> QED
  BY <1>1, <1>3, <1>4, <1>5, ArraysKept DEF IInv

(* literal_weights() begins: nothing is counted yet.                       *)
LEMMA WeightsStartPreserves ==
  ASSUME IInv, WeightsStart
  PROVE  IInv'
<1>1. /\ call = "literal_weight" /\ literal_weights = Null
      /\ literal_weights' = Zeros /\ call' = "origins"
      /\ UNCHANGED <<given, origins, contents, index, i, answer>>
  BY DEF WeightsStart
<1>2. /\ Indices' = Indices /\ Literals' = Literals
      /\ UNCHANGED <<inflated_size, byte_stats, literal_count>>
      /\ TypeOK /\ inflated_size \in Nat
  BY <1>1, GivenKept, StatsFacts DEF IInv
<1>3. answer = NoAnswer
  BY <1>1 DEF IInv, CallValid
<1>4. Zeros \in [Indices -> Nat] /\ \A o \in Indices : Zeros[o] = 0
  BY DEF Zeros
<1>5. TypeOK'
  BY <1>1, <1>2, <1>4 DEF TypeOK
<1>6. literal_weights' # Null
  <2>1. Zeros \in [Indices -> Nat \cup Byte]
    BY DEF Zeros
  <2> QED
    BY <1>1, <1>2, <2>1, ArraysAreNotNull
<1>7. CallValid'
  BY <1>1, <1>2, <1>3, <1>6 DEF CallValid, FollowingCopies
<1>8. OriginsValid' /\ AnswerValid'
  <2>1. OriginsDone' = inflated_size /\ OriginsDone = inflated_size
    BY <1>1, <1>2 DEF OriginsDone, FollowingCopies
  <2> QED
    BY <1>1, <1>2, <1>3, <2>1 DEF IInv, OriginsValid, OriginValid, AnswerValid
<1>9. WeightsValid'
  BY <1>1, <1>2, <1>4 DEF WeightsValid, OriginsPending
<1> QED
  BY <1>5, <1>7, <1>8, <1>9 DEF IInv

(* The loop of origins() begins.                                           *)
LEMMA OriginsStartPreserves ==
  ASSUME IInv, OriginsStart
  PROVE  IInv'
<1>1. /\ origins = Null /\ origins' = Zeros /\ i' = 0
      /\ \/ call = "origins" /\ call' = "origins_loop"
         \/ call = "literal_weight" /\ call' = "index_loop"
      /\ UNCHANGED <<given, literal_weights, contents, index, answer>>
  BY DEF OriginsStart
<1>2. /\ Indices' = Indices /\ Literals' = Literals
      /\ UNCHANGED <<inflated_size, byte_stats, literal_count>>
      /\ TypeOK /\ inflated_size \in Nat
  BY <1>1, GivenKept, StatsFacts DEF IInv
<1>3. /\ call = "origins" <=> literal_weights # Null
      /\ answer = NoAnswer
  BY <1>1 DEF IInv, CallValid
<1>4. Zeros \in [Indices -> Indices]
  BY <1>2 DEF Zeros, Indices
<1>5. TypeOK'
  BY <1>1, <1>2, <1>4 DEF TypeOK
<1>6. origins' # Null
  <2>1. Zeros \in [Indices -> Nat \cup Byte]
    BY DEF Zeros
  <2> QED
    BY <1>1, <1>2, <2>1, ArraysAreNotNull
<1>7. CallValid'
  BY <1>1, <1>2, <1>3, <1>6 DEF CallValid, FollowingCopies
<1>8. OriginsValid'
  <2>1. \A k \in Indices : ~(k < 0)
    BY <1>2 DEF Indices
  <2> QED
    BY <1>1, <1>2, <2>1 DEF OriginsValid, OriginsDone, FollowingCopies
<1>9. WeightsValid'
  BY <1>1, <1>2, <1>3 DEF IInv, WeightsValid, OriginsPending
<1>10. AnswerValid'
  BY <1>1, <1>3 DEF AnswerValid
<1> QED
  BY <1>5, <1>7, <1>8, <1>9, <1>10 DEF IInv

(* Assigning an element of an array.                                       *)
LEMMA Assigned ==
  ASSUME NEW S, NEW T, NEW f \in [S -> T], NEW x \in S, NEW v \in T,
         NEW g, g = [f EXCEPT ![x] = v]
  PROVE  /\ g \in [S -> T]
         /\ g[x] = v
         /\ \A k \in S : k # x => g[k] = f[k]
OBVIOUS

(* One byte more is followed to its literal: its source is an earlier one, *)
(* whose origin the loop has found.                                        *)
LEMMA OriginsStepPreserves ==
  ASSUME IInv, OriginsStep
  PROVE  IInv'
<1> DEFINE source == byte_stats[i].source
           v == IF source = i THEN i ELSE origins[source]
<1>1. /\ FollowingCopies /\ FollowingCopies' /\ call' = call
      /\ i < inflated_size /\ i' = i + 1
      /\ origins' = [origins EXCEPT ![i] = v]
      /\ UNCHANGED <<given, literal_weights, contents, index, answer>>
  BY DEF OriginsStep, FollowingCopies
<1>2. /\ Indices' = Indices /\ Literals' = Literals
      /\ UNCHANGED <<inflated_size, byte_stats, literal_count>>
      /\ TypeOK /\ inflated_size \in Nat /\ i \in Nat /\ i \in Indices
  <2>1. TypeOK /\ inflated_size \in Nat /\ i \in Nat
    BY StatsFacts DEF IInv, TypeOK
  <2> QED
    BY <1>1, <2>1, GivenKept DEF Indices
<1>3. /\ origins # Null /\ answer = NoAnswer
      /\ origins \in [Indices -> Indices]
  BY <1>1 DEF IInv, TypeOK, CallValid
<1>4. /\ source \in Indices
      /\ i \in Literals <=> source = i
      /\ i \notin Literals =>
           source < i /\ byte_stats[source].value = byte_stats[i].value
  BY <1>2, StatsFacts
<1>5. /\ origins' \in [Indices -> Indices]
      /\ origins'[i] = v
      /\ \A k \in Indices : k # i => origins'[k] = origins[k]
  <2>1. v \in Indices
    BY <1>2, <1>3, <1>4
  <2> HIDE DEF v
  <2> QED
    BY <1>1, <1>2, <1>3, <2>1, Assigned
<1>6. TypeOK'
  BY <1>1, <1>2, <1>3, <1>5 DEF TypeOK
<1>7. origins' # Null
  BY <1>2, <1>5, ArraysAreNotNull DEF Indices
<1>8. CallValid'
  BY <1>1, <1>2, <1>3, <1>7 DEF IInv, CallValid, FollowingCopies
<1>9. \A k \in Indices : k < i => OriginValid(k)
  BY <1>1, <1>3 DEF IInv, OriginsValid, OriginsDone
<1> HIDE DEF v, source
<1>10. ASSUME NEW k \in Indices, k < i + 1
       PROVE  OriginValid(k)'
  <2> DEFINE from == byte_stats[k].source
  <2>1. SUFFICES /\ origins'[k] \in Literals
                 /\ origins'[k] = IF k \in Literals THEN k ELSE origins'[from]
                 /\ byte_stats[origins'[k]].value = byte_stats[k].value
    BY <1>2 DEF OriginValid
  <2>2. from \in Indices /\ (k \notin Literals => from < k)
    BY <1>2, StatsFacts
  <2>3. i \in Int /\ k \in Int /\ from \in Int
    BY <1>2, <2>2 DEF Indices
  <2> HIDE DEF from
  <2>4. CASE k < i
    <3>1. k # i /\ (k \notin Literals => from # i)
      BY <2>2, <2>3, <2>4
    <3>2. origins'[k] = origins[k] /\ (k \notin Literals => origins'[from] = origins[from])
      BY <1>5, <2>2, <3>1
    <3>3. OriginValid(k)
      BY <1>9, <2>4
    <3> QED
      BY <3>2, <3>3 DEF OriginValid, from
  <2>5. CASE k = i /\ i \in Literals
    <3>1. origins'[i] = i
      BY <1>4, <1>5, <2>5 DEF v
    <3> QED
      BY <2>5, <3>1
  <2>6. CASE k = i /\ i \notin Literals
    <3>1. source < i /\ source # i /\ from = source
      BY <1>4, <2>6 DEF from, source
    <3>2. OriginValid(source)
      BY <1>4, <1>9, <3>1
    <3>3. origins'[i] = origins[source] /\ origins'[source] = origins[source]
      BY <1>4, <1>5, <3>1 DEF v
    <3>4. /\ origins[source] \in Literals
          /\ byte_stats[origins[source]].value = byte_stats[source].value
      BY <3>2 DEF OriginValid
    <3> QED
      BY <1>4, <2>6, <3>1, <3>3, <3>4
  <2> QED
    <3>1. k < i \/ k = i
      BY <1>10, <2>3
    <3> QED
      BY <2>4, <2>5, <2>6, <3>1
<1>11. OriginsValid'
  BY <1>1, <1>2, <1>10 DEF OriginsValid, OriginsDone
<1>12. WeightsValid'
  <2>1. literal_weights # Null => OriginsPending /\ OriginsPending'
    BY <1>1 DEF IInv, CallValid, FollowingCopies, OriginsPending
  <2> QED
    BY <1>1, <1>2, <2>1 DEF IInv, WeightsValid
<1>13. AnswerValid'
  BY <1>1, <1>3 DEF AnswerValid
<1> QED
  BY <1>6, <1>8, <1>11, <1>12, <1>13 DEF IInv

(* origins() returns: to literal_weights(), which begins to count, or to   *)
(* literal_weight, which goes on.                                          *)
LEMMA OriginsEndPreserves ==
  ASSUME IInv, OriginsEnd
  PROVE  IInv'
<1>1. /\ FollowingCopies => i = inflated_size
      /\ \/ call \in {"origins", "origins_loop"} /\ call' = "weights_loop"
         \/ call = "index_loop" /\ call' = "literal_weight"
      /\ origins # Null /\ i' = 0
      /\ UNCHANGED <<given, arrays, index, answer>>
  BY DEF OriginsEnd, FollowingCopies, IInv, CallValid
<1>2. /\ UNCHANGED <<origins, literal_weights, contents>>
      /\ Indices' = Indices /\ Literals' = Literals
      /\ UNCHANGED <<inflated_size, byte_stats, literal_count>>
      /\ TypeOK /\ inflated_size \in Nat
  BY <1>1, GivenKept, StatsFacts DEF arrays, IInv
<1>3. /\ call = "index_loop" <=> literal_weights = Null
      /\ answer = NoAnswer
  BY <1>1 DEF IInv, CallValid, FollowingCopies
<1>4. TypeOK'
  BY <1>1, <1>2 DEF TypeOK
<1>5. CallValid'
  BY <1>1, <1>2, <1>3 DEF CallValid, FollowingCopies
<1>6. OriginsValid'
  <2>1. OriginsDone = inflated_size /\ OriginsDone' = inflated_size
    BY <1>1, <1>2 DEF OriginsDone, FollowingCopies
  <2> QED
    BY <1>1, <1>2, <2>1 DEF IInv, OriginsValid, OriginValid
<1>7. WeightsValid'
  <2>1. CASE literal_weights = Null
    BY <1>2, <2>1 DEF WeightsValid
  <2>2. CASE literal_weights # Null
    <3>1. \A o \in Indices : literal_weights[o] = 0
      BY <1>1, <1>3, <2>2 DEF IInv, WeightsValid, OriginsPending
    <3>2. WeightsDone' = 0 /\ ~OriginsPending'
      BY <1>1, <1>3, <2>2 DEF WeightsDone, OriginsPending
    <3>3. ASSUME NEW o \in Indices
          PROVE  Counted(o, WeightsDone)' = {}
      BY <1>1, <1>2, <3>2 DEF Counted, Indices
    <3> QED
      BY <1>2, <3>1, <3>2, <3>3, FS_EmptySet DEF WeightsValid
  <2> QED
    BY <2>1, <2>2
<1>8. AnswerValid'
  BY <1>1, <1>3 DEF AnswerValid
<1> QED
  BY <1>4, <1>5, <1>6, <1>7, <1>8 DEF IInv

(* One byte more counts for its origin.                                    *)
LEMMA WeightsStepPreserves ==
  ASSUME IInv, WeightsStep
  PROVE  IInv'
<1>1. /\ call = "weights_loop" /\ call' = "weights_loop"
      /\ i < inflated_size /\ i' = i + 1
      /\ literal_weights' = [literal_weights EXCEPT ![origins[i]] = @ + 1]
      /\ UNCHANGED <<given, origins, contents, index, answer>>
  BY DEF WeightsStep
<1>2. /\ Indices' = Indices /\ Literals' = Literals
      /\ UNCHANGED <<inflated_size, byte_stats, literal_count>>
      /\ TypeOK /\ inflated_size \in Nat /\ i \in Nat /\ i \in Indices
  <2>1. TypeOK /\ inflated_size \in Nat /\ i \in Nat
    BY StatsFacts DEF IInv, TypeOK
  <2> QED
    BY <1>1, <2>1, GivenKept DEF Indices
<1>3. /\ literal_weights # Null /\ origins # Null
      /\ literal_weights \in [Indices -> Nat] /\ origins \in [Indices -> Indices]
      /\ answer = NoAnswer
  BY <1>1 DEF IInv, TypeOK, CallValid
<1>4. /\ literal_weights' \in [Indices -> Nat]
      /\ \A o \in Indices : literal_weights'[o] =
           IF o = origins[i] THEN literal_weights[o] + 1 ELSE literal_weights[o]
  <2> DEFINE origin == origins[i]
             weight == literal_weights[origin] + 1
  <2>1. origin \in Indices
    BY <1>2, <1>3
  <2>2. weight \in Nat /\ literal_weights' = [literal_weights EXCEPT ![origin] = weight]
    BY <1>1, <1>3, <2>1
  <2> HIDE DEF weight
  <2>3. /\ literal_weights' \in [Indices -> Nat] /\ literal_weights'[origin] = weight
        /\ \A o \in Indices : o # origin => literal_weights'[o] = literal_weights[o]
    BY <1>3, <2>1, <2>2, Assigned
  <2> QED
    BY <2>3 DEF weight
<1>5. TypeOK'
  BY <1>1, <1>2, <1>3, <1>4 DEF TypeOK
<1>6. CallValid'
  <2>1. literal_weights' # Null
    BY <1>2, <1>4, ArraysAreNotNull
  <2> QED
    BY <1>1, <1>2, <1>3, <2>1 DEF CallValid, FollowingCopies
<1>7. OriginsValid'
  BY <1>1, <1>2 DEF IInv, OriginsValid, OriginsDone, OriginValid, FollowingCopies
<1>8. ASSUME NEW o \in Indices
      PROVE  literal_weights'[o] = Cardinality(Counted(o, i + 1))
  <2>1. literal_weights[o] = Cardinality(Counted(o, i))
    BY <1>1, <1>3 DEF IInv, WeightsValid, WeightsDone, OriginsPending
  <2>2. IsFiniteSet(Counted(o, i)) /\ i \notin Counted(o, i)
    <3>1. Counted(o, i) \subseteq Indices
      BY DEF Counted
    <3> QED
      BY <1>2, <3>1, IndicesAreFinite, FS_Subset DEF Counted
  <2>3. \A k \in Indices : k < i + 1 <=> k < i \/ k = i
    BY <1>2 DEF Indices
  <2>4. CASE o = origins[i]
    <3>1. Counted(o, i + 1) = Counted(o, i) \cup {i}
      BY <1>2, <2>3, <2>4 DEF Counted
    <3>2. Cardinality(Counted(o, i) \cup {i}) = Cardinality(Counted(o, i)) + 1
      BY <2>2, FS_AddElement
    <3> QED
      BY <1>4, <2>1, <2>4, <3>1, <3>2
  <2>5. CASE o # origins[i]
    <3>1. Counted(o, i + 1) = Counted(o, i)
      BY <2>3, <2>5 DEF Counted
    <3> QED
      BY <1>4, <2>1, <2>5, <3>1
  <2> QED
    BY <2>4, <2>5
<1>9. WeightsValid'
  <2>1. WeightsDone' = i + 1 /\ ~OriginsPending'
    BY <1>1 DEF WeightsDone, OriginsPending
  <2>2. (\A o \in Indices : literal_weights[o] = Cardinality(Counted(o, WeightsDone)))'
    <3> SUFFICES ASSUME NEW o \in Indices
                 PROVE  literal_weights'[o] = Cardinality(Counted(o, WeightsDone)')
      BY <1>2
    <3>1. Counted(o, WeightsDone)' = Counted(o, i + 1)
      BY <1>1, <1>2, <2>1 DEF Counted
    <3> QED
      BY <1>8, <3>1
  <2> QED
    BY <2>1, <2>2 DEF WeightsValid
<1>10. AnswerValid'
  BY <1>1, <1>3 DEF AnswerValid
<1> QED
  BY <1>5, <1>6, <1>7, <1>9, <1>10 DEF IInv

(* The loop of literal_weights() has counted the whole output.             *)
LEMMA WeightsEndPreserves ==
  ASSUME IInv, WeightsEnd
  PROVE  IInv'
<1>1. /\ call = "weights_loop" /\ i = inflated_size
      /\ call' = "literal_weight"
      /\ UNCHANGED <<given, arrays, index, i, answer>>
  BY DEF WeightsEnd
<1>2. /\ UNCHANGED <<origins, literal_weights, contents>>
      /\ Indices' = Indices
      /\ UNCHANGED <<inflated_size, byte_stats, literal_count>>
  BY <1>1, GivenKept DEF arrays
<1>3. TypeOK'
  BY <1>1, <1>2 DEF IInv, TypeOK
<1>4. /\ HasOrigins <=> HasOrigins'
      /\ OriginsPending <=> OriginsPending'
      /\ OriginsDone' = OriginsDone /\ WeightsDone' = WeightsDone
  BY <1>1, <1>2 DEF HasOrigins, FollowingCopies, OriginsPending, OriginsDone, WeightsDone
<1>5. CallValid'
  BY <1>1, <1>2 DEF IInv, CallValid, FollowingCopies
<1> QED
  BY <1>1, <1>3, <1>4, <1>5, ArraysKept DEF IInv

(* The answer is the count for the byte's origin.                          *)
LEMMA AnswerWeightPreserves ==
  ASSUME IInv, AnswerWeight
  PROVE  IInv'
<1>1. /\ call = "literal_weight" /\ call' = "idle"
      /\ origins # Null /\ literal_weights # Null
      /\ answer' = [index |-> index, weight |-> literal_weights[origins[index]]]
      /\ UNCHANGED <<given, arrays, index, i>>
  BY DEF AnswerWeight
<1>2. /\ UNCHANGED <<origins, literal_weights, contents>>
      /\ Indices' = Indices /\ Literals' = Literals
      /\ UNCHANGED <<inflated_size, byte_stats, literal_count>>
      /\ TypeOK
  BY <1>1, GivenKept DEF arrays, IInv
<1>3. /\ index \in Indices /\ origins[index] \in Indices
      /\ literal_weights[origins[index]] \in Nat
  BY <1>1, <1>2 DEF TypeOK
<1>4. TypeOK'
  <2>1. answer' \in [index : Nat, weight : Nat \cup {-1}]
    BY <1>1, <1>3 DEF Indices
  <2> QED
    BY <1>1, <1>2, <2>1 DEF TypeOK
<1>5. /\ HasOrigins' /\ HasOrigins
      /\ OriginsPending <=> OriginsPending'
      /\ OriginsDone' = OriginsDone /\ WeightsDone' = WeightsDone
  BY <1>1, <1>2 DEF HasOrigins, FollowingCopies, OriginsPending, OriginsDone, WeightsDone
<1>6. CallValid'
  BY <1>1, <1>2, <1>5 DEF IInv, CallValid, FollowingCopies
<1>7. OriginsValid'
  BY <1>2, <1>5 DEF IInv, OriginsValid, OriginValid
<1>8. WeightsValid'
  BY <1>1, <1>2, <1>5, CountsKept DEF IInv, WeightsValid
<1>9. AnswerValid'
  <2>1. literal_weights[origins[index]]
          = Cardinality(Counted(origins[index], WeightsDone))
    BY <1>1, <1>3 DEF IInv, WeightsValid, OriginsPending
  <2>2. WeightsDone = inflated_size
    BY <1>1 DEF WeightsDone
  <2>3. Counted(origins[index], inflated_size) = Descendants(origins[index])
    BY <1>2, CountedAll
  <2>4. answer'.index = index /\ answer'.weight = Cardinality(Descendants(origins[index]))
    BY <1>1, <2>1, <2>2, <2>3
  <2>5. Descendants(origins[answer.index])' = Descendants(origins[index])
    BY <1>2, <2>4 DEF Descendants
  <2> QED
    BY <1>2, <1>3, <1>5, <2>4, <2>5 DEF AnswerValid
<1> QED
  BY <1>4, <1>6, <1>7, <1>8, <1>9 DEF IInv

(* contents() touches none of the other arrays.                            *)
LEMMA ContentsPreserves ==
  ASSUME IInv, ContentsStart \/ ContentsStep \/ AnswerContents
  PROVE  IInv'
<1>1. /\ call \in {"contents", "contents_loop"}
      /\ call' \in {"contents_loop", "idle"}
      /\ UNCHANGED <<given, origins, literal_weights, index, answer>>
  BY DEF ContentsStart, ContentsStep, AnswerContents, arrays
<1>2. /\ Indices' = Indices /\ Literals' = Literals
      /\ UNCHANGED <<inflated_size, byte_stats, literal_count>>
      /\ TypeOK /\ inflated_size \in Nat /\ i \in Nat
  BY <1>1, GivenKept, StatsFacts DEF IInv, TypeOK
<1>3. /\ contents' # Null => contents' \in [Indices -> Byte]
      /\ call' = "contents_loop" =>
           contents' # Null /\ i' <= inflated_size
      /\ i' \in Nat
  <2>1. CASE ContentsStart
    <3>1. contents' \in [Indices -> Byte] /\ call' = "contents_loop" /\ i' = 0
      BY <2>1 DEF ContentsStart
    <3>2. contents' \in [Indices -> Nat \cup Byte]
      BY <3>1
    <3>3. contents' # Null
      BY <1>2, <3>2, ArraysAreNotNull
    <3> QED
      BY <1>2, <3>1, <3>3
  <2>2. CASE ContentsStep
    <3>1. /\ contents \in [Indices -> Byte] /\ i < inflated_size /\ i' = i + 1
          /\ contents' = [contents EXCEPT ![i] = byte_stats[i].value]
      BY <2>2 DEF ContentsStep, IInv, TypeOK, CallValid
    <3>2. i \in Indices /\ byte_stats[i].value \in Byte
      BY <1>2, <3>1, StatsFacts DEF Indices
    <3>3. contents' \in [Indices -> Byte]
      BY <3>1, <3>2
    <3>4. contents' \in [Indices -> Nat \cup Byte]
      BY <3>3
    <3>5. contents' # Null
      BY <1>2, <3>4, ArraysAreNotNull
    <3> QED
      BY <1>2, <3>1, <3>3, <3>5
  <2>3. CASE AnswerContents
    BY <1>2, <2>3 DEF AnswerContents, arrays, TypeOK
  <2> QED
    BY <2>1, <2>2, <2>3
<1>4. TypeOK'
  BY <1>1, <1>2, <1>3 DEF TypeOK
<1>5. /\ HasOrigins <=> HasOrigins'
      /\ OriginsPending <=> OriginsPending'
      /\ OriginsDone' = OriginsDone /\ WeightsDone' = WeightsDone
  BY <1>1, <1>2 DEF HasOrigins, FollowingCopies, OriginsPending, OriginsDone, WeightsDone
<1>6. CallValid'
  BY <1>1, <1>2, <1>3, <1>5 DEF IInv, CallValid, FollowingCopies
<1>7. OriginsValid' /\ AnswerValid'
  BY <1>1, <1>2, <1>5, CountsKept DEF IInv, OriginsValid, OriginValid, AnswerValid
<1>8. WeightsValid'
  BY <1>1, <1>2, <1>5, CountsKept DEF IInv, WeightsValid
<1> QED
  BY <1>4, <1>6, <1>7, <1>8 DEF IInv

(* A step that changes nothing.                                            *)
LEMMA StutterPreserves ==
  ASSUME IInv, UNCHANGED vars
  PROVE  IInv'
<1>1. /\ UNCHANGED <<given, arrays, call, index, i, answer>>
      /\ UNCHANGED <<origins, literal_weights, contents>>
      /\ UNCHANGED <<inflated_size, byte_stats, literal_count>>
      /\ Indices' = Indices
  BY GivenKept DEF vars, arrays
<1>2. TypeOK'
  BY <1>1 DEF IInv, TypeOK
<1>3. /\ HasOrigins <=> HasOrigins'
      /\ OriginsPending <=> OriginsPending'
      /\ OriginsDone' = OriginsDone /\ WeightsDone' = WeightsDone
  BY <1>1 DEF HasOrigins, FollowingCopies, OriginsPending, OriginsDone, WeightsDone
<1>4. CallValid'
  BY <1>1, <1>3 DEF IInv, CallValid, FollowingCopies
<1> QED
  BY <1>1, <1>2, <1>3, <1>4, ArraysKept DEF IInv

(* Every step of a question preserves the inductive invariant.             *)
LEMMA StepPreserves ==
  ASSUME IInv, [Next]_vars
  PROVE  IInv'
<1>1. CASE (\E n \in 0 .. MaxSize - 1 : AskWeight(n)) \/ AskContents
  BY <1>1, AskPreserves
<1>2. CASE OriginsStart
  BY <1>2, OriginsStartPreserves
<1>3. CASE OriginsStep
  BY <1>3, OriginsStepPreserves
<1>4. CASE WeightsStart \/ OriginsEnd
  BY <1>4, WeightsStartPreserves, OriginsEndPreserves
<1>5. CASE WeightsStep
  BY <1>5, WeightsStepPreserves
<1>6. CASE WeightsEnd
  BY <1>6, WeightsEndPreserves
<1>7. CASE AnswerWeight
  BY <1>7, AnswerWeightPreserves
<1>8. CASE ContentsStart \/ ContentsStep \/ AnswerContents
  BY <1>8, ContentsPreserves
<1>9. CASE UNCHANGED vars
  BY <1>9, StutterPreserves
<1> QED
  BY <1>1, <1>2, <1>3, <1>4, <1>5, <1>6, <1>7, <1>8, <1>9 DEF Next, CallNext

(* The inductive invariant holds of every profile, whatever is asked of it *)
(* and in whatever order.                                                  *)
THEOREM Invariance == Spec => []IInv
<1>1. Init => IInv
  BY InitEstablishes
<1>2. IInv /\ [Next]_vars => IInv'
  BY StepPreserves
<1> QED
  BY <1>1, <1>2, PTL DEF Spec

(* The arrays and the answers always have their types.                     *)
THEOREM TypeCorrect == Spec => []TypeOK
<1>1. IInv => TypeOK
  BY DEF IInv
<1> QED
  BY <1>1, Invariance, PTL

(* origins() maps every byte to the literal at the end of its chain of     *)
(* copies, which has the same value (zipprof.cc:170-182).                  *)
THEOREM EveryOriginIsALiteral == Spec => []OriginsAreLiterals
<1>1. IInv => OriginsAreLiterals
  <2> SUFFICES ASSUME IInv, HasOrigins, NEW k \in Indices
               PROVE  OriginValid(k)
    BY DEF OriginsAreLiterals, OriginValid
  <2>1. inflated_size \in Nat
    BY StatsFacts DEF IInv
  <2>2. k < OriginsDone
    BY <2>1 DEF OriginsDone, HasOrigins, Indices
  <2> QED
    BY <2>2 DEF IInv, OriginsValid, HasOrigins
<1> QED
  BY <1>1, Invariance, PTL

(* literal_weights() gives every literal the number of bytes that come     *)
(* from it (zipprof.cc:184-193).                                           *)
THEOREM EveryWeightIsACount == Spec => []WeightsAreDescendants
<1>1. IInv => WeightsAreDescendants
  <2> SUFFICES ASSUME IInv, HasWeights, NEW o \in Indices
               PROVE  literal_weights[o] = Cardinality(Descendants(o))
    BY DEF WeightsAreDescendants
  <2>1. WeightsDone = inflated_size
    BY DEF WeightsDone, HasWeights
  <2>2. Counted(o, inflated_size) = Descendants(o)
    BY CountedAll DEF IInv
  <2>3. literal_weights[o] = Cardinality(Counted(o, WeightsDone))
    BY DEF IInv, WeightsValid, HasWeights, OriginsPending
  <2> QED
    BY <2>1, <2>2, <2>3
<1> QED
  BY <1>1, Invariance, PTL

(* literal_weight answers with the size of the class of bytes that share   *)
(* the origin of the one asked about (zipprof.h:50-53).                    *)
THEOREM EveryAnswerIsAClassSize == Spec => []AnswersAreClassSizes
<1>1. IInv => AnswersAreClassSizes
  BY DEF IInv, AnswerValid, AnswersAreClassSizes
<1> QED
  BY <1>1, Invariance, PTL

(* An array computed once stays, so a later answer agrees with an earlier. *)
THEOREM ComputedOnce == Spec => ArraysAreKept
<1>1. IInv /\ [Next]_vars =>
        [/\ HasOrigins => UNCHANGED origins
         /\ HasWeights => UNCHANGED literal_weights]_vars
  <2> SUFFICES ASSUME IInv, Next
               PROVE  /\ HasOrigins => UNCHANGED origins
                      /\ HasWeights => UNCHANGED literal_weights
    OBVIOUS
  <2>1. CASE OriginsStart \/ OriginsStep
    <3>1. ~HasOrigins /\ UNCHANGED literal_weights
      BY <2>1 DEF OriginsStart, OriginsStep, HasOrigins, FollowingCopies
    <3> QED
      BY <3>1
  <2>2. CASE WeightsStart \/ WeightsStep
    <3>1. ~HasWeights /\ UNCHANGED origins
      BY <2>2 DEF WeightsStart, WeightsStep, HasWeights
    <3> QED
      BY <3>1
  <2>3. CASE ~(OriginsStart \/ OriginsStep \/ WeightsStart \/ WeightsStep)
    BY <2>3 DEF Next, CallNext, AskWeight, AskContents, OriginsEnd,
                WeightsEnd, AnswerWeight, ContentsStart, ContentsStep, AnswerContents, arrays
  <2> QED
    BY <2>1, <2>2, <2>3
<1> QED
  BY <1>1, Invariance, PTL DEF Spec, ArraysAreKept
=============================================================================
