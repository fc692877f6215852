---------------------------- MODULE DeflateProfile ----------------------------
(***************************************************************************)
(* DeflateProfile and its Impl (zipprof.cc): what a profile answers about  *)
(* the bytes of a decompressed output, computed on the first question and  *)
(* kept.  origins() follows every byte to the literal it was copied from,  *)
(* literal_weights() counts the bytes that come from each literal,         *)
(* contents() collects the bytes.                                          *)
(*                                                                         *)
(* literal_weight(n) is literal_weights()[origins()[n]]; C++11 leaves open *)
(* which of the two is called first, so both orders are modelled.          *)
(* literal_weights allocates its array first and asks for the origins then.*)
(*                                                                         *)
(* A profile is made by ProfilingByteWriter::flush (io.cc) from ByteStats  *)
(* whose sources precede their copies: OutputTracker!SourcesPrecede.  A    *)
(* step here is an iteration of one of the loops.                          *)
(***************************************************************************)
EXTENDS Integers, FiniteSets

CONSTANTS
  Byte,         (* the values of a byte                                    *)
  MaxSize,      (* bound: the longest output considered                    *)
  Null          (* the begin() of an array not allocated yet               *)

ASSUME SizeAssumption == MaxSize \in Nat

ASSUME NullAssumption ==
  \A n \in 0..MaxSize : Null \notin [0 .. n - 1 -> Nat \cup Byte]

(* What flush hands over: for each byte its value and its source, itself   *)
(* for a literal, and otherwise an earlier byte of the same value.         *)
StatsOf(n) ==
  {s \in [0 .. n - 1 -> [source : 0 .. n - 1, value : Byte]] :
     \A k \in 0 .. n - 1 :
       \/ s[k].source = k
       \/ s[k].source < k /\ s[s[k].source].value = s[k].value}

LiteralsOf(n, s) == {k \in 0 .. n - 1 : s[k].source = k}

VARIABLES
  inflated_size, byte_stats, literal_count,   (* as flush gave them        *)
  origins,            (* origins_: Null, or the array                      *)
  literal_weights,    (* literal_weights_                                  *)
  contents,           (* contents_                                         *)
  call,               (* "idle", or what runs: "literal_weight",           *)
                      (* "origins" (called by literal_weights), "contents",*)
                      (* or a loop: "index_loop" is the one of origins()   *)
                      (* when literal_weight calls it for its index        *)
  index,              (* the argument of literal_weight                    *)
  i,                  (* the loop's index                                  *)
  answer              (* what the last literal_weight returned             *)

given == <<inflated_size, byte_stats, literal_count>>

arrays == <<origins, literal_weights, contents>>

vars == <<given, arrays, call, index, i, answer>>

Indices == 0 .. inflated_size - 1

NoAnswer == [index |-> 0, weight |-> -1]

-----------------------------------------------------------------------------
(* ProfilingByteWriter::flush.                                             *)
Init ==
  /\ inflated_size \in 0..MaxSize
  /\ byte_stats \in StatsOf(inflated_size)
  /\ literal_count = Cardinality(LiteralsOf(inflated_size, byte_stats))
  /\ origins = Null /\ literal_weights = Null /\ contents = Null
  /\ call = "idle" /\ index = 0 /\ i = 0
  /\ answer = NoAnswer

(* literal_weight(n), of which literal_contribution(n) is the reciprocal.  *)
AskWeight(n) ==
  /\ call = "idle" /\ n \in Indices
  /\ call' = "literal_weight" /\ index' = n
  /\ UNCHANGED <<given, arrays, i, answer>>

AskContents ==
  /\ call = "idle"
  /\ call' = "contents"
  /\ UNCHANGED <<given, arrays, index, i, answer>>

Zeros == [k \in Indices |-> 0]

(* literal_weights() allocates, and calls origins().                       *)
WeightsStart ==
  /\ call = "literal_weight" /\ literal_weights = Null
  /\ literal_weights' = Zeros
  /\ call' = "origins"
  /\ UNCHANGED <<given, origins, contents, index, i, answer>>

(* origins() allocates.                                                    *)
OriginsStart ==
  /\ call \in {"literal_weight", "origins"} /\ origins = Null
  /\ origins' = Zeros
  /\ call' = IF call = "origins" THEN "origins_loop" ELSE "index_loop"
  /\ i' = 0
  /\ UNCHANGED <<given, literal_weights, contents, index, answer>>

FollowingCopies == call \in {"origins_loop", "index_loop"}

(* Mutant: a copy of a copy is followed by one step only.                  *)
OriginsStepOnce ==
  /\ FollowingCopies /\ i < inflated_size
  /\ origins' = [origins EXCEPT ![i] = byte_stats[i].source]
  /\ i' = i + 1
  /\ UNCHANGED <<given, literal_weights, contents, call, index, answer>>

OriginsStep ==
  /\ FollowingCopies /\ i < inflated_size
  /\ LET source == byte_stats[i].source
     IN  origins' = [origins EXCEPT ![i] = IF source = i THEN i
                                           ELSE origins[source]]
  /\ i' = i + 1
  /\ UNCHANGED <<given, literal_weights, contents, call, index, answer>>

(* origins() returns to its caller, at once if the array was there.        *)
OriginsEnd ==
  /\ \/ FollowingCopies /\ i = inflated_size
     \/ call = "origins" /\ origins # Null
  /\ call' = IF call = "index_loop" THEN "literal_weight" ELSE "weights_loop"
  /\ i' = 0
  /\ UNCHANGED <<given, arrays, index, answer>>

(* Mutant: a literal does not count for itself.                            *)
WeightsStepOfCopies ==
  /\ call = "weights_loop" /\ i < inflated_size
  /\ literal_weights' = IF origins[i] = i THEN literal_weights
                        ELSE [literal_weights EXCEPT ![origins[i]] = @ + 1]
  /\ i' = i + 1
  /\ UNCHANGED <<given, origins, contents, call, index, answer>>

WeightsStep ==
  /\ call = "weights_loop" /\ i < inflated_size
  /\ literal_weights' = [literal_weights EXCEPT ![origins[i]] = @ + 1]
  /\ i' = i + 1
  /\ UNCHANGED <<given, origins, contents, call, index, answer>>

(* literal_weights() returns.                                              *)
WeightsEnd ==
  /\ call = "weights_loop" /\ i = inflated_size
  /\ call' = "literal_weight"
  /\ UNCHANGED <<given, arrays, index, i, answer>>

(* Mutant: the weight at the byte itself, not at its origin.               *)
AnswerWeightOfByte ==
  /\ call = "literal_weight" /\ origins # Null /\ literal_weights # Null
  /\ answer' = [index |-> index, weight |-> literal_weights[index]]
  /\ call' = "idle"
  /\ UNCHANGED <<given, arrays, index, i>>

AnswerWeight ==
  /\ call = "literal_weight" /\ origins # Null /\ literal_weights # Null
  /\ answer' = [index |-> index, weight |-> literal_weights[origins[index]]]
  /\ call' = "idle"
  /\ UNCHANGED <<given, arrays, index, i>>

(* The new array is not initialised.                                       *)
ContentsStart ==
  /\ call = "contents" /\ contents = Null
  /\ \E b \in Byte : contents' = [k \in Indices |-> b]
  /\ call' = "contents_loop" /\ i' = 0
  /\ UNCHANGED <<given, origins, literal_weights, index, answer>>

ContentsStep ==
  /\ call = "contents_loop" /\ i < inflated_size
  /\ contents' = [contents EXCEPT ![i] = byte_stats[i].value]
  /\ i' = i + 1
  /\ UNCHANGED <<given, origins, literal_weights, call, index, answer>>

AnswerContents ==
  /\ \/ call = "contents_loop" /\ i = inflated_size
     \/ call = "contents" /\ contents # Null
  /\ call' = "idle"
  /\ UNCHANGED <<given, arrays, index, i, answer>>

CallNext ==
  \/ WeightsStart \/ OriginsStart \/ OriginsStep \/ OriginsEnd
  \/ WeightsStep \/ WeightsEnd \/ AnswerWeight
  \/ ContentsStart \/ ContentsStep \/ AnswerContents

Next ==
  \/ \E n \in 0 .. MaxSize - 1 : AskWeight(n)
  \/ AskContents
  \/ CallNext

Spec == Init /\ [][Next]_vars
-----------------------------------------------------------------------------
TypeOK ==
  /\ inflated_size \in 0..MaxSize
  /\ byte_stats \in StatsOf(inflated_size)
  /\ literal_count \in Nat
  /\ origins # Null => origins \in [Indices -> Indices]
  /\ literal_weights # Null => literal_weights \in [Indices -> Nat]
  /\ contents # Null => contents \in [Indices -> Byte]
  /\ call \in {"idle", "literal_weight", "origins", "origins_loop",
               "index_loop", "weights_loop", "contents", "contents_loop"}
  /\ i \in Nat
  /\ call \in {"literal_weight", "origins", "origins_loop", "index_loop",
               "weights_loop"} => index \in Indices
  /\ answer \in [index : Nat, weight : Nat \cup {-1}]

Literals == LiteralsOf(inflated_size, byte_stats)

HasOrigins == origins # Null /\ ~FollowingCopies

HasWeights ==
  /\ literal_weights # Null
  /\ call \notin {"origins", "origins_loop", "weights_loop"}

(* One pass from the front finds the literal at the end of every chain of  *)
(* copies: itself for a literal, the one its source comes from for a copy  *)
(* (zipprof.cc:170-182).                                                   *)
OriginsAreLiterals ==
  HasOrigins =>
    \A k \in Indices :
      /\ origins[k] \in Literals
      /\ origins[k] = IF k \in Literals THEN k
                      ELSE origins[byte_stats[k].source]
      /\ byte_stats[origins[k]].value = byte_stats[k].value

Descendants(o) == {k \in Indices : origins[k] = o}

(* The weight of a literal is the number of bytes that come from it, and   *)
(* only literals have weight: the weights share out the whole output       *)
(* (zipprof.cc:184-193).                                                   *)
WeightsAreDescendants ==
  HasOrigins /\ HasWeights =>
    \A o \in Indices : literal_weights[o] = Cardinality(Descendants(o))

(* literal_weight answers with the number of bytes that have the same      *)
(* origin as the byte asked about, whichever question came first, so "all  *)
(* copies of the same byte have the same weight" (zipprof.h:50-53).        *)
AnswersAreClassSizes ==
  answer # NoAnswer =>
    answer.weight = Cardinality(Descendants(origins[answer.index]))

(* What was computed once is not computed again or changed.                *)
ArraysAreKept ==
  [][/\ HasOrigins => UNCHANGED origins
     /\ HasWeights => UNCHANGED literal_weights]_vars
-----------------------------------------------------------------------------
(* What the properties rest on: how far each loop has come, and what holds *)
(* of the part it has done.                                                *)
OriginsDone == IF FollowingCopies THEN i ELSE inflated_size

(* literal_weights() has its array, and waits for origins().               *)
OriginsPending == call \in {"origins", "origins_loop"}

WeightsDone == IF call = "weights_loop" THEN i ELSE inflated_size

CallValid ==
  /\ FollowingCopies \/ call = "weights_loop" =>
       origins # Null /\ answer = NoAnswer /\ i <= inflated_size
  /\ call = "contents_loop" => contents # Null /\ i <= inflated_size
  /\ call \in {"origins", "origins_loop", "weights_loop"} =>
       literal_weights # Null /\ answer = NoAnswer
  /\ call = "index_loop" => literal_weights = Null
  /\ literal_weights # Null => call = "origins" \/ origins # Null
  /\ answer # NoAnswer => literal_weights # Null

OriginValid(k) ==
  /\ origins[k] \in Literals
  /\ origins[k] = IF k \in Literals THEN k ELSE origins[byte_stats[k].source]
  /\ byte_stats[origins[k]].value = byte_stats[k].value

OriginsValid ==
  origins # Null => \A k \in Indices : k < OriginsDone => OriginValid(k)

Counted(o, done) == {k \in Indices : k < done /\ origins[k] = o}

WeightsValid ==
  literal_weights # Null =>
    \A o \in Indices :
      literal_weights[o] =
        IF OriginsPending THEN 0
        ELSE Cardinality(Counted(o, WeightsDone))

AnswerValid ==
  answer # NoAnswer =>
    /\ HasOrigins
    /\ answer.index \in Indices
    /\ answer.weight = Cardinality(Descendants(origins[answer.index]))

IInv ==
  /\ TypeOK
  /\ CallValid
  /\ OriginsValid
  /\ WeightsValid
  /\ AnswerValid
=============================================================================
