------------------------------ MODULE CodecCalls ------------------------------
(***************************************************************************)
(* One call of each of the functions by which zipprof and miniz turn       *)
(* deflate's symbols, codes and code lengths into what they stand for, and *)
(* back: decode_run_length and decode_distance of zip_inl.hh, and those of *)
(* MinizTables and LzCodes.  They keep nothing between calls, so a call is *)
(* a step; the properties compare what the two sides of a call make of it, *)
(* or what RFC 1951 says.                                                  *)
(***************************************************************************)
EXTENDS MinizTables, LzCodes

CONSTANTS
  MaxLengthSymbol,    (* the last symbol of a length code; 287 in the      *)
                      (* fixed one                                         *)
  MaxDistanceSymbol,  (* the last symbol of a distance code; 31            *)
  Counts,             (* how often symbols occur, functions from 0..n-1    *)
  Limits,             (* limits of the length of a code; 15 and 7          *)
  SizeLists,          (* lists of code lengths                             *)
  MaxItems,           (* the literals and matches of a block               *)
  Items               (* what they may be                                  *)

ASSUME CallsAssumption ==
  /\ MaxLengthSymbol \in Nat /\ MaxDistanceSymbol \in Nat
  /\ \A limit \in Limits : limit \in 1..MaxCode

(* No block has as many symbols as 16 bits can count (a byte of the 64k    *)
(* of m_lz_code_buf each, at least), so that no sum of counts overflows.   *)
ASSUME CountsAssumption ==
  \A count \in Counts :
    /\ \A s \in DOMAIN count : count[s] \in Nat
    /\ MapThenSumSet(LAMBDA s : count[s], DOMAIN count) < KeySize

VARIABLES
  call,       (* the function called; "none" before                        *)
  arg,        (* the arguments                                             *)
  result      (* what it returned                                          *)

vars == <<call, arg, result>>

Init == call = "none" /\ arg = << >> /\ result = << >>

Call(function) == call' = function

(* A symbol's extra bits, and the number that Account is charged.          *)
DecodeRunLength(symbol, extra) ==
  /\ Call("length")
  /\ symbol <= 285 /\ extra < 2 ^ LengthExtraBits(symbol)
  /\ arg' = <<symbol, extra>>
  /\ result' = [value   |-> decode_run_length(symbol, extra),
                charged |-> LengthExtraBits(symbol)]

DecodeDistance(symbol, extra) ==
  /\ Call("distance")
  /\ symbol <= 29 /\ extra < 2 ^ DistanceExtraBits(symbol)
  /\ arg' = <<symbol, extra>>
  /\ result' = [value   |-> decode_distance(symbol, extra),
                charged |-> DistanceExtraBits(symbol)]

(* A symbol that no table has: DeflateError.                               *)
Throw(symbol) ==
  /\ Call("threw")
  /\ symbol \in 286 .. MaxLengthSymbol \/ symbol \in 30 .. MaxDistanceSymbol
  /\ arg' = <<symbol>>
  /\ UNCHANGED result

(* The lengths of a table, its codes, and what tinfl makes of the lengths. *)
CodeMade(sizes) ==
  result' = [sizes |-> sizes, codes |-> Codes(sizes, MaxCode),
             tables |-> Tables(sizes)]

OptimizeTable(count, limit) ==
  /\ Call("optimal")
  /\ arg' = <<count, limit>>
  /\ CodeMade(OptimalSizes(count, limit))

(* The fixed lengths, which tdefl and tinfl both write to their arrays.    *)
FixedSizes ==
  [s \in 0..287 |-> CASE s <= 143 -> 8
                      [] s \in 144..255 -> 9
                      [] s \in 256..279 -> 7
                      [] OTHER -> 8]

FixedDistanceSizes == [s \in 0..31 |-> 5]

FixedTable ==
  /\ Call("fixed_distances")
  /\ arg' = <<FixedDistanceSizes>>
  /\ CodeMade(FixedDistanceSizes)

FixedCode ==
  /\ Call("fixed")
  /\ arg' = <<FixedSizes>>
  /\ result' = [sizes |-> FixedSizes, codes |-> Codes(FixedSizes, MaxCode)]

PackSizes(sizes) ==
  /\ Call("pack")
  /\ arg' = <<sizes>>
  /\ result' = Packed(sizes)

(* The items of a block, recorded one by one, and flushed.                 *)
RecordBlock(items) ==
  /\ Call("block")
  /\ arg' = items
  /\ result' = tdefl_compress_lz_codes(Flushed(Recorded(items)))

AnyCall ==
  \/ \E symbol \in 257..MaxLengthSymbol, extra \in 0..31 :
       DecodeRunLength(symbol, extra)
  \/ \E symbol \in 0..MaxDistanceSymbol :
       \E extra \in 0 .. 2 ^ DistanceExtraBits(symbol) - 1 :
         DecodeDistance(symbol, extra)
  \/ \E symbol \in 0..MaxLengthSymbol : Throw(symbol)
  \/ \E count \in Counts, limit \in Limits : OptimizeTable(count, limit)
  \/ FixedTable \/ FixedCode
  \/ \E sizes \in SizeLists : PackSizes(sizes)
  \/ \E items \in BoundedSeq(Items, MaxItems) : RecordBlock(items)

Next == call = "none" /\ AnyCall

Spec == Init /\ [][Next]_vars
-----------------------------------------------------------------------------
(* The tables of RFC 1951, 3.2.5, a row for each run of symbols with as    *)
(* many extra bits: the first symbol, the extra bits, the first value.     *)
LengthRows ==
  << <<257, 0, 3>>, <<265, 1, 11>>, <<269, 2, 19>>, <<273, 3, 35>>,
     <<277, 4, 67>>, <<281, 5, 131>>, <<285, 0, 258>> >>

DistanceRows ==
  << <<0, 0, 1>>, <<4, 1, 5>>, <<6, 2, 9>>, <<8, 3, 17>>, <<10, 4, 33>>,
     <<12, 5, 65>>, <<14, 6, 129>>, <<16, 7, 257>>, <<18, 8, 513>>,
     <<20, 9, 1025>>, <<22, 10, 2049>>, <<24, 11, 4097>>, <<26, 12, 8193>>,
     <<28, 13, 16385>> >>

RowOf(rows, symbol) == rows[CHOOSE k \in DOMAIN rows :
  /\ rows[k][1] <= symbol
  /\ k < Len(rows) => symbol < rows[k + 1][1]]

AsInRows(rows) ==
  LET row == RowOf(rows, arg[1])
  IN  /\ result.charged = row[2]
      /\ result.value = row[3] + (arg[1] - row[1]) * 2 ^ row[2] + arg[2]

(* Every length and distance symbol stands for what RFC 1951 gives it, at  *)
(* the bits it gives, in zipprof, which computes it (zip_inl.hh:121-145),  *)
(* and in tinfl, which looks it up; and tdefl writes the same symbol and   *)
(* bits for it - but for 258, which has a symbol of its own.               *)
SymbolsAsInRFC ==
  /\ call = "length" =>
       /\ AsInRows(LengthRows)
       /\ result.charged = s_length_extra[arg[1] - 256]
       /\ result.value = s_length_base[arg[1] - 256] + arg[2]
       /\ LengthCode(result.value - 3) =
            IF result.value = 258 THEN <<285, 0, 0>>
            ELSE <<arg[1], result.charged, arg[2]>>
  /\ call = "distance" =>
       /\ AsInRows(DistanceRows)
       /\ result.charged = s_dist_extra[arg[1] + 1]
       /\ result.value = s_dist_base[arg[1] + 1] + arg[2]
       /\ DistanceCode(result.value - 1) = <<arg[1], result.charged, arg[2]>>
  /\ call = "threw" /\ arg[1] < 32 => s_dist_base[arg[1] + 1] = 0

(* Huffman's algorithm as a reference: what the symbols of a block cost at *)
(* the least.  Weights are pairs, told apart by their first element.       *)
Cost(count, sizes) ==
  MapThenSumSet(LAMBDA s : count[s] * sizes[s], DOMAIN count)

Lightest(weights) == CHOOSE w \in weights : \A v \in weights : w[2] <= v[2]

LeastCost(count) ==
  LET leaves == {<<s, count[s]>> : s \in {s \in DOMAIN count : count[s] > 0}}
      Join(state, k) ==
        LET a == Lightest(state.weights)
            b == Lightest(state.weights \ {a})
        IN  [weights |-> (state.weights \ {a, b}) \cup {<<-k, a[2] + b[2]>>},
             cost    |-> state.cost + a[2] + b[2]]
  IN  FoldLeft(Join, [weights |-> leaves, cost |-> 0],
               [k \in 1 .. Cardinality(leaves) - 1 |-> k]).cost

(* The lengths tdefl computes in place, in 16 bits, from counts sorted in  *)
(* two passes, and then limits (miniz.c:1817-1894): every symbol that      *)
(* occurs has a code and no other, none is longer than the limit, together *)
(* they fill the code space, a symbol that occurs more often has no longer *)
(* code, and the block is as short as prefix codes can make it, unless the *)
(* limit was in the way.                                                   *)
CodesAreOptimal ==
  call = "optimal" =>
    LET count == arg[1]
        limit == arg[2]
        sizes == result.sizes
        used  == {s \in DOMAIN count : count[s] > 0}
        n     == Cardinality(used)
    IN  /\ \A s \in DOMAIN count : sizes[s] > 0 <=> s \in used
        /\ \A s \in used : sizes[s] <= limit
        /\ n = 1 => \A s \in used : sizes[s] = 1
        /\ n > 1 =>
             /\ CodeSpace(sizes, limit) = 2 ^ limit
             /\ \A s, t \in used : count[s] > count[t] => sizes[s] <= sizes[t]
             /\ n - 1 <= limit \/ (\A s \in used : sizes[s] < limit) =>
                  Cost(count, sizes) = LeastCost(count)

(* No code is the beginning of another, tinfl accepts the lengths tdefl    *)
(* makes, and finds every code tdefl writes, in m_look_up or past it in    *)
(* m_tree, whatever bits follow it (miniz.c:1508-1532, 1413-1428).         *)
LookupsDecode ==
  /\ call \in {"optimal", "fixed", "fixed_distances"} =>
       LET coded == {s \in DOMAIN result.sizes : result.sizes[s] > 0}
       IN  /\ TableAccepted(result.sizes)
           /\ \A s \in coded :
                LET unit == 2 ^ result.sizes[s]
                IN  /\ result.codes[s] < unit
                    /\ \A t \in coded \ {s} : result.sizes[t] >= result.sizes[s] =>
                         result.codes[t] % unit # result.codes[s]
  /\ call \in {"optimal", "fixed_distances"} =>
       \A s \in DOMAIN result.sizes :
         LET size == result.sizes[s]
         IN  size > 0 =>
               \A following \in {0, 1, 2, 5, 2 ^ MaxCode - 1} :
                 Decoded(result.tables,
                         result.codes[s] + following * 2 ^ size) = <<s, size>>

(* The runs that tdefl packs code lengths in are unpacked by tinfl to the  *)
(* same lengths, and what follows a run's symbol fits the bits it has      *)
(* (miniz.c:1917-1932, 1946-1977; 1533-1550).                              *)
PackedUnpacks ==
  call = "pack" =>
    /\ Unpacked(result) = arg[1]
    /\ \A k \in DOMAIN result :
         result[k][2] < CASE result[k][1] = 16 -> 4
                          [] result[k][1] = 17 -> 8
                          [] result[k][1] = 18 -> 128
                          [] OTHER -> 1

(* The literals and matches of a block are read from the buffer as they    *)
(* were recorded, in blocks that end on any of a byte's flags, whatever    *)
(* the places of the flags held before (miniz.c:2467-2495, 2177-2178,      *)
(* 2030-2087).                                                             *)
CodesReadBack == call = "block" => result = arg
=============================================================================
