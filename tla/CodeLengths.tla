----------------------------- MODULE CodeLengths -----------------------------
(***************************************************************************)
(* decode_huffman_codes (zip_inl.hh): how a dynamic block's header becomes *)
(* the tables of its two codes.  The header gives the lengths of a first   *)
(* code, in an order of its own; the symbols of that code are lengths and  *)
(* runs, and one array that they fill in one go is cut into the table of   *)
(* the literals and lengths and that of the distances.                     *)
(*                                                                         *)
(* A step is an iteration of one of the two loops.  The input is left      *)
(* open, but for the lengths of the first code, chosen at the beginning.   *)
(* new_code_tree accepts or throws as HuffCode is shown to                 *)
(* (AcceptsWholeCodes); Deflater!DynamicTrees charges the bits.            *)
(***************************************************************************)
EXTENDS Integers, Sequences, SequencesExt, CodeTables

CONSTANTS
  LitLenCodes,    (* values of num_lit_len_codes considered; of 257..288   *)
  DistCodes,      (* values of num_dist_codes; of 1..32                    *)
  CodeLenFields,  (* what the fields of three bits may hold, functions     *)
                  (* from 1..19 to 0..7                                    *)
  Extras,         (* values of a run's extra bits considered; of 0..127    *)
  WordSize        (* 2^32, the modulus of a uint32_t                       *)

ASSUME FieldsAssumption ==
  /\ LitLenCodes \subseteq 1..288
  /\ DistCodes \subseteq 1..32
  /\ CodeLenFields \subseteq [1..19 -> 0..7]
  /\ Extras \subseteq 0..127
  /\ WordSize \in Nat /\ WordSize > 16

VARIABLES
  pc,                   (* where the function is                           *)
  fields,               (* the lengths of the first code, as in the input  *)
  num_lit_len_codes,
  num_dist_codes,
  num_code_len_codes,
  code_len_code_len,    (* the same by symbol                              *)
  code_lens,            (* the array that becomes the two tables           *)
  at,                   (* i, the index of the loops                       *)
  run_val, run_len,
  symbols               (* history: the symbols decoded, with their extra  *)
                        (* bits                                            *)

header == <<fields, num_lit_len_codes, num_dist_codes, num_code_len_codes>>

lengths_vars ==
  <<pc, header, code_len_code_len, code_lens, at, run_val, run_len, symbols>>

code_lens_len == num_lit_len_codes + num_dist_codes

(* new_code_tree returns a tree for a table, or throws.                    *)
Accepted(table) == WholeCodeSpace(table, 15)

LitLenTable == [s \in 0 .. num_lit_len_codes - 1 |-> code_lens[s]]

DistTable ==
  [s \in 0 .. num_dist_codes - 1 |-> code_lens[num_lit_len_codes + s]]
-----------------------------------------------------------------------------
LengthsInit ==
  /\ pc = "header"
  /\ fields \in CodeLenFields
  /\ num_lit_len_codes = 0 /\ num_dist_codes = 0 /\ num_code_len_codes = 0
  /\ code_len_code_len = << >> /\ code_lens = << >>
  /\ at = 0 /\ run_val = -1 /\ run_len = 0
  /\ symbols = << >>

(* The counts, and the four lengths that are always there.                 *)
Header(lit_len, dist, code_len) ==
  /\ pc = "header"
  /\ num_lit_len_codes' = lit_len
  /\ num_dist_codes' = dist
  /\ num_code_len_codes' = code_len
  /\ code_len_code_len' =
       [s \in 0..18 |-> CASE s = 16 -> fields[1]
                          [] s = 17 -> fields[2]
                          [] s = 18 -> fields[3]
                          [] s = 0  -> fields[4]
                          [] OTHER  -> 0]
  /\ at' = 0
  /\ pc' = "code_len_code_len"
  /\ UNCHANGED <<fields, code_lens, run_val, run_len, symbols>>

(* Mutant: the middle of the table begins one symbol early.                *)
OrderFrom7(k) == IF k % 2 = 0 THEN 7 + k \div 2 ELSE 6 - k \div 2

(* The symbol whose length comes next, from the middle outwards.           *)
Order(k) == IF k % 2 = 0 THEN 8 + k \div 2 ELSE 7 - k \div 2

CodeLenStep ==
  /\ pc = "code_len_code_len" /\ at < num_code_len_codes - 4
  /\ code_len_code_len' =
       [code_len_code_len EXCEPT ![Order(at)] = fields[at + 5]]
  /\ at' = at + 1
  /\ UNCHANGED <<pc, header, code_lens, run_val, run_len, symbols>>

(* The first tree, and the empty array.                                    *)
CodeLenEnd ==
  /\ pc = "code_len_code_len" /\ at >= num_code_len_codes - 4
  /\ \/ /\ ~Accepted(code_len_code_len)
        /\ pc' = "threw"
        /\ UNCHANGED <<code_lens, at, run_val, run_len>>
     \/ /\ Accepted(code_len_code_len)
        /\ pc' = "code_lens"
        /\ code_lens' = [k \in 0 .. code_lens_len - 1 |-> 0]
        /\ at' = 0 /\ run_val' = -1 /\ run_len' = 0
  /\ UNCHANGED <<header, code_len_code_len, symbols>>

(* An iteration within a run.  run_val is signed, the array is not.        *)
RunStep ==
  /\ pc = "code_lens" /\ at < code_lens_len /\ run_len > 0
  /\ code_lens' = [code_lens EXCEPT ![at] = run_val % WordSize]
  /\ run_len' = run_len - 1
  /\ at' = at + 1
  /\ UNCHANGED <<pc, header, code_len_code_len, run_val, symbols>>

(* decode_symbol returns a symbol that has a code.                         *)
Decode(symbol, extra) ==
  /\ pc = "code_lens" /\ at < code_lens_len /\ run_len = 0
  /\ code_len_code_len[symbol] > 0
  /\ symbols' = Append(symbols, <<symbol, extra>>)
  /\ UNCHANGED <<pc, header, code_len_code_len>>

LengthSymbol(symbol) ==
  /\ Decode(symbol, 0)
  /\ code_lens' = [code_lens EXCEPT ![at] = symbol]
  /\ run_val' = symbol
  /\ at' = at + 1
  /\ UNCHANGED run_len

(* Symbol 16: the value stays what it was.                                 *)
Repeat(extra) ==
  /\ extra \in 0..3
  /\ Decode(16, extra)
  /\ run_len' = extra + 3
  /\ UNCHANGED <<code_lens, run_val, at>>

(* Mutant: a run of zeros that repeats the length before it.               *)
Zeros3Stale(extra) ==
  /\ extra \in 0..7
  /\ Decode(17, extra)
  /\ run_len' = extra + 3
  /\ UNCHANGED <<code_lens, run_val, at>>

(* Symbols 17 and 18: zeros.                                               *)
Zeros3(extra) ==
  /\ extra \in 0..7
  /\ Decode(17, extra)
  /\ run_val' = 0 /\ run_len' = extra + 3
  /\ UNCHANGED <<code_lens, at>>

Zeros11(extra) ==
  /\ Decode(18, extra)
  /\ run_val' = 0 /\ run_len' = extra + 11
  /\ UNCHANGED <<code_lens, at>>

(* What is left of a run when the array is full is dropped.  The trees     *)
(* follow, the one of the literals and lengths first.                      *)
LitLenTree ==
  /\ pc = "code_lens" /\ at >= code_lens_len
  /\ pc' = IF Accepted(LitLenTable) THEN "dist_tree" ELSE "threw"
  /\ UNCHANGED <<header, code_len_code_len, code_lens, at, run_val, run_len,
                 symbols>>

DistTree ==
  /\ pc = "dist_tree"
  /\ pc' = IF Accepted(DistTable) THEN "done" ELSE "threw"
  /\ UNCHANGED <<header, code_len_code_len, code_lens, at, run_val, run_len,
                 symbols>>

LengthsNext ==
  \/ \E lit_len \in LitLenCodes, dist \in DistCodes, code_len \in 4..19 :
       Header(lit_len, dist, code_len)
  \/ CodeLenStep \/ CodeLenEnd
  \/ RunStep
  \/ \E symbol \in 0..15 : LengthSymbol(symbol)
  \/ \E extra \in Extras : Repeat(extra) \/ Zeros3(extra) \/ Zeros11(extra)
  \/ LitLenTree \/ DistTree

LengthsSpec == LengthsInit /\ [][LengthsNext]_lengths_vars
-----------------------------------------------------------------------------
(* The order of the code lengths in the input (RFC 1951, 3.2.7).           *)
InputOrder ==
  <<16, 17, 18, 0, 8, 7, 9, 6, 10, 5, 11, 4, 12, 3, 13, 2, 14, 1, 15>>

(* The loop's arithmetic puts every length the input has to the symbol the *)
(* RFC means, and leaves the others zero (zip_inl.hh:153-162).             *)
LengthsInOrder ==
  pc \notin {"header", "code_len_code_len"} =>
    \A k \in 1..19 :
      code_len_code_len[InputOrder[k]] =
        IF k <= num_code_len_codes THEN fields[k] ELSE 0

(* What a sequence of symbols stands for (RFC 1951, 3.2.7): lengths, three *)
(* to six times the length before, or zeros.  A repetition with no length  *)
(* before, which the RFC leaves without a meaning, gives a length that no  *)
(* code has.                                                               *)
Before(lens) == IF lens = << >> THEN WordSize - 1 ELSE Last(lens)

Expand(lens, s) ==
  lens \o CASE s[1] \in 0..15 -> <<s[1]>>
            [] s[1] = 16 -> [k \in 1 .. 3 + s[2] |-> Before(lens)]
            [] s[1] = 17 -> [k \in 1 .. 3 + s[2] |-> 0]
            [] s[1] = 18 -> [k \in 1 .. 11 + s[2] |-> 0]

Expansion == FoldLeft(Expand, << >>, symbols)

(* The array is what the symbols stand for, one sequence of lengths over   *)
(* both tables: a run goes on from the one into the other, and what of a   *)
(* run does not fit is dropped, no more (zip_inl.hh:168-191).              *)
TablesAreExpansion ==
  pc \in {"code_lens", "dist_tree", "done"} =>
    /\ at + run_len = Len(Expansion)
    /\ \A k \in 0 .. at - 1 : code_lens[k] = Expansion[k + 1]
    /\ \A k \in at .. code_lens_len - 1 : code_lens[k] = 0
    /\ pc # "code_lens" => at = code_lens_len

-----------------------------------------------------------------------------
(* What the properties rest on: the lengths that the first loop has put in *)
(* their places so far, and that what is left of a run is the rest of what *)
(* the symbols stand for, which ends in the value that a repetition would  *)
(* repeat.                                                                 *)
LengthsTypeOK ==
  /\ pc \in {"header", "code_len_code_len", "code_lens", "dist_tree", "done",
             "threw"}
  /\ fields \in CodeLenFields
  /\ num_lit_len_codes \in Nat /\ num_dist_codes \in Nat
  /\ pc # "header" => /\ num_code_len_codes \in 4..19
                      /\ code_len_code_len \in [0..18 -> 0..7]
  /\ pc \in {"code_lens", "dist_tree", "done"} =>
       code_lens \in [0 .. code_lens_len - 1 -> 0 .. WordSize - 1]
  /\ at \in Nat /\ run_val \in -1 .. 15 /\ run_len \in Nat
  /\ symbols \in Seq((0..18) \X Nat)

OrderValid ==
  pc = "code_len_code_len" =>
    /\ at <= num_code_len_codes - 4
    /\ \A k \in 1..19 :
         code_len_code_len[InputOrder[k]] =
           IF k <= at + 4 THEN fields[k] ELSE 0

RunValid ==
  /\ pc \in {"header", "code_len_code_len"} => symbols = << >>
  /\ pc \in {"code_lens", "dist_tree", "done"} =>
       /\ at <= code_lens_len
       /\ Expansion \in Seq(0 .. WordSize - 1)
       /\ Before(Expansion) = run_val % WordSize
       /\ \A k \in at .. at + run_len - 1 :
            Expansion[k + 1] = run_val % WordSize

LengthsInv ==
  /\ LengthsTypeOK
  /\ OrderValid
  /\ RunValid
  /\ LengthsInOrder
  /\ TablesAreExpansion
=============================================================================
