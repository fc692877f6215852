----------------------------- MODULE MCHuffman -----------------------------
(* The two parts of a dynamic block's header, each on its own: they share  *)
(* no variable, and one rests while the other is examined.                 *)
(*                                                                         *)
(* HuffCode with every table of four symbols and codes of up to three      *)
(* bits: complete codes, incomplete and oversubscribed ones, single codes  *)
(* and no codes at all, two in a row in one pool.                          *)
(*                                                                         *)
(* decode_huffman_codes with tables of two to four literals and of one or  *)
(* two distances, so that a run of three to six may lie in one, cross into *)
(* the other and pass the end.  Of the fields of three bits, two fillings  *)
(* together tell any two fields apart; the others are complete codes, with *)
(* 18 or 19 fields, and one with the four fields that are always there.    *)
EXTENDS HuffCode, CodeLengths

MCTables == [0 .. TableSize - 1 -> 0..MaxLength]

(* The fields of a code that has these lengths, and no other symbol.       *)
FieldsOf(lengths) ==
  [k \in 1..19 |-> IF InputOrder[k] \in DOMAIN lengths
                   THEN lengths[InputOrder[k]] ELSE 0]

Sparse(pairs) ==
  [s \in {p[1] : p \in pairs} |-> (CHOOSE p \in pairs : p[1] = s)[2]]

MCFields ==
  { [k \in 1..19 |-> k % 8], [k \in 1..19 |-> 7 - k \div 8],
    FieldsOf(Sparse({<<0, 3>>, <<1, 2>>, <<2, 2>>, <<16, 3>>, <<17, 3>>, <<18, 3>>})),
    FieldsOf(Sparse({<<1, 2>>, <<2, 2>>, <<15, 2>>, <<16, 2>>})),
    FieldsOf(Sparse({<<0, 2>>, <<16, 2>>, <<17, 2>>, <<18, 2>>})) }

MCInit == Init /\ LengthsInit

(* The trees, under one of the fillings, which they do not look at.        *)
TreesMove ==
  /\ pc = "header" /\ fields[1] = 1 /\ fields[2] = 2
  /\ Next /\ UNCHANGED lengths_vars

LengthsMove ==
  /\ levels = << >>
  /\ LengthsNext /\ UNCHANGED vars

MCNext == TreesMove \/ LengthsMove

MCSpec == MCInit /\ [][MCNext]_<<vars, lengths_vars>>
=============================================================================
