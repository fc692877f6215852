------------------------------- MODULE LzCodes -------------------------------
(***************************************************************************)
(* The buffer in which tdefl keeps the literals and matches of a block     *)
(* until it is flushed (tdefl_record_literal, tdefl_record_match), and     *)
(* its reading (tdefl_compress_lz_codes, where unaligned 64-bit stores are *)
(* allowed).  Eight of them follow a byte of flags, which tell the matches *)
(* from the literals; it is filled from the top, over whatever the place   *)
(* held before.                                                            *)
(***************************************************************************)
EXTENDS Integers, Sequences, SequencesExt

CONSTANT StaleFlags   (* what a place in the buffer holds before; a byte   *)

ASSUME StaleAssumption == StaleFlags \in 0..255

Literal(lit) == [match |-> FALSE, lit |-> lit, len |-> 0, dist |-> 0]

Match(len, dist) == [match |-> TRUE, lit |-> 0, len |-> len, dist |-> dist]

(* m_lz_code_buf up to m_pLZ_code_buf, bytes from 1; where m_pLZ_flags is; *)
(* and m_num_flags_left.  At first a byte of flags is there, which holds   *)
(* whatever it held before: only the pointers are set.                     *)
NoCodes == [buf |-> <<StaleFlags>>, flags |-> 1, left |-> 8]

(* After a literal or match: the byte of flags that follows the eighth.    *)
Flagged(s, bytes, flag) ==
  LET t == [s EXCEPT !.buf = [@ EXCEPT ![s.flags] = (@ \div 2) + flag] \o bytes,
                     !.left = @ - 1]
  IN  IF t.left > 0 THEN t
      ELSE [buf |-> Append(t.buf, StaleFlags), flags |-> Len(t.buf) + 1, left |-> 8]

tdefl_record_literal(s, lit) == Flagged(s, <<lit>>, 0)

tdefl_record_match(s, len, dist) ==
  Flagged(s, <<len - 3, (dist - 1) % 256, (dist - 1) \div 256>>, 128)

Recorded(items) ==
  FoldLeft(LAMBDA s, x : IF x.match THEN tdefl_record_match(s, x.len, x.dist)
                         ELSE tdefl_record_literal(s, x.lit),
           NoCodes, items)

(* Mutant: one flag too many is shifted out.                               *)
FlushedPastFirst(s) ==
  LET shifted == [s.buf EXCEPT ![s.flags] = @ \div 2 ^ (s.left + 1)]
  IN  IF s.left = 8 THEN SubSeq(shifted, 1, Len(shifted) - 1) ELSE shifted

(* tdefl_flush_block: the flags not used are shifted out, a byte that has  *)
(* none is dropped.                                                        *)
Flushed(s) ==
  LET shifted == [s.buf EXCEPT ![s.flags] = @ \div 2 ^ s.left]
  IN  IF s.left = 8 THEN SubSeq(shifted, 1, Len(shifted) - 1) ELSE shifted

(* An iteration of tdefl_compress_lz_codes.  flags is a byte of flags      *)
(* above which a bit is set that is left alone when they are used up.      *)
(* Up to three literals are written at once.                               *)
Iteration(buf, s) ==
  LET new   == s.flags = 1
      flags == IF new THEN buf[s.pos] + 256 ELSE s.flags
      pos   == IF new THEN s.pos + 1 ELSE s.pos
      literals == 1 + Cardinality({k \in 1..2 :
                        /\ \A j \in 1..k : (flags \div 2 ^ j) % 2 = 0
                        /\ pos + k <= Len(buf)})
  IN  IF flags % 2 = 1
      THEN [pos |-> pos + 3, flags |-> flags \div 2,
            out |-> Append(s.out, Match(buf[pos] + 3,
                                        buf[pos + 1] + 256 * buf[pos + 2] + 1))]
      ELSE [pos |-> pos + literals, flags |-> flags \div 2 ^ literals,
            out |-> s.out \o [k \in 1..literals |-> Literal(buf[pos + k - 1])]]

tdefl_compress_lz_codes(buf) ==
  FoldLeft(LAMBDA s, k : IF s.pos <= Len(buf) THEN Iteration(buf, s) ELSE s,
           [pos |-> 1, flags |-> 1, out |-> << >>], [k \in 1 .. Len(buf) |-> k]).out
=============================================================================
