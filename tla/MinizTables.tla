----------------------------- MODULE MinizTables -----------------------------
(***************************************************************************)
(* The functions with which miniz makes and reads prefix codes: the tables *)
(* of symbols of tdefl and tinfl, the lengths and codes tdefl gives to     *)
(* symbols by how often they occur, the lookup tables tinfl makes of the   *)
(* lengths, and the runs in which tdefl packs them (miniz.c).              *)
(*                                                                         *)
(* Arrays are functions from 0..n-1.  The codes are read from the least    *)
(* significant bit of a buffer, so tdefl and tinfl both reverse them.      *)
(***************************************************************************)
EXTENDS Integers, Sequences, SequencesExt, CodeTables, DeflateSymbols

CONSTANTS
  Radix,      (* the values of a digit of a key; 256                       *)
  FastBits,   (* TINFL_FAST_LOOKUP_BITS; 10                                *)
  MaxCode     (* the longest code of tinfl's tables; 15                    *)

ASSUME WidthsAssumption ==
  /\ Radix \in Nat \ {0, 1} /\ FastBits \in Nat \ {0} /\ MaxCode \in Nat
  /\ FastBits <= MaxCode

KeySize == Radix * Radix    \* 2^16: frequencies are kept in 16 bits

MaxSupported == 32          \* TDEFL_MAX_SUPPORTED_HUFF_CODESIZE

(* A value of a table of runs <<value, length>>.                           *)
AtRun(runs, k) ==
  LET Skip(rest, r) ==
        IF rest.left < 0 THEN rest
        ELSE [left |-> rest.left - r[2], value |-> r[1]]
  IN  FoldLeft(Skip, [left |-> k, value |-> 0], runs).value

LengthRuns ==
  [n \in 1..29 |->
    <<256 + n, CASE n <= 8  -> 1
                 [] n = 28  -> 31
                 [] n = 29  -> 1
                 [] OTHER   -> 2 ^ ((n - 5) \div 4)>>]

s_tdefl_len_sym == [k \in 0..255 |-> AtRun(LengthRuns, k)]

s_tdefl_len_extra ==
  [k \in 0..255 |->
    AtRun(<< <<0, 8>>, <<1, 8>>, <<2, 16>>, <<3, 32>>, <<4, 64>>, <<5, 127>>,
           <<0, 1>> >>, k)]

SmallDistRuns ==
  [n \in 1..18 |-> <<n - 1, IF n <= 4 THEN 1 ELSE 2 ^ ((n - 3) \div 2)>>]

s_tdefl_small_dist_sym == [k \in 0..511 |-> AtRun(SmallDistRuns, k)]

s_tdefl_small_dist_extra ==
  [k \in 0..511 |->
    AtRun(<< <<0, 4>>, <<1, 4>>, <<2, 8>>, <<3, 16>>, <<4, 32>>, <<5, 64>>,
           <<6, 128>>, <<7, 256>> >>, k)]

LargeDistRuns ==
  << <<0, 2>> >> \o [n \in 1..12 |-> <<17 + n, 2 ^ ((n - 1) \div 2)>>]

s_tdefl_large_dist_sym == [k \in 0..127 |-> AtRun(LargeDistRuns, k)]

s_tdefl_large_dist_extra ==
  [k \in 0..127 |->
    AtRun(<< <<0, 2>>, <<8, 2>>, <<9, 4>>, <<10, 8>>, <<11, 16>>, <<12, 32>>,
           <<13, 64>> >>, k)]

(* What tdefl_compress_lz_codes writes for a match: the symbol, the number *)
(* of its extra bits and their value.  Lengths are stored less 3,          *)
(* distances less 1.                                                       *)
LengthCode(match_len) ==
  <<s_tdefl_len_sym[match_len], s_tdefl_len_extra[match_len],
    match_len % 2 ^ s_tdefl_len_extra[match_len]>>

(* Mutant: the small table for one distance too many.                      *)
DistanceCodeTo512(match_dist) ==
  LET small == match_dist <= 512
      sym   == IF small THEN s_tdefl_small_dist_sym[match_dist % 512]
               ELSE s_tdefl_large_dist_sym[match_dist \div 256]
      bits  == IF small THEN s_tdefl_small_dist_extra[match_dist % 512]
               ELSE s_tdefl_large_dist_extra[match_dist \div 256]
  IN  <<sym, bits, match_dist % 2 ^ bits>>

DistanceCode(match_dist) ==
  LET small == match_dist < 512
      sym   == IF small THEN s_tdefl_small_dist_sym[match_dist % 512]
               ELSE s_tdefl_large_dist_sym[match_dist \div 256]
      bits  == IF small THEN s_tdefl_small_dist_extra[match_dist % 512]
               ELSE s_tdefl_large_dist_extra[match_dist \div 256]
  IN  <<sym, bits, match_dist % 2 ^ bits>>

(* tinfl's tables, by a symbol's place in them; those past the last symbol *)
(* of the format are zero.                                                 *)
s_length_base ==
  <<3, 4, 5, 6, 7, 8, 9, 10, 11, 13, 15, 17, 19, 23, 27, 31, 35, 43, 51, 59,
    67, 83, 99, 115, 131, 163, 195, 227, 258, 0, 0>>

s_length_extra ==
  <<0, 0, 0, 0, 0, 0, 0, 0, 1, 1, 1, 1, 2, 2, 2, 2, 3, 3, 3, 3,
    4, 4, 4, 4, 5, 5, 5, 5, 0, 0, 0>>

s_dist_base ==
  <<1, 2, 3, 4, 5, 7, 9, 13, 17, 25, 33, 49, 65, 97, 129, 193, 257, 385, 513,
    769, 1025, 1537, 2049, 3073, 4097, 6145, 8193, 12289, 16385, 24577, 0, 0>>

s_dist_extra ==
  <<0, 0, 0, 0, 1, 1, 2, 2, 3, 3, 4, 4, 5, 5, 6, 6, 7, 7, 8, 8, 9, 9, 10, 10,
    11, 11, 12, 12, 13, 13, 0, 0>>
-----------------------------------------------------------------------------
(* tdefl_radix_sort_syms: symbols are records of a key and an index.  A    *)
(* pass puts them in the order of a digit and otherwise leaves their order *)
(* alone; the pass of the high digit is left out when it is always zero.   *)
Digit(s, shift) == (s.key \div shift) % Radix

Pass(syms, shift) ==
  FlattenSeq([d \in 1..Radix |->
                SelectSeq(syms, LAMBDA s : Digit(s, shift) = d - 1)])

(* Mutant: the digits in the wrong order.                                  *)
SortedHighFirst(syms) == Pass(Pass(syms, Radix), 1)

tdefl_radix_sort_syms(syms) ==
  LET low == Pass(syms, 1)
  IN  IF \A k \in DOMAIN syms : Digit(syms[k], Radix) = 0
      THEN low
      ELSE Pass(low, Radix)

(* tdefl_calculate_minimum_redundancy turns the keys A[0..n-1], sorted, to *)
(* code lengths in their place.  The first loop leaves in A[next] the      *)
(* weight of the next inner node and, once it is used, its parent: twice   *)
(* it takes the lighter of the next node (root) and the next leaf.         *)
Take(s, next, n, second) ==
  LET node_next ==
        \/ s.leaf >= n
        \/ (second => s.root < next) /\ s.A[s.root] < s.A[s.leaf]
      from   == IF node_next THEN s.root ELSE s.leaf
      weight == (IF second THEN s.A[next] ELSE 0) + s.A[from]
      summed == [s.A EXCEPT ![next] = weight % KeySize]
  IN  IF node_next
      THEN [s EXCEPT !.A = [summed EXCEPT ![from] = next], !.root = @ + 1]
      ELSE [s EXCEPT !.A = summed, !.leaf = @ + 1]

Parents(A, n) ==
  LET Join(s, next) == Take(Take(s, next, n, FALSE), next, n, TRUE)
  IN  FoldLeft(Join,
               [A |-> [A EXCEPT ![0] = (@ + A[1]) % KeySize],
                root |-> 0, leaf |-> 2],
               [k \in 1 .. n - 2 |-> k]).A

(* The second loop turns parents to depths, from the root down.            *)
Depths(A, n) ==
  LET Deepen(a, next) == [a EXCEPT ![next] = a[a[next]] + 1]
  IN  FoldLeft(Deepen, [A EXCEPT ![n - 2] = 0], [k \in 1 .. n - 2 |-> n - 2 - k])

(* The third counts the inner nodes of a depth, whose places it leaves     *)
(* from the end, and gives the other places of the depth to leaves.        *)
LeafDepths(A, n) ==
  LET Level(s, dpth) ==
        LET used == Cardinality({r \in 0 .. s.root :
                                  \A q \in r .. s.root : s.A[q] = dpth})
            left == s.avbl - used
        IN  IF s.avbl <= 0 THEN s
            ELSE [A    |-> [q \in DOMAIN s.A |->
                             IF q \in s.next - left + 1 .. s.next THEN dpth
                             ELSE s.A[q]],
                  avbl |-> 2 * used, root |-> s.root - used,
                  next |-> s.next - left]
  IN  FoldLeft(Level, [A |-> A, avbl |-> 1, root |-> n - 2, next |-> n - 1],
               [k \in 1..n |-> k - 1]).A

tdefl_calculate_minimum_redundancy(A, n) ==
  CASE n = 0 -> A
    [] n = 1 -> [A EXCEPT ![0] = 1]
    [] OTHER -> LeafDepths(Depths(Parents(A, n), n), n)

(* tdefl_huffman_enforce_max_code_size: codes that are too long become the *)
(* longest, and until the codes fit again a code of the longest is given a *)
(* place next to a shorter one, which becomes a bit longer.                *)
Shortened(num_codes, max) ==
  LET i == CHOOSE i \in 1 .. max - 1 :
             num_codes[i] > 0 /\ \A k \in i + 1 .. max - 1 : num_codes[k] = 0
      less == [num_codes EXCEPT ![max] = @ - 1]
  IN  IF \A k \in 1 .. max - 1 : num_codes[k] = 0 THEN less
      ELSE [less EXCEPT ![i] = @ - 1, ![i + 1] = @ + 2]

tdefl_huffman_enforce_max_code_size(num_codes, code_list_len, max) ==
  LET longer  == MapThenSumSet(LAMBDA l : num_codes[l], max .. MaxSupported)
      clamped == [num_codes EXCEPT ![max] = longer]
      total   == MapThenSumSet(LAMBDA l : clamped[l] * 2 ^ (max - l), 1..max)
  IN  IF code_list_len <= 1 THEN num_codes
      ELSE FoldLeft(LAMBDA counts, k : Shortened(counts, max),
                    clamped, [k \in 1 .. total - 2 ^ max |-> k])

(* The next code of every length (tdefl, and tinfl likewise).              *)
NextCode(num_codes, longest) ==
  LET next[l \in 1..longest] ==
        IF l = 1 THEN 0 ELSE (next[l - 1] + num_codes[l - 1]) * 2
  IN  next

(* rev_code: the code's bits from the last to the first.                   *)
Reversed(code, size) ==
  MapThenSumSet(LAMBDA k : ((code \div 2 ^ k) % 2) * 2 ^ (size - 1 - k),
                0 .. size - 1)

(* The codes of the symbols 0..Len-1 of a table of lengths, 0 for those    *)
(* that have none.                                                         *)
Codes(sizes, longest) ==
  LET next == NextCode([l \in 1..longest |-> CountOf(sizes, l)], longest)
  IN  [s \in DOMAIN sizes |->
        IF sizes[s] = 0 THEN 0
        ELSE Reversed(next[sizes[s]]
                        + Cardinality({r \in 0 .. s - 1 : sizes[r] = sizes[s]}),
                      sizes[s])]

(* tdefl_optimize_huffman_table, of a table that is not the fixed one: the *)
(* lengths for the frequencies of symbols.  The rarest symbols get the     *)
(* longest codes.                                                          *)
OptimalSizes(count, limit) ==
  LET used == SelectSeq([k \in 1 .. Cardinality(DOMAIN count) |->
                          [key |-> count[k - 1] % KeySize, sym |-> k - 1]],
                        LAMBDA s : count[s.sym] # 0)
      n      == Len(used)
      sorted == tdefl_radix_sort_syms(used)
      depths == tdefl_calculate_minimum_redundancy(
                  [k \in 0 .. n - 1 |-> sorted[k + 1].key], n)
      num_codes == tdefl_huffman_enforce_max_code_size(
                     [l \in 0..MaxSupported |-> CountOf(depths, l)], n, limit)
      UpTo(l) == MapThenSumSet(LAMBDA k : num_codes[k], 1..l)
      size(k) == CHOOSE l \in 1..limit :
                   n - k < UpTo(l) /\ n - k >= UpTo(l - 1)
  IN  [s \in DOMAIN count |->
        IF \E k \in 1..n : sorted[k].sym = s
        THEN size(CHOOSE k \in 1..n : sorted[k].sym = s) ELSE 0]
-----------------------------------------------------------------------------
(* tinfl_decompress: from the lengths of a table's codes to m_look_up and  *)
(* m_tree.  m_look_up is indexed with the next FastBits bits and holds the *)
(* symbol and its length if the code is not longer; else the negated index *)
(* of the bits that follow, in m_tree, which holds symbols or goes on.     *)
Enter(s, sym, code, size) ==
  [s EXCEPT !.look_up =
    [b \in DOMAIN @ |-> IF b % 2 ^ size = code THEN size * 512 + sym ELSE @[b]]]

(* Mutant: every code makes nodes of its own.                              *)
FollowFresh(s, bit) ==
  LET at == -(s.cur - bit) - 1
  IN  [s EXCEPT !.tree[at] = s.next, !.cur = s.next, !.next = @ - 2]

(* From tree_cur on along a bit of the code, making nodes that are new.    *)
Follow(s, bit) ==
  LET at == -(s.cur - bit) - 1
  IN  IF s.tree[at] = 0
      THEN [s EXCEPT !.tree[at] = s.next, !.cur = s.next, !.next = @ - 2]
      ELSE [s EXCEPT !.cur = s.tree[at]]

EnterLong(s, sym, code, size) ==
  LET fast == code % 2 ^ FastBits
      new  == s.look_up[fast] = 0
      from == [s EXCEPT !.look_up[fast] = IF new THEN s.next ELSE @,
                        !.cur  = IF new THEN s.next ELSE s.look_up[fast],
                        !.next = IF new THEN @ - 2 ELSE @]
      bit(k) == (code \div 2 ^ k) % 2
      last == FoldLeft(LAMBDA t, k : Follow(t, bit(k)), from,
                       [k \in 1 .. size - FastBits - 1 |-> FastBits + k - 1])
  IN  [last EXCEPT !.tree[-(last.cur - bit(size - 1)) - 1] = sym]

(* No table for codes that do not fill the code space, unless it has one   *)
(* symbol or none.                                                         *)
TableAccepted(sizes) ==
  CodeSpace(sizes, MaxCode) = 2 ^ MaxCode
    \/ Cardinality({s \in DOMAIN sizes : sizes[s] > 0}) <= 1

Tables(sizes) ==
  LET codes == Codes(sizes, MaxCode)
      n     == Cardinality(DOMAIN sizes)
      Add(s, k) ==
        LET size == sizes[k - 1]
        IN  IF size = 0 THEN s
            ELSE IF size <= FastBits THEN Enter(s, k - 1, codes[k - 1], size)
            ELSE EnterLong(s, k - 1, codes[k - 1], size)
  IN  FoldLeft(Add, [look_up |-> [b \in 0 .. 2 ^ FastBits - 1 |-> 0],
                     tree    |-> [k \in 0 .. 2 * n - 1 |-> 0],
                     next    |-> -1, cur |-> 0],
               [k \in 1..n |-> k])

(* TINFL_HUFF_DECODE: the symbol that the bits begin with, and its length. *)
Decoded(table, bit_buf) ==
  LET temp == table.look_up[bit_buf % 2 ^ FastBits]
      Descend(s, k) ==
        IF s[1] >= 0 THEN s
        ELSE LET bit == (bit_buf \div 2 ^ (k - 1)) % 2
             IN  <<table.tree[bit - s[1] - 1], k>>
  IN  IF temp >= 0 THEN <<temp % 512, temp \div 512>>
      ELSE FoldLeft(Descend, <<temp, FastBits>>,
                    [k \in 1 .. MaxCode - FastBits |-> FastBits + k])
-----------------------------------------------------------------------------
(* tdefl_start_dynamic_block: the lengths of both tables, one after the    *)
(* other, become symbols of a third code, a run's length following its     *)
(* symbol.  A run of zeros is ended by a length or when it is as long as   *)
(* a symbol can say; a run of a length by anything else or at six.         *)
(* RlePrev and RleZero are TDEFL_RLE_PREV_CODE_SIZE and _ZERO_CODE_SIZE.   *)
RlePrev(s) ==
  [s EXCEPT !.rep = 0,
            !.packed = @ \o CASE s.rep = 0 -> << >>
                              [] s.rep \in 1..2 ->
                                   [k \in 1 .. s.rep |-> <<s.prev, 0>>]
                              [] OTHER -> << <<16, s.rep - 3>> >>]

RleZero(s) ==
  [s EXCEPT !.zeros = 0,
            !.packed = @ \o CASE s.zeros = 0 -> << >>
                              [] s.zeros \in 1..2 ->
                                   [k \in 1 .. s.zeros |-> <<0, 0>>]
                              [] s.zeros \in 3..10 -> << <<17, s.zeros - 3>> >>
                              [] OTHER -> << <<18, s.zeros - 11>> >>]

(* Mutant: a run of a length survives a zero.                              *)
PackZeroOnly(s, size) ==
  IF size = 0
  THEN LET more == [s EXCEPT !.zeros = @ + 1]
       IN  IF more.zeros = 138 THEN RleZero(more) ELSE more
  ELSE LET t == RleZero(s)
       IN  IF size # t.prev
           THEN LET u == RlePrev(t) IN [u EXCEPT !.packed = Append(@, <<size, 0>>)]
           ELSE LET more == [t EXCEPT !.rep = @ + 1]
                IN  IF more.rep = 6 THEN RlePrev(more) ELSE more

PackOne(s, size) ==
  IF size = 0
  THEN LET t    == RlePrev(s)
           more == [t EXCEPT !.zeros = @ + 1]
       IN  IF more.zeros = 138 THEN RleZero(more) ELSE more
  ELSE LET t == RleZero(s)
       IN  IF size # t.prev
           THEN LET u == RlePrev(t) IN [u EXCEPT !.packed = Append(@, <<size, 0>>)]
           ELSE LET more == [t EXCEPT !.rep = @ + 1]
                IN  IF more.rep = 6 THEN RlePrev(more) ELSE more

Packed(sizes) ==
  LET Step(s, size) == [PackOne(s, size) EXCEPT !.prev = size]
      s == FoldLeft(Step, [packed |-> << >>, zeros |-> 0, rep |-> 0, prev |-> 255],
                    sizes)
  IN  (IF s.rep > 0 THEN RlePrev(s) ELSE RleZero(s)).packed

(* tinfl_decompress, which fills m_len_codes from them: each a length or a *)
(* run, of the length before or of zeros.                                  *)
Unpacked(packed) ==
  LET Fill(lens, p) ==
        lens \o CASE p[1] < 16 -> <<p[1]>>
                  [] p[1] = 16 -> [k \in 1 .. p[2] + 3 |-> Last(lens)]
                  [] p[1] = 17 -> [k \in 1 .. p[2] + 3 |-> 0]
                  [] p[1] = 18 -> [k \in 1 .. p[2] + 11 |-> 0]
  IN  FoldLeft(Fill, << >>, packed)
=============================================================================
