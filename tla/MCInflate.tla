----------------------------- MODULE MCInflate -----------------------------
(***************************************************************************)
(* Streams with every kind of block, whole, cut short, damaged, and with   *)
(* more behind them.  The bits of the codes are those that real ones take: *)
(* a fixed code has 7 to 9 bits, one of a dynamic block 1 to 15, and none  *)
(* if its table has one code or none and these bits are not it.            *)
(***************************************************************************)
EXTENDS Inflate

Bits(n) == [op |-> "bits", bits |-> n]
Code(n) == [op |-> "code", bits |-> n]
Lit(b, n) == [op |-> "lit", bits |-> n, byte |-> b]
End(n) == [op |-> "end", bits |-> n]
Match(n, d, l) == <<[op |-> "len", bits |-> n], Code(5),
                    [op |-> "copy", dist |-> d, len |-> l]>>
Aligned == [op |-> "align"]
Stored(b) == <<Bits(3), Aligned, Bits(8), Bits(8), Bits(8), Bits(8),
               [op |-> "stored", bytes |-> b]>>

(* A block with the fixed code, one with short and long codes, and stored  *)
(* ones between and behind them.                                           *)
Fixed == <<Bits(3), Lit(1, 8), Lit(2, 9)>> \o Match(7, 2, 3)
           \o <<Lit(3, 8), End(7)>>
Dynamic == <<Bits(3), Bits(14), Bits(3), Code(2), Bits(2)>>
             \o [k \in 1..6 |-> Lit(k % 3, 1 + 14 * (k \div 5))]
             \o Match(15, 4, 5) \o <<Bits(2), End(1)>>

(* A dynamic block whose one literal is not the one that follows; one with *)
(* no distances, and distance 0 in a fixed block; and no text at all.      *)
Endless == <<Bits(3), Bits(14), Code(0), Lit(7, 1), [op |-> "void", bits |-> 0, byte |-> 0]>>
NoDistance == <<Bits(3), Lit(1, 1), [op |-> "len", bits |-> 2], Code(0),
                [op |-> "copy", dist |-> 1, len |-> 3], End(2)>>
Itself == <<Bits(3), Lit(1, 8)>> \o Match(7, 0, 3) \o <<Lit(3, 8), End(7)>>
Empty == <<Bits(3), End(7)>>

Far == <<Bits(3), Lit(1, 8)>> \o Match(7, 3, 3) \o <<End(7)>>
Refused == <<Bits(3), [op |-> "fail"]>>

With(body, zlib) ==
  (IF zlib THEN <<Bits(8), Bits(8)>> ELSE << >>) \o body
  \o (IF zlib THEN <<Aligned, Bits(8), Bits(8), Bits(8), Bits(8)>> ELSE << >>)
  \o <<[op |-> "done"]>>

Cut(b, z, by) == LET w == With(b, z) IN Stream(w, SizeOf(w) + by, z)

MCStreams ==
  {Cut(Fixed \o Stored(<<4, 5, 6, 7, 8>>), TRUE, 0), Cut(Refused, FALSE, 0),
   Cut(Fixed, TRUE, -1), Cut(Fixed, TRUE, -5), Cut(Fixed, FALSE, -1),
   Cut(Stored(<<1, 2, 3>>), TRUE, -5)}
    \cup {Cut(b, z, 0) : b \in {Fixed, Far}, z \in BOOLEAN}
    \cup {Cut(Dynamic, z, 9) : z \in BOOLEAN}
    \cup {Cut(b, FALSE, 4) : b \in {Endless, NoDistance, Itself}}
    \cup {Cut(NoDistance, FALSE, 0)}
    \cup {Cut(Empty, z, 0) : z \in BOOLEAN}
=============================================================================
