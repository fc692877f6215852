------------------------------ MODULE BitStream ------------------------------
(***************************************************************************)
(* What a bit reader over an array of bytes promises, without a buffer: a  *)
(* position in the stream of the array's bits, each byte's least           *)
(* significant bit first, followed by zeros without end.  Bits may be read *)
(* anywhere; whole bytes only on a byte boundary, and only those of the    *)
(* array have a definite value.  ArrayBitReader is shown to implement it.  *)
(***************************************************************************)
EXTENDS Naturals, Sequences

CONSTANTS
  Inputs,       (* the arrays considered, functions from 0..n-1 to Octet   *)
  Widths        (* the widths of the words read                            *)

VARIABLES
  data,         (* the array                                               *)
  pos,          (* the bits consumed by the calls that have returned       *)
  got,          (* what the last call returned, least significant first    *)
  status        (* "aborted" after a call the reader refuses               *)

vars == <<data, pos, got, status>>

Bit == {0, 1}

Octet == [0..7 -> Bit]

InArray(p) == p \div 8 \in DOMAIN data

BitAt(p) == IF InArray(p) THEN data[p \div 8][p % 8] ELSE 0

Bits(n) == [k \in 1..n |-> BitAt(pos + k - 1)]

Init ==
  /\ data \in Inputs
  /\ pos = 0
  /\ got = << >>
  /\ status = "reading"

Read(n) ==
  /\ status = "reading"
  /\ got' = Bits(n)
  /\ pos' = pos + n
  /\ UNCHANGED <<data, status>>

Align ==
  /\ status = "reading"
  /\ pos' = IF pos % 8 = 0 THEN pos ELSE 8 * (pos \div 8) + 8
  /\ got' = << >>
  /\ UNCHANGED <<data, status>>

ReadBytes(n) ==
  /\ status = "reading"
  /\ pos % 8 = 0
  /\ Len(got') = 8 * n
  /\ \A k \in 1 .. 8 * n :
       InArray(pos + k - 1) => got'[k] = BitAt(pos + k - 1)
  /\ pos' = pos + 8 * n
  /\ UNCHANGED <<data, status>>

RefuseBytes(n) ==
  /\ status = "reading"
  /\ pos % 8 # 0 \/ ~InArray(pos + 8 * n - 1)
  /\ status' = "aborted"
  /\ UNCHANGED <<data, pos, got>>

Next ==
  \/ \E n \in Widths \cup {1} : Read(n)
  \/ Align
  \/ \E n \in 1..2 : ReadBytes(n) \/ RefuseBytes(n)

Spec == Init /\ [][Next]_vars
=============================================================================
