----------------------------- MODULE MCDeflater -----------------------------
(* Deflater with two literals, the end of a block, lengths of three and    *)
(* four and a length symbol no table has; distances of one and of four,    *)
(* which is all of the ring, and a distance symbol no table has.           *)
EXTENDS Deflater
=============================================================================
