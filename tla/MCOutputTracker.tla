--------------------------- MODULE MCOutputTracker ---------------------------
(* OutputTracker with a ring of four bytes and outputs of ten: the ring   *)
(* wraps twice, the array of ByteStats doubles twice or more, matches      *)
(* overlap themselves and reach exactly as far as the ring and beyond the  *)
(* first byte.                                                             *)
EXTENDS OutputTracker

MCDistances == 1..WindowSize
MCLengths == {3, 4, 5}
=============================================================================
