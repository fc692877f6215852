-------------------------- MODULE MCZlibCompressor --------------------------
(***************************************************************************)
(* Inputs of one and two letters that are longer than the ring, with runs, *)
(* repetitions at several distances and better matches a byte later.       *)
(***************************************************************************)
EXTENDS ZlibCompressor

MCSources ==
  {<< >>,
   <<1, 1, 1, 1, 1, 1, 1>>,
   <<2, 1, 2, 1, 2, 1, 1, 2>>}
=============================================================================
