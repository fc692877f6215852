----------------------------- MODULE CodeTables -----------------------------
(***************************************************************************)
(* Tables of code lengths, functions from symbols 0..n-1 to lengths, and   *)
(* how much of the code space their codes take (RFC 1951, 3.2.2).  The     *)
(* longest code has max bits.                                              *)
(***************************************************************************)
EXTENDS Integers, FiniteSetsExt

(* How many codes of a table have a length.                                *)
CountOf(t, length) == Cardinality({s \in DOMAIN t : t[s] = length})

(* The code space that c[l] codes of l bits take, for every l up to n, in  *)
(* units of 2^-n: with every bit more, what is taken counts twice.         *)
SpaceOf(c, n) ==
  LET taken[l \in 0..n] == IF l = 0 THEN c[0] ELSE 2 * taken[l - 1] + c[l]
  IN  taken[n]

(* How many codes of each length a table has; and the one code that takes  *)
(* all the code space, which has no bits.                                  *)
LengthCounts(t, max) ==
  [l \in 0..max |-> IF l = 0 THEN 0 ELSE CountOf(t, l)]

NoBits(max) == [l \in 0..max |-> IF l = 0 THEN 1 ELSE 0]

(* The code space, in units of 2^-max, that all of a table's codes take,   *)
(* and what there is of it, 2^max.                                         *)
CodeSpace(t, max) == SpaceOf(LengthCounts(t, max), max)

AllSpace(max) == SpaceOf(NoBits(max), max)

(* The codes fill the code space once.                                     *)
FullCodeSpace(t, max) == CodeSpace(t, max) = AllSpace(max)

(* The codes fill the code space a whole number of times, at least once.   *)
WholeCodeSpace(t, max) ==
  CodeSpace(t, max) > 0 /\ CodeSpace(t, max) % AllSpace(max) = 0
=============================================================================
