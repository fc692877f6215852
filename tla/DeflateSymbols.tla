---------------------------- MODULE DeflateSymbols ----------------------------
(***************************************************************************)
(* decode_run_length and decode_distance (zip_inl.hh): what a length or    *)
(* distance symbol and its extra bits stand for.  The code computes with   *)
(* shifts what RFC 1951 lists in two tables.                               *)
(***************************************************************************)
EXTENDS Naturals

(* x >> n and x << n.                                                      *)
ShiftRight(x, n) == x \div 2 ^ n

ShiftLeft(x, n) == x * 2 ^ n

(* How many extra bits are read, which is what Account is charged; and     *)
(* the length they decode to.  Symbols above 285 throw DeflateError.       *)
LengthSymbols == 257..285

LengthExtraBits(symbol) ==
  IF symbol \in 265..284 THEN ShiftRight(symbol - 261, 2) ELSE 0

decode_run_length(symbol, extra) ==
  IF symbol <= 264 THEN symbol - 254
  ELSE IF symbol <= 284
  THEN ShiftLeft(((symbol - 265) % 4) + 4, LengthExtraBits(symbol)) + 3 + extra
  ELSE 258

(* The same of a distance.  Symbols above 29 throw DeflateError.           *)
DistanceSymbols == 0..29

DistanceExtraBits(symbol) ==
  IF symbol \in 4..29 THEN ShiftRight(symbol, 1) - 1 ELSE 0

decode_distance(symbol, extra) ==
  IF symbol <= 3 THEN symbol + 1
  ELSE ShiftLeft((symbol % 2) + 2, DistanceExtraBits(symbol)) + 1 + extra
=============================================================================
