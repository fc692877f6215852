-------------------------------- MODULE Lz77 --------------------------------
(***************************************************************************)
(* What a decompressor's output side promises, without a window: the       *)
(* output only grows, by a literal byte or by a match, and each byte of a  *)
(* match equals the byte `dist` places before it in the output itself.     *)
(* OutputTracker keeps only a ring of recent bytes and copies one byte at  *)
(* a time; it is shown to implement this specification.                    *)
(***************************************************************************)
EXTENDS Naturals, Sequences

CONSTANTS
  Byte,       (* the values of a byte                                      *)
  MaxDist,    (* the longest distance of a match                           *)
  Lengths     (* the lengths a match may have                              *)

VARIABLES
  out,        (* the bytes produced so far                                 *)
  status      (* "failed" once a match has reached before the first byte   *)

vars == <<out, status>>

Init == out = <<>> /\ status = "running"

Literal(v) ==
  /\ status = "running"
  /\ out' = Append(out, v)
  /\ UNCHANGED status

(* The last conjunct determines the match even when it overlaps itself     *)
(* (dist < len), because it speaks of the new output.                      *)
Match(dist, len) ==
  /\ status = "running"
  /\ dist <= Len(out)
  /\ Len(out') = Len(out) + len
  /\ \A k \in 1..Len(out) : out'[k] = out[k]
  /\ \A k \in Len(out) + 1 .. Len(out) + len : out'[k] = out'[k - dist]
  /\ UNCHANGED status

(* A match that reaches before the first byte produces nothing and stops   *)
(* the decompression.                                                      *)
BadMatch(dist) ==
  /\ status = "running"
  /\ dist > Len(out)
  /\ status' = "failed"
  /\ UNCHANGED out

Next ==
  \/ \E v \in Byte : Literal(v)
  \/ \E dist \in 1..MaxDist, len \in Lengths : Match(dist, len)
  \/ \E dist \in 1..MaxDist : BadMatch(dist)

Spec == Init /\ [][Next]_vars
=============================================================================
