---------------------------- MODULE MCBitReader ----------------------------
(* ArrayBitReader with its real 64-bit buffer over arrays that are empty,  *)
(* shorter than a buffer, exactly one buffer, and one byte longer than     *)
(* two.  The reader runs on past the end of each.                          *)
EXTENDS BitReader

(* Byte i of the array of n bytes: the bits of a number that differs from  *)
(* byte to byte and is not a palindrome.                                   *)
Byte(i) == [b \in 0..7 |-> ((37 * i + 77) \div (2 ^ b)) % 2]

Array(n) == [i \in 0 .. n - 1 |-> Byte(i)]

MCInputs == {Array(n) : n \in {0, 3, 8, 17}}
MCBeyond == {Byte(1), Byte(4)}
=============================================================================
