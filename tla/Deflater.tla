------------------------------- MODULE Deflater -------------------------------
(***************************************************************************)
(* Deflater (zip_inl.hh): the loop over the blocks of a deflate stream and *)
(* the loop over the symbols of a block, with the Accounts the bits read   *)
(* are charged to, on top of OutputTracker and ProfilingByteWriter.        *)
(*                                                                         *)
(* What the bits of the input are is left open: every choice they decide   *)
(* is made in every way.  `consumed` is where the reader stands (BitReader *)
(* shows how it gets there); a code tree is known by the lengths its codes *)
(* may have (HuffCode); copy() is OutputTracker's own loop.  The build has *)
(* assertions on.                                                          *)
(***************************************************************************)
EXTENDS Integers, Sequences, FiniteSetsExt, DeflateSymbols

CONSTANTS
  WindowSize, InitialCapacity, WordSize, MaxOut, NoStat,   (* OutputTracker *)
  Symbols,        (* the symbols of a length code considered: literals,    *)
                  (* 256, lengths, and those that no table has             *)
  DistSymbols,    (* the symbols of a distance code                        *)
  CodeBits,       (* the lengths a code may have                           *)
  TableBits,      (* bits that the code lengths of a dynamic block take    *)
  RawLengths,     (* the lengths of a stored block                         *)
  MaxBits         (* bound: no operation starts past this many bits        *)

ASSUME SizesAssumption ==
  /\ WindowSize \in Nat \ {0}
  /\ InitialCapacity \in Nat \ {0}
  /\ MaxOut \in Nat
  /\ WordSize \in Nat
  /\ MaxOut < WordSize - WindowSize

(* A code has at most 15 bits.                                             *)
ASSUME InputAssumption ==
  /\ Symbols \subseteq Nat /\ DistSymbols \subseteq Nat
  /\ CodeBits \subseteq 0..15 /\ TableBits \subseteq Nat
  /\ RawLengths \subseteq Nat /\ MaxBits \in Nat

Literals == Symbols \cap 0..255

Byte == Literals

(* Whatever decode_run_length and decode_distance return for a symbol.     *)
LengthsOf(symbol) ==
  {decode_run_length(symbol, e) : e \in 0 .. 2 ^ LengthExtraBits(symbol) - 1}

DistancesOf(symbol) ==
  {decode_distance(symbol, e) : e \in 0 .. 2 ^ DistanceExtraBits(symbol) - 1}

Lengths == UNION {LengthsOf(s) : s \in Symbols \cap LengthSymbols}

Distances == UNION {DistancesOf(s) : s \in DistSymbols \cap DistanceSymbols}

(* The window is as large as the longest distance, 32768.                  *)
ASSUME DistancesAssumption == Distances \subseteq 1..WindowSize

(* Two codes of at most 15 bits, 5 extra bits of a length and 13 of a      *)
(* distance.                                                               *)
BitSizes == 0 .. 15 + 5 + 15 + 13

VARIABLES
  buf, out_cur, copy_cur, bytes, capacity, cursor, literal_count, phase, run,
                  (* OutputTracker and ProfilingByteWriter                 *)
  pc,             (* where deflate() is                                    *)
  keep_going,     (* deflate()'s: "yes" until the last block's header      *)
  block_account,  (* the bits of the block's own account                   *)
  account,        (* those of the account of the operation being decoded   *)
  length,         (* the run length decoded, between its two symbols       *)
  left,           (* bytes of a stored block left                          *)
  blocks,         (* the types the writer's open_block was given           *)
  consumed,       (* bits the reader has consumed                          *)
  closed,         (* history: what close_block was given, added up         *)
  misaligned      (* history: skips of ensure_aligned off a boundary       *)

tracker == <<buf, out_cur, copy_cur, bytes, capacity, cursor, literal_count,
             phase, run>>

accounts == <<block_account, account, closed>>

vars == <<tracker, accounts, pc, keep_going, length, left, blocks, consumed,
          misaligned>>

Out == INSTANCE OutputTracker

Methods == {"RAW", "HUFFMAN_STATIC", "HUFFMAN", "RESERVED"}
-----------------------------------------------------------------------------
Init ==
  /\ Out!Init
  /\ pc = "block"
  /\ keep_going = "yes"
  /\ block_account = 0 /\ account = 0 /\ closed = 0
  /\ length = 0 /\ left = 0
  /\ blocks = << >>
  /\ consumed = 0 /\ misaligned = 0

(* The reader delivers n bits.                                             *)
Consume(n) == consumed <= MaxBits /\ consumed' = consumed + n

(* Mutant: the header of a block is charged to no account.                 *)
OpenBlockUncharged(last, method) ==
  /\ pc = "block" /\ keep_going = "yes"
  /\ Consume(3)
  /\ block_account' = 0
  /\ keep_going' = IF last = 1 THEN "no" ELSE "yes"
  /\ blocks' = Append(blocks, method)
  /\ pc' = IF method = "RESERVED" THEN "throw" ELSE method
  /\ UNCHANGED <<tracker, account, closed, length, left, misaligned>>

(* The top of the loop: a new account, the block's header of three bits.   *)
OpenBlock(last, method) ==
  /\ pc = "block" /\ keep_going = "yes"
  /\ Consume(3)
  /\ block_account' = 0 + 1 + 2
  /\ keep_going' = IF last = 1 THEN "no" ELSE "yes"
  /\ blocks' = Append(blocks, method)
  /\ pc' = IF method = "RESERVED" THEN "throw" ELSE method
  /\ UNCHANGED <<tracker, account, closed, length, left, misaligned>>

(* decompress_raw up to its loop.  ensure_aligned charges one bit less     *)
(* than it skips; a length that its complement does not confirm throws.    *)
RawHeader(len, confirmed) ==
  /\ pc = "RAW"
  /\ LET off  == consumed % 8
         skip == IF off = 0 THEN 0 ELSE 8 - off
     IN  /\ Consume(skip + 16 + 16)
         /\ block_account' =
              block_account + (IF off = 0 THEN 0 ELSE 7 - off) + 16 + 16
         /\ misaligned' = IF off = 0 THEN misaligned ELSE misaligned + 1
  /\ \/ confirmed /\ pc' = "raw" /\ left' = len
     \/ ~confirmed /\ pc' = "throw" /\ UNCHANGED left
  /\ UNCHANGED <<tracker, account, closed, keep_going, length, blocks>>

RawByte(value) ==
  /\ pc = "raw" /\ left > 0
  /\ Consume(8)
  /\ Out!Add(value, 8)
  /\ left' = left - 1
  /\ UNCHANGED <<accounts, pc, keep_going, length, blocks, misaligned>>

(* next_byte's operator[] asserts that the byte is in the input, whether   *)
(* it is one of the header or one of the block.                            *)
RawByteMissing ==
  /\ \/ pc = "RAW"
     \/ pc = "raw" /\ left > 0
  /\ pc' = "aborted_by_reader"
  /\ UNCHANGED <<tracker, accounts, keep_going, length, left, blocks,
                 consumed, misaligned>>

(* Mutant: the loop over a stored block ends early.                        *)
RawEndEarly ==
  /\ pc = "raw"
  /\ pc' = "close"
  /\ UNCHANGED <<tracker, accounts, keep_going, length, left, blocks,
                 consumed, misaligned>>

RawEnd ==
  /\ pc = "raw" /\ left = 0
  /\ pc' = "close"
  /\ UNCHANGED <<tracker, accounts, keep_going, length, left, blocks,
                 consumed, misaligned>>

(* A static block's trees cost no bits; those of a dynamic one are read on *)
(* the block's account, and new_code_tree may throw out_of_range.          *)
StaticTrees ==
  /\ pc = "HUFFMAN_STATIC"
  /\ pc' = "symbol"
  /\ UNCHANGED <<tracker, accounts, keep_going, length, left, blocks,
                 consumed, misaligned>>

DynamicTrees(bits, accepted) ==
  /\ pc = "HUFFMAN"
  /\ Consume(bits)
  /\ block_account' = block_account + bits
  /\ pc' = IF accepted THEN "symbol" ELSE "throw"
  /\ UNCHANGED <<tracker, account, closed, keep_going, length, left, blocks,
                 misaligned>>

(* One iteration of decompress_huffman that decodes a literal: a new       *)
(* account, charged and closed.                                            *)
Literal(symbol, bits) ==
  /\ pc = "symbol" /\ symbol \in Literals
  /\ Consume(bits)
  /\ Out!Add(symbol, bits)
  /\ UNCHANGED <<accounts, pc, keep_going, length, left, blocks, misaligned>>

(* Mutant: the end-of-block code is not charged to the block.              *)
EndOfBlockUncharged(bits) ==
  /\ pc = "symbol"
  /\ Consume(bits)
  /\ pc' = "close"
  /\ UNCHANGED <<tracker, accounts, keep_going, length, left, blocks,
                 misaligned>>

EndOfBlock(bits) ==
  /\ pc = "symbol"
  /\ Consume(bits)
  /\ block_account' = block_account + bits
  /\ pc' = "close"
  /\ UNCHANGED <<tracker, account, closed, keep_going, length, left, blocks,
                 misaligned>>

(* The first half of an iteration that decodes a match.                    *)
Length(symbol, bits) ==
  /\ pc = "symbol" /\ symbol > 256
  /\ LET spent == bits + LengthExtraBits(symbol)
     IN  Consume(spent) /\ account' = 0 + spent
  /\ \/ /\ symbol \in LengthSymbols
        /\ length' \in LengthsOf(symbol)
        /\ pc' = "distance"
     \/ /\ symbol \notin LengthSymbols
        /\ pc' = "throw" /\ UNCHANGED length
  /\ UNCHANGED <<tracker, block_account, closed, keep_going, left, blocks,
                 misaligned>>

(* The second half: the account is closed into the copy.                   *)
Distance(symbol, bits) ==
  /\ pc = "distance" /\ symbol \in DistanceSymbols
  /\ LET spent == bits + DistanceExtraBits(symbol)
     IN  /\ Consume(spent)
         /\ \E dist \in DistancesOf(symbol) :
              Out!CopyStart(dist, length, account + spent)
  /\ account' = 0
  /\ pc' = "copy"
  /\ UNCHANGED <<block_account, closed, keep_going, length, left, blocks,
                 misaligned>>

BadDistance(symbol, bits) ==
  /\ pc = "distance" /\ symbol \notin DistanceSymbols
  /\ Consume(bits)
  /\ account' = account + bits
  /\ pc' = "throw"
  /\ UNCHANGED <<tracker, block_account, closed, keep_going, length, left,
                 blocks, misaligned>>

(* OutputTracker::copy runs to its end, or to a failed assertion.          *)
Copy ==
  /\ pc = "copy"
  /\ Out!CopyNext
  /\ pc' = CASE phase' = "copying" -> "copy"
             [] phase' = "idle"    -> "symbol"
             [] phase' = "aborted" -> "aborted_by_writer"
  /\ UNCHANGED <<accounts, keep_going, length, left, blocks, consumed,
                 misaligned>>

(* The bottom of the loop over the blocks.                                 *)
CloseBlock ==
  /\ pc = "close"
  /\ closed' = closed + block_account
  /\ block_account' = 0
  /\ pc' = IF keep_going = "yes" THEN "block" ELSE "done"
  /\ UNCHANGED <<tracker, account, keep_going, length, left, blocks,
                 consumed, misaligned>>

(* An exception leaves decompress_huffman and deflate: the destructors of  *)
(* their accounts run, and assert that nothing is left on them.            *)
Unwind ==
  /\ pc = "throw"
  /\ pc' = IF account = 0 /\ block_account = 0 THEN "threw"
           ELSE "aborted_by_account"
  /\ UNCHANGED <<tracker, accounts, keep_going, length, left, blocks,
                 consumed, misaligned>>

BlockNext ==
  \/ \E last \in {0, 1}, method \in Methods : OpenBlock(last, method)
  \/ \E len \in RawLengths, confirmed \in BOOLEAN : RawHeader(len, confirmed)
  \/ \E value \in Byte : RawByte(value)
  \/ RawByteMissing
  \/ RawEnd
  \/ StaticTrees
  \/ \E bits \in TableBits, accepted \in BOOLEAN : DynamicTrees(bits, accepted)
  \/ CloseBlock
  \/ Unwind

SymbolNext ==
  \/ \E symbol \in Literals, bits \in CodeBits : Literal(symbol, bits)
  \/ \E bits \in CodeBits : EndOfBlock(bits)
  \/ \E symbol \in Symbols, bits \in CodeBits : Length(symbol, bits)
  \/ \E symbol \in DistSymbols, bits \in CodeBits :
       Distance(symbol, bits) \/ BadDistance(symbol, bits)
  \/ Copy

Next == BlockNext \/ SymbolNext

Spec == Init /\ [][Next]_vars
-----------------------------------------------------------------------------
Ended == {"done", "threw", "aborted_by_reader", "aborted_by_writer",
          "aborted_by_account"}

TypeOK ==
  /\ Out!TypeOK
  /\ pc \in Methods \cup Ended \cup
            {"block", "raw", "symbol", "distance", "copy", "close", "throw"}
  /\ keep_going \in {"yes", "no"}
  /\ block_account \in Nat /\ account \in Nat /\ closed \in Nat
  /\ length \in Lengths \cup {0}
  /\ left \in Nat
  /\ blocks \in Seq(Methods)
  /\ consumed \in Nat /\ misaligned \in Nat

(* The bits that the output's operations were recorded with: each literal  *)
(* once, each copy once for all its bytes, and the copy in progress also   *)
(* before its first byte.                                                  *)
FirstOfOperation(k) ==
  bytes[k].copy = 0 \/ k = 0 \/ bytes[k - 1].copy # bytes[k].copy

OperationBits ==
  MapThenSumSet(LAMBDA k : bytes[k].bit_size,
                {k \in 0 .. cursor - 1 : FirstOfOperation(k)})
    + IF phase # "idle" /\ run.i = 0 THEN run.bit_size ELSE 0

(* Every bit of the input is charged to exactly one block or one operation *)
(* of the output, whatever the mix of blocks (zip_inl.hh:53-103, 197-219), *)
(* but for the one bit that each skip to a boundary loses.                 *)
BitsConserved ==
  consumed = OperationBits + closed + block_account + account + misaligned

(* deflate() returns only after a block marked as the last, and all blocks *)
(* before it were closed: no operation is pending, nothing is left on an   *)
(* account, and each byte counts as a literal or belongs to a completed    *)
(* copy (zip_inl.hh:53-103).                                               *)
ReturnsComplete ==
  pc = "done" =>
    /\ keep_going = "no" /\ Len(blocks) > 0
    /\ account = 0 /\ block_account = 0
    /\ phase = "idle" /\ left = 0
    /\ closed >= 3 * Len(blocks)
    /\ \A k \in 0 .. cursor - 1 : bytes[k].copy <= copy_cur

(* Whatever the blocks it comes in, the output is that of a decompressor   *)
(* without a window, which neither the ring nor the boundaries between     *)
(* blocks show through: a match may reach back over several blocks, of any *)
(* kind (zip_inl.hh:53-103, 197-208, 277-293).                             *)
ImplementsLz77 == Out!ImplementsLz77

(* No exception ever reaches the caller of deflate(): an error found in    *)
(* the input ends the process in the destructor of an Account, because the *)
(* block's header at least has been charged by then.                       *)
ErrorsNeverReachCaller == pc # "threw"
-----------------------------------------------------------------------------
(* What the properties rest on: the output side works exactly when deflate *)
(* waits for it; what each account may hold where; and the blocks that     *)
(* were opened and closed.                                                 *)
PhaseValid ==
  phase = CASE pc = "copy" -> "copying"
            [] pc = "aborted_by_writer" -> "aborted"
            [] OTHER -> "idle"

BetweenBlocks == pc \in {"block", "done"}

AccountsValid ==
  /\ account # 0 => pc \in {"distance", "throw", "aborted_by_account"}
  /\ pc = "distance" => account <= 15 + 5 /\ length \in Lengths
  /\ IF BetweenBlocks THEN block_account = 0 ELSE block_account >= 3

BlocksValid ==
  /\ keep_going = "no" \/ pc # "block" => Len(blocks) > 0
  /\ pc = "done" => keep_going = "no"
  /\ left # 0 => pc \in {"raw", "aborted_by_reader"}
  /\ closed >= 3 * Len(blocks) - IF BetweenBlocks THEN 0 ELSE 3

IInv ==
  /\ Out!IInv
  /\ TypeOK
  /\ PhaseValid
  /\ AccountsValid
  /\ BlocksValid
  /\ BitsConserved
=============================================================================
