------------------------------ MODULE BitReader ------------------------------
(***************************************************************************)
(* ArrayBitReader (io.cc, io_inl.hh) under InputTracker (zip_inl.hh): the  *)
(* input side of Deflater.  The reader keeps the 64 bits it is working on  *)
(* in a buffer, the offset of the buffer in the array and a cursor in the  *)
(* buffer; bits past the array are zeros, and next_short looks past the    *)
(* buffer into the array itself.  The tracker charges every call's bits to *)
(* an Account.                                                             *)
(*                                                                         *)
(* A call that loops over next_bit or next_byte is a step per iteration:   *)
(* `call` names it, `left` and `read` are its loop's state.  Words and     *)
(* bytes are tuples of bits, least significant first.  The build has       *)
(* assertions on.                                                          *)
(***************************************************************************)
EXTENDS Integers, Sequences

CONSTANTS
  Inputs,       (* the arrays considered, functions from 0..n-1 to octets  *)
  Beyond,       (* what memory past the end of the array may hold          *)
  Widths,       (* the widths of the words Deflater asks for               *)
  WordSize,     (* 2^32, the modulus of a uint32_t                         *)
  MaxBits       (* bound: the last bit position considered                 *)

Bit == {0, 1}

Octet == [0..7 -> Bit]

ASSUME InputsAssumption ==
  /\ WordSize \in Nat
  /\ MaxBits \in Nat
  /\ MaxBits <= 8 * (WordSize - 24)
  /\ \A d \in Inputs : \E n \in 0 .. WordSize - 24 : d \in [0 .. n - 1 -> Octet]

ASSUME OperandsAssumption ==
  /\ Beyond # {} /\ Beyond \subseteq Octet
  /\ Widths \subseteq 1..64

VARIABLES
  data,           (* the array                                             *)
  data_cursor,    (* offset of the buffer in the array                     *)
  buffer_cursor,  (* index of the next bit in the buffer                   *)
  buffer,         (* bits data_cursor * 8 and the 63 after it              *)
  call,           (* the call in progress, "idle" or "aborted"             *)
  left,           (* its iterations left; of "align", its result           *)
  read,           (* the bits its loop has read                            *)
  got,            (* what the last call returned                           *)
  account,        (* bits charged by InputTracker, over all accounts       *)
  misaligned      (* history: calls of ensure_aligned off a boundary       *)

reader == <<data_cursor, buffer_cursor, buffer>>

loop == <<call, left, read>>

vars == <<data, reader, loop, got, account, misaligned>>

(* uint32_t addition.                                                      *)
WordAdd(a, b) == IF a + b < WordSize THEN a + b ELSE a + b - WordSize

InArray(i) == i \in DOMAIN data

Tuple(octet) == [k \in 1..8 |-> octet[k - 1]]

(* Where the reader stands, in bits.  Before the first fetch data_cursor   *)
(* is uint32_t(-8) and buffer_cursor 64.                                   *)
Position ==
  (IF data_cursor = WordSize - 8 THEN -8 ELSE data_cursor) * 8 + buffer_cursor

bit_cursor == buffer_cursor % 8
-----------------------------------------------------------------------------
(* Mutant: a block loaded in the order of a big-endian machine.            *)
BigEndianBlock ==
  LET cursor == WordAdd(data_cursor, 8)
  IN  [n \in 0..63 |-> IF InArray(cursor + 7 - n \div 8)
                       THEN data[cursor + 7 - n \div 8][n % 8]
                       ELSE 0]

(* The block fetch_next_block loads: eight bytes, a byte past the array    *)
(* being zero.  The code loads a block inside the array with one           *)
(* unaligned access and any other byte by byte.                            *)
NextBlock ==
  LET cursor == WordAdd(data_cursor, 8)
  IN  [n \in 0..63 |-> IF InArray(cursor + n \div 8)
                       THEN data[cursor + n \div 8][n % 8]
                       ELSE 0]

fetch_next_block ==
  /\ data_cursor' = WordAdd(data_cursor, 8)
  /\ buffer' = NextBlock

(* next_bit: the bit it returns, and what it does.                         *)
BitTaken == IF buffer_cursor = 64 THEN NextBlock[0] ELSE buffer[buffer_cursor]

TakeBit ==
  \/ /\ buffer_cursor = 64
     /\ fetch_next_block
     /\ buffer_cursor' = 1
  \/ /\ buffer_cursor # 64
     /\ buffer_cursor' = buffer_cursor + 1
     /\ UNCHANGED <<data_cursor, buffer>>

(* next_byte reads the array, not the buffer.                              *)
ByteIndex ==
  IF buffer_cursor > 64 - 8
  THEN WordAdd(data_cursor, 8)
  ELSE data_cursor + buffer_cursor \div 8

TakeByte ==
  \/ /\ buffer_cursor > 64 - 8
     /\ fetch_next_block
     /\ buffer_cursor' = 8
  \/ /\ buffer_cursor <= 64 - 8
     /\ buffer_cursor' = buffer_cursor + 8
     /\ UNCHANGED <<data_cursor, buffer>>

Memory(i) == IF InArray(i) THEN {data[i]} ELSE Beyond
-----------------------------------------------------------------------------
Init ==
  /\ data \in Inputs
  /\ data_cursor = WordSize - 8
  /\ buffer_cursor = 64
  /\ buffer = [n \in 0..63 |-> 0]
  /\ call = "idle" /\ left = 0 /\ read = << >>
  /\ got = << >>
  /\ account = 0
  /\ misaligned = 0

Start(name, n) == call' = name /\ left' = n /\ read' = << >>

Return == call' = "idle" /\ left' = 0 /\ read' = << >>

(* InputTracker charges a call of w bits before it makes it.               *)
Charge(w) ==
  /\ call = "idle"
  /\ Position + w <= MaxBits
  /\ account' = account + w

NextBit ==
  /\ Charge(1)
  /\ TakeBit
  /\ got' = <<BitTaken>>
  /\ UNCHANGED <<data, loop, misaligned>>

NextWord(w) ==
  /\ Charge(w)
  /\ buffer_cursor + w <= 64
  /\ got' = [k \in 1..w |-> buffer[buffer_cursor + k - 1]]
  /\ buffer_cursor' = buffer_cursor + w
  /\ UNCHANGED <<data, data_cursor, buffer, loop, misaligned>>

(* next_word_fallback, for a word that crosses the end of the buffer.      *)
NextWordFallback(w) ==
  /\ Charge(w)
  /\ buffer_cursor + w > 64
  /\ Start("word", w)
  /\ UNCHANGED <<data, reader, got, misaligned>>

FallbackBit ==
  /\ call = "word" /\ left > 0
  /\ TakeBit
  /\ left' = left - 1 /\ read' = Append(read, BitTaken) /\ UNCHANGED call
  /\ UNCHANGED <<data, got, account, misaligned>>

(* ensure_aligned on a boundary does nothing.  Off one, it computes the    *)
(* number it will return, skips the rest of the byte, and returns.         *)
AlreadyAligned ==
  /\ call = "idle"
  /\ bit_cursor = 0
  /\ got' = << >>
  /\ UNCHANGED <<data, reader, loop, account, misaligned>>

EnsureAligned ==
  /\ call = "idle"
  /\ bit_cursor # 0
  /\ Start("align", 7 - bit_cursor)
  /\ misaligned' = misaligned + 1
  /\ UNCHANGED <<data, reader, got, account>>

(* Mutant: flush_current_byte looks at the bit without taking it.          *)
FlushPeek ==
  /\ call = "align" /\ bit_cursor # 0
  /\ UNCHANGED vars

(* One iteration of flush_current_byte.                                    *)
FlushBit ==
  /\ call = "align" /\ bit_cursor # 0
  /\ TakeBit
  /\ read' = Append(read, BitTaken) /\ UNCHANGED <<call, left>>
  /\ UNCHANGED <<data, got, account, misaligned>>

(* Mutant: the bits skipped are charged to no account.                     *)
AlignEndUncharged ==
  /\ call = "align" /\ bit_cursor = 0
  /\ Return
  /\ got' = << >>
  /\ UNCHANGED <<data, reader, account, misaligned>>

AlignEnd ==
  /\ call = "align" /\ bit_cursor = 0
  /\ account' = account + left
  /\ Return
  /\ got' = << >>
  /\ UNCHANGED <<data, reader, misaligned>>

NextByte ==
  /\ Charge(8)
  /\ bit_cursor = 0 /\ InArray(ByteIndex)
  /\ TakeByte
  /\ got' = Tuple(data[ByteIndex])
  /\ UNCHANGED <<data, loop, misaligned>>

(* next_short takes both bytes from memory when the buffer has both, with  *)
(* no check against the size of the array ...                              *)
NextShort ==
  /\ Charge(16)
  /\ bit_cursor = 0 /\ buffer_cursor <= 64 - 16
  /\ \E low \in Memory(ByteIndex), high \in Memory(ByteIndex + 1) :
       got' = Tuple(low) \o Tuple(high)
  /\ buffer_cursor' = buffer_cursor + 16
  /\ UNCHANGED <<data, data_cursor, buffer, loop, misaligned>>

(* ... and otherwise by two calls of next_byte, the left one first: C++    *)
(* leaves the order of the operands of | open, and a compiler that took    *)
(* the right one first would read the bytes in the wrong order; the model  *)
(* takes the order that makes next_short little-endian.                    *)
NextShortByBytes ==
  /\ Charge(16)
  /\ bit_cursor = 0 /\ buffer_cursor > 64 - 16
  /\ Start("short", 2)
  /\ UNCHANGED <<data, reader, got, misaligned>>

(* Mutant: the operand on the right is evaluated first.                    *)
ShortByteRightFirst ==
  /\ call = "short" /\ left > 0
  /\ InArray(ByteIndex)
  /\ TakeByte
  /\ left' = left - 1 /\ read' = Tuple(data[ByteIndex]) \o read
  /\ UNCHANGED call
  /\ UNCHANGED <<data, got, account, misaligned>>

ShortByte ==
  /\ call = "short" /\ left > 0
  /\ InArray(ByteIndex)
  /\ TakeByte
  /\ left' = left - 1 /\ read' = read \o Tuple(data[ByteIndex])
  /\ UNCHANGED call
  /\ UNCHANGED <<data, got, account, misaligned>>

(* The end of next_word_fallback or of next_short.                         *)
CallEnd ==
  /\ call \in {"word", "short"} /\ left = 0
  /\ got' = read
  /\ Return
  /\ UNCHANGED <<data, reader, account, misaligned>>

(* An assertion fails: a byte or a short off a boundary, or next_byte past *)
(* the array.                                                              *)
Abort ==
  /\ \/ call = "idle" /\ bit_cursor # 0
     \/ call = "idle" /\ ~InArray(ByteIndex)
     \/ call = "short" /\ left > 0 /\ ~InArray(ByteIndex)
  /\ call' = "aborted"
  /\ UNCHANGED <<data, reader, left, read, got, account, misaligned>>

(* The steps of a call in progress.                                        *)
CallStep == FallbackBit \/ FlushBit \/ AlignEnd \/ ShortByte \/ CallEnd \/ Abort

Next ==
  \/ NextBit
  \/ \E w \in Widths : NextWord(w) \/ NextWordFallback(w)
  \/ AlreadyAligned
  \/ EnsureAligned
  \/ NextByte
  \/ NextShort
  \/ NextShortByBytes
  \/ CallStep

Spec == Init /\ [][Next]_vars

(* A call that was made runs to its end: nothing else runs in its thread.  *)
FairSpec == Spec /\ WF_vars(call # "idle" /\ CallStep)
-----------------------------------------------------------------------------
TypeOK ==
  /\ data \in Inputs
  /\ data_cursor \in 0 .. WordSize - 1
  /\ buffer_cursor \in 0..64
  /\ buffer \in [0..63 -> Bit]
  /\ call \in {"idle", "word", "align", "short", "aborted"}
  /\ left \in 0..64
  /\ read \in Seq(Bit)
  /\ got \in Seq(Bit)
  /\ account \in Nat
  /\ misaligned \in Nat

(* The buffer is the part of the stream that data_cursor says, zeros past  *)
(* the array included: bits come from the buffer and bytes from the array, *)
(* and Deflater mixes both (io_inl.hh:13-53).                              *)
BufferHoldsStream ==
  data_cursor # WordSize - 8 =>
    \A n \in 0..63 :
      buffer[n] = IF InArray(data_cursor + n \div 8)
                  THEN data[data_cursor + n \div 8][n % 8]
                  ELSE 0

(* Between calls the accounts hold every bit consumed, but for one bit of  *)
(* each skip to a byte boundary.                                           *)
AccountLagsBySkips == call = "idle" => Position = account + misaligned

(* "takes care of accounting the number of bits read to some account"      *)
(* (zip.hh:26-27): between calls the accounts hold every bit consumed.     *)
AccountsForEveryBit == call = "idle" => Position = account

(* Every call returns or aborts: flush_current_byte, whose loop only looks *)
(* at the cursor, reaches the boundary also when it lies at the end of the *)
(* buffer (io.cc:23-26).                                                   *)
CallsReturn == call # "idle" ~> call \in {"idle", "aborted"}
-----------------------------------------------------------------------------
(* What a caller has consumed: the bits of a call in progress are not yet  *)
(* his.                                                                    *)
Consumed == Position - Len(read)

Stream == INSTANCE BitStream WITH
            pos    <- Consumed,
            status <- IF call = "aborted" THEN "aborted" ELSE "reading"

(* The buffered reader implements the plain bit stream (io_inl.hh:13-53,   *)
(* io.cc:23-60).                                                           *)
ImplementsBitStream == Stream!Spec
-----------------------------------------------------------------------------
(* What the properties rest on.  The cursors stay clear of the ends of     *)
(* uint32_t; the bits a loop has read so far are those of the stream from  *)
(* where the call began, and the skip of ensure_aligned has not passed the *)
(* boundary; the accounts are ahead of a call by what it has yet to read.  *)
StreamBit(p) == IF InArray(p \div 8) THEN data[p \div 8][p % 8] ELSE 0

CursorsInRange ==
  /\ \/ data_cursor = WordSize - 8 /\ buffer_cursor = 64
     \/ data_cursor \in 0 .. WordSize - 20
  /\ Position <= MaxBits + 7

CallValid ==
  /\ call = "idle" =>
       /\ Len(read) = 0
       /\ Position <= MaxBits \/ Position % 8 = 0
  /\ call = "word" =>
       /\ left + Len(read) \in Widths
       /\ Position + left <= MaxBits
  /\ call = "short" =>
       /\ Len(read) = 8 * (2 - left)
       /\ Position % 8 = 0 /\ Position + 8 * left <= MaxBits
       /\ \A k \in 1 .. Len(read) : InArray((Consumed + k - 1) \div 8)
  /\ call = "align" =>
       /\ Consumed % 8 # 0 /\ Consumed <= MaxBits
       /\ left = 7 - (Consumed % 8)
       /\ Position <= 8 * (Consumed \div 8) + 8
  /\ Consumed >= 0
  /\ \A k \in 1 .. Len(read) :
       read[k] = StreamBit(Consumed + k - 1)

AccountValid ==
  /\ call = "idle" => Position = account + misaligned
  /\ call = "word" => Position + left = account + misaligned
  /\ call = "short" => Position + 8 * left = account + misaligned
  /\ call = "align" => Consumed + 1 = account + misaligned

IInv ==
  /\ TypeOK
  /\ CursorsInRange
  /\ BufferHoldsStream
  /\ CallValid
  /\ AccountValid
=============================================================================
