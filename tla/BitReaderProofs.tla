--------------------------- MODULE BitReaderProofs ---------------------------
(***************************************************************************)
(* Proofs about BitReader, for every set of input arrays, every width up   *)
(* to 64 and every bound: the inductive invariant IInv, the safety         *)
(* invariants that follow, and the refinement of BitStream.                *)
(***************************************************************************)
EXTENDS BitReader, SequenceTheorems, TLAPS

-----------------------------------------------------------------------------
(* What the two ways of taking data do to the reader.                      *)

(* Arithmetic on operands that the provers know nothing else about.        *)
LEMMA NatFacts ==
  /\ \A p \in Nat : p - 0 = p /\ p >= 0
  /\ \A c, l \in Nat : (c + l) - l = c
  /\ \A c, l \in Nat : (c + l + 1) - (l + 1) = c
  /\ \A c, l, n \in Nat : (c + l + n) - (l + n) = c
OBVIOUS

(* Facts on the operands that every step needs.                            *)
LEMMA Ranges ==
  ASSUME TypeOK, CursorsInRange
  PROVE  /\ WordSize \in Nat /\ MaxBits \in Nat
         /\ MaxBits <= 8 * (WordSize - 24)
         /\ data_cursor \in 0 .. WordSize - 1 /\ buffer_cursor \in 0..64
         /\ Position \in Nat
         /\ data_cursor = WordSize - 8 => Position = 0 /\ buffer_cursor = 64
         /\ data_cursor # WordSize - 8 => Position = 8 * data_cursor + buffer_cursor
<1>1. /\ data_cursor \in 0 .. WordSize - 1 /\ buffer_cursor \in 0..64
      /\ \/ data_cursor = WordSize - 8 /\ buffer_cursor = 64
         \/ data_cursor \in 0 .. WordSize - 20
  BY DEF TypeOK, CursorsInRange
<1>2. /\ WordSize \in Nat /\ MaxBits \in Nat
      /\ MaxBits <= 8 * (WordSize - 24)
  BY InputsAssumption
<1>3. WordSize >= 24
  BY <1>2
<1>4. CASE data_cursor = WordSize - 8
  BY <1>1, <1>2, <1>3, <1>4 DEF Position
<1>5. CASE data_cursor # WordSize - 8
  BY <1>1, <1>2, <1>3, <1>5 DEF Position
<1> QED
  BY <1>1, <1>2, <1>4, <1>5

(* What BufferHoldsStream says only depends on the data, the buffer and    *)
(* its offset.                                                             *)
LEMMA BufferKept ==
  ASSUME BufferHoldsStream, UNCHANGED <<data, data_cursor, buffer>>
  PROVE  BufferHoldsStream'
BY DEF BufferHoldsStream, InArray

(* The bits of a byte of the array are bits.                               *)
LEMMA DataBits ==
  ASSUME data \in Inputs, NEW i, InArray(i)
  PROVE  i \in Nat /\ data[i] \in Octet
BY InputsAssumption DEF InArray

(* A bit of the stream is a bit.                                           *)
LEMMA StreamBitIsBit ==
  ASSUME data \in Inputs, NEW p \in Nat
  PROVE  StreamBit(p) \in Bit
<1>1. p % 8 \in 0..7
  OBVIOUS
<1>2. CASE InArray(p \div 8)
  BY <1>1, <1>2, DataBits DEF StreamBit, Octet, Bit
<1>3. CASE ~InArray(p \div 8)
  BY <1>3 DEF StreamBit, Bit
<1> QED
  BY <1>2, <1>3

(* A fetch loads the 64 bits of the stream that follow the buffer.         *)
LEMMA FetchLoadsStream ==
  ASSUME TypeOK, CursorsInRange, Position <= MaxBits + 6,
         buffer_cursor > 56, buffer_cursor % 8 = 0 \/ buffer_cursor = 64,
         fetch_next_block, UNCHANGED data
  PROVE  /\ buffer_cursor = 64
         /\ data_cursor' \in 0 .. WordSize - 20
         /\ 8 * data_cursor' = Position
         /\ buffer' = NextBlock
         /\ buffer' \in [0..63 -> Bit]
         /\ BufferHoldsStream'
         /\ NextBlock[0] = StreamBit(Position)
<1>0. buffer_cursor = 64
  BY Ranges
<1>1. data_cursor' \in 0 .. WordSize - 20 /\ 8 * data_cursor' = Position
  BY <1>0, Ranges DEF fetch_next_block, WordAdd, CursorsInRange
<1>2. buffer' = [n \in 0..63 |-> IF InArray(data_cursor' + n \div 8)
                                 THEN data[data_cursor' + n \div 8][n % 8]
                                 ELSE 0]
  BY DEF fetch_next_block, NextBlock
<1>3. ASSUME NEW n \in 0..63
      PROVE  buffer'[n] = StreamBit(Position + n)
  <2>1. /\ (Position + n) \div 8 = data_cursor' + n \div 8
        /\ (Position + n) % 8 = n % 8
    BY <1>1
  <2> QED
    BY <1>2, <2>1 DEF StreamBit
<1>4. buffer' \in [0..63 -> Bit]
  <2>1. \A n \in 0..63 : buffer'[n] \in Bit
    <3>1. data \in Inputs
      BY DEF TypeOK
    <3>2. \A n \in 0..63 : Position + n \in Nat
      BY Ranges
    <3> QED
      BY <1>3, <3>1, <3>2, StreamBitIsBit
  <2> QED
    BY <1>2, <2>1
<1>5. BufferHoldsStream'
  BY <1>2 DEF BufferHoldsStream, InArray
<1>6. NextBlock[0] = StreamBit(Position)
  <2>1. buffer' = NextBlock /\ Position + 0 = Position
    BY Ranges DEF fetch_next_block
  <2> QED
    BY <1>3, <2>1
<1> QED
  BY <1>0, <1>1, <1>4, <1>5, <1>6 DEF fetch_next_block

(* A bit the buffer still has is the next bit of the stream.               *)
LEMMA BufferedBit ==
  ASSUME TypeOK, CursorsInRange, BufferHoldsStream,
         NEW n \in 0..63, buffer_cursor <= n
  PROVE  /\ buffer[n] = StreamBit(Position + (n - buffer_cursor))
         /\ data_cursor # WordSize - 8
<1>1. data_cursor # WordSize - 8 /\ data_cursor \in Nat
      /\ Position = 8 * data_cursor + buffer_cursor
  BY Ranges DEF CursorsInRange
<1> DEFINE p == Position + (n - buffer_cursor)
<1>2. p = 8 * data_cursor + n
  BY <1>1, Ranges
<1>3. p \div 8 = data_cursor + n \div 8 /\ p % 8 = n % 8
  BY <1>1, <1>2
<1>4. buffer[n] = IF InArray(data_cursor + n \div 8)
                  THEN data[data_cursor + n \div 8][n % 8]
                  ELSE 0
  BY <1>1 DEF BufferHoldsStream
<1> HIDE DEF p
<1>5. buffer[n] = StreamBit(p)
  BY <1>3, <1>4 DEF StreamBit
<1> QED
  BY <1>1, <1>5 DEF p

(* next_bit returns the next bit of the stream and advances by one.        *)
LEMMA TakeBitAdvances ==
  ASSUME TypeOK, CursorsInRange, BufferHoldsStream, TakeBit, UNCHANGED data,
         Position <= MaxBits + 6
  PROVE  /\ BitTaken = StreamBit(Position) /\ BitTaken \in Bit
         /\ Position' = Position + 1
         /\ CursorsInRange' /\ BufferHoldsStream'
         /\ data_cursor' \in 0 .. WordSize - 1 /\ buffer_cursor' \in 0..64
         /\ buffer' \in [0..63 -> Bit]
<1>1. CASE buffer_cursor = 64
  <2>1. fetch_next_block /\ buffer_cursor' = 1
    BY <1>1 DEF TakeBit
  <2>2. /\ data_cursor' \in 0 .. WordSize - 20 /\ 8 * data_cursor' = Position
        /\ buffer' \in [0..63 -> Bit] /\ BufferHoldsStream'
        /\ NextBlock[0] = StreamBit(Position)
    BY <1>1, <2>1, FetchLoadsStream
  <2>3. Position' = Position + 1
    BY <2>1, <2>2, Ranges DEF Position
  <2>4. BitTaken = StreamBit(Position) /\ BitTaken \in Bit
    BY <1>1, <2>2, StreamBitIsBit, Ranges DEF BitTaken, TypeOK
  <2> QED
    BY <2>1, <2>2, <2>3, <2>4, Ranges DEF CursorsInRange
<1>2. CASE buffer_cursor # 64
  <2>1. /\ buffer_cursor' = buffer_cursor + 1 /\ buffer_cursor \in 0..63
        /\ UNCHANGED <<data_cursor, buffer, data>>
    BY <1>2, Ranges DEF TakeBit
  <2>2. buffer[buffer_cursor] = StreamBit(Position) /\ data_cursor # WordSize - 8
    <3>1. Position + (buffer_cursor - buffer_cursor) = Position
      BY Ranges
    <3> QED
      BY <2>1, <3>1, BufferedBit
  <2>3. Position' = Position + 1
    BY <2>1, <2>2, Ranges DEF Position
  <2>4. BitTaken = StreamBit(Position) /\ BitTaken \in Bit
    BY <1>2, <2>2, StreamBitIsBit, Ranges DEF BitTaken, TypeOK
  <2>5. BufferHoldsStream' /\ buffer' \in [0..63 -> Bit]
    BY <2>1, BufferKept DEF TypeOK
  <2>6. CursorsInRange'
    BY <2>1, <2>2, <2>3, Ranges DEF CursorsInRange
  <2> QED
    BY <2>1, <2>2, <2>3, <2>4, <2>5, <2>6, Ranges
<1> QED
  BY <1>1, <1>2

(* On a boundary, byte ByteIndex of the array is the next byte of the      *)
(* stream.                                                                 *)
LEMMA ByteIndexIsNext ==
  ASSUME TypeOK, CursorsInRange, bit_cursor = 0
  PROVE  /\ ByteIndex \in Nat /\ 8 * ByteIndex = Position
         /\ Position % 8 = 0
         /\ buffer_cursor > 56 => buffer_cursor = 64
<1>1. buffer_cursor > 56 => buffer_cursor = 64
  BY Ranges DEF bit_cursor
<1>2. CASE buffer_cursor = 64
  BY <1>2, Ranges DEF ByteIndex, WordAdd, CursorsInRange
<1>3. CASE buffer_cursor # 64
  <2>1. 8 * (buffer_cursor \div 8) = buffer_cursor
    BY Ranges DEF bit_cursor
  <2>2. data_cursor # WordSize - 8 /\ Position = 8 * data_cursor + buffer_cursor
    BY <1>3, Ranges
  <2>3. buffer_cursor <= 56
    BY <1>1, <1>3, Ranges
  <2> QED
    <3>1. ByteIndex = data_cursor + buffer_cursor \div 8
      BY <2>3, Ranges DEF ByteIndex
    <3>2. buffer_cursor \div 8 \in Nat /\ data_cursor \in Nat
      BY Ranges
    <3>3. ByteIndex \in Nat /\ 8 * ByteIndex = Position
      BY <2>1, <2>2, <3>1, <3>2
    <3> QED
      BY <1>1, <3>3
<1> QED
  BY <1>1, <1>2, <1>3

(* next_byte advances by one byte.                                         *)
LEMMA TakeByteAdvances ==
  ASSUME TypeOK, CursorsInRange, BufferHoldsStream, TakeByte, UNCHANGED data,
         bit_cursor = 0, Position + 8 <= MaxBits
  PROVE  /\ Position' = Position + 8
         /\ CursorsInRange' /\ BufferHoldsStream'
         /\ data_cursor' \in 0 .. WordSize - 1 /\ buffer_cursor' \in 0..64
         /\ buffer' \in [0..63 -> Bit]
<1>1. CASE buffer_cursor > 64 - 8
  <2>1. fetch_next_block /\ buffer_cursor' = 8 /\ buffer_cursor = 64
    <3>1. Position <= MaxBits + 6 /\ buffer_cursor \in 0..64
      BY Ranges
    <3>2. buffer_cursor = 64
      BY <1>1, <3>1, ByteIndexIsNext
    <3> QED
      BY <3>2 DEF TakeByte
  <2>2. /\ data_cursor' \in 0 .. WordSize - 20 /\ 8 * data_cursor' = Position
        /\ buffer' \in [0..63 -> Bit] /\ BufferHoldsStream'
    BY <2>1, FetchLoadsStream, Ranges
  <2>3. Position' = Position + 8
    BY <2>1, <2>2, Ranges DEF Position
  <2>4. CursorsInRange'
    BY <2>1, <2>2, <2>3, Ranges DEF CursorsInRange
  <2> QED
    BY <2>1, <2>2, <2>3, <2>4, Ranges
<1>2. CASE ~(buffer_cursor > 64 - 8)
  <2>1. /\ buffer_cursor' = buffer_cursor + 8 /\ buffer_cursor <= 56
        /\ UNCHANGED <<data_cursor, buffer, data>>
    BY <1>2, Ranges DEF TakeByte
  <2>2. data_cursor # WordSize - 8
    BY <2>1, Ranges
  <2>3. Position' = Position + 8
    BY <2>1, <2>2, Ranges DEF Position
  <2>5. BufferHoldsStream' /\ buffer' \in [0..63 -> Bit]
    BY <2>1, BufferKept DEF TypeOK
  <2>6. CursorsInRange'
    BY <2>1, <2>2, <2>3, Ranges DEF CursorsInRange
  <2> QED
    BY <2>1, <2>2, <2>3, <2>5, <2>6, Ranges
<1> QED
  BY <1>1, <1>2

(* An octet as a tuple of its bits.                                        *)
LEMMA TupleOfBits ==
  ASSUME NEW m \in Octet
  PROVE  Tuple(m) \in Seq(Bit) /\ Len(Tuple(m)) = 8
<1>1. Tuple(m) \in [1..8 -> Bit]
  BY DEF Tuple, Octet
<1>2. Tuple(m) \in Seq(Bit)
  BY <1>1, SeqDef
<1> QED
  BY <1>1, <1>2, LenProperties

(* The bits of a byte, as a tuple, are bits of the stream.                 *)
LEMMA TupleIsStream ==
  ASSUME data \in Inputs, NEW i, InArray(i)
  PROVE  /\ Tuple(data[i]) \in Seq(Bit) /\ Len(Tuple(data[i])) = 8
         /\ \A k \in 1..8 : Tuple(data[i])[k] = StreamBit(8 * i + k - 1)
<1>1. i \in Nat /\ data[i] \in Octet
  BY DataBits
<1>2. Tuple(data[i]) \in Seq(Bit) /\ Len(Tuple(data[i])) = 8
  BY <1>1, TupleOfBits
<1>5. ASSUME NEW k \in 1..8
      PROVE  Tuple(data[i])[k] = StreamBit(8 * i + k - 1)
  <2>1. (8 * i + k - 1) \div 8 = i /\ (8 * i + k - 1) % 8 = k - 1
    BY <1>1
  <2> QED
    BY <2>1 DEF Tuple, StreamBit
<1> QED
  BY <1>2, <1>5

-----------------------------------------------------------------------------
(* IInv is inductive: a lemma for each group of actions.                   *)

(* What a call in progress may be, and how far it may run.                 *)
LEMMA CallBounds ==
  ASSUME IInv
  PROVE  /\ Len(read) \in Nat /\ left \in 0..64
         /\ read \in Seq(Bit)
         /\ Consumed \in Nat /\ Position = Consumed + Len(read)
         /\ call = "idle" => Len(read) = 0
         /\ call = "word" => Position + left <= MaxBits
         /\ call = "short" => Position + 8 * left <= MaxBits
         /\ call = "align" /\ bit_cursor # 0 =>
              Position + 1 <= 8 * (Consumed \div 8) + 8
         /\ call = "align" => Position <= MaxBits + 7
<1>1. /\ TypeOK /\ CursorsInRange /\ CallValid
      /\ Position \in Nat /\ Position <= MaxBits + 7
  BY Ranges DEF IInv, CursorsInRange
<1>2. /\ read \in Seq(Bit) /\ left \in 0..64
      /\ Len(read) \in Nat
  BY <1>1, LenProperties DEF TypeOK
<1>3. Consumed \in Nat /\ Position = Consumed + Len(read)
  BY <1>1, <1>2 DEF Consumed, CallValid
<1>4. call = "idle" => Len(read) = 0
  BY <1>1 DEF CallValid
<1>5. call = "align" /\ bit_cursor # 0 =>
        Position + 1 <= 8 * (Consumed \div 8) + 8
  <2>1. Position % 8 = bit_cursor
    BY <1>1, Ranges DEF bit_cursor
  <2>2. ASSUME NEW p \in Nat, NEW q \in Nat, p <= 8 * q + 8, p % 8 # 0
        PROVE  p + 1 <= 8 * q + 8
    BY <2>2
  <2>3. Consumed \div 8 \in Nat
    BY <1>3
  <2> QED
    BY <1>1, <2>1, <2>2, <2>3 DEF CallValid
<1> QED
  BY <1>1, <1>2, <1>3, <1>4, <1>5 DEF CallValid

(* What an iteration over next_bit does with the bit.                      *)
BitAppended == read' = Append(read, BitTaken)

(* One more bit read by a call in progress is the stream's next.           *)
LEMMA ReadBitExtends ==
  ASSUME IInv, TakeBit, UNCHANGED data, Position <= MaxBits + 6,
         BitAppended
  PROVE  /\ CursorsInRange' /\ BufferHoldsStream'
         /\ Position' = Position + 1
         /\ data_cursor' \in 0 .. WordSize - 1 /\ buffer_cursor' \in 0..64
         /\ buffer' \in [0..63 -> Bit]
         /\ read' \in Seq(Bit) /\ Len(read') = Len(read) + 1
         /\ Consumed' = Consumed
         /\ \A k \in 1 .. Len(read') :
              read'[k] = StreamBit(Consumed + k - 1)
<1>1. TypeOK /\ CursorsInRange /\ BufferHoldsStream
  BY DEF IInv
<1>2. /\ CursorsInRange' /\ BufferHoldsStream' /\ Position' = Position + 1
      /\ data_cursor' \in 0 .. WordSize - 1 /\ buffer_cursor' \in 0..64
      /\ buffer' \in [0..63 -> Bit]
      /\ BitTaken = StreamBit(Position) /\ BitTaken \in Bit
  BY <1>1, TakeBitAdvances
<1>3. /\ read' \in Seq(Bit) /\ Len(read') = Len(read) + 1
      /\ read'[Len(read) + 1] = BitTaken
      /\ \A k \in 1 .. Len(read) : read'[k] = read[k]
  BY <1>2, CallBounds, AppendProperties DEF BitAppended
<1>4. Consumed' = Consumed
  <2>1. Consumed' = Position' - Len(read')
    BY DEF Consumed
  <2>2. /\ Consumed \in Nat /\ Len(read) \in Nat
        /\ Position = Consumed + Len(read)
    BY CallBounds
  <2>3. Len(read') = Len(read) + 1 /\ Position' = Position + 1
    BY <1>2, <1>3
  <2> QED
    BY <2>1, <2>2, <2>3
<1>5. ASSUME NEW k \in 1 .. Len(read')
      PROVE  read'[k] = StreamBit(Consumed + k - 1)
  <2>1. CASE k = Len(read) + 1
    <3>1. Consumed + k - 1 = Position
      BY <2>1, CallBounds
    <3> QED
      BY <1>2, <1>3, <2>1, <3>1
  <2>2. CASE k # Len(read) + 1
    <3>1. k \in 1 .. Len(read)
      BY <1>3, <2>2, CallBounds
    <3> QED
      BY <1>3, <3>1 DEF IInv, CallValid
  <2> QED
    BY <2>1, <2>2
<1> QED
  BY <1>2, <1>3, <1>4, <1>5

(* What holds of the tracker between calls.                                *)
LEMMA IdleFacts ==
  ASSUME IInv, call = "idle"
  PROVE  /\ Len(read) = 0 /\ read \in Seq(Bit) /\ Consumed = Position
         /\ Position = account + misaligned
         /\ account \in Nat /\ misaligned \in Nat
<1>1. Len(read) = 0 /\ read \in Seq(Bit) /\ Position \in Nat
  BY Ranges DEF IInv, CallValid, TypeOK
<1>2. Position = account + misaligned /\ account \in Nat /\ misaligned \in Nat
  BY DEF IInv, TypeOK, AccountValid
<1> QED
  BY <1>1, <1>2 DEF Consumed

(* A call that returned leaves a state of IInv when it moved the reader    *)
(* and the accounts alike.                                                 *)
LEMMA ReturnedIsValid ==
  ASSUME data' \in Inputs, call' = "idle", left' \in 0..64, read' \in Seq(Bit), Len(read') = 0,
         CursorsInRange', BufferHoldsStream', Position' \in Nat,
         data_cursor' \in 0 .. WordSize - 1, buffer_cursor' \in 0..64,
         buffer' \in [0..63 -> Bit], got' \in Seq(Bit),
         account' \in Nat, misaligned' \in Nat,
         Position' = account' + misaligned',
         Position' <= MaxBits \/ Position' % 8 = 0
  PROVE  IInv' /\ Consumed' = Position'
<1>2. Consumed' = Position'
  <2>1. Consumed' = Position' - Len(read')
    BY DEF Consumed
  <2> QED
    BY <2>1, NatFacts, Zenon
<1>3. TypeOK'
  BY DEF TypeOK
<1>4. CallValid'
  <2>1. ASSUME NEW k \in 1 .. Len(read') PROVE FALSE
    OBVIOUS
  <2>2. Consumed' >= 0
    BY <1>2, NatFacts, Zenon
  <2> QED
    BY <2>1, <2>2 DEF CallValid
<1>5. AccountValid'
  BY DEF AccountValid
<1> QED
  BY <1>2, <1>3, <1>4, <1>5 DEF IInv

(* The stream from p on, n bits of it.                                     *)
IsStream(s, p, n) ==
  /\ s \in Seq(Bit) /\ Len(s) = n
  /\ \A k \in 1..n : s[k] = StreamBit(p + k - 1)

(* next_bit preserves IInv and returns the next bit of the stream.         *)
LEMMA NextBitStep ==
  ASSUME IInv, NextBit
  PROVE  /\ IInv' /\ call = "idle" /\ call' = "idle"
         /\ Consumed' = Consumed + 1 /\ IsStream(got', Consumed, 1)
<1>1. /\ call = "idle" /\ Position + 1 <= MaxBits /\ account' = account + 1
      /\ TakeBit /\ got' = <<BitTaken>>
      /\ UNCHANGED <<data, loop, misaligned>>
  BY DEF NextBit, Charge
<1>2. TypeOK /\ CursorsInRange /\ BufferHoldsStream /\ Position \in Nat
      /\ left \in 0..64
  BY <1>1, Ranges DEF IInv, TypeOK
<1>3. /\ BitTaken = StreamBit(Position) /\ BitTaken \in Bit
      /\ Position' = Position + 1
      /\ CursorsInRange' /\ BufferHoldsStream'
      /\ data_cursor' \in 0 .. WordSize - 1 /\ buffer_cursor' \in 0..64
      /\ buffer' \in [0..63 -> Bit]
  <2>1. Position <= MaxBits + 6
    BY <1>1, <1>2, Ranges
  <2> QED
    BY <1>1, <1>2, <2>1, TakeBitAdvances
<1>4. /\ Len(read) = 0 /\ read \in Seq(Bit) /\ Consumed = Position
      /\ Position = account + misaligned
      /\ account \in Nat /\ misaligned \in Nat
  BY <1>1, IdleFacts
<1>5. IsStream(got', Position, 1)
  <2>1. got' \in Seq(Bit) /\ Len(got') = 1 /\ got'[1] = BitTaken
    BY <1>1, <1>3
  <2>2. Position + 1 - 1 = Position
    BY <1>2
  <2> QED
    BY <1>3, <2>1, <2>2 DEF IsStream
<1>6. IInv' /\ Consumed' = Position'
  <2>1. /\ data' \in Inputs /\ call' = "idle" /\ left' \in 0..64
        /\ read' \in Seq(Bit) /\ Len(read') = 0
        /\ misaligned' = misaligned
    BY <1>1, <1>2, <1>4 DEF loop, TypeOK
  <2>2. Position' \in Nat /\ account' \in Nat /\ misaligned' \in Nat
        /\ Position' = account' + misaligned' /\ Position' <= MaxBits
    BY <1>1, <1>2, <1>3, <1>4, <2>1
  <2>3. got' \in Seq(Bit)
    BY <1>5 DEF IsStream
  <2> QED
    BY <1>3, <2>1, <2>2, <2>3, ReturnedIsValid
<1> QED
  BY <1>1, <1>3, <1>4, <1>5, <1>6 DEF loop

(* next_word inside the buffer preserves IInv and returns the next bits.   *)
LEMMA NextWordStep ==
  ASSUME IInv, NEW w \in Widths, NextWord(w)
  PROVE  /\ IInv' /\ call = "idle" /\ call' = "idle"
         /\ Consumed' = Consumed + w /\ IsStream(got', Consumed, w)
<1>1. /\ call = "idle" /\ Position + w <= MaxBits /\ account' = account + w
      /\ buffer_cursor + w <= 64 /\ buffer_cursor' = buffer_cursor + w
      /\ got' = [k \in 1..w |-> buffer[buffer_cursor + k - 1]]
      /\ UNCHANGED <<data, data_cursor, buffer, loop, misaligned>>
  BY DEF NextWord, Charge
<1>2. TypeOK /\ CursorsInRange /\ BufferHoldsStream /\ Position \in Nat
      /\ left \in 0..64 /\ w \in 1..64 /\ buffer_cursor \in 0..64
  <2>1. TypeOK /\ CursorsInRange /\ BufferHoldsStream /\ left \in 0..64
    BY DEF IInv, TypeOK
  <2>2. w \in 1..64
    BY OperandsAssumption
  <2> QED
    BY <2>1, <2>2, Ranges
<1>3. /\ Len(read) = 0 /\ read \in Seq(Bit) /\ Consumed = Position
      /\ Position = account + misaligned
      /\ account \in Nat /\ misaligned \in Nat
  BY <1>1, IdleFacts
<1>4. data_cursor # WordSize - 8
  BY <1>1, <1>2, Ranges
<1>5. Position' = Position + w
  BY <1>1, <1>2, <1>4, Ranges DEF Position
<1>6. IsStream(got', Position, w)
  <2>1. ASSUME NEW k \in 1..w
        PROVE  /\ got'[k] = StreamBit(Position + k - 1)
               /\ got'[k] \in Bit
    <3>1. /\ buffer_cursor + k - 1 \in 0..63
          /\ buffer_cursor <= buffer_cursor + k - 1
          /\ Position + ((buffer_cursor + k - 1) - buffer_cursor) = Position + k - 1
      BY <1>1, <1>2
    <3>2. got'[k] = buffer[buffer_cursor + k - 1]
      BY <1>1
    <3>3. buffer[buffer_cursor + k - 1] \in Bit
      BY <1>2, <3>1 DEF TypeOK
    <3> QED
      BY <1>2, <3>1, <3>2, <3>3, BufferedBit
  <2>2. got' \in [1..w -> Bit] /\ w \in Nat
    <3>1. w \in Nat
      BY <1>2
    <3>2. got' = [k \in 1..w |-> buffer[buffer_cursor + k - 1]]
      BY <1>1
    <3> QED
      BY <2>1, <3>1, <3>2
  <2>3. got' \in Seq(Bit)
    BY <2>2, SeqDef
  <2>4. Len(got') = w
    BY <2>2, <2>3, LenProperties
  <2> QED
    BY <2>1, <2>3, <2>4 DEF IsStream
<1>7. IInv' /\ Consumed' = Position'
  <2>1. /\ data' \in Inputs /\ call' = "idle" /\ left' \in 0..64
        /\ read' \in Seq(Bit) /\ Len(read') = 0
        /\ misaligned' = misaligned
    BY <1>1, <1>2, <1>3 DEF loop, TypeOK
  <2>2. Position' \in Nat /\ account' \in Nat /\ misaligned' \in Nat
        /\ Position' = account' + misaligned' /\ Position' <= MaxBits
    BY <1>1, <1>2, <1>3, <1>5, <2>1
  <2>3. got' \in Seq(Bit)
    BY <1>6 DEF IsStream
  <2>4. BufferHoldsStream' /\ buffer' \in [0..63 -> Bit]
        /\ data_cursor' \in 0 .. WordSize - 1 /\ buffer_cursor' \in 0..64
    <3>1. BufferHoldsStream'
      BY <1>1, <1>2, BufferKept
    <3>3. buffer_cursor' \in 0..64
      BY <1>1, <1>2
    <3>2. buffer \in [0..63 -> Bit] /\ data_cursor \in 0 .. WordSize - 1
      BY <1>2 DEF TypeOK
    <3>4. UNCHANGED <<buffer, data_cursor>>
      BY <1>1
    <3> QED
      BY <3>1, <3>2, <3>3, <3>4
  <2>5. CursorsInRange'
    BY <1>1, <1>2, <1>4, <1>5, Ranges DEF CursorsInRange
  <2> QED
    BY <2>1, <2>2, <2>3, <2>4, <2>5, ReturnedIsValid
<1> QED
  BY <1>1, <1>3, <1>5, <1>6, <1>7 DEF loop
(* The reader does not move: what depends on it alone is kept.             *)
LEMMA ReaderKept ==
  ASSUME IInv, UNCHANGED <<data, reader>>
  PROVE  /\ CursorsInRange' /\ BufferHoldsStream' /\ Position' = Position
         /\ data' \in Inputs /\ data_cursor' \in 0 .. WordSize - 1
         /\ buffer_cursor' \in 0..64 /\ buffer' \in [0..63 -> Bit]
         /\ Position \in Nat /\ \A p : StreamBit(p)' = StreamBit(p)
<1>1. UNCHANGED <<data, data_cursor, buffer_cursor, buffer>>
  BY DEF reader
<1>2. Position' = Position
  BY <1>1 DEF Position
<1>3. TypeOK /\ CursorsInRange /\ BufferHoldsStream
  BY DEF IInv
<1>4. CursorsInRange'
  BY <1>1, <1>2, <1>3 DEF CursorsInRange
<1>5. BufferHoldsStream'
  BY <1>1, <1>3, BufferKept
<1>6. \A p : StreamBit(p)' = StreamBit(p)
  BY <1>1 DEF StreamBit, InArray
<1> QED
  BY <1>1, <1>2, <1>3, <1>4, <1>5, <1>6, Ranges DEF TypeOK

(* The first step of a call that loops reads nothing yet.                  *)
LEMMA StartKeeps ==
  ASSUME IInv, call = "idle", UNCHANGED <<data, reader, got>>,
         Len(read') = 0, read' \in Seq(Bit), left' \in 0..64,
         call' \in {"word", "align", "short"},
         account' \in Nat, misaligned' \in Nat
  PROVE  /\ TypeOK' /\ CursorsInRange' /\ BufferHoldsStream'
         /\ Position' = Position /\ Consumed' = Position
         /\ Consumed = Position /\ Position \in Nat
<1>1. /\ CursorsInRange' /\ BufferHoldsStream' /\ Position' = Position
      /\ data' \in Inputs /\ data_cursor' \in 0 .. WordSize - 1
      /\ buffer_cursor' \in 0..64 /\ buffer' \in [0..63 -> Bit]
      /\ Position \in Nat
  BY ReaderKept
<1>2. got' \in Seq(Bit)
  BY DEF IInv, TypeOK
<1>3. Consumed = Position
  BY IdleFacts
<1>4. Consumed' = Position
  <2>1. Consumed' = Position' - Len(read')
    BY DEF Consumed
  <2> QED
    BY <1>1, <2>1, NatFacts, Zenon
<1>5. TypeOK'
  BY <1>1, <1>2 DEF TypeOK
<1> QED
  BY <1>1, <1>3, <1>4, <1>5

(* The start of next_word_fallback.                                        *)
LEMMA NextWordFallbackStep ==
  ASSUME IInv, NEW w \in Widths, NextWordFallback(w)
  PROVE  /\ IInv' /\ call = "idle" /\ call' = "word"
         /\ Consumed' = Consumed /\ UNCHANGED <<data, got>>
<1>1. /\ call = "idle" /\ Position + w <= MaxBits /\ account' = account + w
      /\ call' = "word" /\ left' = w /\ read' = << >>
      /\ UNCHANGED <<data, reader, got, misaligned>>
  BY DEF NextWordFallback, Charge, Start
<1>2. /\ Position = account + misaligned
      /\ account \in Nat /\ misaligned \in Nat
  BY <1>1, IdleFacts
<1>3. w \in 1..64
  BY OperandsAssumption
<1>4. Len(read') = 0 /\ read' \in Seq(Bit)
  BY <1>1
<1>5. account' \in Nat /\ misaligned' \in Nat /\ left' \in 0..64
  BY <1>1, <1>2, <1>3
<1>6. /\ TypeOK' /\ CursorsInRange' /\ BufferHoldsStream'
      /\ Position' = Position /\ Consumed' = Position
      /\ Consumed = Position /\ Position \in Nat
  BY <1>1, <1>4, <1>5, StartKeeps
<1>7. CallValid'
  <2>1. Len(read') = 0 /\ left' + Len(read') = w
    BY <1>1, <1>3, <1>4
  <2>2. Position' + left' <= MaxBits
    BY <1>1, <1>6
  <2>3. Consumed' >= 0
    BY <1>6, NatFacts, Zenon
  <2>4. \A k \in 1 .. Len(read') : FALSE
    BY <1>4
  <2> QED
    BY <1>1, <2>1, <2>2, <2>3, <2>4 DEF CallValid
<1>8. AccountValid'
  <2>1. Position + w = (account + w) + misaligned
    BY <1>2, <1>3
  <2>2. Position' + left' = account' + misaligned'
    BY <1>1, <1>6, <2>1
  <2> QED
    BY <1>1, <2>2 DEF AccountValid
<1> QED
  BY <1>1, <1>6, <1>7, <1>8 DEF IInv

(* The start of a next_short that crosses the end of the buffer.           *)
LEMMA NextShortByBytesStep ==
  ASSUME IInv, NextShortByBytes
  PROVE  /\ IInv' /\ call = "idle" /\ call' = "short"
         /\ Consumed' = Consumed /\ UNCHANGED <<data, got>>
<1>1. /\ call = "idle" /\ Position + 16 <= MaxBits /\ account' = account + 16
      /\ bit_cursor = 0
      /\ call' = "short" /\ left' = 2 /\ read' = << >>
      /\ UNCHANGED <<data, reader, got, misaligned>>
  BY DEF NextShortByBytes, Charge, Start
<1>2. /\ Position = account + misaligned
      /\ account \in Nat /\ misaligned \in Nat
  BY <1>1, IdleFacts
<1>4. Len(read') = 0 /\ read' \in Seq(Bit)
  BY <1>1
<1>5. account' \in Nat /\ misaligned' \in Nat /\ left' \in 0..64
  BY <1>1, <1>2
<1>6. /\ TypeOK' /\ CursorsInRange' /\ BufferHoldsStream'
      /\ Position' = Position /\ Consumed' = Position
      /\ Consumed = Position /\ Position \in Nat
  BY <1>1, <1>4, <1>5, StartKeeps
<1>7. CallValid'
  <2>1. Len(read') = 8 * (2 - left')
    BY <1>1, <1>4
  <2>2. Position % 8 = 0
    <3>1. TypeOK /\ CursorsInRange /\ Position <= MaxBits + 6
      BY <1>1, <1>6, Ranges DEF IInv
    <3> QED
      BY <1>1, <3>1, ByteIndexIsNext
  <2>3. Position' % 8 = 0 /\ Position' + 8 * left' <= MaxBits
    BY <1>1, <1>6, <2>2
  <2>4. Consumed' >= 0
    BY <1>6, NatFacts, Zenon
  <2>5. \A k \in 1 .. Len(read') : FALSE
    BY <1>4
  <2> QED
    BY <1>1, <2>1, <2>3, <2>4, <2>5 DEF CallValid
<1>8. AccountValid'
  <2>1. Position + 8 * 2 = (account + 16) + misaligned
    BY <1>2
  <2>2. Position' + 8 * left' = account' + misaligned'
    BY <1>1, <1>6, <2>1
  <2> QED
    BY <1>1, <2>2 DEF AccountValid
<1> QED
  BY <1>1, <1>6, <1>7, <1>8 DEF IInv

(* The start of ensure_aligned off a boundary.                             *)
LEMMA EnsureAlignedStep ==
  ASSUME IInv, EnsureAligned
  PROVE  /\ IInv' /\ call = "idle" /\ call' = "align"
         /\ Consumed' = Consumed /\ UNCHANGED <<data, got>>
<1>1. /\ call = "idle" /\ account' = account /\ bit_cursor # 0
      /\ misaligned' = misaligned + 1
      /\ call' = "align" /\ left' = 7 - bit_cursor /\ read' = << >>
      /\ UNCHANGED <<data, reader, got>>
  BY DEF EnsureAligned, Start
<1>2. /\ Position = account + misaligned
      /\ account \in Nat /\ misaligned \in Nat
  BY <1>1, IdleFacts
<1>3. Position \in Nat /\ Position % 8 = bit_cursor /\ bit_cursor \in 0..7
  <2>1. TypeOK /\ CursorsInRange
    BY DEF IInv
  <2> QED
    BY <2>1, Ranges DEF bit_cursor
<1>4. Len(read') = 0 /\ read' \in Seq(Bit)
  BY <1>1
<1>5. account' \in Nat /\ misaligned' \in Nat /\ left' \in 0..64
  BY <1>1, <1>2, <1>3
<1>6. /\ TypeOK' /\ CursorsInRange' /\ BufferHoldsStream'
      /\ Position' = Position /\ Consumed' = Position
      /\ Consumed = Position /\ Position \in Nat
  BY <1>1, <1>4, <1>5, StartKeeps
<1>7. CallValid'
  <2>1. Position <= 8 * (Position \div 8) + 8
    BY <1>3
  <2>5. Position <= MaxBits
    BY <1>1, <1>3 DEF IInv, CallValid
  <2>2. /\ Consumed' % 8 # 0 /\ left' = 7 - (Consumed' % 8)
        /\ Consumed' <= MaxBits /\ Position' <= 8 * (Consumed' \div 8) + 8
    BY <1>1, <1>3, <1>6, <2>1, <2>5
  <2>3. Consumed' >= 0
    BY <1>6, NatFacts, Zenon
  <2>4. \A k \in 1 .. Len(read') : FALSE
    BY <1>4
  <2> QED
    BY <1>1, <2>2, <2>3, <2>4 DEF CallValid
<1>8. AccountValid'
  <2>1. Position + 1 = account + (misaligned + 1)
    BY <1>2
  <2>2. Consumed' + 1 = account' + misaligned'
    BY <1>1, <1>6, <2>1
  <2> QED
    BY <1>1, <2>2 DEF AccountValid
<1> QED
  BY <1>1, <1>6, <1>7, <1>8 DEF IInv
(* An iteration of next_word_fallback.                                     *)
LEMMA FallbackBitStep ==
  ASSUME IInv, FallbackBit
  PROVE  /\ IInv' /\ call = "word" /\ call' = "word"
         /\ Consumed' = Consumed /\ UNCHANGED <<data, got>>
<1>1. /\ call = "word" /\ call' = "word" /\ left > 0 /\ left' = left - 1
      /\ TakeBit /\ BitAppended
      /\ UNCHANGED <<data, got, account, misaligned>>
  BY DEF FallbackBit, BitAppended
<1>2. /\ Position + left <= MaxBits /\ left \in 0..64 /\ Position \in Nat
      /\ Len(read) \in Nat /\ left + Len(read) \in Widths
      /\ Position + left = account + misaligned
      /\ account \in Nat /\ misaligned \in Nat /\ Consumed \in Nat
  BY <1>1, CallBounds, Ranges DEF IInv, TypeOK, CallValid, AccountValid
<1>3. Position <= MaxBits + 6
  BY <1>1, <1>2, InputsAssumption
<1>4. /\ CursorsInRange' /\ BufferHoldsStream'
      /\ Position' = Position + 1
      /\ data_cursor' \in 0 .. WordSize - 1 /\ buffer_cursor' \in 0..64
      /\ buffer' \in [0..63 -> Bit]
      /\ read' \in Seq(Bit) /\ Len(read') = Len(read) + 1
      /\ Consumed' = Consumed
      /\ \A k \in 1 .. Len(read') : read'[k] = StreamBit(Consumed + k - 1)
  BY <1>1, <1>3, ReadBitExtends
<1>5. left' \in 0..64 /\ left' + Len(read') = left + Len(read)
      /\ Position' + left' = Position + left
  BY <1>1, <1>2, <1>4
<1>6. TypeOK'
  BY <1>1, <1>4, <1>5 DEF IInv, TypeOK
<1>8. CallValid'
  <2>1. (\A k \in 1 .. Len(read) : read[k] = StreamBit(Consumed + k - 1))'
    BY <1>1, <1>4 DEF StreamBit, InArray
  <2>2. Consumed' >= 0
    BY <1>2, <1>4
  <2> QED
    BY <1>1, <1>2, <1>5, <2>1, <2>2 DEF CallValid
<1>9. AccountValid'
  BY <1>1, <1>2, <1>5 DEF AccountValid
<1> QED
  BY <1>1, <1>4, <1>6, <1>8, <1>9 DEF IInv

(* An iteration of flush_current_byte.                                     *)
LEMMA FlushBitStep ==
  ASSUME IInv, FlushBit
  PROVE  /\ IInv' /\ call = "align" /\ call' = "align"
         /\ Consumed' = Consumed /\ UNCHANGED <<data, got>>
<1>1. /\ call = "align" /\ call' = "align" /\ left' = left /\ bit_cursor # 0
      /\ TakeBit /\ BitAppended
      /\ UNCHANGED <<data, got, account, misaligned>>
  BY DEF FlushBit, BitAppended
<1>2. /\ left \in 0..64 /\ Position \in Nat
      /\ Position + 1 <= 8 * (Consumed \div 8) + 8
      /\ Consumed % 8 # 0 /\ left = 7 - (Consumed % 8)
      /\ Consumed + 1 = account + misaligned /\ Consumed \in Nat
      /\ Consumed <= MaxBits
  BY <1>1, CallBounds, Ranges DEF IInv, TypeOK, CallValid, AccountValid
<1>3. Position <= MaxBits + 6
  BY <1>2, InputsAssumption
<1>4. /\ CursorsInRange' /\ BufferHoldsStream'
      /\ Position' = Position + 1
      /\ data_cursor' \in 0 .. WordSize - 1 /\ buffer_cursor' \in 0..64
      /\ buffer' \in [0..63 -> Bit]
      /\ read' \in Seq(Bit) /\ Len(read') = Len(read) + 1
      /\ Consumed' = Consumed
      /\ \A k \in 1 .. Len(read') : read'[k] = StreamBit(Consumed + k - 1)
  BY <1>1, <1>3, ReadBitExtends
<1>6. TypeOK'
  BY <1>1, <1>4 DEF IInv, TypeOK
<1>8. CallValid'
  <2>1. (\A k \in 1 .. Len(read) : read[k] = StreamBit(Consumed + k - 1))'
    BY <1>1, <1>4 DEF StreamBit, InArray
  <2>2. Consumed' >= 0 /\ Consumed' % 8 # 0 /\ left' = 7 - (Consumed' % 8)
        /\ Consumed' <= MaxBits
        /\ Position' <= 8 * (Consumed' \div 8) + 8
    BY <1>1, <1>2, <1>4
  <2> QED
    BY <1>1, <2>1, <2>2 DEF CallValid
<1>9. AccountValid'
  BY <1>1, <1>2, <1>4 DEF AccountValid
<1> QED
  BY <1>1, <1>4, <1>6, <1>8, <1>9 DEF IInv
(* A call that returns without moving the reader.                          *)
LEMMA ReturnKeeps ==
  ASSUME IInv, UNCHANGED <<data, reader, misaligned>>,
         call' = "idle", left' \in 0..64, read' \in Seq(Bit), Len(read') = 0,
         got' \in Seq(Bit), account' \in Nat,
         Position = account' + misaligned,
         Position <= MaxBits \/ Position % 8 = 0
  PROVE  IInv' /\ Consumed' = Position
<1>1. /\ CursorsInRange' /\ BufferHoldsStream' /\ Position' = Position
      /\ data' \in Inputs /\ data_cursor' \in 0 .. WordSize - 1
      /\ buffer_cursor' \in 0..64 /\ buffer' \in [0..63 -> Bit]
      /\ Position \in Nat
  BY ReaderKept
<1>2. Position' \in Nat /\ misaligned' \in Nat
      /\ Position' = account' + misaligned'
      /\ (Position' <= MaxBits \/ Position' % 8 = 0)
  BY <1>1 DEF IInv, TypeOK
<1>3. IInv' /\ Consumed' = Position'
  BY <1>1, <1>2, ReturnedIsValid
<1> QED
  BY <1>1, <1>3

(* ensure_aligned on a boundary.                                           *)
LEMMA AlreadyAlignedStep ==
  ASSUME IInv, AlreadyAligned
  PROVE  /\ IInv' /\ call = "idle" /\ call' = "idle" /\ data' = data
         /\ Consumed' = Consumed /\ Consumed % 8 = 0 /\ got' = << >>
<1>1. /\ call = "idle" /\ bit_cursor = 0 /\ account' = account
      /\ UNCHANGED <<data, reader, misaligned, call, left, read>>
  BY DEF AlreadyAligned, loop
<1>2. /\ Len(read) = 0 /\ read \in Seq(Bit) /\ Consumed = Position
      /\ Position = account + misaligned /\ account \in Nat
      /\ left \in 0..64
  BY <1>1, IdleFacts DEF IInv, TypeOK
<1>3. got' \in Seq(Bit)
  BY DEF AlreadyAligned
<1>4. Position % 8 = 0
  BY <1>1, Ranges DEF IInv, bit_cursor
<1>5. IInv' /\ Consumed' = Position
  BY <1>1, <1>2, <1>3, <1>4, ReturnKeeps
<1> QED
  BY <1>1, <1>2, <1>4, <1>5 DEF AlreadyAligned

(* The end of ensure_aligned: the reader is on the next boundary.          *)
LEMMA AlignEndStep ==
  ASSUME IInv, AlignEnd
  PROVE  /\ IInv' /\ call = "align" /\ call' = "idle" /\ data' = data
         /\ Consumed \in Nat /\ Consumed % 8 # 0 /\ got' = << >>
         /\ Consumed' = 8 * (Consumed \div 8) + 8
<1>1. /\ call = "align" /\ bit_cursor = 0 /\ account' = account + left
      /\ call' = "idle" /\ left' = 0 /\ read' = << >>
      /\ UNCHANGED <<data, reader, misaligned>>
  BY DEF AlignEnd, Return
<1>2. /\ left \in 0..64 /\ Position \in Nat /\ Consumed \in Nat
      /\ Consumed <= Position
      /\ Consumed % 8 # 0 /\ left = 7 - (Consumed % 8)
      /\ Position <= 8 * (Consumed \div 8) + 8
      /\ Consumed + 1 = account + misaligned
      /\ account \in Nat /\ misaligned \in Nat
  <2>1. Consumed \in Nat /\ Position = Consumed + Len(read) /\ Len(read) \in Nat
    BY CallBounds
  <2>2. Position \in Nat /\ Consumed <= Position
    BY <2>1
  <2> QED
    BY <1>1, <2>1, <2>2 DEF IInv, TypeOK, CallValid, AccountValid
<1>3. Position % 8 = 0
  <2>1. TypeOK /\ CursorsInRange
    BY DEF IInv
  <2>2. Position % 8 = bit_cursor
    BY <2>1, Ranges DEF bit_cursor
  <2> QED
    BY <1>1, <2>2
<1>4. Position = 8 * (Consumed \div 8) + 8
  BY <1>2, <1>3
<1>5. Position = account' + misaligned
  BY <1>1, <1>2, <1>4
<1>6. got' \in Seq(Bit) /\ read' \in Seq(Bit) /\ Len(read') = 0
  BY DEF AlignEnd, Return
<1>7. account' \in Nat /\ left' \in 0..64
  BY <1>1, <1>2
<1>8. IInv' /\ Consumed' = Position
  BY <1>1, <1>3, <1>5, <1>6, <1>7, ReturnKeeps
<1> QED
  BY <1>1, <1>2, <1>4, <1>8 DEF AlignEnd

(* The end of next_word_fallback or next_short returns the bits read.      *)
LEMMA CallEndStep ==
  ASSUME IInv, CallEnd
  PROVE  /\ IInv' /\ call' = "idle" /\ data' = data /\ Consumed \in Nat
         /\ \/ /\ call = "word" /\ Len(read) \in Widths
               /\ Consumed' = Consumed + Len(read)
               /\ IsStream(got', Consumed, Len(read))
            \/ /\ call = "short" /\ Consumed % 8 = 0
               /\ Consumed' = Consumed + 16
               /\ IsStream(got', Consumed, 16)
<1>1. /\ call \in {"word", "short"} /\ left = 0 /\ got' = read
      /\ account' = account
      /\ call' = "idle" /\ left' = 0 /\ read' = << >>
      /\ UNCHANGED <<data, reader, misaligned>>
  BY DEF CallEnd, Return
<1>2. /\ Consumed \in Nat /\ Position = Consumed + Len(read)
      /\ Len(read) \in Nat /\ read \in Seq(Bit) /\ account \in Nat
      /\ misaligned \in Nat
      /\ \A k \in 1 .. Len(read) : read[k] = StreamBit(Consumed + k - 1)
  BY CallBounds DEF IInv, TypeOK, CallValid
<1>3. IsStream(got', Consumed, Len(read))
  BY <1>1, <1>2 DEF IsStream
<1>4. /\ Position = account + misaligned /\ Position <= MaxBits
      /\ call = "word" => Len(read) \in Widths
      /\ call = "short" => Len(read) = 16 /\ Position % 8 = 0
  <2>1. CASE call = "word"
    BY <1>1, <1>2, <2>1 DEF IInv, CallValid, AccountValid
  <2>2. CASE call = "short"
    BY <1>1, <1>2, <2>2 DEF IInv, CallValid, AccountValid
  <2> QED
    BY <1>1, <2>1, <2>2
<1>5. got' \in Seq(Bit) /\ read' \in Seq(Bit) /\ Len(read') = 0
      /\ account' \in Nat /\ left' \in 0..64
      /\ Position = account' + misaligned
  <2>1. read' \in Seq(Bit) /\ Len(read') = 0
    BY DEF CallEnd, Return
  <2>2. left' \in 0..64
    BY <1>1
  <2> QED
    BY <1>1, <1>2, <1>4, <2>1, <2>2
<1>6. IInv' /\ Consumed' = Position
  BY <1>1, <1>4, <1>5, ReturnKeeps
<1>7. ASSUME call = "short" PROVE Consumed % 8 = 0
  <2>1. Position = Consumed + 16 /\ Position % 8 = 0
    BY <1>2, <1>4, <1>7
  <2>2. \A c \in Nat : (c + 16) % 8 = 0 => c % 8 = 0
    OBVIOUS
  <2> QED
    BY <1>2, <2>1, <2>2
<1> QED
  BY <1>1, <1>2, <1>3, <1>4, <1>6, <1>7

(* A failed assertion changes nothing but the call's outcome.              *)
LEMMA AbortStep ==
  ASSUME IInv, Abort
  PROVE  /\ IInv' /\ call \in {"idle", "short"} /\ call' = "aborted"
         /\ Consumed' = Consumed /\ UNCHANGED <<data, got>>
<1>1. /\ call \in {"idle", "short"} /\ call' = "aborted"
      /\ UNCHANGED <<data, reader, left, read, got, account, misaligned>>
  BY DEF Abort
<1>2. /\ CursorsInRange' /\ BufferHoldsStream' /\ Position' = Position
      /\ data' \in Inputs /\ data_cursor' \in 0 .. WordSize - 1
      /\ buffer_cursor' \in 0..64 /\ buffer' \in [0..63 -> Bit]
  BY <1>1, ReaderKept
<1>3. TypeOK'
  BY <1>1, <1>2 DEF IInv, TypeOK
<1>4. Consumed' = Consumed
  BY <1>1, <1>2 DEF Consumed
<1>5. CallValid'
  <2>1. (\A k \in 1 .. Len(read) : read[k] = StreamBit(Consumed + k - 1))'
    BY <1>1, <1>4 DEF IInv, CallValid, StreamBit, InArray
  <2>2. Consumed' >= 0
    BY <1>4 DEF IInv, CallValid
  <2> QED
    BY <1>1, <2>1, <2>2 DEF CallValid
<1>6. AccountValid'
  BY <1>1 DEF AccountValid
<1> QED
  BY <1>1, <1>2, <1>3, <1>4, <1>5, <1>6 DEF IInv
(* What next_byte does to a reader on a boundary, whatever it is part of.  *)
LEMMA TakeByteReads ==
  ASSUME IInv, TakeByte, InArray(ByteIndex), bit_cursor = 0, UNCHANGED data,
         Position + 8 <= MaxBits
  PROVE  /\ Position' = Position + 8 /\ Position % 8 = 0 /\ Position \in Nat
         /\ CursorsInRange' /\ BufferHoldsStream'
         /\ data_cursor' \in 0 .. WordSize - 1 /\ buffer_cursor' \in 0..64
         /\ buffer' \in [0..63 -> Bit]
         /\ IsStream(Tuple(data[ByteIndex]), Position, 8)
         /\ \A k \in 1..8 : InArray((Position + k - 1) \div 8)
<1>1. /\ TypeOK /\ CursorsInRange /\ BufferHoldsStream /\ data \in Inputs
      /\ Position \in Nat
  BY Ranges DEF IInv, TypeOK
<1>2. Position <= MaxBits + 6
  BY <1>1, InputsAssumption
<1>3. ByteIndex \in Nat /\ 8 * ByteIndex = Position /\ Position % 8 = 0
  BY <1>1, <1>2, ByteIndexIsNext
<1>4. IsStream(Tuple(data[ByteIndex]), 8 * ByteIndex, 8)
  BY <1>1, TupleIsStream DEF IsStream
<1>5. ASSUME NEW k \in 1..8 PROVE InArray((Position + k - 1) \div 8)
  <2>1. (Position + k - 1) \div 8 = ByteIndex
    BY <1>1, <1>3
  <2> QED
    BY <2>1
<1> QED
  BY <1>1, <1>3, <1>4, <1>5, TakeByteAdvances

(* next_byte preserves IInv and returns the next byte of the array.        *)
LEMMA NextByteStep ==
  ASSUME IInv, NextByte
  PROVE  /\ IInv' /\ call = "idle" /\ call' = "idle" /\ data' = data
         /\ Consumed \in Nat /\ Consumed % 8 = 0
         /\ Consumed' = Consumed + 8 /\ IsStream(got', Consumed, 8)
<1>1. /\ call = "idle" /\ Position + 8 <= MaxBits /\ account' = account + 8
      /\ bit_cursor = 0 /\ InArray(ByteIndex) /\ TakeByte
      /\ got' = Tuple(data[ByteIndex])
      /\ UNCHANGED <<data, call, left, read, misaligned>>
  BY DEF NextByte, Charge, loop
<1>2. /\ Len(read) = 0 /\ read \in Seq(Bit) /\ Consumed = Position
      /\ Position = account + misaligned
      /\ account \in Nat /\ misaligned \in Nat
      /\ left \in 0..64 /\ data \in Inputs
  BY <1>1, IdleFacts DEF IInv, TypeOK
<1>3. /\ Position' = Position + 8 /\ Position % 8 = 0 /\ Position \in Nat
      /\ CursorsInRange' /\ BufferHoldsStream'
      /\ data_cursor' \in 0 .. WordSize - 1 /\ buffer_cursor' \in 0..64
      /\ buffer' \in [0..63 -> Bit]
      /\ IsStream(got', Position, 8)
  BY <1>1, TakeByteReads
<1>4. IInv' /\ Consumed' = Position'
  <2>1. /\ data' \in Inputs /\ call' = "idle" /\ left' \in 0..64
        /\ read' \in Seq(Bit) /\ Len(read') = 0
    BY <1>1, <1>2
  <2>2. Position' \in Nat /\ account' \in Nat /\ misaligned' \in Nat
        /\ Position' = account' + misaligned' /\ Position' <= MaxBits
    BY <1>1, <1>2, <1>3
  <2>3. got' \in Seq(Bit)
    BY <1>3 DEF IsStream
  <2> QED
    BY <1>3, <2>1, <2>2, <2>3, ReturnedIsValid
<1> QED
  BY <1>1, <1>2, <1>3, <1>4

(* Two bytes after each other are a short.                                 *)
LEMMA ConcatIsStream ==
  ASSUME NEW s, NEW t, NEW p \in Nat, NEW n \in Nat,
         IsStream(s, p, n), IsStream(t, p + n, 8)
  PROVE  IsStream(s \o t, p, n + 8)
<1>1. /\ s \in Seq(Bit) /\ Len(s) = n
      /\ t \in Seq(Bit) /\ Len(t) = 8
  BY DEF IsStream
<1>2. /\ s \o t \in Seq(Bit) /\ Len(s \o t) = n + 8
      /\ \A k \in 1 .. n + 8 :
           (s \o t)[k] = IF k <= n THEN s[k] ELSE t[k - n]
  <2>1. /\ s \o t \in Seq(Bit) /\ Len(s \o t) = Len(s) + Len(t)
        /\ \A k \in 1 .. Len(s) + Len(t) :
             (s \o t)[k] = IF k <= Len(s) THEN s[k] ELSE t[k - Len(s)]
    BY <1>1, ConcatProperties, Zenon
  <2> QED
    BY <1>1, <2>1, Zenon
<1>3. ASSUME NEW k \in 1 .. n + 8
      PROVE  (s \o t)[k] = StreamBit(p + k - 1)
  <2>1. CASE k <= n
    <3>1. k \in 1..n
      BY <2>1
    <3>2. s[k] = StreamBit(p + k - 1)
      BY <3>1 DEF IsStream
    <3> QED
      BY <1>2, <2>1, <3>2
  <2>2. CASE ~(k <= n)
    <3>1. k - n \in 1..8 /\ (p + n) + (k - n) - 1 = p + k - 1
      BY <2>2
    <3>2. t[k - n] = StreamBit((p + n) + (k - n) - 1)
      BY <3>1 DEF IsStream
    <3> QED
      BY <1>2, <2>2, <3>1, <3>2
  <2> QED
    BY <2>1, <2>2
<1> QED
  BY <1>2, <1>3 DEF IsStream

(* An iteration of a next_short that crosses the end of the buffer.        *)
LEMMA ShortByteStep ==
  ASSUME IInv, ShortByte
  PROVE  /\ IInv' /\ call = "short" /\ call' = "short"
         /\ Consumed' = Consumed /\ UNCHANGED <<data, got>>
<1> DEFINE byte == Tuple(data[ByteIndex])
<1>1. /\ call = "short" /\ call' = "short" /\ left > 0 /\ left' = left - 1
      /\ InArray(ByteIndex) /\ TakeByte /\ read' = read \o byte
      /\ UNCHANGED <<data, got, account, misaligned>>
  BY DEF ShortByte
<1>2. /\ left \in 0..64 /\ Position \in Nat /\ read \in Seq(Bit)
      /\ Len(read) = 8 * (2 - left) /\ Len(read) \in Nat
      /\ Position % 8 = 0 /\ Position + 8 * left <= MaxBits
      /\ Position = Consumed + Len(read) /\ Consumed \in Nat
      /\ Position + 8 * left = account + misaligned
      /\ account \in Nat /\ misaligned \in Nat
      /\ IsStream(read, Consumed, Len(read))
      /\ \A k \in 1 .. Len(read) : InArray((Consumed + k - 1) \div 8)
  <2>1. /\ left \in 0..64 /\ read \in Seq(Bit) /\ Len(read) \in Nat
        /\ Position = Consumed + Len(read) /\ Consumed \in Nat
    BY CallBounds
  <2>2. account \in Nat /\ misaligned \in Nat
    BY DEF IInv, TypeOK
  <2>3. /\ Len(read) = 8 * (2 - left)
        /\ Position % 8 = 0 /\ Position + 8 * left <= MaxBits
        /\ \A k \in 1 .. Len(read) : InArray((Consumed + k - 1) \div 8)
        /\ \A k \in 1 .. Len(read) : read[k] = StreamBit(Consumed + k - 1)
    BY <1>1 DEF IInv, CallValid
  <2>4. Position + 8 * left = account + misaligned
    BY <1>1 DEF IInv, AccountValid
  <2>5. IsStream(read, Consumed, Len(read))
    BY <2>1, <2>3 DEF IsStream
  <2> QED
    BY <1>1, <2>1, <2>2, <2>3, <2>4, <2>5, Ranges DEF IInv
<1>3. bit_cursor = 0 /\ Position + 8 <= MaxBits
  <2>1. TypeOK /\ CursorsInRange
    BY DEF IInv
  <2>2. Position % 8 = bit_cursor
    BY <2>1, Ranges DEF bit_cursor
  <2>3. MaxBits \in Nat
    BY InputsAssumption
  <2>4. ASSUME NEW p \in Nat, NEW l \in 0..64, NEW m \in Nat,
               l > 0, p + 8 * l <= m
        PROVE  p + 8 <= m
    BY <2>4
  <2> QED
    BY <1>1, <1>2, <2>2, <2>3, <2>4
<1>4. /\ Position' = Position + 8
      /\ CursorsInRange' /\ BufferHoldsStream'
      /\ data_cursor' \in 0 .. WordSize - 1 /\ buffer_cursor' \in 0..64
      /\ buffer' \in [0..63 -> Bit]
      /\ IsStream(byte, Consumed + Len(read), 8)
      /\ \A k \in 1..8 : InArray((Position + k - 1) \div 8)
  BY <1>1, <1>2, <1>3, TakeByteReads
<1> HIDE DEF byte
<1>5. IsStream(read', Consumed, Len(read) + 8)
  BY <1>1, <1>2, <1>4, ConcatIsStream
<1>6. read' \in Seq(Bit) /\ Len(read') = Len(read) + 8
  BY <1>5 DEF IsStream
<1>7. Consumed' = Consumed
  <2>1. Consumed' = Position' - Len(read')
    BY DEF Consumed
  <2> QED
    BY <1>2, <1>4, <1>6, <2>1
<1>8. left' \in 0..64 /\ Len(read') = 8 * (2 - left')
      /\ Position' + 8 * left' = Position + 8 * left /\ Position' % 8 = 0
  BY <1>1, <1>2, <1>4, <1>6
<1>9. TypeOK'
  BY <1>1, <1>4, <1>6, <1>8 DEF IInv, TypeOK
<1>10. CallValid'
  <2>1. ASSUME NEW k \in 1 .. Len(read')
        PROVE  InArray((Consumed + k - 1) \div 8)
    <3>1. CASE k <= Len(read)
      <4>1. k \in 1 .. Len(read)
        BY <1>2, <1>6, <3>1
      <4> QED
        BY <1>2, <4>1
    <3>2. CASE ~(k <= Len(read))
      <4>1. k - Len(read) \in 1..8
            /\ Position + (k - Len(read)) - 1 = Consumed + k - 1
        BY <1>2, <1>6, <3>2
      <4> QED
        BY <1>4, <4>1
    <3> QED
      BY <3>1, <3>2
  <2>2. (\A k \in 1 .. Len(read) :
           /\ InArray((Consumed + k - 1) \div 8)
           /\ read[k] = StreamBit(Consumed + k - 1))'
    BY <1>1, <1>5, <1>6, <1>7, <2>1 DEF IsStream, StreamBit, InArray
  <2>3. Consumed' >= 0
    BY <1>2, <1>7
  <2> QED
    BY <1>1, <1>2, <1>8, <2>2, <2>3 DEF CallValid
<1>11. AccountValid'
  BY <1>1, <1>2, <1>8 DEF AccountValid
<1> QED
  BY <1>1, <1>4, <1>7, <1>9, <1>10, <1>11 DEF IInv

(* What memory holds at a place of the array is the stream's byte.         *)
LEMMA MemoryIsStream ==
  ASSUME data \in Inputs, NEW i \in Nat, NEW m \in Memory(i)
  PROVE  /\ Tuple(m) \in Seq(Bit) /\ Len(Tuple(m)) = 8
         /\ \A k \in 1..8 : InArray(i) => Tuple(m)[k] = StreamBit(8 * i + k - 1)
<1>1. CASE InArray(i)
  BY <1>1, TupleIsStream DEF Memory
<1>2. CASE ~InArray(i)
  <2>1. m \in Octet
    BY <1>2, OperandsAssumption DEF Memory
  <2> QED
    BY <1>2, <2>1, TupleOfBits
<1> QED
  BY <1>1, <1>2

(* n bits from p on, those of the array being the stream's.                *)
IsMemory(s, p, n) ==
  /\ s \in Seq(Bit) /\ Len(s) = n
  /\ \A k \in 1..n : InArray((p + k - 1) \div 8) => s[k] = StreamBit(p + k - 1)

(* Bytes i and i + 1 of memory, one after the other.                       *)
LEMMA ShortIsMemory ==
  ASSUME data \in Inputs, NEW i \in Nat,
         NEW low \in Memory(i), NEW high \in Memory(i + 1)
  PROVE  IsMemory(Tuple(low) \o Tuple(high), 8 * i, 16)
<1> DEFINE s == Tuple(low)
           t == Tuple(high)
<1>1. /\ s \in Seq(Bit) /\ Len(s) = 8
      /\ \A k \in 1..8 : InArray(i) => s[k] = StreamBit(8 * i + k - 1)
  BY MemoryIsStream
<1>2. /\ t \in Seq(Bit) /\ Len(t) = 8
      /\ \A k \in 1..8 :
           InArray(i + 1) => t[k] = StreamBit(8 * (i + 1) + k - 1)
  <2>1. i + 1 \in Nat
    OBVIOUS
  <2> QED
    BY <2>1, MemoryIsStream
<1> HIDE DEF s, t
<1>3. /\ s \o t \in Seq(Bit) /\ Len(s \o t) = 16
      /\ \A k \in 1..16 : (s \o t)[k] = IF k <= 8 THEN s[k] ELSE t[k - 8]
  <2>1. /\ s \o t \in Seq(Bit) /\ Len(s \o t) = Len(s) + Len(t)
        /\ \A k \in 1 .. Len(s) + Len(t) :
             (s \o t)[k] = IF k <= Len(s) THEN s[k] ELSE t[k - Len(s)]
    BY <1>1, <1>2, ConcatProperties, Zenon
  <2>2. 8 + 8 = 16
    OBVIOUS
  <2> QED
    BY <1>1, <1>2, <2>1, <2>2, Zenon
<1>4. ASSUME NEW k \in 1..16, InArray((8 * i + k - 1) \div 8)
      PROVE  (s \o t)[k] = StreamBit(8 * i + k - 1)
  <2>1. CASE k <= 8
    <3>1. k \in 1..8 /\ (8 * i + k - 1) \div 8 = i
      BY <2>1
    <3> QED
      BY <1>1, <1>3, <1>4, <2>1, <3>1
  <2>2. CASE ~(k <= 8)
    <3>1. /\ k - 8 \in 1..8 /\ (8 * i + k - 1) \div 8 = i + 1
          /\ 8 * (i + 1) + (k - 8) - 1 = 8 * i + k - 1
      BY <2>2
    <3> QED
      BY <1>2, <1>3, <1>4, <2>2, <3>1
  <2> QED
    BY <2>1, <2>2
<1>5. IsMemory(s \o t, 8 * i, 16)
  BY <1>3, <1>4 DEF IsMemory
<1> QED
  BY <1>5 DEF s, t

(* next_short inside the buffer preserves IInv and returns what memory     *)
(* holds.                                                                  *)
LEMMA NextShortStep ==
  ASSUME IInv, NextShort
  PROVE  /\ IInv' /\ call = "idle" /\ call' = "idle" /\ data' = data
         /\ Consumed \in Nat /\ Consumed % 8 = 0
         /\ Consumed' = Consumed + 16 /\ IsMemory(got', Consumed, 16)
<1>1. /\ call = "idle" /\ Position + 16 <= MaxBits /\ account' = account + 16
      /\ bit_cursor = 0 /\ buffer_cursor <= 48
      /\ buffer_cursor' = buffer_cursor + 16
      /\ UNCHANGED <<data, data_cursor, buffer, call, left, read, misaligned>>
  BY DEF NextShort, Charge, loop
<1>2. /\ Len(read) = 0 /\ read \in Seq(Bit) /\ Consumed = Position
      /\ Position = account + misaligned
      /\ account \in Nat /\ misaligned \in Nat
  BY <1>1, IdleFacts
<1>3. /\ TypeOK /\ CursorsInRange /\ BufferHoldsStream /\ data \in Inputs
      /\ left \in 0..64 /\ Position \in Nat /\ buffer_cursor \in 0..64
      /\ buffer \in [0..63 -> Bit] /\ data_cursor \in 0 .. WordSize - 1
  BY Ranges DEF IInv, TypeOK
<1>4. data_cursor # WordSize - 8
  BY <1>1, <1>3, Ranges
<1>5. Position' = Position + 16
  BY <1>1, <1>3, <1>4, Ranges DEF Position
<1>6. ByteIndex \in Nat /\ 8 * ByteIndex = Position /\ Position % 8 = 0
  <2>1. Position <= MaxBits + 6
    BY <1>1, <1>3, InputsAssumption
  <2> QED
    BY <1>1, <1>3, <2>1, ByteIndexIsNext
<1>7. IsMemory(got', Position, 16)
  <2>1. PICK low \in Memory(ByteIndex), high \in Memory(ByteIndex + 1) :
          got' = Tuple(low) \o Tuple(high)
    BY DEF NextShort
  <2>2. IsMemory(Tuple(low) \o Tuple(high), 8 * ByteIndex, 16)
    BY <1>3, <1>6, ShortIsMemory
  <2> QED
    BY <1>6, <2>1, <2>2, Zenon
<1>8. IInv' /\ Consumed' = Position'
  <2>1. /\ data' \in Inputs /\ call' = "idle" /\ left' \in 0..64
        /\ read' \in Seq(Bit) /\ Len(read') = 0
    BY <1>1, <1>2, <1>3
  <2>2. Position' \in Nat /\ account' \in Nat /\ misaligned' \in Nat
        /\ Position' = account' + misaligned' /\ Position' <= MaxBits
    BY <1>1, <1>2, <1>3, <1>5
  <2>3. got' \in Seq(Bit)
    BY <1>7 DEF IsMemory
  <2>4. BufferHoldsStream' /\ buffer' \in [0..63 -> Bit]
        /\ data_cursor' \in 0 .. WordSize - 1 /\ buffer_cursor' \in 0..64
    BY <1>1, <1>3, BufferKept
  <2>5. CursorsInRange'
    BY <1>1, <1>3, <1>4, <1>5, Ranges DEF CursorsInRange
  <2> QED
    BY <2>1, <2>2, <2>3, <2>4, <2>5, ReturnedIsValid
<1> QED
  BY <1>1, <1>2, <1>3, <1>5, <1>6, <1>7, <1>8

(* IInv holds of a new reader.                                             *)
LEMMA InitEstablishes ==
  ASSUME Init
  PROVE  IInv /\ Position = 0 /\ Consumed = 0
<1>1. /\ data \in Inputs /\ data_cursor = WordSize - 8 /\ buffer_cursor = 64
      /\ buffer = [n \in 0..63 |-> 0] /\ call = "idle" /\ left = 0
      /\ Len(read) = 0 /\ read \in Seq(Bit) /\ got \in Seq(Bit)
      /\ account = 0 /\ misaligned = 0
  BY DEF Init
<1>2. WordSize \in Nat /\ MaxBits \in Nat /\ WordSize >= 24
  BY InputsAssumption
<1>3. Position = 0 /\ data_cursor \in 0 .. WordSize - 1
  BY <1>1, <1>2 DEF Position
<1>4. Consumed = 0
  BY <1>1, <1>3 DEF Consumed
<1>5. TypeOK
  BY <1>1, <1>3 DEF TypeOK, Bit
<1>6. CursorsInRange
  BY <1>1, <1>2, <1>3 DEF CursorsInRange
<1>7. BufferHoldsStream
  BY <1>1 DEF BufferHoldsStream
<1>8. CallValid
  <2>1. ASSUME NEW k \in 1 .. Len(read) PROVE FALSE
    BY <1>1
  <2> QED
    BY <1>1, <1>2, <1>3, <1>4, <2>1 DEF CallValid
<1>9. AccountValid
  BY <1>1, <1>3 DEF AccountValid
<1> QED
  BY <1>3, <1>4, <1>5, <1>6, <1>7, <1>8, <1>9 DEF IInv

(* IInv holds after a step that changes nothing.                           *)
LEMMA StutterPreserves ==
  ASSUME IInv, UNCHANGED vars
  PROVE  IInv' /\ Consumed' = Consumed
<1>1. UNCHANGED <<data, data_cursor, buffer_cursor, buffer, call, left, read,
                  got, account, misaligned>>
  BY DEF vars, reader, loop
<1>2. Position' = Position
  BY <1>1 DEF Position
<1>3. Consumed' = Consumed
  BY <1>1, <1>2 DEF Consumed
<1>4. TypeOK' /\ CursorsInRange' /\ BufferHoldsStream'
  BY <1>1, <1>2 DEF IInv, TypeOK, CursorsInRange, BufferHoldsStream, InArray
<1>5. CallValid'
  <2>1. (\A k \in 1 .. Len(read) : read[k] = StreamBit(Consumed + k - 1))'
    BY <1>1, <1>3 DEF IInv, CallValid, StreamBit, InArray
  <2>2. (\A k \in 1 .. Len(read) :
           call = "short" => InArray((Consumed + k - 1) \div 8))'
    BY <1>1, <1>3 DEF IInv, CallValid, InArray
  <2> QED
    BY <1>1, <1>2, <1>3, <2>1, <2>2 DEF IInv, CallValid
<1>6. AccountValid'
  BY <1>1, <1>2, <1>3 DEF IInv, AccountValid
<1> QED
  BY <1>3, <1>4, <1>5, <1>6 DEF IInv

(* Every step preserves IInv.                                              *)
LEMMA StepPreserves ==
  ASSUME IInv, [Next]_vars
  PROVE  IInv'
<1>1. CASE NextBit
  BY <1>1, NextBitStep
<1>2. ASSUME NEW w \in Widths, NextWord(w) \/ NextWordFallback(w)
      PROVE  IInv'
  BY <1>2, NextWordStep, NextWordFallbackStep
<1>3. CASE AlreadyAligned \/ EnsureAligned
  BY <1>3, AlreadyAlignedStep, EnsureAlignedStep
<1>4. CASE NextByte \/ NextShort \/ NextShortByBytes
  BY <1>4, NextByteStep, NextShortStep, NextShortByBytesStep
<1>5. CASE FallbackBit \/ FlushBit \/ AlignEnd
  BY <1>5, FallbackBitStep, FlushBitStep, AlignEndStep
<1>6. CASE ShortByte \/ CallEnd \/ Abort
  BY <1>6, ShortByteStep, CallEndStep, AbortStep
<1>7. CASE UNCHANGED vars
  BY <1>7, StutterPreserves
<1> QED
  BY <1>1, <1>2, <1>3, <1>4, <1>5, <1>6, <1>7 DEF Next, CallStep

(* The inductive invariant holds in every reachable state, for every set   *)
(* of arrays and every width (io.cc:23-60, io_inl.hh:13-53).               *)
THEOREM Invariance == Spec => []IInv
<1>1. Init => IInv
  BY InitEstablishes
<1>2. IInv /\ [Next]_vars => IInv'
  BY StepPreserves
<1> QED
  BY <1>1, <1>2, PTL DEF Spec

(* Every variable keeps its type: data_cursor stays a uint32_t and         *)
(* buffer_cursor an index of the 64-bit buffer or its end.                 *)
THEOREM TypeCorrect == Spec => []TypeOK
<1>1. IInv => TypeOK
  BY DEF IInv
<1> QED
  BY <1>1, Invariance, PTL

(* The buffer is the stretch of the stream that data_cursor says.          *)
THEOREM BufferIsCoherent == Spec => []BufferHoldsStream
<1>1. IInv => BufferHoldsStream
  BY DEF IInv
<1> QED
  BY <1>1, Invariance, PTL

(* Between calls the accounts lag by exactly one bit for each skip that    *)
(* ensure_aligned made: nothing else is left out or charged twice.         *)
THEOREM AccountsLagBySkips == Spec => []AccountLagsBySkips
<1>1. IInv => AccountLagsBySkips
  BY DEF IInv, AccountValid, AccountLagsBySkips
<1> QED
  BY <1>1, Invariance, PTL

-----------------------------------------------------------------------------
(* The refinement of BitStream.                                            *)

(* Bits that IsStream describes are the ones BitStream's Bits yields.      *)
LEMMA BitsAreStream ==
  ASSUME NEW s, NEW n \in Nat, IsStream(s, Consumed, n)
  PROVE  s = Stream!Bits(n)
<1>1. s \in Seq(Bit) /\ Len(s) = n
  BY DEF IsStream
<1>2. s \in [1..n -> Bit]
  BY <1>1, LenProperties
<1>3. \A p : Stream!BitAt(p) = StreamBit(p)
  BY DEF Stream!BitAt, Stream!InArray, StreamBit, InArray
<1>4. \A k \in 1..n : s[k] = Stream!BitAt(Consumed + k - 1)
  BY <1>3 DEF IsStream
<1>5. Stream!Bits(n) = [k \in 1..n |-> Stream!BitAt(Consumed + k - 1)]
  BY DEF Stream!Bits
<1> QED
  BY <1>2, <1>4, <1>5

(* Calls that return bits are reads of the stream.                         *)
LEMMA ReturnIsRead ==
  ASSUME NEW n \in Nat, IsStream(got', Consumed, n), Consumed' = Consumed + n,
         call # "aborted", call' # "aborted", data' = data
  PROVE  Stream!Read(n)
<1>1. got' = Stream!Bits(n)
  BY BitsAreStream
<1> QED
  BY <1>1 DEF Stream!Read

(* Calls that return bytes of memory read bytes of the stream.             *)
LEMMA ReturnIsReadBytes ==
  ASSUME NEW n \in 1..2, IsMemory(got', Consumed, 8 * n), Consumed % 8 = 0,
         Consumed' = Consumed + 8 * n,
         call # "aborted", call' # "aborted", data' = data
  PROVE  Stream!ReadBytes(n)
<1>1. \A p : Stream!BitAt(p) = StreamBit(p)
  BY DEF Stream!BitAt, Stream!InArray, StreamBit, InArray
<1>2. \A p : Stream!InArray(p) <=> InArray(p \div 8)
  BY DEF Stream!InArray, InArray
<1> QED
  BY <1>1, <1>2 DEF Stream!ReadBytes, IsMemory

(* The stream's own bits are in particular what memory holds.              *)
LEMMA StreamIsMemory ==
  ASSUME NEW s, NEW p, NEW n, IsStream(s, p, n)
  PROVE  IsMemory(s, p, n)
BY DEF IsStream, IsMemory

(* A failed assertion is a refusal: the read was off a boundary, or one of *)
(* its bytes is not in the array.                                          *)
LEMMA AbortIsRefusal ==
  ASSUME IInv, Abort
  PROVE  \E n \in 1..2 : Stream!RefuseBytes(n)
<1>1. /\ call \in {"idle", "short"} /\ call' = "aborted"
      /\ Consumed' = Consumed /\ UNCHANGED <<data, got>>
  BY AbortStep
<1>2. /\ TypeOK /\ CursorsInRange /\ Position \in Nat
      /\ Position % 8 = bit_cursor
  BY Ranges DEF IInv, bit_cursor
<1>3. ASSUME NEW n \in 1..2,
             Consumed % 8 # 0 \/ ~InArray((Consumed + 8 * n - 1) \div 8)
      PROVE  Stream!RefuseBytes(n)
  BY <1>1, <1>3 DEF Stream!RefuseBytes, Stream!InArray, InArray
<1>4. CASE call = "idle" /\ bit_cursor # 0
  <2>1. Consumed % 8 # 0
    BY <1>2, <1>4, IdleFacts
  <2> QED
    BY <1>3, <2>1
<1>5. CASE call = "idle" /\ bit_cursor = 0 /\ ~InArray(ByteIndex)
  <2>1. ByteIndex \in Nat /\ 8 * ByteIndex = Consumed
    BY <1>2, <1>5, ByteIndexIsNext, IdleFacts
  <2>2. (Consumed + 8 * 1 - 1) \div 8 = ByteIndex
    BY <2>1
  <2> QED
    BY <1>3, <1>5, <2>2
<1>6. CASE call = "short" /\ left > 0 /\ ~InArray(ByteIndex)
  <2>1. /\ left \in 0..64 /\ Len(read) \in Nat /\ Len(read) = 8 * (2 - left)
        /\ Position = Consumed + Len(read) /\ Consumed \in Nat
        /\ Position % 8 = 0
    BY <1>6, CallBounds DEF IInv, CallValid
  <2>2. ByteIndex \in Nat /\ 8 * ByteIndex = Position
    BY <1>2, <2>1, ByteIndexIsNext
  <2>3. left \in 1..2 /\ Position = Consumed + 8 * (2 - left)
    BY <1>6, <2>1
  <2>4. CASE left = 2
    <3>1. (Consumed + 8 * 1 - 1) \div 8 = ByteIndex
      BY <2>1, <2>2, <2>3, <2>4
    <3> QED
      BY <1>3, <1>6, <3>1
  <2>5. CASE left = 1
    <3>1. (Consumed + 8 * 2 - 1) \div 8 = ByteIndex
      BY <2>1, <2>2, <2>3, <2>5
    <3> QED
      BY <1>3, <1>6, <3>1
  <2> QED
    BY <2>3, <2>4, <2>5
<1> QED
  BY <1>4, <1>5, <1>6 DEF Abort

(* A step inside a call, and the first step of one, is a stutter.          *)
LEMMA UnseenIsStutter ==
  ASSUME Consumed' = Consumed, UNCHANGED <<data, got>>,
         call # "aborted", call' # "aborted"
  PROVE  UNCHANGED Stream!vars
BY DEF Stream!vars

(* Every step of the reader is a step of the stream or a stutter.          *)
LEMMA StepImplements ==
  ASSUME IInv, [Next]_vars
  PROVE  [Stream!Next]_(Stream!vars)
<1>1. CASE NextBit
  <2>1. Stream!Read(1)
    BY <1>1, NextBitStep, ReturnIsRead DEF NextBit
  <2> QED
    BY <2>1 DEF Stream!Next
<1>2. ASSUME NEW w \in Widths, NextWord(w)
      PROVE  [Stream!Next]_(Stream!vars)
  <2>1. w \in Nat
    BY OperandsAssumption
  <2>2. Stream!Read(w)
    BY <1>2, <2>1, NextWordStep, ReturnIsRead DEF NextWord
  <2> QED
    BY <2>2 DEF Stream!Next
<1>3. ASSUME NEW w \in Widths, NextWordFallback(w)
      PROVE  [Stream!Next]_(Stream!vars)
  BY <1>3, NextWordFallbackStep, UnseenIsStutter
<1>4. CASE EnsureAligned \/ NextShortByBytes
  BY <1>4, EnsureAlignedStep, NextShortByBytesStep, UnseenIsStutter
<1>5. CASE FallbackBit \/ FlushBit \/ ShortByte
  BY <1>5, FallbackBitStep, FlushBitStep, ShortByteStep, UnseenIsStutter
<1>6. CASE AlreadyAligned \/ AlignEnd
  <2>1. /\ call # "aborted" /\ call' # "aborted" /\ data' = data
        /\ got' = << >>
        /\ Consumed' = IF Consumed % 8 = 0 THEN Consumed
                       ELSE 8 * (Consumed \div 8) + 8
    BY <1>6, AlreadyAlignedStep, AlignEndStep
  <2>2. Stream!Align
    BY <2>1 DEF Stream!Align
  <2> QED
    BY <2>2 DEF Stream!Next
<1>7. CASE NextByte
  <2>1. IsMemory(got', Consumed, 8 * 1) /\ Consumed' = Consumed + 8 * 1
    BY <1>7, NextByteStep, StreamIsMemory
  <2>2. Stream!ReadBytes(1)
    BY <1>7, <2>1, NextByteStep, ReturnIsReadBytes
  <2> QED
    BY <2>2 DEF Stream!Next
<1>8. CASE NextShort
  <2>1. IsMemory(got', Consumed, 8 * 2) /\ Consumed' = Consumed + 8 * 2
    BY <1>8, NextShortStep
  <2>2. Stream!ReadBytes(2)
    BY <1>8, <2>1, NextShortStep, ReturnIsReadBytes
  <2> QED
    BY <2>2 DEF Stream!Next
<1>9. CASE CallEnd
  <2>1. CASE call = "word"
    <3>1. Len(read) \in Nat /\ Len(read) \in Widths
      BY <1>9, <2>1, CallEndStep, CallBounds
    <3>2. Stream!Read(Len(read))
      BY <1>9, <2>1, <3>1, CallEndStep, ReturnIsRead
    <3> QED
      BY <3>1, <3>2 DEF Stream!Next
  <2>2. CASE call = "short"
    <3>1. IsMemory(got', Consumed, 8 * 2) /\ Consumed' = Consumed + 8 * 2
      BY <1>9, <2>2, CallEndStep, StreamIsMemory
    <3>2. Stream!ReadBytes(2)
      BY <1>9, <2>2, <3>1, CallEndStep, ReturnIsReadBytes
    <3> QED
      BY <3>2 DEF Stream!Next
  <2> QED
    BY <1>9, <2>1, <2>2 DEF CallEnd
<1>10. CASE Abort
  BY <1>10, AbortIsRefusal DEF Stream!Next
<1>11. CASE UNCHANGED vars
  <2>1. Consumed' = Consumed
    BY <1>11, StutterPreserves
  <2> QED
    BY <1>11, <2>1 DEF Stream!vars, vars, loop
<1> QED
  BY <1>1, <1>2, <1>3, <1>4, <1>5, <1>6, <1>7, <1>8, <1>9, <1>10, <1>11
     DEF Next, CallStep

(* The buffered reader implements the plain bit stream, whatever the       *)
(* arrays, the widths and the mix of bit, word, byte and short reads.      *)
THEOREM BitReaderImplementsBitStream == Spec => ImplementsBitStream
<1>1. Init => Stream!Init
  <2> SUFFICES ASSUME Init PROVE Stream!Init
    OBVIOUS
  <2>1. Consumed = 0
    BY InitEstablishes
  <2> QED
    BY <2>1 DEF Init, Stream!Init
<1>2. IInv /\ [Next]_vars => [Stream!Next]_(Stream!vars)
  BY StepImplements
<1> QED
  BY <1>1, <1>2, Invariance, PTL DEF Spec, ImplementsBitStream, Stream!Spec
=============================================================================
