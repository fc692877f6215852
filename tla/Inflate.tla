------------------------------- MODULE Inflate -------------------------------
(***************************************************************************)
(* tinfl_decompress of miniz.c, which can stop at any byte of its input or *)
(* output and be called again, and its three callers: mz_inflate with its  *)
(* window, tinfl_decompress_mem_to_heap and .._mem_to_callback.            *)
(*                                                                         *)
(* A stream is the sequence of what is read from it, each with the number  *)
(* of bits it takes; which codes the bits are is the concern of            *)
(* MinizTables.  What is kept is where each bit comes from: the bit        *)
(* buffer, the bytes left of this call, those of a later one, or the zeros *)
(* that stand behind a truncated input.                                    *)
(***************************************************************************)
EXTENDS Integers, Sequences, FiniteSetsExt

CONSTANTS
  Streams,      (* made by Stream, see below                               *)
  Callers,      (* subset of "inflate", "heap" and "callback"              *)
  DictSize,     (* TINFL_LZ_DICT_SIZE, 32768                               *)
  Rooms,        (* the buffers a caller of mz_inflate gives                *)
  Pieces,       (* the pieces of input it gives; or all the rest           *)
  FirstCapacity,(* 128: the first buffer of mem_to_heap                    *)
  Memory,       (* the largest buffer that realloc gives it                *)
  MaxGarbage    (* bytes behind the text that the histories keep; bounds   *)
                (* the model, not what is written                          *)

ASSUME SizesAssumption ==
  /\ DictSize \in Nat \ {0} /\ FirstCapacity \in Nat \ {0}
  /\ Rooms \subseteq Nat /\ Pieces \subseteq Nat
  /\ Memory \in Nat /\ MaxGarbage \in Nat
  /\ Callers \subseteq {"inflate", "heap", "callback"}

(* What is read from a stream: bits, symbols (a literal, a length and the  *)
(* end of a block) and the codes of distances and of code lengths; and     *)
(* what is done with it.                                                   *)
(*                                                                         *)
(* A table may have one code or none (miniz.c:1515).  Bits that are none   *)
(* of its codes are then decoded as symbol 0, and stay (1422-1426): for a  *)
(* distance, a code of no bits; for a literal, "void", the byte 0, from    *)
(* where no bit is read any more.  (Of a code longer than the lookup, some *)
(* bits are used: a literal 0 like others.)  The distances 30 and 31 are   *)
(* 0; the lengths 286 and 287 are too, but copy three bytes.               *)
Literals == {"lit", "void"}

Symbols == Literals \cup {"len", "end"}

Coded == Symbols \cup {"bits", "code"}

Byte == 0..255

(* What is in memory that was never written.                               *)
Unknown == 256

Datum == Byte \cup {Unknown}

Operation ==
  [op : {"bits"}, bits : 0..16]
    \cup [op : {"code"}, bits : 0..15]
    \cup [op : {"len", "end"}, bits : 1..15]
    \cup [op : {"lit"}, bits : 1..15, byte : Byte]
    \cup [op : {"void"}, bits : {0}, byte : {0}]
    \cup [op : {"copy"}, dist : 0..DictSize, len : Nat \ {0}]
    \cup [op : {"stored"}, bytes : Seq(Byte)]
    \cup [op : {"align", "fail", "done"}]

(* Four bytes behind the beginning of a byte come before operation k.      *)
FourBytes(ops, k) ==
  /\ k > 5 /\ ops[k - 5].op = "align"
  /\ \A j \in k - 4 .. k - 1 : ops[j].op = "bits" /\ ops[j].bits = 8

(* Another symbol follows a literal in its block; the length of stored     *)
(* bytes stands before them, and the checksum before the end.              *)
WellFormed(ops, zlib) ==
  /\ ops \in Seq(Operation) \ {<< >>}
  /\ \A k \in 1 .. Len(ops) :
       /\ ops[k].op = "done" <=> k = Len(ops)
       /\ ops[k].op = "lit" => ops[k + 1].op \in Symbols
       /\ ops[k].op = "stored" => FourBytes(ops, k)
       /\ ops[k].op = "done" /\ zlib => FourBytes(ops, k)

(* What a stream stands for: the text after each operation.  Nothing is    *)
(* known behind a literal that has no code, nor of what a match copies     *)
(* from where nothing is yet.                                              *)
Extended(t, o) ==
  CASE o.op = "lit" -> Append(t, o.byte)
    [] o.op = "void" -> Append(t, Unknown)
    [] o.op = "stored" -> t \o o.bytes
    [] o.op = "copy" ->
         t \o [k \in 1 .. o.len |->
                 IF o.dist = 0 THEN Unknown
                 ELSE LET j == Len(t) - o.dist + 1 + ((k - 1) % o.dist)
                      IN  IF j > 0 THEN t[j] ELSE Unknown]
    [] OTHER -> t

Texts(ops) ==
  LET texts[n \in 0 .. Len(ops)] ==
        IF n = 0 THEN << >> ELSE Extended(texts[n - 1], ops[n])
  IN  texts

(* Where an operation that begins at bit n ends.                           *)
Behind(n, o) ==
  CASE o.op \in Coded -> n + o.bits
    [] o.op = "align" -> ((n + 7) \div 8) * 8
    [] o.op = "stored" -> n + 8 * Len(o.bytes)
    [] OTHER -> n

Positions(ops) ==
  LET positions[n \in 0 .. Len(ops)] ==
        IF n = 0 THEN 0 ELSE Behind(positions[n - 1], ops[n])
  IN  positions

(* The bytes that ops take.                                                *)
SizeOf(ops) == (Positions(ops)[Len(ops)] + 7) \div 8

(* How much of a text is known: what comes before the first that is not.   *)
Known(text) ==
  LET unknown == {k \in 1 .. Len(text) : text[k] = Unknown}
  IN  IF unknown = {} THEN Len(text) ELSE Min(unknown) - 1

(* A stream in size bytes: cut short if the ops take more, followed by     *)
(* other bytes if they take less.                                          *)
Stream(ops, size, zlib) ==
  LET text == Texts(ops)[Len(ops)] IN
  [ops |-> ops, size |-> size, zlib |-> zlib, text |-> text,
   known |-> Known(text),
   whole |-> /\ SizeOf(ops) <= size
             /\ \A k \in 1 .. Len(ops) :
                  /\ ops[k].op # "fail"
                  /\ ops[k].op = "code" => ops[k].bits > 0
             /\ \A k \in 1 .. Len(text) : text[k] # Unknown]

ASSUME StreamsAssumption ==
  \A s \in Streams :
    /\ s.size \in Nat /\ s.zlib \in BOOLEAN
    /\ WellFormed(s.ops, s.zlib)
    /\ s = Stream(s.ops, s.size, s.zlib)

VARIABLES
  stream, caller,
  offered,      (* the end of the input given so far; avail_in is the rest *)
  room,         (* avail_out                                               *)
  flush,        (* of the call: "none" or "finish"                         *)
  no_input,     (* it began without input: orig_avail_in is 0              *)
  first_call, has_flushed, last_status,
  dict,         (* m_dict, not cleared                                     *)
  dict_ofs, dict_avail,
  capacity,     (* out_buf_capacity of mem_to_heap                         *)
  delivered,    (* history: what the caller has got                        *)
  status,       (* what its last call returned                             *)
  pc,           (* "idle", "run" in tinfl_decompress, "back" from it       *)
  wrapping,     (* of tinfl_decompress: not USING_NON_WRAPPING_OUTPUT_BUF  *)
  more,         (* HAS_MORE_INPUT                                          *)
  space, fresh, (* the bytes it can still write, those it has written      *)
  ret,          (* its result                                              *)
  at, phase,    (* m_state: the op, and whether it is to be read, waits    *)
                (* for a byte ("fill") or for room ("emit")                *)
  left,         (* m_counter: bytes of a copy or stored block to go        *)
  num_bits,     (* m_num_bits                                              *)
  taken,        (* total_in                                                *)
  lost,         (* history: zeros were used where the input had ended      *)
  decoded       (* history: everything written, up to MaxGarbage bytes     *)
                (* behind the text                                         *)

input == <<taken, num_bits>>
place == <<at, phase, left, lost>>
written == <<dict, space, fresh, decoded>>
window == <<dict_ofs, dict_avail>>
call == <<offered, room, flush, no_input, wrapping, more>>
flags == <<first_call, has_flushed, last_status>>
const == <<stream, caller>>
vars == <<const, call, flags, window, capacity, delivered, status, pc, ret,
          written, place, input>>

Text == stream.text

Init ==
  /\ stream \in Streams /\ caller \in Callers
  /\ offered = 0 /\ room = 0 /\ flush = "none" /\ no_input = FALSE
  /\ first_call = TRUE /\ has_flushed = FALSE /\ last_status = "needs_more"
  /\ dict = [s \in 0 .. DictSize - 1 |-> Unknown]
  /\ dict_ofs = 0 /\ dict_avail = 0
  /\ capacity = 0 /\ delivered = << >> /\ status = "none" /\ pc = "idle"
  /\ wrapping = FALSE /\ more = FALSE /\ space = 0 /\ fresh = 0 /\ ret = "none"
  /\ at = 1 /\ phase = "read" /\ left = 0 /\ num_bits = 0 /\ taken = 0
  /\ lost = FALSE /\ decoded = << >>

-----------------------------------------------------------------------------
Op == stream.ops[at]
avail == offered - taken
Running(kinds) == pc = "run" /\ Op.op \in kinds /\ ~lost

(* What is decoded from now on no longer comes from the stream.            *)
Astray == lost \/ Op.op = "void"

(* The histories are full.  The buffer on the heap is bounded by Memory.   *)
Over == caller # "heap" /\ Len(decoded) > Len(Text) + MaxGarbage

(* What a history is when something is added to it.                        *)
Kept(history, bytes) == IF Over THEN history ELSE history \o bytes

Ret(s) == pc' = "back" /\ ret' = s
Go == UNCHANGED <<pc, ret>>
Proceed(k) == at' = k /\ phase' = "read" /\ left' = 0
Advance == Proceed(at + 1)

outside == <<const, call, flags, window, capacity, delivered, status>>

(* TINFL_GET_BITS and its kin: as many bytes as the bits needed take, one  *)
(* by one; then n bits are used.  When there are no more bytes, wait for   *)
(* them, or put zeros in their place.                                      *)
Fetch(needed, n, then) ==
  LET k == IF num_bits >= needed THEN 0 ELSE (needed - num_bits + 7) \div 8 IN
  IF k > avail /\ more
  THEN /\ taken' = offered /\ num_bits' = num_bits + 8 * avail
       /\ Ret("needs_more") /\ phase' = "fill"
       /\ UNCHANGED <<at, left, lost>>
  ELSE /\ taken' = taken + Min({k, avail})
       /\ num_bits' = num_bits + 8 * k - n
       /\ lost' = (k > avail)
       /\ Go
       /\ then

(* TINFL_HUFF_DECODE of a code of n bits: two bytes at once while there    *)
(* are two.  What has no code is looked for in 15 bits.                    *)
HuffDecode(n, then) ==
  IF phase = "read" /\ num_bits < 15 /\ avail >= 2
  THEN /\ taken' = taken + 2 /\ num_bits' = num_bits + 16 - n
       /\ UNCHANGED lost
       /\ Go
       /\ then
  ELSE Fetch(IF n = 0 THEN 15 ELSE n, n, then)

(* Bytes are written, to the window where it is used.                      *)
Write(bytes) ==
  LET ofs == dict_ofs + fresh
  IN  /\ dict' = IF ~wrapping THEN dict
                 ELSE [s \in DOMAIN dict |->
                         IF s \in ofs .. ofs + Len(bytes) - 1
                         THEN bytes[s - ofs + 1] ELSE dict[s]]
      /\ space' = space - Len(bytes) /\ fresh' = fresh + Len(bytes)
      /\ decoded' = Kept(decoded, bytes)

(* Mutant: the buffer is filled up beyond what it can hold.                *)
RefillBelowMore == 48

(* Four bytes are read into a buffer with fewer bits than this.            *)
RefillBelow == 30

Fast == avail >= 4 /\ space >= 2 /\ phase = "read"

(* What comes after the symbol k: itself again, if it has no bits.         *)
After(k) == IF stream.ops[k].op = "void" THEN k ELSE k + 1

(* The fast loop: one symbol, and when it is a literal the next as well.   *)
FastSymbol ==
  /\ Running(Symbols) /\ Fast
  /\ LET refill == num_bits < RefillBelow
         two == Op.op \in Literals
         next == After(at)
         second == stream.ops[next]
     IN  /\ taken' = taken + (IF refill THEN 4 ELSE 0)
         /\ num_bits' = num_bits + (IF refill THEN 32 ELSE 0)
                          - (Op.bits + (IF two THEN second.bits ELSE 0))
         /\ Proceed(IF two THEN After(next) ELSE next)
         /\ IF ~two THEN UNCHANGED written
            ELSE Write(IF second.op \in Literals
                       THEN <<Op.byte, second.byte>> ELSE <<Op.byte>>)
  /\ Go /\ UNCHANGED <<outside, lost>>

(* The slow one; a literal waits until there is room for it.               *)
SlowSymbol ==
  /\ Running(Symbols) /\ ~Fast /\ phase # "emit"
  /\ HuffDecode(Op.bits,
       IF Op.op \in Literals THEN phase' = "emit" /\ UNCHANGED <<at, left>>
                             ELSE Advance)
  /\ UNCHANGED <<outside, written>>

EmitLiteral ==
  /\ Running(Literals) /\ phase = "emit"
  /\ IF space = 0
     THEN Ret("has_more") /\ UNCHANGED <<written, place>>
     ELSE Write(<<Op.byte>>) /\ Proceed(After(at)) /\ Go /\ UNCHANGED lost
  /\ UNCHANGED <<outside, input>>

ReadCode ==
  /\ Running({"code"})
  /\ HuffDecode(Op.bits, Advance)
  /\ UNCHANGED <<outside, written>>

ReadBits ==
  /\ Running({"bits"})
  /\ Fetch(Op.bits, Op.bits, Advance)
  /\ UNCHANGED <<outside, written>>

Align ==
  /\ Running({"align"})
  /\ num_bits' = num_bits - (num_bits % 8)
  /\ Advance /\ Go
  /\ UNCHANGED <<outside, written, taken, lost>>

(* Byte by byte behind what is written; the window goes round.  The        *)
(* distance 0 leaves what is there.                                        *)
Copied(n) ==
  LET back == IF Op.dist = 0 THEN DictSize ELSE Op.dist
      from == IF wrapping THEN dict_ofs + fresh ELSE Len(decoded)
      Source(k) == IF wrapping THEN dict[(from - back + k) % DictSize]
                   ELSE IF Op.dist = 0 THEN Unknown
                   ELSE decoded[from - back + k + 1]
  IN  [k \in 1..n |-> Source((k - 1) % back)]

(* Only a buffer that holds all of the output shows a distance that        *)
(* reaches behind its beginning.                                           *)
CopyMatch ==
  /\ Running({"copy"})
  /\ LET togo == IF phase = "emit" THEN left ELSE Op.len
         n == Min({togo, space})
         far == phase = "read" /\ Op.dist > Len(decoded)
     IN  IF far /\ ~wrapping
         THEN Ret("failed") /\ UNCHANGED <<written, place>>
         ELSE /\ Write(Copied(n))
              /\ IF n = togo THEN Advance /\ Go
                 ELSE Ret("has_more") /\ left' = togo - n /\ phase' = "emit"
                      /\ UNCHANGED at
              /\ UNCHANGED lost
  /\ UNCHANGED <<outside, input>>

(* Stored bytes: first those in the bit buffer, then from the input.       *)
CopyStored ==
  /\ Running({"stored"})
  /\ LET all == Len(Op.bytes)
         togo == IF phase = "emit" THEN left ELSE all
         n == IF num_bits > 0 THEN Min({1, space}) ELSE Min({togo, space, avail})
     IN  IF togo = 0
         THEN Advance /\ Go /\ UNCHANGED <<written, input, lost>>
         ELSE /\ IF num_bits > 0
                 THEN num_bits' = num_bits - 8 * n /\ UNCHANGED taken
                 ELSE taken' = taken + n /\ UNCHANGED num_bits
              /\ Write(SubSeq(Op.bytes, all - togo + 1, all - togo + n))
              /\ left' = togo - n /\ phase' = "emit"
              /\ IF n > 0 THEN Go
                 ELSE IF space = 0 THEN Ret("has_more")
                 ELSE Ret(IF more THEN "needs_more" ELSE "failed")
              /\ UNCHANGED <<at, lost>>
  /\ UNCHANGED outside

(* What the code refuses.                                                  *)
Fail == Running({"fail"}) /\ Ret("failed")
        /\ UNCHANGED <<outside, written, place, input>>

(* Mutant: the checksum is read and not compared.                          *)
DoneUnchecked ==
  /\ pc = "run" /\ Op.op = "done" /\ Ret("done")
  /\ UNCHANGED <<outside, written, place, input>>

(* The end of the stream, and its checksum compared.  That of one cut off  *)
(* may end in the zeros that are missing; one that is damaged stands for   *)
(* nothing that a checksum could be of.                                    *)
Done ==
  /\ pc = "run" /\ Op.op = "done"
  /\ \/ (~stream.zlib \/ decoded = Text) /\ Ret("done")
     \/ /\ stream.zlib /\ (lost \/ ~stream.whole \/ decoded # Text)
        /\ Ret("mismatch")
  /\ UNCHANGED <<outside, written, place, input>>

(* Zeros are read, as many as are asked for (miniz.c:1380): as bytes, as   *)
(* something refused, or as the end.                                       *)
Lost ==
  /\ pc = "run" /\ lost /\ Op.op # "done"
  /\ \/ space > 0 /\ Write(<<0>>) /\ Go /\ UNCHANGED place
     \/ space = 0 /\ Ret("has_more") /\ UNCHANGED <<written, place>>
     \/ Ret("failed") /\ UNCHANGED <<written, place>>
     \/ at' = Len(stream.ops) /\ Go /\ UNCHANGED <<written, phase, left, lost>>
  /\ UNCHANGED <<outside, input>>

tinfl_decompress ==
  \/ FastSymbol \/ SlowSymbol \/ EmitLiteral \/ ReadCode \/ ReadBits \/ Align
  \/ CopyMatch \/ CopyStored \/ Fail \/ Done \/ Lost

Enter(wrap, n) ==
  /\ pc' = "run" /\ wrapping' = wrap /\ space' = n /\ fresh' = 0

Bad(s) == s \in {"failed", "mismatch"}
-----------------------------------------------------------------------------
(* mz_inflate.                                                             *)
Return(s) == pc' = "idle" /\ status' = s

(* The next n bytes of the window.                                         *)
Waiting(n) == [k \in 1..n |-> dict[(dict_ofs + k - 1) % DictSize]]

Inflate(f, upto, r) ==
  /\ caller = "inflate" /\ pc = "idle"
  /\ offered' = upto /\ flush' = f /\ no_input' = (upto = taken)
  /\ first_call' = FALSE /\ more' = (f # "finish")
  /\ IF Bad(last_status) \/ (has_flushed /\ f # "finish")
     THEN /\ Return(IF Bad(last_status) THEN "data_error" ELSE "stream_error")
          /\ room' = r
          /\ UNCHANGED <<has_flushed, window, delivered, wrapping, space, fresh>>
     ELSE /\ has_flushed' = (has_flushed \/ f = "finish")
          /\ IF first_call /\ f = "finish"
             THEN /\ Enter(FALSE, r) /\ room' = r
                  /\ UNCHANGED <<window, delivered, status>>
             ELSE IF dict_avail > 0
             THEN LET n == Min({dict_avail, r}) IN
                  /\ delivered' = Kept(delivered, Waiting(n))
                  /\ room' = r - n /\ dict_avail' = dict_avail - n
                  /\ dict_ofs' = (dict_ofs + n) % DictSize
                  /\ Return(IF last_status = "done" /\ dict_avail' = 0
                            THEN "stream_end" ELSE "ok")
                  /\ UNCHANGED <<wrapping, space, fresh>>
             ELSE /\ Enter(TRUE, DictSize - dict_ofs) /\ room' = r
                  /\ UNCHANGED <<window, delivered, status>>
  /\ UNCHANGED <<const, last_status, capacity, ret, dict, decoded, place, input>>

(* Mutant: the loop goes on without input.                                 *)
AgainEmpty(after) ==
  IF flush = "finish" \/ ~(ret = "done" \/ room' = 0 \/ dict_avail' > 0)
  THEN pc' = "run" /\ UNCHANGED status ELSE Return(after)

(* Mutant: the window is written again while some of it waits.             *)
AgainFull(after) ==
  IF flush = "finish" \/ ~(ret = "done" \/ avail = 0)
  THEN pc' = "run" /\ UNCHANGED status ELSE Return(after)

(* The loop goes on as long as there is input, room, and nothing waits.    *)
Again(after) ==
  IF flush = "finish" \/ ~(ret = "done" \/ avail = 0 \/ room' = 0 \/ dict_avail' > 0)
  THEN pc' = "run" /\ UNCHANGED status ELSE Return(after)

AfterInflate ==
  /\ caller = "inflate" /\ pc = "back" /\ wrapping
  /\ last_status' = ret
  /\ LET n == Min({fresh, room})
         after == IF ret = "done" /\ fresh = n THEN "stream_end" ELSE "ok"
     IN  /\ delivered' = Kept(delivered, Waiting(n))
         /\ room' = room - n /\ dict_avail' = fresh - n
         /\ dict_ofs' = (dict_ofs + n) % DictSize
         /\ space' = DictSize - dict_ofs' /\ fresh' = 0
         /\ IF Bad(ret) THEN Return("data_error")
            ELSE IF ret = "needs_more" /\ no_input THEN Return("buf_error")
            ELSE IF flush = "finish" /\ (ret = "done" \/ room' = 0)
            THEN Return(IF after = "ok" THEN "buf_error" ELSE after)
            ELSE Again(after)
  /\ UNCHANGED <<const, offered, flush, no_input, wrapping, more, first_call,
                 has_flushed, capacity, ret, dict, decoded, place, input>>

(* Z_FINISH in the first call: all at once, or never.                      *)
AfterFinish ==
  /\ caller = "inflate" /\ pc = "back" /\ ~wrapping
  /\ last_status' = IF ret = "done" \/ Bad(ret) THEN ret ELSE "failed"
  /\ Return(IF Bad(ret) THEN "data_error"
            ELSE IF ret = "done" THEN "stream_end" ELSE "buf_error")
  /\ delivered' = decoded /\ room' = space
  /\ UNCHANGED <<const, offered, flush, no_input, wrapping, more, first_call,
                 has_flushed, window, capacity, ret, written, place, input>>

(* Any call that the interface allows.                                     *)
CallInflate ==
  \E f \in {"none", "finish"}, r \in Rooms,
     upto \in {Min({offered + k, stream.size}) : k \in Pieces \cup {stream.size}} :
    Inflate(f, upto, r)

-----------------------------------------------------------------------------
(* tinfl_decompress_mem_to_heap and .._mem_to_callback: all of the input,  *)
(* never more of it.                                                       *)
Begin ==
  /\ caller # "inflate" /\ pc = "idle" /\ status = "none"
  /\ offered' = stream.size /\ more' = FALSE
  /\ Enter(caller = "callback", IF caller = "callback" THEN DictSize ELSE 0)
  /\ UNCHANGED <<const, room, flush, no_input, flags, window, capacity, delivered,
                 status, ret, dict, decoded, place, input>>

(* The buffer grows when it is full, if there is memory.  For an empty     *)
(* text there is none yet, and NULL is returned also at the end.           *)
AfterHeap ==
  /\ caller = "heap" /\ pc = "back"
  /\ \/ /\ ret = "done"
        /\ delivered' = decoded
        /\ Return(IF capacity = 0 THEN "null" ELSE "stream_end")
        /\ UNCHANGED <<capacity, space, fresh>>
     \/ /\ ret # "done"
        /\ delivered' = << >> /\ Return("null")
        /\ UNCHANGED <<capacity, space, fresh>>
     \/ /\ ret = "has_more"
        /\ capacity' = Max({2 * capacity, FirstCapacity}) /\ capacity' <= Memory
        /\ pc' = "run" /\ space' = capacity' - Len(decoded) /\ fresh' = 0
        /\ UNCHANGED <<delivered, status>>
  /\ UNCHANGED <<const, call, flags, window, ret, dict, decoded, place, input>>

(* What was written is handed over at once, and may be refused.            *)
AfterCallback ==
  /\ caller = "callback" /\ pc = "back"
  /\ delivered' = Kept(delivered, Waiting(fresh))
  /\ dict_ofs' = (dict_ofs + fresh) % DictSize
  /\ space' = DictSize - dict_ofs' /\ fresh' = 0
  /\ \/ fresh > 0 /\ Return("refused")
     \/ IF ret = "has_more" THEN pc' = "run" /\ UNCHANGED status
        ELSE Return(IF ret = "done" THEN "stream_end" ELSE "failed")
  /\ UNCHANGED <<const, call, flags, dict_avail, capacity, ret, dict, decoded,
                 place, input>>

Work ==
  tinfl_decompress \/ AfterInflate \/ AfterFinish \/ Begin \/ AfterHeap
  \/ AfterCallback

Next == Work \/ CallInflate

Spec == Init /\ [][Next]_vars /\ WF_vars(Work)
-----------------------------------------------------------------------------
Prefix(s, t) == Len(s) <= Len(t) /\ s = SubSeq(t, 1, Len(s))

(* However the input and the room are cut into calls, what comes out is    *)
(* what the stream stands for as long as its bits are there, and what the  *)
(* caller gets is what was decoded, each byte once and in order, although  *)
(* the window goes round under it (miniz.c:1440-1697, 1238-1298).          *)
OutputIsText ==
  /\ ~lost => \/ Prefix(decoded, Text)
              \/ Prefix(SubSeq(Text, 1, stream.known), decoded)
  /\ ~Astray => Len(decoded) <= Len(Text)
  /\ Prefix(delivered, decoded)
  /\ caller = "inflate" /\ pc = "idle" /\ ~Bad(last_status) /\ ~Over =>
       Len(delivered) + dict_avail = Len(decoded)

(* A stream with a checksum is never reported as ended unless the caller   *)
(* has all of it, however it was cut short or damaged; and a stream that   *)
(* is whole is never reported as damaged (miniz.c:1675-1696).              *)
EndIsWhole ==
  /\ status = "stream_end" /\ stream.zlib => delivered = Text
  /\ status = "stream_end" /\ ~lost /\ stream.whole => delivered = Text
  /\ pc = "back" /\ Bad(ret) /\ stream.whole => lost \/ offered < stream.size

(* The bit buffer never holds more than its 64 bits, though the fast loop  *)
(* fills it four bytes at a time (miniz.c:1568-1576).                      *)
BufferFits == num_bits <= 61

(* "to never read beyond the final byte of the deflate stream", as the     *)
(* comment at miniz.c:1409-1412 puts it: at the end of a stream no whole   *)
(* byte is left in the bit buffer.  The code reads two or four bytes at    *)
(* once while it has them.                                                 *)
NeverReadsBeyond == ret = "done" /\ stream.whole /\ ~lost => num_bits < 8

(* What holds instead: fewer than 8 bytes from behind the end have been    *)
(* read, fewer than 4 behind a checksum.                                   *)
ReadsAheadLittle ==
  ret = "done" => num_bits \div 8 <= (IF stream.zlib THEN 3 ELSE 7)

(* Every call returns, but for one: mem_to_callback goes on for as long as *)
(* its callback accepts, for ever if zeros behind the input or bits that   *)
(* are no code make literals without end (miniz.c:1380, 1744-1758).  The   *)
(* others end as their room or the memory does.                            *)
CallsReturn ==
  []<>(\/ pc = "idle" /\ (caller # "inflate" => status # "none")
       \/ caller = "callback" /\ Astray)

(* A caller that goes on giving mz_inflate all of a whole stream and some  *)
(* room, in calls without Z_FINISH, gets to its end: no call leaves it     *)
(* where the next one does nothing (miniz.c:1236-1300).                    *)
KeepsComing ==
  /\ stream.whole /\ caller = "inflate"
  /\ [](flush = "none")
  /\ []<><<\E r \in Rooms \ {0} : Inflate("none", stream.size, r)>>_vars
  => <>(status = "stream_end")

-----------------------------------------------------------------------------
(* What the properties rest on.                                            *)
TypeOK ==
  /\ stream \in Streams /\ caller \in {"inflate", "heap", "callback"}
  /\ offered \in 0 .. stream.size /\ taken \in 0 .. offered
  /\ room \in Nat /\ space \in Nat /\ fresh \in Nat /\ capacity \in Nat
  /\ flush \in {"none", "finish"} /\ pc \in {"idle", "run", "back"}
  /\ {no_input, first_call, has_flushed, wrapping, more, lost} \subseteq BOOLEAN
  /\ dict \in [0 .. DictSize - 1 -> Datum]
  /\ dict_ofs \in 0 .. DictSize - 1 /\ dict_avail \in 0..DictSize
  /\ decoded \in Seq(Datum) /\ delivered \in Seq(Datum)
  /\ ret \in {"none", "needs_more", "has_more", "failed", "done", "mismatch"}
  /\ at \in 1 .. Len(stream.ops) /\ phase \in {"read", "fill", "emit"}
  /\ left \in Nat /\ num_bits \in Nat

(* The bytes that are there already of a copy or of a stored block.        *)
Part ==
  CASE phase = "emit" /\ Op.op = "copy" -> Op.len - left
    [] phase = "emit" /\ Op.op = "stored" -> Len(Op.bytes) - left
    [] OTHER -> 0

(* As long as no bit was lost, the bits taken from the buffer and the      *)
(* bytes written are those of the operations gone through, and zeros       *)
(* behind them where a literal has no code.                                *)
PlaceValid ==
  ~lost =>
    /\ phase = "fill" => Op.op \in Coded
    /\ phase = "emit" =>
         \/ Op.op \in Literals
         \/ Op.op = "copy" /\ left <= Op.len
         \/ Op.op = "stored" /\ left <= Len(Op.bytes)
    /\ Len(decoded) >= Len(Texts(stream.ops)[at - 1])
    /\ ~Astray => Len(decoded) = Len(Texts(stream.ops)[at - 1]) + Part
    /\ \A k \in 1 .. Len(decoded) : k <= stream.known => decoded[k] = Text[k]
    /\ phase = "emit" /\ Op.op = "copy" /\ ~wrapping => Op.dist <= Len(decoded)
    /\ 8 * taken - num_bits =
         Positions(stream.ops)[at - 1]
           + (IF phase = "emit" /\ Op.op \in Literals THEN Op.bits
              ELSE IF Op.op = "stored" THEN 8 * Part ELSE 0)

(* The bit buffer holds what a refill leaves; at the bytes of a checksum,  *)
(* less with each of them.                                                 *)
BufferValid ==
  /\ num_bits <= 61
  /\ lost => num_bits <= 22
  /\ stream.zlib /\ at >= Len(stream.ops) - 4 =>
       num_bits <= 24 + 8 * (Len(stream.ops) - at)

(* The last bytes decoded are in the window, and those that wait in it are *)
(* what is to be delivered next.                                           *)
InWindow ==
  \A k \in 1 .. Len(decoded) :
    k > Len(decoded) - DictSize => dict[(k - 1) % DictSize] = decoded[k]

Delivering ==
  /\ ~Over => /\ dict_ofs = Len(delivered) % DictSize
              /\ InWindow
              /\ Len(decoded) =
                   Len(delivered) + (IF pc = "idle" THEN dict_avail ELSE fresh)
  /\ pc # "idle" => /\ wrapping /\ dict_avail = 0
                    /\ dict_ofs + fresh + space = DictSize

(* A call that is to finish at once, and the state that it leaves: nothing *)
(* is written any more.                                                    *)
Finishing ==
  /\ caller = "inflate" /\ pc # "idle" /\ ~wrapping /\ ~first_call
  /\ dict_avail = 0 /\ dict_ofs = 0 /\ delivered = << >>

Finished ==
  /\ caller = "inflate" /\ ~first_call /\ dict_avail = 0 /\ dict_ofs = 0
  /\ delivered = decoded
  /\ pc # "idle" => wrapping /\ fresh = 0
  /\ (Bad(last_status) /\ pc = "idle") \/ Op.op = "done"

WindowValid ==
  /\ caller = "heap" => /\ ~wrapping
                        /\ delivered = << >> \/ delivered = decoded
                        /\ pc # "idle" => /\ delivered = << >>
                                          /\ space + Len(decoded) = capacity
  /\ caller # "heap" => Delivering \/ Finishing \/ Finished
  /\ caller = "callback" => dict_avail = 0
  /\ caller = "inflate" /\ first_call =>
       pc = "idle" /\ ~wrapping /\ decoded = << >> /\ delivered = << >>
  /\ \A k \in 1 .. Len(delivered) : k <= Len(decoded) /\ delivered[k] = decoded[k]

(* What an end reported stands for.                                        *)
EndOf(s) == s = "done" => Op.op = "done" /\ (stream.zlib => decoded = Text)

ReturnsValid ==
  /\ EndOf(ret) /\ EndOf(last_status)
  /\ status = "stream_end" =>
       Op.op = "done" /\ (~Over => delivered = decoded)
         /\ (stream.zlib => decoded = Text)
  /\ caller # "inflate" /\ status = "none" /\ pc = "idle" =>
       capacity = 0 /\ decoded = << >> /\ delivered = << >>
  /\ pc = "back" /\ Bad(ret) /\ stream.whole => lost \/ offered < stream.size

IInv == TypeOK /\ PlaceValid /\ BufferValid /\ WindowValid /\ ReturnsValid
=============================================================================
