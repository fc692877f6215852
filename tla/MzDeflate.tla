------------------------------ MODULE MzDeflate ------------------------------
(***************************************************************************)
(* The compressor of miniz.c as mz_deflate drives it: the LZ parse of      *)
(* tdefl_compress_normal and tdefl_compress_fast, the blocks it is cut     *)
(* into, and the output that waits when the caller's buffer is full.       *)
(*                                                                         *)
(* A step is an iteration of a parse loop.  The hash chains only propose   *)
(* where an earlier occurrence may be, and the bytes are compared there:   *)
(* here any place in the dictionary may be proposed, or none.  A block is  *)
(* the codes or the bytes it stands for, and some number of output bytes.  *)
(***************************************************************************)
EXTENDS Integers, Sequences, FiniteSetsExt, SequencesExt

CONSTANTS
  Sources,      (* the inputs considered, sequences of bytes               *)
  Modes,        (* the parses that the flags choose: "raw", "rle", "fast", *)
                (* "greedy" and "lazy"                                     *)
  DictSize,     (* TDEFL_LZ_DICT_SIZE, 32768                               *)
  MinMatch,     (* TDEFL_MIN_MATCH_LEN, 3                                  *)
  MaxMatch,     (* TDEFL_MAX_MATCH_LEN, 258                                *)
  FarDist,      (* 8192: a shortest match from there on is not worth it    *)
  LongMatch,    (* 128: a match that is not held back for a better one     *)
  FastAhead,    (* TDEFL_COMP_FAST_LOOKAHEAD_SIZE, 4096                    *)
  MaxCodes,     (* the codes that TDEFL_LZ_CODE_BUF_SIZE has room for      *)
  BlockBytes,   (* 31 * 1024                                               *)
  BlockSizes,   (* the numbers of output bytes a block may take            *)
  Stale         (* bytes that m_dict, which is not cleared, may hold       *)

ASSUME SizesAssumption ==
  /\ DictSize \in Nat /\ MaxMatch \in Nat /\ MinMatch \in Nat
  /\ 1 < MinMatch /\ MinMatch < MaxMatch /\ MaxMatch < DictSize
  /\ FastAhead \in MinMatch .. DictSize
  /\ FarDist \in Nat /\ LongMatch \in Nat /\ MaxCodes \in Nat
  /\ BlockBytes \in Nat /\ BlockSizes \subseteq Nat \ {0}

Byte == 0..255

ASSUME InputAssumption == Sources \subseteq Seq(Byte) /\ Stale \subseteq Byte

VARIABLES
  source,       (* what the caller compresses, over all of its calls       *)
  mode,
  taken,        (* total_in: the bytes of it that were read                *)
  offered,      (* how far the calls have offered it; avail_in is the rest *)
  room,         (* avail_out                                               *)
  written,      (* total_out                                               *)
  flush,        (* of the call: "none", "sync", "full" or "finish"         *)
  before,       (* total_in and total_out when the call began              *)
  pc,           (* "idle", "compress" (tdefl_compress is entered), "parse",*)
                (* "fast" (the inner loops of the fast parse), "parsed"    *)
  status,       (* what the last call returned                             *)
  dict,         (* m_dict: the ring, and its beginning once more behind it *)
  dict_size, lookahead_pos, lookahead_size,
  saved,        (* m_saved_match_dist, m_saved_match_len, m_saved_lit      *)
  codes,        (* m_lz_code_buf                                           *)
  total_lz_bytes,
  block_start,  (* m_lz_code_buf_dict_pos                                  *)
  pending,      (* m_output_flush_remaining                                *)
  adler,        (* how much of the source is in m_adler32                  *)
  wants_to_finish, finished, prev_status,
  decoded,      (* history: what the blocks put out stand for              *)
  final,        (* history: "no" final block yet, "yes", or not the last   *)
  trailer       (* history: what the checksum covers that was written      *)

call == <<offered, flush, before>>
lz == <<dict, dict_size, lookahead_pos, lookahead_size, saved>>
block == <<codes, total_lz_bytes, block_start, decoded, final, trailer>>
output == <<room, written, pending>>
ending == <<adler, wants_to_finish, finished, prev_status>>
const == <<source, mode>>
vars == <<const, taken, call, pc, status, lz, block, output, ending>>

Slot(pos) == pos % DictSize

Lit(b) == [lit |-> TRUE, byte |-> b]
Copy(dist, len) == [lit |-> FALSE, dist |-> dist, len |-> len]
NoMatch == [dist |-> 0, len |-> 0, byte |-> 0]

(* What codes stand for behind what came before them.                      *)
Extended(text, c) ==
  IF c.lit THEN Append(text, c.byte)
  ELSE text \o [k \in 1 .. c.len |->
                  text[Len(text) - c.dist + 1 + ((k - 1) % c.dist)]]

Expanded(text, cs) == FoldLeft(Extended, text, cs)

(* How many bytes, of the codes that one iteration records: at most two.   *)
Bytes(cs) ==
  LET n(k) == IF k > Len(cs) THEN 0 ELSE IF cs[k].lit THEN 1 ELSE cs[k].len
  IN  n(1) + n(2)

Init ==
  /\ source \in Sources /\ mode \in Modes
  /\ \E b \in Stale : dict = [s \in 0 .. DictSize + MaxMatch - 2 |-> b]
  /\ taken = 0 /\ offered = 0 /\ room = 0 /\ written = 0
  /\ flush = "none" /\ before = <<0, 0>> /\ pc = "idle" /\ status = "none"
  /\ dict_size = 0 /\ lookahead_pos = 0 /\ lookahead_size = 0
  /\ saved = NoMatch /\ codes = << >> /\ total_lz_bytes = 0
  /\ block_start = 0 /\ pending = 0 /\ adler = 0
  /\ wants_to_finish = FALSE /\ finished = FALSE /\ prev_status = "okay"
  /\ decoded = << >> /\ final = "no" /\ trailer = -1

-----------------------------------------------------------------------------
(* mz_deflate up to its loop: more of the source and a buffer of r bytes.  *)
Return(s) == pc' = "idle" /\ status' = s

Deflate(f, upto, r) ==
  /\ pc = "idle"
  /\ offered' = upto /\ room' = r /\ flush' = f /\ before' = <<taken, written>>
  /\ IF r = 0 THEN Return("buf_error")
     ELSE IF prev_status = "done"
     THEN Return(IF f = "finish" THEN "stream_end" ELSE "buf_error")
     ELSE pc' = "compress" /\ UNCHANGED status
  /\ UNCHANGED <<const, taken, lz, block, written, pending, ending>>

(* Mutant: a full buffer does not end the loop.                            *)
LoopWithoutRoom(st, left, roomLeft, progress) ==
  IF st = "bad_param" THEN Return("stream_error")
  ELSE IF st = "done" THEN Return("stream_end")
  ELSE pc' = "compress" /\ UNCHANGED status

(* What mz_deflate does with the status of tdefl_compress.                 *)
Loop(st, left, roomLeft, progress) ==
  IF st = "bad_param" THEN Return("stream_error")
  ELSE IF st = "done" THEN Return("stream_end")
  ELSE IF roomLeft = 0 THEN Return("ok")
  ELSE IF left = 0 /\ flush # "finish"
  THEN Return(IF flush # "none" \/ progress THEN "ok" ELSE "buf_error")
  ELSE pc' = "compress" /\ UNCHANGED status

(* Mutant: the end is reported while output waits.                         *)
FlushStatusEarly(fin, rest) == IF fin THEN "done" ELSE "okay"

FlushStatus(fin, rest) == IF fin /\ rest = 0 THEN "done" ELSE "okay"

(* tdefl_flush_output_buffer, and the return to mz_deflate's loop: n bytes *)
(* wait and r can be written.                                              *)
Drain(n, r, out, fin) ==
  LET k == Min({n, r})
      st == FlushStatus(fin, n - k)
  IN  /\ pending' = n - k /\ room' = r - k /\ written' = out + k
      /\ prev_status' = st
      /\ Loop(st, offered - taken, r - k, <<taken, out + k>> # before)

Compress ==
  /\ pc = "compress"
  /\ IF prev_status # "okay" \/ (wants_to_finish /\ flush # "finish")
     THEN /\ prev_status' = "bad_param"
          /\ Return("stream_error")
          /\ UNCHANGED <<output, wants_to_finish>>
     ELSE /\ wants_to_finish' = (wants_to_finish \/ flush = "finish")
          /\ IF pending > 0 \/ finished
             THEN Drain(pending, room, written, finished)
             ELSE pc' = "parse" /\ UNCHANGED <<status, output, prev_status>>
  /\ UNCHANGED <<const, taken, call, lz, block, adler, finished>>

-----------------------------------------------------------------------------
(* Mutant: the bytes are taken to be there.                                *)
StillInDictAlways(lp, ds) == TRUE

(* tdefl_flush_block.  A block that got larger than its bytes is sent raw, *)
(* if the dictionary still has them; so is every block of level 0.         *)
StillInDict(lp, ds) == lp - block_start <= ds

Raw(d, total) == [k \in 1..total |-> Lit(d[Slot(block_start + k - 1)])]

FlushBlock(f, cs, total, lp, ds, d) ==
  /\ \E expanded \in BOOLEAN :
       LET raw == /\ mode = "raw" \/ (expanded /\ total > 0)
                  /\ StillInDict(lp, ds)
       IN  decoded' = Expanded(decoded, IF raw THEN Raw(d, total) ELSE cs)
  /\ final' = IF final # "no" THEN "early" ELSE IF f = "finish" THEN "yes" ELSE "no"
  /\ codes' = << >> /\ total_lz_bytes' = 0
  /\ block_start' = block_start + total

(* Of the n bytes of the block as many as fit are written.                 *)
PutOut(n) ==
  LET k == Min({n, room})
  IN  pending' = n - k /\ room' = room - k /\ written' = written + k

CodeBytes(cs) ==
  1 + Len(cs) \div 8 + FoldLeft(LAMBDA s, c : s + (IF c.lit THEN 1 ELSE 3), 0, cs)

BlockIsFull(cs, total) ==
  \/ Len(cs) >= MaxCodes
  \/ /\ mode # "fast" /\ total > BlockBytes
     /\ (CodeBytes(cs) * 115) \div 128 >= total \/ mode = "raw"

(* The end of an iteration: cs are the codes now, m bytes were moved over. *)
Moved(cs, m, la, ds, d, inner) ==
  LET total == total_lz_bytes + Bytes(cs)
      ds1 == Min({ds + m, DictSize})
      cs1 == codes \o cs
  IN  /\ lookahead_pos' = lookahead_pos + m
      /\ lookahead_size' = la - m
      /\ dict_size' = ds1
      /\ IF BlockIsFull(cs1, total)
         THEN /\ FlushBlock("none", cs1, total, lookahead_pos + m, ds1, d)
              /\ \E n \in BlockSizes : PutOut(n)
              /\ pc' = IF pending' > 0 THEN "parsed" ELSE inner
         ELSE /\ codes' = cs1 /\ total_lz_bytes' = total
              /\ pc' = inner
              /\ UNCHANGED <<block_start, decoded, final, output>>
      /\ UNCHANGED trailer

More == offered > taken \/ (flush # "none" /\ lookahead_size > 0)

(* Mutant: the copy behind the end is forgotten.                           *)
FilledOnce(num) ==
  [s \in DOMAIN dict |->
     LET k == (s - lookahead_pos - lookahead_size) % DictSize
     IN  IF k < num /\ s < DictSize THEN source[taken + k + 1] ELSE dict[s]]

(* num bytes enter the ring behind the lookahead, and the first            *)
(* MaxMatch - 1 bytes of the ring once more behind its end.                *)
Filled(num) ==
  [s \in DOMAIN dict |->
     LET k == (s - lookahead_pos - lookahead_size) % DictSize
     IN  IF k < num THEN source[taken + k + 1] ELSE dict[s]]

(* How far the bytes at two places of the ring agree.                      *)
Common(d, a, b) ==
  Max({k \in 0..MaxMatch : \A j \in 0 .. k - 1 : d[a + j] = d[b + j]})

MatchAt(d, dist, most) ==
  [dist |-> dist,
   len |-> Min({most, Common(d, Slot(lookahead_pos), Slot(lookahead_pos - dist))})]

(* tdefl_find_match: nothing better than least, or a longer match.         *)
FindMatch(d, la, ds, least) ==
  {[dist |-> 0, len |-> least]}
    \cup {m \in {MatchAt(d, x, la) : x \in 1..ds} : m.len > least}

Matches(d, la, ds) ==
  LET least == IF saved.len > 0 THEN saved.len ELSE MinMatch - 1
      run == MatchAt(d, 1, la)
  IN  CASE mode = "raw" \/ (mode = "rle" /\ ds = 0) ->
             {[dist |-> 0, len |-> least]}
        [] mode = "rle" /\ ds > 0 ->
             IF run.len < MinMatch THEN {[dist |-> 0, len |-> 0]} ELSE {run}
        [] OTHER -> FindMatch(d, la, ds, least)

(* Matches that are not worth their code, or that begin in slot 0.         *)
Worth(m) ==
  IF \/ m.len = MinMatch /\ m.dist >= FarDist
     \/ m.dist = Slot(lookahead_pos)
  THEN [dist |-> 0, len |-> 0] ELSE m

(* The lazy parse: the codes to record, the match to hold back, and how    *)
(* far to move.                                                            *)
Choice(m, byte) ==
  IF saved.len > 0
  THEN IF m.len <= saved.len
       THEN [codes |-> <<Copy(saved.dist, saved.len)>>, saved |-> NoMatch,
             move |-> saved.len - 1]
       ELSE IF m.len >= LongMatch
       THEN [codes |-> <<Lit(saved.byte), Copy(m.dist, m.len)>>,
             saved |-> NoMatch, move |-> m.len]
       ELSE [codes |-> <<Lit(saved.byte)>>,
             saved |-> [dist |-> m.dist, len |-> m.len, byte |-> byte],
             move |-> 1]
  ELSE IF m.dist = 0
  THEN [codes |-> <<Lit(byte)>>, saved |-> NoMatch, move |-> 1]
  ELSE IF mode \in {"greedy", "rle"} \/ m.len >= LongMatch
  THEN [codes |-> <<Copy(m.dist, m.len)>>, saved |-> NoMatch, move |-> m.len]
  ELSE [codes |-> << >>, move |-> 1,
        saved |-> [dist |-> m.dist, len |-> m.len, byte |-> byte]]

Ahead == IF mode = "fast" THEN FastAhead ELSE MaxMatch

(* tdefl_compress_normal.                                                  *)
Parse ==
  /\ pc = "parse" /\ mode # "fast" /\ More
  /\ LET num == Min({offered - taken, MaxMatch - lookahead_size})
         la == lookahead_size + num
         ds == Min({DictSize - la, dict_size})
         d == Filled(num)
     IN  /\ taken' = taken + num /\ dict' = d
         /\ IF flush = "none" /\ la < MaxMatch
            THEN /\ lookahead_size' = la /\ dict_size' = ds /\ pc' = "parsed"
                 /\ UNCHANGED <<lookahead_pos, saved, block, output>>
            ELSE \E m \in Matches(d, la, ds) :
                   LET c == Choice(Worth(m), d[Slot(lookahead_pos)]) IN
                   /\ saved' = c.saved
                   /\ Moved(c.codes, c.move, la, ds, d, "parse")
  /\ UNCHANGED <<const, call, status, ending>>

(* tdefl_compress_fast: the lookahead is filled, and then used up.         *)
FillFast ==
  /\ pc = "parse" /\ mode = "fast" /\ More
  /\ LET num == Min({offered - taken, FastAhead - lookahead_size})
         la == lookahead_size + num
     IN  /\ taken' = taken + num /\ dict' = Filled(num)
         /\ lookahead_size' = la
         /\ dict_size' = Min({DictSize - la, dict_size})
         /\ pc' = IF flush = "none" /\ la < FastAhead THEN "parsed" ELSE "fast"
  /\ UNCHANGED <<const, call, status, lookahead_pos, saved, block, output,
                 ending>>

FastStep ==
  /\ pc = "fast" /\ lookahead_size > 0
  /\ LET la == lookahead_size
         far(m) == m.len = MinMatch /\ m.dist >= FarDist
         ms == IF la < 4 THEN {}
               ELSE {m \in {MatchAt(dict, x, la) : x \in 1..dict_size} :
                       m.len >= MinMatch /\ ~far(m)}
         inner == IF la = 1 THEN "parse" ELSE "fast"
     IN  \/ Moved(<<Lit(dict[Slot(lookahead_pos)])>>, 1, la, dict_size, dict,
                  inner)
         \/ \E m \in ms :
              Moved(<<Copy(m.dist, m.len)>>, m.len, la, dict_size, dict,
                    IF la = m.len THEN "parse" ELSE "fast")
  /\ UNCHANGED <<const, taken, call, status, dict, saved, ending>>

EndParse ==
  /\ pc = "parse" /\ ~More
  /\ pc' = "parsed"
  /\ UNCHANGED <<const, taken, call, status, lz, block, output, ending>>

(* The rest of tdefl_compress: the checksum, the last block of a flush,    *)
(* and what waits.                                                         *)
Finish ==
  /\ pc = "parsed"
  /\ adler' = taken
  /\ IF flush # "none" /\ lookahead_size = 0 /\ offered = taken /\ pending = 0
     THEN /\ FlushBlock(flush, codes, total_lz_bytes, lookahead_pos, dict_size,
                        dict)
          /\ trailer' = IF flush = "finish" THEN adler' ELSE trailer
          /\ finished' = (flush = "finish")
          /\ dict_size' = IF flush = "full" THEN 0 ELSE dict_size
          /\ \E n \in BlockSizes : Drain(n, room, written, flush = "finish")
     ELSE /\ Drain(pending, room, written, finished)
          /\ UNCHANGED <<block, finished, dict_size>>
  /\ UNCHANGED <<const, taken, call, dict, lookahead_pos, lookahead_size, saved,
                 wants_to_finish>>

Step ==
  Compress \/ Parse \/ FillFast \/ FastStep \/ EndParse \/ Finish
-----------------------------------------------------------------------------
(* However the input is cut into calls, flushed and parsed, and whichever  *)
(* blocks are sent raw, the blocks put out and the codes collected stand   *)
(* for exactly the input up to the lookahead, but for the literal held     *)
(* back with a match (miniz.c:2497-2613, 2329-2464, 2162-2207); and a      *)
(* match held back is covered by the lookahead, so that no end of the      *)
(* input leaves it behind.                                                 *)
CodesStandForInput ==
  /\ Expanded(decoded, codes) =
       SubSeq(source, 1, lookahead_pos - (IF saved.len > 0 THEN 1 ELSE 0))
  /\ saved.len > 0 => saved.len - 1 <= lookahead_size

(* The ring holds the last dict_size bytes and the lookahead, and its      *)
(* beginning is repeated behind its end as far as matches are compared     *)
(* (miniz.c:2508-2540).                                                    *)
DictionaryHoldsWindow ==
  /\ lookahead_pos + lookahead_size = taken
  /\ dict_size + lookahead_size <= DictSize
  /\ \A k \in lookahead_pos - dict_size .. taken - 1 :
       dict[Slot(k)] = source[k + 1]
  /\ \A s \in 0 .. MaxMatch - 2 : taken > s => dict[DictSize + s] = dict[s]

(* MZ_STREAM_END means that all is done: the whole input has been read and *)
(* coded, its last block and the checksum of all of it are written, and no *)
(* output waits (miniz.c:1064-1111, 2615-2690).                            *)
StreamEndsComplete ==
  status = "stream_end" =>
    /\ decoded = SubSeq(source, 1, offered) /\ final = "yes"
    /\ trailer = taken /\ pending = 0
-----------------------------------------------------------------------------
(* What the properties rest on.  The input before position n, and that a   *)
(* match at n repeats what is dist places before it.                       *)
Text(n) == SubSeq(source, 1, n)

Repeats(n, dist, len) ==
  \A j \in 0 .. len - 1 : source[n + j + 1] = source[n - dist + j + 1]

(* How far the codes reach: a literal held back is not among them.         *)
Coded == lookahead_pos - (IF saved.len > 0 THEN 1 ELSE 0)

Code == [lit : {TRUE}, byte : Byte] \cup [lit : {FALSE}, dist : Nat, len : Nat]

TypeOK ==
  /\ source \in Sources /\ mode \in Modes
  /\ taken \in Nat /\ offered \in Nat /\ room \in Nat /\ written \in Nat
  /\ flush \in {"none", "sync", "full", "finish"} /\ before \in Nat \X Nat
  /\ pc \in {"idle", "compress", "parse", "fast", "parsed"}
  /\ status \in {"none", "ok", "stream_end", "buf_error", "stream_error"}
  /\ dict \in [0 .. DictSize + MaxMatch - 2 -> Byte]
  /\ dict_size \in Nat /\ lookahead_pos \in Nat /\ lookahead_size \in Nat
  /\ saved \in [dist : Nat, len : Nat, byte : Byte]
  /\ codes \in Seq(Code) /\ total_lz_bytes \in Nat /\ block_start \in Nat
  /\ pending \in Nat /\ adler \in Nat
  /\ wants_to_finish \in BOOLEAN /\ finished \in BOOLEAN
  /\ prev_status \in {"okay", "done", "bad_param"}
  /\ decoded \in Seq(Byte) /\ final \in {"no", "yes", "early"}
  /\ trailer \in Nat \cup {-1}

PositionsValid ==
  /\ taken <= offered /\ offered <= Len(source)
  /\ dict_size <= lookahead_pos
  /\ lookahead_size <= Ahead
  /\ pc = "fast" => mode = "fast"
  /\ pc \in {"parse", "fast"} => pending = 0

(* A match held back begins at the byte before the lookahead, which is     *)
(* held back with it.                                                      *)
SavedValid ==
  saved.len > 0 =>
    /\ mode # "fast" /\ saved.len > 1
    /\ saved.dist > 0 /\ saved.dist < lookahead_pos
    /\ saved.byte = source[lookahead_pos]
    /\ Repeats(lookahead_pos - 1, saved.dist, saved.len)

(* The block begins where what was put out ends, and covers what is coded. *)
BlockValid ==
  /\ decoded = Text(block_start)
  /\ block_start + total_lz_bytes = Coded

(* After the last block nothing is parsed any more, and until then there   *)
(* was none.                                                               *)
EndValid ==
  /\ wants_to_finish \/ ~finished
  /\ pc \in {"parse", "fast", "parsed"} =>
       /\ ~finished
       /\ flush = "finish" => wants_to_finish
  /\ IF finished
     THEN /\ final = "yes" /\ trailer = taken
          /\ taken = offered /\ block_start = offered
     ELSE final = "no"
  /\ prev_status = "done" => finished /\ pending = 0
  /\ status = "stream_end" => finished /\ pending = 0

StreamValid ==
  /\ TypeOK
  /\ PositionsValid
  /\ DictionaryHoldsWindow
  /\ SavedValid
  /\ BlockValid
  /\ CodesStandForInput
  /\ EndValid
=============================================================================
