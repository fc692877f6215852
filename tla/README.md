# zipprof: a TLA+ model

zipprof decompresses a deflate stream and tells, for each byte of the output,
where it came from: whether it was a literal, which earlier byte it was copied
from, how many bits it took, and how many bytes of the output descend from the
same literal. It takes streams from zlib, which it runs itself, from memory, and
from zip archives, which it reads with the vendored miniz. This directory holds
a TLA+ model of that program and of the parts of miniz it rests on, the TLC runs
that check it on small instances, and TLAPS proofs of its central properties for
every value of the constants.

The program is sequential. What makes it hard is not concurrency but state that
two objects must keep in step (a ring and a growing array, a bit buffer and a
byte array), arithmetic that wraps, errors that leave half of the state behind,
caches computed on the first question, code trees whose validity nobody checks
but a bounds check in a library, and, in miniz, codecs that may stop at any byte
and be called again. The models make a step of every loop iteration, so a
property holds in the middle of an operation and not only between calls.

## 1. The system

Paths below are those of the repository's own tree (`src/`, `include/`,
`tests/`, `lib/`).

| Part | Source | State | Operations |
|---|---|---|---|
| ArrayBitReader | `io.cc`, `io_inl.hh` | array, `data_cursor_`, 64-bit `buffer_`, `buffer_cursor_` | `next_bit`, `next_word`, `next_byte`, `next_short`, `ensure_aligned` |
| InputTracker, Account | `zip_inl.hh` | `bit_count_` of each Account | charge every read to an Account; `inc`, `close`, `~Account` |
| HuffCode, HuffNode | `huff.cc`, `huff.hh` | `node_pool_`, 16-bit indices into it | `new_huff_node`, `new_code_tree`, `branch_left/right` |
| Deflater | `zip_inl.hh` | `keep_going`, the accounts, fixed roots | `deflate`, `decompress_raw`, `decompress_huffman`, `decode_symbol`, `decode_run_length`, `decode_distance`, `decode_huffman_codes` |
| OutputTracker | `zip_inl.hh` | ring `buf_`, `out_cur_`, `copy_cur_` | `add`, `copy` |
| ProfilingByteWriter | `io.cc`, `io_inl.hh` | `bytes_`, `cursor_`, `literal_count_`, `blocks_` | `append`, `copy`, `add_stat`, `grow_buffer`, `open_block`, `close_block`, `flush` |
| DeflateProfile::Impl | `zipprof.cc` | ByteStats, and three arrays computed on demand | `origins`, `literal_weights`, `contents`, `literal_weight`, `literal_contribution` |
| ZlibCompressor, Profiler | `zipprof.cc` | a zlib stream, the output so far | `compress`, `strip_zlib_header`, `profile_string`, `profile_zlib`, `profile_deflated` |
| Archive, MzImpl | `zipprof.cc`, `zip.cc` | `entries_`, a miniz archive | `entries`, `profile`, `stream`, `add_paths` |
| miniz: zip reader | `lib/miniz.c` | the central directory, its offsets and sorted indices | scan for the end record, check of the directory, heap sort, binary search |
| miniz: inflate | `lib/miniz.c` | `tinfl_decompressor`: a state, a bit buffer, code tables; the window of `inflate_state` | `tinfl_decompress`, `mz_inflate`, `tinfl_decompress_mem_to_heap`, `.._mem_to_callback` |
| miniz: deflate | `lib/miniz.c` | `tdefl_compressor`: a ring, hash chains, the codes of a block, waiting output | `mz_deflate`, both parses, `tdefl_flush_block`, the Huffman optimiser |
| zprof | `main.cc` | arguments, a histogram | `parse`, `read_file`, `profile_file` |
| VectorByteWriter | `io.cc` | a vector | `append`, `copy` |
| utils | `utils.hh` | a pointer and a size | `slice`, `fill`, `operator[]` with its assertion |

How they interact. `profile_deflated` puts an ArrayBitReader under an
InputTracker on one side of a Deflater and a ProfilingByteWriter under an
OutputTracker on the other. Deflater pulls bits, each read charged to an
Account of the block or of the symbol, and pushes literals and copies;
the account of a symbol is closed into the operation it encoded, that of a block
into `close_block`. `flush` hands the ByteStats to a DeflateProfile, which answers
questions from them. `profile_string` gets its stream from `compress`; an Archive
gets it from MzImpl, which asks miniz for a file's place in the archive and hands
out the bytes behind its local header. Calls are synchronous; there are no threads
and no callbacks into zipprof.

Assertions are on in both builds (`CMakeLists.txt:9-13` sets no `NDEBUG`), so a failed
`ASSERT` ends the process; the models give it a state of its own ("aborted").
C++11 leaves the order of operands open in two places. `io_inl.hh:39` needs the left
one first to read a little-endian short, and is modelled so. In
`literal_weights()[origins()[index]]` (`zipprof.cc:150`) either call may come first and
both orders are modelled.

zipprof.cc includes the system's `<zlib.h>`, which is not in the repository. `mz_deflate`
has the same interface, is in the repository, and stands for it in `ZlibCompressor`.

What is hard, and what makes each part correct:

* **Reader.** Bits come from the buffer but bytes and shorts from the array; words
  may cross the buffer; past the end bits are zeros but bytes are an assertion, and
  shorts are unchecked memory. Correct: it is a plain stream of bits, and the
  buffer always is the part of the array that `data_cursor_` says.
* **Accounts.** Three functions charge, two close, exceptions unwind. Correct:
  every bit is charged exactly once, and no account goes out of scope with bits.
* **Code trees.** Two loops of `new_code_tree` and `vector::at` decide which
  tables are accepted; the nodes of several trees share one pool with 16-bit
  indices. Correct: an accepted table's tree is the code of RFC 1951, decoding in
  it ends, and later trees leave earlier ones alone.
* **Output.** A match reads a ring that it is overwriting, its source may wrap,
  and the array may have to grow in the middle of it. Correct: the output is that
  of LZ77 over the whole output, and each copied byte's source is an earlier
  byte of equal value.
* **Profile.** One pass follows chains of copies; arrays are kept from the first
  question on. Correct: the origin is the literal at the end of the chain, the
  weights share out the output, and every order of questions gets the same answers.
* **Zip reader.** The end record is searched in overlapping windows from the end;
  everything else in the archive is believed only as far as it is checked. The
  directory is sorted by one comparison and searched by another. Correct: what is
  kept of the directory lies in it and points into the archive, sorting loses no
  file, and a path finds a file of that name if there is one.
* **miniz codecs.** Both may be left in the middle for want of input or room.
  Correct: whatever the pieces, the decoder's output is the text, once and in order;
  the encoder's codes stand for its input, once and in order; neither reports the
  end too early or never; and a caller's loop ends.
* **Codes in miniz.** Code lengths are made in place in an array that holds three
  things in turn; lookups go on in a tree of negative indices; runs of lengths are
  packed. Correct: the lengths are Huffman's, the tables decode the codes, packing
  unpacks.

`PROJECT.json` lists every hazard with its line and the properties that cover it.

## 2. The modules

| Module | Models | Correspondence |
|---|---|---|
| `BitStream` | abstract | a position in a stream of bits, nothing else |
| `BitReader` | ArrayBitReader and InputTracker | variables are the reader's fields; `call`, `left`, `read` are the loop of a call in progress; `NextBit`, `NextWord`/`NextWordFallback`/`FallbackBit`, `NextByte`, `NextShort`/`NextShortByBytes`/`ShortByte`, `AlreadyAligned`/`EnsureAligned`/`FlushBit`/`AlignEnd`, `Abort` |
| `Lz77` | abstract | an output that grows by literals and matches, no window |
| `OutputTracker` | OutputTracker and ProfilingByteWriter | `Add`; `copy()` is `CopyStart`, one `CopyByte` per iteration, `CopyEnd`, and `CopyAbort` for the assertion; `AddStat` includes `grow_buffer` |
| `HuffCode` | HuffCode, HuffNode, `decode_symbol` | `NewCodeTree`, then a `LeafStep` or `PairStep` per iteration of the inner loops, `LevelEnd` of the outer, `TreeEnd` or `AtThrows`; `DecodeSymbol` and a `DecodeBit` per bit. History: `born` says for which tree and level a node was made, `levels` which nodes a level has. The code of RFC 1951 is `CodeOf`, the node it leads to is `WalkOf` |
| `CodeTables` | abstract | how much of the code space a table's codes take (RFC 1951) |
| `CodeLengths` | `decode_huffman_codes` | `Header`, `CodeLenStep` for the lengths of the first code, then `RunStep`, `LengthSymbol`, `Repeat`, `Zeros3`, `Zeros11` per iteration of the second loop, `LitLenTree`, `DistTree`; whether a tree is accepted is `WholeCodeSpace`, which `HuffCode` is shown to implement |
| `DeflateSymbols` | `decode_run_length`, `decode_distance` | operators on a symbol and the value of its extra bits |
| `Deflater` | `deflate`, `decompress_raw`, `decompress_huffman`, Account | composes `OutputTracker` (`Out == INSTANCE`, its actions are conjuncts here) and `DeflateSymbols`; `pc` is the place in `deflate()` |
| `DeflateProfile` | DeflateProfile and its Impl | `call` is the method running, an action per loop iteration; `Init` is what `flush` hands over |
| `ZipReader` | Archive, MzImpl, miniz's zip reader | `pc` is the place in the constructor: `Open`, a `Scan` per window, `ReadEndRecord`, a `ReadRecord` per file, `SiftDown` per iteration of the heap's inner loop, `NextHeap`, `NextExtract`; then the client's `Entries` and `Profile` |
| `MinizTables` | miniz's pure functions on codes | symbols of lengths and distances, the radix sort and in-place Huffman lengths, their limit, codes, lookup tables, packing of lengths |
| `LzCodes` | the buffer of codes of a block | `Recorded` is `tdefl_record_literal/match`, `Iteration` the loop that reads it back |
| `CodecCalls` | one call of any of the above and of zipprof's two | an action per function; the result is compared with RFC 1951, with Huffman's algorithm, or with what the other side makes of it |
| `Inflate` | `tinfl_decompress` and its three callers | an action per place where the coroutine may stop (`ReadBits`, `ReadCode`, `SlowSymbol`/`FastSymbol`, `EmitLiteral`, `CopyMatch`, `CopyStored`, `Align`, `Done`, `Fail`, `Lost`), and per return to a caller (`AfterInflate`, `AfterFinish`, `AfterHeap`, `AfterCallback`) |
| `MzDeflate` | `mz_deflate`, `tdefl_compress`, both parses, the blocks, waiting output | `Compress` begins a `tdefl_compress`, `Parse`, `FillFast` and `FastStep` are iterations of the two parses, `EndParse` and `Finish` what follows them |
| `ZlibCompressor` | `compress`, and any other caller of `mz_deflate` | composes `MzDeflate` (EXTENDS) with a client: `CallFinish` and `CallReturns` are `compress`, `CallOther` any sequence of calls |
| `MC...` | | constants for TLC |
| `OutputTrackerProofs`, `BitReaderProofs`, `DeflateProfileProofs`, `HuffmanProofs`, `DeflaterProofs`, `ZipReaderProofs`, `ZlibCompressorProofs`, `InflateProofs` | | the theorems of section 5, one module for each specification (`ZlibCompressor` includes `MzDeflate`; `HuffmanProofs` is about `HuffCode` and `CodeLengths`) |

Operators whose comment begins with "Mutant:" stand beside the definition they
alter. No specification uses them. Each is a plausible slip in the code (a
dropped reset, an off-by-one, a swapped order) and `PROJECT.json` pairs it with
the property that TLC then finds violated, which shows that the property says
something about the code.

Abstractions. Bytes are members of a small set. `uint32_t` is arithmetic modulo
`WordSize`, a constant; `node` indices are modulo `IndexSize`. The mask of a
ring is `%` its size. In `Deflater` the input's bits are left open: each
decision they take is taken both ways, and a code tree is known only by the
lengths its codes may have. `BitReader` shows that bits are delivered right,
`HuffCode` that codes are, `CodeLengths` that tables are; the composition of all three over one concrete input
is not modelled. In `ZipReader` an archive is, for each offset at which an end record's signature stands, the
fields there and the records they point to. In `Inflate` a stream is the sequence of what is
read from it, each with its number of bits; where those bits are (in the bit buffer, in this
call's input, in a later call's, or among the zeros behind a truncated input) is kept
exactly. A table may have one code or none (`miniz.c:1515`); bits that are not it decode as symbol 0 and
stay where they are (1422-1426), so a distance may take no bits, and a literal ("void") is followed by itself for ever. The
distance symbols 30 and 31, for which the table has a distance of 0, occur and leave what is there. In `MzDeflate` the hash chains only propose where an earlier occurrence may be, and
since the bytes are compared there, any place in the dictionary may be proposed, or none; a
block is its codes, or the bytes it stands for, and some number of output bytes.

## 3. The runs

| Run | Asks | Bounds |
|---|---|---|
| `output_tracker` | Do the ring and the copy loop implement LZ77; are all sources earlier bytes of equal value, in every intermediate state? | ring of 4, array of 2 at first, outputs of 10, matches of 3 to 5 at distances 1 to 4, two byte values, `WordSize` 16 |
| `bit_reader` | Does the buffered reader implement a bit stream; how far are the accounts behind; does every call return? | the real 64-bit buffer; arrays of 0, 3, 8 and 17 bytes; words of 3 and 13 bits; 144 bits |
| `huffman` | Which tables get a tree, is it the RFC's code, does decoding end on the right symbol with the right number of bits, do trees leave each other alone? Are the tables of a dynamic block what RFC 1951 says its symbols stand for? | all 256 tables of 4 symbols and lengths 0 to 3, two in one pool; 2 to 4 literals, 1 or 2 distances, five fillings of the first code, three values of the extra bits |
| `codec_calls` | Do zipprof, RFC 1951 and miniz's two sides agree on every length and distance; are code lengths optimal and within their limit; do lookups decode; do packed lengths and recorded codes come back? | all symbols and extra bits; frequencies of 5 and 6 symbols, digits of the radix sort in base 5, limits 3 and 15; lookups of 2 bits; lists of two long runs or three short ones on each side of every length at which packing changes; all blocks of up to 10 literals and matches, every byte of flags, the first as well, stale with all ones |
| `deflater` | Over streams of blocks of every kind: is every bit charged once, when does `deflate` return, what becomes of errors, is the output LZ77 also across blocks? | ring of 4, outputs of 8, two literals, lengths 3 and 4, distances 1 and 4, bad symbols of both kinds, stored blocks of 0 and 2, 45 bits |
| `deflate_profile` | Are origins, weights and answers right whatever is asked in whatever order? | all outputs of up to 5 bytes with all ways to copy them |
| `zip_reader` | Which end record is used; what is kept of a directory; does the sort keep all files and the search find them; what do `entries()` and `profile()` answer in any order; does opening end? | windows of 8 bytes, end records of 6, comments of up to 12; directories of up to 3 files out of 8 names, and of 7 files; 16 archives with a field altered; end records at every offset of archives of 5 to 24 bytes |
| `inflate` | Is the output the text whatever the pieces; is the end reported only when it is right; does the bit buffer hold; do calls return; does a caller that goes on get everything? | a window of 4, rooms of 1 and 6 bytes, pieces of 0, 1 and all, memory for 16; 18 streams: fixed, dynamic and stored blocks, no text at all, a distance too far back and one of 0, a refused block, tables with a code that is missing, cut by 1 and 5 bytes and lengthened by 4 and 9 |
| `compress` | Do the codes stand for the input; does the dictionary hold the window; is the end reported when all is written; what does `compress` return? | five ways to parse, a ring of 6 (with its 3 bytes kept twice), matches of 3 and 4, 5 codes to a block, blocks of 1 or 3 bytes, rooms of 2 and 9, up to 3 calls with any flush; a buffer of 5 for `compress` |
| `aligned_accounts` | Do "the accounts hold every bit" (`zip.hh:26-27`)? No. | those of `bit_reader` |
| `end_record` | Does the scan for the end record see all it may (`miniz.c:3179`)? No. | those of `zip_reader` |
| `stream_end` | Does inflate "never read beyond the final byte" of a stream (`miniz.c:1409-1410`)? No. | those of `inflate` |

Why the bounds are enough. In `output_tracker` the ring wraps twice, the array
doubles three times and once in the middle of a match, matches overlap
themselves, reach exactly as far as the ring, and reach before the first byte, where
`start` wraps. Theorems cover all other sizes. In `bit_reader` words and shorts
cross the buffer's end at every alignment, arrays end inside, at and after the end of a
buffer, and the reader goes on past all of them. A table of four symbols with codes
up to three bits already has complete, incomplete, oversubscribed, single-code
and empty cases, including oversubscribed ones that pair up to a whole number
of trees; the pool of the second tree starts at a non-zero index. In the other half of `huffman` a run of three
to six is longer than either table and may begin anywhere in them; two of the fillings
tell any two of the 19 fields apart, with every number of fields. The bits bound of
`deflater` allows several blocks, so a match that reaches back over a block
boundary, and a second skip to a byte boundary, occur; a distance of four is all of the ring, which
goes round twice. Five bytes are enough for a copy of a copy of a copy beside an unrelated literal.

In `codec_calls` the frequencies give trees of every shape five symbols have, and some that must be cut to three
bits; with a lookup of two bits several codes of three to five share its trees. In `zip_reader` an
end record may lie in one window, across two, in the bytes windows share, before the window that
starts at a negative offset, and further from the end than a comment can be; three files have every
order and every pair of equal names, seven make a heap of three full levels. In `inflate` the text is
longer than the window, a match crosses the window's end, and room and input end at every place where
`tinfl_decompress` may stop. `MaxGarbage` says how many bytes behind the text the histories keep, and bounds the
states but not the behaviour: zeros are decoded, written and handed over without end, and only what was
written so long ago that no property speaks of it is forgotten. `Memory` is where `realloc` fails. In `compress` the input is longer than the ring, so bytes are overwritten
while a block still needs them, and blocks fill in the middle of a held-back match.

Deadlock checking is off everywhere: each system stops by design (the end of the
stream, a bound, an abort, or a client that asks nothing more).

Fairness. Liveness assumes weak fairness of the steps of a call in progress, and none of
the caller's: `CallsReturn` of the reader (`CallStep` while a call runs), `OpenReturns` (`Constructor`),
`CallsReturn` of `Inflate` (`Work`; for all calls but one, see section 4) and of `ZlibCompressor` (`Deflating`, and the two steps of
`compress`, which is a loop of its own). A call runs in its only thread and takes no lock, so it
takes its next step as long as it has one. `KeepsComing` says what a caller of `mz_inflate` may
expect that does go on calling with room and all of the input; that it does is its premise and not an assumption
about zipprof.

## 4. What the runs found

Three places where the code does not do what it, or its header, says:

1. `io.cc:54`. Skipping to a byte boundary reports one bit less than it skips, so the accounts lose a bit
   per unaligned stored block. `AccountLagsBySkips` and `BitsConserved` state, and the proof confirms, that this is the only loss.
2. `miniz.c:3196`. The offset of the last window of the scan for the end record is meant to stop at 0, but
   is computed without a sign, so the scan gives up there. An archive of 4097 to 8188 bytes whose end record does not begin in its
   last 4096 bytes (one with a long comment) is refused. In archives of other sizes nothing is
   overlooked (`LastRecordUsed`).
3. `miniz.c:1569` and `1419`. Inflate takes four or two bytes at once while it has them, so at the end of a stream it has
   read up to 7 bytes from behind it, 3 behind a checksum (`ReadsAheadLittle`, proved). The comments at `miniz.c:1368-1369` and `1409-1412` say
   it never does. They are right only of the last bytes of the input (`HuffDecode` with less than two bytes left). Who
   has something of his own behind a stream does not find it by what inflate says it consumed.

What comments say and the code does otherwise, stated the code's way by the passing runs:

* `ErrorsNeverReachCaller`: every error thrown by the decompressor unwinds past the
  block's Account, which always holds at least the header's three bits, so
  `~Account` (`zip_inl.hh:222`) aborts the process. No caller ever catches a `DeflateError`.
* `WeightsAreDescendants`: the weight counts the literal itself (`zipprof.cc:190`); `zipprof.h:50-51` calls it "the
  number of times it has been copied".
* A failed allocation in `origins()` leaves a zeroed array of weights (`zipprof.cc:186`) that later
  calls take for computed, if the left operand of line 150 comes first.

Behaviour that nothing contradicts but that a reader should know; the models have it:

* Trees: `AcceptsWholeCodes` characterises the tables that get one. Those are the tables whose codes fill the code space
  a whole number of times. The single one-bit code that RFC 1951 allows for
  distances throws, and a table oversubscribed by a whole factor is accepted, with
  only its first tree reachable. miniz differs: it accepts a table with one symbol, or none. A repetition with no length before it (symbol 16
  first) writes 2^32 - 1 into the table (`run_val` is -1), which no level of a tree matches, so the
  symbol has no code; a run that is longer than the tables is cut off silently.
* Archives: MzImpl ignores that miniz refused an archive. The number of files is kept all the same, so `entries()`
  returns that many empty strings. Entries have a trailing NUL (`mz_zip_reader_get_filename` counts
  it), names longer than 4095 bytes are cut, and either kind is still found again by `profile()` unless cut or with a zero inside
  (`LocateFindsName`). Lookup ignores case; of equal names any may be found. An empty vector means
  "not read yet", so an empty archive is read again each time. `stream()` neither looks at
  the method nor checks the lengths in the local header (`zip.cc:60`). A path that is not found gives a
  profile without an Impl. The check of stored files compares 32 bits, method and time together (`miniz.c:3249`).
* Compressing: `compress` gives deflate one buffer and never empties it, so an output that does not fit gives NULL, which
  `profile_string` dereferences, and no `deflateEnd` (`WholeStreamOrNull`). `strip_zlib_header` moves the beginning by two and keeps the size.
* miniz, calls that do not return: `tinfl_decompress` puts zeros behind a truncated input for as long as they are asked for (`miniz.c:1380`), and
  a table with one code or none makes literals of bits that it has no code for, without using them up (1422-1426, 1515). `mz_inflate` ends as its room does
  and `mem_to_heap` as the memory does, but `tinfl_decompress_mem_to_callback` (1744-1758) goes on for ever if its
  callback always accepts: on a truncated dynamic block whose all-zero code is a literal, and on a block with such a table even if nothing is missing. `CallsReturn` leaves out this case, and only this
  one; without its second disjunct TLC finds the loop.
* miniz: `tinfl_decompress_mem_to_heap` returns NULL for an empty text, as for a failure: the buffer
  is only allocated when there is something to put in it (1702-1727).
* miniz: a repeated `MZ_SYNC_FLUSH` emits empty blocks; after `MZ_FINISH` any other flush fails for
  good. A truncated raw stream may be taken for ended in the zeros behind it; one with a checksum is not (`EndIsWhole`). Distances too far back
  are not checked where the window goes round.

## 5. What is proved

For every value of the constants that satisfies the modules' assumptions:

* **OutputTrackerProofs.** `TypeCorrect`, `WindowIsCoherent`,
  `SourcesAlwaysPrecede`, `CountsAndIds`, `HistoryIsKept` (the action property) and
  `OutputTrackerImplementsLz77` (the refinement). Assumed: distances at most
  the window, lengths at least one, and an output shorter than 2^32 minus the
  window. The inductive invariant `IInv` adds to what is checked that the two
  position counters agree and that the array has room (`CursorsAgree`), and what a
  copy in progress has recorded (`RunValid`): either it started inside the output, and
  its sources so far are consecutive and its distance is at most the window; or it started
  before the output, its start has wrapped to above the cursor, and it has
  recorded nothing. The second case is why the assertion always fires. The
  slot of the byte to be written differs from the slots of the window's other bytes because
  two positions less than a window apart differ modulo the window (`SlotsDistinct`). In
  the refinement a copy in progress is hidden (`Settled`); its bytes become
  visible in the step that ends it, which is one `Match`.
* **BitReaderProofs.** `TypeCorrect`, `BufferIsCoherent`, `AccountsLagBySkips` and
  `BitReaderImplementsBitStream`, for every set of arrays and every width up to 64. `IInv` adds
  where the cursors may be (`CursorsInRange`), that what a loop has read so far are
  the stream's bits from where the call began and how many are left (`CallValid`), and how far the
  accounts run ahead of a call in progress (`AccountValid`). Assumed: arrays and the positions
  considered end clear of 2^32 (`InputsAssumption`).
* **HuffmanProofs, on HuffCode.** `Invariance`, `TreesAreWellFormed`, `NodesAreKept`, `AcceptsWhole` and `CodesAreCanonical`, for all sets of tables, any longest code and any number of
  trees in a pool. Assumed: a table's symbols are 0 to n - 1, and two nodes for each symbol of each
  tree fit the index (three tables of 288, or 1728 nodes, in 2^16). `IInv` says that every node was made for a tree and a level
  (`PoolValid`): a leaf for the length its symbol has in the table, a branch with children of the
  same tree one level below. So the nodes of a level under construction are of that level (`BuildValid`), the
  root is on level 0, where no leaf can be, and a walk that has read n bits is on level n (`WalkValid`);
  a symbol is therefore decoded after as many bits as its table says. That indices fit needs a
  count (`SizeValid`): nodes that are no one's child yet, plus all nodes of the tree, are twice the symbols seen, since
  a leaf adds one to both and a branch adds one to the nodes and takes one from the loose ones.
  Which tables are accepted rests on a second invariant, `FillInv` (`FillInvariance`): the nodes of a level are its leaves and half of
  the nodes below, so what the codes of the levels still to come take, together with the nodes that wait for them, is always the code space of the whole table.
  An odd node left over is then a remainder that no whole number of code spaces has, and on the last level the nodes are that number.
  Which bits a symbol has rests on a third, `CodeInv` (`CodeInvariance`), about where on its level a node is: first the leaves, each at the place its
  symbol has among those of its length (`LeavesPlaced`), then the branches, each above the next two nodes of the level below (`PairsPlaced`); and a tree whose
  codes fill the space has nothing beside its root (`RootsValid`). Level by level down from the root (`FollowsBelow`), the node number p of a level is then the one that the bits of
  the first code of that length plus p lead to: behind the leaves, node q below a branch is reached by one bit more, and the next first code is twice the code after the last leaf.
  `CanonicalCode` is about tables that fill the space once; one that fills it several times is accepted too (`AcceptsWholeCodes`), with the first of several nodes as its root.
  Code spaces and walks are recursive functions over the lengths (`CodeTables`, `WalkOf`); the lemmas unfold them by one length (`CodeSpaceUnfolds`, `AllSpaceUnfolds`, `WalkUnfolds`), by
  induction over the naturals in the form of a least counterexample (`Induction`), since the library's theorem takes an operator.
* **HuffmanProofs, on CodeLengths.** `LengthsTypeCorrect`, `FirstCodeInOrder` and `TablesAreTheExpansion`, for all headers, all runs and every word with room
  for 16. Assumed: the fields' ranges as their widths give them (`FieldsAssumption`). `LengthsInv` says which lengths of the header are in place
  (`OrderValid`) and that the rest of the run in progress repeats the value before it, which is the last value of
  what the symbols read so far stand for (`RunValid`): hence symbol 16 at the seam of the two tables repeats the length that the RFC means.
  What a sequence of symbols stands for is a fold, and the lemmas unfold it by one symbol.
* **DeflateProfileProofs.** `TypeCorrect`, `EveryOriginIsALiteral`,
  `EveryWeightIsACount`, `EveryAnswerIsAClassSize` and `ComputedOnce`, for
  outputs of every length. `IInv` says for each loop how far it has come and that its
  result holds for the part done (`OriginsValid`, `WeightsValid`): the
  weight of a literal is the number of bytes counted so far. What `Init` assumes of
  the ByteStats is what `SourcesAlwaysPrecede` proves of the writer that makes them.

* **DeflaterProofs.** `TypeCorrect`, `BitsAreConserved`, `ReturnIsComplete`, `NoErrorReachesCaller` and
  `DeflaterImplementsLz77`, for all symbols, tables, raw lengths and bounds. Assumed: a code has at most 15
  bits (`InputAssumption`), the distances of the symbols used are at most the window (`DistancesAssumption`), and, as above, an
  output clear of 2^32. `deflate()` only acts on the output through `OutputTracker`'s actions, so its `IInv` contains that of
  `OutputTrackerProofs`, whose step lemmas and refinement are cited and not repeated. What it adds: an operation's
  account is open only between a symbol and its distance (`AccountsValid`), a block's account holds at least
  its three header bits from when it is opened to when it is closed, and the closed blocks hold three bits each
  (`BlocksValid`). The last two are why an error always meets a
  non-empty account, and its destructor's assertion, on its way out.
* **ZipReaderProofs.** `TypeCorrect`, `DirectoryStaysInBounds`, `SortPermutes`, `LastRecordIsUsed`, `EntriesAreTheFiles` and `LocateFinds`, for all
  archives, both widths of `size_t` and all sizes of window, record and name. Assumed: an end record begins at least four bytes before the archive's
  end, its fields are naturals (`ArchivesAssumption`), paths are strings of bytes (`PathsAssumption`), and a window is no smaller than the record (`SizesAssumption`). `IInv` says that no
  signature lies behind the window scanned (`ScanValid`), which needs the windows to overlap by the three bytes they do; that each record accepted begins where
  the one before it ends, and what is left of the block is what its size leaves (`DirectoryValid`); where the two loops of the
  heap sort stand, so that what they swap are indices (`SortValid`). That a path finds its file rests on a second invariant, `OrderInv`
  (`OrderInvariance`): no name of the heap comes after the one above it, except those below the root being sifted, and these not after what is above
  the root (`HeapValid`), so its largest is on top; and no name behind the heap comes before one in front of it (`TailValid`). The comparison is
  shown to be an order, total and transitive, on names that differ in more than case (`CompareIsOrder`); what the search has left out of its range
  comes before or after the path (`SearchStep`); and since the indices are a permutation, a file that is found nowhere is not in the directory (`EveryFileHasPlace`).
* **ZlibCompressorProofs.** `TypeCorrect`, `CodesAreTheInput`, `RingIsTheWindow`, `EndIsComplete` and
  `CompressIsWholeOrNull`, for every input, every size of the dictionary and lookahead, all five parses, every match that the
  hash chains may propose and any sequence of calls with any flush, room and pieces of input. Assumed: 1 < `MinMatch` < `MaxMatch` < `DictSize`, and a
  lookahead of the fast parse that fits the dictionary (`SizesAssumption`); inputs are bytes (`InputAssumption`); the sizes a caller gives
  are naturals (`CallsAssumption`). The properties are not inductive alone, and depend on each other: a match is a copy of the input only if the ring is
  the window, a raw block is the input only if the dictionary still has it, and the end is complete only if the
  block reaches to what was read. `IInv` (`StreamValid`, `ClientValid`) adds where the positions stand
  (`PositionsValid`), that a match held back for a better one repeats the input from the byte *before* the lookahead and that
  byte with it (`SavedValid`), that the block begins where what was put out ends (`BlockValid`), that nothing is parsed
  after the last block (`EndValid`) and, for `compress`, which returns it can have got (`CompressValid`). The lemmas below it: the
  ring after a fill, with its repeated beginning (`FilledHolds`); that bytes compared in the ring, across its wrap, are bytes of the input (`MatchRepeats`);
  that an overlapping copy of a match is the input's continuation (`Periodic`, `CopyExtends`), for a
  fold over codes of any number (`ExpandedUnfolds`); and that whatever the lazy parse chooses continues the input (`ChoiceIsGood`).

* **InflateProofs.** `OutputIsTheText`, `EndIsTheWhole`, `BufferHolds` and `ReadAheadBounded`, for all well-formed streams, whole, cut short or with anything
  behind them, all three callers, every size of the window and of the first buffer, and any sequence of calls with any flush, room and pieces of input. Assumed: sizes
  are naturals, the window is not empty (`SizesAssumption`), and a stream's operations are what RFC 1950 and 1951 let stand where they stand
  (`StreamsAssumption`, `WellFormed`): symbols follow a literal, a length of four bytes comes before stored ones, a checksum before the end. `IInv`
  says where the coroutine is in the stream, to the bit and to the byte (`PlaceValid`): the bits taken less those still in the buffer are
  the position of the operation it is at, plus what it has read of it, and the bytes decoded are those of the operations before, plus its part of this one. This has to hold wherever it may
  stop: behind a code whose literal waits for room, in a copy or a stored block with `left` bytes to go, in the middle of a fetch. A copy is right because the bytes its distance
  before are in the window (`InWindow`), across its wrap and when it overlaps itself (`Periodic`, `CopiedIs`), and two places less than a turn apart
  differ (`ModDiffers`). Between calls the window waits to be handed over (`Delivering`: decoded is delivered plus waiting), except after a first call with
  `MZ_FINISH`, which wrote to the caller's buffer and leaves the stream either at its end or failed for good (`Finishing`, `Finished`); without that, a later call would
  hand over a window that was never written. The bit buffer's bound is an invariant of its own (`BufferValid`): at most 61 bits after a refill, and fewer with each byte of a checksum, which is
  why at most 3 bytes behind it are taken. Once zeros are used (`lost`), or at a literal that is no code (`Astray`), decoding only appends, and what was
said of the bytes before stands; when that has filled the histories (`Over`), what they hold stays what it was. The texts and positions of a stream are recursive functions over its operations, unfolded by
  one operation (`TextsUnfold`, `PositionsUnfold`).

`CountsAndIds`, `HistoryIsKept`, `ComputedOnce`, `NodesAreKept`, `ReadAheadBounded` and every `TypeCorrect` and `Invariance` are about
definitions that no run lists: a proof makes a run of them superfluous. The other theorems each state a property that a run checks.

Only model-checked, and why:

* `CallsReturn`, `OpenReturns` and `KeepsComing`, which hold under fairness: there is no prover for liveness.
* The properties of `CodecCalls`: the functions are recursive operators, which the prover cannot use.

## 6. What is not modelled, and the plan

Modelled first was what every result of the program rests on (the output, the input, code
trees, blocks, the profile, the tables of dynamic blocks), then what its streams come from: archives, inflate and
deflate. Left is zipprof's decoder over concrete bits (`BitReader`, `HuffCode` and `Deflater` in one model): whether a
truncated input ends.

Not modelled: of miniz, its zip writer, extraction, file I/O, checksums and PNG writer (called from nowhere
in zipprof), `TDEFL_FILTER_MATCHES`, the `put_buf_func` interface of `tdefl_compress`, the hash
chains as such (a stale one proposes a place where the bytes are then compared), the flags made from a
level, and the header bytes of a zlib stream. Of zipprof, `zprof` beyond one call of `profile_zlib` (formatting and file I/O; a file that cannot be
read is an empty string whose first byte is then read), `VectorByteWriter`
(two `push_back`s, used by tests), `utils`, the tests and the
build. Of what is modelled, left out are: `grow_buffer` at 2^31 ByteStats, where the
new size wraps to 0 (the models end before it); an input within 24 bytes of
4 GB; the length symbols 286 and 287 of miniz, whose base 0 makes the copy loop
write three bytes even if there is less room (`miniz.c:1655-1661`), which is undefined; a truncated input on which zipprof's decoding never ends because the zeros past the end decode to
symbols (item 2); the memory behind an array, which `strip_zlib_header` and the local header's lengths
may reach; the sizes and block counts that `flush` only hands through.

## 7. Running

    tlc -workers 2 -config MCDeflater.cfg MCDeflater.tla
    tlapm OutputTrackerProofs.tla

Every run and its configuration is listed in `PROJECT.json` under "runs", and ends within
three minutes.
