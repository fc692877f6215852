------------------------------ MODULE ZipReader ------------------------------
(***************************************************************************)
(* Archive and MzImpl (zip.cc, zipprof.cc) over the reader of miniz.c that *)
(* they call: the scan for the end record, the checks of the directory,    *)
(* the heap sort of its names, and the calls of a client.                  *)
(*                                                                         *)
(* The bytes are abstracted to what is read of them.  An archive has a     *)
(* size and, for each offset where the signature of an end record stands,  *)
(* the fields read there; with them come the records that stand in the     *)
(* directory they point to, and with each record the lengths that the      *)
(* local header it points to gives.                                        *)
(***************************************************************************)
EXTENDS Integers, Sequences, FiniteSetsExt

CONSTANTS
  Archives,     (* the archives considered                                 *)
  Paths,        (* the arguments of profile considered                     *)
  Window,       (* sizeof(buf_u32), 4096: the bytes scanned at a time      *)
  EndSize,      (* the bytes of an end record, 22                          *)
  RecordSize,   (* the bytes of a directory record without its name, 46    *)
  LocalSize,    (* the bytes of a local header without its name, 30        *)
  MaxComment,   (* 0xFFFF                                                  *)
  NameBuf,      (* the buffer of add_paths, 4096                           *)
  Size64        (* whether size_t has 64 bits, or 32                       *)

ASSUME SizesAssumption ==
  /\ Window \in Nat /\ EndSize \in Nat /\ 4 <= EndSize /\ EndSize <= Window
  /\ RecordSize \in Nat \ {0} /\ LocalSize \in Nat
  /\ MaxComment \in Nat /\ NameBuf \in Nat \ {0} /\ Size64 \in BOOLEAN

Records ==
  [sig : BOOLEAN, method : Nat, comp : Nat, decomp : Nat, disk : Nat,
   local : Nat, skip : Nat, name : Seq(0..255), rest : Nat]

EndRecords ==
  [total : Nat, on_disk : Nat, this_disk : Nat, cdir_disk : Nat,
   cdir_size : Nat, cdir_ofs : Nat, records : Seq(Records)]

ASSUME ArchivesAssumption ==
  \A a \in Archives :
    /\ a.size \in Nat
    /\ DOMAIN a.ends \subseteq 0 .. a.size - 4
    /\ \A o \in DOMAIN a.ends : a.ends[o] \in EndRecords

ASSUME PathsAssumption == Paths \subseteq Seq(0..255)

VARIABLES
  arc,          (* the bytes given to Archive; never changed               *)
  pc,           (* the loop of the constructor that runs, "open" once it   *)
                (* has succeeded, "refused" once it has not                *)
  has_state,    (* m_pState is not null                                    *)
  total_files,  (* m_total_files                                           *)
  cur,          (* cur_file_ofs                                            *)
  i, n, p,      (* the loop over the records: its index, the bytes left    *)
                (* and the offset in the directory                         *)
  offsets,      (* m_central_dir_offsets                                   *)
  indices,      (* m_sorted_central_dir_offsets                            *)
  start, end, root,  (* the heap sort's                                    *)
  entries,      (* entries_                                                *)
  answer        (* history: the last call and what it returned             *)

loop == <<i, n, p, offsets>>
sort == <<indices, start, end, root>>
vars == <<arc, pc, has_state, total_files, cur, loop, sort, entries, answer>>

NoAnswer == [call |-> "none"]

Init ==
  /\ arc \in Archives
  /\ pc = "new" /\ has_state = FALSE /\ total_files = 0 /\ cur = 0
  /\ i = 0 /\ n = 0 /\ p = 0 /\ offsets = << >>
  /\ indices = << >> /\ start = 0 /\ end = 0 /\ root = 0
  /\ entries = << >> /\ answer = NoAnswer

-----------------------------------------------------------------------------
(* The constructor.  Its result is not looked at: a refused archive is     *)
(* called like any other, with the m_total_files that was read.            *)

Refuse ==
  /\ pc' = "refused" /\ has_state' = FALSE
  /\ UNCHANGED <<arc, total_files, cur, loop, sort, entries, answer>>

Open ==
  /\ pc = "new"
  /\ \/ Refuse      \* m_pAlloc returns NULL
     \/ arc.size < EndSize /\ Refuse
     \/ /\ arc.size >= EndSize
        /\ has_state' = TRUE
        /\ cur' = IF arc.size > Window THEN arc.size - Window ELSE 0
        /\ pc' = "scan"
        /\ UNCHANGED <<arc, total_files, loop, sort, entries, answer>>

(* mz_zip_mem_read_func returns the bytes asked for.  An offset below zero *)
(* is a huge one once it is unsigned.                                      *)
Readable(ofs, bytes) == 0 <= ofs /\ ofs + bytes <= arc.size

WindowSigs ==
  {o \in DOMAIN arc.ends :
     o >= cur /\ o <= cur + (IF arc.size - cur < Window THEN arc.size - cur
                                                       ELSE Window) - 4}

(* Mutant: no end to the search.                                           *)
PreviousWindowSame == cur

(* Mutant: windows that do not overlap.                                    *)
PreviousWindowDisjoint == IF cur < Window THEN 0 ELSE cur - Window

(* MZ_MAX compares a size_t with 0.  Where size_t has 64 bits, an offset   *)
(* that would be negative is a large one there, and is not replaced.       *)
PreviousWindow ==
  IF ~Size64 /\ cur < Window - 3 THEN 0 ELSE cur - (Window - 3)

Scan ==
  /\ pc = "scan"
  /\ \/ cur < 0 /\ Refuse
     \/ /\ cur >= 0 /\ WindowSigs # {}
        /\ cur' = Max(WindowSigs)
        /\ pc' = "end_record"
        /\ UNCHANGED <<arc, has_state, total_files, loop, sort, entries, answer>>
     \/ /\ cur >= 0 /\ WindowSigs = {}
        /\ cur = 0 \/ arc.size - cur >= MaxComment + EndSize
        /\ Refuse
     \/ /\ cur > 0 /\ WindowSigs = {}
        /\ arc.size - cur < MaxComment + EndSize
        /\ cur' = PreviousWindow
        /\ UNCHANGED <<arc, pc, has_state, total_files, loop, sort, entries,
                       answer>>

EndRecord == arc.ends[cur]

EndRecordAccepted ==
  LET e == EndRecord IN
  /\ e.total = e.on_disk
  /\ \/ e.this_disk = 0 /\ e.cdir_disk = 0
     \/ e.this_disk = 1 /\ e.cdir_disk = 1
  /\ e.cdir_size >= e.total * RecordSize
  /\ e.cdir_ofs + e.cdir_size <= arc.size

(* m_total_files is set before anything but the signature is checked.      *)
ReadEndRecord ==
  /\ pc = "end_record"
  /\ IF ~Readable(cur, EndSize)
     THEN Refuse
     ELSE /\ total_files' = EndRecord.total
          /\ \/ /\ EndRecordAccepted
                /\ i' = 0 /\ n' = EndRecord.cdir_size /\ p' = 0
                /\ pc' = "records"
                /\ UNCHANGED has_state
             \/ /\ ~EndRecordAccepted \/ EndRecord.total > 0  \* no memory
                /\ pc' = "refused" /\ has_state' = FALSE
                /\ UNCHANGED <<i, n, p>>
          /\ UNCHANGED <<arc, cur, offsets, sort, entries, answer>>

Record(k) == EndRecord.records[k + 1]

HeaderSize(r) == RecordSize + Len(r.name) + r.rest

InArchive(r) == r.local + LocalSize + r.comp <= arc.size

(* Mutant: the length of a record is not compared with what is left.       *)
RecordAcceptedUnmeasured(r) ==
  /\ r.method = 0 => r.decomp = r.comp
  /\ r.decomp > 0 => r.comp > 0
  /\ r.disk = EndRecord.this_disk \/ r.disk = 1
  /\ InArchive(r)

(* A stored file is one whose method and time, read together, are zero.    *)
(* Sizes of 2^32 - 1, which are refused too, are left out.                 *)
RecordAccepted(r) ==
  /\ r.method = 0 => r.decomp = r.comp
  /\ r.decomp > 0 => r.comp > 0
  /\ r.disk = EndRecord.this_disk \/ r.disk = 1
  /\ InArchive(r)
  /\ HeaderSize(r) <= n

IsRecord == n >= RecordSize /\ i < Len(EndRecord.records) /\ Record(i).sig

Pushed(f, k, v) == [j \in 0..k |-> IF j < k THEN f[j] ELSE v]

ReadRecord ==
  /\ pc = "records" /\ i < total_files
  /\ IF ~IsRecord \/ ~RecordAccepted(Record(i))
     THEN Refuse
     ELSE /\ offsets' = Pushed(offsets, i, p)
          /\ indices' = Pushed(indices, i, i)
          /\ n' = n - HeaderSize(Record(i)) /\ p' = p + HeaderSize(Record(i))
          /\ i' = i + 1
          /\ UNCHANGED <<arc, pc, has_state, total_files, cur, start, end,
                         root, entries, answer>>

-----------------------------------------------------------------------------
(* Names, compared without case.                                           *)
lower(c) == IF c \in 65..90 THEN c + 32 ELSE c

Lowered(name) == [k \in DOMAIN name |-> lower(name[k])]

(* The first position where two names differ, or one past the shorter one. *)
FirstDifference(l, r) ==
  Min({k \in 1 .. Min({Len(l), Len(r)}) : lower(l[k]) # lower(r[k])}
        \cup {Min({Len(l), Len(r)}) + 1})

filename_compare(l, r) ==
  LET k == FirstDifference(l, r)
  IN  IF k > Len(l) \/ k > Len(r) THEN Len(l) - Len(r)
                                  ELSE lower(l[k]) - lower(r[k])

filename_less(l, r) ==
  filename_compare(Record(l).name, Record(r).name) < 0

(* The heap sort: every step is an iteration of the inner loop of one of   *)
(* its two loops, whose heap is the first Limit indices.                   *)
Limit == IF pc = "heapify" THEN total_files ELSE end

(* Mutant: always the left child.                                          *)
ChildLeft == 2 * root + 1

Child ==
  LET c == 2 * root + 1
  IN  IF c + 1 < Limit /\ filename_less(indices[c], indices[c + 1])
      THEN c + 1 ELSE c

InPlace ==
  2 * root + 1 < Limit => ~filename_less(indices[root], indices[Child])

(* Mutant: one half of the swap.                                           *)
SwappedHalf(a, b) == [indices EXCEPT ![a] = indices[b]]

Swapped(a, b) == [indices EXCEPT ![a] = indices[b], ![b] = indices[a]]

StartSort ==
  /\ pc = "records" /\ i = total_files
  /\ start' = (total_files - 2) \div 2
  /\ root' = start'
  /\ pc' = "heapify"
  /\ UNCHANGED <<arc, has_state, total_files, cur, loop, indices, end, entries,
                 answer>>

SiftDown ==
  /\ pc = "extract" \/ (pc = "heapify" /\ start >= 0)
  /\ ~InPlace
  /\ indices' = Swapped(root, Child)
  /\ root' = Child
  /\ UNCHANGED <<arc, pc, has_state, total_files, cur, loop, start, end, entries,
                 answer>>

(* The largest name of the heap of end + 1 goes behind it; when no heap is *)
(* left the archive is open.                                               *)
Extract(e) ==
  IF e > 0
  THEN /\ indices' = Swapped(e, 0)
       /\ root' = 0 /\ end' = e /\ pc' = "extract"
  ELSE /\ pc' = "open"
       /\ UNCHANGED <<indices, root, end>>

NextHeap ==
  /\ pc = "heapify"
  /\ IF start >= 0
     THEN /\ InPlace
          /\ start' = start - 1 /\ root' = start'
          /\ UNCHANGED <<pc, indices, end>>
     ELSE Extract(total_files - 1) /\ UNCHANGED start
  /\ UNCHANGED <<arc, has_state, total_files, cur, loop, entries, answer>>

NextExtract ==
  /\ pc = "extract" /\ InPlace
  /\ Extract(end - 1)
  /\ UNCHANGED <<arc, has_state, total_files, cur, loop, start, entries, answer>>

-----------------------------------------------------------------------------
(* The calls of the client.                                                *)
Returned == pc \in {"open", "refused"}

(* mz_zip_reader_get_filename and the string that add_paths makes of it,   *)
(* which has the terminating zero.  Without m_pState it is empty.          *)
get_filename(k) ==
  IF ~has_state THEN << >>
  ELSE SubSeq(Record(k).name, 1, Min({Len(Record(k).name), NameBuf - 1})) \o <<0>>

add_paths == [k \in 1..total_files |-> get_filename(k - 1)]

(* Mutant: the paths are added whenever they are asked for.                *)
ListedAgain == entries \o add_paths

Listed == IF entries = << >> THEN add_paths ELSE entries

Entries ==
  /\ Returned
  /\ entries' = Listed
  /\ answer' = [call |-> "entries"]
  /\ UNCHANGED <<arc, pc, has_state, total_files, cur, loop, sort>>

(* path.c_str(): a path ends at its first zero.                            *)
c_str(path) ==
  SubSeq(path, 1, Min({k \in DOMAIN path : path[k] = 0} \cup {Len(path) + 1}) - 1)

(* An iteration of its loop, unless it has ended: w is the range left.     *)
Middle(w) == (w.l + w.h) \div 2

Compared(w, path) == filename_compare(Record(indices[Middle(w)]).name, path)

Narrowed(w, path) ==
  IF w.l > w.h \/ Compared(w, path) = 0 THEN w
  ELSE IF Compared(w, path) < 0
  THEN [w EXCEPT !.l = Middle(w) + 1]
  ELSE [w EXCEPT !.h = Middle(w) - 1]

(* The range gets smaller each time, so it ends in that many iterations.   *)
binary_search(path) ==
  LET left[k \in 0..total_files] ==
        IF k = 0 THEN [l |-> 0, h |-> total_files - 1]
                 ELSE Narrowed(left[k - 1], path)
      w == left[total_files]
  IN  IF w.l > w.h THEN -1 ELSE indices[Middle(w)]

(* mz_zip_reader_locate_file with no flags and no comment.  The search     *)
(* from the first file on is left for the directory without files.         *)
locate_file(path) ==
  IF has_state THEN binary_search(path) ELSE -1

(* Archive::profile up to the bytes it has profiled: those of MzImpl's     *)
(* stream, or a profile without an Impl.                                   *)
Profile(path) ==
  /\ Returned
  /\ LET loc == locate_file(c_str(path)) IN
     answer' =
       IF loc = -1 \/ Record(loc).comp = 0
       THEN [call |-> "profile", path |-> path, file |-> loc, null |-> TRUE]
       ELSE [call |-> "profile", path |-> path, file |-> loc, null |-> FALSE,
             first |-> Record(loc).local + LocalSize + Record(loc).skip,
             size |-> Record(loc).comp]
  /\ UNCHANGED <<arc, pc, has_state, total_files, cur, loop, sort, entries>>

Constructor ==
  \/ Open \/ Scan \/ ReadEndRecord \/ ReadRecord \/ StartSort \/ SiftDown
  \/ NextHeap \/ NextExtract

Next == Constructor \/ Entries \/ \E path \in Paths : Profile(path)

(* The constructor runs to its end; a client need never call.              *)
Spec == Init /\ [][Next]_vars /\ WF_vars(Constructor)
-----------------------------------------------------------------------------
(* The type of every variable.                                             *)
TypeOK ==
  /\ arc \in Archives
  /\ pc \in {"new", "scan", "end_record", "records", "heapify", "extract",
             "open", "refused"}
  /\ has_state \in BOOLEAN /\ total_files \in Nat
  /\ cur \in Int /\ i \in 0..total_files /\ n \in Nat /\ p \in Nat
  /\ start \in Int /\ end \in Nat /\ root \in Int
  /\ offsets \in [0 .. i - 1 -> Nat]

Opened == pc \in {"records", "heapify", "extract", "open"}

(* Every record that has been accepted lies in the block the directory was *)
(* read into, name, extra field and comment included, behind the one       *)
(* before it; and the local header it points to lies in the archive, so    *)
(* that the fields read there (zip.cc:56-59) are the archive's             *)
(* (miniz.c:3239-3259).                                                    *)
DirectoryInBounds ==
  Opened =>
    /\ \A k \in 0 .. i - 1 :
         /\ offsets[k] + HeaderSize(Record(k)) <= EndRecord.cdir_size
         /\ k + 1 < i => offsets[k + 1] = offsets[k] + HeaderSize(Record(k))
         /\ InArchive(Record(k))
    /\ EndRecord.cdir_ofs + EndRecord.cdir_size <= arc.size

(* Whatever swaps the sort makes, the sorted directory has every file of   *)
(* the directory once (miniz.c:3127-3166).                                 *)
SortKeepsFiles ==
  Opened =>
    /\ indices \in [0 .. i - 1 -> 0 .. i - 1] \/ i = 0
    /\ \A a, b \in 0 .. i - 1 : indices[a] = indices[b] => a = b

(* The record used is the last one of the archive: a signature found in a  *)
(* window is preferred to all earlier ones, and none is overlooked where   *)
(* two windows meet (miniz.c:3179-3197).                                   *)
LastRecordUsed ==
  pc \in {"end_record", "records", "heapify", "extract", "open"} =>
    cur = Max(DOMAIN arc.ends)

(* A path finds a file if and only if the directory has its name, in upper *)
(* or lower case, and then one of that name; so the names are in order for *)
(* the binary search wherever the heap sort has left them.  What entries   *)
(* has returned can be looked up again unless a name has a zero in it or   *)
(* was cut to the buffer (miniz.c:3476-3496, zip.cc:37-50).                *)
LocateFindsName ==
  answer.call = "profile" =>
    LET Same(k) == Lowered(Record(k).name) = Lowered(c_str(answer.path)) IN
    IF answer.file # -1 THEN Same(answer.file)
    ELSE pc = "refused" \/ \A k \in 0 .. total_files - 1 : ~Same(k)

(* The entries are the names of the directory, each once, whatever calls   *)
(* come in whatever order; those of a refused archive are as many empty    *)
(* strings as its end record counts files, and none of them has a profile  *)
(* (zip.cc:9-13, 37-45).                                                   *)
EntriesAreFiles ==
  /\ entries # << >> =>
       /\ Len(entries) = total_files
       /\ \A k \in DOMAIN entries :
            IF pc = "refused" THEN entries[k] = << >>
            ELSE \/ c_str(entries[k]) = c_str(Record(k - 1).name)
                 \/ Len(Record(k - 1).name) >= NameBuf
  /\ pc = "refused" /\ answer.call = "profile" => answer.null

(* The constructor returns: the scan comes to an end, as does the sort.    *)
OpenReturns == <>Returned

(* What the comment of the scan says of it (miniz.c:3179), within the      *)
(* limit that line 3194 sets: a scan that gives up has seen all the bytes  *)
(* in which an end record could begin.                                     *)
EndRecordFound ==
  [][pc = "scan" /\ pc' = "refused" =>
       \A o \in DOMAIN arc.ends : arc.size - o > MaxComment + EndSize]_vars
-----------------------------------------------------------------------------
(* What the properties rest on: how far the scan has come, what the loop   *)
(* over the records has seen, where the heap sort stands.                  *)
ScanValid ==
  /\ pc = "scan" /\ cur >= 0 =>
       \A o \in DOMAIN arc.ends : o <= cur + Window - 4
  /\ pc = "end_record" \/ Opened =>
       /\ cur \in DOMAIN arc.ends
       /\ \A o \in DOMAIN arc.ends : o <= cur

StateValid ==
  /\ has_state <=> pc \in {"scan", "end_record"} \/ Opened
  /\ pc \in {"new", "scan", "end_record"} =>
       i = 0 /\ offsets = << >> /\ indices = << >>

(* The directory ahead of record k.                                        *)
Ahead(k) == IF k < i THEN offsets[k] ELSE p

DirectoryValid ==
  Opened =>
    /\ total_files = EndRecord.total /\ EndRecordAccepted
    /\ n + p = EndRecord.cdir_size
    /\ i <= Len(EndRecord.records)
    /\ \A k \in 0 .. i - 1 :
         /\ offsets[k] + HeaderSize(Record(k)) = Ahead(k + 1)
         /\ Ahead(k + 1) <= p
         /\ InArchive(Record(k))

SortValid ==
  /\ pc = "records" => \A k \in 0 .. i - 1 : indices[k] = k
  /\ pc \in {"heapify", "extract", "open"} => i = total_files
  /\ pc = "heapify" =>
       /\ start \in -1 .. total_files - 1
       /\ start >= 0 => root \in 0 .. total_files - 1
  /\ pc = "extract" => end \in 1 .. total_files - 1 /\ root \in 0 .. end - 1

(* Calls are answered only when the constructor has returned, and what     *)
(* they are answered from does not change any more.                        *)
AnswersValid ==
  /\ ~Returned => entries = << >> /\ answer = NoAnswer
  /\ entries # << >> => entries = add_paths
  /\ pc = "refused" /\ answer.call = "profile" => answer.null

IInv ==
  /\ TypeOK
  /\ ScanValid
  /\ StateValid
  /\ DirectoryValid
  /\ SortValid
  /\ SortKeepsFiles
  /\ AnswersValid
-----------------------------------------------------------------------------
(* What the order of the names rests on.  The name in place a does not come*)
(* after the name in place b.                                              *)
InOrder(a, b) == ~filename_less(indices[b], indices[a])

ChildrenOf(r) == {2 * r + 1, 2 * r + 2} \cap 0 .. Limit - 1

(* No name of the heap comes after the one above it, but perhaps the names *)
(* below the root that is sifted down, and those do not come after what is *)
(* above the root.                                                         *)
HeapFrom == IF pc = "extract" \/ start < 0 THEN 0 ELSE start

HeapValid ==
  pc \in {"heapify", "extract"} =>
    /\ pc = "heapify" /\ start < 0 => root = -1
    /\ \A r \in HeapFrom .. Limit - 1 : \A c \in ChildrenOf(r) :
         /\ r # root => InOrder(c, r)
         /\ c = root => \A d \in ChildrenOf(root) : InOrder(d, r)

(* No name behind the heap comes before one in front of it.                *)
TailValid ==
  pc \in {"extract", "open"} =>
    \A b \in (IF pc = "open" THEN 0 ELSE end) .. total_files - 1 :
      \A a \in 0..b : InOrder(a, b)

OrderInv ==
  /\ HeapValid
  /\ TailValid
  /\ LocateFindsName
=============================================================================
