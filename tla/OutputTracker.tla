---------------------------- MODULE OutputTracker ----------------------------
(***************************************************************************)
(* OutputTracker (zip_inl.hh) over ProfilingByteWriter (io.cc, io_inl.hh): *)
(* the output side of Deflater.  The tracker keeps the last WindowSize     *)
(* bytes in a ring, the writer keeps one ByteStat per byte in an array it  *)
(* doubles when full.  The tracker's position out_cur and the writer's     *)
(* cursor are two counters of two objects that must never part.            *)
(*                                                                         *)
(* copy() is a loop that reads and writes the ring and calls the writer    *)
(* once per byte: CopyStart is its first line, CopyByte one iteration,     *)
(* CopyEnd what follows the loop.  The build has assertions on.            *)
(***************************************************************************)
EXTENDS Integers, FiniteSets

CONSTANTS
  WindowSize,       (* bytes in the ring; 32 * 1024 in Deflater            *)
  InitialCapacity,  (* ByteStats allocated at first; 1024 * 1024           *)
  WordSize,         (* 2^32, the modulus of a uint32_t                     *)
  MaxOut,           (* bound: the longest output considered                *)
  Byte,             (* the values of a byte                                *)
  Distances,        (* what decode_distance can return                     *)
  Lengths,          (* what decode_run_length can return                   *)
  BitSizes,         (* bits an operation was encoded in                    *)
  NoStat            (* an array element that was never written             *)

ASSUME SizesAssumption ==
  /\ WindowSize \in Nat \ {0}
  /\ InitialCapacity \in Nat \ {0}
  /\ MaxOut \in Nat
  /\ WordSize \in Nat
  /\ MaxOut < WordSize - WindowSize

ASSUME OperandsAssumption ==
  /\ Distances \subseteq 1..WindowSize
  /\ Lengths \subseteq Nat \ {0}
  /\ BitSizes \subseteq Nat

VARIABLES
  buf,            (* the ring; `new uint8_t[size]` leaves it uninitialised *)
  out_cur,        (* bytes put through the ring                            *)
  copy_cur,       (* copy operations completed                             *)
  bytes,          (* the writer's array of ByteStats                       *)
  capacity,       (* its allocated size                                    *)
  cursor,         (* ByteStats written                                     *)
  literal_count,  (* calls of append                                       *)
  phase,          (* "idle", "copying", or "aborted" by an assertion       *)
  run             (* the arguments and locals of the copy in progress      *)

vars == <<buf, out_cur, copy_cur, bytes, capacity, cursor, literal_count,
          phase, run>>

Stat == [source : Nat, copy : Nat, bit_size : BitSizes, value : Byte]

NoRun == [start |-> 0, i |-> 0, len |-> 0, bit_size |-> 0]

-----------------------------------------------------------------------------
(* uint32_t arithmetic on operands below WordSize.                         *)
WordAdd(a, b) == IF a + b < WordSize THEN a + b ELSE a + b - WordSize

(* Mutant: the match begins one byte late.                                 *)
WordSubLate(a, b) == IF a >= b THEN a - b + 1 ELSE a - b + WordSize

WordSub(a, b) == IF a >= b THEN a - b ELSE a - b + WordSize

(* `pos & mask_`; WindowSize is a power of two.                            *)
Slot(pos) == pos % WindowSize

(* grow_buffer: twice the room, the old elements copied.                   *)
Grown == [k \in 0 .. 2 * capacity - 1 |->
            IF k < capacity THEN bytes[k] ELSE NoStat]

AddStat(stat) ==
  LET full == cursor >= capacity
      room == IF full THEN Grown ELSE bytes
  IN  /\ bytes' = [room EXCEPT ![cursor] = stat]
      /\ capacity' = IF full THEN 2 * capacity ELSE capacity
      /\ cursor' = cursor + 1

(* Mutant: `buf_[++out_cur_ & mask_] = value`.                             *)
PutByteAfter(value) ==
  /\ buf' = [buf EXCEPT ![Slot(out_cur + 1)] = value]
  /\ out_cur' = out_cur + 1

(* `buf_[out_cur_++ & mask_] = value`                                      *)
PutByte(value) ==
  /\ buf' = [buf EXCEPT ![Slot(out_cur)] = value]
  /\ out_cur' = out_cur + 1
-----------------------------------------------------------------------------
Init ==
  /\ buf \in [0 .. WindowSize - 1 -> Byte]
  /\ out_cur = 0
  /\ copy_cur = 0
  /\ bytes = [k \in 0 .. InitialCapacity - 1 |-> NoStat]
  /\ capacity = InitialCapacity
  /\ cursor = 0
  /\ literal_count = 0
  /\ phase = "idle"
  /\ run = NoRun

(* OutputTracker::add and ProfilingByteWriter::append.                     *)
Add(value, bits) ==
  /\ phase = "idle"
  /\ out_cur < MaxOut
  /\ AddStat([source |-> cursor, copy |-> 0, bit_size |-> bits,
              value |-> value])
  /\ literal_count' = literal_count + 1
  /\ PutByte(value)
  /\ UNCHANGED <<copy_cur, phase, run>>

(* OutputTracker::copy up to its loop.  Nothing compares dist with the     *)
(* length of the output: start wraps when dist is the larger.              *)
CopyStart(dist, len, bits) ==
  /\ phase = "idle"
  /\ out_cur + len <= MaxOut
  /\ phase' = "copying"
  /\ run' = [start |-> WordSub(out_cur, dist), i |-> 0, len |-> len,
             bit_size |-> bits]
  /\ UNCHANGED <<buf, out_cur, copy_cur, bytes, capacity, cursor,
                 literal_count>>

(* Mutant: every iteration copies the first byte of the match.             *)
PosOfFirst == run.start

Pos == WordAdd(run.start, run.i)

(* One iteration: ProfilingByteWriter::copy asserts source <= cursor_.     *)
CopyByte ==
  /\ phase = "copying"
  /\ run.i < run.len
  /\ Pos <= cursor
  /\ LET value == buf[Slot(Pos)]
     IN  /\ AddStat([source |-> Pos, copy |-> copy_cur + 1,
                     bit_size |-> run.bit_size, value |-> value])
         /\ PutByte(value)
  /\ run' = [run EXCEPT !.i = @ + 1]
  /\ UNCHANGED <<copy_cur, literal_count, phase>>

CopyAbort ==
  /\ phase = "copying"
  /\ run.i < run.len
  /\ Pos > cursor
  /\ phase' = "aborted"
  /\ UNCHANGED <<buf, out_cur, copy_cur, bytes, capacity, cursor,
                 literal_count, run>>

CopyEnd ==
  /\ phase = "copying"
  /\ run.i = run.len
  /\ copy_cur' = copy_cur + 1
  /\ phase' = "idle"
  /\ run' = NoRun
  /\ UNCHANGED <<buf, out_cur, bytes, capacity, cursor, literal_count>>

(* The steps of a copy that the caller has no hand in.                     *)
CopyNext == CopyByte \/ CopyAbort \/ CopyEnd

Next ==
  \/ \E value \in Byte, bits \in BitSizes : Add(value, bits)
  \/ \E dist \in Distances, len \in Lengths, bits \in BitSizes :
       CopyStart(dist, len, bits)
  \/ CopyNext

Spec == Init /\ [][Next]_vars
-----------------------------------------------------------------------------
TypeOK ==
  /\ buf \in [0 .. WindowSize - 1 -> Byte]
  /\ out_cur \in 0..MaxOut
  /\ copy_cur \in Nat
  /\ capacity \in Nat \ {0}
  /\ bytes \in [0 .. capacity - 1 -> Stat \cup {NoStat}]
  /\ cursor \in 0..MaxOut
  /\ literal_count \in Nat
  /\ phase \in {"idle", "copying", "aborted"}
  /\ run \in [start : 0 .. WordSize - 1, i : Nat, len : Nat,
              bit_size : BitSizes \cup {0}]

(* The ring and the profile agree: each of the last WindowSize bytes,      *)
(* found through the mask, is the value the writer recorded for it.  copy  *)
(* reads its bytes from the ring, so a stale slot would corrupt the rest   *)
(* of the output (zip_inl.hh:277-293).                                     *)
WindowCoherent ==
  \A p \in 0 .. cursor - 1 :
    cursor - p <= WindowSize => buf[Slot(p)] = bytes[p].value

(* Every byte that a match produced points at an earlier byte with the     *)
(* same value, no further back than the window; a literal points at        *)
(* itself.  DeflateProfile::Impl::origins relies on it to follow sources   *)
(* in one pass (zipprof.cc:174-179).                                       *)
SourcesPrecede ==
  \A k \in 0 .. cursor - 1 :
    LET stat == bytes[k]
    IN  IF stat.copy = 0
        THEN stat.source = k
        ELSE /\ stat.source < k
             /\ k - stat.source <= WindowSize
             /\ bytes[stat.source].value = stat.value

(* literal_count is the number of recorded bytes that are not copies, the  *)
(* meaning DeflateProfile::literal_count gives it (zipprof.h:40-42).       *)
LiteralsCounted ==
  literal_count = Cardinality({k \in 0 .. cursor - 1 : bytes[k].copy = 0})

(* A copy id belongs to one copy operation (io.hh:83-85): ids never        *)
(* decrease along the output, none exceeds the operations started, and two *)
(* neighbours with the same id have neighbouring sources.                  *)
CopyIdsUnique ==
  /\ \A k \in 0 .. cursor - 1 :
       bytes[k].copy <= IF phase = "copying" THEN copy_cur + 1 ELSE copy_cur
  /\ \A j, k \in 0 .. cursor - 1 :
       j < k /\ bytes[j].copy # 0 /\ bytes[k].copy # 0 =>
         /\ bytes[j].copy <= bytes[k].copy
         /\ bytes[j].copy = bytes[k].copy =>
              bytes[k].source - bytes[j].source = k - j

(* The assertion of ProfilingByteWriter::copy is what stands between a     *)
(* distance that reaches before the output and a wrapped position: it      *)
(* fires on the first byte of such a copy and on no other copy.            *)
AbortsOnlyBeforeFirstByte ==
  /\ phase = "aborted" => run.i = 0 /\ run.start > cursor
  /\ phase = "copying" /\ run.i > 0 => run.start + run.i < cursor

(* A recorded ByteStat is never changed or lost again, in particular not   *)
(* by grow_buffer.                                                         *)
AppendOnly == [][\A k \in 0 .. cursor - 1 : bytes'[k] = bytes[k]]_vars

-----------------------------------------------------------------------------
(* What the invariants above rest on.  The two position counters agree and *)
(* the array has room for what was written; a copy in progress either      *)
(* started inside the output, and has recorded consecutive sources since,  *)
(* or started before it, and has recorded nothing.                         *)
CursorsAgree ==
  /\ out_cur = cursor
  /\ cursor <= capacity
  /\ \A k \in 0 .. cursor - 1 : bytes[k] \in Stat

Reach == cursor - run.i - run.start

RunValid ==
  phase # "idle" =>
    /\ run.len \in Lengths
    /\ run.bit_size \in BitSizes
    /\ run.i <= run.len
    /\ run.i <= cursor
    /\ cursor + run.len - run.i <= MaxOut
    /\ \/ Reach \in 1..WindowSize
       \/ run.i = 0 /\ Reach + WordSize \in cursor + 1 .. WindowSize
    /\ \A k \in cursor - run.i .. cursor - 1 :
         /\ bytes[k].source = k - Reach
         /\ bytes[k].copy = copy_cur + 1
    /\ \A k \in 0 .. cursor - run.i - 1 : bytes[k].copy <= copy_cur

IInv ==
  /\ TypeOK
  /\ CursorsAgree
  /\ WindowCoherent
  /\ SourcesPrecede
  /\ LiteralsCounted
  /\ RunValid
  /\ CopyIdsUnique
  /\ AbortsOnlyBeforeFirstByte

-----------------------------------------------------------------------------
(* The output a caller can rely on: what precedes the copy in progress.    *)
Settled == IF phase = "copying" THEN cursor - run.i ELSE cursor

Output == [k \in 1..Settled |-> bytes[k - 1].value]

Lz == INSTANCE Lz77 WITH
        MaxDist <- WindowSize,
        out     <- Output,
        status  <- IF phase = "aborted" THEN "failed" ELSE "running"

(* The ring and the byte-by-byte loop implement the windowless Lz77: a     *)
(* copy appends, in one step, the match over the whole output.             *)
ImplementsLz77 == Lz!Spec
=============================================================================
