------------------------- MODULE OutputTrackerProofs -------------------------
(***************************************************************************)
(* Proofs about OutputTracker, for every window size, initial capacity and *)
(* output bound: the inductive invariant IInv, the safety invariants that  *)
(* follow from it, AppendOnly, and the refinement of Lz77.                 *)
(***************************************************************************)
EXTENDS OutputTracker, FiniteSetTheorems, SequenceTheorems, TLAPS

-----------------------------------------------------------------------------
(* Slots of the ring.                                                      *)

(* A position masked is a slot of the ring.                                *)
LEMMA SlotInRange == \A p \in Nat : Slot(p) \in 0 .. WindowSize - 1
BY SizesAssumption DEF Slot

(* A number is a multiple of any n and its remainder, which is what the    *)
(* arithmetic of the ring rests on.                                        *)
LEMMA ModDecomposes ==
  ASSUME NEW a \in Nat, NEW n \in Nat \ {0}
  PROVE  \E q \in Nat : a = n * q + (a % n)
<1>1. a = n * (a \div n) + (a % n) /\ a \div n \in Nat
  BY Z3
<1> QED
  BY <1>1

(* Two positions less than a window apart never share a slot.              *)
LEMMA SlotsDistinct ==
  ASSUME NEW a \in Nat, NEW b \in Nat, a < b, b - a < WindowSize
  PROVE  Slot(a) # Slot(b)
<1> DEFINE n == WindowSize
<1>0. n \in Nat \ {0}
  BY SizesAssumption
<1> SUFFICES ASSUME a % n = b % n PROVE FALSE
  BY DEF Slot
<1>1. PICK q \in Nat : a = n * q + (a % n)
  BY <1>0, ModDecomposes
<1>2. PICK r \in Nat : b = n * r + (b % n)
  BY <1>0, ModDecomposes
<1> HIDE DEF n
<1>3. a % n \in Int /\ b % n \in Int
  BY <1>0
<1>4. b - a = n * (r - q)
  BY <1>0, <1>1, <1>2, <1>3
<1>5. CASE r - q <= 0
  <2>1. n * (r - q) <= 0
    BY <1>0, <1>5
  <2> QED
    BY <1>4, <2>1
<1>6. CASE r - q >= 1
  <2>1. n * (r - q) >= n
    BY <1>0, <1>6
  <2>2. n = WindowSize
    BY DEF n
  <2> QED
    BY <1>0, <1>4, <2>1, <2>2
<1> QED
  BY <1>5, <1>6

-----------------------------------------------------------------------------
(* What the two helpers of a step do.                                      *)

(* add_stat puts its ByteStat behind those there are and leaves them as    *)
(* they were, whether or not it has to grow the array.                     *)
LEMMA AddStatAppends ==
  ASSUME TypeOK, CursorsAgree, cursor < MaxOut, NEW stat \in Stat,
         AddStat(stat)
  PROVE  /\ capacity' \in Nat \ {0}
         /\ bytes' \in [0 .. capacity' - 1 -> Stat \cup {NoStat}]
         /\ cursor' = cursor + 1
         /\ cursor' \in 0..MaxOut
         /\ cursor' <= capacity'
         /\ bytes'[cursor] = stat
         /\ \A k \in 0 .. cursor - 1 : bytes'[k] = bytes[k]
<1>1. CASE cursor >= capacity
  <2>1. cursor = capacity
    BY <1>1 DEF TypeOK, CursorsAgree
  <2>2. Grown \in [0 .. 2 * capacity - 1 -> Stat \cup {NoStat}]
    BY DEF TypeOK, Grown
  <2>3. \A k \in 0 .. cursor - 1 : Grown[k] = bytes[k]
    BY <2>1 DEF TypeOK, Grown
  <2>4. bytes' = [Grown EXCEPT ![cursor] = stat] /\ capacity' = 2 * capacity
        /\ cursor' = cursor + 1
    BY <1>1 DEF AddStat
  <2> QED
    BY <2>1, <2>2, <2>3, <2>4, SizesAssumption DEF TypeOK
<1>2. CASE ~(cursor >= capacity)
  <2>1. bytes' = [bytes EXCEPT ![cursor] = stat] /\ capacity' = capacity
        /\ cursor' = cursor + 1
    BY <1>2 DEF AddStat
  <2> QED
    BY <1>2, <2>1, SizesAssumption DEF TypeOK
<1> QED
  BY <1>1, <1>2

(* Writing a byte to the ring overwrites only the slot of the byte that    *)
(* drops out of the window.                                                *)
LEMMA PutByteKeepsWindow ==
  ASSUME TypeOK, CursorsAgree, WindowCoherent, cursor < MaxOut,
         NEW stat \in Stat, AddStat(stat), PutByte(stat.value)
  PROVE  /\ buf' \in [0 .. WindowSize - 1 -> Byte]
         /\ out_cur' \in 0..MaxOut
         /\ CursorsAgree'
         /\ WindowCoherent'
<1>1. stat.value \in Byte
  BY DEF Stat
<1>2. Slot(cursor) \in 0 .. WindowSize - 1
  BY SlotInRange DEF TypeOK
<1>3. buf' = [buf EXCEPT ![Slot(cursor)] = stat.value] /\ out_cur' = cursor + 1
  BY DEF PutByte, CursorsAgree
<1>4. buf' \in [0 .. WindowSize - 1 -> Byte]
  BY <1>1, <1>3 DEF TypeOK
<1>5. CursorsAgree'
  <2>1. \A k \in 0 .. cursor : bytes'[k] \in Stat
    BY AddStatAppends DEF CursorsAgree, TypeOK
  <2> QED
    BY <1>3, <2>1, AddStatAppends DEF CursorsAgree, TypeOK
<1>6. ASSUME NEW p \in 0 .. cursor' - 1, cursor' - p <= WindowSize
      PROVE  buf'[Slot(p)] = bytes'[p].value
  <2>1. cursor' = cursor + 1 /\ cursor \in Nat /\ p \in Nat
    BY AddStatAppends DEF TypeOK
  <2>2. CASE p = cursor
    <3>1. buf'[Slot(p)] = stat.value
      BY <1>2, <1>3, <2>2 DEF TypeOK
    <3>2. bytes'[p] = stat
      BY <2>2, AddStatAppends
    <3> QED
      BY <3>1, <3>2
  <2>3. CASE p < cursor
    <3>1. Slot(p) # Slot(cursor)
      BY <1>6, <2>1, <2>3, SizesAssumption, SlotsDistinct
    <3>2. buf'[Slot(p)] = buf[Slot(p)]
      BY <1>3, <2>1, <3>1, SlotInRange DEF TypeOK
    <3>3. bytes'[p] = bytes[p]
      BY <2>1, <2>3, AddStatAppends
    <3>4. buf[Slot(p)] = bytes[p].value
      BY <1>6, <2>1, <2>3, SizesAssumption DEF WindowCoherent
    <3> QED
      BY <3>2, <3>3, <3>4
  <2> QED
    BY <2>1, <2>2, <2>3
<1>7. WindowCoherent'
  BY <1>6 DEF WindowCoherent
<1> QED
  BY <1>3, <1>4, <1>5, <1>7, AddStatAppends DEF TypeOK

(* One more recorded byte adds one to the literals when it is one.         *)
LEMMA LiteralsStep ==
  ASSUME TypeOK, CursorsAgree, LiteralsCounted, cursor < MaxOut,
         NEW stat \in Stat, AddStat(stat),
         literal_count' = IF stat.copy = 0 THEN literal_count + 1
                                           ELSE literal_count
  PROVE  LiteralsCounted' /\ literal_count' \in Nat
<1> DEFINE old == {k \in 0 .. cursor - 1 : bytes[k].copy = 0}
           new == {k \in 0 .. cursor' - 1 : bytes'[k].copy = 0}
<1>1. IsFiniteSet(old)
  <2>1. IsFiniteSet(0 .. cursor - 1)
    BY FS_Interval DEF TypeOK
  <2>2. old \in SUBSET (0 .. cursor - 1)
    OBVIOUS
  <2> QED
    BY <2>1, <2>2, FS_Subset
<1>2. cursor \notin old
  BY DEF TypeOK
<1>2a. /\ cursor \in Nat /\ cursor' = cursor + 1
      /\ bytes'[cursor] = stat
      /\ \A k \in 0 .. cursor - 1 : bytes'[k] = bytes[k]
  BY AddStatAppends DEF TypeOK
<1>2b. literal_count = Cardinality(old) /\ literal_count \in Nat
  BY DEF LiteralsCounted, TypeOK
<1>2c. literal_count' = Cardinality(new) => LiteralsCounted'
  BY DEF LiteralsCounted
<1> HIDE DEF old, new
<1>3. CASE stat.copy = 0
  <2>1. new = old \cup {cursor}
    <3>1. \A k \in new : k \in old \cup {cursor}
      BY <1>2a DEF old, new
    <3>2. \A k \in old \cup {cursor} : k \in new
      BY <1>3, <1>2a DEF old, new
    <3> QED
      BY <3>1, <3>2
  <2>2. Cardinality(new) = Cardinality(old) + 1
    BY <1>1, <1>2, <2>1, FS_AddElement
  <2> QED
    BY <1>2b, <1>2c, <1>3, <2>2
<1>4. CASE stat.copy # 0
  <2>1. new = old
    <3>1. \A k \in new : k \in old
      BY <1>4, <1>2a DEF old, new
    <3>2. \A k \in old : k \in new
      BY <1>2a DEF old, new
    <3> QED
      BY <3>1, <3>2
  <2> QED
    BY <1>2b, <1>2c, <1>4, <2>1
<1> QED
  BY <1>3, <1>4
-----------------------------------------------------------------------------
(* The literal step.                                                       *)

(* A literal keeps the invariant.                                          *)
LEMMA AddPreserves ==
  ASSUME IInv, NEW value \in Byte, NEW bits \in BitSizes, Add(value, bits)
  PROVE  IInv'
<1> DEFINE stat == [source |-> cursor, copy |-> 0, bit_size |-> bits,
                    value |-> value]
<1>1. /\ TypeOK /\ CursorsAgree /\ WindowCoherent
      /\ phase = "idle" /\ phase' = "idle" /\ cursor < MaxOut
      /\ AddStat(stat) /\ PutByte(stat.value)
      /\ copy_cur' = copy_cur /\ run' = run
      /\ literal_count' = literal_count + 1
  BY DEF IInv, CursorsAgree, Add
<1>2. stat \in Stat /\ stat.copy = 0 /\ stat.source = cursor
  BY DEF Stat, TypeOK, IInv
<1> HIDE DEF stat
<1>3. /\ cursor' = cursor + 1 /\ cursor \in Nat
      /\ bytes'[cursor] = stat
      /\ \A k \in 0 .. cursor - 1 : bytes'[k] = bytes[k]
  BY <1>1, <1>2, AddStatAppends DEF TypeOK
<1>4. CursorsAgree' /\ WindowCoherent'
  BY <1>1, <1>2, PutByteKeepsWindow
<1>5. LiteralsCounted' /\ literal_count' \in Nat
  BY <1>1, <1>2, LiteralsStep DEF IInv
<1>6. TypeOK'
  BY <1>1, <1>2, <1>5, AddStatAppends, PutByteKeepsWindow DEF TypeOK
<1>7. SourcesPrecede'
  <2>1. \A k \in 0 .. cursor - 1 : bytes[k] \in Stat
    BY <1>1 DEF CursorsAgree
  <2> QED
    BY <1>2, <1>3, <2>1 DEF SourcesPrecede, IInv, Stat
<1>8. RunValid'
  BY <1>1 DEF RunValid
<1>9. CopyIdsUnique'
  <2>1. ASSUME NEW k \in 0 .. cursor' - 1
        PROVE  \/ k = cursor /\ bytes'[k].copy = 0
               \/ k \in 0 .. cursor - 1 /\ bytes'[k] = bytes[k]
    BY <1>2, <1>3
  <2>2. copy_cur \in Nat
    BY <1>1 DEF TypeOK
  <2> QED
    BY <1>1, <1>3, <2>1, <2>2 DEF CopyIdsUnique, IInv
<1>10. AbortsOnlyBeforeFirstByte'
  BY <1>1 DEF AbortsOnlyBeforeFirstByte
<1> QED
  BY <1>4, <1>5, <1>6, <1>7, <1>8, <1>9, <1>10 DEF IInv

-----------------------------------------------------------------------------
(* The steps of a copy.                                                    *)

(* The start of a copy keeps the invariant: its start lies in the output,  *)
(* or has wrapped to where the assertion will find it.                     *)
LEMMA CopyStartPreserves ==
  ASSUME IInv, NEW dist \in Distances, NEW len \in Lengths,
         NEW bits \in BitSizes, CopyStart(dist, len, bits)
  PROVE  IInv'
<1>1. /\ phase = "idle" /\ phase' = "copying" /\ out_cur = cursor
      /\ cursor + len <= MaxOut
      /\ run' = [start |-> WordSub(cursor, dist), i |-> 0, len |-> len,
                 bit_size |-> bits]
      /\ UNCHANGED <<buf, out_cur, copy_cur, bytes, capacity, cursor,
                     literal_count>>
  BY DEF IInv, CursorsAgree, CopyStart
<1>2. /\ dist \in 1..WindowSize /\ len \in Nat \ {0} /\ bits \in Nat
      /\ cursor \in 0..MaxOut
  BY OperandsAssumption DEF IInv, TypeOK
<1>3. WordSub(cursor, dist) \in 0 .. WordSize - 1
  BY <1>2, SizesAssumption DEF WordSub
<1>4. TypeOK'
  BY <1>1, <1>2, <1>3 DEF IInv, TypeOK
<1>5. RunValid'
  <2>1. run'.i = 0 /\ run'.len = len /\ run'.start = WordSub(cursor, dist)
    BY <1>1
  <2>2. Reach' = cursor - WordSub(cursor, dist)
    BY <1>1, <1>2, <1>3, <2>1 DEF Reach
  <2>3. \/ Reach' \in 1..WindowSize
        \/ Reach' + WordSize \in cursor + 1 .. WindowSize
    BY <1>2, <2>2, SizesAssumption DEF WordSub
  <2>4. \A k \in 0 .. cursor - 1 : bytes[k].copy <= copy_cur
    BY <1>1 DEF IInv, CopyIdsUnique
  <2> QED
    BY <1>1, <1>2, <2>1, <2>3, <2>4 DEF RunValid
<1>6. CopyIdsUnique'
  <2>1. \A k \in 0 .. cursor - 1 : bytes[k].copy \in Nat
    BY DEF IInv, CursorsAgree, Stat
  <2> QED
    BY <1>1, <2>1 DEF IInv, CopyIdsUnique, TypeOK
<1>7. AbortsOnlyBeforeFirstByte'
  BY <1>1 DEF AbortsOnlyBeforeFirstByte
<1>8. CursorsAgree' /\ WindowCoherent' /\ SourcesPrecede' /\ LiteralsCounted'
  BY <1>1 DEF IInv, CursorsAgree, WindowCoherent, SourcesPrecede,
              LiteralsCounted
<1> QED
  BY <1>4, <1>5, <1>6, <1>7, <1>8 DEF IInv

(* While a copy runs, Pos either wrapped past the end, on the first byte,  *)
(* or is a recorded position no further back than the window.              *)
LEMMA PosCases ==
  ASSUME IInv, phase = "copying", run.i < run.len
  PROVE  \/ /\ Pos = cursor - Reach /\ Reach \in 1..WindowSize
            /\ Pos \in 0 .. cursor - 1
         \/ /\ Pos = run.start /\ run.i = 0 /\ Pos > MaxOut
            /\ Reach + WordSize \in cursor + 1 .. WindowSize
<1>1. /\ run.start \in 0 .. WordSize - 1 /\ run.i \in Nat /\ run.len \in Nat
      /\ cursor \in 0..MaxOut
  BY DEF IInv, TypeOK
<1>2. Reach = cursor - run.i - run.start
  BY DEF Reach
<1>3. CASE Reach \in 1..WindowSize
  <2>1. run.start + run.i = cursor - Reach
    BY <1>1, <1>2
  <2>2. run.start + run.i < WordSize
    BY <1>1, <1>3, <2>1, SizesAssumption
  <2> QED
    BY <1>1, <1>3, <2>1, <2>2 DEF Pos, WordAdd
<1>4. CASE run.i = 0 /\ Reach + WordSize \in cursor + 1 .. WindowSize
  <2>1. Pos = run.start
    BY <1>1, <1>4, SizesAssumption DEF Pos, WordAdd
  <2>2. run.start > MaxOut
    BY <1>1, <1>2, <1>4, SizesAssumption
  <2> QED
    BY <1>4, <2>1, <2>2
<1> QED
  BY <1>3, <1>4 DEF IInv, RunValid

(* An iteration of copy keeps the invariant.                               *)
LEMMA CopyBytePreserves ==
  ASSUME IInv, CopyByte
  PROVE  IInv'
<1> DEFINE stat == [source |-> Pos, copy |-> copy_cur + 1,
                    bit_size |-> run.bit_size, value |-> buf[Slot(Pos)]]
<1>1. /\ phase = "copying" /\ phase' = "copying" /\ run.i < run.len
      /\ Pos <= cursor /\ copy_cur' = copy_cur
      /\ literal_count' = literal_count
      /\ run' = [run EXCEPT !.i = @ + 1]
      /\ AddStat(stat) /\ PutByte(stat.value)
  BY DEF CopyByte
<1>2. /\ TypeOK /\ CursorsAgree /\ WindowCoherent /\ RunValid
      /\ cursor \in 0..MaxOut /\ copy_cur \in Nat
      /\ run.start \in 0 .. WordSize - 1 /\ run.i \in Nat /\ run.len \in Nat
  BY DEF IInv, TypeOK
<1>3. /\ Pos = cursor - Reach /\ Reach \in 1..WindowSize
      /\ Pos \in 0 .. cursor - 1
  BY <1>1, <1>2, PosCases, SizesAssumption
<1>4. buf[Slot(Pos)] = bytes[Pos].value
  BY <1>2, <1>3, SizesAssumption DEF WindowCoherent
<1>5. /\ stat \in Stat /\ stat.copy = copy_cur + 1 /\ stat.source = Pos
      /\ stat.value = bytes[Pos].value
  <2>1. bytes[Pos].value \in Byte
    BY <1>2, <1>3 DEF CursorsAgree, Stat
  <2> QED
    BY <1>1, <1>2, <1>3, <1>4, <2>1 DEF Stat, RunValid
<1>6. cursor < MaxOut
  BY <1>1, <1>2, SizesAssumption DEF RunValid
<1> HIDE DEF stat
<1>7. /\ cursor' = cursor + 1 /\ bytes'[cursor] = stat
      /\ \A k \in 0 .. cursor - 1 : bytes'[k] = bytes[k]
  BY <1>1, <1>2, <1>5, <1>6, AddStatAppends
<1>8. CursorsAgree' /\ WindowCoherent'
  BY <1>1, <1>2, <1>5, <1>6, PutByteKeepsWindow
<1>9. LiteralsCounted' /\ literal_count' \in Nat
  BY <1>1, <1>2, <1>5, <1>6, LiteralsStep DEF IInv
<1>10. /\ run'.start = run.start /\ run'.i = run.i + 1 /\ run'.len = run.len
       /\ run'.bit_size = run.bit_size
       /\ run' \in [start : 0 .. WordSize - 1, i : Nat, len : Nat,
                    bit_size : BitSizes \cup {0}]
  BY <1>1, <1>2 DEF TypeOK
<1>11. TypeOK'
  BY <1>1, <1>2, <1>5, <1>6, <1>9, <1>10, AddStatAppends, PutByteKeepsWindow
     DEF TypeOK
<1>12. ASSUME NEW k \in 0 .. cursor' - 1
       PROVE  \/ k = cursor /\ bytes'[k] = stat
              \/ k \in 0 .. cursor - 1 /\ bytes'[k] = bytes[k]
  BY <1>2, <1>7
<1>13. SourcesPrecede'
  <2>1. \A k \in 0 .. cursor - 1 : bytes[k] \in Stat
    BY <1>2 DEF CursorsAgree
  <2>2. bytes'[Pos].value = stat.value /\ stat.source < cursor
        /\ cursor - stat.source <= WindowSize /\ stat.copy # 0
    BY <1>2, <1>3, <1>5, <1>7
  <2>3. ASSUME NEW k \in 0 .. cursor - 1, bytes[k].copy # 0
        PROVE  bytes'[bytes[k].source] = bytes[bytes[k].source]
    <3>1. bytes[k].source \in 0 .. cursor - 1
      BY <1>2, <2>1, <2>3 DEF SourcesPrecede, IInv, Stat
    <3> QED
      BY <1>7, <3>1
  <2> QED
    BY <1>5, <1>12, <2>2, <2>3 DEF SourcesPrecede, IInv
<1>14. RunValid'
  <2>1. Reach' = Reach
    BY <1>2, <1>7, <1>10 DEF Reach
  <2>2. ASSUME NEW k \in cursor' - run'.i .. cursor' - 1
        PROVE  bytes'[k].source = k - Reach' /\ bytes'[k].copy = copy_cur' + 1
    <3>1. k = cursor \/ k \in cursor - run.i .. cursor - 1
      BY <1>2, <1>7, <1>10
    <3>2. CASE k = cursor
      BY <1>1, <1>3, <1>5, <1>7, <2>1, <3>2
    <3>3. CASE k \in cursor - run.i .. cursor - 1
      <4>1. bytes[k].source = k - Reach /\ bytes[k].copy = copy_cur + 1
        BY <1>1, <1>2, <3>3 DEF RunValid
      <4>2. bytes'[k] = bytes[k]
        BY <1>1, <1>2, <1>7, <3>3 DEF RunValid
      <4> QED
        BY <1>1, <2>1, <4>1, <4>2
    <3> QED
      BY <3>1, <3>2, <3>3
  <2>3. ASSUME NEW k \in 0 .. cursor' - run'.i - 1
        PROVE  bytes'[k].copy <= copy_cur'
    <3>1. k \in 0 .. cursor - run.i - 1 /\ k \in 0 .. cursor - 1
      BY <1>2, <1>7, <1>10
    <3> QED
      BY <1>1, <1>2, <1>7, <3>1 DEF RunValid
  <2>4. run.len \in Lengths /\ run.bit_size \in BitSizes /\ run.i <= cursor
        /\ cursor + run.len - run.i <= MaxOut
    BY <1>1, <1>2 DEF RunValid
  <2>5. run'.i <= run'.len /\ run'.i <= cursor'
        /\ cursor' + run'.len - run'.i <= MaxOut
    BY <1>1, <1>2, <1>7, <1>10, <2>4, SizesAssumption
  <2> QED
    BY <1>3, <1>10, <2>1, <2>2, <2>3, <2>4, <2>5 DEF RunValid
<1>15. CopyIdsUnique'
  <2>1. ASSUME NEW j \in 0 .. cursor - 1, bytes[j].copy # 0
        PROVE  /\ bytes[j].copy <= copy_cur + 1
               /\ bytes[j].copy = copy_cur + 1 =>
                    Pos - bytes[j].source = cursor - j
    <3>1. CASE j \in 0 .. cursor - run.i - 1
      <4>1. bytes[j].copy <= copy_cur
        BY <1>1, <1>2, <3>1 DEF RunValid
      <4>2. bytes[j].copy \in Nat
        BY <1>2 DEF CursorsAgree, Stat
      <4> QED
        BY <1>2, <4>1, <4>2
    <3>2. CASE j \in cursor - run.i .. cursor - 1
      <4>1. bytes[j].source = j - Reach /\ bytes[j].copy = copy_cur + 1
        BY <1>1, <1>2, <3>2 DEF RunValid
      <4> QED
        BY <1>2, <1>3, <4>1
    <3> QED
      BY <1>2, <3>1, <3>2
  <2>2. \A k \in 0 .. cursor - 1 : bytes[k].copy <= copy_cur + 1
    BY <1>1 DEF IInv, CopyIdsUnique
  <2> QED
    BY <1>1, <1>2, <1>5, <1>7, <1>12, <2>1, <2>2 DEF IInv, CopyIdsUnique
<1>16. AbortsOnlyBeforeFirstByte'
  BY <1>1, <1>2, <1>3, <1>7, <1>10 DEF AbortsOnlyBeforeFirstByte, Reach
<1> QED
  BY <1>8, <1>9, <1>11, <1>13, <1>14, <1>15, <1>16 DEF IInv

(* A failed assertion keeps the invariant.                                 *)
LEMMA CopyAbortPreserves ==
  ASSUME IInv, CopyAbort
  PROVE  IInv'
<1>1. /\ phase = "copying" /\ phase' = "aborted" /\ run.i < run.len
      /\ Pos > cursor
      /\ UNCHANGED <<buf, out_cur, copy_cur, bytes, capacity, cursor,
                     literal_count, run>>
  BY DEF CopyAbort
<1>2. run.i = 0 /\ run.start > cursor
  BY <1>1, PosCases DEF IInv, TypeOK
<1>3. TypeOK' /\ CursorsAgree' /\ WindowCoherent' /\ SourcesPrecede'
      /\ LiteralsCounted'
  BY <1>1 DEF IInv, TypeOK, CursorsAgree, WindowCoherent, SourcesPrecede,
              LiteralsCounted
<1>4. RunValid'
  BY <1>1 DEF IInv, RunValid, Reach
<1>5. CopyIdsUnique'
  <2>1. \A k \in 0 .. cursor - 1 : bytes[k].copy <= copy_cur
    BY <1>1, <1>2 DEF IInv, RunValid, TypeOK
  <2> QED
    BY <1>1, <2>1 DEF IInv, CopyIdsUnique
<1>6. AbortsOnlyBeforeFirstByte'
  BY <1>1, <1>2 DEF AbortsOnlyBeforeFirstByte
<1> QED
  BY <1>3, <1>4, <1>5, <1>6 DEF IInv

(* The end of a copy keeps the invariant.                                  *)
LEMMA CopyEndPreserves ==
  ASSUME IInv, CopyEnd
  PROVE  IInv'
<1>1. /\ phase = "copying" /\ phase' = "idle" /\ run' = NoRun
      /\ copy_cur' = copy_cur + 1
      /\ UNCHANGED <<buf, out_cur, bytes, capacity, cursor, literal_count>>
  BY DEF CopyEnd
<1>2. TypeOK'
  BY <1>1, SizesAssumption DEF IInv, TypeOK, NoRun
<1>3. CursorsAgree' /\ WindowCoherent' /\ SourcesPrecede' /\ LiteralsCounted'
  BY <1>1 DEF IInv, CursorsAgree, WindowCoherent, SourcesPrecede,
              LiteralsCounted
<1>4. RunValid' /\ AbortsOnlyBeforeFirstByte'
  BY <1>1 DEF RunValid, AbortsOnlyBeforeFirstByte
<1>5. CopyIdsUnique'
  BY <1>1 DEF IInv, CopyIdsUnique
<1> QED
  BY <1>2, <1>3, <1>4, <1>5 DEF IInv

-----------------------------------------------------------------------------
(* IInv is inductive, and the safety invariants follow.                    *)

(* The invariant holds at first.                                           *)
LEMMA InitEstablishes == Init => IInv
<1> SUFFICES ASSUME Init PROVE IInv
  OBVIOUS
<1>1. cursor = 0 /\ out_cur = 0 /\ phase = "idle" /\ literal_count = 0
  BY DEF Init
<1>2. TypeOK
  BY SizesAssumption DEF Init, TypeOK, NoRun
<1>3. LiteralsCounted
  <2>1. {k \in 0 .. cursor - 1 : bytes[k].copy = 0} = {}
    BY <1>1
  <2> QED
    BY <1>1, <2>1, FS_EmptySet DEF LiteralsCounted
<1>4. CursorsAgree
  BY <1>1, <1>2 DEF CursorsAgree, TypeOK
<1> QED
  BY <1>1, <1>2, <1>3, <1>4
     DEF IInv, WindowCoherent, SourcesPrecede, RunValid, CopyIdsUnique,
         AbortsOnlyBeforeFirstByte

(* Every step keeps the invariant.                                         *)
LEMMA StepPreserves == IInv /\ [Next]_vars => IInv'
<1> SUFFICES ASSUME IInv, [Next]_vars PROVE IInv'
  OBVIOUS
<1>1. CASE \E value \in Byte, bits \in BitSizes : Add(value, bits)
  BY <1>1, AddPreserves
<1>2. CASE \E dist \in Distances, len \in Lengths, bits \in BitSizes :
             CopyStart(dist, len, bits)
  BY <1>2, CopyStartPreserves
<1>3. CASE CopyByte
  BY <1>3, CopyBytePreserves
<1>4. CASE CopyAbort
  BY <1>4, CopyAbortPreserves
<1>5. CASE CopyEnd
  BY <1>5, CopyEndPreserves
<1>6. CASE UNCHANGED vars
  BY <1>6 DEF vars, IInv, TypeOK, CursorsAgree, WindowCoherent, SourcesPrecede,
              LiteralsCounted, RunValid, Reach, CopyIdsUnique,
              AbortsOnlyBeforeFirstByte
<1> QED
  BY <1>1, <1>2, <1>3, <1>4, <1>5, <1>6 DEF Next, CopyNext

(* The inductive invariant holds in every reachable state of the output    *)
(* side: zip_inl.hh:277-293 over io_inl.hh:55-79.                          *)
THEOREM Invariance == Spec => []IInv
<1>1. Init => IInv
  BY InitEstablishes
<1>2. IInv /\ [Next]_vars => IInv'
  BY StepPreserves
<1> QED
  BY <1>1, <1>2, PTL DEF Spec

(* Every variable keeps its type; in particular no counter leaves 0..MaxOut*)
(* and no ring position leaves the window.                                 *)
THEOREM TypeCorrect == Spec => []TypeOK
<1>1. IInv => TypeOK
  BY DEF IInv
<1> QED
  BY <1>1, Invariance, PTL

(* The byte copy() finds in the ring is the byte the profile recorded at   *)
(* that position, for every window size.                                   *)
THEOREM WindowIsCoherent == Spec => []WindowCoherent
<1>1. IInv => WindowCoherent
  BY DEF IInv
<1> QED
  BY <1>1, Invariance, PTL

(* Sources always point strictly back, inside the window, at a byte of the *)
(* same value, so following them ends at a literal.                        *)
THEOREM SourcesAlwaysPrecede == Spec => []SourcesPrecede
<1>1. IInv => SourcesPrecede
  BY DEF IInv
<1> QED
  BY <1>1, Invariance, PTL

(* The literal count is that of the recorded literals, a copy id is one    *)
(* copy's alone, and the writer's assertion fires only on the first byte   *)
(* of a copy that reaches before the output (io_inl.hh:55-73).             *)
THEOREM CountsAndIds ==
  Spec => [](LiteralsCounted /\ CopyIdsUnique /\ AbortsOnlyBeforeFirstByte)
<1>1. IInv => LiteralsCounted /\ CopyIdsUnique /\ AbortsOnlyBeforeFirstByte
  BY DEF IInv
<1> QED
  BY <1>1, Invariance, PTL

(* No step changes a ByteStat recorded before it.                          *)
LEMMA RecordedStays ==
  IInv /\ [Next]_vars =>
    cursor <= cursor' /\ \A k \in 0 .. cursor - 1 : bytes'[k] = bytes[k]
<1> SUFFICES ASSUME IInv, [Next]_vars
             PROVE  /\ cursor <= cursor'
                    /\ \A k \in 0 .. cursor - 1 : bytes'[k] = bytes[k]
  OBVIOUS
<1>0. TypeOK /\ CursorsAgree /\ IInv' /\ cursor \in 0..MaxOut
  BY StepPreserves DEF IInv, TypeOK
<1>1. ASSUME NEW stat, AddStat(stat)
      PROVE  cursor' = cursor + 1 /\ \A k \in 0 .. cursor - 1 : bytes'[k] = bytes[k]
  <2>1. CASE cursor >= capacity
    <3>1. /\ bytes' = [Grown EXCEPT ![cursor] = stat]
          /\ DOMAIN Grown = 0 .. 2 * capacity - 1
          /\ \A k \in 0 .. cursor - 1 : Grown[k] = bytes[k]
      BY <1>0, <1>1, <2>1 DEF AddStat, Grown, CursorsAgree, TypeOK
    <3> QED
      BY <1>0, <1>1, <3>1, SizesAssumption DEF AddStat, TypeOK, CursorsAgree
  <2>2. CASE ~(cursor >= capacity)
    BY <1>0, <1>1, <2>2, SizesAssumption DEF AddStat, TypeOK
  <2> QED
    BY <2>1, <2>2
<1>2. CASE \E value \in Byte, bits \in BitSizes : Add(value, bits)
  BY <1>0, <1>1, <1>2, SizesAssumption DEF Add
<1>3. CASE CopyByte
  BY <1>0, <1>1, <1>3, SizesAssumption DEF CopyByte
<1>4. CASE ~CopyByte /\ ~(\E value \in Byte, bits \in BitSizes : Add(value, bits))
  BY <1>0, <1>4, SizesAssumption
     DEF Next, CopyNext, CopyStart, CopyAbort, CopyEnd, vars
<1> QED
  BY <1>2, <1>3, <1>4

(* No step, grow_buffer included, changes or drops a recorded ByteStat.    *)
THEOREM HistoryIsKept == Spec => AppendOnly
<1>1. IInv /\ [Next]_vars => [\A k \in 0 .. cursor - 1 : bytes'[k] = bytes[k]]_vars
  BY RecordedStays
<1> QED
  BY <1>1, Invariance, PTL DEF Spec, AppendOnly

-----------------------------------------------------------------------------
(* OutputTracker implements Lz77: Add is Literal, CopyEnd is Match,        *)
(* CopyAbort is BadMatch, CopyStart and CopyByte are invisible.            *)

(* The values of the first n ByteStats of an array, as a sequence.         *)
LEMMA ValuesAreASequence ==
  ASSUME NEW n \in Nat, NEW f, \A k \in 0 .. n - 1 : f[k].value \in Byte
  PROVE  LET s == [k \in 1..n |-> f[k - 1].value]
         IN  /\ s \in Seq(Byte)
             /\ Len(s) = n
             /\ \A k \in 1..n : s[k] = f[k - 1].value
<1> DEFINE s == [k \in 1..n |-> f[k - 1].value]
<1>1. \A k \in 1..n : k - 1 \in 0 .. n - 1
  OBVIOUS
<1>2. s \in [1..n -> Byte]
  BY <1>1
<1> HIDE DEF s
<1>3. s \in Seq(Byte)
  BY <1>2, SeqDef
<1>4. Len(s) = n
  BY <1>2, <1>3, LenProperties
<1> QED
  BY <1>3, <1>4 DEF s

(* What the refinement needs to know of Output as a sequence.             *)
SeqOutput ==
  /\ Settled \in 0..cursor
  /\ Output \in Seq(Byte)
  /\ Len(Output) = Settled
  /\ \A k \in 1..Settled : Output[k] = bytes[k - 1].value

(* In a state where IInv holds Output is a sequence of Settled bytes.      *)
LEMMA OutputIsASequence == IInv => SeqOutput
<1> SUFFICES ASSUME IInv PROVE SeqOutput
  OBVIOUS
<1>1. Settled \in 0..cursor
  BY DEF IInv, TypeOK, RunValid, Settled
<1>2. \A k \in 0 .. Settled - 1 : bytes[k].value \in Byte
  BY <1>1 DEF IInv, TypeOK, CursorsAgree, Stat
<1>3. Settled \in Nat
  BY <1>1 DEF IInv, TypeOK
<1> HIDE DEF Settled
<1> QED
  BY <1>1, <1>2, <1>3, ValuesAreASequence DEF Output, SeqOutput

(* Add appends one literal byte.                                           *)
LEMMA AddIsLiteral ==
  ASSUME IInv, SeqOutput, SeqOutput', NEW value \in Byte, NEW bits \in BitSizes,
         Add(value, bits)
  PROVE  Lz!Literal(value)
<1> DEFINE stat == [source |-> cursor, copy |-> 0, bit_size |-> bits,
                    value |-> value]
<1>1. /\ phase = "idle" /\ phase' = "idle" /\ cursor < MaxOut /\ TypeOK
      /\ CursorsAgree /\ AddStat(stat) /\ cursor \in Nat
  BY DEF Add, IInv, TypeOK, CursorsAgree
<1>2. stat \in Stat /\ stat.value = value
  BY <1>1 DEF Stat
<1> HIDE DEF stat
<1>3. /\ cursor' = cursor + 1 /\ bytes'[cursor].value = value
      /\ \A k \in 0 .. cursor - 1 : bytes'[k] = bytes[k]
  BY <1>1, <1>2, AddStatAppends
<1>4. Settled = cursor /\ Settled' = cursor + 1
  BY <1>1, <1>3 DEF Settled
<1>5. Output = [k \in 1..cursor |-> bytes[k - 1].value]
  BY <1>4 DEF Output
<1>6. Output' = [k \in 1 .. cursor + 1 |-> bytes'[k - 1].value]
  BY <1>4 DEF Output
<1>7. Output \in Seq(Byte) /\ Len(Output) = cursor
      /\ Output' \in Seq(Byte) /\ Len(Output') = cursor + 1
  BY <1>4 DEF SeqOutput
<1>8. Output' = Append(Output, value)
  <2>1. /\ Append(Output, value) \in Seq(Byte)
        /\ Len(Append(Output, value)) = cursor + 1
        /\ Append(Output, value)[cursor + 1] = value
        /\ \A k \in 1..cursor : Append(Output, value)[k] = Output[k]
    BY <1>7, AppendProperties
  <2>2. ASSUME NEW k \in 1 .. cursor + 1
        PROVE  Output'[k] = Append(Output, value)[k]
    <3>1. CASE k = cursor + 1
      BY <1>1, <1>3, <1>6, <2>1, <3>1
    <3>2. CASE k \in 1..cursor
      <4>1. bytes'[k - 1] = bytes[k - 1]
        BY <1>1, <1>3, <3>2
      <4>2. Output'[k] = bytes'[k - 1].value
        BY <1>1, <1>6, <3>2
      <4>3. Output[k] = bytes[k - 1].value
        BY <1>1, <1>5, <3>2
      <4> QED
        BY <2>1, <3>2, <4>1, <4>2, <4>3
    <3>3. cursor \in Nat /\ (k = cursor + 1 \/ k \in 1..cursor)
      BY <1>1
    <3> QED
      BY <3>1, <3>2, <3>3, Zenon
  <2> HIDE DEF Output
  <2> QED
    BY <1>7, <2>1, <2>2, SeqEqual
<1> QED
  BY <1>1, <1>8 DEF Lz!Literal

(* The end of a copy is the whole match: each byte it recorded has the     *)
(* value of its source, Reach places before it.                            *)
LEMMA CopyEndIsMatch ==
  ASSUME IInv, SeqOutput, SeqOutput', CopyEnd
  PROVE  Reach \in 1..WindowSize /\ Lz!Match(Reach, run.len)
<1>1. /\ phase = "copying" /\ phase' = "idle" /\ run.i = run.len
      /\ UNCHANGED <<bytes, cursor>>
  BY DEF CopyEnd
<1>2. /\ cursor \in Nat /\ run.start \in Nat /\ run.len \in Nat \ {0}
      /\ run.i <= cursor /\ Reach \in 1..WindowSize
      /\ \A k \in cursor - run.i .. cursor - 1 :
           bytes[k].source = k - Reach /\ bytes[k].copy = copy_cur + 1
  BY <1>1, OperandsAssumption DEF IInv, TypeOK, RunValid
<1>3. Settled = cursor - run.len /\ Settled' = cursor
  BY <1>1 DEF Settled
<1>4. /\ Len(Output) = cursor - run.len
      /\ \A k \in 1 .. cursor - run.len : Output[k] = bytes[k - 1].value
  BY <1>3 DEF SeqOutput
<1>5. /\ Len(Output') = cursor
      /\ \A k \in 1 .. cursor : Output'[k] = bytes[k - 1].value
  <2>1. /\ Len(Output') = Settled'
        /\ \A k \in 1 .. Settled' : Output'[k] = bytes'[k - 1].value
    BY DEF SeqOutput
  <2> QED
    BY <1>1, <1>3, <2>1
<1>6. Reach <= cursor - run.len
  BY <1>1, <1>2 DEF Reach
<1> HIDE DEF Output, Reach
<1>7. ASSUME NEW k \in 1 .. cursor - run.len
      PROVE  Output'[k] = Output[k]
  <2>1. k \in 1 .. cursor
    BY <1>2
  <2> QED
    BY <1>4, <1>5, <2>1
<1>8. ASSUME NEW k \in cursor - run.len + 1 .. cursor
      PROVE  Output'[k] = Output'[k - Reach]
  <2>1. /\ k \in 1..cursor /\ k - Reach \in 1..cursor
        /\ k - 1 \in cursor - run.i .. cursor - 1 /\ k - 1 \in 0 .. cursor - 1
    BY <1>1, <1>2, <1>6
  <2>2. bytes[k - 1].source = k - 1 - Reach /\ bytes[k - 1].copy # 0
    <3>1. bytes[k - 1].source = k - 1 - Reach
          /\ bytes[k - 1].copy = copy_cur + 1
      BY <1>2, <2>1
    <3>2. copy_cur \in Nat
      BY DEF IInv, TypeOK
    <3> QED
      BY <3>1, <3>2
  <2>3. bytes[k - 1 - Reach].value = bytes[k - 1].value
    BY <2>1, <2>2 DEF IInv, SourcesPrecede
  <2>4. k - Reach - 1 = k - 1 - Reach
    BY <1>2, <2>1
  <2> QED
    BY <1>5, <2>1, <2>3, <2>4
<1>9. cursor = (cursor - run.len) + run.len
  BY <1>2
<1> QED
  BY <1>1, <1>2, <1>4, <1>5, <1>6, <1>7, <1>8, <1>9 DEF Lz!Match

(* The assertion fires only for a distance that reaches before the first   *)
(* byte, by as much as the subtraction wrapped.                            *)
LEMMA CopyAbortIsBadMatch ==
  ASSUME IInv, SeqOutput, SeqOutput', CopyAbort
  PROVE  \E dist \in 1..WindowSize : Lz!BadMatch(dist)
<1>1. /\ phase = "copying" /\ phase' = "aborted" /\ run.i < run.len
      /\ Pos > cursor /\ UNCHANGED <<bytes, cursor, run>>
  BY DEF CopyAbort
<1>2. /\ run.i = 0 /\ cursor \in Nat
      /\ Reach + WordSize \in cursor + 1 .. WindowSize
  BY <1>1, PosCases DEF IInv, TypeOK
<1>3. Settled = cursor /\ Settled' = cursor
  BY <1>1, <1>2 DEF Settled
<1>4. UNCHANGED Output
  BY <1>1, <1>3 DEF Output
<1>5. Len(Output) = cursor
  BY <1>3 DEF SeqOutput
<1> HIDE DEF Output
<1>6. Reach + WordSize \in 1..WindowSize /\ Reach + WordSize > Len(Output)
  BY <1>2, <1>5, SizesAssumption
<1>7. Lz!BadMatch(Reach + WordSize)
  BY <1>1, <1>4, <1>6 DEF Lz!BadMatch
<1> QED
  BY <1>6, <1>7

(* The other steps leave the output a caller can rely on unchanged.        *)
LEMMA OtherStepsStutter ==
  ASSUME IInv, SeqOutput, SeqOutput',
         \/ \E dist \in Distances, len \in Lengths, bits \in BitSizes :
              CopyStart(dist, len, bits)
         \/ CopyByte
         \/ UNCHANGED vars
  PROVE  UNCHANGED Lz!vars
<1> USE DEF Lz!vars
<1>1. CASE \E dist \in Distances, len \in Lengths, bits \in BitSizes :
             CopyStart(dist, len, bits)
  <2>1. /\ phase = "idle" /\ phase' = "copying" /\ run'.i = 0
        /\ UNCHANGED <<bytes, cursor>> /\ cursor \in Nat
    BY <1>1 DEF CopyStart, IInv, TypeOK
  <2>2. Settled' = Settled
    BY <2>1 DEF Settled
  <2> QED
    BY <2>1, <2>2 DEF Output
<1>2. CASE CopyByte
  <2>1. /\ phase = "copying" /\ phase' = "copying"
        /\ cursor \in Nat /\ run.i \in Nat
        /\ run'.i = run.i + 1
    BY <1>2 DEF CopyByte, IInv, TypeOK
  <2>2. cursor' = cursor + 1
    BY <1>2 DEF CopyByte, AddStat
  <2>3. \A k \in 0 .. cursor - 1 : bytes'[k] = bytes[k]
    BY <1>2, RecordedStays DEF Next, CopyNext
  <2>4. Settled' = Settled /\ Settled \in 0..cursor
    BY <2>1, <2>2, OutputIsASequence DEF Settled, SeqOutput
  <2>5. \A k \in 1..Settled : bytes'[k - 1] = bytes[k - 1]
    BY <2>1, <2>3, <2>4
  <2>6. Output' = Output
    BY <2>4, <2>5 DEF Output
  <2> QED
    BY <2>1, <2>6
<1>3. CASE UNCHANGED vars
  BY <1>3 DEF vars, Output, Settled
<1> QED
  BY <1>1, <1>2, <1>3

(* The ring buffer, the wrapping positions and the byte-by-byte copy loop  *)
(* (zip_inl.hh:277-293) produce exactly what the windowless specification  *)
(* of decompressed output allows, for every window size.                   *)
THEOREM OutputTrackerImplementsLz77 == Spec => ImplementsLz77
<1>1. Init => Lz!Init
  <2> SUFFICES ASSUME Init PROVE Lz!Init
    OBVIOUS
  <2>1. IInv /\ Settled = 0 /\ phase = "idle"
    BY InitEstablishes DEF Init, Settled
  <2>2. Output \in Seq(Byte) /\ Len(Output) = 0
    BY <2>1, OutputIsASequence DEF SeqOutput
  <2>3. Output = << >>
    <3> HIDE DEF Output
    <3> QED
      BY <2>2, EmptySeq
  <2> QED
    BY <2>1, <2>3 DEF Lz!Init
<1>2. /\ IInv /\ SeqOutput /\ SeqOutput' /\ [Next]_vars
      => [Lz!Next]_(Lz!vars)
  <2> SUFFICES ASSUME IInv, SeqOutput, SeqOutput', [Next]_vars
               PROVE  Lz!Next \/ UNCHANGED Lz!vars
    OBVIOUS
  <2>1. CASE \E value \in Byte, bits \in BitSizes : Add(value, bits)
    BY <2>1, AddIsLiteral DEF Lz!Next
  <2>2. CASE CopyEnd
    <3>1. run.len \in Lengths
      BY <2>2 DEF CopyEnd, IInv, RunValid
    <3> QED
      BY <2>2, <3>1, CopyEndIsMatch DEF Lz!Next
  <2>3. CASE CopyAbort
    BY <2>3, CopyAbortIsBadMatch DEF Lz!Next
  <2>4. CASE \/ \E dist \in Distances, len \in Lengths, bits \in BitSizes :
                  CopyStart(dist, len, bits)
             \/ CopyByte
             \/ UNCHANGED vars
    BY <2>4, OtherStepsStutter
  <2> QED
    BY <2>1, <2>2, <2>3, <2>4 DEF Next, CopyNext
<1>3. IInv => SeqOutput
  BY OutputIsASequence
<1> QED
  BY <1>1, <1>2, <1>3, Invariance, PTL DEF Spec, ImplementsLz77, Lz!Spec

=============================================================================
