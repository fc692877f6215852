--------------------------- MODULE ZipReaderProofs ---------------------------
(***************************************************************************)
(* Proofs about ZipReader, for every set of archives, every window and     *)
(* record size and both widths of size_t: the inductive invariant IInv and *)
(* the safety invariants that follow from it; then the order of the heap   *)
(* sort, and the binary search that relies on it.                          *)
(***************************************************************************)
EXTENDS ZipReader, FiniteSetTheorems, SequenceTheorems, WellFoundedInduction,
        TLAPS

-----------------------------------------------------------------------------
(* The least and the greatest number of a set, which Min and Max choose.   *)

(* A set of natural numbers with a member has a least one.                 *)
LEMMA LeastElement ==
  ASSUME NEW T, T \subseteq Nat, T # {}
  PROVE  \E m \in T : \A k \in T : m <= k
<1> SUFFICES ASSUME NEW R, R = {ss \in Nat \X Nat : ss[1] < ss[2]}
             PROVE  \E m \in T : \A k \in T : m <= k
  OBVIOUS
<1>1. IsWellFoundedOn(R, Nat)
  BY NatLessThanWellFounded DEF OpToRel
<1>2. \E m \in T : \A k \in T : ~ (<<k, m>> \in R)
  BY <1>1, WFMin
<1>3. ASSUME NEW k \in Nat, NEW m \in Nat, <<k, m>> \notin R
      PROVE  m <= k
  BY <1>3
<1> QED
  BY <1>2, <1>3

(* Min is that of any such set.                                            *)
LEMMA MinIsLeast ==
  ASSUME NEW T, T \subseteq Nat, T # {}
  PROVE  Min(T) \in T /\ \A k \in T : Min(T) <= k
<1>1. \E m \in T : \A k \in T : m <= k
  BY LeastElement
<1> QED
  BY <1>1 DEF Min

(* Max is the greatest number of a set that has a bound.                   *)
LEMMA MaxIsGreatest ==
  ASSUME NEW T, T \subseteq Nat, T # {}, NEW b \in Nat, \A k \in T : k <= b
  PROVE  Max(T) \in T /\ \A k \in T : k <= Max(T)
<1> SUFFICES ASSUME NEW D, D = {b - k : k \in T}
             PROVE  Max(T) \in T /\ \A k \in T : k <= Max(T)
  OBVIOUS
<1>1. D \subseteq Nat /\ D # {}
  <2>1. ASSUME NEW k \in T PROVE b - k \in Nat
    <3>1. k \in Nat /\ k <= b
      OBVIOUS
    <3> QED
      BY <3>1
  <2> QED
    BY <2>1
<1>2. PICK d \in D : \A k \in D : d <= k
  BY <1>1, LeastElement
<1>3. PICK m \in T : d = b - m
  BY <1>2
<1>4. ASSUME NEW k \in T PROVE m >= k
  <2>1. b - k \in D /\ k \in Nat /\ m \in Nat
    OBVIOUS
  <2> QED
    BY <1>2, <1>3, <2>1
<1>5. Max(T) \in T /\ \A k \in T : Max(T) >= k
  BY <1>3, <1>4 DEF Max
<1> QED
  BY <1>5

(* A member that bounds the set is its Max.                                *)
LEMMA MaxIsUnique ==
  ASSUME NEW T, T \subseteq Nat, NEW m \in T, \A k \in T : k <= m
  PROVE  m = Max(T)
<1>1. Max(T) \in T /\ \A k \in T : k <= Max(T)
  BY MaxIsGreatest
<1>2. Max(T) \in Nat /\ m \in Nat /\ m <= Max(T) /\ Max(T) <= m
  BY <1>1
<1> QED
  BY <1>2

-----------------------------------------------------------------------------
(* What the archive holds.                                                 *)

(* The signatures of an archive stand in it, and the record behind each    *)
(* is one.                                                                 *)
LEMMA ArchiveFacts ==
  ASSUME TypeOK
  PROVE  /\ arc.size \in Nat
         /\ DOMAIN arc.ends \subseteq 0 .. arc.size - 4
         /\ \A o \in DOMAIN arc.ends : arc.ends[o] \in EndRecords
BY ArchivesAssumption DEF TypeOK

(* The fields of an end record and of the records it points to.            *)
LEMMA EndRecordFacts ==
  ASSUME TypeOK, cur \in DOMAIN arc.ends
  PROVE  /\ EndRecord.total \in Nat /\ EndRecord.cdir_size \in Nat
         /\ EndRecord.cdir_ofs \in Nat
         /\ Len(EndRecord.records) \in Nat
         /\ \A k \in Nat : k < Len(EndRecord.records) =>
              Record(k) \in Records /\ HeaderSize(Record(k)) \in Nat
<1>1. EndRecord \in EndRecords
  BY ArchiveFacts DEF EndRecord
<1>2. EndRecord.records \in Seq(Records)
  BY <1>1 DEF EndRecords
<1>3. ASSUME NEW k \in Nat, k < Len(EndRecord.records)
      PROVE  Record(k) \in Records /\ HeaderSize(Record(k)) \in Nat
  <2>1. Record(k) \in Records
    BY <1>2, <1>3, ElementOfSeq DEF Record
  <2>2. Len(Record(k).name) \in Nat /\ Record(k).rest \in Nat
    BY <2>1, LenProperties DEF Records
  <2> QED
    BY <2>1, <2>2, SizesAssumption DEF HeaderSize
<1>4. Len(EndRecord.records) \in Nat
  BY <1>2, LenProperties
<1> QED
  BY <1>1, <1>3, <1>4 DEF EndRecords

-----------------------------------------------------------------------------
(* A swap of two elements keeps a permutation one.                         *)
LEMMA SwapKeepsFiles ==
  ASSUME NEW m \in Nat, m = i, indices \in [0 .. m - 1 -> 0 .. m - 1],
         \A a, b \in 0 .. m - 1 : indices[a] = indices[b] => a = b,
         NEW x \in 0 .. m - 1, NEW y \in 0 .. m - 1,
         indices' = Swapped(x, y)
  PROVE  /\ indices' \in [0 .. m - 1 -> 0 .. m - 1]
         /\ \A a, b \in 0 .. m - 1 : indices'[a] = indices'[b] => a = b
<1>1. \A a \in 0 .. m - 1 :
        indices'[a] = IF a = y THEN indices[x]
                      ELSE IF a = x THEN indices[y] ELSE indices[a]
  BY DEF Swapped
<1>2. indices' \in [0 .. m - 1 -> 0 .. m - 1]
  BY DEF Swapped
<1>3. ASSUME NEW a \in 0 .. m - 1, NEW b \in 0 .. m - 1,
             indices'[a] = indices'[b]
      PROVE  a = b
  <2>1. CASE a = y
    BY <1>1, <1>3, <2>1
  <2>2. CASE a = x
    BY <1>1, <1>3, <2>2
  <2>3. CASE a # x /\ a # y
    BY <1>1, <1>3, <2>3
  <2> QED
    BY <2>1, <2>2, <2>3
<1> QED
  BY <1>2, <1>3

-----------------------------------------------------------------------------
(* IInv is inductive: one lemma for each step of the constructor.          *)

(* Empty sequences are functions on no index.                              *)
LEMMA EmptyArray == << >> \in [0 .. 0 - 1 -> Nat]
<1>1. << >> = [k \in 0 .. 0 - 1 |-> 0]
  OBVIOUS
<1> QED
  BY <1>1

(* The invariant holds at first.                                           *)
LEMMA InitEstablishes == Init => IInv
<1> SUFFICES ASSUME Init PROVE IInv
  OBVIOUS
<1>1. TypeOK
  <2>1. offsets = << >> /\ i = 0
    BY DEF Init
  <2>2. offsets \in [0 .. i - 1 -> Nat]
    BY <2>1, EmptyArray
  <2>3. has_state \in BOOLEAN
    BY Zenon DEF Init
  <2>4. 0 \in Nat /\ 0 \in 0..0 /\ 0 \in Int
    OBVIOUS
  <2> QED
    BY <2>2, <2>3, <2>4 DEF Init, TypeOK
<1>2. ScanValid /\ StateValid /\ DirectoryValid /\ SortValid /\ SortKeepsFiles
  BY DEF Init, ScanValid, StateValid, DirectoryValid, SortValid,
         SortKeepsFiles, Opened
<1>3. AnswersValid
  BY DEF Init, AnswersValid, NoAnswer, Returned
<1> QED
  BY <1>1, <1>2, <1>3 DEF IInv

(* What the loop over the records found stays as long as the archive, the  *)
(* end record and the loop's variables do.                                 *)
LEMMA DirectoryStays ==
  ASSUME DirectoryValid, UNCHANGED <<arc, cur, total_files, loop>>,
         Opened' => Opened
  PROVE  DirectoryValid'
<1>1. /\ EndRecord' = EndRecord
      /\ \A k : Record(k)' = Record(k) /\ Ahead(k)' = Ahead(k)
      /\ \A r : HeaderSize(r)' = HeaderSize(r) /\ InArchive(r)' = InArchive(r)
      /\ EndRecordAccepted' = EndRecordAccepted
  BY DEF loop, EndRecord, Record, Ahead, HeaderSize, InArchive,
         EndRecordAccepted
<1> QED
  BY <1>1 DEF DirectoryValid, loop

(* An error leaves an archive that is not open, and no answers yet.        *)
LEMMA RefusePreserves ==
  ASSUME IInv, ~Returned, Refuse
  PROVE  IInv'
<1>1. TypeOK'
  BY DEF IInv, TypeOK, Refuse, loop, sort
<1>2. ScanValid' /\ StateValid' /\ DirectoryValid' /\ SortValid'
        /\ SortKeepsFiles'
  BY DEF Refuse, ScanValid, StateValid, DirectoryValid, SortValid,
         SortKeepsFiles, Opened
<1>3. entries = << >> /\ answer = NoAnswer
  BY DEF IInv, AnswersValid
<1>4. AnswersValid'
  BY <1>3 DEF Refuse, AnswersValid, NoAnswer
<1> QED
  BY <1>1, <1>2, <1>4 DEF IInv

(* An archive is refused, or its scan for the end record begins.           *)
LEMMA OpenPreserves ==
  ASSUME IInv, Open
  PROVE  IInv'
<1>1. ~Returned /\ entries = << >> /\ answer = NoAnswer
  BY DEF IInv, AnswersValid, Open, Returned
<1>2. CASE Refuse
  BY <1>1, <1>2, RefusePreserves
<1>3. CASE ~Refuse
  <2>1. /\ arc.size >= EndSize /\ has_state' = TRUE /\ pc' = "scan"
        /\ cur' = IF arc.size > Window THEN arc.size - Window ELSE 0
        /\ UNCHANGED <<arc, total_files, loop, sort, entries, answer>>
    BY <1>3 DEF Open
  <2>2. arc.size \in Nat /\ Window \in Nat
        /\ DOMAIN arc.ends \subseteq 0 .. arc.size - 4
    BY ArchiveFacts, SizesAssumption DEF IInv
  <2>3. TypeOK'
    BY <2>1, <2>2 DEF IInv, TypeOK, loop, sort
  <2>4. ScanValid'
    BY <2>1, <2>2 DEF ScanValid, Opened
  <2>5. StateValid'
    BY <2>1 DEF IInv, StateValid, Open, loop, sort
  <2>6. DirectoryValid' /\ SortValid' /\ SortKeepsFiles'
    BY <2>1 DEF DirectoryValid, SortValid, SortKeepsFiles, Opened
  <2>7. AnswersValid'
    BY <1>1, <2>1 DEF AnswersValid, NoAnswer
  <2> QED
    BY <2>3, <2>4, <2>5, <2>6, <2>7 DEF IInv
<1> QED
  BY <1>2, <1>3

(* A window without a signature rules out all that the next one will not   *)
(* see; the last signature of a window is the last of the archive.         *)
LEMMA ScanPreserves ==
  ASSUME IInv, Scan
  PROVE  IInv'
<1>1. ~Returned /\ entries = << >> /\ answer = NoAnswer /\ pc = "scan"
  BY DEF IInv, AnswersValid, Scan, Returned
<1>2. CASE Refuse
  BY <1>1, <1>2, RefusePreserves
<1>3. CASE ~Refuse
  <2>1. /\ cur >= 0
        /\ UNCHANGED <<arc, has_state, total_files, loop, sort, entries, answer>>
        /\ \/ WindowSigs # {} /\ cur' = Max(WindowSigs) /\ pc' = "end_record"
           \/ /\ cur > 0 /\ WindowSigs = {}
              /\ cur' = PreviousWindow /\ pc' = "scan"
    <3>1. \/ cur < 0 /\ Refuse
          \/ /\ cur >= 0 /\ WindowSigs # {}
             /\ cur' = Max(WindowSigs) /\ pc' = "end_record"
             /\ UNCHANGED <<arc, has_state, total_files, loop, sort, entries, answer>>
          \/ Refuse
          \/ /\ cur > 0 /\ WindowSigs = {} /\ cur' = PreviousWindow
             /\ UNCHANGED <<arc, pc, has_state, total_files, loop, sort, entries,
                            answer>>
      BY DEF Scan
    <3>2. cur \in Int
      BY DEF IInv, TypeOK
    <3> QED
      BY <1>1, <1>3, <3>1, <3>2
  <2>2. /\ arc.size \in Nat /\ Window \in Nat /\ Window >= 4 /\ cur \in Nat
        /\ DOMAIN arc.ends \subseteq 0 .. arc.size - 4
    BY <2>1, ArchiveFacts, SizesAssumption DEF IInv, TypeOK
  <2>3. \A o \in DOMAIN arc.ends : o <= cur + Window - 4
    BY <1>1, <2>1 DEF IInv, ScanValid
  <2>4. \A o \in DOMAIN arc.ends : o \in WindowSigs \/ o < cur
    BY <2>2, <2>3 DEF WindowSigs
  <2>5. TypeOK' /\ ScanValid'
    <3>1. CASE WindowSigs # {}
      <4>1. WindowSigs \subseteq Nat /\ \A o \in WindowSigs : o <= arc.size
        BY <2>2 DEF WindowSigs
      <4>2. /\ Max(WindowSigs) \in WindowSigs
            /\ \A o \in WindowSigs : o <= Max(WindowSigs)
        BY <2>2, <3>1, <4>1, MaxIsGreatest
      <4>3. cur' = Max(WindowSigs) /\ pc' = "end_record"
        BY <2>1, <3>1
      <4>4. cur' \in DOMAIN arc.ends /\ cur' >= cur /\ cur' \in Nat
        BY <2>2, <4>2, <4>3 DEF WindowSigs
      <4>5. \A o \in DOMAIN arc.ends : o <= cur'
        BY <2>2, <2>4, <4>2, <4>3, <4>4
      <4> QED
        BY <2>1, <4>3, <4>4, <4>5 DEF IInv, TypeOK, ScanValid, loop, sort
    <3>2. CASE WindowSigs = {}
      <4>1. cur' = PreviousWindow /\ pc' = "scan"
        BY <2>1, <3>2
      <4>2. \A o \in DOMAIN arc.ends : o < cur
        BY <2>4, <3>2
      <4>3. cur' \in Int
        BY <2>2, <4>1 DEF PreviousWindow
      <4>4. cur' >= 0 => \A o \in DOMAIN arc.ends : o <= cur' + Window - 4
        BY <2>2, <4>1, <4>2 DEF PreviousWindow
      <4>5. TypeOK'
        BY <2>1, <4>1, <4>3 DEF IInv, TypeOK, loop, sort
      <4>6. ScanValid'
        BY <2>1, <4>1, <4>4 DEF ScanValid, Opened
      <4> QED
        BY <4>5, <4>6
    <3> QED
      BY <3>1, <3>2
  <2>6. pc' \in {"scan", "end_record"}
    BY <2>1
  <2>7. StateValid'
    BY <1>1, <2>1, <2>6 DEF IInv, StateValid, loop, sort
  <2>8. DirectoryValid' /\ SortValid' /\ SortKeepsFiles'
    BY <2>6 DEF DirectoryValid, SortValid, SortKeepsFiles, Opened
  <2>9. AnswersValid'
    BY <1>1, <2>1, <2>6 DEF AnswersValid, NoAnswer
  <2> QED
    BY <2>5, <2>7, <2>8, <2>9 DEF IInv
<1> QED
  BY <1>2, <1>3

(* An end record that is accepted begins an empty directory.               *)
LEMMA ReadEndRecordPreserves ==
  ASSUME IInv, ReadEndRecord
  PROVE  IInv'
<1>1. /\ ~Returned /\ entries = << >> /\ answer = NoAnswer /\ pc = "end_record"
      /\ has_state = TRUE /\ i = 0 /\ offsets = << >> /\ indices = << >>
  BY DEF IInv, AnswersValid, ReadEndRecord, Returned, StateValid, TypeOK
<1>2. CASE Refuse
  BY <1>1, <1>2, RefusePreserves
<1>3. CASE ~Refuse
  <2>1. /\ total_files' = EndRecord.total
        /\ UNCHANGED <<arc, cur, offsets, sort, entries, answer>>
        /\ \/ /\ EndRecordAccepted /\ pc' = "records"
              /\ i' = 0 /\ n' = EndRecord.cdir_size /\ p' = 0
              /\ UNCHANGED has_state
           \/ /\ pc' = "refused" /\ has_state' = FALSE
              /\ UNCHANGED <<i, n, p>>
    BY <1>3 DEF ReadEndRecord
  <2>2. cur \in DOMAIN arc.ends /\ \A o \in DOMAIN arc.ends : o <= cur
    BY <1>1 DEF IInv, ScanValid
  <2>3. /\ EndRecord.total \in Nat /\ EndRecord.cdir_size \in Nat
        /\ Len(EndRecord.records) \in Nat
    BY <2>2, EndRecordFacts DEF IInv
  <2>4. EndRecord' = EndRecord /\ (EndRecordAccepted' <=> EndRecordAccepted)
    BY <2>1 DEF EndRecord, EndRecordAccepted
  <2>5. i' = 0 /\ offsets' = << >> /\ indices' = << >> /\ start' = start
        /\ end' = end /\ root' = root
    BY <1>1, <2>1 DEF sort
  <2>6. TypeOK'
    <3>1. offsets' \in [0 .. i' - 1 -> Nat] /\ i' \in 0 .. total_files'
      BY <2>1, <2>3, <2>5, EmptyArray
    <3>2. n' \in Nat /\ p' \in Nat
      BY <2>1, <2>3 DEF IInv, TypeOK
    <3>3. has_state' \in BOOLEAN
      BY <2>1 DEF IInv, TypeOK
    <3>4. /\ arc' \in Archives /\ total_files' \in Nat /\ cur' \in Int
          /\ start' \in Int /\ end' \in Nat /\ root' \in Int
      BY <2>1, <2>3, <2>5 DEF IInv, TypeOK
    <3>5. pc' \in {"refused", "records"}
      BY <2>1
    <3> QED
      BY <3>1, <3>2, <3>3, <3>4, <3>5 DEF TypeOK
  <2>7. ScanValid'
    BY <2>1, <2>2 DEF ScanValid, Opened
  <2>8. StateValid'
    BY <1>1, <2>1 DEF StateValid, Opened
  <2>9. DirectoryValid'
    <3>1. CASE pc' = "records"
      BY <2>1, <2>3, <2>4, <2>5, <3>1 DEF DirectoryValid
    <3>2. CASE pc' = "refused"
      BY <3>2 DEF DirectoryValid, Opened
    <3> QED
      BY <2>1, <3>1, <3>2
  <2>10. SortValid' /\ SortKeepsFiles'
    BY <2>1, <2>5 DEF SortValid, SortKeepsFiles
  <2>11. AnswersValid'
    BY <1>1, <2>1 DEF AnswersValid, NoAnswer
  <2> QED
    BY <2>6, <2>7, <2>8, <2>9, <2>10, <2>11 DEF IInv
<1> QED
  BY <1>2, <1>3

(* A record that is accepted lies in what is left of the directory.        *)
LEMMA ReadRecordPreserves ==
  ASSUME IInv, ReadRecord
  PROVE  IInv'
<1>1. /\ ~Returned /\ entries = << >> /\ answer = NoAnswer /\ pc = "records"
      /\ Opened /\ i < total_files
  BY DEF IInv, AnswersValid, ReadRecord, Returned, Opened
<1>2. CASE Refuse
  BY <1>1, <1>2, RefusePreserves
<1>3. CASE ~Refuse
  <2> SUFFICES ASSUME NEW h, h = HeaderSize(Record(i)), NEW e, e = EndRecord
               PROVE  IInv'
    OBVIOUS
  <2>1. /\ n >= RecordSize /\ i < Len(e.records) /\ RecordAccepted(Record(i))
        /\ offsets' = Pushed(offsets, i, p) /\ indices' = Pushed(indices, i, i)
        /\ n' = n - h /\ p' = p + h /\ i' = i + 1
        /\ UNCHANGED <<arc, pc, has_state, total_files, cur, start, end,
                       root, entries, answer>>
    BY <1>3 DEF ReadRecord, IsRecord
  <2>2. /\ cur \in DOMAIN arc.ends /\ \A o \in DOMAIN arc.ends : o <= cur
        /\ i \in Nat /\ n \in Nat /\ p \in Nat /\ total_files \in Nat
        /\ offsets \in [0 .. i - 1 -> Nat]
    BY <1>1 DEF IInv, ScanValid, TypeOK
  <2>3. /\ h \in Nat /\ h <= n /\ InArchive(Record(i))
        /\ e.cdir_size \in Nat /\ Len(e.records) \in Nat
    BY <2>1, <2>2, EndRecordFacts DEF RecordAccepted, IInv
  <2>4. /\ EndRecord' = e /\ (EndRecordAccepted' <=> EndRecordAccepted)
        /\ \A k : Record(k)' = Record(k)
        /\ \A r : HeaderSize(r)' = HeaderSize(r) /\ (InArchive(r)' <=> InArchive(r))
    BY <2>1 DEF EndRecord, EndRecordAccepted, Record, HeaderSize, InArchive
  <2>5. offsets' \in [0 .. i' - 1 -> Nat]
        /\ \A k \in 0 .. i : offsets'[k] = IF k < i THEN offsets[k] ELSE p
    BY <2>1, <2>2 DEF Pushed
  <2>6. TypeOK'
    <3>1. has_state' \in BOOLEAN /\ arc' \in Archives /\ pc' = "records"
      BY <1>1, <2>1 DEF IInv, TypeOK
    <3>2. /\ total_files' \in Nat /\ cur' \in Int /\ i' \in 0 .. total_files'
          /\ n' \in Nat /\ p' \in Nat
      BY <1>1, <2>1, <2>2, <2>3 DEF IInv, TypeOK
    <3>3. start' \in Int /\ end' \in Nat /\ root' \in Int
      BY <2>1 DEF IInv, TypeOK
    <3> QED
      BY <2>5, <3>1, <3>2, <3>3 DEF TypeOK
  <2>7. ScanValid' /\ StateValid' /\ AnswersValid'
    BY <1>1, <2>1 DEF IInv, ScanValid, StateValid, AnswersValid, Opened, Returned,
                      NoAnswer
  <2>8. DirectoryValid'
    <3>1. /\ total_files = e.total /\ EndRecordAccepted
          /\ n + p = e.cdir_size /\ i <= Len(e.records)
          /\ \A k \in 0 .. i - 1 :
               /\ offsets[k] + HeaderSize(Record(k)) = Ahead(k + 1)
               /\ Ahead(k + 1) <= p /\ InArchive(Record(k))
      BY <1>1 DEF IInv, DirectoryValid
    <3>2. /\ total_files' = EndRecord'.total /\ EndRecordAccepted'
          /\ n' + p' = EndRecord'.cdir_size /\ i' <= Len(EndRecord'.records)
      <4>1. EndRecordAccepted'
        BY <2>4, <3>1
      <4>2. n' + p' = e.cdir_size
        <5>1. n + p = e.cdir_size /\ n' = n - h /\ p' = p + h
          BY <2>1, <3>1
        <5>2. (n - h) + (p + h) = n + p
          BY <2>2, <2>3
        <5> QED
          BY <5>1, <5>2
      <4>3. i' <= Len(e.records)
        <5>1. i' = i + 1 /\ i < Len(e.records)
          BY <2>1
        <5>2. i + 1 <= Len(e.records)
          BY <2>2, <2>3, <5>1
        <5> QED
          BY <5>1, <5>2
      <4>4. EndRecord' = e /\ total_files' = e.total
        <5>1. UNCHANGED total_files
          BY <2>1
        <5> QED
          BY <2>4, <3>1, <5>1
      <4> QED
        BY <4>1, <4>2, <4>3, <4>4
    <3>3. ASSUME NEW k \in 0 .. i' - 1
          PROVE  /\ offsets'[k] + HeaderSize(Record(k)) = Ahead(k + 1)'
                 /\ Ahead(k + 1)' <= p' /\ InArchive(Record(k))
      <4>1. CASE k < i
        <5>1. /\ offsets[k] + HeaderSize(Record(k)) = Ahead(k + 1)
              /\ Ahead(k + 1) <= p /\ InArchive(Record(k))
          BY <2>2, <3>1, <4>1
        <5>2. Ahead(k + 1) \in Nat
          BY <2>2, <4>1 DEF Ahead
        <5>3. Ahead(k + 1)' = Ahead(k + 1)
          BY <2>1, <2>2, <2>5, <4>1 DEF Ahead
        <5>4. offsets'[k] = offsets[k]
          BY <2>2, <2>5, <4>1
        <5> QED
          BY <2>1, <2>2, <2>3, <5>1, <5>2, <5>3, <5>4
      <4>2. CASE k = i
        <5>1. offsets'[k] = p /\ Ahead(k + 1)' = p'
          BY <2>1, <2>2, <2>5, <4>2 DEF Ahead
        <5> QED
          BY <2>1, <2>2, <2>3, <4>2, <5>1
      <4> QED
        BY <2>1, <2>2, <4>1, <4>2
    <3>4. \A k \in 0 .. i' - 1 :
            /\ offsets'[k] + HeaderSize(Record(k))' = Ahead(k + 1)'
            /\ Ahead(k + 1)' <= p' /\ InArchive(Record(k))'
      BY <2>4, <3>3
    <3> QED
      BY <3>2, <3>4 DEF DirectoryValid
  <2>9. SortValid' /\ SortKeepsFiles'
    <3>1. \A k \in 0 .. i - 1 : indices[k] = k
      BY <1>1 DEF IInv, SortValid
    <3>2. \A k \in 0 .. i' - 1 : indices'[k] = k
      BY <2>1, <2>2, <3>1 DEF Pushed
    <3>3. indices' \in [0 .. i' - 1 -> 0 .. i' - 1]
      <4>1. DOMAIN indices' = 0 .. i' - 1 /\ indices' = [k \in 0 .. i' - 1 |-> indices'[k]]
        BY <2>1, <2>2 DEF Pushed
      <4> QED
        BY <3>2, <4>1
    <3>4. pc' = "records"
      BY <1>1, <2>1
    <3> QED
      BY <3>2, <3>3, <3>4 DEF SortValid, SortKeepsFiles
  <2> QED
    BY <2>6, <2>7, <2>8, <2>9 DEF IInv
<1> QED
  BY <1>2, <1>3

-----------------------------------------------------------------------------
(* The heap sort.                                                          *)

(* What no step of the sort touches.                                       *)
SortUnchanged == UNCHANGED <<arc, has_state, total_files, cur, loop, entries, answer>>

(* While the sort runs nothing else changes, and what was read stays; so   *)
(* it is enough to look at its own variables.                              *)
LEMMA SortStepPreserves ==
  ASSUME IInv, Opened, ~Returned, SortUnchanged,
         pc' \in {"heapify", "extract", "open"},
         start' \in Int, end' \in Nat, root' \in Int,
         SortValid', SortKeepsFiles'
  PROVE  IInv'
<1>1. entries = << >> /\ answer = NoAnswer /\ has_state
  BY DEF IInv, AnswersValid, StateValid
<1>2. /\ UNCHANGED <<arc, total_files, cur, i, n, p, offsets, entries, answer>>
      /\ has_state' = has_state
  BY DEF SortUnchanged, loop
<1>3. TypeOK'
  <2>1. arc' \in Archives /\ total_files' \in Nat /\ cur' \in Int
        /\ i' \in 0 .. total_files' /\ n' \in Nat /\ p' \in Nat
        /\ offsets' \in [0 .. i' - 1 -> Nat]
    BY <1>2 DEF IInv, TypeOK
  <2>2. has_state' \in BOOLEAN
    BY <1>2 DEF IInv, TypeOK
  <2> QED
    BY <2>1, <2>2 DEF TypeOK
<1>4. ScanValid'
  BY <1>2 DEF IInv, ScanValid, Opened
<1>5. StateValid'
  BY <1>1, <1>2 DEF StateValid, Opened
<1>6. DirectoryValid'
  BY DirectoryStays DEF IInv, SortUnchanged
<1>7. AnswersValid'
  BY <1>1, <1>2 DEF AnswersValid, NoAnswer
<1> QED
  BY <1>3, <1>4, <1>5, <1>6, <1>7 DEF IInv

(* The sort starts with every file in its place.                           *)
LEMMA StartSortPreserves ==
  ASSUME IInv, StartSort
  PROVE  IInv'
<1>1. /\ pc = "records" /\ i = total_files /\ Opened /\ ~Returned
      /\ pc' = "heapify" /\ SortUnchanged /\ UNCHANGED <<indices, end, i, total_files>>
      /\ start' = (total_files - 2) \div 2 /\ root' = start'
  BY DEF StartSort, Opened, Returned, SortUnchanged, loop
<1>2. total_files \in Nat /\ end \in Nat
  BY DEF IInv, TypeOK
<1>3. start' \in -1 .. total_files - 1 /\ start' \in Int
  BY <1>1, <1>2
<1>4. SortValid'
  <2>1. start' >= 0 => root' \in 0 .. total_files - 1
    BY <1>1, <1>2, <1>3
  <2> QED
    BY <1>1, <1>3, <2>1 DEF SortValid
<1>5. SortKeepsFiles'
  BY <1>1 DEF IInv, SortKeepsFiles, Opened
<1> QED
  BY <1>1, <1>2, <1>3, <1>4, <1>5, SortStepPreserves

(* Where the heap has a child for the root, the child is in the heap.      *)
LEMMA ChildInHeap ==
  ASSUME root \in Nat, Limit \in Nat, ~InPlace
  PROVE  Child \in 0 .. Limit - 1
BY DEF InPlace, Child

(* A swap of two positions leaves the indices a permutation.               *)
LEMMA SiftDownPreserves ==
  ASSUME IInv, SiftDown
  PROVE  IInv'
<1>1. /\ pc = "extract" \/ (pc = "heapify" /\ start >= 0)
      /\ ~InPlace /\ indices' = Swapped(root, Child) /\ root' = Child
      /\ UNCHANGED <<pc, start, end>> /\ SortUnchanged
  BY DEF SiftDown, SortUnchanged
<1>2. /\ i = total_files /\ total_files \in Nat /\ i \in Nat /\ Opened /\ ~Returned
      /\ start \in Int /\ end \in Nat
  BY <1>1 DEF IInv, SortValid, TypeOK, Opened, Returned
<1>3. /\ Limit \in 1 .. total_files /\ root \in 0 .. Limit - 1
  BY <1>1, <1>2 DEF IInv, SortValid, Limit
<1>4. Child \in 0 .. Limit - 1
  BY <1>1, <1>3, ChildInHeap
<1>5. root \in 0 .. i - 1 /\ Child \in 0 .. i - 1 /\ i # 0
  BY <1>2, <1>3, <1>4
<1>6. indices \in [0 .. i - 1 -> 0 .. i - 1]
      /\ \A a, b \in 0 .. i - 1 : indices[a] = indices[b] => a = b
  BY <1>2, <1>5 DEF IInv, SortKeepsFiles
<1>7. indices' \in [0 .. i - 1 -> 0 .. i - 1]
      /\ \A a, b \in 0 .. i - 1 : indices'[a] = indices'[b] => a = b
  BY <1>1, <1>2, <1>5, <1>6, SwapKeepsFiles
<1>8. i' = i /\ total_files' = total_files
  BY <1>1 DEF SortUnchanged, loop
<1>9. SortKeepsFiles'
  BY <1>7, <1>8 DEF SortKeepsFiles
<1>10. SortValid'
  <2>1. CASE pc = "heapify"
    <3>1. root' \in 0 .. total_files - 1
      BY <1>1, <1>4, <2>1 DEF Limit
    <3>2. start \in -1 .. total_files - 1
      BY <2>1 DEF IInv, SortValid
    <3> QED
      BY <1>1, <1>2, <1>8, <2>1, <3>1, <3>2 DEF SortValid
  <2>2. CASE pc = "extract"
    <3>1. root' \in 0 .. end - 1
      BY <1>1, <1>4, <2>2 DEF Limit
    <3>2. end \in 1 .. total_files - 1
      BY <2>2 DEF IInv, SortValid
    <3> QED
      BY <1>1, <1>2, <1>8, <2>2, <3>1, <3>2 DEF SortValid
  <2> QED
    BY <1>1, <2>1, <2>2
<1>11. root' \in Int
  BY <1>1, <1>3, <1>4
<1> QED
  BY <1>1, <1>2, <1>9, <1>10, <1>11, SortStepPreserves

(* The largest name goes behind the heap, or the archive is open.          *)
LEMMA ExtractPreserves ==
  ASSUME IInv, pc \in {"heapify", "extract"}, SortUnchanged, UNCHANGED start,
         NEW e \in Int, e < total_files, Extract(e)
  PROVE  IInv'
<1>1. /\ i = total_files /\ total_files \in Nat /\ i \in Nat /\ Opened /\ ~Returned
      /\ start \in Int /\ end \in Nat /\ root \in Int
  BY DEF IInv, SortValid, TypeOK, Opened, Returned
<1>2. i' = i /\ total_files' = total_files /\ start' = start
  BY DEF SortUnchanged, loop
<1>3. CASE e > 0
  <2>1. indices' = Swapped(e, 0) /\ root' = 0 /\ end' = e /\ pc' = "extract"
    BY <1>3 DEF Extract
  <2>2. e \in 0 .. i - 1 /\ 0 \in 0 .. i - 1 /\ i # 0
    BY <1>1, <1>3
  <2>3. indices \in [0 .. i - 1 -> 0 .. i - 1]
        /\ \A a, b \in 0 .. i - 1 : indices[a] = indices[b] => a = b
    BY <1>1, <2>2 DEF IInv, SortKeepsFiles
  <2>4. indices' \in [0 .. i - 1 -> 0 .. i - 1]
        /\ \A a, b \in 0 .. i - 1 : indices'[a] = indices'[b] => a = b
    BY <1>1, <2>1, <2>2, <2>3, SwapKeepsFiles
  <2>5. SortKeepsFiles'
    BY <1>2, <2>4 DEF SortKeepsFiles
  <2>6. SortValid'
    BY <1>1, <1>2, <1>3, <2>1, <2>2 DEF SortValid
  <2>7. start' \in Int /\ end' \in Nat /\ root' \in Int
    BY <1>1, <1>2, <1>3, <2>1
  <2> QED
    BY <1>1, <2>1, <2>5, <2>6, <2>7, SortStepPreserves
<1>4. CASE ~(e > 0)
  <2>1. pc' = "open" /\ UNCHANGED <<indices, root, end>>
    BY <1>4 DEF Extract
  <2>2. SortKeepsFiles'
    BY <1>1, <1>2, <2>1 DEF IInv, SortKeepsFiles
  <2>3. SortValid'
    BY <1>1, <1>2, <2>1 DEF SortValid
  <2>4. start' \in Int /\ end' \in Nat /\ root' \in Int
    BY <1>1, <1>2, <2>1
  <2> QED
    BY <1>1, <2>1, <2>2, <2>3, <2>4, SortStepPreserves
<1> QED
  BY <1>3, <1>4

(* From one sift to the next while the heap is made,                       *)
LEMMA NextHeapPreserves ==
  ASSUME IInv, NextHeap
  PROVE  IInv'
<1>1. /\ pc = "heapify" /\ SortUnchanged /\ Opened /\ ~Returned
      /\ total_files \in Nat /\ start \in -1 .. total_files - 1 /\ i = total_files
      /\ end \in Nat
  BY DEF NextHeap, SortUnchanged, IInv, TypeOK, SortValid, Opened, Returned
<1>2. CASE start >= 0
  <2>1. start' = start - 1 /\ root' = start' /\ UNCHANGED <<pc, indices, end>>
    BY <1>2 DEF NextHeap
  <2>2. i' = i /\ total_files' = total_files
    BY <1>1 DEF SortUnchanged, loop
  <2>3. SortKeepsFiles'
    BY <1>1, <2>1, <2>2 DEF IInv, SortKeepsFiles, Opened
  <2>4. /\ start' \in -1 .. total_files - 1 /\ root' \in Int /\ start' \in Int
        /\ start' >= 0 => root' \in 0 .. total_files - 1
    BY <1>1, <1>2, <2>1
  <2>5. SortValid'
    BY <1>1, <2>1, <2>2, <2>4 DEF SortValid
  <2> QED
    BY <1>1, <2>1, <2>3, <2>4, <2>5, SortStepPreserves
<1>3. CASE ~(start >= 0)
  <2>1. Extract(total_files - 1) /\ UNCHANGED start
    BY <1>3 DEF NextHeap
  <2>2. total_files - 1 \in Int /\ total_files - 1 < total_files
    BY <1>1
  <2> QED
    BY <1>1, <2>1, <2>2, ExtractPreserves
<1> QED
  BY <1>2, <1>3

(* and while the heap is taken apart.                                      *)
LEMMA NextExtractPreserves ==
  ASSUME IInv, NextExtract
  PROVE  IInv'
<1>1. /\ pc = "extract" /\ SortUnchanged /\ UNCHANGED start
      /\ total_files \in Nat /\ end \in 1 .. total_files - 1 /\ Extract(end - 1)
  BY DEF NextExtract, SortUnchanged, IInv, TypeOK, SortValid
<1>2. end - 1 \in Int /\ end - 1 < total_files
  BY <1>1
<1> QED
  BY <1>1, <1>2, ExtractPreserves

-----------------------------------------------------------------------------
(* The calls of the client.                                                *)

(* A call changes nothing that later calls are answered from.              *)
LEMMA CallPreserves ==
  ASSUME IInv, Returned,
         UNCHANGED <<arc, pc, has_state, total_files, cur, loop, sort>>,
         entries' \in {entries, add_paths},
         pc = "refused" /\ answer'.call = "profile" => answer'.null
  PROVE  IInv'
<1>1. /\ UNCHANGED <<arc, pc, has_state, total_files, cur, i, n, p, offsets,
                     indices, start, end, root>>
  BY DEF loop, sort
<1>2. TypeOK' /\ ScanValid' /\ StateValid'
  BY <1>1 DEF IInv, TypeOK, ScanValid, StateValid, Opened
<1>3. DirectoryValid'
  BY DirectoryStays DEF IInv, Opened
<1>4. SortValid' /\ SortKeepsFiles'
  BY <1>1 DEF IInv, SortValid, SortKeepsFiles, Opened
<1>5. add_paths' = add_paths
  <2>1. \A k : Record(k)' = Record(k)
    BY <1>1 DEF Record, EndRecord
  <2>2. ASSUME NEW k PROVE get_filename(k)' = get_filename(k)
    <3>1. CASE has_state
      <4>1. has_state' /\ Record(k)' = Record(k)
        BY <1>1, <2>1, <3>1
      <4>2. get_filename(k)' =
              SubSeq(Record(k)'.name, 1, Min({Len(Record(k)'.name), NameBuf - 1}))
                \o <<0>>
        BY <4>1, Zenon DEF get_filename
      <4>3. get_filename(k) =
              SubSeq(Record(k).name, 1, Min({Len(Record(k).name), NameBuf - 1}))
                \o <<0>>
        BY <3>1, Zenon DEF get_filename
      <4> QED
        BY <4>1, <4>2, <4>3, Zenon
    <3>2. CASE ~has_state
      <4>1. ~has_state'
        BY <1>1, <3>2
      <4> QED
        BY <3>2, <4>1, Zenon DEF get_filename
    <3> QED
      BY <3>1, <3>2
  <2> QED
    BY <1>1, <2>2 DEF add_paths
<1>6. entries # << >> => entries = add_paths
  BY DEF IInv, AnswersValid
<1>7. AnswersValid'
  BY <1>1, <1>5, <1>6 DEF AnswersValid, Returned
<1> QED
  BY <1>2, <1>3, <1>4, <1>7 DEF IInv

(* A listing changes the paths and the answer.                             *)
LEMMA EntriesPreserves ==
  ASSUME IInv, Entries
  PROVE  IInv'
<1>1. entries' \in {entries, add_paths}
  BY DEF Entries, Listed
<1>2. answer'.call = "entries"
  BY DEF Entries
<1> QED
  BY <1>1, <1>2, CallPreserves DEF Entries

(* A refused archive has no state, so no file is found in it.              *)
LEMMA ProfilePreserves ==
  ASSUME IInv, NEW path, Profile(path)
  PROVE  IInv'
<1>1. ASSUME pc = "refused"
      PROVE  answer'.null
  <2>1. ~has_state
    BY <1>1 DEF IInv, StateValid, Opened
  <2>2. locate_file(c_str(path)) = -1
    BY <2>1 DEF locate_file
  <2>3. answer' = [call |-> "profile", path |-> path, file |-> -1, null |-> TRUE]
    BY <2>2 DEF Profile
  <2> QED
    BY <2>3
<1> QED
  BY <1>1, CallPreserves DEF Profile

(* Every step keeps the invariant.                                         *)
LEMMA StepPreserves == IInv /\ [Next]_vars => IInv'
<1> SUFFICES ASSUME IInv, [Next]_vars PROVE IInv'
  OBVIOUS
<1>1. CASE Open
  BY <1>1, OpenPreserves
<1>2. CASE Scan
  BY <1>2, ScanPreserves
<1>3. CASE ReadEndRecord
  BY <1>3, ReadEndRecordPreserves
<1>4. CASE ReadRecord
  BY <1>4, ReadRecordPreserves
<1>5. CASE StartSort
  BY <1>5, StartSortPreserves
<1>6. CASE SiftDown
  BY <1>6, SiftDownPreserves
<1>7. CASE NextHeap
  BY <1>7, NextHeapPreserves
<1>8. CASE NextExtract
  BY <1>8, NextExtractPreserves
<1>9. CASE Entries
  BY <1>9, EntriesPreserves
<1>10. CASE \E path \in Paths : Profile(path)
  BY <1>10, ProfilePreserves
<1>11. CASE UNCHANGED vars
  <2>1. UNCHANGED <<arc, cur, total_files, loop>>
    BY <1>11 DEF vars
  <2>2. Opened' = Opened
    BY <1>11 DEF vars, Opened
  <2>3. DirectoryValid'
    BY <2>1, <2>2, DirectoryStays DEF IInv
  <2>4. CASE Returned
    BY <1>11, <2>4, CallPreserves DEF vars, IInv, AnswersValid
  <2>5. CASE ~Returned
    <3>1. TypeOK' /\ ScanValid' /\ StateValid'
      BY <1>11 DEF vars, loop, sort, IInv, TypeOK, ScanValid, StateValid, Opened
    <3>2. SortValid' /\ SortKeepsFiles'
      BY <1>11 DEF vars, loop, sort, IInv, SortValid, SortKeepsFiles, Opened
    <3>3. AnswersValid'
      BY <1>11, <2>5 DEF vars, IInv, AnswersValid, Returned, NoAnswer
    <3> QED
      BY <2>3, <3>1, <3>2, <3>3 DEF IInv
  <2> QED
    BY <2>4, <2>5
<1> QED
  BY <1>1, <1>2, <1>3, <1>4, <1>5, <1>6, <1>7, <1>8, <1>9, <1>10, <1>11
     DEF Next, Constructor

-----------------------------------------------------------------------------
(* What holds in every reachable state.                                    *)

(* The inductive invariant of the constructor and the calls that follow    *)
(* it: miniz.c:3127-3278, zip.cc:9-72.                                     *)
THEOREM Invariance == Spec => []IInv
<1>1. Init => IInv
  BY InitEstablishes
<1>2. IInv /\ [Next]_vars => IInv'
  BY StepPreserves
<1> QED
  BY <1>1, <1>2, PTL DEF Spec

(* Every variable keeps its type.                                          *)
THEOREM TypeCorrect == Spec => []TypeOK
<1>1. IInv => TypeOK
  BY DEF IInv
<1> QED
  BY <1>1, Invariance, PTL

(* Whatever the archive says, an accepted record lies in the block the     *)
(* directory was read into, behind the one before it, and the local header *)
(* it points to lies in the archive.                                       *)
THEOREM DirectoryStaysInBounds == Spec => []DirectoryInBounds
<1>1. IInv => DirectoryInBounds
  <2> SUFFICES ASSUME IInv, Opened PROVE DirectoryInBounds
    BY DEF DirectoryInBounds
  <2>1. /\ n + p = EndRecord.cdir_size /\ n \in Nat /\ p \in Nat /\ i \in Nat
        /\ \A k \in 0 .. i - 1 :
             /\ offsets[k] + HeaderSize(Record(k)) = Ahead(k + 1)
             /\ Ahead(k + 1) <= p /\ InArchive(Record(k))
        /\ EndRecord.cdir_ofs + EndRecord.cdir_size <= arc.size
    BY DEF IInv, DirectoryValid, TypeOK, EndRecordAccepted
  <2>2. ASSUME NEW k \in 0 .. i - 1
        PROVE  /\ offsets[k] + HeaderSize(Record(k)) <= EndRecord.cdir_size
               /\ k + 1 < i => offsets[k + 1] = offsets[k] + HeaderSize(Record(k))
               /\ InArchive(Record(k))
    <3>1. Ahead(k + 1) \in Nat
      BY <2>1 DEF Ahead, IInv, TypeOK
    <3>2. EndRecord.cdir_size \in Nat
      BY EndRecordFacts DEF IInv, ScanValid
    <3>3. Ahead(k + 1) <= EndRecord.cdir_size
      BY <2>1, <3>1, <3>2
    <3>4. k + 1 < i => Ahead(k + 1) = offsets[k + 1]
      BY DEF Ahead
    <3> QED
      BY <2>1, <3>3, <3>4
  <2> QED
    BY <2>1, <2>2 DEF DirectoryInBounds
<1> QED
  BY <1>1, Invariance, PTL

(* The sorted directory is a permutation of the directory, throughout the  *)
(* sort.                                                                   *)
THEOREM SortPermutes == Spec => []SortKeepsFiles
<1>1. IInv => SortKeepsFiles
  BY DEF IInv
<1> QED
  BY <1>1, Invariance, PTL

(* The scan finds the last end record of the archive, for every size of    *)
(* the window, every place of the record and both widths of size_t.        *)
THEOREM LastRecordIsUsed == Spec => []LastRecordUsed
<1>1. IInv => LastRecordUsed
  <2> SUFFICES ASSUME IInv, pc = "end_record" \/ Opened
               PROVE  cur = Max(DOMAIN arc.ends)
    BY DEF LastRecordUsed, Opened
  <2>1. cur \in DOMAIN arc.ends /\ \A o \in DOMAIN arc.ends : o <= cur
    BY DEF IInv, ScanValid
  <2>2. DOMAIN arc.ends \subseteq Nat
    BY ArchiveFacts DEF IInv
  <2> QED
    BY <2>1, <2>2, MaxIsUnique
<1> QED
  BY <1>1, Invariance, PTL

-----------------------------------------------------------------------------
(* The names that entries returns.                                         *)
Zeros(path) == {k \in 1 .. Len(path) : path[k] = 0} \cup {Len(path) + 1}

(* A C string is the path before its first zero, or all of it.             *)
LEMMA CStringFacts ==
  ASSUME NEW path \in Seq(0..255)
  PROVE  /\ c_str(path) = SubSeq(path, 1, Min(Zeros(path)) - 1)
         /\ Min(Zeros(path)) \in Zeros(path)
         /\ \A k \in Zeros(path) : Min(Zeros(path)) <= k
         /\ Min(Zeros(path)) \in 1 .. Len(path) + 1
<1>1. Len(path) \in Nat /\ DOMAIN path = 1 .. Len(path)
  BY LenProperties
<1>2. Zeros(path) \subseteq Nat /\ Zeros(path) # {}
  BY <1>1 DEF Zeros
<1>3. /\ Min(Zeros(path)) \in Zeros(path)
      /\ \A k \in Zeros(path) : Min(Zeros(path)) <= k
  BY <1>2, MinIsLeast
<1>4. Min(Zeros(path)) \in 1 .. Len(path) + 1
  BY <1>1, <1>3 DEF Zeros
<1>5. c_str(path) = SubSeq(path, 1, Min(Zeros(path)) - 1)
  BY <1>1 DEF c_str, Zeros
<1> QED
  BY <1>3, <1>4, <1>5

(* The zero that ends a name adds nothing to its C string.                 *)
LEMMA TerminatedName ==
  ASSUME NEW name \in Seq(0..255)
  PROVE  c_str(name \o <<0>>) = c_str(name)
<1>0. PICK q, m : q = name \o <<0>> /\ m = Min(Zeros(name))
  OBVIOUS
<1>1. /\ Len(name) \in Nat /\ q \in Seq(0..255) /\ Len(q) = Len(name) + 1
      /\ \A k \in 1 .. Len(name) : q[k] = name[k]
      /\ q[Len(name) + 1] = 0
  <2>1. <<0>> \in Seq(0..255) /\ Len(<<0>>) = 1 /\ <<0>>[1] = 0
    OBVIOUS
  <2>2. Len(name) \in Nat
    BY LenProperties
  <2> QED
    BY <1>0, <2>1, <2>2, ConcatProperties
<1>2. /\ c_str(name) = SubSeq(name, 1, m - 1) /\ m \in Zeros(name)
      /\ \A k \in Zeros(name) : m <= k
      /\ m \in 1 .. Len(name) + 1
  BY <1>0, CStringFacts
<1>3. /\ c_str(q) = SubSeq(q, 1, Min(Zeros(q)) - 1)
      /\ Min(Zeros(q)) \in Zeros(q) /\ \A k \in Zeros(q) : Min(Zeros(q)) <= k
      /\ Min(Zeros(q)) \in 1 .. Len(q) + 1
  BY <1>1, CStringFacts
<1>4. Zeros(q) = Zeros(name) \cup {Len(name) + 2}
  BY <1>1 DEF Zeros
<1>5. Min(Zeros(q)) <= m
  BY <1>2, <1>3, <1>4
<1>6. Min(Zeros(q)) \in Zeros(name)
  BY <1>1, <1>2, <1>3, <1>4, <1>5
<1>7. Min(Zeros(q)) = m
  BY <1>1, <1>2, <1>3, <1>5, <1>6
<1>8. SubSeq(q, 1, m - 1) = SubSeq(name, 1, m - 1)
  <2>1. CASE m = 1
    BY <2>1, SubSeqEmpty
  <2>2. CASE m > 1
    <3>1. 1 \in 1 .. Len(name) /\ m - 1 \in 1 .. Len(name) /\ <<0>> \in Seq(0..255)
      BY <1>1, <1>2, <2>2
    <3> QED
      BY <1>0, <3>1, SubSeqOfConcat1
  <2> QED
    BY <1>1, <1>2, <2>1, <2>2
<1> QED
  BY <1>0, <1>2, <1>3, <1>7, <1>8

(* What entries returns are the names of the directory, or as many empty   *)
(* strings if the archive was refused, and no file of a refused archive    *)
(* has a profile.                                                          *)
THEOREM EntriesAreTheFiles == Spec => []EntriesAreFiles
<1>1. IInv => EntriesAreFiles
  <2> SUFFICES ASSUME IInv PROVE EntriesAreFiles
    OBVIOUS
  <2>1. pc = "refused" /\ answer.call = "profile" => answer.null
    BY DEF IInv, AnswersValid
  <2>2. ASSUME entries # << >>
        PROVE  /\ Len(entries) = total_files
               /\ \A k \in DOMAIN entries :
                    IF pc = "refused" THEN entries[k] = << >>
                    ELSE \/ c_str(entries[k]) = c_str(Record(k - 1).name)
                         \/ Len(Record(k - 1).name) >= NameBuf
    <3>1. /\ entries = [k \in 1..total_files |-> get_filename(k - 1)]
          /\ total_files \in Nat /\ Returned
      BY <2>2 DEF IInv, AnswersValid, TypeOK, add_paths
    <3>2. Len(entries) = total_files
      BY <3>1
    <3>3. ASSUME NEW k \in 1..total_files, pc = "refused"
          PROVE  entries[k] = << >>
      <4>1. ~has_state
        BY <3>3 DEF IInv, StateValid, Opened
      <4>2. get_filename(k - 1) = << >>
        BY <4>1, Zenon DEF get_filename
      <4> QED
        BY <3>1, <4>2
    <3>4. ASSUME NEW k \in 1..total_files, pc # "refused",
                 NEW name, name = Record(k - 1).name, ~(Len(name) >= NameBuf)
          PROVE  c_str(entries[k]) = c_str(name)
      <4>1. pc = "open" /\ has_state
        BY <3>1, <3>4 DEF Returned, IInv, StateValid, Opened
      <4>2. /\ cur \in DOMAIN arc.ends /\ total_files <= Len(EndRecord.records)
            /\ total_files = i
        BY <4>1 DEF Opened, IInv, ScanValid, DirectoryValid, SortValid
      <4>3. k - 1 \in Nat /\ k - 1 < Len(EndRecord.records)
        BY <3>1, <4>2, EndRecordFacts DEF IInv
      <4>4. Record(k - 1) \in Records
        BY <4>2, <4>3, EndRecordFacts DEF IInv
      <4>5. name \in Seq(0..255) /\ Len(name) \in Nat
        BY <3>4, <4>4, LenProperties DEF Records
      <4>6. Min({Len(name), NameBuf - 1}) = Len(name)
        <5>1. /\ {Len(name), NameBuf - 1} \subseteq Nat /\ {Len(name), NameBuf - 1} # {}
              /\ Len(name) <= NameBuf - 1
          BY <3>4, <4>5, SizesAssumption
        <5>2. /\ Min({Len(name), NameBuf - 1}) \in {Len(name), NameBuf - 1}
              /\ Min({Len(name), NameBuf - 1}) <= Len(name)
          BY <5>1, MinIsLeast
        <5> QED
          BY <4>5, <5>1, <5>2
      <4>7. get_filename(k - 1) =
              SubSeq(name, 1, Min({Len(name), NameBuf - 1})) \o <<0>>
        BY <3>4, <4>1, Zenon DEF get_filename
      <4>8. get_filename(k - 1) = name \o <<0>>
        BY <4>5, <4>6, <4>7, SubSeqFull
      <4> QED
        BY <3>1, <4>5, <4>8, TerminatedName
    <3>5. DOMAIN entries = 1..total_files
      BY <3>1
    <3> QED
      BY <3>2, <3>3, <3>4, <3>5
  <2> QED
    BY <2>1, <2>2 DEF EntriesAreFiles
<1> QED
  BY <1>1, Invariance, PTL

-----------------------------------------------------------------------------
(* The order of the names.  A name that ends before a position has the     *)
(* least of all letters there.                                             *)
key(name, k) == IF k \in 1 .. Len(name) THEN lower(name[k]) ELSE -1

Alike(l, r) == \A k \in Nat : key(l, k) = key(r, k)

Before(l, r) ==
  \E k \in Nat : /\ key(l, k) < key(r, k)
                 /\ \A j \in Nat : j < k => key(l, j) = key(r, j)

Names == Seq(0..255)

(* The key of a position is a lower-case letter, or -1 behind the end of   *)
(* the name.                                                               *)
LEMMA KeyFacts ==
  ASSUME NEW name \in Names, NEW k \in Nat
  PROVE  /\ key(name, k) \in Int
         /\ k \in 1 .. Len(name) =>
              key(name, k) = lower(name[k]) /\ key(name, k) >= 0
         /\ k \notin 1 .. Len(name) => key(name, k) = -1
<1>1. Len(name) \in Nat
  BY LenProperties DEF Names
<1>2. CASE k \in 1 .. Len(name)
  <2>1. name[k] \in 0..255
    BY <1>1, <1>2, ElementOfSeq DEF Names
  <2>2. lower(name[k]) \in Int /\ lower(name[k]) >= 0
    BY <2>1 DEF lower
  <2> QED
    BY <1>2, <2>2 DEF key
<1>3. CASE k \notin 1 .. Len(name)
  BY <1>3 DEF key
<1> QED
  BY <1>2, <1>3

(* filename_compare is that order.                                         *)
LEMMA CompareIsOrder ==
  ASSUME NEW l \in Names, NEW r \in Names
  PROVE  /\ filename_compare(l, r) \in Int
         /\ filename_compare(l, r) < 0 => Before(l, r)
         /\ filename_compare(l, r) = 0 => Alike(l, r)
         /\ filename_compare(l, r) > 0 => Before(r, l)
<1> SUFFICES ASSUME NEW a, a = Len(l), NEW b, b = Len(r),
                    NEW m, m = Min({a, b}),
                    NEW D, D = {k \in 1 .. m : lower(l[k]) # lower(r[k])},
                    NEW d, d = Min(D \cup {m + 1}),
                    NEW c, c = filename_compare(l, r)
             PROVE  /\ c \in Int
                    /\ c < 0 => Before(l, r)
                    /\ c = 0 => Alike(l, r)
                    /\ c > 0 => Before(r, l)
  OBVIOUS
<1>1. a \in Nat /\ b \in Nat
  BY LenProperties DEF Names
<1>2. m \in Nat /\ m <= a /\ m <= b /\ (m = a \/ m = b)
  <2>1. {a, b} \subseteq Nat /\ {a, b} # {}
    BY <1>1
  <2>2. m \in {a, b} /\ \A k \in {a, b} : m <= k
    BY <2>1, MinIsLeast
  <2> QED
    BY <1>1, <2>2
<1>3. d \in Nat /\ d \in D \cup {m + 1} /\ \A k \in D \cup {m + 1} : d <= k
  <2>1. D \cup {m + 1} \subseteq Nat /\ D \cup {m + 1} # {}
    BY <1>2
  <2>2. d \in D \cup {m + 1} /\ \A k \in D \cup {m + 1} : d <= k
    BY <2>1, MinIsLeast
  <2> QED
    BY <2>1, <2>2
<1>4. d \in 1 .. m + 1
  BY <1>2, <1>3
<1>5. ASSUME NEW j \in Nat, j < d PROVE key(l, j) = key(r, j)
  <2>1. CASE j = 0
    BY <1>1, <2>1, KeyFacts
  <2>2. CASE j # 0
    <3>1. j \in 1..m
      BY <1>2, <1>4, <1>5, <2>2
    <3>2. j \in 1..a /\ j \in 1..b
      BY <1>1, <1>2, <3>1
    <3>3. j \notin D
      <4>1. ASSUME j \in D PROVE d <= j
        BY <1>3, <4>1, Zenon
      <4>2. ~(d <= j)
        BY <1>3, <1>5
      <4> QED
        BY <4>1, <4>2
    <3>4. lower(l[j]) = lower(r[j])
      BY <3>1, <3>3
    <3> QED
      BY <3>2, <3>4, KeyFacts
  <2> QED
    BY <2>1, <2>2
<1>6. c = IF d > a \/ d > b THEN a - b ELSE lower(l[d]) - lower(r[d])
  BY DEF filename_compare, FirstDifference
<1>7. key(l, d) \in Int /\ key(r, d) \in Int
  BY <1>3, KeyFacts
<1>8. CASE d > a \/ d > b
  <2>1. d = m + 1
    BY <1>1, <1>2, <1>4, <1>8
  <2>2. c = a - b
    BY <1>6, <1>8
  <2>3. ASSUME c < 0 PROVE Before(l, r)
    <3>1. m = a /\ d \in 1..b /\ d \notin 1..a
      BY <1>1, <1>2, <2>1, <2>2, <2>3
    <3>2. key(l, d) = -1 /\ key(r, d) >= 0
      BY <1>3, <3>1, KeyFacts
    <3>3. key(l, d) < key(r, d)
      BY <1>7, <3>2
    <3> QED
      BY <1>3, <1>5, <3>3 DEF Before
  <2>4. ASSUME c > 0 PROVE Before(r, l)
    <3>1. m = b /\ d \in 1..a /\ d \notin 1..b
      BY <1>1, <1>2, <2>1, <2>2, <2>4
    <3>2. key(r, d) = -1 /\ key(l, d) >= 0
      BY <1>3, <3>1, KeyFacts
    <3>3. key(r, d) < key(l, d)
      BY <1>7, <3>2
    <3>4. \A j \in Nat : j < d => key(r, j) = key(l, j)
      BY <1>5
    <3> QED
      BY <1>3, <3>3, <3>4 DEF Before
  <2>5. ASSUME c = 0 PROVE Alike(l, r)
    <3>1. a = b /\ m = a
      BY <1>1, <1>2, <2>2, <2>5
    <3>2. ASSUME NEW k \in Nat PROVE key(l, k) = key(r, k)
      <4>1. CASE k < d
        BY <1>5, <4>1
      <4>2. CASE ~(k < d)
        <5>1. k \notin 1..a /\ k \notin 1..b
          BY <1>1, <2>1, <3>1, <4>2
        <5> QED
          BY <5>1, KeyFacts
      <4> QED
        BY <4>1, <4>2
    <3> QED
      BY <3>2 DEF Alike
  <2> QED
    BY <1>1, <2>2, <2>3, <2>4, <2>5
<1>9. CASE ~(d > a \/ d > b)
  <2>1. d \in 1..a /\ d \in 1..b /\ d # m + 1
    BY <1>1, <1>2, <1>4, <1>9
  <2>2. d \in D
    BY <1>3, <2>1
  <2>3. key(l, d) = lower(l[d]) /\ key(r, d) = lower(r[d])
    BY <1>3, <2>1, KeyFacts
  <2>4. c = key(l, d) - key(r, d) /\ key(l, d) # key(r, d)
    BY <1>6, <1>9, <2>2, <2>3
  <2>5. c \in Int /\ c # 0
    BY <1>7, <2>4
  <2>6. ASSUME c < 0 PROVE Before(l, r)
    <3>1. key(l, d) < key(r, d)
      BY <1>7, <2>4, <2>6
    <3> QED
      BY <1>3, <1>5, <3>1 DEF Before
  <2>7. ASSUME c > 0 PROVE Before(r, l)
    <3>1. key(r, d) < key(l, d)
      BY <1>7, <2>4, <2>7
    <3>2. \A j \in Nat : j < d => key(r, j) = key(l, j)
      BY <1>5
    <3> QED
      BY <1>3, <3>1, <3>2 DEF Before
  <2> QED
    BY <2>5, <2>6, <2>7
<1> QED
  BY <1>8, <1>9

(* The order is strict, and transitive with the names that differ in case. *)
LEMMA BeforeIsStrict ==
  ASSUME NEW l \in Names, NEW r \in Names, Before(l, r)
  PROVE  ~Before(r, l) /\ ~Alike(l, r)
<1>1. PICK k \in Nat : /\ key(l, k) < key(r, k)
                       /\ \A j \in Nat : j < k => key(l, j) = key(r, j)
  BY DEF Before
<1>2. key(l, k) \in Int /\ key(r, k) \in Int
  BY KeyFacts
<1>3. ~Alike(l, r)
  BY <1>1, <1>2 DEF Alike
<1>4. ASSUME Before(r, l) PROVE FALSE
  <2>1. PICK h \in Nat : /\ key(r, h) < key(l, h)
                         /\ \A j \in Nat : j < h => key(r, j) = key(l, j)
    BY <1>4 DEF Before
  <2>2. key(l, h) \in Int /\ key(r, h) \in Int
    BY KeyFacts
  <2>3. ~(h < k) /\ ~(k < h)
    BY <1>1, <1>2, <2>1, <2>2
  <2>4. h = k
    BY <2>3
  <2> QED
    BY <1>1, <1>2, <2>1, <2>2, <2>4
<1> QED
  BY <1>3, <1>4

(* The order of names is transitive, names alike included.                 *)
LEMMA BeforeIsTransitive ==
  ASSUME NEW l \in Names, NEW m \in Names, NEW r \in Names,
         Before(l, m) \/ Alike(l, m), Before(m, r) \/ Alike(m, r)
  PROVE  /\ Before(l, r) \/ Alike(l, r)
         /\ Before(l, m) \/ Before(m, r) => Before(l, r)
<1>1. CASE Alike(l, m) /\ Alike(m, r)
  <2>1. Alike(l, r)
    BY <1>1 DEF Alike
  <2>2. ~Before(l, m) /\ ~Before(m, r)
    BY <1>1, BeforeIsStrict
  <2> QED
    BY <2>1, <2>2
<1>2. CASE Before(l, m) /\ Alike(m, r)
  <2>1. \A k \in Nat : key(m, k) = key(r, k)
    BY <1>2 DEF Alike
  <2>2. Before(l, r)
    BY <1>2, <2>1 DEF Before
  <2> QED
    BY <2>2
<1>3. CASE Alike(l, m) /\ Before(m, r)
  <2>1. \A k \in Nat : key(l, k) = key(m, k)
    BY <1>3 DEF Alike
  <2>2. Before(l, r)
    BY <1>3, <2>1 DEF Before
  <2> QED
    BY <2>2
<1>4. CASE Before(l, m) /\ Before(m, r)
  <2>1. PICK k \in Nat : /\ key(l, k) < key(m, k)
                         /\ \A j \in Nat : j < k => key(l, j) = key(m, j)
    BY <1>4 DEF Before
  <2>2. PICK h \in Nat : /\ key(m, h) < key(r, h)
                         /\ \A j \in Nat : j < h => key(m, j) = key(r, j)
    BY <1>4 DEF Before
  <2>3. /\ key(l, k) \in Int /\ key(m, k) \in Int /\ key(r, k) \in Int
        /\ key(l, h) \in Int /\ key(m, h) \in Int /\ key(r, h) \in Int
    BY KeyFacts
  <2>4. CASE k < h
    <3>1. key(m, k) = key(r, k) /\ \A j \in Nat : j < k => key(m, j) = key(r, j)
      BY <2>2, <2>4
    <3>2. key(l, k) < key(r, k) /\ \A j \in Nat : j < k => key(l, j) = key(r, j)
      BY <2>1, <3>1
    <3> QED
      BY <3>2 DEF Before
  <2>5. CASE h < k
    <3>1. key(l, h) = key(m, h) /\ \A j \in Nat : j < h => key(l, j) = key(m, j)
      BY <2>1, <2>5
    <3>2. key(l, h) < key(r, h) /\ \A j \in Nat : j < h => key(l, j) = key(r, j)
      BY <2>2, <3>1
    <3> QED
      BY <3>2 DEF Before
  <2>6. CASE h = k
    <3>1. key(l, k) < key(r, k)
      BY <2>1, <2>2, <2>3, <2>6
    <3>2. \A j \in Nat : j < k => key(l, j) = key(r, j)
      BY <2>1, <2>2, <2>6
    <3> QED
      BY <3>1, <3>2 DEF Before
  <2> QED
    BY <2>4, <2>5, <2>6
<1> QED
  BY <1>1, <1>2, <1>3, <1>4

(* Names are alike if they are the same without case.                      *)
LEMMA AlikeIsSame ==
  ASSUME NEW l \in Names, NEW r \in Names
  PROVE  Alike(l, r) <=> Lowered(l) = Lowered(r)
<1> SUFFICES ASSUME NEW a, a = Len(l), NEW b, b = Len(r)
             PROVE  Alike(l, r) <=> Lowered(l) = Lowered(r)
  OBVIOUS
<1>1. a \in Nat /\ b \in Nat /\ DOMAIN l = 1..a /\ DOMAIN r = 1..b
  BY LenProperties DEF Names
<1>2. /\ Lowered(l) = [k \in 1..a |-> lower(l[k])]
      /\ Lowered(r) = [k \in 1..b |-> lower(r[k])]
  BY <1>1 DEF Lowered
<1>3. ASSUME Alike(l, r) PROVE Lowered(l) = Lowered(r)
  <2>1. \A k \in Nat : k \in 1..a <=> k \in 1..b
    <3>1. ASSUME NEW k \in Nat PROVE k \in 1..a <=> k \in 1..b
      <4>1. key(l, k) = key(r, k) /\ key(l, k) \in Int
        BY <1>3, KeyFacts DEF Alike
      <4>2. (k \in 1..a => key(l, k) >= 0) /\ (k \notin 1..a => key(l, k) = -1)
        BY KeyFacts
      <4>3. (k \in 1..b => key(r, k) >= 0) /\ (k \notin 1..b => key(r, k) = -1)
        BY KeyFacts
      <4> QED
        BY <4>1, <4>2, <4>3
    <3> QED
      BY <3>1
  <2>2. a = b
    <3>1. a > 0 => a \in 1..a /\ a \in 1..b
      BY <1>1, <2>1
    <3>2. b > 0 => b \in 1..b /\ b \in 1..a
      BY <1>1, <2>1
    <3> QED
      BY <1>1, <3>1, <3>2
  <2>3. ASSUME NEW k \in 1..a PROVE lower(l[k]) = lower(r[k])
    <3>1. k \in Nat /\ k \in 1..b
      BY <1>1, <2>2
    <3>2. key(l, k) = lower(l[k]) /\ key(r, k) = lower(r[k])
      BY <3>1, KeyFacts
    <3> QED
      BY <1>3, <3>1, <3>2 DEF Alike
  <2> QED
    BY <1>2, <2>2, <2>3
<1>4. ASSUME Lowered(l) = Lowered(r) PROVE Alike(l, r)
  <2>1. 1..a = 1..b
    BY <1>2, <1>4
  <2>2. ASSUME NEW k \in Nat PROVE key(l, k) = key(r, k)
    <3>1. CASE k \in 1..a
      <4>1. lower(l[k]) = lower(r[k])
        <5>1. Lowered(l)[k] = lower(l[k]) /\ Lowered(r)[k] = lower(r[k])
          BY <1>2, <2>1, <3>1
        <5> QED
          BY <1>4, <5>1
      <4> QED
        BY <2>1, <3>1, <4>1, KeyFacts
    <3>2. CASE k \notin 1..a
      BY <2>1, <3>2, KeyFacts
    <3> QED
      BY <3>1, <3>2
  <2> QED
    BY <2>2 DEF Alike
<1> QED
  BY <1>3, <1>4
-----------------------------------------------------------------------------
(* The heap.  Its order is the one of the names that the places hold.      *)
NameAt(a) == Record(indices[a]).name

(* Every position of the sorted indices has a name.                        *)
LEMMA NameInPlace ==
  ASSUME IInv, Opened, NEW a \in 0 .. i - 1
  PROVE  indices[a] \in 0 .. i - 1 /\ NameAt(a) \in Names
<1>1. i \in Nat /\ i # 0 /\ cur \in DOMAIN arc.ends /\ i <= Len(EndRecord.records)
  BY DEF IInv, TypeOK, ScanValid, DirectoryValid
<1>2. indices[a] \in 0 .. i - 1
  BY <1>1 DEF IInv, SortKeepsFiles
<1>3. Len(EndRecord.records) \in Nat
  BY <1>1, EndRecordFacts DEF IInv
<1>4. indices[a] \in Nat /\ indices[a] < Len(EndRecord.records)
  BY <1>1, <1>2, <1>3
<1>5. Record(indices[a]) \in Records
  BY <1>1, <1>4, EndRecordFacts DEF IInv
<1> QED
  BY <1>2, <1>5 DEF NameAt, Names, Records

(* The comparison of the sort is the order of names,                       *)
LEMMA InOrderIsOrder ==
  ASSUME IInv, Opened, NEW a \in 0 .. i - 1, NEW b \in 0 .. i - 1
  PROVE  InOrder(a, b) <=> Before(NameAt(a), NameAt(b)) \/ Alike(NameAt(a), NameAt(b))
<1>1. PICK l, r, c : /\ l = NameAt(a) /\ r = NameAt(b)
                     /\ c = filename_compare(r, l)
  OBVIOUS
<1>2. l \in Names /\ r \in Names
  BY <1>1, NameInPlace
<1>3. InOrder(a, b) <=> ~(c < 0)
  BY <1>1, Zenon DEF InOrder, filename_less, NameAt
<1>4. /\ c \in Int
      /\ c < 0 => Before(r, l)
      /\ c = 0 => Alike(r, l)
      /\ c > 0 => Before(l, r)
  BY <1>1, <1>2, CompareIsOrder
<1>5. Alike(r, l) <=> Alike(l, r)
  BY DEF Alike
<1>6. Before(r, l) => ~Before(l, r) /\ ~Alike(r, l)
  BY <1>2, BeforeIsStrict
<1>7. CASE c < 0
  BY <1>1, <1>3, <1>4, <1>5, <1>6, <1>7
<1>8. CASE ~(c < 0)
  <2>1. c = 0 \/ c > 0
    BY <1>4, <1>8
  <2> QED
    BY <1>1, <1>3, <1>4, <1>5, <1>8, <2>1
<1> QED
  BY <1>7, <1>8

(* so it is total,                                                         *)
LEMMA InOrderTotal ==
  ASSUME IInv, Opened, NEW a \in 0 .. i - 1, NEW b \in 0 .. i - 1
  PROVE  InOrder(a, b) \/ InOrder(b, a)
<1>1. PICK l, r, c : /\ l = NameAt(a) /\ r = NameAt(b)
                     /\ c = filename_compare(r, l)
  OBVIOUS
<1>2. l \in Names /\ r \in Names
  BY <1>1, NameInPlace
<1>3. c \in Int /\ (c < 0 => Before(r, l))
  BY <1>1, <1>2, CompareIsOrder
<1>4. InOrder(a, b) <=> ~(c < 0)
  BY <1>1, Zenon DEF InOrder, filename_less, NameAt
<1>5. InOrder(b, a) <=> Before(r, l) \/ Alike(r, l)
  BY <1>1, InOrderIsOrder
<1> QED
  BY <1>3, <1>4, <1>5

(* reflexive                                                               *)
LEMMA InOrderReflexive ==
  ASSUME IInv, Opened, NEW a \in 0 .. i - 1
  PROVE  InOrder(a, a)
BY InOrderTotal

(* and transitive.                                                         *)
LEMMA InOrderTransitive ==
  ASSUME IInv, Opened, NEW a \in 0 .. i - 1, NEW b \in 0 .. i - 1,
         NEW c \in 0 .. i - 1, InOrder(a, b), InOrder(b, c)
  PROVE  InOrder(a, c)
<1>1. NameAt(a) \in Names /\ NameAt(b) \in Names /\ NameAt(c) \in Names
  BY NameInPlace
<1>2. /\ Before(NameAt(a), NameAt(b)) \/ Alike(NameAt(a), NameAt(b))
      /\ Before(NameAt(b), NameAt(c)) \/ Alike(NameAt(b), NameAt(c))
  BY InOrderIsOrder
<1>3. Before(NameAt(a), NameAt(c)) \/ Alike(NameAt(a), NameAt(c))
  BY <1>1, <1>2, BeforeIsTransitive
<1> QED
  BY <1>3, InOrderIsOrder

(* A swap exchanges the places in the order of the names.                  *)
Other(a, x, y) == IF a = x THEN y ELSE IF a = y THEN x ELSE a

(* A swap exchanges two positions in every comparison,                     *)
LEMMA SwapExchanges ==
  ASSUME IInv, Opened, NEW x \in 0 .. i - 1, NEW y \in 0 .. i - 1,
         indices' = Swapped(x, y), UNCHANGED <<arc, cur>>,
         NEW a \in 0 .. i - 1, NEW b \in 0 .. i - 1
  PROVE  InOrder(a, b)' <=> InOrder(Other(a, x, y), Other(b, x, y))
<1>1. i \in Nat /\ i # 0
  BY DEF IInv, TypeOK
<1>2. indices \in [0 .. i - 1 -> 0 .. i - 1]
  BY <1>1 DEF IInv, SortKeepsFiles
<1>3. ASSUME NEW c \in 0 .. i - 1 PROVE indices'[c] = indices[Other(c, x, y)]
  BY <1>2 DEF Swapped, Other
<1>4. \A k : Record(k)' = Record(k)
  BY DEF Record, EndRecord
<1>5. ASSUME NEW k, NEW h PROVE filename_less(k, h)' <=> filename_less(k, h)
  BY <1>4, Zenon DEF filename_less
<1>6. PICK k, h : k = indices'[b] /\ h = indices'[a]
  OBVIOUS
<1>7. InOrder(a, b)' <=> ~filename_less(k, h)
  BY <1>4, <1>6, Zenon DEF InOrder, filename_less
<1>8. k = indices[Other(b, x, y)] /\ h = indices[Other(a, x, y)]
  BY <1>3, <1>6
<1> QED
  BY <1>7, <1>8 DEF InOrder

(* and the comparisons stay where nothing is swapped.                      *)
LEMMA OrderStays ==
  ASSUME UNCHANGED <<arc, cur, indices>>, NEW a, NEW b
  PROVE  InOrder(a, b)' <=> InOrder(a, b)
<1>1. \A k : Record(k)' = Record(k)
  BY DEF Record, EndRecord
<1> QED
  BY <1>1, Zenon DEF InOrder, filename_less

(* The child that the root is compared with is not before the other one.   *)
LEMMA ChildIsLargest ==
  ASSUME IInv, Opened, Limit \in Nat, Limit <= i, root \in 0 .. Limit - 1
  PROVE  /\ InPlace => \A d \in ChildrenOf(root) : InOrder(d, root)
         /\ ~InPlace => /\ Child \in ChildrenOf(root) /\ InOrder(root, Child)
                        /\ \A d \in ChildrenOf(root) : InOrder(d, Child)
<1> SUFFICES ASSUME NEW c, c = Child, NEW l, l = 2 * root + 1, NEW L, L = Limit
             PROVE  /\ InPlace => \A d \in ChildrenOf(root) : InOrder(d, root)
                    /\ ~InPlace => /\ c \in ChildrenOf(root) /\ InOrder(root, c)
                                   /\ \A d \in ChildrenOf(root) : InOrder(d, c)
  OBVIOUS
<1>1. /\ i \in Nat /\ L \in Nat /\ L <= i /\ root \in Nat /\ l \in Nat
      /\ root < l /\ root \in 0 .. i - 1
  BY DEF IInv, TypeOK
<1>2. ChildrenOf(root) = {l, l + 1} \cap 0 .. L - 1
  BY <1>1 DEF ChildrenOf
<1>3. c = IF l + 1 < L /\ filename_less(indices[l], indices[l + 1])
          THEN l + 1 ELSE l
  BY DEF Child
<1>4. InPlace <=> (l < L => InOrder(c, root))
  BY DEF InPlace, InOrder
<1>5. CASE ~(l < L)
  BY <1>1, <1>2, <1>4, <1>5
<1>6. CASE l < L
  <2>1. l \in 0 .. i - 1 /\ l \in ChildrenOf(root)
    BY <1>1, <1>2, <1>6
  <2>2. c \in ChildrenOf(root) /\ c \in 0 .. i - 1
    BY <1>1, <1>2, <1>3, <2>1
  <2>3. ASSUME NEW d \in ChildrenOf(root) PROVE d \in 0 .. i - 1 /\ InOrder(d, c)
    <3>1. d \in 0 .. i - 1 /\ (d = l \/ (d = l + 1 /\ l + 1 < L))
      BY <1>1, <1>2
    <3>2. CASE d = c
      BY <2>2, <3>1, <3>2, InOrderReflexive
    <3>3. CASE d # c /\ d = l
      <4>1. c = l + 1 /\ filename_less(indices[l], indices[l + 1])
        BY <1>3, <3>3
      <4>2. ~InOrder(c, d)
        BY <3>3, <4>1 DEF InOrder
      <4> QED
        BY <2>2, <3>1, <4>2, InOrderTotal
    <3>4. CASE d # c /\ d = l + 1
      <4>1. c = l /\ ~filename_less(indices[l], indices[l + 1])
        BY <1>1, <1>3, <3>1, <3>4
      <4> QED
        BY <3>1, <3>4, <4>1 DEF InOrder
    <3> QED
      BY <3>1, <3>2, <3>3, <3>4
  <2>4. ASSUME InPlace PROVE \A d \in ChildrenOf(root) : InOrder(d, root)
    <3>1. InOrder(c, root)
      BY <1>4, <1>6, <2>4
    <3> QED
      BY <1>1, <2>2, <2>3, <3>1, InOrderTransitive
  <2>5. ASSUME ~InPlace PROVE InOrder(root, c)
    <3>1. ~InOrder(c, root)
      BY <1>4, <2>5
    <3> QED
      BY <1>1, <2>2, <3>1, InOrderTotal
  <2> QED
    BY <2>2, <2>3, <2>4, <2>5
<1> QED
  BY <1>5, <1>6
(* Induction, with the set of the numbers for which the claim holds.       *)
LEMMA Induction ==
  ASSUME NEW T, 0 \in T, \A k \in Nat : k \in T => k + 1 \in T
  PROVE  \A k \in Nat : k \in T
<1> SUFFICES ASSUME NEW D, D = Nat \ T, D # {} PROVE FALSE
  OBVIOUS
<1>1. PICK m \in D : \A k \in D : m <= k
  BY LeastElement
<1>2. m # 0 /\ m - 1 \in Nat /\ m - 1 < m
  BY <1>1
<1>3. m - 1 \in T
  BY <1>1, <1>2
<1> QED
  BY <1>1, <1>2, <1>3

(* No name of a heap comes after the one at its top.                       *)
HeapOrdered == \A r \in 0 .. Limit - 1 : \A c \in ChildrenOf(r) : InOrder(c, r)

(* In a heap no name comes behind the one at the top.                      *)
LEMMA LargestAtTop ==
  ASSUME IInv, Opened, NEW L \in Nat, L = Limit, L <= i, HeapOrdered,
         NEW x \in 0 .. L - 1
  PROVE  InOrder(x, 0)
<1> SUFFICES ASSUME NEW T, T = {k \in Nat : \A a \in 0..k : a < L => InOrder(a, 0)}
             PROVE  InOrder(x, 0)
  OBVIOUS
<1>1. i \in Nat
  BY DEF IInv, TypeOK
<1>2. 0 \in T
  <2>1. ASSUME 0 < L PROVE InOrder(0, 0)
    <3>1. 0 \in 0 .. i - 1
      BY <1>1, <2>1
    <3> QED
      BY <3>1, InOrderReflexive
  <2>2. 0..0 = {0}
    OBVIOUS
  <2> QED
    BY <2>1, <2>2
<1>3. ASSUME NEW k \in Nat, k \in T PROVE k + 1 \in T
  <2>1. ASSUME k + 1 < L PROVE InOrder(k + 1, 0)
    <3>1. PICK r \in Nat : k + 1 \in {2 * r + 1, 2 * r + 2}
      <4>1. k \div 2 \in Nat /\ k + 1 \in {2 * (k \div 2) + 1, 2 * (k \div 2) + 2}
        OBVIOUS
      <4> QED
        BY <4>1
    <3>2. r \in 0..k /\ r < L /\ r \in 0 .. L - 1
      BY <2>1, <3>1
    <3>3. k + 1 \in ChildrenOf(r)
      BY <2>1, <3>1 DEF ChildrenOf
    <3>4. InOrder(k + 1, r)
      BY <3>2, <3>3 DEF HeapOrdered
    <3>5. InOrder(r, 0)
      BY <1>3, <3>2
    <3>6. k + 1 \in 0 .. i - 1 /\ r \in 0 .. i - 1 /\ 0 \in 0 .. i - 1
      BY <1>1, <2>1, <3>2
    <3> QED
      BY <3>4, <3>5, <3>6, InOrderTransitive
  <2>2. \A a \in 0 .. k + 1 : a \in 0..k \/ a = k + 1
    OBVIOUS
  <2> QED
    BY <1>3, <2>1, <2>2
<1>4. x \in Nat /\ x \in 0..x /\ x < L
  OBVIOUS
<1>5. x \in T
  BY <1>2, <1>3, <1>4, Induction
<1> QED
  BY <1>4, <1>5

(* Where the heap sort stands, while it runs.                              *)
LEMMA SortFacts ==
  ASSUME IInv, pc \in {"heapify", "extract"}
  PROVE  /\ Opened /\ ~Returned /\ i \in Nat /\ total_files = i
         /\ Limit \in Nat /\ Limit <= i
         /\ pc = "heapify" => Limit = i /\ start \in -1 .. i - 1
         /\ pc = "extract" => Limit = end /\ Limit > 0 /\ Limit < i
         /\ pc = "extract" \/ start >= 0 => root \in 0 .. Limit - 1
BY DEF IInv, TypeOK, SortValid, Opened, Returned, Limit

(* The second half of the names has no children.                           *)
LEMMA StartSortOrders ==
  ASSUME IInv, StartSort
  PROVE  HeapValid' /\ TailValid'
<1>1. /\ pc' = "heapify" /\ start' = (total_files - 2) \div 2 /\ root' = start'
      /\ total_files' = total_files /\ total_files \in Nat
  BY DEF StartSort, IInv, TypeOK
<1>2. PICK t, s : t \in Nat /\ t = total_files /\ s = start'
  BY <1>1
<1>3. s \in Int /\ s >= -1 /\ 2 * s + 3 >= t
  BY <1>1, <1>2
<1>4. Limit' = t
  BY <1>1, <1>2 DEF Limit
<1>5. HeapFrom' = IF s < 0 THEN 0 ELSE s
  BY <1>1, <1>2 DEF HeapFrom
<1>6. PICK f \in Nat : f = HeapFrom' /\ f >= s
  BY <1>3, <1>5
<1>7. ASSUME NEW r \in f .. t - 1, NEW c \in ChildrenOf(r)'
      PROVE  c # s /\ r = s
  <2>1. c \in {2 * r + 1, 2 * r + 2} /\ c \in 0 .. t - 1
    BY <1>4 DEF ChildrenOf
  <2>2. r \in Nat /\ r >= s
    BY <1>2, <1>3, <1>6
  <2>3. 2 * r + 1 < t /\ c > r
    BY <1>2, <2>1, <2>2
  <2>4. ~(r > s)
    <3>1. t \in Nat /\ s \in Int /\ r \in Nat /\ 2 * s + 3 >= t /\ 2 * r + 1 < t
      BY <1>2, <1>3, <2>2, <2>3
    <3>2. ASSUME r > s PROVE 2 * r + 1 >= 2 * s + 3
      BY <3>1, <3>2
    <3> QED
      BY <3>1, <3>2
  <2>5. r = s
    BY <1>3, <2>2, <2>4
  <2> QED
    BY <1>3, <2>1, <2>2, <2>3, <2>5
<1>8. HeapValid'
  <2>1. pc' = "heapify" /\ start' < 0 => root' = -1
    BY <1>1, <1>2, <1>3
  <2>2. ASSUME NEW r \in HeapFrom' .. Limit' - 1, NEW c \in ChildrenOf(r)'
        PROVE  /\ r # root' => InOrder(c, r)'
               /\ c = root' => \A d \in ChildrenOf(root)' : InOrder(d, r)'
    BY <1>1, <1>2, <1>4, <1>6, <1>7
  <2> QED
    BY <2>1, <2>2 DEF HeapValid
<1>9. TailValid'
  BY <1>1 DEF TailValid
<1> QED
  BY <1>8, <1>9

(* The larger child takes the place of the root; what was below it is not  *)
(* after it, and it is not after what was above the root.                  *)
LEMMA SiftDownOrders ==
  ASSUME IInv, HeapValid, TailValid, SiftDown
  PROVE  HeapValid' /\ TailValid'
<1>1. /\ pc = "extract" \/ (pc = "heapify" /\ start >= 0)
      /\ ~InPlace /\ indices' = Swapped(root, Child) /\ root' = Child
      /\ UNCHANGED <<pc, start, end, total_files, arc, cur>>
  BY DEF SiftDown
<1>2. PICK L, h, c, f : L = Limit /\ h = root /\ c = Child /\ f = HeapFrom
  OBVIOUS
<1>3. /\ Opened /\ i \in Nat /\ total_files = i /\ L \in Nat /\ L <= i
      /\ h \in 0 .. L - 1
      /\ pc = "heapify" => start \in -1 .. i - 1
      /\ pc = "extract" => L = end
  BY <1>1, <1>2, SortFacts
<1>4. /\ c \in ChildrenOf(h) /\ InOrder(h, c)
      /\ \A d \in ChildrenOf(h) : InOrder(d, c)
  BY <1>1, <1>2, <1>3, ChildIsLargest
<1>5. ASSUME NEW r \in Nat, NEW d \in ChildrenOf(r)
      PROVE  d \in {2 * r + 1, 2 * r + 2} /\ d \in 0 .. L - 1 /\ r < d
             /\ d \in 0 .. i - 1 /\ r \in 0 .. i - 1
  <2>1. d \in {2 * r + 1, 2 * r + 2} /\ d \in 0 .. L - 1
    BY <1>2 DEF ChildrenOf
  <2> QED
    BY <1>3, <2>1
<1>6. h \in Nat /\ h < c /\ c \in 0 .. L - 1
  BY <1>3, <1>4, <1>5
<1>7. f \in Nat /\ f' = f /\ HeapFrom' = f /\ Limit' = L
  BY <1>1, <1>2, <1>3 DEF HeapFrom, Limit
<1>8. /\ \A r : ChildrenOf(r)' = ChildrenOf(r)
  BY <1>2, <1>7 DEF ChildrenOf
<1>9. \A r \in f .. L - 1 : \A d \in ChildrenOf(r) :
         /\ r # h => InOrder(d, r)
         /\ d = h => \A x \in ChildrenOf(h) : InOrder(x, r)
  BY <1>1, <1>2 DEF HeapValid
<1>10. ASSUME NEW a \in 0 .. i - 1, NEW b \in 0 .. i - 1
       PROVE  InOrder(a, b)' <=> InOrder(Other(a, h, c), Other(b, h, c))
  <2>1. h \in 0 .. i - 1 /\ c \in 0 .. i - 1
    BY <1>3, <1>6
  <2> QED
    BY <1>1, <1>2, <1>3, <2>1, SwapExchanges
<1>11. ASSUME NEW r \in f .. L - 1, NEW d \in ChildrenOf(r), r # c
       PROVE  InOrder(d, r)'
  <2>1. /\ r \in Nat /\ d \in 0 .. i - 1 /\ r \in 0 .. i - 1 /\ r < d
        /\ d \in {2 * r + 1, 2 * r + 2}
    BY <1>5, <1>7
  <2>2. InOrder(Other(d, h, c), Other(r, h, c))
    <3>1. CASE r = h
      <4>1. Other(r, h, c) = c
        BY <3>1 DEF Other
      <4>2. CASE d = c
        <5>1. Other(d, h, c) = h
          BY <1>6, <4>2 DEF Other
        <5> QED
          BY <1>4, <4>1, <5>1
      <4>3. CASE d # c
        <5>1. Other(d, h, c) = d
          BY <2>1, <3>1, <4>3 DEF Other
        <5> QED
          BY <1>4, <3>1, <4>1, <5>1
      <4> QED
        BY <4>2, <4>3
    <3>2. CASE r # h
      <4>1. Other(r, h, c) = r
        BY <1>11, <3>2 DEF Other
      <4>2. CASE d = h
        <5>1. Other(d, h, c) = c
          BY <4>2 DEF Other
        <5>2. InOrder(c, r)
          BY <1>4, <1>9, <4>2
        <5> QED
          BY <4>1, <5>1, <5>2
      <4>3. CASE d # h
        <5>1. d # c
          <6>1. c \in {2 * h + 1, 2 * h + 2}
            BY <1>4, <1>5, <1>6
          <6> QED
            BY <1>6, <2>1, <3>2, <6>1
        <5>2. Other(d, h, c) = d
          BY <4>3, <5>1 DEF Other
        <5>3. InOrder(d, r)
          BY <1>9, <3>2
        <5> QED
          BY <4>1, <5>2, <5>3
      <4> QED
        BY <4>2, <4>3
    <3> QED
      BY <3>1, <3>2
  <2> QED
    BY <1>10, <2>1, <2>2
<1>12. ASSUME NEW r \in f .. L - 1, c \in ChildrenOf(r), NEW d \in ChildrenOf(c)
       PROVE  InOrder(d, r)'
  <2>1. /\ r \in Nat /\ r \in 0 .. i - 1 /\ c \in {2 * r + 1, 2 * r + 2}
        /\ c \in {2 * h + 1, 2 * h + 2} /\ d \in 0 .. i - 1 /\ c < d /\ c \in Nat
    BY <1>4, <1>5, <1>6, <1>7, <1>12
  <2>2. r = h
    BY <1>6, <2>1
  <2>3. c \in f .. L - 1 /\ c # h
    BY <1>6, <1>7, <2>2
  <2>4. InOrder(d, c)
    BY <1>9, <2>3
  <2>5. Other(d, h, c) = d /\ Other(r, h, c) = c
    BY <1>6, <2>1, <2>2 DEF Other
  <2> QED
    BY <1>10, <2>1, <2>4, <2>5
<1>13. HeapValid'
  <2>1. ~(pc' = "heapify" /\ start' < 0)
    BY <1>1, <1>3
  <2>2. root' = c
    BY <1>1, <1>2
  <2>3. ASSUME NEW r \in HeapFrom' .. Limit' - 1, NEW d \in ChildrenOf(r)'
        PROVE  /\ r # root' => InOrder(d, r)'
               /\ d = root' => \A x \in ChildrenOf(root)' : InOrder(x, r)'
    <3>1. r \in f .. L - 1 /\ d \in ChildrenOf(r)
      BY <1>7, <1>8
    <3>2. ChildrenOf(root)' = ChildrenOf(c)
      BY <1>7, <1>8, <2>2 DEF ChildrenOf
    <3> QED
      BY <1>11, <1>12, <2>2, <3>1, <3>2
  <2> QED
    BY <2>1, <2>3 DEF HeapValid
<1>14. TailValid'
  <2>1. CASE pc = "extract"
    <3>1. /\ end' = L /\ pc' = "extract" /\ total_files' = i
          /\ \A b \in L .. i - 1 : \A a \in 0..b : InOrder(a, b)
      BY <1>1, <1>3, <2>1 DEF TailValid
    <3>2. ASSUME NEW b \in L .. i - 1, NEW a \in 0..b PROVE InOrder(a, b)'
      <4>1. b \in 0 .. i - 1 /\ a \in 0 .. i - 1
        BY <1>3
      <4>2. Other(b, h, c) = b /\ Other(a, h, c) \in 0..b
        BY <1>3, <1>6 DEF Other
      <4>3. InOrder(Other(a, h, c), b)
        BY <3>1, <4>2
      <4> QED
        BY <1>10, <4>1, <4>2, <4>3
    <3> QED
      BY <3>1, <3>2 DEF TailValid
  <2>2. CASE pc # "extract"
    BY <1>1, <2>2 DEF TailValid
  <2> QED
    BY <2>1, <2>2
<1> QED
  BY <1>13, <1>14
(* The largest name goes in front of those that went before, all of them   *)
(* names that none of the heap comes after.                                *)
LEMMA ExtractOrders ==
  ASSUME IInv, HeapValid, TailValid, pc \in {"heapify", "extract"},
         UNCHANGED <<arc, cur, total_files>>, HeapOrdered,
         NEW e \in Int, e = Limit - 1, Extract(e)
  PROVE  HeapValid' /\ TailValid'
<1>1. PICK L : L = Limit
  OBVIOUS
<1>2. /\ Opened /\ i \in Nat /\ total_files = i /\ L \in Nat /\ L <= i /\ e = L - 1
      /\ pc = "heapify" => L = i
      /\ pc = "extract" => L = end /\ L > 0
  BY <1>1, SortFacts
<1>3. \A b \in L .. i - 1 : \A a \in 0..b : InOrder(a, b)
  BY <1>2 DEF TailValid
<1>4. CASE e > 0
  <2>1. /\ indices' = Swapped(e, 0) /\ root' = 0 /\ end' = e /\ pc' = "extract"
        /\ total_files' = i
    BY <1>2, <1>4 DEF Extract
  <2>2. e \in 0 .. i - 1 /\ 0 \in 0 .. i - 1 /\ e \in Nat
    BY <1>2, <1>4
  <2>3. ASSUME NEW a \in 0 .. i - 1, NEW b \in 0 .. i - 1
        PROVE  InOrder(a, b)' <=> InOrder(Other(a, e, 0), Other(b, e, 0))
    BY <1>2, <2>1, <2>2, SwapExchanges
  <2>4. Limit' = e /\ HeapFrom' = 0
    BY <2>1 DEF Limit, HeapFrom
  <2>5. ASSUME NEW r \in 0 .. e - 1, NEW c \in ChildrenOf(r)'
        PROVE  c # 0 /\ (r # 0 => InOrder(c, r)')
    <3>1. c \in {2 * r + 1, 2 * r + 2} /\ c \in 0 .. e - 1
      BY <2>4 DEF ChildrenOf
    <3>2. c \in 0 .. L - 1 /\ r \in 0 .. L - 1 /\ c \in 0 .. i - 1 /\ r \in 0 .. i - 1
      BY <1>2, <2>2, <3>1
    <3>3. InOrder(c, r)
      BY <1>1, <3>1, <3>2 DEF HeapOrdered, ChildrenOf
    <3>4. c # 0 /\ c # e /\ r # e
      BY <2>2, <3>1
    <3>5. r # 0 => Other(c, e, 0) = c /\ Other(r, e, 0) = r
      BY <3>4 DEF Other
    <3> QED
      BY <2>3, <3>2, <3>3, <3>4, <3>5
  <2>6. HeapValid'
    BY <2>1, <2>4, <2>5 DEF HeapValid
  <2>7. ASSUME NEW b \in e .. i - 1, NEW a \in 0..b PROVE InOrder(a, b)'
    <3>1. /\ b \in 0 .. i - 1 /\ a \in 0 .. i - 1
          /\ Other(a, e, 0) \in 0..b /\ Other(a, e, 0) \in 0 .. i - 1
      BY <1>2, <2>2 DEF Other
    <3>2. CASE b = e
      <4>1. Other(b, e, 0) = 0
        BY <3>2 DEF Other
      <4>2. Other(a, e, 0) \in 0 .. L - 1
        BY <1>2, <3>1, <3>2
      <4>3. InOrder(Other(a, e, 0), 0)
        BY <1>1, <1>2, <4>2, LargestAtTop
      <4> QED
        BY <2>3, <3>1, <4>1, <4>3
    <3>3. CASE b # e
      <4>1. Other(b, e, 0) = b /\ b \in L .. i - 1
        BY <1>2, <1>4, <2>2, <3>3 DEF Other
      <4>2. InOrder(Other(a, e, 0), b)
        BY <1>3, <3>1, <4>1
      <4> QED
        BY <2>3, <3>1, <4>1, <4>2
    <3> QED
      BY <3>2, <3>3
  <2>8. TailValid'
    BY <2>1, <2>7 DEF TailValid
  <2> QED
    BY <2>6, <2>8
<1>5. CASE ~(e > 0)
  <2>1. pc' = "open" /\ UNCHANGED indices /\ total_files' = i
    BY <1>2, <1>5 DEF Extract
  <2>2. HeapValid'
    BY <2>1 DEF HeapValid
  <2>3. ASSUME NEW b \in 0 .. i - 1, NEW a \in 0..b PROVE InOrder(a, b)'
    <3>1. InOrder(a, b)
      <4>1. CASE b \in L .. i - 1
        BY <1>3, <4>1
      <4>2. CASE b \notin L .. i - 1
        <5>1. a = b
          BY <1>2, <1>5, <4>2
        <5> QED
          BY <1>2, <5>1, InOrderReflexive
      <4> QED
        BY <4>1, <4>2
    <3> QED
      BY <2>1, <3>1, OrderStays
  <2>4. TailValid'
    BY <2>1, <2>3 DEF TailValid
  <2> QED
    BY <2>2, <2>4
<1> QED
  BY <1>4, <1>5

(* A root that is in its place completes the heap from there on.           *)
LEMMA RootInPlace ==
  ASSUME IInv, HeapValid, pc = "extract" \/ (pc = "heapify" /\ start >= 0), InPlace
  PROVE  \A r \in HeapFrom .. Limit - 1 : \A c \in ChildrenOf(r) : InOrder(c, r)
<1>1. Opened /\ Limit \in Nat /\ Limit <= i /\ root \in 0 .. Limit - 1
  BY SortFacts
<1>2. \A c \in ChildrenOf(root) : InOrder(c, root)
  BY <1>1, ChildIsLargest
<1> QED
  BY <1>2 DEF HeapValid

(* The next sift of the first phase begins one position down with a heap   *)
(* behind it.                                                              *)
LEMMA NextHeapOrders ==
  ASSUME IInv, HeapValid, TailValid, NextHeap
  PROVE  HeapValid' /\ TailValid'
<1>1. /\ pc = "heapify" /\ UNCHANGED <<arc, cur, total_files>>
  BY DEF NextHeap
<1>2. /\ i \in Nat /\ total_files = i /\ Limit = i /\ start \in -1 .. i - 1
  BY <1>1, SortFacts
<1>3. CASE start >= 0
  <2>1. /\ InPlace /\ start' = start - 1 /\ root' = start'
        /\ UNCHANGED <<pc, indices, end>>
    BY <1>3 DEF NextHeap
  <2>2. PICK s \in Nat : s = start /\ HeapFrom = s
    BY <1>1, <1>2, <1>3 DEF HeapFrom
  <2>3. \A r \in s .. i - 1 : \A c \in ChildrenOf(r) : InOrder(c, r)
    BY <1>1, <1>2, <1>3, <2>1, <2>2, RootInPlace
  <2>4. Limit' = i /\ \A r : ChildrenOf(r)' = ChildrenOf(r)
    BY <1>1, <1>2, <2>1 DEF Limit, ChildrenOf
  <2>5. HeapFrom' = (IF s = 0 THEN 0 ELSE s - 1) /\ root' = s - 1
    BY <1>1, <2>1, <2>2 DEF HeapFrom
  <2>6. ASSUME NEW r \in HeapFrom' .. i - 1, NEW c \in ChildrenOf(r)
        PROVE  c # root' /\ (r # root' => InOrder(c, r)')
    <3>1. c \in {2 * r + 1, 2 * r + 2} /\ r \in Nat
      BY <2>2, <2>5 DEF ChildrenOf
    <3>2. c # root'
      BY <2>5, <3>1
    <3>3. r # root' => r \in s .. i - 1
      BY <2>2, <2>5, <3>1
    <3>4. InOrder(c, r)' <=> InOrder(c, r)
      BY <1>1, <2>1, OrderStays
    <3> QED
      BY <2>3, <3>2, <3>3, <3>4
  <2>7. pc' = "heapify" /\ start' < 0 => root' = -1
    BY <1>2, <2>1, <2>2, <2>5
  <2>8. HeapValid'
    BY <2>4, <2>6, <2>7 DEF HeapValid
  <2>9. TailValid'
    BY <1>1, <2>1 DEF TailValid
  <2> QED
    BY <2>8, <2>9
<1>4. CASE ~(start >= 0)
  <2>1. Extract(total_files - 1)
    BY <1>4 DEF NextHeap
  <2>2. HeapFrom = 0 /\ root = -1
    BY <1>1, <1>2, <1>4 DEF HeapFrom, HeapValid
  <2>3. HeapOrdered
    <3>1. \A r \in 0 .. Limit - 1 : r # root
      BY <2>2
    <3> QED
      BY <1>1, <2>2, <3>1 DEF HeapOrdered, HeapValid
  <2>4. total_files - 1 \in Int /\ total_files - 1 = Limit - 1
    BY <1>2
  <2> QED
    BY <1>1, <2>1, <2>3, <2>4, ExtractOrders
<1> QED
  BY <1>3, <1>4

(* The largest name left goes to the front of the tail, and the rest is a  *)
(* heap but for its top.                                                   *)
LEMMA NextExtractOrders ==
  ASSUME IInv, HeapValid, TailValid, NextExtract
  PROVE  HeapValid' /\ TailValid'
<1>1. /\ pc = "extract" /\ InPlace /\ Extract(end - 1)
      /\ UNCHANGED <<arc, cur, total_files>>
  BY DEF NextExtract
<1>2. Limit \in Nat /\ Limit = end /\ end - 1 \in Int /\ end - 1 = Limit - 1
  BY <1>1, SortFacts
<1>3. HeapOrdered
  <2>1. HeapFrom = 0
    BY <1>1 DEF HeapFrom
  <2> QED
    BY <1>1, <2>1, RootInPlace DEF HeapOrdered
<1> QED
  BY <1>1, <1>2, <1>3, ExtractOrders

(* The sort: every step of it keeps the heap and what is behind it in      *)
(* order, and nothing else changes them.                                   *)
LEMMA StepKeepsOrder ==
  ASSUME IInv, HeapValid, TailValid, [Next]_vars
  PROVE  HeapValid' /\ TailValid'
<1>1. CASE StartSort
  BY <1>1, StartSortOrders
<1>2. CASE SiftDown
  BY <1>2, SiftDownOrders
<1>3. CASE NextHeap
  BY <1>3, NextHeapOrders
<1>4. CASE NextExtract
  BY <1>4, NextExtractOrders
<1>5. CASE Open \/ Scan \/ ReadEndRecord \/ ReadRecord
  <2>1. pc' \in {"new", "scan", "end_record", "records", "refused"}
    BY <1>5 DEF Open, Refuse, Scan, ReadEndRecord, ReadRecord
  <2> QED
    BY <2>1 DEF HeapValid, TailValid
<1>6. CASE Entries \/ (\E path \in Paths : Profile(path)) \/ UNCHANGED vars
  <2>1. UNCHANGED <<arc, pc, total_files, cur, indices, start, end, root>>
    BY <1>6 DEF Entries, Profile, vars, sort
  <2>2. Limit' = Limit /\ HeapFrom' = HeapFrom
    BY <2>1 DEF Limit, HeapFrom
  <2>3. \A r : ChildrenOf(r)' = ChildrenOf(r)
    BY <2>2 DEF ChildrenOf
  <2>4. ASSUME NEW a, NEW b PROVE InOrder(a, b)' <=> InOrder(a, b)
    BY <2>1, OrderStays
  <2>5. HeapValid'
    BY <2>1, <2>2, <2>3, <2>4 DEF HeapValid
  <2>6. TailValid'
    BY <2>1, <2>4 DEF TailValid
  <2> QED
    BY <2>5, <2>6
<1> QED
  BY <1>1, <1>2, <1>3, <1>4, <1>5, <1>6 DEF Next, Constructor
-----------------------------------------------------------------------------
(* The search.  A permutation leaves no file out.                          *)
LEMMA EveryFileHasPlace ==
  ASSUME NEW m \in Nat, NEW f \in [0 .. m - 1 -> 0 .. m - 1],
         \A a, b \in 0 .. m - 1 : f[a] = f[b] => a = b,
         NEW k \in 0 .. m - 1
  PROVE  \E a \in 0 .. m - 1 : f[a] = k
<1> SUFFICES ASSUME \A a \in 0 .. m - 1 : f[a] # k,
                    NEW S, S = 0 .. m - 1, NEW T, T = S \ {k}
             PROVE  FALSE
  OBVIOUS
<1>1. IsFiniteSet(S) /\ Cardinality(S) = m
  <2>1. 0 \in Int /\ m - 1 \in Int /\ 0 <= m - 1
    OBVIOUS
  <2>2. IsFiniteSet(0 .. m - 1) /\ Cardinality(0 .. m - 1) = (m - 1) - 0 + 1
    BY <2>1, FS_Interval
  <2> QED
    BY <2>2
<1>2. IsFiniteSet(T) /\ Cardinality(T) = m - 1
  <2>1. /\ IsFiniteSet(S \ {k})
        /\ Cardinality(S \ {k}) =
             IF k \in S THEN Cardinality(S) - 1 ELSE Cardinality(S)
    BY <1>1, FS_RemoveElement
  <2>2. k \in S
    OBVIOUS
  <2> QED
    BY <1>1, <2>1, <2>2
<1>3. f \in [S -> T]
  OBVIOUS
<1>4. Cardinality(S) > Cardinality(T)
  BY <1>1, <1>2
<1>5. \E a, b \in S : a # b /\ f[a] = f[b]
  BY <1>1, <1>2, <1>3, <1>4, FS_PigeonHole
<1> QED
  BY <1>5

(* The ranges that the loop of the search leaves.                          *)
Whole == [l |-> 0, h |-> total_files - 1]

NarrowsUpTo(f, path, m) ==
  f = [k \in 0..m |-> IF k = 0 THEN Whole ELSE Narrowed(f[k - 1], path)]

(* The recursive function of the search exists for every number of probes. *)
LEMMA NarrowingExists ==
  ASSUME NEW path, NEW m \in Nat
  PROVE  \E f : NarrowsUpTo(f, path, m)
<1> SUFFICES ASSUME NEW T, T = {k \in Nat : \E f : NarrowsUpTo(f, path, k)}
             PROVE  \E f : NarrowsUpTo(f, path, m)
  OBVIOUS
<1>1. 0 \in T
  <2>1. NarrowsUpTo([k \in 0..0 |-> Whole], path, 0)
    BY DEF NarrowsUpTo
  <2> QED
    BY <2>1
<1>2. ASSUME NEW j \in Nat, j \in T PROVE j + 1 \in T
  <2>1. PICK f : NarrowsUpTo(f, path, j)
    BY <1>2
  <2>2. PICK g : g = [k \in 0 .. j + 1 |->
                        IF k = 0 THEN Whole ELSE Narrowed(f[k - 1], path)]
    OBVIOUS
  <2>3. ASSUME NEW k \in 0..j PROVE g[k] = f[k]
    BY <2>1, <2>2 DEF NarrowsUpTo
  <2>4. ASSUME NEW k \in 0 .. j + 1, k # 0
        PROVE  Narrowed(g[k - 1], path) = Narrowed(f[k - 1], path)
    <3>1. k - 1 \in 0..j
      BY <2>4
    <3>2. g[k - 1] = f[k - 1]
      BY <2>3, <3>1
    <3> QED
      BY <3>2, Zenon
  <2>5. g = [k \in 0 .. j + 1 |->
               IF k = 0 THEN Whole ELSE Narrowed(g[k - 1], path)]
    BY <2>2, <2>4
  <2>6. NarrowsUpTo(g, path, j + 1)
    BY <2>5, Zenon DEF NarrowsUpTo
  <2> QED
    BY <2>6
<1> QED
  BY <1>1, <1>2, Induction

(* What is known of the names outside a range: those in front of it come   *)
(* before the path and those behind it after the path.                     *)
Excludes(w, path) ==
  /\ w \in [l : Int, h : Int] /\ 0 <= w.l /\ w.h < total_files
  /\ \A a \in 0 .. total_files - 1 :
       /\ a < w.l => Before(NameAt(a), path)
       /\ a > w.h => Before(path, NameAt(a))

(* A probe leaves out no position that could hold the name, and makes the  *)
(* window smaller.                                                         *)
LEMMA SearchStep ==
  ASSUME IInv, TailValid, pc = "open", NEW path \in Names,
         NEW w, Excludes(w, path), NEW left \in Nat,
         w.l > w.h \/ Compared(w, path) = 0 \/ w.h - w.l < left + 1,
         NEW v, v = Narrowed(w, path)
  PROVE  /\ Excludes(v, path)
         /\ v.l > v.h \/ Compared(v, path) = 0 \/ v.h - v.l < left
<1>1. /\ Opened /\ i \in Nat /\ total_files = i
  BY DEF Opened, IInv, TypeOK, SortValid
<1>2. CASE w.l > w.h \/ Compared(w, path) = 0
  <2>1. v = w
    BY <1>2 DEF Narrowed
  <2> QED
    BY <1>2, <2>1
<1>3. CASE ~(w.l > w.h \/ Compared(w, path) = 0)
  <2>1. PICK l, h, m, c : /\ l = w.l /\ h = w.h /\ m = Middle(w)
                          /\ c = Compared(w, path)
    OBVIOUS
  <2>2. /\ w \in [l : Int, h : Int] /\ l \in Int /\ h \in Int /\ 0 <= l /\ h < i
        /\ l <= h /\ h - l < left + 1 /\ c # 0
    BY <1>1, <1>3, <2>1 DEF Excludes
  <2>3. m \in 0 .. i - 1 /\ l <= m /\ m <= h
    <3>1. m = (l + h) \div 2
      BY <2>1 DEF Middle
    <3> QED
      BY <1>1, <2>2, <3>1
  <2>4. c = filename_compare(NameAt(m), path)
    BY <2>1, Zenon DEF Compared, NameAt
  <2>5. NameAt(m) \in Names
    BY <1>1, <2>3, NameInPlace
  <2>6. c \in Int /\ (c < 0 => Before(NameAt(m), path))
        /\ (c > 0 => Before(path, NameAt(m)))
    BY <2>4, <2>5, CompareIsOrder
  <2>7. /\ \A a \in 0 .. i - 1 : /\ a < l => Before(NameAt(a), path)
                                 /\ a > h => Before(path, NameAt(a))
    BY <1>1, <2>1 DEF Excludes
  <2>8. \A b \in 0 .. i - 1 : \A a \in 0..b : InOrder(a, b)
    BY <1>1 DEF TailValid
  <2>9. CASE c < 0
    <3>1. v = [w EXCEPT !.l = m + 1]
      BY <1>3, <2>1, <2>9 DEF Narrowed
    <3>2. v \in [l : Int, h : Int] /\ v.l = m + 1 /\ v.h = h
      BY <2>1, <2>2, <2>3, <3>1
    <3>3. ASSUME NEW a \in 0 .. i - 1, a < m + 1 PROVE Before(NameAt(a), path)
      <4>1. a \in 0..m
        BY <2>3, <3>3
      <4>2. InOrder(a, m) /\ NameAt(a) \in Names
        BY <1>1, <2>3, <2>8, <4>1, NameInPlace
      <4>3. Before(NameAt(a), NameAt(m)) \/ Alike(NameAt(a), NameAt(m))
        BY <1>1, <2>3, <4>2, InOrderIsOrder
      <4> QED
        BY <2>5, <2>6, <2>9, <4>2, <4>3, BeforeIsTransitive
    <3>4. Excludes(v, path)
      BY <1>1, <2>2, <2>3, <2>7, <3>2, <3>3 DEF Excludes
    <3>5. v.h - v.l < left
      BY <2>2, <2>3, <3>2
    <3> QED
      BY <3>4, <3>5
  <2>10. CASE ~(c < 0)
    <3>0. c > 0
      BY <2>2, <2>6, <2>10
    <3>1. v = [w EXCEPT !.h = m - 1]
      BY <1>3, <2>1, <2>10 DEF Narrowed
    <3>2. v \in [l : Int, h : Int] /\ v.l = l /\ v.h = m - 1
      BY <2>1, <2>2, <2>3, <3>1
    <3>3. ASSUME NEW a \in 0 .. i - 1, a > m - 1 PROVE Before(path, NameAt(a))
      <4>1. m \in 0..a
        BY <2>3, <3>3
      <4>2. InOrder(m, a) /\ NameAt(a) \in Names
        BY <1>1, <2>3, <2>8, <4>1, NameInPlace
      <4>3. Before(NameAt(m), NameAt(a)) \/ Alike(NameAt(m), NameAt(a))
        BY <1>1, <2>3, <4>2, InOrderIsOrder
      <4> QED
        BY <2>5, <2>6, <3>0, <4>2, <4>3, BeforeIsTransitive
    <3>4. Excludes(v, path)
      BY <1>1, <2>2, <2>3, <2>7, <3>2, <3>3 DEF Excludes
    <3>5. v.h - v.l < left
      BY <2>2, <2>3, <3>2
    <3> QED
      BY <3>4, <3>5
  <2> QED
    BY <2>9, <2>10
<1> QED
  BY <1>2, <1>3

(* A path that names a file finds one of its name.                         *)
LEMMA SearchFinds ==
  ASSUME IInv, TailValid, pc = "open", NEW path \in Names,
         NEW loc, loc = binary_search(path)
  PROVE  \/ /\ loc \in 0 .. total_files - 1
            /\ Lowered(Record(loc).name) = Lowered(path)
         \/ /\ loc = -1
            /\ \A k \in 0 .. total_files - 1 :
                 Lowered(Record(k).name) # Lowered(path)
<1>1. /\ Opened /\ i \in Nat /\ total_files = i
  BY DEF Opened, IInv, TypeOK, SortValid
<1>2. PICK f : /\ NarrowsUpTo(f, path, i)
               /\ loc = IF f[i].l > f[i].h THEN -1 ELSE indices[Middle(f[i])]
  <2>1. PICK f : f = CHOOSE g : NarrowsUpTo(g, path, i)
    OBVIOUS
  <2>2. NarrowsUpTo(f, path, i)
    BY <1>1, <2>1, NarrowingExists
  <2>3. loc = IF f[i].l > f[i].h THEN -1 ELSE indices[Middle(f[i])]
    BY <1>1, <2>1 DEF binary_search, NarrowsUpTo, Whole
  <2> QED
    BY <2>2, <2>3
<1>3. /\ f[0] = Whole
      /\ \A k \in Nat : k < i => f[k + 1] = Narrowed(f[k], path)
  <2>1. \A k \in 0..i : f[k] = IF k = 0 THEN Whole ELSE Narrowed(f[k - 1], path)
    BY <1>2 DEF NarrowsUpTo
  <2>2. ASSUME NEW k \in Nat, k < i PROVE f[k + 1] = Narrowed(f[k], path)
    <3>1. k + 1 \in 0..i /\ k + 1 # 0 /\ (k + 1) - 1 = k
      BY <1>1, <2>2
    <3>2. f[k + 1] = Narrowed(f[(k + 1) - 1], path)
      BY <2>1, <3>1
    <3> QED
      BY <3>1, <3>2
  <2> QED
    BY <1>1, <2>1, <2>2
<1>4. PICK T : T = {k \in Nat : k <= i =>
                     /\ Excludes(f[k], path)
                     /\ \/ f[k].l > f[k].h \/ Compared(f[k], path) = 0
                        \/ f[k].h - f[k].l < i - k}
  OBVIOUS
<1>5. 0 \in T
  <2>1. f[0] = [l |-> 0, h |-> i - 1]
    BY <1>1, <1>3 DEF Whole
  <2>2. f[0] \in [l : Int, h : Int] /\ f[0].l = 0 /\ f[0].h = i - 1
    BY <1>1, <2>1
  <2>3. Excludes(f[0], path) /\ f[0].h - f[0].l < i - 0
    BY <1>1, <2>2 DEF Excludes
  <2> QED
    BY <1>4, <2>3
<1>6. ASSUME NEW k \in Nat, k \in T PROVE k + 1 \in T
  <2> SUFFICES ASSUME k + 1 <= i
               PROVE  /\ Excludes(f[k + 1], path)
                      /\ \/ f[k + 1].l > f[k + 1].h \/ Compared(f[k + 1], path) = 0
                         \/ f[k + 1].h - f[k + 1].l < i - (k + 1)
    BY <1>4
  <2>1. PICK w, v, left : /\ w = f[k] /\ v = f[k + 1] /\ left = i - (k + 1)
    OBVIOUS
  <2>2. left \in Nat /\ left + 1 = i - k /\ k < i
    BY <1>1, <2>1
  <2>3. /\ Excludes(w, path)
        /\ w.l > w.h \/ Compared(w, path) = 0 \/ w.h - w.l < left + 1
    <3>1. k <= i
      BY <1>1, <2>2
    <3>2. /\ Excludes(f[k], path)
          /\ \/ f[k].l > f[k].h \/ Compared(f[k], path) = 0
             \/ f[k].h - f[k].l < i - k
      BY <1>4, <1>6, <3>1
    <3> QED
      BY <2>1, <2>2, <3>2
  <2>4. v = Narrowed(w, path)
    BY <1>3, <2>1, <2>2
  <2>5. /\ Excludes(v, path)
        /\ v.l > v.h \/ Compared(v, path) = 0 \/ v.h - v.l < left
    BY <2>2, <2>3, <2>4, SearchStep
  <2> QED
    BY <2>1, <2>5
<1>7. i \in T
  BY <1>1, <1>5, <1>6, Induction
<1>8. PICK w : w = f[i]
  OBVIOUS
<1>9. /\ Excludes(w, path)
      /\ w.l > w.h \/ Compared(w, path) = 0
  <2>1. /\ Excludes(w, path)
        /\ w.l > w.h \/ Compared(w, path) = 0 \/ w.h - w.l < i - i
    BY <1>1, <1>4, <1>7, <1>8
  <2>2. w.l \in Int /\ w.h \in Int
    BY <2>1 DEF Excludes
  <2>3. w.h - w.l < i - i => w.l > w.h
    BY <1>1, <2>2
  <2> QED
    BY <2>1, <2>3
<1>10. CASE w.l > w.h
  <2>1. loc = -1
    BY <1>2, <1>8, <1>10
  <2>2. ASSUME NEW k \in 0 .. i - 1, Lowered(Record(k).name) = Lowered(path)
        PROVE  FALSE
    <3>1. i # 0
      BY <1>1
    <3>2. /\ indices \in [0 .. i - 1 -> 0 .. i - 1]
          /\ \A a, b \in 0 .. i - 1 : indices[a] = indices[b] => a = b
      BY <1>1, <3>1 DEF IInv, SortKeepsFiles
    <3>3. PICK a \in 0 .. i - 1 : indices[a] = k
      BY <1>1, <3>2, EveryFileHasPlace
    <3>4. NameAt(a) = Record(k).name /\ NameAt(a) \in Names
      BY <1>1, <3>3, NameInPlace DEF NameAt
    <3>5. Alike(NameAt(a), path)
      BY <2>2, <3>4, AlikeIsSame
    <3>6. a < w.l \/ a > w.h
      BY <1>9, <1>10 DEF Excludes
    <3>7. Before(NameAt(a), path) \/ Before(path, NameAt(a))
      BY <1>1, <1>9, <3>6 DEF Excludes
    <3>8. Alike(path, NameAt(a))
      BY <3>5 DEF Alike
    <3> QED
      BY <3>4, <3>5, <3>7, <3>8, BeforeIsStrict
  <2> QED
    BY <1>1, <2>1, <2>2
<1>11. CASE ~(w.l > w.h)
  <2>1. PICK m : m = Middle(w)
    OBVIOUS
  <2>2. m \in 0 .. i - 1
    <3>1. PICK l, h : l = w.l /\ h = w.h
      OBVIOUS
    <3>2. l \in Int /\ h \in Int /\ 0 <= l /\ l <= h /\ h < i
      BY <1>1, <1>9, <1>11, <3>1 DEF Excludes
    <3>3. m = (l + h) \div 2
      BY <2>1, <3>1 DEF Middle
    <3> QED
      BY <1>1, <3>2, <3>3
  <2>3. loc = indices[m] /\ NameAt(m) = Record(loc).name
    BY <1>2, <1>8, <1>11, <2>1 DEF NameAt
  <2>4. loc \in 0 .. i - 1 /\ NameAt(m) \in Names
    BY <1>1, <2>2, <2>3, NameInPlace
  <2>5. filename_compare(NameAt(m), path) = 0
    BY <1>9, <1>11, <2>1, Zenon DEF Compared, NameAt
  <2>6. Alike(NameAt(m), path)
    BY <2>4, <2>5, CompareIsOrder
  <2>7. Lowered(NameAt(m)) = Lowered(path)
    BY <2>4, <2>6, AlikeIsSame
  <2> QED
    BY <1>1, <2>3, <2>4, <2>7
<1> QED
  BY <1>10, <1>11
(* What is passed to the search is a string of bytes.                      *)
LEMMA CStringIsName ==
  ASSUME NEW path \in Seq(0..255)
  PROVE  c_str(path) \in Names
<1>1. PICK m : m = Min(Zeros(path))
  OBVIOUS
<1>2. c_str(path) = SubSeq(path, 1, m - 1) /\ m \in 1 .. Len(path) + 1
  BY <1>1, CStringFacts
<1>3. Len(path) \in Nat
  BY LenProperties
<1>4. 1 \in Int /\ m - 1 \in Int /\ \A k \in 1 .. m - 1 : path[k] \in 0..255
  <2>1. ASSUME NEW k \in 1 .. m - 1 PROVE path[k] \in 0..255
    <3>1. k \in 1 .. Len(path)
      BY <1>2, <1>3
    <3> QED
      BY <3>1, ElementOfSeq
  <2> QED
    BY <1>2, <1>3, <2>1
<1>5. SubSeq(path, 1, m - 1) \in Seq(0..255)
  BY <1>4, SubSeqProperties
<1> QED
  BY <1>2, <1>5 DEF Names

(* Every answer of profile is that of the search, in an archive that does  *)
(* not change any more.                                                    *)
LEMMA ProfileLocates ==
  ASSUME IInv, TailValid, NEW path \in Paths, Profile(path)
  PROVE  LocateFindsName'
<1>1. PICK q, loc : q = c_str(path) /\ loc = locate_file(q)
  OBVIOUS
<1>2. /\ UNCHANGED <<arc, pc, has_state, total_files, cur>> /\ Returned
      /\ answer'.path = path /\ answer'.file = loc
  BY <1>1 DEF Profile
<1>3. \A k : Record(k)' = Record(k)
  BY <1>2 DEF Record, EndRecord
<1>4. q \in Names
  BY <1>1, PathsAssumption, CStringIsName
<1>5. CASE pc = "refused"
  <2>1. ~has_state
    BY <1>5 DEF IInv, StateValid, Opened
  <2>2. loc = -1
    BY <1>1, <2>1 DEF locate_file
  <2> QED
    BY <1>2, <1>5, <2>2 DEF LocateFindsName
<1>6. CASE pc = "open"
  <2>1. has_state /\ total_files \in Nat
    BY <1>6 DEF IInv, StateValid, Opened, TypeOK
  <2>2. loc = binary_search(q)
    BY <1>1, <2>1 DEF locate_file
  <2>3. \/ /\ loc \in 0 .. total_files - 1
           /\ Lowered(Record(loc).name) = Lowered(q)
        \/ /\ loc = -1
           /\ \A k \in 0 .. total_files - 1 : Lowered(Record(k).name) # Lowered(q)
    BY <1>4, <1>6, <2>2, SearchFinds
  <2>4. loc # -1 => Lowered(Record(loc)'.name) = Lowered(q)
    BY <1>3, <2>3
  <2>5. loc = -1 => \A k \in 0 .. total_files' - 1 :
                      Lowered(Record(k)'.name) # Lowered(q)
    BY <1>2, <1>3, <2>1, <2>3
  <2> QED
    BY <1>1, <1>2, <2>4, <2>5 DEF LocateFindsName
<1> QED
  BY <1>2, <1>5, <1>6 DEF Returned

(* The order of the sort, and what it is for, hold throughout.             *)
THEOREM OrderInvariance == Spec => []OrderInv
<1>1. Init => OrderInv
  <2> SUFFICES ASSUME Init PROVE OrderInv
    OBVIOUS
  <2>1. HeapValid /\ TailValid
    BY DEF Init, HeapValid, TailValid
  <2>2. answer.call = "none"
    BY DEF Init, NoAnswer
  <2>3. LocateFindsName
    BY <2>2 DEF LocateFindsName
  <2> QED
    BY <2>1, <2>3 DEF OrderInv
<1>2. IInv /\ OrderInv /\ [Next]_vars => OrderInv'
  <2> SUFFICES ASSUME IInv, OrderInv, [Next]_vars PROVE OrderInv'
    OBVIOUS
  <2>1. HeapValid' /\ TailValid'
    BY StepKeepsOrder DEF OrderInv
  <2>2. LocateFindsName'
    <3>1. CASE Constructor
      <4>1. answer = NoAnswer /\ answer' = answer
        BY <3>1 DEF Constructor, Open, Refuse, Scan, ReadEndRecord, ReadRecord,
                    StartSort, SiftDown, NextHeap, NextExtract, IInv,
                    AnswersValid, Returned
      <4>2. answer'.call = "none"
        BY <4>1 DEF NoAnswer
      <4> QED
        BY <4>2 DEF LocateFindsName
    <3>2. CASE Entries
      <4>1. answer'.call = "entries"
        BY <3>2 DEF Entries
      <4> QED
        BY <4>1 DEF LocateFindsName
    <3>3. CASE \E path \in Paths : Profile(path)
      BY <3>3, ProfileLocates DEF OrderInv
    <3>4. CASE UNCHANGED vars
      <4>1. UNCHANGED <<arc, pc, total_files, cur, answer>>
        BY <3>4 DEF vars
      <4>2. \A k : Record(k)' = Record(k)
        BY <4>1 DEF Record, EndRecord
      <4> QED
        BY <4>1, <4>2 DEF LocateFindsName, OrderInv
    <3> QED
      BY <3>1, <3>2, <3>3, <3>4 DEF Next
  <2> QED
    BY <2>1, <2>2 DEF OrderInv
<1> QED
  BY <1>1, <1>2, Invariance, PTL DEF Spec

(* A path finds a file of its name if the directory has one, in upper or   *)
(* lower case, whatever the names and whatever order they came in; when it *)
(* finds none there is none.                                               *)
THEOREM LocateFinds == Spec => []LocateFindsName
<1>1. OrderInv => LocateFindsName
  BY DEF OrderInv
<1> QED
  BY <1>1, OrderInvariance, PTL
=============================================================================
