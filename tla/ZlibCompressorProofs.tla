------------------------- MODULE ZlibCompressorProofs -------------------------
(***************************************************************************)
(* Proofs about mz_deflate and its callers, for all inputs, sizes, levels, *)
(* buffers and sequences of calls: what is put out stands for the input,   *)
(* the ring holds what matches are looked for in, the end of the stream is *)
(* not reported early, and compress returns the whole stream or NULL.      *)
(***************************************************************************)
EXTENDS ZlibCompressor, SequenceTheorems, WellFoundedInduction, TLAPS

-----------------------------------------------------------------------------
(* What codes stand for, code by code.  FoldLeft is a recursive function   *)
(* on sets of indices, which takes the largest last; only the sets 1..k    *)
(* matter.  That there is one is shown by induction.                       *)
IsFold(f, text, seq, n) ==
  f = [s \in SUBSET (1..n) |-> IF s = {} THEN text
                               ELSE Extended(f[s \ {Max(s)}], seq[Max(s)])]

(* Induction, with the set of the numbers for which the claim holds.       *)
LEMMA Induction ==
  ASSUME NEW T, 0 \in T, \A n \in Nat : n \in T => n + 1 \in T
  PROVE  \A n \in Nat : n \in T
<1> SUFFICES ASSUME NEW R, R = {ss \in Nat \X Nat : ss[1] < ss[2]},
                    Nat \ T # {}
             PROVE  FALSE
  OBVIOUS
<1>1. IsWellFoundedOn(R, Nat)
  BY NatLessThanWellFounded DEF OpToRel
<1>2. PICK m \in Nat \ T : \A k \in Nat \ T : ~ (<<k, m>> \in R)
  BY <1>1, WFMin
<1>3. m # 0 /\ m - 1 \in Nat /\ m - 1 < m
  BY <1>2
<1>4. m - 1 \in T
  BY <1>2, <1>3
<1> QED
  BY <1>2, <1>3, <1>4

(* A set of indices has a largest one.                                     *)
LEMMA MaxOfIndices ==
  ASSUME NEW n \in Nat, NEW s \in SUBSET (0..n), s # {}
  PROVE  Max(s) \in s /\ \A k \in s : k <= Max(s)
<1> SUFFICES ASSUME NEW T,
                    T = {m \in Nat : \A u \in SUBSET (0..m) : u # {} =>
                           \E x \in u : \A k \in u : x >= k}
             PROVE  Max(s) \in s /\ \A k \in s : k <= Max(s)
  OBVIOUS
<1>1. 0 \in T
  <2>1. ASSUME NEW u \in SUBSET (0..0), u # {}
        PROVE  \E x \in u : \A k \in u : x >= k
    <3>1. \A k \in 0..0 : k = 0
      OBVIOUS
    <3>2. \A k \in u : k = 0
      BY <2>1, <3>1, Zenon
    <3>3. PICK x \in u : x = 0
      BY <2>1, <3>2, Zenon
    <3>4. \A k \in u : x >= k
      BY <3>2, <3>3
    <3> QED
      BY <3>4
  <2> QED
    BY <2>1
<1>2. ASSUME NEW m \in Nat, m \in T PROVE m + 1 \in T
  <2>1. ASSUME NEW u \in SUBSET (0 .. m + 1), u # {}
        PROVE  \E x \in u : \A k \in u : x >= k
    <3>1. CASE m + 1 \in u
      BY <3>1
    <3>2. CASE m + 1 \notin u
      <4>1. u \in SUBSET (0..m)
        BY <3>2
      <4> QED
        BY <1>2, <2>1, <4>1
    <3> QED
      BY <3>1, <3>2
  <2> QED
    BY <2>1
<1>3. n \in T
  BY <1>1, <1>2, Induction
<1>4. \E x \in s : \A k \in s : x >= k
  BY <1>3
<1>5. \A k \in s : k \in Nat
  OBVIOUS
<1>6. Max(s) \in s /\ \A k \in s : Max(s) >= k
  BY <1>4 DEF Max
<1> QED
  BY <1>5, <1>6

(* The fold over 1..n takes n first and leaves 1 .. n - 1.                 *)
LEMMA MaxOfUpto ==
  ASSUME NEW n \in Nat, n > 0
  PROVE  Max(1..n) = n /\ (1..n) \ {n} = 1 .. n - 1
<1>1. Max(1..n) \in 1..n /\ \A k \in 1..n : k <= Max(1..n)
  <2>1. 1..n \in SUBSET (0..n) /\ 1..n # {}
    OBVIOUS
  <2> QED
    BY <2>1, MaxOfIndices
<1>2. n \in 1..n
  OBVIOUS
<1>3. Max(1..n) = n
  BY <1>1, <1>2
<1>4. (1..n) \ {n} = 1 .. n - 1
  OBVIOUS
<1> QED
  BY <1>3, <1>4

(* The largest index taken away, the rest are among fewer.                 *)
LEMMA RestOfIndices ==
  ASSUME NEW n \in Nat, NEW s \in SUBSET (1 .. n + 1), s # {}
  PROVE  s \ {Max(s)} \in SUBSET (1..n)
<1>1. n + 1 \in Nat /\ s \in SUBSET (0 .. n + 1)
  OBVIOUS
<1>2. Max(s) \in s /\ \A k \in s : k <= Max(s)
  BY <1>1, MaxOfIndices
<1>3. Max(s) \in 1 .. n + 1
  BY <1>2
<1>4. ASSUME NEW k \in s, k # Max(s) PROVE k \in 1..n
  <2>1. k \in 1 .. n + 1 /\ k <= Max(s)
    BY <1>2
  <2> QED
    BY <1>3, <1>4, <2>1
<1> QED
  BY <1>4

(* The recursion, on the indices up to m.                                  *)
LEMMA FoldStep ==
  ASSUME NEW n \in Nat, NEW m \in Nat, m < n, NEW text, NEW seq, NEW f, IsFold(f, text, seq, n)
  PROVE  f[{}] = text /\ f[1 .. m + 1] = Extended(f[1..m], seq[m + 1])
<1> SUFFICES ASSUME NEW l, l = m + 1
             PROVE  f[{}] = text /\ f[1..l] = Extended(f[1..m], seq[l])
  OBVIOUS
<1>1. f[{}] = text
  BY DEF IsFold
<1>2. \A s \in SUBSET (1..n) :
        s # {} => f[s] = Extended(f[s \ {Max(s)}], seq[Max(s)])
  BY DEF IsFold
<1>0. l \in Nat /\ l > 0 /\ l - 1 = m /\ l \in 1..l /\ l <= n
  OBVIOUS
<1>3. 1..l \in SUBSET (1..n) /\ 1..l # {}
  BY <1>0
<1>4. Max(1..l) = l /\ (1..l) \ {l} = 1..m
  BY <1>0, MaxOfUpto
<1>5. f[1..l] = Extended(f[(1..l) \ {Max(1..l)}], seq[Max(1..l)])
  BY <1>2, <1>3
<1> QED
  BY <1>1, <1>4, <1>5

(* The recursive function exists.                                          *)
LEMMA FoldsExist ==
  ASSUME NEW n \in Nat, NEW text, NEW seq
  PROVE  \E f : IsFold(f, text, seq, n)
<1> SUFFICES ASSUME NEW T, T = {m \in Nat : \E f : IsFold(f, text, seq, m)}
             PROVE  \E f : IsFold(f, text, seq, n)
  OBVIOUS
<1>1. 0 \in T
  <2>1. SUBSET (1..0) = {{}}
    OBVIOUS
  <2>2. IsFold([s \in SUBSET (1..0) |-> text], text, seq, 0)
    BY <2>1 DEF IsFold
  <2> QED
    BY <2>2
<1>2. ASSUME NEW m \in Nat, m \in T PROVE m + 1 \in T
  <2>1. PICK f : IsFold(f, text, seq, m)
    BY <1>2
  <2>2. PICK g : g = [s \in SUBSET (1 .. m + 1) |->
                        IF s = {} THEN text
                        ELSE Extended(f[s \ {Max(s)}], seq[Max(s)])]
    OBVIOUS
  <2>3. ASSUME NEW s \in SUBSET (1..m) PROVE g[s] = f[s]
    <3>1. s \in SUBSET (1 .. m + 1)
      OBVIOUS
    <3> QED
      BY <2>1, <2>2, <3>1 DEF IsFold
  <2>4. ASSUME NEW s \in SUBSET (1 .. m + 1), s # {}
        PROVE  g[s \ {Max(s)}] = f[s \ {Max(s)}]
    BY <2>3, <2>4, RestOfIndices
  <2>5. g = [s \in SUBSET (1 .. m + 1) |->
               IF s = {} THEN text
               ELSE Extended(g[s \ {Max(s)}], seq[Max(s)])]
    BY <2>2, <2>4
  <2>6. IsFold(g, text, seq, m + 1)
    BY <2>5 DEF IsFold
  <2> QED
    BY <2>6
<1>3. \A m \in Nat : m \in T => m + 1 \in T
  BY <1>2
<1>4. n \in T
  BY <1>1, <1>3, Induction
<1> QED
  BY <1>4

Continues(longer, seq, n) == \A k \in 1..n : longer[k] = seq[k]

(* What FoldLeft means for a sequence.                                     *)
LEMMA ExpandedIsFold ==
  ASSUME NEW n \in Nat, NEW text, NEW seq, DOMAIN seq = 1..n
  PROVE  \E f : IsFold(f, text, seq, n) /\ Expanded(text, seq) = f[1..n]
<1>1. \E f : IsFold(f, text, seq, n)
  BY FoldsExist
<1>2. Expanded(text, seq) = (CHOOSE f : IsFold(f, text, seq, n))[1..n]
  BY DEF Expanded, FoldLeft, MapThenFoldSet, IsFold
<1>3. IsFold(CHOOSE f : IsFold(f, text, seq, n), text, seq, n)
  BY <1>1
<1> QED
  BY <1>2, <1>3

(* Two folds agree on the indices where the sequences do.                  *)
LEMMA FoldsAgree ==
  ASSUME NEW n \in Nat, NEW l \in Nat, n <= l, NEW text, NEW seq, NEW longer,
         Continues(longer, seq, n),
         NEW f, IsFold(f, text, seq, n), NEW g, IsFold(g, text, longer, l)
  PROVE  f[1..n] = g[1..n]
<1> SUFFICES ASSUME NEW T, T = {m \in Nat : m <= n => f[1..m] = g[1..m]}
             PROVE  f[1..n] = g[1..n]
  OBVIOUS
<1>1. 0 \in T
  <2>1. 1..0 = {}
    OBVIOUS
  <2>2. f[{}] = text /\ g[{}] = text
    BY DEF IsFold
  <2> QED
    BY <2>1, <2>2
<1>2. ASSUME NEW m \in Nat, m \in T, m + 1 <= n
      PROVE  f[1 .. m + 1] = g[1 .. m + 1]
  <2>1. m < n /\ m < l /\ m + 1 \in 1..n
    BY <1>2
  <2>2. f[1 .. m + 1] = Extended(f[1..m], seq[m + 1])
    BY <2>1, FoldStep
  <2>3. g[1 .. m + 1] = Extended(g[1..m], longer[m + 1])
    BY <2>1, FoldStep
  <2>4. longer[m + 1] = seq[m + 1] /\ f[1..m] = g[1..m]
    BY <1>2, <2>1 DEF Continues
  <2> QED
    BY <2>2, <2>3, <2>4
<1>3. \A m \in Nat : m \in T => m + 1 \in T
  BY <1>2
<1> QED
  BY <1>1, <1>3, Induction

(* One more code extends what those before it stand for.                   *)
LEMMA ExpandedOfLonger ==
  ASSUME NEW n \in Nat, NEW l \in Nat, n < l, l <= n + 1,
         NEW text, NEW seq, DOMAIN seq = 1..n, NEW longer, DOMAIN longer = 1..l,
         Continues(longer, seq, n)
  PROVE  Expanded(text, longer) = Extended(Expanded(text, seq), longer[l])
<1>1. PICK f : IsFold(f, text, seq, n) /\ Expanded(text, seq) = f[1..n]
  BY ExpandedIsFold
<1>2. PICK g : IsFold(g, text, longer, l) /\ Expanded(text, longer) = g[1..l]
  BY ExpandedIsFold
<1>3. IsFold(f, text, seq, n)
  BY <1>1
<1>4. IsFold(g, text, longer, l)
  BY <1>2
<1>0. n <= l
  OBVIOUS
<1>5. f[1..n] = g[1..n]
  BY <1>0, <1>3, <1>4, FoldsAgree
<1>6. g[1 .. n + 1] = Extended(g[1..n], longer[n + 1])
  BY <1>4, FoldStep
<1>7. n + 1 = l
  OBVIOUS
<1> QED
  BY <1>1, <1>2, <1>5, <1>6, <1>7

(* The two facts about Expanded that the rest uses.                        *)
LEMMA ExpandedUnfolds ==
  ASSUME NEW text, NEW X, NEW seq \in Seq(X), NEW x \in X
  PROVE  Expanded(text, Append(seq, x)) = Extended(Expanded(text, seq), x)
<1>1. /\ Len(seq) \in Nat /\ DOMAIN seq = 1 .. Len(seq)
      /\ DOMAIN Append(seq, x) = 1 .. Len(seq) + 1
      /\ Append(seq, x)[Len(seq) + 1] = x
      /\ \A k \in 1 .. Len(seq) : Append(seq, x)[k] = seq[k]
  OBVIOUS
<1>2. ASSUME NEW n, n = Len(seq), NEW l, l = n + 1,
             NEW longer, longer = Append(seq, x)
      PROVE  Expanded(text, longer) = Extended(Expanded(text, seq), longer[l])
  <2>1. /\ n \in Nat /\ l \in Nat /\ n < l /\ l <= n + 1
        /\ DOMAIN seq = 1..n /\ DOMAIN longer = 1..l
    BY <1>1, <1>2
  <2>2. Continues(longer, seq, n)
    BY <1>1, <1>2 DEF Continues
  <2> HIDE <1>2
  <2> QED
    BY <2>1, <2>2, ExpandedOfLonger
<1> QED
  BY <1>1, <1>2

(* No codes add no text.                                                   *)
LEMMA ExpandedByNone ==
  ASSUME NEW text
  PROVE  Expanded(text, << >>) = text
<1>1. DOMAIN << >> = 1..0 /\ 1..0 = {}
  OBVIOUS
<1>2. PICK f : IsFold(f, text, << >>, 0) /\ Expanded(text, << >>) = f[1..0]
  BY <1>1, ExpandedIsFold
<1>3. f[{}] = text
  BY <1>2 DEF IsFold
<1> QED
  BY <1>1, <1>2, <1>3

-----------------------------------------------------------------------------
(* The arithmetic of the ring.                                             *)
LEMMA ModDecomposes ==
  ASSUME NEW a \in Int, NEW n \in Nat \ {0}
  PROVE  /\ a \div n \in Int /\ a % n \in 0 .. n - 1
         /\ a = n * (a \div n) + (a % n)
BY Z3

(* A remainder is known by its range.                                      *)
LEMMA ModIs ==
  ASSUME NEW a \in Int, NEW n \in Nat \ {0}, NEW q \in Int,
         NEW r \in 0 .. n - 1, a = n * q + r
  PROVE  a % n = r
<1>1. PICK d \in Int, s \in 0 .. n - 1 : a % n = s /\ a = n * d + s
  BY ModDecomposes
<1>2. n * (d - q) = r - s
  BY <1>1
<1>3. CASE d - q <= -1
  <2>1. n * (d - q) <= -n
    BY <1>3
  <2> QED
    BY <1>2, <2>1
<1>4. CASE d - q >= 1
  <2>1. n * (d - q) >= n
    BY <1>4
  <2> QED
    BY <1>2, <2>1
<1>5. CASE d = q
  BY <1>1, <1>2, <1>5
<1> QED
  BY <1>3, <1>4, <1>5

(* The sizes of the dictionary and of matches, as numbers.                 *)
LEMMA SizesAre ==
  /\ DictSize \in Nat \ {0} /\ MaxMatch \in Nat /\ MinMatch \in Nat
  /\ 1 < MinMatch /\ MinMatch < MaxMatch /\ MaxMatch < DictSize
  /\ FastAhead \in Nat /\ MinMatch <= FastAhead /\ FastAhead <= DictSize
BY SizesAssumption

(* The slot of a position in the ring,                                     *)
LEMMA SlotIs ==
  ASSUME NEW p \in Nat
  PROVE  \E q \in Nat : p = DictSize * q + Slot(p)
                        /\ Slot(p) \in 0 .. DictSize - 1 /\ Slot(p) <= p
<1>1. PICK q \in Int : p = DictSize * q + Slot(p) /\ Slot(p) \in 0 .. DictSize - 1
  <2>1. p \in Int /\ DictSize \in Nat \ {0}
    BY SizesAre
  <2> QED
    BY <2>1, ModDecomposes DEF Slot
<1> DEFINE s == Slot(p)
<1>2. s \in 0 .. DictSize - 1 /\ p = DictSize * q + s
  BY <1>1
<1> HIDE DEF s
<1>3. q >= 0
  <2>1. SUFFICES ASSUME q <= -1 PROVE FALSE
    OBVIOUS
  <2>2. DictSize * q <= -DictSize
    BY <2>1, SizesAre
  <2> QED
    BY <1>2, <2>2, SizesAre
<1>4. DictSize * q >= 0 /\ DictSize * q \in Int
  BY <1>3, SizesAre
<1>5. s <= p
  BY <1>2, <1>4
<1> QED
  BY <1>1, <1>3, <1>5 DEF s

(* Where, counted from t, the byte in the slot of p lies.                  *)
LEMMA SlotFrom ==
  ASSUME NEW p \in Nat, NEW t \in Nat
  PROVE  /\ 0 <= p - t /\ p - t < DictSize =>
              (Slot(p) - t) % DictSize = p - t
         /\ p < t /\ t - p <= DictSize =>
              (Slot(p) - t) % DictSize = p - t + DictSize
<1>1. PICK q \in Nat : p = DictSize * q + Slot(p) /\ Slot(p) \in 0 .. DictSize - 1
  BY SlotIs
<1> DEFINE s == Slot(p)
<1>2. s \in 0 .. DictSize - 1 /\ p = DictSize * q + s
  BY <1>1
<1> HIDE DEF s
<1>3. s - t \in Int /\ -q \in Int /\ -q - 1 \in Int
  BY <1>2
<1>4. s - t = DictSize * (-q) + (p - t)
  BY <1>2, SizesAre
<1>5. s - t = DictSize * (-q - 1) + (p - t + DictSize)
  BY <1>2, SizesAre
<1>6. ASSUME 0 <= p - t, p - t < DictSize
      PROVE  (s - t) % DictSize = p - t
  <2>1. p - t \in 0 .. DictSize - 1
    BY <1>6, SizesAre
  <2> QED
    BY <1>3, <1>4, <2>1, ModIs, SizesAre
<1>7. ASSUME p < t, t - p <= DictSize
      PROVE  (s - t) % DictSize = p - t + DictSize
  <2>1. p - t + DictSize \in 0 .. DictSize - 1
    BY <1>7, SizesAre
  <2> QED
    BY <1>3, <1>5, <2>1, ModIs, SizesAre
<1> QED
  BY <1>6, <1>7 DEF s

(* and of one a little further on.                                         *)
LEMMA SlotPlus ==
  ASSUME NEW p \in Nat, NEW j \in Nat, j < DictSize
  PROVE  Slot(p + j) = IF Slot(p) + j < DictSize THEN Slot(p) + j
                       ELSE Slot(p) + j - DictSize
<1>1. PICK q \in Nat : p = DictSize * q + Slot(p) /\ Slot(p) \in 0 .. DictSize - 1
  BY SlotIs
<1> DEFINE s == Slot(p)
<1>2. s \in 0 .. DictSize - 1 /\ p = DictSize * q + s
  BY <1>1
<1> HIDE DEF s
<1>3. CASE s + j < DictSize
  <2>1. p + j = DictSize * q + (s + j) /\ s + j \in 0 .. DictSize - 1
    BY <1>2, <1>3, SizesAre
  <2>0. p + j \in Int /\ q \in Int
    OBVIOUS
  <2>2. (p + j) % DictSize = s + j
    BY <2>0, <2>1, ModIs, SizesAre
  <2> QED
    BY <1>3, <2>2 DEF Slot, s
<1>4. CASE ~(s + j < DictSize)
  <2>1. p + j = DictSize * (q + 1) + (s + j - DictSize)
        /\ s + j - DictSize \in 0 .. DictSize - 1 /\ q + 1 \in Int
    BY <1>2, <1>4, SizesAre
  <2>0. p + j \in Int
    OBVIOUS
  <2>2. (p + j) % DictSize = s + j - DictSize
    BY <2>0, <2>1, ModIs, SizesAre
  <2> QED
    BY <1>4, <2>2 DEF Slot, s
<1> QED
  BY <1>3, <1>4

(* A slot and its copy behind the end lie equally far from t.              *)
LEMMA CopyFrom ==
  ASSUME NEW s \in Nat, NEW t \in Nat
  PROVE  /\ ((DictSize + s) - t) % DictSize = (s - t) % DictSize
         /\ 0 <= s - t /\ s - t < DictSize => (s - t) % DictSize = s - t
<1>1. PICK q \in Int, r \in 0 .. DictSize - 1 :
        (s - t) % DictSize = r /\ s - t = DictSize * q + r
  <2>1. s - t \in Int
    OBVIOUS
  <2> QED
    BY <2>1, SizesAre, ModDecomposes
<1>2. (DictSize + s) - t = DictSize * (q + 1) + r /\ (DictSize + s) - t \in Int
      /\ q + 1 \in Int
  BY <1>1, SizesAre
<1>3. ((DictSize + s) - t) % DictSize = r
  BY <1>2, ModIs, SizesAre
<1>4. ASSUME 0 <= s - t, s - t < DictSize PROVE (s - t) % DictSize = s - t
  <2>1. s - t \in 0 .. DictSize - 1 /\ s - t = DictSize * 0 + (s - t)
    BY <1>4, SizesAre
  <2> QED
    BY <2>1, ModIs, SizesAre
<1> QED
  BY <1>1, <1>3, <1>4

-----------------------------------------------------------------------------
(* The numbers of StreamValid.                                             *)
LEMMA Numbers ==
  ASSUME StreamValid
  PROVE  /\ source \in Seq(Byte) /\ Len(source) \in Nat
         /\ taken \in Nat /\ offered \in Nat
         /\ taken <= offered /\ offered <= Len(source)
         /\ dict_size \in Nat /\ lookahead_pos \in Nat /\ lookahead_size \in Nat
         /\ dict_size <= lookahead_pos
         /\ lookahead_pos + lookahead_size = taken
         /\ dict_size + lookahead_size <= DictSize
         /\ total_lz_bytes \in Nat /\ block_start \in Nat
         /\ pending \in Nat /\ room \in Nat /\ written \in Nat
BY InputAssumption
   DEF StreamValid, TypeOK, PositionsValid, DictionaryHoldsWindow

(* The ring d holds the input from lo to hi.                               *)
Window(d, lo, hi) == \A p \in lo .. hi - 1 : d[Slot(p)] = source[p + 1]

Repeated(d, hi) ==
  \A s \in 0 .. MaxMatch - 2 : hi > s => d[DictSize + s] = d[s]

Ring(d, lo, hi) ==
  /\ d \in [0 .. DictSize + MaxMatch - 2 -> Byte]
  /\ Window(d, lo, hi) /\ Repeated(d, hi)

(* New bytes overwrite only what drops out of the dictionary.              *)
LEMMA FilledHolds ==
  ASSUME StreamValid, NEW num \in Nat, num <= offered - taken,
         NEW ds \in Nat, ds <= dict_size,
         ds + lookahead_size + num <= DictSize
  PROVE  Ring(Filled(num), lookahead_pos - ds, taken + num)
<1> DEFINE d == Filled(num)
           From(s) == (s - taken) % DictSize
<1>0. /\ source \in Seq(Byte) /\ Len(source) \in Nat
      /\ taken \in Nat /\ offered \in Nat
      /\ taken <= offered /\ offered <= Len(source)
      /\ dict_size \in Nat /\ lookahead_pos \in Nat /\ lookahead_size \in Nat
      /\ dict_size <= lookahead_pos
      /\ lookahead_pos + lookahead_size = taken
  BY Numbers
<1>1. /\ dict \in [0 .. DictSize + MaxMatch - 2 -> Byte]
      /\ \A p \in lookahead_pos - dict_size .. taken - 1 :
           dict[Slot(p)] = source[p + 1]
      /\ \A s \in 0 .. MaxMatch - 2 : taken > s => dict[DictSize + s] = dict[s]
  BY DEF StreamValid, TypeOK, DictionaryHoldsWindow
<1>2. ASSUME NEW s \in 0 .. DictSize + MaxMatch - 2
      PROVE  /\ From(s) \in 0 .. DictSize - 1
             /\ From(s) < num => d[s] = source[taken + From(s) + 1]
             /\ From(s) >= num => d[s] = dict[s]
  <2>1. s - lookahead_pos - lookahead_size = s - taken /\ s - taken \in Int
    BY <1>0, SizesAre
  <2>2. From(s) \in 0 .. DictSize - 1
    BY <2>1, SizesAre, ModDecomposes
  <2>3. d[s] = IF From(s) < num THEN source[taken + From(s) + 1] ELSE dict[s]
    BY <1>1, <2>1 DEF Filled
  <2> HIDE DEF From
  <2> QED
    BY <2>2, <2>3
<1>3. d \in [0 .. DictSize + MaxMatch - 2 -> Byte]
  <2>1. ASSUME NEW s \in 0 .. DictSize + MaxMatch - 2 PROVE d[s] \in Byte
    <3>1. CASE From(s) < num
      <4>1. taken + From(s) + 1 \in 1 .. Len(source)
        <5> HIDE DEF From
        <5> QED
          BY <1>2, <3>1, <1>0
      <4>2. source[taken + From(s) + 1] \in Byte
        <5> HIDE DEF From
        <5> QED
          BY <4>1, <1>0
      <4> QED
        BY <1>2, <3>1, <4>2
    <3>2. CASE From(s) >= num
      BY <1>1, <1>2, <3>2
    <3>3. From(s) < num \/ From(s) >= num
      <4>1. From(s) \in Int
        BY <1>2
      <4> HIDE DEF From
      <4> QED
        BY <4>1
    <3> QED
      BY <3>1, <3>2, <3>3
  <2>2. d = [s \in 0 .. DictSize + MaxMatch - 2 |-> d[s]]
    BY <1>1 DEF Filled
  <2> HIDE DEF d
  <2> QED
    BY <2>1, <2>2
<1>4. ASSUME NEW p \in lookahead_pos - ds .. (taken + num) - 1
      PROVE  d[Slot(p)] = source[p + 1]
  <2>1. p \in Nat
    BY <1>0
  <2>2. Slot(p) \in 0 .. DictSize - 1
    BY <2>1, SlotIs
  <2>3. Slot(p) \in 0 .. DictSize + MaxMatch - 2
    BY <2>2, SizesAre
  <2>4. CASE p >= taken
    <3>1. 0 <= p - taken /\ p - taken < DictSize /\ p - taken < num
      BY <2>1, <2>4, <1>0, SizesAre
    <3>2. From(Slot(p)) = p - taken
      BY <2>1, <3>1, SlotFrom, <1>0
    <3>3. d[Slot(p)] = source[taken + From(Slot(p)) + 1]
      BY <1>2, <2>3, <3>1, <3>2
    <3>4. taken + (p - taken) + 1 = p + 1
      BY <2>1, <1>0
    <3> QED
      BY <3>2, <3>3, <3>4
  <2>5. CASE p < taken
    <3>1. taken - p <= DictSize /\ p - taken + DictSize >= num
      BY <2>1, <2>5, <1>0, SizesAre
    <3>2. From(Slot(p)) = p - taken + DictSize
      BY <2>1, <2>5, <3>1, SlotFrom, <1>0
    <3>3. d[Slot(p)] = dict[Slot(p)]
      BY <1>2, <2>3, <3>1, <3>2
    <3>4. p \in lookahead_pos - dict_size .. taken - 1
      BY <2>1, <2>5, <1>0
    <3> QED
      BY <1>1, <3>3, <3>4
  <2> QED
    BY <2>1, <2>4, <2>5, <1>0
<1>5. ASSUME NEW s \in 0 .. MaxMatch - 2, taken + num > s
      PROVE  d[DictSize + s] = d[s]
  <2>1. /\ s \in 0 .. DictSize + MaxMatch - 2 /\ s \in Nat
        /\ DictSize + s \in 0 .. DictSize + MaxMatch - 2
    BY SizesAre
  <2>2. From(DictSize + s) = From(s)
    <3>1. ((DictSize + s) - taken) % DictSize = (s - taken) % DictSize
      BY <1>0, <2>1, CopyFrom
    <3> QED
      BY <3>1
  <2>3. CASE From(s) < num
    BY <1>2, <2>1, <2>2, <2>3
  <2>4. CASE From(s) >= num
    <3>1. d[s] = dict[s] /\ d[DictSize + s] = dict[DictSize + s]
      BY <1>2, <2>1, <2>2, <2>4
    <3>2. taken > s
      <4>1. SUFFICES ASSUME s >= taken PROVE FALSE
        BY <1>0
      <4>2. 0 <= s - taken /\ s - taken < DictSize /\ s - taken < num
        BY <1>5, <4>1, <1>0, SizesAre
      <4>3. From(s) = s - taken
        BY <2>1, <4>2, CopyFrom, <1>0
      <4> HIDE DEF From
      <4> QED
        BY <2>4, <4>2, <4>3, <1>0
    <3> QED
      BY <1>1, <3>1, <3>2
  <2>5. From(s) < num \/ From(s) >= num
    <3>1. From(s) \in Int
      BY <1>2, <2>1
    <3> HIDE DEF From
    <3> QED
      BY <3>1
  <2> QED
    BY <2>3, <2>4, <2>5
<1> HIDE DEF d
<1>6. Window(d, lookahead_pos - ds, taken + num)
  BY <1>4 DEF Window
<1>7. Repeated(d, taken + num)
  BY <1>5 DEF Repeated
<1> QED
  BY <1>3, <1>6, <1>7 DEF Ring, d

-----------------------------------------------------------------------------
(* Matches.                                                                *)
LEMMA MinIs ==
  ASSUME NEW a \in Int, NEW b \in Int
  PROVE  Min({a, b}) = IF a <= b THEN a ELSE b
<1>1. \A x \in {a, b} : (\A y \in {a, b} : x <= y) => x = IF a <= b THEN a ELSE b
  OBVIOUS
<1>2. \E x \in {a, b} : \A y \in {a, b} : x <= y
  OBVIOUS
<1>3. Min({a, b}) \in {a, b} /\ \A y \in {a, b} : Min({a, b}) <= y
  BY <1>2 DEF Min
<1> QED
  BY <1>1, <1>3

(* A byte that is compared is one of the input, in the ring or in the copy *)
(* of its beginning.                                                       *)
LEMMA RingAt ==
  ASSUME NEW d, NEW lo \in Nat, NEW hi \in Nat, Ring(d, lo, hi),
         NEW p \in Nat, lo <= p, NEW j \in Nat, j < MaxMatch, p + j < hi
  PROVE  d[Slot(p) + j] = source[p + j + 1]
<1>1. PICK s \in 0 .. DictSize - 1 : s = Slot(p)
  BY SlotIs
<1>2. p + j \in Nat /\ p + j \in lo .. hi - 1 /\ j < DictSize
  BY SizesAre
<1>3. d[Slot(p + j)] = source[p + j + 1]
  BY <1>2 DEF Ring, Window
<1>4. CASE s + j < DictSize
  <2>1. Slot(p + j) = s + j
    BY <1>1, <1>2, <1>4, SlotPlus
  <2> QED
    BY <1>1, <1>3, <2>1
<1>5. CASE ~(s + j < DictSize)
  <2>1. PICK r \in 0 .. MaxMatch - 2 : r = s + j - DictSize
    BY <1>1, <1>5, SizesAre
  <2>2. Slot(p + j) = r
    BY <1>1, <1>2, <1>5, <2>1, SlotPlus
  <2>3. Slot(p + j) <= p + j
    BY <1>2, SlotIs
  <2>4. hi > r
    BY <2>1, <2>2, <2>3
  <2>5. d[DictSize + r] = d[r]
    BY <2>1, <2>4 DEF Ring, Repeated
  <2>6. DictSize + r = s + j
    BY <1>1, <2>1, SizesAre
  <2> QED
    BY <1>1, <1>3, <2>2, <2>5, <2>6
<1> QED
  BY <1>4, <1>5

(* The common length of two places is bounded, and they agree that far.    *)
LEMMA CommonIs ==
  ASSUME NEW d, NEW a, NEW b
  PROVE  /\ Common(d, a, b) \in 0..MaxMatch
         /\ \A j \in 0 .. Common(d, a, b) - 1 : d[a + j] = d[b + j]
<1> DEFINE S == {k \in 0..MaxMatch : \A j \in 0 .. k - 1 : d[a + j] = d[b + j]}
<1>1. 0 \in S
  BY SizesAre
<1>2. S \in SUBSET (0..MaxMatch) /\ S # {}
  BY <1>1
<1>3. Max(S) \in S
  <2> HIDE DEF S
  <2> QED
    BY <1>2, MaxOfIndices, SizesAre
<1> QED
  BY <1>3 DEF Common

(* What two places of the ring have in common the input has.               *)
LEMMA MatchRepeats ==
  ASSUME NEW d, NEW lo \in Nat, NEW hi \in Nat, Ring(d, lo, hi),
         NEW dist \in Nat \ {0}, lookahead_pos \in Nat,
         lo + dist <= lookahead_pos,
         NEW most \in Nat, lookahead_pos + most <= hi
  PROVE  /\ MatchAt(d, dist, most).dist = dist
         /\ MatchAt(d, dist, most).len \in 0..most
         /\ Repeats(lookahead_pos, dist, MatchAt(d, dist, most).len)
<1> DEFINE a == Slot(lookahead_pos)
           b == Slot(lookahead_pos - dist)
           c == Common(d, a, b)
           len == MatchAt(d, dist, most).len
<1>1. c \in 0..MaxMatch /\ \A j \in 0 .. c - 1 : d[a + j] = d[b + j]
  BY CommonIs
<1>2. len = Min({most, c}) /\ MatchAt(d, dist, most).dist = dist
  BY DEF MatchAt
<1>3. len \in 0..most /\ len <= c
  <2> HIDE DEF c, len
  <2> QED
    BY <1>1, <1>2, MinIs, SizesAre
<1>4. ASSUME NEW j \in 0 .. len - 1
      PROVE  source[lookahead_pos + j + 1] = source[lookahead_pos - dist + j + 1]
  <2>1. j \in 0 .. c - 1 /\ j \in Nat /\ j < MaxMatch /\ j < most
    <3> HIDE DEF c, len
    <3> QED
      BY <1>1, <1>3, SizesAre
  <2>2. d[a + j] = d[b + j]
    BY <1>1, <2>1
  <2>3. lo <= lookahead_pos /\ lookahead_pos + j < hi
    BY <2>1
  <2>4. d[a + j] = source[lookahead_pos + j + 1]
    BY <2>1, <2>3, RingAt
  <2>5. /\ lookahead_pos - dist \in Nat /\ lo <= lookahead_pos - dist
        /\ lookahead_pos - dist + j < hi
    BY <2>1
  <2>6. d[b + j] = source[lookahead_pos - dist + j + 1]
    BY <2>1, <2>5, RingAt
  <2> QED
    BY <2>2, <2>4, <2>6
<1>5. Repeats(lookahead_pos, dist, len)
  <2> HIDE DEF len
  <2> QED
    BY <1>4 DEF Repeats
<1> QED
  BY <1>2, <1>3, <1>5

-----------------------------------------------------------------------------
(* The input up to a position, and how codes extend it.                    *)
LEMMA TextIs ==
  ASSUME source \in Seq(Byte), NEW n \in Nat, n <= Len(source)
  PROVE  /\ Text(n) \in Seq(Byte) /\ Len(Text(n)) = n
         /\ \A k \in 1..n : Text(n)[k] = source[k] /\ source[k] \in Byte
<1>1. Len(source) \in Nat /\ \A k \in 1..n : source[k] \in Byte
  OBVIOUS
<1>2. /\ SubSeq(source, 1, n) \in Seq(Byte)
      /\ Len(SubSeq(source, 1, n)) = n
      /\ \A k \in 1..n : SubSeq(source, 1, n)[k] = source[k]
  BY <1>1
<1> QED
  BY <1>1, <1>2 DEF Text

(* A sequence of bytes that agrees with the input is the text.             *)
LEMMA IsText ==
  ASSUME source \in Seq(Byte), NEW n \in Nat, n <= Len(source),
         NEW t, t \in Seq(Byte), Len(t) = n, \A k \in 1..n : t[k] = source[k]
  PROVE  t = Text(n)
<1>1. /\ Text(n) \in Seq(Byte) /\ Len(Text(n)) = n
      /\ \A k \in 1..n : Text(n)[k] = source[k]
  BY TextIs
<1>2. \A k \in 1 .. Len(t) : t[k] = Text(n)[k]
  BY <1>1
<1> QED
  BY <1>1, <1>2, SeqEqual

(* The literal that comes next extends the text by a byte,                 *)
LEMMA LitExtends ==
  ASSUME source \in Seq(Byte), NEW n \in Nat, n < Len(source),
         NEW b, b = source[n + 1]
  PROVE  Extended(Text(n), Lit(b)) = Text(n + 1)
<1>1. PICK t \in Seq(Byte) : t = Text(n) /\ Len(t) = n
        /\ \A k \in 1..n : t[k] = source[k]
  BY TextIs
<1>2. n + 1 \in Nat /\ n + 1 <= Len(source) /\ b \in Byte
  OBVIOUS
<1>3. /\ Append(t, b) \in Seq(Byte) /\ Len(Append(t, b)) = n + 1
      /\ \A k \in 1 .. n + 1 : Append(t, b)[k] = source[k]
  BY <1>1, <1>2
<1>4. Append(t, b) = Text(n + 1)
  BY <1>2, <1>3, IsText
<1>5. Extended(t, Lit(b)) = Append(t, b)
  BY DEF Extended, Lit
<1> QED
  BY <1>1, <1>4, <1>5

(* A match that reaches over itself repeats what lies between its ends.    *)
LEMMA Periodic ==
  ASSUME source \in Seq(Byte), NEW n \in Nat, NEW dist \in Nat \ {0},
         dist <= n, NEW len \in Nat, n + len <= Len(source),
         Repeats(n, dist, len)
  PROVE  \A k \in 1..len :
           source[n + k] = source[(n - dist + 1) + ((k - 1) % dist)]
<1> SUFFICES ASSUME NEW T,
                    T = {m \in Nat : \A k \in 1..len : k <= m =>
                           source[n + k] =
                             source[(n - dist + 1) + ((k - 1) % dist)]}
             PROVE  \A k \in 1..len :
                      source[n + k] = source[(n - dist + 1) + ((k - 1) % dist)]
  OBVIOUS
<1>1. 0 \in T
  OBVIOUS
<1>2. ASSUME NEW m \in Nat, m \in T PROVE m + 1 \in T
  <2>1. ASSUME m + 1 <= len
        PROVE  source[n + (m + 1)] = source[(n - dist + 1) + (m % dist)]
    <3>1. source[n + m + 1] = source[n - dist + m + 1]
      <4>1. m \in 0 .. len - 1
        BY <2>1
      <4> QED
        BY <4>1 DEF Repeats
    <3>2. CASE m < dist
      <4>1. m = dist * 0 + m /\ m \in 0 .. dist - 1 /\ m \in Int
        BY <3>2
      <4>2. m % dist = m
        BY <4>1, ModIs
      <4>3. n + m + 1 = n + (m + 1) /\ n - dist + m + 1 = (n - dist + 1) + m
        OBVIOUS
      <4> QED
        BY <3>1, <4>2, <4>3
    <3>3. CASE m >= dist
      <4>1. PICK q \in Int, r \in 0 .. dist - 1 :
              m % dist = r /\ m = dist * q + r
        <5>1. m \in Int
          OBVIOUS
        <5> QED
          BY <5>1, ModDecomposes
      <4>2. m - dist = dist * (q - 1) + r /\ m - dist \in Int /\ q - 1 \in Int
        BY <4>1
      <4>3. (m - dist) % dist = r
        BY <4>2, ModIs
      <4>4. m + 1 - dist \in 1..len /\ m + 1 - dist <= m
            /\ (m + 1 - dist) - 1 = m - dist
        BY <2>1, <3>3
      <4>5. source[n + (m + 1 - dist)] = source[(n - dist + 1) + r]
        BY <1>2, <4>3, <4>4
      <4>6. n + (m + 1 - dist) = n - dist + m + 1 /\ n + m + 1 = n + (m + 1)
        OBVIOUS
      <4> QED
        BY <3>1, <4>1, <4>5, <4>6
    <3> QED
      BY <3>2, <3>3
  <2>2. ASSUME NEW k \in 1..len, k <= m + 1
        PROVE  source[n + k] = source[(n - dist + 1) + ((k - 1) % dist)]
    <3>1. CASE k <= m
      BY <1>2, <3>1
    <3>2. CASE k = m + 1
      <4>1. k - 1 = m /\ m + 1 <= len
        BY <2>2, <3>2
      <4> QED
        BY <2>1, <3>2, <4>1
    <3> QED
      BY <2>2, <3>1, <3>2
  <2> QED
    BY <2>2
<1>3. \A m \in Nat : m \in T => m + 1 \in T
  BY <1>2
<1>4. len \in T
  BY <1>1, <1>3, Induction
<1> QED
  BY <1>4

(* and a copy of what repeats extends it by its length.                    *)
LEMMA CopyExtends ==
  ASSUME source \in Seq(Byte), NEW n \in Nat, NEW dist \in Nat \ {0},
         dist <= n, NEW len \in Nat, n + len <= Len(source),
         Repeats(n, dist, len)
  PROVE  Extended(Text(n), Copy(dist, len)) = Text(n + len)
<1>1. PICK t \in Seq(Byte) : t = Text(n) /\ Len(t) = n
        /\ \A k \in 1..n : t[k] = source[k]
  <2>1. Len(source) \in Nat
    OBVIOUS
  <2>2. n <= Len(source)
    BY <2>1
  <2> QED
    BY <2>2, TextIs
<1> DEFINE c == [k \in 1..len |-> t[Len(t) - dist + 1 + ((k - 1) % dist)]]
<1>2. ASSUME NEW k \in 1..len
      PROVE  c[k] = source[n + k] /\ c[k] \in Byte
  <2>1. PICK r \in 0 .. dist - 1 : r = (k - 1) % dist
    <3>1. k - 1 \in Int
      OBVIOUS
    <3> QED
      BY <3>1, ModDecomposes
  <2>2. (n - dist + 1) + r \in 1..n
    OBVIOUS
  <2>3. c[k] = t[(n - dist + 1) + r]
    BY <1>1, <2>1
  <2>4. c[k] = source[(n - dist + 1) + r]
    BY <1>1, <2>2, <2>3
  <2>5. source[n + k] = source[(n - dist + 1) + ((k - 1) % dist)]
    BY Periodic
  <2>6. source[n + k] \in Byte
    OBVIOUS
  <2> QED
    BY <2>1, <2>4, <2>5, <2>6
<1>3. c \in Seq(Byte) /\ Len(c) = len
  <2>1. c = [k \in 1..len |-> c[k]]
    OBVIOUS
  <2>2. \A k \in 1..len : c[k] \in Byte
    BY <1>2
  <2> HIDE DEF c
  <2>3. c \in [1..len -> Byte]
    BY <2>1, <2>2
  <2> QED
    BY <2>3
<1>4. Extended(t, Copy(dist, len)) = t \o c
  BY DEF Extended, Copy
<1> HIDE DEF c
<1>5. /\ t \o c \in Seq(Byte) /\ Len(t \o c) = n + len
      /\ \A k \in 1 .. n + len : (t \o c)[k] = IF k <= n THEN t[k] ELSE c[k - n]
  <2>1. /\ t \o c \in Seq(Byte) /\ Len(t \o c) = Len(t) + Len(c)
        /\ \A k \in 1 .. Len(t) + Len(c) :
             (t \o c)[k] = IF k <= Len(t) THEN t[k] ELSE c[k - Len(t)]
    BY <1>3, ConcatProperties
  <2>2. Len(t) = n /\ Len(c) = len
    BY <1>1, <1>3
  <2> QED
    BY <2>1, <2>2
<1>6. ASSUME NEW k \in 1 .. n + len PROVE (t \o c)[k] = source[k]
  <2>0. (t \o c)[k] = IF k <= n THEN t[k] ELSE c[k - n]
    BY <1>5
  <2>1. CASE k <= n
    BY <1>1, <2>0, <2>1
  <2>2. CASE k > n
    <3>1. k - n \in 1..len /\ n + (k - n) = k
      BY <2>2
    <3>2. (t \o c)[k] = c[k - n]
      BY <2>0, <2>2
    <3>3. c[k - n] = source[n + (k - n)]
      BY <1>2, <3>1
    <3> QED
      BY <3>1, <3>2, <3>3
  <2>3. k <= n \/ k > n
    OBVIOUS
  <2> QED
    BY <2>1, <2>2, <2>3
<1>7. n + len \in Nat
  OBVIOUS
<1> QED
  BY <1>1, <1>4, <1>5, <1>6, <1>7, IsText

-----------------------------------------------------------------------------
(* Codes and blocks.                                                       *)
LEMMA CodesAre ==
  /\ \A b \in Byte : Lit(b) \in Code
  /\ \A dist, len \in Nat : Copy(dist, len) \in Code
BY DEF Lit, Copy, Code

(* A block sent raw: the bytes the ring still has.                         *)
LEMMA RawExpands ==
  ASSUME source \in Seq(Byte), block_start \in Nat, NEW d,
         NEW lo \in Nat, NEW hi \in Nat, hi <= Len(source), Ring(d, lo, hi),
         lo <= block_start, NEW total \in Nat, block_start + total <= hi
  PROVE  Expanded(Text(block_start), Raw(d, total)) = Text(block_start + total)
<1> DEFINE b(k) == d[Slot(block_start + k - 1)]
           Reached(m) == Expanded(Text(block_start), Raw(d, m)) =
                           Text(block_start + m)
<1>0. Len(source) \in Nat
  OBVIOUS
<1>1. ASSUME NEW k \in 1..total
      PROVE  b(k) = source[block_start + k] /\ b(k) \in Byte
  <2>1. PICK p \in Nat : p = block_start + k - 1
    OBVIOUS
  <2>2. p \in lo .. hi - 1 /\ p + 1 = block_start + k
        /\ p + 1 \in 1 .. Len(source)
    BY <1>0, <2>1
  <2>3. d[Slot(p)] = source[p + 1]
    BY <2>2 DEF Ring, Window
  <2>4. source[p + 1] \in Byte
    BY <2>2
  <2> QED
    BY <2>1, <2>2, <2>3, <2>4
<1>2. Raw(d, 0) = << >>
  BY DEF Raw
<1>3. ASSUME NEW m \in Nat, m <= total
      PROVE  /\ Raw(d, m) \in Seq(Code) /\ Len(Raw(d, m)) = m
             /\ \A k \in 1..m : Raw(d, m)[k] = Lit(b(k))
  <2>1. \A k \in 1..m : Lit(b(k)) \in Code
    <3>1. \A k \in 1..m : k \in 1..total
      BY <1>3
    <3> QED
      BY <1>1, <3>1, CodesAre
  <2>2. Raw(d, m) = [k \in 1..m |-> Lit(b(k))]
    BY DEF Raw
  <2> HIDE DEF b
  <2>3. Raw(d, m) \in [1..m -> Code]
    BY <2>1, <2>2
  <2> QED
    BY <2>2, <2>3
<1>4. ASSUME NEW m \in Nat, m + 1 <= total
      PROVE  Raw(d, m + 1) = Append(Raw(d, m), Lit(source[block_start + (m + 1)]))
  <2>1. m <= total /\ m + 1 \in Nat /\ m + 1 \in 1..total
    BY <1>4
  <2>2. PICK r \in Seq(Code) : r = Raw(d, m) /\ Len(r) = m
          /\ \A k \in 1..m : r[k] = Lit(b(k))
    BY <1>3, <2>1
  <2>3. PICK q \in Seq(Code) : q = Raw(d, m + 1) /\ Len(q) = m + 1
          /\ \A k \in 1 .. m + 1 : q[k] = Lit(b(k))
    BY <1>3, <2>1
  <2>4. PICK x \in Code : x = Lit(b(m + 1)) /\ x = Lit(source[block_start + (m + 1)])
    BY <1>1, <2>1, CodesAre
  <2> HIDE DEF b
  <2>5. /\ Append(r, x) \in Seq(Code) /\ Len(Append(r, x)) = m + 1
        /\ \A k \in 1 .. m + 1 : Append(r, x)[k] = IF k <= m THEN r[k] ELSE x
    BY <2>2
  <2>6. \A k \in 1 .. m + 1 : q[k] = Append(r, x)[k]
    <3>1. ASSUME NEW k \in 1 .. m + 1 PROVE q[k] = Append(r, x)[k]
      <4>1. CASE k = m + 1
        BY <2>3, <2>4, <2>5, <4>1
      <4>2. CASE k \in 1..m
        BY <2>2, <2>3, <2>5, <4>2
      <4>3. k = m + 1 \/ k \in 1..m
        OBVIOUS
      <4> QED
        BY <4>1, <4>2, <4>3
    <3> QED
      BY <3>1
  <2>7. q = Append(r, x)
    BY <2>3, <2>5, <2>6, SeqEqual
  <2> QED
    BY <2>2, <2>3, <2>4, <2>7
<1> HIDE DEF b
<1>5. Reached(0)
  BY <1>2, ExpandedByNone
<1>6. ASSUME NEW m \in Nat, m + 1 <= total, Reached(m) PROVE Reached(m + 1)
  <2>1. PICK n \in Nat : n = block_start + m /\ n + 1 = block_start + (m + 1)
          /\ n < Len(source)
    BY <1>0, <1>6
  <2>2. PICK x \in Byte : x = source[n + 1]
    BY <1>0, <2>1
  <2>3. m <= total /\ m \in Nat
    BY <1>6
  <2>4. Raw(d, m) \in Seq(Code)
    BY <1>3, <2>3
  <2>5. Lit(x) \in Code
    BY CodesAre
  <2>6. Expanded(Text(block_start), Append(Raw(d, m), Lit(x))) =
          Extended(Expanded(Text(block_start), Raw(d, m)), Lit(x))
    BY <2>4, <2>5, ExpandedUnfolds
  <2>7. Extended(Text(n), Lit(x)) = Text(n + 1)
    BY <2>1, <2>2, LitExtends
  <2>8. Raw(d, m + 1) = Append(Raw(d, m), Lit(x))
    BY <1>4, <1>6, <2>1, <2>2
  <2> QED
    BY <1>6, <2>1, <2>6, <2>7, <2>8
<1> SUFFICES ASSUME NEW T, T = {m \in Nat : m <= total => Reached(m)}
             PROVE  Reached(total)
  OBVIOUS
<1> HIDE DEF Reached
<1>7. 0 \in T
  BY <1>5
<1>8. \A m \in Nat : m \in T => m + 1 \in T
  <2>1. ASSUME NEW m \in Nat, m \in T, m + 1 <= total PROVE Reached(m + 1)
    <3>1. Reached(m)
      BY <2>1
    <3> QED
      BY <1>6, <2>1, <3>1
  <2> QED
    BY <2>1
<1>9. total \in T
  BY <1>7, <1>8, Induction
<1> QED
  BY <1>9

(* What a block stands for, whether it is sent as codes or raw.            *)
LEMMA BlockPutOut ==
  ASSUME source \in Seq(Byte), block_start \in Nat,
         decoded = Text(block_start), NEW d, NEW lo \in Nat, NEW hi \in Nat,
         hi <= Len(source), Ring(d, lo, hi), NEW f, NEW cs,
         NEW total \in Nat, block_start + total <= hi,
         NEW pos \in Nat, NEW ds \in Nat, lo + ds <= pos,
         Expanded(decoded, cs) = Text(block_start + total),
         FlushBlock(f, cs, total, pos, ds, d)
  PROVE  /\ decoded' = Text(block_start + total)
         /\ block_start' = block_start + total
         /\ codes' = << >> /\ total_lz_bytes' = 0
         /\ final' = IF final # "no" THEN "early"
                     ELSE IF f = "finish" THEN "yes" ELSE "no"
<1>1. PICK expanded \in BOOLEAN :
        decoded' = Expanded(decoded, IF /\ mode = "raw" \/ (expanded /\ total > 0)
                                        /\ StillInDict(pos, ds)
                                     THEN Raw(d, total) ELSE cs)
  BY DEF FlushBlock
<1>2. ASSUME StillInDict(pos, ds)
      PROVE  Expanded(decoded, Raw(d, total)) = Text(block_start + total)
  <2>1. lo <= block_start
    BY <1>2 DEF StillInDict
  <2> QED
    BY <2>1, RawExpands
<1>3. decoded' = Text(block_start + total)
  BY <1>1, <1>2
<1> QED
  BY <1>3 DEF FlushBlock

(* The codes cs lead from position n of the input to position m.           *)
Covers(x) == IF x.lit THEN 1 ELSE x.len

Leads(x, n, m) ==
  x \in Code /\ Extended(Text(n), x) = Text(m) /\ Covers(x) = m - n

Reaches(cs, n, m) ==
  \/ cs = << >> /\ m = n
  \/ \E x : cs = <<x>> /\ Leads(x, n, m)
  \/ \E x, y : \E k \in Nat : cs = <<x, y>> /\ Leads(x, n, k) /\ Leads(y, k, m)

(* A code covers a number of bytes.                                        *)
LEMMA CoversSome ==
  ASSUME NEW x \in Code
  PROVE  Covers(x) \in Nat
BY DEF Code, Covers

(* Codes that lead from one position to another, behind those that lead to *)
(* the first.                                                              *)
LEMMA CodesAppended ==
  ASSUME codes \in Seq(Code), NEW n \in Nat, NEW m \in Nat, NEW cs,
         Reaches(cs, n, m), Expanded(decoded, codes) = Text(n)
  PROVE  /\ codes \o cs \in Seq(Code)
         /\ Expanded(decoded, codes \o cs) = Text(m)
         /\ Bytes(cs) = m - n /\ n <= m
<1>1. CASE cs = << >> /\ m = n
  <2>1. codes \o << >> = codes
    OBVIOUS
  <2>2. Bytes(<< >>) = 0
    BY DEF Bytes
  <2> QED
    BY <1>1, <2>1, <2>2
<1>2. CASE \E x : cs = <<x>> /\ Leads(x, n, m)
  <2>1. PICK x \in Code : cs = <<x>> /\ Extended(Text(n), x) = Text(m)
                           /\ Covers(x) = m - n
    BY <1>2 DEF Leads
  <2>2. codes \o <<x>> = Append(codes, x) /\ Append(codes, x) \in Seq(Code)
    OBVIOUS
  <2>3. Expanded(decoded, Append(codes, x)) =
          Extended(Expanded(decoded, codes), x)
    BY ExpandedUnfolds
  <2>4. Bytes(<<x>>) = Covers(x) + 0
    BY DEF Bytes, Covers
  <2>5. Bytes(<<x>>) = m - n /\ n <= m
    BY <2>1, <2>4, CoversSome
  <2> QED
    BY <2>1, <2>2, <2>3, <2>5
<1>3. CASE \E x, y : \E k \in Nat :
             cs = <<x, y>> /\ Leads(x, n, k) /\ Leads(y, k, m)
  <2>1. PICK x \in Code, y \in Code, k \in Nat :
          /\ cs = <<x, y>>
          /\ Extended(Text(n), x) = Text(k) /\ Covers(x) = k - n
          /\ Extended(Text(k), y) = Text(m) /\ Covers(y) = m - k
    BY <1>3 DEF Leads
  <2>2. PICK c \in Seq(Code) : c = Append(codes, x)
    <3>1. Append(codes, x) \in Seq(Code)
      OBVIOUS
    <3> QED
      BY <3>1
  <2>3. codes \o <<x, y>> = Append(c, y) /\ Append(c, y) \in Seq(Code)
    BY <2>2
  <2>4. Expanded(decoded, c) = Extended(Expanded(decoded, codes), x)
    BY <2>2, ExpandedUnfolds
  <2>5. Expanded(decoded, Append(c, y)) = Extended(Expanded(decoded, c), y)
    BY ExpandedUnfolds
  <2>6. Bytes(<<x, y>>) = Covers(x) + Covers(y)
    BY DEF Bytes, Covers
  <2>7. Bytes(<<x, y>>) = m - n /\ n <= m
    <3>1. k - n \in Nat /\ m - k \in Nat
      BY <2>1, CoversSome
    <3> QED
      BY <2>1, <2>6, <3>1
  <2> QED
    BY <2>1, <2>3, <2>4, <2>5, <2>7
<1> QED
  BY <1>1, <1>2, <1>3 DEF Reaches

(* A literal leads one position on,                                        *)
LEMMA LitLeads ==
  ASSUME source \in Seq(Byte), NEW n \in Nat, n < Len(source),
         NEW b, b = source[n + 1]
  PROVE  Leads(Lit(b), n, n + 1)
<1>1. b \in Byte
  OBVIOUS
<1>2. Covers(Lit(b)) = (n + 1) - n
  BY DEF Covers, Lit
<1> QED
  BY <1>1, <1>2, LitExtends, CodesAre DEF Leads

(* and a copy as many as it is long.                                       *)
LEMMA CopyLeads ==
  ASSUME source \in Seq(Byte), NEW n \in Nat, NEW dist \in Nat \ {0},
         dist <= n, NEW len \in Nat, n + len <= Len(source),
         Repeats(n, dist, len)
  PROVE  Leads(Copy(dist, len), n, n + len)
<1>1. Copy(dist, len) \in Code
  BY CodesAre
<1>2. Covers(Copy(dist, len)) = (n + len) - n
  BY DEF Covers, Copy
<1> QED
  BY <1>1, <1>2, CopyExtends DEF Leads

-----------------------------------------------------------------------------
(* The lazy parse.  A match held back, s, begins before pos, and la bytes  *)
(* are looked ahead to from there.                                         *)
HeldBack(s, pos, la) ==
  s.len > 0 =>
    /\ 1 < s.len /\ s.len - 1 <= la
    /\ s.dist > 0 /\ s.dist < pos /\ s.byte = source[pos]
    /\ Repeats(pos - 1, s.dist, s.len)

(* A match found, or none; one better than that held back is a match.      *)
GoodMatch(w, la) ==
  /\ w.dist \in Nat /\ w.len \in Nat
  /\ w.dist > 0 => /\ w.dist <= lookahead_pos /\ 1 < w.len /\ w.len <= la
                   /\ Repeats(lookahead_pos, w.dist, w.len)
  /\ saved.len > 0 /\ w.len > saved.len => w.dist > 0

(* What the search for matches may find in the ring does repeat.           *)
LEMMA MatchesAreGood ==
  ASSUME saved.len \in Nat, saved.len # 1, lookahead_pos \in Nat,
         NEW d, NEW ds \in Nat, ds <= lookahead_pos,
         NEW la \in Nat, NEW hi \in Nat, lookahead_pos + la <= hi,
         Ring(d, lookahead_pos - ds, hi),
         NEW m \in Matches(d, la, ds)
  PROVE  GoodMatch(Worth(m), la)
<1> DEFINE least == IF saved.len > 0 THEN saved.len ELSE MinMatch - 1
           none == [dist |-> 0, len |-> 0]
<1>1. least \in Nat /\ 1 <= least /\ (saved.len > 0 => 1 < least)
  BY SizesAre
<1>2. ASSUME NEW x \in 1..ds
      PROVE  /\ MatchAt(d, x, la).dist = x /\ MatchAt(d, x, la).len \in 0..la
             /\ Repeats(lookahead_pos, x, MatchAt(d, x, la).len)
  <2>1. /\ lookahead_pos - ds \in Nat /\ x \in Nat \ {0}
        /\ (lookahead_pos - ds) + x <= lookahead_pos
    OBVIOUS
  <2> QED
    BY <2>1, MatchRepeats
<1>3. \/ m = [dist |-> 0, len |-> least]
      \/ m = none
      \/ \E x \in 1..ds : m = MatchAt(d, x, la) /\ 1 < m.len
  <2>1. CASE mode = "raw" \/ (mode = "rle" /\ ds = 0)
    <3>1. Matches(d, la, ds) = {[dist |-> 0, len |-> least]}
      BY <2>1 DEF Matches
    <3> QED
      BY <3>1
  <2>2. CASE mode = "rle" /\ ds > 0
    <3>1. m \in IF MatchAt(d, 1, la).len < MinMatch THEN {none}
                ELSE {MatchAt(d, 1, la)}
      BY <2>2 DEF Matches
    <3>2. 1 \in 1..ds
      BY <2>2
    <3>3. MatchAt(d, 1, la).len \in Nat
      BY <1>2, <3>2
    <3>4. ~(MatchAt(d, 1, la).len < MinMatch) => 1 < MatchAt(d, 1, la).len
      BY <3>3, SizesAre
    <3> QED
      BY <3>1, <3>2, <3>4
  <2>3. CASE ~(mode = "raw" \/ mode = "rle")
    <3>1. Matches(d, la, ds) = FindMatch(d, la, ds, least)
      BY <2>3 DEF Matches
    <3>2. m \in {[dist |-> 0, len |-> least]}
                  \cup {n \in {MatchAt(d, x, la) : x \in 1..ds} : n.len > least}
      BY <3>1 DEF FindMatch
    <3>3. CASE m = [dist |-> 0, len |-> least]
      BY <3>3
    <3>4. CASE m \in {MatchAt(d, x, la) : x \in 1..ds} /\ m.len > least
      <4>1. PICK x \in 1..ds : m = MatchAt(d, x, la)
        BY <3>4
      <4>2. m.len \in Nat
        BY <1>2, <4>1
      <4> HIDE DEF least
      <4>3. 1 < m.len
        BY <1>1, <3>4, <4>2
      <4> QED
        BY <4>1, <4>3
    <3> HIDE DEF least
    <3> QED
      BY <3>2, <3>3, <3>4
  <2>4. ds = 0 \/ ds > 0
    OBVIOUS
  <2> QED
    BY <2>1, <2>2, <2>3, <2>4
<1>4. Worth(m) = m \/ Worth(m) = none
  BY DEF Worth
<1>5. GoodMatch(none, la)
  BY DEF GoodMatch
<1>6. CASE m = [dist |-> 0, len |-> least]
  <2>1. m.dist = 0 /\ m.len = least
    BY <1>6
  <2>2. saved.len > 0 => ~(m.len > saved.len)
    BY <2>1
  <2>3. GoodMatch(m, la)
    BY <1>1, <2>1, <2>2 DEF GoodMatch
  <2> HIDE DEF none
  <2> QED
    BY <1>4, <1>5, <2>3
<1>7. CASE m = none
  BY <1>4, <1>5, <1>7
<1>8. CASE \E x \in 1..ds : m = MatchAt(d, x, la) /\ 1 < m.len
  <2>1. PICK x \in 1..ds : m = MatchAt(d, x, la) /\ 1 < m.len
    BY <1>8
  <2>2. m.dist = x /\ m.len \in 0..la /\ Repeats(lookahead_pos, x, m.len)
    BY <1>2, <2>1
  <2>3. x \in Nat /\ x > 0 /\ x <= lookahead_pos
    OBVIOUS
  <2>4. m.len \in Nat /\ m.len <= la
    BY <2>2
  <2>5. GoodMatch(m, la)
    BY <2>1, <2>2, <2>3, <2>4 DEF GoodMatch
  <2> HIDE DEF none
  <2> QED
    BY <1>4, <1>5, <2>5
<1> HIDE DEF none, least
<1> QED
  BY <1>3, <1>6, <1>7, <1>8

HeldLits(s) == IF s.len > 0 THEN 1 ELSE 0

(* What the lazy parse chooses leads the codes on as far as it moves.      *)
Chosen(c, la) ==
  /\ c.move \in 1..la
  /\ c.saved \in [dist : Nat, len : Nat, byte : Byte]
  /\ HeldBack(c.saved, lookahead_pos + c.move, la - c.move)
  /\ Reaches(c.codes, lookahead_pos - HeldLits(saved),
             (lookahead_pos + c.move) - HeldLits(c.saved))

(* No match held back is a match of length 0.                              *)
LEMMA NothingHeldBack ==
  NoMatch \in [dist : Nat, len : Nat, byte : Byte] /\ NoMatch.len = 0
BY DEF NoMatch, Byte

(* Whatever the lazy parser chooses, it records codes that lead to where   *)
(* it goes on.                                                             *)
LEMMA ChoiceIsGood ==
  ASSUME source \in Seq(Byte), lookahead_pos \in Nat, NEW la \in Nat \ {0},
         lookahead_pos + la <= Len(source),
         saved \in [dist : Nat, len : Nat, byte : Byte],
         HeldBack(saved, lookahead_pos, la),
         NEW w, GoodMatch(w, la), NEW b, b = source[lookahead_pos + 1]
  PROVE  Chosen(Choice(w, b), la)
<1> DEFINE c == Choice(w, b)
           held == [dist |-> w.dist, len |-> w.len, byte |-> b]
<1> SUFFICES Chosen(c, la)
  OBVIOUS
<1>0. PICK n \in Nat : n = lookahead_pos
  OBVIOUS
<1>1. /\ Len(source) \in Nat /\ w.dist \in Nat /\ w.len \in Nat
      /\ b \in Byte /\ b = source[n + 1]
      /\ n + 1 <= Len(source) /\ n + la <= Len(source)
      /\ saved.len \in Nat /\ saved.dist \in Nat
  BY <1>0 DEF GoodMatch
(* A match that is held back from here.                                    *)
<1>2. ASSUME w.dist > 0
      PROVE  /\ held \in [dist : Nat, len : Nat, byte : Byte]
             /\ HeldBack(held, n + 1, la - 1) /\ HeldLits(held) = 1
  <2>1. held.dist = w.dist /\ held.len = w.len /\ held.byte = b
    OBVIOUS
  <2>2. held \in [dist : Nat, len : Nat, byte : Byte]
    BY <1>1
  <2>3. /\ w.dist <= n /\ 1 < w.len /\ w.len <= la
        /\ Repeats(n, w.dist, w.len)
    BY <1>0, <1>2 DEF GoodMatch
  <2> HIDE DEF held
  <2>4. /\ w.len > 0 /\ w.len - 1 <= la - 1 /\ w.dist < n + 1
        /\ (n + 1) - 1 = n
    BY <1>1, <2>3
  <2> QED
    BY <1>1, <1>2, <2>1, <2>2, <2>3, <2>4 DEF HeldBack, HeldLits
<1> HIDE DEF held
<1>3. CASE saved.len > 0
  <2>1. /\ 1 < saved.len /\ saved.len - 1 <= la
        /\ saved.dist > 0 /\ saved.dist < n /\ saved.byte = source[n]
        /\ Repeats(n - 1, saved.dist, saved.len)
    BY <1>0, <1>3 DEF HeldBack
  <2>2. PICK k \in Nat : k = n - 1 /\ k + 1 = n /\ k < Len(source)
          /\ saved.dist <= k
    BY <1>1, <2>1
  <2>3. HeldLits(saved) = 1
    BY <1>3 DEF HeldLits
  <2>4. Leads(Lit(saved.byte), k, n)
    BY <2>1, <2>2, LitLeads
  <2>5. CASE w.len <= saved.len
    <3>1. /\ c.codes = <<Copy(saved.dist, saved.len)>> /\ c.saved = NoMatch
          /\ c.move = saved.len - 1
      BY <1>3, <2>5 DEF Choice
    <3>2. PICK len \in Nat, dist \in Nat \ {0} : len = saved.len /\ dist = saved.dist
      BY <1>1, <2>1
    <3>3. k + len <= Len(source)
      BY <1>1, <2>1, <2>2, <3>2
    <3>4. dist <= k /\ Repeats(k, dist, len)
      BY <2>1, <2>2, <3>2
    <3>5. Leads(Copy(dist, len), k, k + len)
      BY <3>3, <3>4, CopyLeads
    <3>6. k + len = (n + c.move) - 0 /\ c.move \in 1..la
      <4>1. c.move = len - 1 /\ 1 < len /\ len - 1 <= la
        BY <2>1, <3>1, <3>2
      <4>2. c.move \in 1..la
        BY <4>1
      <4>3. k + len = (n + (len - 1)) - 0
        BY <2>2
      <4> QED
        BY <4>1, <4>2, <4>3
    <3>7. HeldLits(c.saved) = 0 /\ HeldBack(c.saved, n + c.move, la - c.move)
          /\ c.saved \in [dist : Nat, len : Nat, byte : Byte]
      BY <3>1, NothingHeldBack DEF HeldLits, HeldBack
    <3>8. Reaches(c.codes, n - 1, (n + c.move) - 0)
      BY <2>2, <3>1, <3>2, <3>5, <3>6 DEF Reaches
    <3> HIDE DEF c
    <3> QED
      BY <1>0, <2>3, <3>6, <3>7, <3>8 DEF Chosen
  <2>6. CASE ~(w.len <= saved.len)
    <3>1. w.len > saved.len /\ w.dist > 0
      BY <1>1, <1>3, <2>6 DEF GoodMatch
    <3>2. PICK len \in Nat, dist \in Nat \ {0} :
            /\ len = w.len /\ dist = w.dist
            /\ dist <= n /\ 1 < len /\ len <= la /\ Repeats(n, dist, len)
      BY <1>0, <1>1, <3>1 DEF GoodMatch
    <3>3. CASE w.len >= LongMatch
      <4>1. /\ c.codes = <<Lit(saved.byte), Copy(w.dist, w.len)>>
            /\ c.saved = NoMatch /\ c.move = w.len
        BY <1>3, <2>6, <3>3 DEF Choice
      <4>2. n + len <= Len(source)
        BY <1>1, <3>2
      <4>3. Leads(Copy(dist, len), n, n + len)
        BY <3>2, <4>2, CopyLeads
      <4>4. HeldLits(c.saved) = 0 /\ HeldBack(c.saved, n + c.move, la - c.move)
            /\ c.saved \in [dist : Nat, len : Nat, byte : Byte]
        BY <4>1, NothingHeldBack DEF HeldLits, HeldBack
      <4>5. c.move \in 1..la /\ (n + c.move) - 0 = n + len
        BY <3>2, <4>1
      <4>6. Reaches(c.codes, n - 1, (n + c.move) - 0)
        BY <2>2, <2>4, <3>2, <4>1, <4>3, <4>5 DEF Reaches
      <4> HIDE DEF c
      <4> QED
        BY <1>0, <2>3, <4>4, <4>5, <4>6 DEF Chosen
    <3>4. CASE ~(w.len >= LongMatch)
      <4>1. c.codes = <<Lit(saved.byte)>> /\ c.saved = held /\ c.move = 1
        BY <1>3, <2>6, <3>4 DEF Choice, held
      <4>2. c.move \in 1..la /\ (n + 1) - 1 = n
        BY <4>1
      <4>3. Reaches(c.codes, n - 1, (n + 1) - 1)
        BY <2>2, <2>4, <4>1, <4>2 DEF Reaches
      <4> HIDE DEF c
      <4> QED
        BY <1>0, <1>2, <2>3, <3>1, <4>1, <4>2, <4>3 DEF Chosen
    <3> QED
      BY <3>3, <3>4
  <2> QED
    BY <2>5, <2>6
<1>4. CASE ~(saved.len > 0)
  <2>1. HeldLits(saved) = 0 /\ n - 0 = n
    BY <1>4 DEF HeldLits
  <2>2. CASE w.dist = 0
    <3>1. c.codes = <<Lit(b)>> /\ c.saved = NoMatch /\ c.move = 1
      BY <1>4, <2>2 DEF Choice
    <3>2. Leads(Lit(b), n, n + 1)
      <4>1. n < Len(source)
        BY <1>1
      <4> QED
        BY <1>1, <4>1, LitLeads
    <3>3. HeldLits(c.saved) = 0 /\ HeldBack(c.saved, n + c.move, la - c.move)
          /\ c.saved \in [dist : Nat, len : Nat, byte : Byte]
      BY <3>1, NothingHeldBack DEF HeldLits, HeldBack
    <3>4. c.move \in 1..la /\ (n + c.move) - 0 = n + 1
      BY <3>1
    <3>5. Reaches(c.codes, n - 0, (n + c.move) - 0)
      BY <2>1, <3>1, <3>2, <3>4 DEF Reaches
    <3> HIDE DEF c
    <3> QED
      BY <1>0, <2>1, <3>3, <3>4, <3>5 DEF Chosen
  <2>3. CASE w.dist # 0
    <3>1. w.dist > 0
      BY <1>1, <2>3
    <3>2. PICK len \in Nat, dist \in Nat \ {0} :
            /\ len = w.len /\ dist = w.dist
            /\ dist <= n /\ 1 < len /\ len <= la /\ Repeats(n, dist, len)
      BY <1>0, <1>1, <3>1 DEF GoodMatch
    <3>3. CASE mode \in {"greedy", "rle"} \/ w.len >= LongMatch
      <4>1. /\ c.codes = <<Copy(w.dist, w.len)>>
            /\ c.saved = NoMatch /\ c.move = w.len
        BY <1>4, <2>3, <3>3 DEF Choice
      <4>2. n + len <= Len(source)
        BY <1>1, <3>2
      <4>3. Leads(Copy(dist, len), n, n + len)
        BY <3>2, <4>2, CopyLeads
      <4>4. HeldLits(c.saved) = 0 /\ HeldBack(c.saved, n + c.move, la - c.move)
            /\ c.saved \in [dist : Nat, len : Nat, byte : Byte]
        BY <4>1, NothingHeldBack DEF HeldLits, HeldBack
      <4>5. c.move \in 1..la /\ (n + c.move) - 0 = n + len
        BY <3>2, <4>1
      <4>6. Reaches(c.codes, n - 0, (n + c.move) - 0)
        BY <2>1, <3>2, <4>1, <4>3, <4>5 DEF Reaches
      <4> HIDE DEF c
      <4> QED
        BY <1>0, <2>1, <4>4, <4>5, <4>6 DEF Chosen
    <3>4. CASE ~(mode \in {"greedy", "rle"} \/ w.len >= LongMatch)
      <4>1. c.codes = << >> /\ c.saved = held /\ c.move = 1
        BY <1>4, <2>3, <3>4 DEF Choice, held
      <4>2. c.move \in 1..la /\ (n + 1) - 1 = n
        BY <4>1
      <4>3. Reaches(c.codes, n - 0, (n + 1) - 1)
        BY <2>1, <4>1, <4>2 DEF Reaches
      <4> HIDE DEF c
      <4> QED
        BY <1>0, <1>2, <2>1, <3>1, <4>1, <4>2, <4>3 DEF Chosen
    <3> QED
      BY <3>3, <3>4
  <2> QED
    BY <2>2, <2>3
<1> QED
  BY <1>3, <1>4

-----------------------------------------------------------------------------
(* A step of a parse.                                                      *)
LEMMA CodedFacts ==
  ASSUME StreamValid
  PROVE  /\ Coded = lookahead_pos - HeldLits(saved)
         /\ Coded \in Nat /\ Coded <= lookahead_pos
         /\ HeldBack(saved, lookahead_pos, lookahead_size)
         /\ saved \in [dist : Nat, len : Nat, byte : Byte]
         /\ saved.len > 0 => mode # "fast"
         /\ decoded = Text(block_start) /\ block_start + total_lz_bytes = Coded
         /\ codes \in Seq(Code) /\ Expanded(decoded, codes) = Text(Coded)
<1>1. saved \in [dist : Nat, len : Nat, byte : Byte] /\ lookahead_pos \in Nat
      /\ codes \in Seq(Code)
  BY DEF StreamValid, TypeOK
<1>2. /\ saved.len > 0 => mode # "fast"
      /\ HeldBack(saved, lookahead_pos, lookahead_size)
  BY DEF StreamValid, SavedValid, CodesStandForInput, HeldBack
<1>3. Coded = lookahead_pos - HeldLits(saved)
  BY DEF Coded, HeldLits
<1>4. Coded \in Nat /\ Coded <= lookahead_pos
  <2>1. CASE saved.len > 0
    <3>1. saved.dist \in Nat /\ saved.dist > 0 /\ saved.dist < lookahead_pos
      BY <1>1, <1>2, <2>1 DEF HeldBack
    <3> QED
      BY <1>1, <2>1, <3>1 DEF Coded
  <2>2. CASE ~(saved.len > 0)
    BY <1>1, <2>2 DEF Coded
  <2> QED
    BY <2>1, <2>2
<1>5. Expanded(decoded, codes) = Text(Coded)
  BY DEF StreamValid, CodesStandForInput, Text, Coded
<1> QED
  BY <1>1, <1>2, <1>3, <1>4, <1>5 DEF StreamValid, BlockValid

(* What is written takes room.                                             *)
LEMMA PutOutKeepsRoom ==
  ASSUME room \in Nat, written \in Nat, NEW n \in BlockSizes, PutOut(n)
  PROVE  /\ pending' \in Nat /\ room' \in Nat /\ written' \in Nat
         /\ room' + written' = room + written
<1>1. n \in Nat
  BY SizesAssumption
<1>2. PICK k \in Nat : k = Min({n, room}) /\ k <= n /\ k <= room
  BY <1>1, MinIs
<1>3. pending' = n - k /\ room' = room - k /\ written' = written + k
  BY <1>2 DEF PutOut
<1> QED
  BY <1>1, <1>2, <1>3

(* A move on along codes that lead there keeps the stream true to the      *)
(* source,                                                                 *)
LEMMA MovedKeepsStream ==
  ASSUME StreamValid, pc \in {"parse", "fast"},
         NEW cs, NEW m \in Nat, NEW la \in Nat, m <= la, la <= Ahead,
         NEW ds \in Nat, ds <= lookahead_pos, ds + la <= DictSize,
         NEW d, Ring(d, lookahead_pos - ds, lookahead_pos + la),
         NEW inner \in {"parse", "fast"}, inner = "fast" => mode = "fast",
         Moved(cs, m, la, ds, d, inner),
         Reaches(cs, Coded, (lookahead_pos + m) - HeldLits(saved')),
         saved' \in [dist : Nat, len : Nat, byte : Byte],
         saved'.len > 0 => mode # "fast",
         HeldBack(saved', lookahead_pos + m, la - m),
         dict' = d, taken' = lookahead_pos + la,
         lookahead_pos + la <= offered,
         UNCHANGED <<const, call, status, ending>>
  PROVE  /\ StreamValid' /\ pc' # "idle"
         /\ room' + written' = room + written
<1>0. /\ source \in Seq(Byte) /\ Len(source) \in Nat
      /\ offered \in Nat /\ offered <= Len(source)
      /\ lookahead_pos \in Nat
      /\ total_lz_bytes \in Nat /\ block_start \in Nat
      /\ room \in Nat /\ written \in Nat /\ pending \in Nat
  BY Numbers
<1>1. /\ UNCHANGED <<source, mode, offered, flush, before, status, adler,
                     wants_to_finish, finished, prev_status>>
      /\ trailer' = trailer
  BY DEF const, call, ending, Moved
<1>2. ~finished /\ final = "no" /\ pending = 0
      /\ (flush = "finish" => wants_to_finish)
  BY DEF StreamValid, EndValid, PositionsValid
<1> DEFINE n == (lookahead_pos + m) - HeldLits(saved')
           cs1 == codes \o cs
           total == total_lz_bytes + Bytes(cs)
           ds1 == Min({ds + m, DictSize})
<1>3. n \in Nat /\ n <= lookahead_pos + m
  <2>1. CASE saved'.len > 0
    <3>1. saved'.dist \in Nat /\ saved'.dist > 0 /\ saved'.dist < lookahead_pos + m
      BY <2>1 DEF HeldBack
    <3> QED
      BY <1>0, <2>1, <3>1 DEF HeldLits
  <2>2. CASE ~(saved'.len > 0)
    BY <1>0, <2>2 DEF HeldLits
  <2> QED
    BY <2>1, <2>2
<1>4. /\ decoded = Text(block_start) /\ block_start + total_lz_bytes = Coded
      /\ codes \in Seq(Code) /\ Expanded(decoded, codes) = Text(Coded)
      /\ Coded \in Nat
  BY CodedFacts
<1>5. /\ cs1 \in Seq(Code) /\ Expanded(decoded, cs1) = Text(n)
      /\ Bytes(cs) = n - Coded /\ Coded <= n
  <2> HIDE DEF n
  <2> QED
    BY <1>3, <1>4, CodesAppended DEF n
<1>6. total \in Nat /\ block_start + total = n
  <2> HIDE DEF n
  <2> QED
    BY <1>0, <1>3, <1>4, <1>5
<1>7. ds1 = ds + m /\ ds + m \in Nat
  <2>1. ds + m <= DictSize /\ ds + m \in Int /\ DictSize \in Int
    BY SizesAre
  <2> QED
    BY <2>1, MinIs
<1>8. /\ lookahead_pos' = lookahead_pos + m /\ lookahead_size' = la - m
      /\ dict_size' = ds + m
  BY <1>7 DEF Moved
<1>9. IF BlockIsFull(cs1, total)
      THEN /\ FlushBlock("none", cs1, total, lookahead_pos + m, ds1, d)
           /\ \E k \in BlockSizes : PutOut(k)
           /\ pc' = IF pending' > 0 THEN "parsed" ELSE inner
      ELSE /\ codes' = cs1 /\ total_lz_bytes' = total
           /\ pc' = inner
           /\ UNCHANGED <<block_start, decoded, final, output>>
  BY DEF Moved
<1> HIDE DEF n, cs1, total, ds1
<1>10. /\ codes' \in Seq(Code) /\ Expanded(decoded', codes') = Text(n)
       /\ decoded' = Text(block_start') /\ block_start' \in Nat
       /\ total_lz_bytes' \in Nat /\ block_start' + total_lz_bytes' = n
       /\ block_start' <= n
       /\ final' = "no"
       /\ pending' \in Nat /\ room' \in Nat /\ written' \in Nat
       /\ room' + written' = room + written
       /\ pc' \in {"parse", "fast", "parsed"}
       /\ pc' = "fast" => mode = "fast"
       /\ pc' \in {"parse", "fast"} => pending' = 0
  <2>1. CASE BlockIsFull(cs1, total)
    <3>1. /\ FlushBlock("none", cs1, total, lookahead_pos + m, ds + m, d)
          /\ pc' = IF pending' > 0 THEN "parsed" ELSE inner
      BY <1>7, <1>9, <2>1
    <3>2. PICK k \in BlockSizes : PutOut(k)
      BY <1>9, <2>1
    <3>3. /\ pending' \in Nat /\ room' \in Nat /\ written' \in Nat
          /\ room' + written' = room + written
      BY <1>0, <3>2, PutOutKeepsRoom
    <3>4. PICK lo \in Nat, hi \in Nat, pos \in Nat, size \in Nat, f \in {"none"} :
            /\ lo = lookahead_pos - ds /\ hi = lookahead_pos + la
            /\ pos = lookahead_pos + m /\ size = ds + m
      BY <1>0, <1>7
    <3>5. /\ hi <= Len(source) /\ block_start + total <= hi /\ lo + size <= pos
          /\ Ring(d, lo, hi) /\ FlushBlock(f, cs1, total, pos, size, d)
      BY <1>0, <1>3, <1>6, <3>1, <3>4
    <3>6. /\ decoded' = Text(block_start + total)
          /\ block_start' = block_start + total
          /\ codes' = << >> /\ total_lz_bytes' = 0
          /\ final' = IF final # "no" THEN "early"
                      ELSE IF f = "finish" THEN "yes" ELSE "no"
      <4>1. Expanded(decoded, cs1) = Text(block_start + total)
        BY <1>5, <1>6
      <4> QED
        BY <1>0, <1>4, <1>6, <3>5, <4>1, BlockPutOut
    <3>7. Expanded(decoded', codes') = Text(n) /\ codes' \in Seq(Code)
      BY <1>6, <3>6, ExpandedByNone
    <3>8. final' = "no"
      BY <1>2, <3>6
    <3>9. block_start' \in Nat /\ block_start' + total_lz_bytes' = n
          /\ block_start' <= n
      BY <1>3, <1>6, <3>6
    <3>10. decoded' = Text(block_start')
      BY <3>6
    <3>11. /\ pc' \in {"parse", "fast", "parsed"}
           /\ pc' = "fast" => mode = "fast"
           /\ pc' \in {"parse", "fast"} => pending' = 0
      BY <3>1, <3>3
    <3> QED
      BY <3>3, <3>6, <3>7, <3>8, <3>9, <3>10, <3>11
  <2>2. CASE ~BlockIsFull(cs1, total)
    <3>1. /\ codes' = cs1 /\ total_lz_bytes' = total /\ pc' = inner
          /\ UNCHANGED <<block_start, decoded, final, room, written, pending>>
      BY <1>9, <2>2 DEF output
    <3>2. block_start <= n
      BY <1>0, <1>3, <1>6
    <3> QED
      BY <1>0, <1>2, <1>4, <1>5, <1>6, <3>1, <3>2
  <2> QED
    BY <2>1, <2>2
<1>11. TypeOK'
  <2>1. decoded' \in Seq(Byte)
    <3>1. block_start' <= Len(source)
      BY <1>0, <1>3, <1>10
    <3> QED
      BY <1>0, <1>10, <3>1, TextIs
  <2>2. la - m \in Nat /\ lookahead_pos + m \in Nat /\ lookahead_pos + la \in Nat
    BY <1>0
  <2>3. dict' \in [0 .. DictSize + MaxMatch - 2 -> Byte]
    BY DEF Ring
  <2> QED
    BY <1>1, <1>7, <1>8, <1>10, <2>1, <2>2, <2>3 DEF StreamValid, TypeOK
<1>12. PositionsValid'
  <2>1. ds + m <= lookahead_pos + m /\ la - m <= Ahead
    <3>1. Ahead \in Nat
      BY SizesAre DEF Ahead
    <3> QED
      BY <1>0, <3>1
  <2> QED
    BY <1>0, <1>1, <1>8, <1>10, <2>1 DEF PositionsValid, Ahead
<1>13. DictionaryHoldsWindow'
  <2>1. /\ (lookahead_pos + m) + (la - m) = lookahead_pos + la
        /\ (ds + m) + (la - m) <= DictSize
        /\ (lookahead_pos + m) - (ds + m) = lookahead_pos - ds
    BY <1>0, SizesAre
  <2>2. \A p \in lookahead_pos - ds .. (lookahead_pos + la) - 1 :
          d[Slot(p)] = source[p + 1]
    BY DEF Ring, Window
  <2>3. \A s \in 0 .. MaxMatch - 2 : lookahead_pos + la > s =>
          d[DictSize + s] = d[s]
    BY DEF Ring, Repeated
  <2> QED
    BY <1>1, <1>8, <2>1, <2>2, <2>3 DEF DictionaryHoldsWindow, Slot
<1>14. SavedValid'
  BY <1>1, <1>8 DEF SavedValid, HeldBack, Repeats
<1>15. Coded' = n
  BY <1>8 DEF Coded, n, HeldLits
<1>16. BlockValid'
  BY <1>1, <1>10, <1>15 DEF BlockValid, Text
<1>17. CodesStandForInput'
  <2>1. Expanded(decoded', codes') = SubSeq(source', 1, Coded')
    BY <1>1, <1>10, <1>15 DEF Text
  <2>2. saved'.len > 0 => saved'.len - 1 <= lookahead_size'
    BY <1>8 DEF HeldBack
  <2> QED
    BY <2>1, <2>2 DEF CodesStandForInput, Coded, Expanded
<1>18. EndValid'
  BY <1>1, <1>2, <1>10 DEF StreamValid, EndValid
<1> QED
  BY <1>10, <1>11, <1>12, <1>13, <1>14, <1>16, <1>17, <1>18 DEF StreamValid

(* How much a fill reads, and what of the dictionary it leaves.            *)
LEMMA FillNumbers ==
  ASSUME StreamValid, NEW most \in Nat, most <= DictSize,
         lookahead_size <= most
  PROVE  \E num \in Nat, ds \in Nat :
           /\ num = Min({offered - taken, most - lookahead_size})
           /\ ds = Min({DictSize - (lookahead_size + num), dict_size})
           /\ num <= offered - taken /\ lookahead_size + num <= most
           /\ offered = taken \/ lookahead_size = most \/ num > 0
           /\ ds <= dict_size /\ ds + lookahead_size + num <= DictSize
<1>1. /\ taken \in Nat /\ offered \in Nat /\ taken <= offered
      /\ dict_size \in Nat /\ lookahead_size \in Nat
  BY Numbers
<1>2. PICK num \in Nat :
        /\ num = Min({offered - taken, most - lookahead_size})
        /\ num <= offered - taken /\ lookahead_size + num <= most
        /\ offered = taken \/ lookahead_size = most \/ num > 0
  <2>1. offered - taken \in Nat /\ most - lookahead_size \in Nat
    BY <1>1
  <2>2. PICK a \in Nat, b \in Nat : a = offered - taken /\ b = most - lookahead_size
    BY <2>1
  <2>3. PICK num \in Nat : num = Min({a, b}) /\ num <= a /\ num <= b
                           /\ (a = 0 \/ b = 0 \/ num > 0)
    BY MinIs
  <2> QED
    BY <1>1, <2>2, <2>3
<1>3. DictSize - (lookahead_size + num) \in Nat
  BY <1>1, <1>2, SizesAre
<1>4. PICK a \in Nat : a = DictSize - (lookahead_size + num)
  BY <1>3
<1>5. PICK ds \in Nat : ds = Min({a, dict_size}) /\ ds <= a /\ ds <= dict_size
  BY <1>1, MinIs
<1>6. ds + lookahead_size + num <= DictSize
  BY <1>1, <1>4, <1>5, SizesAre
<1> QED
  BY <1>2, <1>4, <1>5, <1>6

(* and so does taking in more input.                                       *)
LEMMA FilledKeepsStream ==
  ASSUME StreamValid, pc = "parse",
         NEW num \in Nat, num <= offered - taken,
         lookahead_size + num <= Ahead,
         NEW ds \in Nat, ds <= dict_size,
         ds + lookahead_size + num <= DictSize,
         taken' = taken + num, dict' = Filled(num),
         lookahead_size' = lookahead_size + num, dict_size' = ds,
         pc' \in {"fast", "parsed"}, pc' = "fast" => mode = "fast",
         UNCHANGED <<const, call, status, lookahead_pos, saved, block, output,
                     ending>>
  PROVE  StreamValid'
<1>0. /\ taken \in Nat /\ offered \in Nat
      /\ taken <= offered /\ offered <= Len(source)
      /\ dict_size \in Nat /\ lookahead_pos \in Nat /\ lookahead_size \in Nat
      /\ dict_size <= lookahead_pos
      /\ lookahead_pos + lookahead_size = taken
  BY Numbers
<1>1. UNCHANGED <<source, mode, offered, flush, before, status, lookahead_pos,
        saved, codes, total_lz_bytes, block_start, decoded, final, trailer,
        room, written, pending, adler, wants_to_finish, finished, prev_status>>
  BY DEF const, call, block, output, ending
<1>2. Ring(Filled(num), lookahead_pos - ds, taken + num)
  BY FilledHolds
<1>3. TypeOK'
  <2>1. taken + num \in Nat /\ lookahead_size + num \in Nat
    BY <1>0
  <2>2. dict' \in [0 .. DictSize + MaxMatch - 2 -> Byte]
    BY <1>2 DEF Ring
  <2> QED
    BY <1>1, <2>1, <2>2 DEF StreamValid, TypeOK
<1>4. PositionsValid'
  <2>1. taken + num <= offered /\ ds <= lookahead_pos
    BY <1>0
  <2>2. pending = 0
    BY DEF StreamValid, PositionsValid
  <2> QED
    BY <1>0, <1>1, <2>1, <2>2 DEF PositionsValid, Ahead
<1>5. DictionaryHoldsWindow'
  <2>1. /\ lookahead_pos + (lookahead_size + num) = taken + num
        /\ ds + (lookahead_size + num) <= DictSize
    BY <1>0, SizesAre
  <2>2. /\ \A p \in lookahead_pos - ds .. (taken + num) - 1 :
             Filled(num)[Slot(p)] = source[p + 1]
        /\ \A s \in 0 .. MaxMatch - 2 : taken + num > s =>
             Filled(num)[DictSize + s] = Filled(num)[s]
    BY <1>2 DEF Ring, Window, Repeated
  <2> QED
    BY <1>1, <2>1, <2>2 DEF DictionaryHoldsWindow, Slot
<1>6. SavedValid' /\ BlockValid'
  BY <1>1 DEF StreamValid, SavedValid, BlockValid, Repeats, Text, Coded
<1>7. CodesStandForInput'
  <2>1. Expanded(decoded', codes') =
          SubSeq(source', 1, lookahead_pos' - (IF saved'.len > 0 THEN 1 ELSE 0))
    BY <1>1 DEF StreamValid, CodesStandForInput
  <2>2. saved.len > 0 => saved.len - 1 <= lookahead_size + num
    <3>1. saved.len > 0 => saved.len - 1 <= lookahead_size
      BY DEF StreamValid, CodesStandForInput
    <3>2. saved.len \in Nat
      BY DEF StreamValid, TypeOK
    <3> QED
      BY <1>0, <3>1, <3>2
  <2> QED
    BY <1>1, <2>1, <2>2 DEF CodesStandForInput, Expanded
<1>8. EndValid'
  <2>1. ~finished
    BY DEF StreamValid, EndValid
  <2> QED
    BY <1>1, <2>1 DEF StreamValid, EndValid
<1> QED
  BY <1>3, <1>4, <1>5, <1>6, <1>7, <1>8 DEF StreamValid

(* What the parser looks ahead fits the dictionary.                        *)
LEMMA AheadFits == Ahead \in Nat /\ 0 < Ahead /\ Ahead <= DictSize
BY SizesAre DEF Ahead

(* The lazy parser's step keeps the stream.                                *)
LEMMA ParseKeepsStream ==
  ASSUME StreamValid, Parse
  PROVE  /\ StreamValid' /\ pc' # "idle"
         /\ room' + written' = room + written
         /\ UNCHANGED <<const, call, status, ending>>
<1>0. /\ taken \in Nat /\ offered \in Nat
      /\ taken <= offered /\ offered <= Len(source) /\ Len(source) \in Nat
      /\ dict_size \in Nat /\ lookahead_pos \in Nat /\ lookahead_size \in Nat
      /\ dict_size <= lookahead_pos
      /\ lookahead_pos + lookahead_size = taken
      /\ room \in Nat /\ written \in Nat /\ source \in Seq(Byte)
  BY Numbers
<1>1. pc = "parse" /\ mode # "fast" /\ More /\ Ahead = MaxMatch
      /\ UNCHANGED <<const, call, status, ending>>
  BY DEF Parse, Ahead
<1>2. lookahead_size <= MaxMatch /\ MaxMatch \in Nat /\ MaxMatch <= DictSize
      /\ 0 < MaxMatch
  BY <1>1, SizesAre DEF StreamValid, PositionsValid
<1>3. PICK num \in Nat, ds \in Nat :
        /\ num = Min({offered - taken, MaxMatch - lookahead_size})
        /\ ds = Min({DictSize - (lookahead_size + num), dict_size})
        /\ num <= offered - taken /\ lookahead_size + num <= MaxMatch
        /\ offered = taken \/ lookahead_size = MaxMatch \/ num > 0
        /\ ds <= dict_size /\ ds + lookahead_size + num <= DictSize
  BY <1>2, FillNumbers
<1>4. PICK la \in Nat : la = lookahead_size + num
  BY <1>0
<1>5. PICK d : d = Filled(num)
  OBVIOUS
<1>6. /\ taken' = taken + num /\ dict' = d
      /\ IF flush = "none" /\ la < MaxMatch
         THEN /\ lookahead_size' = la /\ dict_size' = ds /\ pc' = "parsed"
              /\ UNCHANGED <<lookahead_pos, saved, block, output>>
         ELSE \E m \in Matches(d, la, ds) :
                LET c == Choice(Worth(m), d[Slot(lookahead_pos)]) IN
                /\ saved' = c.saved
                /\ Moved(c.codes, c.move, la, ds, d, "parse")
  BY <1>3, <1>4, <1>5 DEF Parse
<1>7. Ring(d, lookahead_pos - ds, taken + num)
  BY <1>3, <1>5, FilledHolds
<1>8. CASE flush = "none" /\ la < MaxMatch
  <2>1. /\ lookahead_size' = la /\ dict_size' = ds /\ pc' = "parsed"
        /\ UNCHANGED <<lookahead_pos, saved, block, output>>
    BY <1>6, <1>8
  <2>2. StreamValid'
    BY <1>1, <1>3, <1>4, <1>5, <1>6, <2>1, FilledKeepsStream
  <2> QED
    BY <1>1, <2>1, <2>2 DEF output
<1>9. CASE ~(flush = "none" /\ la < MaxMatch)
  <2>1. PICK m, c :
          /\ m \in Matches(d, la, ds)
          /\ c = Choice(Worth(m), d[Slot(lookahead_pos)])
          /\ saved' = c.saved
          /\ Moved(c.codes, c.move, la, ds, d, "parse")
    BY <1>6, <1>9
  <2>2. la > 0
    BY <1>0, <1>1, <1>2, <1>3, <1>4 DEF More
  <2>3. PICK hi \in Nat : hi = lookahead_pos + la /\ hi = taken + num
          /\ hi <= offered /\ hi <= Len(source)
    <3>1. lookahead_pos + la \in Nat /\ lookahead_pos + la = taken + num
      BY <1>0, <1>4
    <3>2. taken + num <= offered
      BY <1>0, <1>3
    <3>3. taken + num <= Len(source)
      BY <1>0, <3>2
    <3> QED
      BY <3>1, <3>2, <3>3
  <2>4. Ring(d, lookahead_pos - ds, hi) /\ ds <= lookahead_pos
    <3>1. ds <= lookahead_pos
      BY <1>0, <1>3
    <3> QED
      BY <1>7, <2>3, <3>1
  <2>5. /\ saved \in [dist : Nat, len : Nat, byte : Byte]
        /\ HeldBack(saved, lookahead_pos, lookahead_size)
        /\ Coded = lookahead_pos - HeldLits(saved)
    BY CodedFacts
  <2>6. saved.len \in Nat /\ saved.len # 1
    BY <2>5 DEF HeldBack
  <2>7. GoodMatch(Worth(m), la)
    BY <1>0, <2>1, <2>3, <2>4, <2>6, MatchesAreGood
  <2>8. HeldBack(saved, lookahead_pos, la)
    <3>1. saved.len > 0 => saved.len - 1 <= la
      BY <1>0, <1>4, <2>5, <2>6 DEF HeldBack
    <3> QED
      BY <2>5, <3>1 DEF HeldBack
  <2>9. d[Slot(lookahead_pos)] = source[lookahead_pos + 1]
    <3>1. lookahead_pos \in lookahead_pos - ds .. hi - 1
      BY <1>0, <2>2, <2>3, <2>4
    <3> QED
      BY <2>4, <3>1 DEF Ring, Window
  <2>10. Chosen(c, la)
    <3>1. la \in Nat \ {0} /\ lookahead_pos + la <= Len(source)
      BY <2>2, <2>3
    <3> QED
      BY <1>0, <2>1, <2>5, <2>7, <2>8, <2>9, <3>1, ChoiceIsGood
  <2>11. /\ c.move \in Nat /\ c.move <= la
         /\ saved' \in [dist : Nat, len : Nat, byte : Byte]
         /\ HeldBack(saved', lookahead_pos + c.move, la - c.move)
         /\ Reaches(c.codes, Coded,
                    (lookahead_pos + c.move) - HeldLits(saved'))
    BY <2>1, <2>5, <2>10 DEF Chosen
  <2>12. /\ la <= Ahead /\ ds + la <= DictSize
         /\ lookahead_pos + la <= offered /\ taken' = lookahead_pos + la
         /\ Ring(d, lookahead_pos - ds, lookahead_pos + la)
         /\ pc \in {"parse", "fast"} /\ "parse" \in {"parse", "fast"}
    <3>1. ds + la = ds + lookahead_size + num
      BY <1>0, <1>4
    <3> QED
      BY <1>1, <1>3, <1>4, <1>6, <2>3, <2>4, <3>1
  <2> QED
    BY <1>1, <1>6, <2>1, <2>4, <2>11, <2>12, MovedKeepsStream
<1> QED
  BY <1>8, <1>9

(* The fast parser's filling of the ring keeps the stream.                 *)
LEMMA FillFastKeepsStream ==
  ASSUME StreamValid, FillFast
  PROVE  /\ StreamValid' /\ pc' # "idle"
         /\ room' + written' = room + written
         /\ UNCHANGED <<const, call, status, ending>>
<1>1. /\ pc = "parse" /\ mode = "fast" /\ Ahead = FastAhead
      /\ UNCHANGED <<const, call, status, lookahead_pos, saved, block, output,
                     ending>>
  BY DEF FillFast, Ahead
<1>2. FastAhead \in Nat /\ FastAhead <= DictSize /\ lookahead_size <= FastAhead
  BY <1>1, SizesAre DEF StreamValid, PositionsValid
<1>3. PICK num \in Nat, ds \in Nat :
        /\ num = Min({offered - taken, FastAhead - lookahead_size})
        /\ ds = Min({DictSize - (lookahead_size + num), dict_size})
        /\ num <= offered - taken /\ lookahead_size + num <= FastAhead
        /\ offered = taken \/ lookahead_size = FastAhead \/ num > 0
        /\ ds <= dict_size /\ ds + lookahead_size + num <= DictSize
  BY <1>2, FillNumbers
<1>4. /\ taken' = taken + num /\ dict' = Filled(num)
      /\ lookahead_size' = lookahead_size + num /\ dict_size' = ds
      /\ pc' \in {"fast", "parsed"}
  BY <1>3 DEF FillFast
<1>5. StreamValid'
  BY <1>1, <1>3, <1>4, FilledKeepsStream
<1> QED
  BY <1>1, <1>4, <1>5 DEF output

(* The ring holds the source from the oldest byte to the last one taken    *)
(* in.                                                                     *)
LEMMA RingNow ==
  ASSUME StreamValid
  PROVE  Ring(dict, lookahead_pos - dict_size, lookahead_pos + lookahead_size)
<1>1. lookahead_pos + lookahead_size = taken
  BY Numbers
<1> QED
  BY <1>1 DEF StreamValid, TypeOK, DictionaryHoldsWindow, Ring, Window, Repeated

(* The fast parser's step keeps the stream.                                *)
LEMMA FastStepKeepsStream ==
  ASSUME StreamValid, FastStep
  PROVE  /\ StreamValid' /\ pc' # "idle"
         /\ room' + written' = room + written
         /\ UNCHANGED <<const, call, status, ending>>
<1>0. /\ taken \in Nat /\ offered \in Nat /\ Len(source) \in Nat
      /\ taken <= offered /\ offered <= Len(source) /\ source \in Seq(Byte)
      /\ dict_size \in Nat /\ lookahead_pos \in Nat /\ lookahead_size \in Nat
      /\ dict_size <= lookahead_pos
      /\ lookahead_pos + lookahead_size = taken
      /\ dict_size + lookahead_size <= DictSize
  BY Numbers
<1>1. /\ pc = "fast" /\ lookahead_size > 0
      /\ UNCHANGED <<const, taken, call, status, dict, saved, ending>>
  BY DEF FastStep
<1>2. mode = "fast" /\ lookahead_size <= Ahead
  BY <1>1 DEF StreamValid, PositionsValid
<1>3. Ring(dict, lookahead_pos - dict_size, lookahead_pos + lookahead_size)
  BY RingNow
<1>4. PICK la \in Nat, n \in Nat : la = lookahead_size /\ n = lookahead_pos
  BY <1>0
<1>5. /\ saved \in [dist : Nat, len : Nat, byte : Byte] /\ saved.len = 0
      /\ Coded = n /\ HeldLits(saved) = 0
  <2>1. saved \in [dist : Nat, len : Nat, byte : Byte] /\ ~(saved.len > 0)
    BY <1>2, CodedFacts
  <2>2. saved.len \in Nat
    BY <2>1
  <2> QED
    BY <1>4, <2>1, <2>2 DEF Coded, HeldLits
<1>6. ASSUME NEW cs, NEW m \in 1..la, NEW inner \in {"parse", "fast"},
             Moved(cs, m, la, dict_size, dict, inner),
             Reaches(cs, n, n + m)
      PROVE  /\ StreamValid' /\ pc' # "idle"
             /\ room' + written' = room + written
  <2>1. /\ m \in Nat /\ m <= la /\ la <= Ahead /\ dict_size + la <= DictSize
        /\ n + la <= offered /\ taken' = n + la
        /\ (n + m) - 0 = n + m
    BY <1>0, <1>1, <1>2, <1>4
  <2>2. saved' = saved /\ dict' = dict
    BY <1>1
  <2>3. HeldBack(saved', lookahead_pos + m, la - m)
    BY <1>5, <2>2 DEF HeldBack
  <2>4. Reaches(cs, Coded, (lookahead_pos + m) - HeldLits(saved'))
    BY <1>4, <1>5, <1>6, <2>1, <2>2
  <2>5. saved' \in [dist : Nat, len : Nat, byte : Byte]
    BY <1>5, <2>2
  <2>6. saved'.len > 0 => mode # "fast"
    <3>1. saved.len \in Nat /\ saved.len = 0
      BY <1>5
    <3> QED
      BY <2>2, <3>1
  <2>7. /\ pc \in {"parse", "fast"} /\ (inner = "fast" => mode = "fast")
        /\ UNCHANGED <<const, call, status, ending>>
    BY <1>1, <1>2
  <2>8. /\ lookahead_pos + la <= offered /\ taken' = lookahead_pos + la
        /\ Ring(dict, lookahead_pos - dict_size, lookahead_pos + la)
        /\ dict_size <= lookahead_pos /\ dict_size \in Nat
    BY <1>0, <1>3, <1>4, <2>1
  <2> QED
    BY <1>6, <2>1, <2>2, <2>3, <2>4, <2>5, <2>6, <2>7, <2>8, MovedKeepsStream
<1>7. CASE Moved(<<Lit(dict[Slot(lookahead_pos)])>>, 1, lookahead_size,
                 dict_size, dict, IF lookahead_size = 1 THEN "parse" ELSE "fast")
  <2>1. dict[Slot(n)] = source[n + 1]
    <3>1. n \in n - dict_size .. (n + la) - 1
      BY <1>0, <1>1, <1>4
    <3> QED
      BY <1>3, <1>4, <3>1 DEF Ring, Window
  <2>2. n < Len(source) /\ 1 \in 1..la
    BY <1>0, <1>1, <1>4
  <2>3. Leads(Lit(dict[Slot(n)]), n, n + 1)
    BY <1>0, <2>1, <2>2, LitLeads
  <2>4. Reaches(<<Lit(dict[Slot(n)])>>, n, n + 1)
    BY <2>3 DEF Reaches
  <2>5. PICK inner \in {"parse", "fast"} :
          inner = IF lookahead_size = 1 THEN "parse" ELSE "fast"
    OBVIOUS
  <2> QED
    BY <1>1, <1>4, <1>6, <1>7, <2>2, <2>4, <2>5
<1>8. CASE \E x \in 1..dict_size :
             /\ MatchAt(dict, x, lookahead_size).len >= MinMatch
             /\ LET m == MatchAt(dict, x, lookahead_size) IN
                Moved(<<Copy(m.dist, m.len)>>, m.len, lookahead_size, dict_size,
                      dict, IF lookahead_size = m.len THEN "parse" ELSE "fast")
  <2>1. PICK x, m :
          /\ x \in 1..dict_size
          /\ m = MatchAt(dict, x, lookahead_size) /\ m.len >= MinMatch
          /\ Moved(<<Copy(m.dist, m.len)>>, m.len, lookahead_size, dict_size,
                   dict, IF lookahead_size = m.len THEN "parse" ELSE "fast")
    BY <1>8
  <2>2. /\ m.dist = x /\ m.len \in 0..la /\ Repeats(n, x, m.len)
    <3>1. PICK lo \in Nat, hi \in Nat, dist \in Nat \ {0} :
            lo = n - dict_size /\ hi = n + la /\ dist = x /\ lo + dist <= n
      BY <1>0, <1>4, <2>1
    <3>2. /\ Ring(dict, lo, hi) /\ lookahead_pos \in Nat
          /\ lo + dist <= lookahead_pos /\ lookahead_pos + la <= hi
      BY <1>0, <1>3, <1>4, <3>1
    <3>3. /\ MatchAt(dict, dist, la).dist = dist
          /\ MatchAt(dict, dist, la).len \in 0..la
          /\ Repeats(lookahead_pos, dist, MatchAt(dict, dist, la).len)
      BY <3>2, MatchRepeats
    <3> QED
      BY <1>4, <2>1, <3>1, <3>3
  <2>3. m.len \in 1..la
    BY <2>1, <2>2, SizesAre
  <2>4. PICK len \in Nat, dist \in Nat \ {0} :
          len = m.len /\ dist = m.dist /\ dist <= n /\ n + len <= Len(source)
    BY <1>0, <1>4, <2>1, <2>2, <2>3
  <2>5. Leads(Copy(dist, len), n, n + len)
    BY <1>0, <2>2, <2>4, CopyLeads
  <2>6. Reaches(<<Copy(dist, len)>>, n, n + len)
    BY <2>5 DEF Reaches
  <2>7. PICK inner \in {"parse", "fast"} :
          inner = IF lookahead_size = m.len THEN "parse" ELSE "fast"
    OBVIOUS
  <2> QED
    BY <1>1, <1>4, <1>6, <2>1, <2>3, <2>4, <2>6, <2>7
<1>9. \/ Moved(<<Lit(dict[Slot(lookahead_pos)])>>, 1, lookahead_size,
               dict_size, dict, IF lookahead_size = 1 THEN "parse" ELSE "fast")
      \/ \E x \in 1..dict_size :
           /\ MatchAt(dict, x, lookahead_size).len >= MinMatch
           /\ LET m == MatchAt(dict, x, lookahead_size) IN
              Moved(<<Copy(m.dist, m.len)>>, m.len, lookahead_size, dict_size,
                    dict, IF lookahead_size = m.len THEN "parse" ELSE "fast")
  BY DEF FastStep
<1> QED
  BY <1>1, <1>7, <1>8, <1>9

-----------------------------------------------------------------------------
(* The other steps of a call.                                              *)

(* How tdefl_flush_output_buffer and the loop of mz_deflate end.           *)
Drained(fin) ==
  \/ /\ pc' = "idle" /\ status' = "stream_end" /\ prev_status' = "done"
     /\ fin /\ pending' = 0
  \/ /\ prev_status' = "okay" /\ (~fin \/ pending' > 0)
     /\ \/ pc' = "idle" /\ status' = "ok" /\ room' = 0
        \/ pc' = "idle" /\ status' \in {"ok", "buf_error"} /\ flush # "finish"
        \/ pc' = "compress" /\ status' = status

(* Draining moves bytes from what is pending to what is written, and makes *)
(* none.                                                                   *)
LEMMA DrainEnds ==
  ASSUME NEW n \in Nat, NEW r \in Nat, NEW out \in Nat, NEW fin \in BOOLEAN,
         Drain(n, r, out, fin)
  PROVE  /\ pending' \in Nat /\ room' \in Nat /\ written' \in Nat
         /\ room' + written' = r + out /\ pending' <= n
         /\ Drained(fin)
<1>1. PICK k \in Nat : k = Min({n, r}) /\ k <= n /\ k <= r
  BY MinIs
<1>2. /\ pending' = n - k /\ room' = r - k /\ written' = out + k
      /\ prev_status' = FlushStatus(fin, n - k)
      /\ Loop(FlushStatus(fin, n - k), offered - taken, r - k,
              <<taken, out + k>> # before)
  BY <1>1 DEF Drain
<1>3. /\ pending' \in Nat /\ room' \in Nat /\ written' \in Nat
      /\ room' + written' = r + out /\ pending' <= n
  BY <1>1, <1>2
<1>4. CASE fin /\ n - k = 0
  <2>1. FlushStatus(fin, n - k) = "done"
    BY <1>4 DEF FlushStatus
  <2>2. pc' = "idle" /\ status' = "stream_end"
    BY <1>2, <2>1 DEF Loop, Return
  <2> QED
    BY <1>2, <1>3, <1>4, <2>1, <2>2 DEF Drained
<1>5. CASE ~(fin /\ n - k = 0)
  <2>1. FlushStatus(fin, n - k) = "okay"
    BY <1>5 DEF FlushStatus
  <2>2. ~fin \/ pending' > 0
    BY <1>2, <1>3, <1>5
  <2>3. \/ pc' = "idle" /\ status' = "ok" /\ room' = 0
        \/ pc' = "idle" /\ status' \in {"ok", "buf_error"} /\ flush # "finish"
        \/ pc' = "compress" /\ status' = status
    BY <1>2, <2>1 DEF Loop, Return
  <2> QED
    BY <1>2, <1>3, <2>1, <2>2, <2>3 DEF Drained
<1> QED
  BY <1>4, <1>5

(* The end of the parsing keeps the stream.                                *)
LEMMA EndParseKeepsStream ==
  ASSUME StreamValid, EndParse
  PROVE  /\ StreamValid' /\ pc' # "idle"
         /\ room' + written' = room + written
         /\ UNCHANGED <<const, call, status, ending>>
<1>1. /\ pc = "parse" /\ pc' = "parsed"
      /\ UNCHANGED <<source, mode, taken, offered, flush, before, status, dict,
           dict_size, lookahead_pos, lookahead_size, saved, codes,
           total_lz_bytes, block_start, decoded, final, trailer, room, written,
           pending, adler, wants_to_finish, finished, prev_status>>
      /\ UNCHANGED <<const, call, status, ending>>
  BY DEF EndParse, const, call, lz, block, output, ending
<1>2. TypeOK' /\ PositionsValid'
  BY <1>1 DEF StreamValid, TypeOK, PositionsValid, Ahead
<1>3. DictionaryHoldsWindow' /\ SavedValid' /\ BlockValid'
      /\ CodesStandForInput'
  BY <1>1 DEF StreamValid, DictionaryHoldsWindow, SavedValid, BlockValid,
       CodesStandForInput, Slot, Repeats, Text, Coded, Expanded
<1>4. EndValid'
  BY <1>1 DEF StreamValid, EndValid
<1> QED
  BY <1>1, <1>2, <1>3, <1>4 DEF StreamValid

(* What a step leaves valid that neither parses nor ends a block.          *)
LEMMA WindowKept ==
  ASSUME StreamValid, UNCHANGED <<const, taken, lz, block>>
  PROVE  /\ DictionaryHoldsWindow' /\ SavedValid' /\ BlockValid'
         /\ CodesStandForInput'
<1>1. UNCHANGED <<source, mode, taken, dict, dict_size, lookahead_pos,
        lookahead_size, saved, codes, total_lz_bytes, block_start, decoded>>
  BY DEF const, lz, block
<1> QED
  BY <1>1 DEF StreamValid, DictionaryHoldsWindow, SavedValid, BlockValid,
       CodesStandForInput, Slot, Repeats, Text, Coded, Expanded

(* The call of the compressor keeps the stream, also when it is refused.   *)
LEMMA CompressKeepsStream ==
  ASSUME StreamValid, Compress
  PROVE  /\ StreamValid'
         /\ room' + written' = room + written
         /\ UNCHANGED <<const, call, finished>>
         /\ \/ prev_status # "okay" \/ (wants_to_finish /\ flush # "finish")
            \/ Drained(finished)
            \/ pc' # "idle" /\ UNCHANGED <<status, prev_status>>
<1>0. pending \in Nat /\ room \in Nat /\ written \in Nat /\ finished \in BOOLEAN
  BY Numbers DEF StreamValid, TypeOK
<1>1. /\ pc = "compress"
      /\ UNCHANGED <<const, taken, call, lz, block, adler, finished>>
  BY DEF Compress
<1>2. UNCHANGED <<source, mode, taken, offered, flush, before, dict, dict_size,
        lookahead_pos, lookahead_size, saved, codes, total_lz_bytes,
        block_start, decoded, final, trailer, adler, finished>>
  BY <1>1 DEF const, call, lz, block
<1>3. DictionaryHoldsWindow' /\ SavedValid' /\ BlockValid'
      /\ CodesStandForInput'
  BY <1>1, WindowKept
<1>4. CASE prev_status # "okay" \/ (wants_to_finish /\ flush # "finish")
  <2>1. /\ prev_status' = "bad_param" /\ pc' = "idle"
        /\ status' = "stream_error"
        /\ UNCHANGED <<room, written, pending, wants_to_finish>>
    BY <1>4 DEF Compress, Return, output
  <2>2. TypeOK' /\ PositionsValid'
    BY <1>2, <2>1 DEF StreamValid, TypeOK, PositionsValid, Ahead
  <2>3. EndValid'
    BY <1>2, <2>1 DEF StreamValid, EndValid
  <2> QED
    BY <1>1, <1>3, <1>4, <2>1, <2>2, <2>3 DEF StreamValid
<1>5. ASSUME ~(prev_status # "okay" \/ (wants_to_finish /\ flush # "finish"))
      PROVE  /\ wants_to_finish' \in BOOLEAN
             /\ finished \/ flush = "finish" => wants_to_finish'
  <2>1. wants_to_finish' = (wants_to_finish \/ flush = "finish")
    BY <1>5 DEF Compress
  <2>2. wants_to_finish \in BOOLEAN /\ (wants_to_finish \/ ~finished)
    BY DEF StreamValid, TypeOK, EndValid
  <2> QED
    BY <2>1, <2>2
<1>6. CASE /\ ~(prev_status # "okay" \/ (wants_to_finish /\ flush # "finish"))
           /\ pending > 0 \/ finished
  <2>1. Drain(pending, room, written, finished)
    BY <1>6 DEF Compress
  <2>2. /\ pending' \in Nat /\ room' \in Nat /\ written' \in Nat
        /\ room' + written' = room + written /\ pending' <= pending
        /\ Drained(finished)
    BY <1>0, <2>1, DrainEnds
  <2>3. TypeOK'
    BY <1>2, <1>5, <1>6, <2>2 DEF StreamValid, TypeOK, Drained
  <2>4. PositionsValid'
    BY <1>2, <2>2 DEF StreamValid, PositionsValid, Ahead, Drained
  <2>5. EndValid'
    <3>1. status' = "stream_end" => finished /\ pending' = 0
      <4>1. CASE status' = status
        <5>1. status = "stream_end" => finished /\ pending = 0
          BY DEF StreamValid, EndValid
        <5> QED
          BY <1>0, <2>2, <4>1, <5>1
      <4>2. CASE status' # status
        BY <2>2, <4>2 DEF Drained
      <4> QED
        BY <4>1, <4>2
    <3>2. prev_status' = "done" => finished /\ pending' = 0
      BY <2>2 DEF Drained
    <3>3. pc' \in {"idle", "compress"}
      BY <2>2 DEF Drained
    <3> QED
      BY <1>2, <1>5, <1>6, <3>1, <3>2, <3>3 DEF StreamValid, EndValid
  <2> QED
    BY <1>1, <1>3, <2>2, <2>3, <2>4, <2>5 DEF StreamValid
<1>7. CASE /\ ~(prev_status # "okay" \/ (wants_to_finish /\ flush # "finish"))
           /\ ~(pending > 0 \/ finished)
  <2>1. /\ pc' = "parse" /\ pending = 0 /\ ~finished
        /\ UNCHANGED <<status, room, written, pending, prev_status>>
    BY <1>0, <1>7 DEF Compress, output
  <2>2. TypeOK' /\ PositionsValid'
    BY <1>2, <1>5, <1>7, <2>1 DEF StreamValid, TypeOK, PositionsValid, Ahead
  <2>3. EndValid'
    BY <1>2, <1>5, <1>7, <2>1 DEF StreamValid, EndValid
  <2> QED
    BY <1>1, <1>3, <2>1, <2>2, <2>3 DEF StreamValid
<1> QED
  BY <1>4, <1>6, <1>7

(* The end of a call keeps the stream.                                     *)
LEMMA FinishKeepsStream ==
  ASSUME StreamValid, Finish
  PROVE  /\ StreamValid'
         /\ room' + written' = room + written
         /\ UNCHANGED <<const, call>>
         /\ Drained(finished')
<1>0. /\ pending \in Nat /\ room \in Nat /\ written \in Nat
      /\ taken \in Nat /\ offered \in Nat /\ source \in Seq(Byte)
      /\ taken <= offered /\ offered <= Len(source) /\ Len(source) \in Nat
      /\ dict_size \in Nat /\ lookahead_pos \in Nat /\ lookahead_size \in Nat
      /\ dict_size <= lookahead_pos
      /\ lookahead_pos + lookahead_size = taken
      /\ dict_size + lookahead_size <= DictSize
      /\ total_lz_bytes \in Nat /\ block_start \in Nat
  BY Numbers
<1>1. /\ pc = "parsed" /\ adler' = taken
      /\ UNCHANGED <<const, taken, call, dict, lookahead_pos, lookahead_size,
                     saved, wants_to_finish>>
  BY DEF Finish
<1>2. UNCHANGED <<source, mode, taken, offered, flush, before, dict,
        lookahead_pos, lookahead_size, saved, wants_to_finish>>
  BY <1>1 DEF const, call
<1>3. /\ ~finished /\ final = "no"
      /\ flush = "finish" => wants_to_finish
      /\ status # "stream_end"
  BY <1>1 DEF StreamValid, EndValid
<1>4. CASE flush # "none" /\ lookahead_size = 0 /\ offered = taken /\ pending = 0
  <2>1. /\ FlushBlock(flush, codes, total_lz_bytes, lookahead_pos, dict_size,
                      dict)
        /\ trailer' = IF flush = "finish" THEN taken ELSE trailer
        /\ finished' = (flush = "finish")
        /\ dict_size' = IF flush = "full" THEN 0 ELSE dict_size
    BY <1>1, <1>4 DEF Finish
  <2>2. PICK n \in BlockSizes : Drain(n, room, written, flush = "finish")
    BY <1>4 DEF Finish
  <2>3. /\ pending' \in Nat /\ room' \in Nat /\ written' \in Nat
        /\ room' + written' = room + written
        /\ Drained(finished') /\ finished' \in BOOLEAN
    <3>1. n \in Nat
      BY SizesAssumption
    <3>2. PICK fin \in BOOLEAN : fin = (flush = "finish")
      OBVIOUS
    <3>3. Drain(n, room, written, fin)
      BY <2>2, <3>2
    <3>4. /\ pending' \in Nat /\ room' \in Nat /\ written' \in Nat
          /\ room' + written' = room + written /\ pending' <= n
          /\ Drained(fin)
      BY <1>0, <3>1, <3>3, DrainEnds
    <3> QED
      BY <2>1, <3>2, <3>4
  <2>4. /\ saved \in [dist : Nat, len : Nat, byte : Byte]
        /\ ~(saved.len > 0) /\ Coded = lookahead_pos /\ Coded = taken
        /\ decoded = Text(block_start) /\ block_start + total_lz_bytes = Coded
        /\ Expanded(decoded, codes) = Text(Coded)
    <3>1. /\ saved \in [dist : Nat, len : Nat, byte : Byte]
          /\ HeldBack(saved, lookahead_pos, lookahead_size)
          /\ decoded = Text(block_start)
          /\ block_start + total_lz_bytes = Coded
          /\ Expanded(decoded, codes) = Text(Coded)
      BY CodedFacts
    <3>2. saved.len \in Nat
      BY <3>1
    <3>3. ~(saved.len > 0)
      BY <1>4, <3>1, <3>2 DEF HeldBack
    <3>4. Coded = lookahead_pos
      BY <1>0, <3>3 DEF Coded
    <3>5. lookahead_pos = taken
      BY <1>0, <1>4
    <3> QED
      BY <3>1, <3>3, <3>4, <3>5
  <2>5. /\ decoded' = Text(taken) /\ block_start' = taken
        /\ codes' = << >> /\ total_lz_bytes' = 0
        /\ final' = IF final # "no" THEN "early"
                    ELSE IF flush = "finish" THEN "yes" ELSE "no"
    <3>1. PICK lo \in Nat : lo = lookahead_pos - dict_size
      BY <1>0
    <3>2. Ring(dict, lo, taken)
      <4>1. Ring(dict, lookahead_pos - dict_size, lookahead_pos + lookahead_size)
        BY RingNow
      <4> QED
        BY <1>0, <3>1, <4>1
    <3>3. /\ taken <= Len(source) /\ block_start + total_lz_bytes <= taken
          /\ lo + dict_size <= lookahead_pos
      <4>1. block_start + total_lz_bytes = taken
        BY <2>4
      <4>2. taken <= Len(source)
        BY <1>0
      <4>3. taken <= taken /\ lo + dict_size <= lookahead_pos
        BY <1>0, <3>1
      <4> QED
        BY <4>1, <4>2, <4>3
    <3>4. Expanded(decoded, codes) = Text(block_start + total_lz_bytes)
      BY <2>4
    <3> QED
      BY <1>0, <2>1, <2>4, <3>2, <3>3, <3>4, BlockPutOut
  <2>6. TypeOK'
    <3>1. decoded' \in Seq(Byte)
      BY <1>0, <2>5, TextIs
    <3>2. codes' \in Seq(Code)
      BY <2>5
    <3>3. dict_size' \in Nat /\ trailer' \in Nat \cup {-1}
      BY <1>0, <2>1 DEF StreamValid, TypeOK
    <3>4. adler' \in Nat /\ final' \in {"no", "yes", "early"}
          /\ total_lz_bytes' \in Nat /\ block_start' \in Nat
      BY <1>0, <1>1, <2>5
    <3>5. /\ pc' \in {"idle", "compress", "parse", "fast", "parsed"}
          /\ status' \in {"none", "ok", "stream_end", "buf_error", "stream_error"}
          /\ prev_status' \in {"okay", "done", "bad_param"}
      BY <2>3 DEF Drained, StreamValid, TypeOK
    <3> QED
      BY <1>2, <2>3, <3>1, <3>2, <3>3, <3>4, <3>5 DEF StreamValid, TypeOK
  <2>7. PositionsValid'
    <3>1. dict_size' <= lookahead_pos
      BY <1>0, <2>1
    <3>2. pc' \in {"idle", "compress"}
      BY <2>3 DEF Drained
    <3> QED
      BY <1>2, <3>1, <3>2 DEF StreamValid, PositionsValid, Ahead
  <2>8. DictionaryHoldsWindow'
    <3>1. PICK ds \in Nat : ds = dict_size' /\ ds <= dict_size
      BY <1>0, <2>1
    <3>2. PICK old \in Nat, la \in Nat, pos \in Nat :
            /\ old = dict_size /\ la = lookahead_size /\ pos = lookahead_pos
            /\ old + la <= DictSize /\ ds <= old /\ old <= pos
      BY <1>0, <3>1
    <3>3. ds + lookahead_size <= DictSize
      <4>1. ds + la <= DictSize
        BY <3>2, SizesAre
      <4> QED
        BY <3>2, <4>1
    <3>4. ASSUME NEW k \in lookahead_pos - ds .. taken - 1
          PROVE  dict[Slot(k)] = source[k + 1]
      <4>1. k \in pos - ds .. taken - 1
        BY <3>2
      <4>2. k \in pos - old .. taken - 1
        BY <1>0, <3>2, <4>1
      <4> QED
        BY <3>2, <4>2 DEF StreamValid, DictionaryHoldsWindow
    <3> QED
      BY <1>2, <3>1, <3>3, <3>4 DEF StreamValid, DictionaryHoldsWindow, Slot
  <2>9. SavedValid' /\ Coded' = taken
    BY <1>2, <2>4 DEF SavedValid, Coded
  <2>10. BlockValid'
    BY <1>0, <1>2, <2>5, <2>9 DEF BlockValid, Text
  <2>11. CodesStandForInput'
    <3>1. Expanded(decoded', codes') = Text(taken)
      BY <2>5, ExpandedByNone
    <3>2. Expanded(decoded', codes') = SubSeq(source', 1, Coded')
      BY <1>2, <2>9, <3>1 DEF Text
    <3> QED
      BY <1>2, <2>4, <3>2 DEF CodesStandForInput, Coded, Expanded
  <2>12. EndValid'
    <3>1. /\ wants_to_finish' \/ ~finished'
          /\ IF finished'
             THEN /\ final' = "yes" /\ trailer' = taken'
                  /\ taken' = offered' /\ block_start' = offered'
             ELSE final' = "no"
      BY <1>2, <1>3, <1>4, <2>1, <2>5
    <3>2. /\ pc' \in {"idle", "compress"}
          /\ prev_status' = "done" => finished' /\ pending' = 0
          /\ status' = "stream_end" => finished' /\ pending' = 0
      BY <1>3, <2>3 DEF Drained
    <3> QED
      BY <3>1, <3>2 DEF EndValid
  <2> QED
    BY <1>1, <2>3, <2>6, <2>7, <2>8, <2>9, <2>10, <2>11, <2>12 DEF StreamValid
<1>5. CASE ~(flush # "none" /\ lookahead_size = 0 /\ offered = taken
             /\ pending = 0)
  <2>1. /\ Drain(pending, room, written, finished)
        /\ UNCHANGED <<block, finished, dict_size>>
    BY <1>5 DEF Finish
  <2>2. /\ pending' \in Nat /\ room' \in Nat /\ written' \in Nat
        /\ room' + written' = room + written
        /\ Drained(finished)
    <3>1. finished \in BOOLEAN
      BY DEF StreamValid, TypeOK
    <3> QED
      BY <1>0, <2>1, <3>1, DrainEnds
  <2>3. /\ DictionaryHoldsWindow' /\ SavedValid' /\ BlockValid'
        /\ CodesStandForInput'
    <3>1. UNCHANGED <<const, taken, lz, block>>
      BY <1>1, <2>1 DEF lz
    <3> QED
      BY <3>1, WindowKept
  <2>4. UNCHANGED <<codes, total_lz_bytes, block_start, decoded, final, trailer,
                    finished, dict_size>>
    BY <2>1 DEF block
  <2>5. pc' \in {"idle", "compress"} /\ status' # "stream_end"
        /\ prev_status' = "okay"
        /\ status' \in {"none", "ok", "stream_end", "buf_error", "stream_error"}
    BY <1>3, <2>2 DEF Drained, StreamValid, TypeOK
  <2>6. TypeOK'
    BY <1>0, <1>1, <1>2, <2>2, <2>4, <2>5 DEF StreamValid, TypeOK
  <2>7. PositionsValid'
    BY <1>2, <2>4, <2>5 DEF StreamValid, PositionsValid, Ahead
  <2>8. EndValid'
    BY <1>2, <1>3, <2>4, <2>5 DEF StreamValid, EndValid
  <2> QED
    BY <1>1, <2>1, <2>2, <2>3, <2>4, <2>6, <2>7, <2>8 DEF StreamValid
<1> QED
  BY <1>4, <1>5

(* A call of deflate keeps the stream, with whatever flush, input and      *)
(* room.                                                                   *)
LEMMA DeflateKeepsStream ==
  ASSUME StreamValid,
         NEW f \in {"none", "sync", "full", "finish"}, NEW upto \in Nat,
         NEW r \in Nat, offered <= upto, upto <= Len(source),
         wants_to_finish => upto = offered,
         Deflate(f, upto, r)
  PROVE  /\ StreamValid' /\ pc = "idle"
         /\ offered' = upto /\ room' = r /\ flush' = f
         /\ UNCHANGED <<source, written, pending, prev_status, finished>>
         /\ IF r = 0 THEN pc' = "idle" /\ status' = "buf_error"
            ELSE prev_status = "okay" => pc' = "compress" /\ status' = status
<1>0. /\ taken \in Nat /\ offered \in Nat /\ written \in Nat
      /\ taken <= offered /\ Len(source) \in Nat
  BY Numbers
<1>1. /\ pc = "idle" /\ offered' = upto /\ room' = r /\ flush' = f
      /\ before' = <<taken, written>>
      /\ UNCHANGED <<const, taken, lz, block, written, pending, ending>>
  BY DEF Deflate
<1>2. UNCHANGED <<source, mode, taken, dict, dict_size, lookahead_pos,
        lookahead_size, saved, codes, total_lz_bytes, block_start, decoded,
        final, trailer, written, pending, adler, wants_to_finish, finished,
        prev_status>>
  BY <1>1 DEF const, lz, block, ending
<1>3. /\ \/ pc' = "compress" /\ status' = status
         \/ pc' = "idle" /\ status' = "buf_error"
         \/ pc' = "idle" /\ status' = "stream_end" /\ prev_status = "done"
      /\ IF r = 0 THEN pc' = "idle" /\ status' = "buf_error"
         ELSE prev_status = "okay" => pc' = "compress" /\ status' = status
  BY DEF Deflate, Return
<1>4. TypeOK'
  <2>1. before' \in Nat \X Nat
    BY <1>0, <1>1
  <2> QED
    BY <1>1, <1>2, <1>3, <2>1 DEF StreamValid, TypeOK
<1>5. PositionsValid'
  <2>1. taken <= upto
    BY <1>0
  <2> QED
    BY <1>1, <1>2, <1>3, <2>1 DEF StreamValid, PositionsValid, Ahead
<1>6. /\ DictionaryHoldsWindow' /\ SavedValid' /\ BlockValid'
      /\ CodesStandForInput'
  BY <1>1, WindowKept
<1>7. EndValid'
  <2>1. finished => upto = offered
    BY DEF StreamValid, EndValid
  <2> QED
    BY <1>1, <1>2, <1>3, <2>1 DEF StreamValid, EndValid
<1> QED
  BY <1>1, <1>2, <1>3, <1>4, <1>5, <1>6, <1>7 DEF StreamValid

(* A step of a call, and what the client may find after it.                *)
LEMMA StepKeepsStream ==
  ASSUME StreamValid, Step
  PROVE  /\ StreamValid' /\ pc # "idle"
         /\ room' + written' = room + written
         /\ UNCHANGED <<source, offered, flush>>
         /\ \/ prev_status # "okay" \/ (wants_to_finish /\ flush # "finish")
            \/ Drained(finished')
            \/ pc' # "idle" /\ UNCHANGED <<status, prev_status>>
<1>1. CASE Compress
  BY <1>1, CompressKeepsStream DEF Compress, const, call
<1>2. CASE Parse
  BY <1>2, ParseKeepsStream DEF Parse, const, call, ending
<1>3. CASE FillFast
  BY <1>3, FillFastKeepsStream DEF FillFast, const, call, ending
<1>4. CASE FastStep
  BY <1>4, FastStepKeepsStream DEF FastStep, const, call, ending
<1>5. CASE EndParse
  BY <1>5, EndParseKeepsStream DEF EndParse, const, call, ending
<1>6. CASE Finish
  BY <1>6, FinishKeepsStream DEF Finish, const, call
<1> QED
  BY <1>1, <1>2, <1>3, <1>4, <1>5, <1>6 DEF Step

-----------------------------------------------------------------------------
(* The callers.                                                            *)

(* The client waits while the compressor is at work.                       *)
LEMMA DeflatingKeepsAll ==
  ASSUME IInv, Deflating
  PROVE  IInv'
<1>1. /\ StreamValid /\ ClientValid /\ WholeStreamOrNull
      /\ Step /\ UNCHANGED client
  BY DEF IInv, Deflating
<1>2. /\ StreamValid' /\ pc # "idle"
      /\ room' + written' = room + written
      /\ UNCHANGED <<source, offered, flush>>
      /\ \/ prev_status # "okay" \/ (wants_to_finish /\ flush # "finish")
         \/ Drained(finished')
         \/ pc' # "idle" /\ UNCHANGED <<status, prev_status>>
  BY <1>1, StepKeepsStream
<1>3. UNCHANGED <<caller, calls, appended, last_total, result>>
  BY <1>1 DEF client
<1>4. calls \in Nat /\ calls # 0 /\ calls > 0
  BY <1>1, <1>2 DEF ClientValid, Untouched
<1>5. caller = "compress" =>
        /\ flush = "finish" /\ offered = Len(source)
        /\ room + written = BufSize /\ status = "none" /\ prev_status = "okay"
        /\ result = "none" /\ appended = << >> /\ last_total = 0
  BY <1>1, <1>2, <1>4 DEF ClientValid, CompressValid
<1>6. result = "none"
  BY <1>1, <1>5 DEF ClientValid
<1>7. WholeStreamOrNull'
  BY <1>3, <1>6 DEF WholeStreamOrNull
<1>8. CompressValid'
  <2> SUFFICES ASSUME caller = "compress" PROVE CompressValid'
    BY <1>3 DEF CompressValid
  <2>1. /\ flush' = "finish" /\ offered' = Len(source')
        /\ room' + written' = BufSize
    BY <1>2, <1>5
  <2>2. \/ /\ pc' = "idle" /\ status' = "stream_end"
        \/ /\ pc' = "idle" /\ status' = "ok" /\ room' = 0
           /\ prev_status' = "okay" /\ (~finished' \/ pending' > 0)
        \/ /\ pc' # "idle" /\ status' = "none" /\ prev_status' = "okay"
    BY <1>2, <1>5 DEF Drained
  <2> QED
    BY <1>3, <1>4, <1>5, <2>1, <2>2 DEF CompressValid
<1>9. ClientValid'
  BY <1>1, <1>3, <1>4, <1>8 DEF ClientValid
<1> QED
  BY <1>2, <1>7, <1>9 DEF IInv

(* The client's call to finish,                                            *)
LEMMA CallFinishKeepsAll ==
  ASSUME IInv, CallFinish
  PROVE  IInv'
<1>1. /\ StreamValid /\ ClientValid /\ WholeStreamOrNull
      /\ caller = "compress" /\ result = "none" /\ calls' = 1
      /\ calls = 0 \/ (status = "ok" /\ last_total = written)
      /\ UNCHANGED <<caller, appended, last_total, result>>
  BY DEF IInv, CallFinish
<1>2. PICK f, r :
        /\ f \in {"finish"}
        /\ r = IF calls = 0 THEN BufSize ELSE room
        /\ Deflate(f, Len(source), r)
  BY DEF CallFinish
<1>3. /\ offered \in Nat /\ offered <= Len(source) /\ Len(source) \in Nat
      /\ room \in Nat /\ written \in Nat /\ BufSize \in Nat \ {0}
  BY <1>1, Numbers, CallsAssumption
<1>4. calls \in Nat /\ pc = "idle"
  BY <1>1, <1>2 DEF ClientValid, Deflate
<1>5. wants_to_finish => Len(source) = offered
  <2>1. CASE calls = 0
    BY <1>1, <2>1 DEF ClientValid, Untouched
  <2>2. CASE calls # 0
    BY <1>1, <1>4, <2>2 DEF ClientValid, CompressValid
  <2> QED
    BY <2>1, <2>2
<1>6. /\ StreamValid'
      /\ offered' = Len(source) /\ room' = r /\ flush' = f
      /\ UNCHANGED <<source, written, pending, prev_status, finished>>
      /\ IF r = 0 THEN pc' = "idle" /\ status' = "buf_error"
         ELSE prev_status = "okay" => pc' = "compress" /\ status' = status
  BY <1>1, <1>2, <1>3, <1>5, DeflateKeepsStream
<1>7. CompressValid'
  <2>1. CASE calls = 0
    <3>1. /\ status = "none" /\ prev_status = "okay" /\ written = 0
          /\ appended = << >> /\ last_total = 0 /\ r = BufSize
      BY <1>1, <1>2, <2>1 DEF ClientValid, Untouched, CompressValid
    <3>2. pc' = "compress" /\ status' = "none" /\ prev_status' = "okay"
      BY <1>3, <1>6, <3>1
    <3>3. room' + written' = BufSize
      BY <1>3, <1>6, <3>1
    <3> QED
      BY <1>1, <1>2, <1>6, <3>1, <3>2, <3>3 DEF CompressValid
  <2>2. CASE calls # 0
    <3>1. /\ room = 0 /\ room + written = BufSize /\ status = "ok"
          /\ ~finished \/ pending > 0
      BY <1>1, <1>4, <2>2 DEF ClientValid, CompressValid
    <3>2. /\ pc' = "idle" /\ status' = "buf_error" /\ room' = 0
          /\ room' + written' = BufSize
      BY <1>2, <1>6, <2>2, <3>1
    <3> QED
      BY <1>1, <1>2, <1>6, <3>1, <3>2 DEF CompressValid
  <2> QED
    BY <2>1, <2>2
<1>8. ClientValid'
  BY <1>1, <1>7 DEF ClientValid
<1>9. WholeStreamOrNull'
  BY <1>1 DEF WholeStreamOrNull
<1> QED
  BY <1>6, <1>8, <1>9 DEF IInv

(* Positions one after another.                                            *)
LEMMA PositionsAre ==
  ASSUME NEW n \in Nat
  PROVE  /\ [k \in 1..n |-> k] \in Seq(Nat)
         /\ << >> \o [k \in 1..n |-> k] = [k \in 1..n |-> k]
<1>1. [k \in 1..n |-> k] \in Seq(Nat)
  <2>1. [k \in 1..n |-> k] \in [1..n -> Nat]
    OBVIOUS
  <2> QED
    BY <2>1, IsASeq
<1> QED
  BY <1>1, ConcatEmptySeq

(* its return,                                                             *)
LEMMA CallReturnsKeepsAll ==
  ASSUME IInv, CallReturns
  PROVE  IInv'
<1>1. /\ StreamValid /\ ClientValid /\ WholeStreamOrNull
      /\ caller = "compress" /\ result = "none" /\ pc = "idle" /\ calls = 1
      /\ UNCHANGED <<vars, caller, calls>>
  BY DEF IInv, CallReturns
<1>2. UNCHANGED <<source, mode, taken, offered, flush, before, pc, status, dict,
        dict_size, lookahead_pos, lookahead_size, saved, codes, total_lz_bytes,
        block_start, decoded, final, trailer, room, written, pending, adler,
        wants_to_finish, finished, prev_status, caller, calls>>
  BY <1>1 DEF vars, const, call, lz, block, output, ending
<1>3. StreamValid'
  <2>1. TypeOK' /\ PositionsValid'
    BY <1>1, <1>2 DEF StreamValid, TypeOK, PositionsValid, Ahead
  <2>2. UNCHANGED <<const, taken, lz, block>>
    BY <1>1 DEF vars
  <2>3. /\ DictionaryHoldsWindow' /\ SavedValid' /\ BlockValid'
        /\ CodesStandForInput'
    BY <1>1, <2>2, WindowKept
  <2>4. EndValid'
    BY <1>1, <1>2 DEF StreamValid, EndValid
  <2> QED
    BY <2>1, <2>3, <2>4 DEF StreamValid
<1>4. /\ flush = "finish" /\ offered = Len(source) /\ room + written = BufSize
      /\ written \in Nat /\ room \in Nat /\ BufSize \in Nat
      /\ appended \in Seq(Nat) /\ last_total \in Nat
      /\ \/ status = "stream_end" /\ appended = << >> /\ last_total = 0
         \/ /\ status = "ok" /\ room = 0 /\ prev_status = "okay"
            /\ ~finished \/ pending > 0
         \/ status = "buf_error" /\ room = 0 /\ (~finished \/ pending > 0)
  <2>1. /\ flush = "finish" /\ offered = Len(source) /\ room + written = BufSize
        /\ CASE status = "stream_end" ->
                  \/ result = "none" /\ appended = << >> /\ last_total = 0
                  \/ result = "output" /\ appended = [k \in 1..written |-> k]
             [] status = "ok" ->
                  /\ room = 0 /\ prev_status = "okay" /\ result = "none"
                  /\ ~finished \/ pending > 0
                  /\ last_total > 0 \/ appended = << >>
             [] status = "buf_error" ->
                  /\ room = 0 /\ result \in {"none", "null"}
                  /\ ~finished \/ pending > 0
             [] OTHER -> FALSE
    BY <1>1 DEF ClientValid, CompressValid
  <2>2. written \in Nat /\ room \in Nat /\ BufSize \in Nat
    BY <1>1, Numbers, CallsAssumption
  <2>3. appended \in Seq(Nat) /\ last_total \in Nat
    BY <1>1 DEF ClientValid
  <2> QED
    BY <1>1, <2>1, <2>2, <2>3
<1>5. CASE status = "buf_error"
  <2>1. /\ result' = "null" /\ UNCHANGED <<appended, last_total>>
        /\ room = 0 /\ (~finished \/ pending > 0)
    BY <1>4, <1>5 DEF CallReturns
  <2>2. written = BufSize
    BY <1>4, <2>1
  <2>3. WholeStreamOrNull'
    BY <1>2, <2>1, <2>2 DEF WholeStreamOrNull
  <2>4. CompressValid'
    BY <1>1, <1>2, <1>4, <1>5, <2>1 DEF CompressValid
  <2>5. ClientValid'
    BY <1>1, <1>2, <2>1, <2>4 DEF ClientValid
  <2> QED
    BY <1>3, <2>3, <2>5 DEF IInv
<1>6. CASE status = "ok"
  <2>1. /\ written > last_total /\ last_total' = written /\ result' = "none"
        /\ appended' = appended \o [k \in 1 .. written - last_total |-> k]
    BY <1>6 DEF CallReturns
  <2>2. last_total' \in Nat /\ last_total' > 0
    BY <1>4, <2>1
  <2>3. appended' \in Seq(Nat)
    <3>1. PICK n \in Nat : n = written - last_total
      BY <1>4, <2>1
    <3>2. [k \in 1..n |-> k] \in Seq(Nat)
      BY PositionsAre
    <3> QED
      BY <1>4, <2>1, <3>1, <3>2
  <2>4. WholeStreamOrNull'
    BY <2>1 DEF WholeStreamOrNull
  <2>5. CompressValid'
    BY <1>1, <1>2, <1>4, <1>6, <2>1, <2>2 DEF CompressValid
  <2>6. ClientValid'
    BY <1>1, <1>2, <2>1, <2>2, <2>3, <2>5 DEF ClientValid
  <2> QED
    BY <1>3, <2>4, <2>6 DEF IInv
<1>7. CASE status = "stream_end"
  <2>1. /\ appended = << >> /\ last_total = 0
        /\ last_total' = written /\ result' = "output"
        /\ appended' = appended \o [k \in 1 .. written - last_total |-> k]
    BY <1>4, <1>7 DEF CallReturns
  <2>2. /\ appended' = [k \in 1..written |-> k] /\ appended' \in Seq(Nat)
        /\ last_total' \in Nat
    <3>1. written - last_total = written
      BY <1>4, <2>1
    <3> QED
      BY <1>4, <2>1, <3>1, PositionsAre
  <2>3. WholeStreamOrNull'
    BY <1>2, <1>7, <2>1, <2>2 DEF WholeStreamOrNull
  <2>4. CompressValid'
    BY <1>1, <1>2, <1>4, <1>7, <2>1, <2>2 DEF CompressValid
  <2>5. ClientValid'
    BY <1>1, <1>2, <2>1, <2>2, <2>4 DEF ClientValid
  <2> QED
    BY <1>3, <2>3, <2>5 DEF IInv
<1> QED
  BY <1>4, <1>5, <1>6, <1>7

(* and any other caller's call.                                            *)
LEMMA CallOtherKeepsAll ==
  ASSUME IInv, CallOther
  PROVE  IInv'
<1>1. /\ StreamValid /\ ClientValid /\ WholeStreamOrNull
      /\ caller = "other" /\ calls' = calls + 1
      /\ UNCHANGED <<caller, appended, last_total, result>>
  BY DEF IInv, CallOther
<1>2. PICK f \in {"none", "sync", "full", "finish"},
           k \in Pieces \cup {0, Len(source) - offered}, r \in Rooms :
        /\ offered + k <= Len(source)
        /\ wants_to_finish => k = 0
        /\ Deflate(f, offered + k, r)
  BY DEF CallOther
<1>3. /\ offered \in Nat /\ offered <= Len(source) /\ Len(source) \in Nat
  BY <1>1, Numbers
<1>4. k \in Nat /\ r \in Nat
  BY <1>2, <1>3, CallsAssumption
<1>5. PICK upto \in Nat :
        /\ upto = offered + k /\ offered <= upto
        /\ k = 0 => upto = offered
  BY <1>3, <1>4
<1>6. /\ Deflate(f, upto, r) /\ upto <= Len(source)
      /\ wants_to_finish => upto = offered
  BY <1>2, <1>5
<1>7. StreamValid'
  BY <1>1, <1>4, <1>5, <1>6, DeflateKeepsStream
<1>8. calls' \in Nat /\ calls' # 0 /\ result = "none"
  BY <1>1 DEF ClientValid
<1>9. ClientValid'
  BY <1>1, <1>8 DEF ClientValid, CompressValid
<1>10. WholeStreamOrNull'
  BY <1>1, <1>8 DEF WholeStreamOrNull
<1> QED
  BY <1>7, <1>9, <1>10 DEF IInv

(* The invariant holds before the first call.                              *)
LEMMA InvariantStarts == CInit => IInv
<1> SUFFICES ASSUME CInit PROVE IInv
  OBVIOUS
<1>1. /\ source \in Sources /\ mode \in Modes
      /\ taken = 0 /\ offered = 0 /\ room = 0 /\ written = 0
      /\ flush = "none" /\ before = <<0, 0>> /\ pc = "idle" /\ status = "none"
      /\ dict_size = 0 /\ lookahead_pos = 0 /\ lookahead_size = 0
      /\ saved = NoMatch /\ codes = << >> /\ total_lz_bytes = 0
      /\ block_start = 0 /\ pending = 0 /\ adler = 0
      /\ wants_to_finish = FALSE /\ finished = FALSE /\ prev_status = "okay"
      /\ decoded = << >> /\ final = "no" /\ trailer = -1
      /\ caller \in {"compress", "other"} /\ calls = 0
      /\ appended = << >> /\ last_total = 0 /\ result = "none"
  BY DEF CInit, Init
<1>2. PICK b \in Stale : dict = [s \in 0 .. DictSize + MaxMatch - 2 |-> b]
  BY DEF CInit, Init
<1>3. source \in Seq(Byte) /\ Len(source) \in Nat /\ b \in Byte
  BY <1>1, InputAssumption
<1>4. saved \in [dist : Nat, len : Nat, byte : Byte] /\ ~(saved.len > 0)
  BY <1>1 DEF NoMatch, Byte
<1>5. Coded = 0
  <2>1. Coded = lookahead_pos - 0
    BY <1>4 DEF Coded
  <2>2. lookahead_pos = 0
    BY <1>1
  <2> QED
    BY <2>1, <2>2
<1>6. Text(0) = << >>
  <2>1. Len(<< >>) = 0 /\ << >> \in Seq(Byte) /\ 0 <= Len(source)
    BY <1>3
  <2>2. \A k \in 1..0 : << >>[k] = source[k]
    OBVIOUS
  <2>3. PICK t : t = << >>
    OBVIOUS
  <2> QED
    BY <1>3, <2>1, <2>2, <2>3, IsText
<1>7. TypeOK
  <2>1. dict \in [0 .. DictSize + MaxMatch - 2 -> Byte]
    BY <1>2, <1>3
  <2>2. before \in Nat \X Nat /\ trailer \in Nat \cup {-1}
    BY <1>1
  <2>3. codes \in Seq(Code) /\ decoded \in Seq(Byte)
    BY <1>1
  <2>4. /\ taken \in Nat /\ offered \in Nat /\ room \in Nat
        /\ written \in Nat /\ dict_size \in Nat /\ lookahead_pos \in Nat
        /\ lookahead_size \in Nat /\ total_lz_bytes \in Nat
        /\ block_start \in Nat /\ pending \in Nat /\ adler \in Nat
    BY <1>1
  <2>5. /\ source \in Sources /\ mode \in Modes
        /\ flush \in {"none", "sync", "full", "finish"}
        /\ pc \in {"idle", "compress", "parse", "fast", "parsed"}
        /\ status \in {"none", "ok", "stream_end", "buf_error", "stream_error"}
        /\ wants_to_finish \in BOOLEAN /\ finished \in BOOLEAN
        /\ prev_status \in {"okay", "done", "bad_param"}
        /\ final \in {"no", "yes", "early"}
    BY <1>1
  <2> QED
    BY <1>4, <2>1, <2>2, <2>3, <2>4, <2>5 DEF TypeOK
<1>8. PositionsValid
  <2>1. Ahead \in Nat
    BY AheadFits
  <2> QED
    BY <1>1, <1>3, <2>1 DEF PositionsValid
<1>9. DictionaryHoldsWindow
  BY <1>1, SizesAre DEF DictionaryHoldsWindow
<1>10. SavedValid /\ BlockValid
  BY <1>1, <1>4, <1>5, <1>6 DEF SavedValid, BlockValid
<1>11. CodesStandForInput
  <2>1. Expanded(decoded, codes) = Text(Coded)
    BY <1>1, <1>5, <1>6, ExpandedByNone
  <2> QED
    BY <1>4, <2>1 DEF CodesStandForInput, Text, Coded
<1>12. EndValid
  BY <1>1 DEF EndValid
<1>13. ClientValid
  BY <1>1 DEF ClientValid, Untouched, CompressValid
<1>14. WholeStreamOrNull
  BY <1>1 DEF WholeStreamOrNull
<1> QED
  BY <1>7, <1>8, <1>9, <1>10, <1>11, <1>12, <1>13, <1>14
     DEF IInv, StreamValid

(* A stuttering step.                                                      *)
LEMMA StutterKeepsAll ==
  ASSUME IInv, UNCHANGED <<vars, client>>
  PROVE  IInv'
<1>1. UNCHANGED <<source, mode, taken, offered, flush, before, pc, status, dict,
        dict_size, lookahead_pos, lookahead_size, saved, codes, total_lz_bytes,
        block_start, decoded, final, trailer, room, written, pending, adler,
        wants_to_finish, finished, prev_status>>
  BY DEF vars, const, call, lz, block, output, ending
<1>2. UNCHANGED <<caller, calls, appended, last_total, result>>
  BY DEF client
<1>3. TypeOK' /\ PositionsValid'
  BY <1>1 DEF IInv, StreamValid, TypeOK, PositionsValid, Ahead
<1>4. /\ DictionaryHoldsWindow' /\ SavedValid' /\ BlockValid'
      /\ CodesStandForInput'
  BY WindowKept DEF IInv, vars
<1>5. EndValid'
  BY <1>1 DEF IInv, StreamValid, EndValid
<1>6. ClientValid' /\ WholeStreamOrNull'
  BY <1>1, <1>2 DEF IInv, ClientValid, Untouched, CompressValid,
     WholeStreamOrNull
<1> QED
  BY <1>3, <1>4, <1>5, <1>6 DEF IInv, StreamValid

-----------------------------------------------------------------------------
(* The parse, the blocks, the end of the stream and what compress makes of *)
(* it are right together, in every state, for every input, every ring and  *)
(* whatever the calls are.                                                 *)
THEOREM Invariance == Spec => []IInv
<1>1. CInit => IInv
  BY InvariantStarts
<1>2. IInv /\ [Next]_<<vars, client>> => IInv'
  <2> SUFFICES ASSUME IInv, [Next]_<<vars, client>> PROVE IInv'
    OBVIOUS
  <2>1. CASE Deflating
    BY <2>1, DeflatingKeepsAll
  <2>2. CASE CallFinish
    BY <2>2, CallFinishKeepsAll
  <2>3. CASE CallReturns
    BY <2>3, CallReturnsKeepsAll
  <2>4. CASE CallOther
    BY <2>4, CallOtherKeepsAll
  <2>5. CASE UNCHANGED <<vars, client>>
    BY <2>5, StutterKeepsAll
  <2> QED
    BY <2>1, <2>2, <2>3, <2>4, <2>5 DEF Next
<1> QED
  BY <1>1, <1>2, PTL DEF Spec

(* Every variable of the compressor keeps its type (miniz.c:1064-1111,     *)
(* 2615-2690).                                                             *)
THEOREM TypeCorrect == Spec => []TypeOK
<1>1. IInv => TypeOK
  BY DEF IInv, StreamValid
<1> QED
  BY <1>1, Invariance, PTL

(* The codes are the input: what the blocks put out and the codes collected*)
(* stand for is the input up to the lookahead, however it was cut into     *)
(* calls and parsed (miniz.c:2497-2613, 2329-2464, 2162-2207).             *)
THEOREM CodesAreTheInput == Spec => []CodesStandForInput
<1>1. IInv => CodesStandForInput
  BY DEF IInv, StreamValid
<1> QED
  BY <1>1, Invariance, PTL

(* The ring is the window: a match that is found there is one of the input *)
(* (miniz.c:2508-2540).                                                    *)
THEOREM RingIsTheWindow == Spec => []DictionaryHoldsWindow
<1>1. IInv => DictionaryHoldsWindow
  BY DEF IInv, StreamValid
<1> QED
  BY <1>1, Invariance, PTL

(* MZ_STREAM_END is only returned when the whole input was read and coded, *)
(* the last block and its checksum are written, and nothing waits          *)
(* (miniz.c:1064-1111, 2615-2690).                                         *)
THEOREM EndIsComplete == Spec => []StreamEndsComplete
<1>1. IInv => StreamEndsComplete
  BY DEF IInv, StreamValid, EndValid, BlockValid, StreamEndsComplete, Text
<1> QED
  BY <1>1, Invariance, PTL

(* compress returns the whole stream, or NULL, and NULL only when its      *)
(* buffer was too small for it (zipprof.cc:66-86).                         *)
THEOREM CompressIsWholeOrNull == Spec => []WholeStreamOrNull
<1>1. IInv => WholeStreamOrNull
  BY DEF IInv
<1> QED
  BY <1>1, Invariance, PTL
=============================================================================
