---------------------------- MODULE InflateProofs ----------------------------
(***************************************************************************)
(* Proofs about Inflate, for all well-formed streams of any size, whole,   *)
(* cut short or with more behind them, all three callers and any sequence  *)
(* of calls: the inductive invariant IInv, and from it that the output is  *)
(* the text of the stream, that an end reported is a whole one, and that   *)
(* the bit buffer does not overflow and holds little from behind the end.  *)
(***************************************************************************)
EXTENDS Inflate, SequenceTheorems, WellFoundedInduction, TLAPS

-----------------------------------------------------------------------------
(* Induction, with the set of the numbers for which the claim holds.       *)
LEMMA Induction ==
  ASSUME NEW T, 0 \in T, \A k \in Nat : k \in T => k + 1 \in T
  PROVE  \A k \in Nat : k \in T
<1> SUFFICES ASSUME NEW R, R = {ss \in Nat \X Nat : ss[1] < ss[2]},
                    Nat \ T # {}
             PROVE  FALSE
  OBVIOUS
<1>1. IsWellFoundedOn(R, Nat)
  BY NatLessThanWellFounded DEF OpToRel
<1>2. PICK m \in Nat \ T : \A k \in Nat \ T : ~ (<<k, m>> \in R)
  BY <1>1, WFMin
<1>3. m # 0 /\ m - 1 \in Nat /\ m - 1 < m
  BY <1>2
<1>4. m - 1 \in T
  BY <1>2, <1>3
<1> QED
  BY <1>2, <1>3, <1>4

(* A set of natural numbers with a member has a least one.                 *)
LEMMA LeastElement ==
  ASSUME NEW T, T \subseteq Nat, T # {}
  PROVE  \E m \in T : \A k \in T : m <= k
<1> SUFFICES ASSUME NEW R, R = {ss \in Nat \X Nat : ss[1] < ss[2]}
             PROVE  \E m \in T : \A k \in T : m <= k
  OBVIOUS
<1>1. IsWellFoundedOn(R, Nat)
  BY NatLessThanWellFounded DEF OpToRel
<1>2. PICK m \in T : \A k \in T : ~ (<<k, m>> \in R)
  BY <1>1, WFMin
<1>3. \A k \in T : ~ (k < m)
  BY <1>2
<1> QED
  BY <1>3

(* Texts and Positions are recursive functions: there are such.            *)
IsTexts(f, ops, n) ==
  f = [m \in 0..n |-> IF m = 0 THEN << >> ELSE Extended(f[m - 1], ops[m])]

IsPositions(f, ops, n) ==
  f = [m \in 0..n |-> IF m = 0 THEN 0 ELSE Behind(f[m - 1], ops[m])]

(* There is a recursive function of the texts, by induction on how far.    *)
LEMMA TextsExist ==
  ASSUME NEW ops, NEW n \in Nat
  PROVE  \E f : IsTexts(f, ops, n)
<1> SUFFICES ASSUME NEW T, T = {k \in Nat : \E f : IsTexts(f, ops, k)}
             PROVE  \E f : IsTexts(f, ops, n)
  OBVIOUS
<1>1. 0 \in T
  <2>1. IsTexts([m \in 0..0 |-> << >>], ops, 0)
    BY DEF IsTexts
  <2> QED
    BY <2>1
<1>2. ASSUME NEW j \in Nat, j \in T PROVE j + 1 \in T
  <2>1. PICK f : IsTexts(f, ops, j)
    BY <1>2
  <2>2. PICK g : g = [m \in 0 .. j + 1 |->
                        IF m = 0 THEN << >> ELSE Extended(f[m - 1], ops[m])]
    OBVIOUS
  <2>3. ASSUME NEW m \in 0..j PROVE g[m] = f[m]
    BY <2>1, <2>2 DEF IsTexts
  <2>4. ASSUME NEW m \in 0 .. j + 1, m # 0 PROVE g[m - 1] = f[m - 1]
    <3>1. m - 1 \in 0..j
      BY <2>4
    <3> QED
      BY <2>3, <3>1
  <2>5. g = [m \in 0 .. j + 1 |-> IF m = 0 THEN << >> ELSE Extended(g[m - 1], ops[m])]
    BY <2>2, <2>4
  <2>6. IsTexts(g, ops, j + 1)
    BY <2>5, Zenon DEF IsTexts
  <2> QED
    BY <2>6
<1> QED
  BY <1>1, <1>2, Induction

(* The same for the positions.                                             *)
LEMMA PositionsExist ==
  ASSUME NEW ops, NEW n \in Nat
  PROVE  \E f : IsPositions(f, ops, n)
<1> SUFFICES ASSUME NEW T, T = {k \in Nat : \E f : IsPositions(f, ops, k)}
             PROVE  \E f : IsPositions(f, ops, n)
  OBVIOUS
<1>1. 0 \in T
  <2>1. IsPositions([m \in 0..0 |-> 0], ops, 0)
    BY DEF IsPositions
  <2> QED
    BY <2>1
<1>2. ASSUME NEW j \in Nat, j \in T PROVE j + 1 \in T
  <2>1. PICK f : IsPositions(f, ops, j)
    BY <1>2
  <2>2. PICK g : g = [m \in 0 .. j + 1 |->
                        IF m = 0 THEN 0 ELSE Behind(f[m - 1], ops[m])]
    OBVIOUS
  <2>3. ASSUME NEW m \in 0..j PROVE g[m] = f[m]
    BY <2>1, <2>2 DEF IsPositions
  <2>4. ASSUME NEW m \in 0 .. j + 1, m # 0 PROVE g[m - 1] = f[m - 1]
    <3>1. m - 1 \in 0..j
      BY <2>4
    <3> QED
      BY <2>3, <3>1
  <2>5. g = [m \in 0 .. j + 1 |-> IF m = 0 THEN 0 ELSE Behind(g[m - 1], ops[m])]
    BY <2>2, <2>4
  <2>6. IsPositions(g, ops, j + 1)
    BY <2>5, Zenon DEF IsPositions
  <2> QED
    BY <2>6
<1> QED
  BY <1>1, <1>2, Induction

(* What Texts is, operation by operation.                                  *)
LEMMA TextsUnfold ==
  ASSUME NEW ops, Len(ops) \in Nat
  PROVE  /\ Texts(ops)[0] = << >>
         /\ \A n \in 1 .. Len(ops) : Texts(ops)[n] = Extended(Texts(ops)[n - 1], ops[n])
<1>1. \E f : IsTexts(f, ops, Len(ops))
  BY TextsExist
<1>2. Texts(ops) = CHOOSE f : IsTexts(f, ops, Len(ops))
  BY DEF Texts, IsTexts
<1>3. IsTexts(Texts(ops), ops, Len(ops))
  BY <1>1, <1>2
<1>4. PICK f : f = Texts(ops)
  OBVIOUS
<1>5. \A m \in 0 .. Len(ops) :
        f[m] = IF m = 0 THEN << >> ELSE Extended(f[m - 1], ops[m])
  BY <1>3, <1>4 DEF IsTexts
<1> QED
  BY <1>4, <1>5

(* What Positions is.                                                      *)
LEMMA PositionsUnfold ==
  ASSUME NEW ops, Len(ops) \in Nat
  PROVE  /\ Positions(ops)[0] = 0
         /\ \A n \in 1 .. Len(ops) :
              Positions(ops)[n] = Behind(Positions(ops)[n - 1], ops[n])
<1>1. \E f : IsPositions(f, ops, Len(ops))
  BY PositionsExist
<1>2. Positions(ops) = CHOOSE f : IsPositions(f, ops, Len(ops))
  BY DEF Positions, IsPositions
<1>3. IsPositions(Positions(ops), ops, Len(ops))
  BY <1>1, <1>2
<1>4. PICK f : f = Positions(ops)
  OBVIOUS
<1>5. \A m \in 0 .. Len(ops) :
        f[m] = IF m = 0 THEN 0 ELSE Behind(f[m - 1], ops[m])
  BY <1>3, <1>4 DEF IsPositions
<1> QED
  BY <1>4, <1>5

-----------------------------------------------------------------------------
(* Arithmetic.                                                             *)
LEMMA MinIs ==
  ASSUME NEW a \in Int, NEW b \in Int
  PROVE  Min({a, b}) = IF a <= b THEN a ELSE b
<1>1. \A x \in {a, b} : (\A y \in {a, b} : x <= y) => x = IF a <= b THEN a ELSE b
  OBVIOUS
<1>2. \E x \in {a, b} : \A y \in {a, b} : x <= y
  OBVIOUS
<1>3. Min({a, b}) \in {a, b} /\ \A y \in {a, b} : Min({a, b}) <= y
  BY <1>2 DEF Min
<1> QED
  BY <1>1, <1>3

(* The least of three is one of them and no more than any.                 *)
LEMMA MinOfThree ==
  ASSUME NEW a \in Int, NEW b \in Int, NEW c \in Int
  PROVE  /\ Min({a, b, c}) \in {a, b, c}
         /\ Min({a, b, c}) <= a /\ Min({a, b, c}) <= b /\ Min({a, b, c}) <= c
<1>1. \E x \in {a, b, c} : \A y \in {a, b, c} : x <= y
  OBVIOUS
<1> QED
  BY <1>1 DEF Min

(* The larger of two.                                                      *)
LEMMA MaxIs ==
  ASSUME NEW a \in Int, NEW b \in Int
  PROVE  Max({a, b}) = IF a >= b THEN a ELSE b
<1>1. \A x \in {a, b} : (\A y \in {a, b} : x >= y) => x = IF a >= b THEN a ELSE b
  OBVIOUS
<1>2. \E x \in {a, b} : \A y \in {a, b} : x >= y
  OBVIOUS
<1>3. Max({a, b}) \in {a, b} /\ \A y \in {a, b} : Max({a, b}) >= y
  BY <1>2 DEF Max
<1> QED
  BY <1>1, <1>3

(* What div and mod mean.                                                  *)
LEMMA ModDecomposes ==
  ASSUME NEW a \in Int, NEW n \in Nat \ {0}
  PROVE  /\ a \div n \in Int /\ a % n \in 0 .. n - 1
         /\ a = n * (a \div n) + (a % n)
BY Z3

(* A remainder is the only one of its kind.                                *)
LEMMA ModIs ==
  ASSUME NEW a \in Int, NEW n \in Nat \ {0}, NEW q \in Int,
         NEW r \in 0 .. n - 1, a = n * q + r
  PROVE  a % n = r
<1>1. PICK d \in Int, s \in 0 .. n - 1 : a % n = s /\ a = n * d + s
  BY ModDecomposes
<1>2. n * (d - q) = r - s
  BY <1>1
<1>3. CASE d - q <= -1
  <2>1. n * (d - q) <= -n
    BY <1>3
  <2> QED
    BY <1>2, <2>1
<1>4. CASE d - q >= 1
  <2>1. n * (d - q) >= n
    BY <1>4
  <2> QED
    BY <1>2, <2>1
<1>5. CASE d = q
  BY <1>1, <1>2, <1>5
<1> QED
  BY <1>3, <1>4, <1>5

(* A sum has the remainder of the sum of a remainder.                      *)
LEMMA ModOfSum ==
  ASSUME NEW a \in Int, NEW b \in Int, NEW n \in Nat \ {0}
  PROVE  ((a % n) + b) % n = (a + b) % n
<1>1. PICK q \in Int, r \in 0 .. n - 1 : a % n = r /\ a = n * q + r
  BY ModDecomposes
<1>2. PICK c \in Int : c = r + b
  BY <1>1
<1>3. PICK p \in Int, s \in 0 .. n - 1 : c % n = s /\ c = n * p + s
  BY ModDecomposes
<1>4. a + b = n * (q + p) + s /\ q + p \in Int /\ a + b \in Int
  BY <1>1, <1>2, <1>3
<1>5. (a + b) % n = s
  BY <1>4, ModIs
<1> QED
  BY <1>1, <1>2, <1>3, <1>5

(* What is small enough is its own remainder.                              *)
LEMMA ModKeeps ==
  ASSUME NEW n \in Nat \ {0}, NEW a \in 0 .. n - 1
  PROVE  a % n = a
<1>1. a = n * 0 + a /\ a \in Int
  OBVIOUS
<1> QED
  BY <1>1, ModIs

(* A turn back leaves the place in the window.                             *)
LEMMA ModLess ==
  ASSUME NEW a \in Int, NEW n \in Nat \ {0}
  PROVE  (a - n) % n = a % n
<1>1. PICK q \in Int, r \in 0 .. n - 1 : a % n = r /\ a = n * q + r
  BY ModDecomposes
<1>2. a - n = n * (q - 1) + r /\ q - 1 \in Int /\ a - n \in Int
  BY <1>1
<1> QED
  BY <1>1, <1>2, ModIs

-----------------------------------------------------------------------------
(* What an operation is, and what a stream is.                             *)
Kinds == {"bits", "code", "len", "end", "lit", "void", "copy", "stored", "align",
          "fail", "done"}

(* The fields of an operation.                                             *)
LEMMA OpIs ==
  ASSUME NEW o \in Operation
  PROVE  /\ o.op \in Kinds
         /\ o.op = "bits" => o.bits \in 0..16
         /\ o.op \in Symbols \cup {"code"} => o.bits \in 0..15
         /\ o.op = "void" => o.bits = 0
         /\ o.op \in Literals => o.byte \in Byte
         /\ o.op = "copy" => o.dist \in 0..DictSize /\ o.len \in Nat \ {0}
         /\ o.op = "stored" => o.bytes \in Seq(Byte)
BY DEF Operation, Kinds, Symbols, Literals, Byte

(* Not refused, and not a code that there is not.                          *)
Sound(o) == o.op # "fail" /\ (o.op = "code" => o.bits > 0)

(* A stream is what its operations say.                                    *)
LEMMA StreamIs ==
  ASSUME NEW s \in Streams
  PROVE  /\ s.size \in Nat /\ s.zlib \in BOOLEAN
         /\ s.ops \in Seq(Operation) /\ Len(s.ops) \in Nat \ {0}
         /\ WellFormed(s.ops, s.zlib)
         /\ s.text = Texts(s.ops)[Len(s.ops)]
         /\ s.known = Known(s.text)
         /\ s.whole = /\ SizeOf(s.ops) <= s.size
                      /\ \A k \in 1 .. Len(s.ops) : Sound(s.ops[k])
                      /\ \A k \in 1 .. Len(s.text) : s.text[k] # Unknown
<1>1. /\ s.size \in Nat /\ s.zlib \in BOOLEAN
      /\ WellFormed(s.ops, s.zlib) /\ s = Stream(s.ops, s.size, s.zlib)
  BY StreamsAssumption
<1>2. s.ops \in Seq(Operation) /\ Len(s.ops) \in Nat \ {0}
  <2>1. s.ops \in Seq(Operation) /\ s.ops # << >>
    BY <1>1 DEF WellFormed
  <2> QED
    BY <2>1, EmptySeq, LenProperties
<1>3. s.text = Texts(s.ops)[Len(s.ops)]
  BY <1>1 DEF Stream
<1>4. PICK t : t = Texts(s.ops)[Len(s.ops)]
  OBVIOUS
<1>5. s.known = Known(t)
  BY <1>1, <1>4 DEF Stream
<1>6. s.whole = /\ SizeOf(s.ops) <= s.size
                /\ \A k \in 1 .. Len(s.ops) : Sound(s.ops[k])
                /\ \A k \in 1 .. Len(t) : t[k] # Unknown
  <2>1. PICK W : W = (/\ SizeOf(s.ops) <= s.size
                      /\ \A k \in 1 .. Len(s.ops) : Sound(s.ops[k])
                      /\ \A k \in 1 .. Len(t) : t[k] # Unknown)
    OBVIOUS
  <2>2. s = [ops |-> s.ops, size |-> s.size, zlib |-> s.zlib, text |-> t,
             known |-> Known(t), whole |-> W]
    BY <1>1, <1>4, <2>1, Zenon DEF Stream, Sound
  <2>3. s.whole = W
    BY <2>2
  <2> QED
    BY <2>1, <2>3, Zenon
<1> QED
  BY <1>1, <1>2, <1>3, <1>4, <1>5, <1>6

(* Every sequence of bytes is a text.                                      *)
LEMMA BytesAreData ==
  /\ Byte \subseteq Datum /\ Unknown \in Datum
  /\ Seq(Byte) \subseteq Seq(Datum)
<1>1. Byte \subseteq Datum /\ Unknown \in Datum
  BY DEF Datum
<1> QED
  BY <1>1

(* What an operation adds to a text: a match repeats what is its distance  *)
(* before.                                                                 *)
Adds(o) ==
  CASE o.op \in Literals -> 1
    [] o.op = "stored" -> Len(o.bytes)
    [] o.op = "copy" -> o.len
    [] OTHER -> 0

AddedBehind(u, n, o) ==
  /\ o.op = "lit" => u[n + 1] = o.byte
  /\ o.op = "void" => u[n + 1] = Unknown
  /\ o.op = "stored" => \A k \in 1 .. Len(o.bytes) : u[n + k] = o.bytes[k]
  /\ o.op = "copy" =>
       \A k \in 1 .. o.len :
         u[n + k] = IF o.dist > 0 /\ n + k - o.dist > 0 THEN u[n + k - o.dist]
                    ELSE Unknown

(* An operation adds no fewer than no bytes.                               *)
LEMMA AddsIs ==
  ASSUME NEW o \in Operation
  PROVE  Adds(o) \in Nat
BY OpIs DEF Adds, Literals

(* The text behind an operation: what was there, and what it adds.         *)
LEMMA ExtendedIs ==
  ASSUME NEW t \in Seq(Datum), NEW o \in Operation
  PROVE  /\ Extended(t, o) \in Seq(Datum)
         /\ Len(Extended(t, o)) = Len(t) + Adds(o)
         /\ \A k \in 1 .. Len(t) : Extended(t, o)[k] = t[k]
         /\ AddedBehind(Extended(t, o), Len(t), o)
<1>1. CASE o.op = "lit"
  <2>1. o.byte \in Datum
    BY <1>1, OpIs, BytesAreData DEF Literals
  <2>2. Extended(t, o) = Append(t, o.byte) /\ Adds(o) = 1
    BY <1>1 DEF Extended, Adds, Literals
  <2> QED
    BY <1>1, <2>1, <2>2, AppendProperties DEF AddedBehind
<1>5. CASE o.op = "void"
  <2>1. Unknown \in Datum
    BY BytesAreData
  <2>2. Extended(t, o) = Append(t, Unknown) /\ Adds(o) = 1
    BY <1>5 DEF Extended, Adds, Literals
  <2> QED
    BY <1>5, <2>1, <2>2, AppendProperties DEF AddedBehind
<1>2. CASE o.op = "stored"
  <2>1. PICK b \in Seq(Datum) : b = o.bytes
    BY <1>2, OpIs, BytesAreData
  <2>2. Extended(t, o) = t \o b /\ Adds(o) = Len(b)
    BY <1>2, <2>1 DEF Extended, Adds, Literals
  <2>3. AddedBehind(t \o b, Len(t), o)
    BY <1>2, <2>1, ConcatProperties DEF AddedBehind
  <2> QED
    BY <2>2, <2>3, ConcatProperties
<1>3. CASE o.op = "copy"
  <2>1. PICK d \in Nat, n \in Nat \ {0} : d = o.dist /\ n = o.len
    BY <1>3, OpIs, SizesAssumption
  <2> DEFINE From(k) == IF d = 0 THEN Unknown
                        ELSE LET j == Len(t) - d + 1 + ((k - 1) % d)
                             IN  IF j > 0 THEN t[j] ELSE Unknown
  <2>2. PICK c : c = [k \in 1..n |-> From(k)]
    OBVIOUS
  <2>3. ASSUME NEW k \in 1..n
        PROVE  /\ From(k) \in Datum
               /\ d = 0 => From(k) = Unknown
               /\ k <= d => From(k) = IF Len(t) + k - d > 0 THEN t[Len(t) + k - d]
                                      ELSE Unknown
               /\ d > 0 /\ k > d => From(k) = From(k - d)
    <3> SUFFICES ASSUME d # 0
                 PROVE  /\ From(k) \in Datum
                        /\ k <= d => From(k) = IF Len(t) + k - d > 0
                                               THEN t[Len(t) + k - d] ELSE Unknown
                        /\ k > d => From(k) = From(k - d)
      BY BytesAreData
    <3>1. PICK r \in 0 .. d - 1 : r = (k - 1) % d
      <4>1. k - 1 \in Int
        OBVIOUS
      <4>2. d \in Nat \ {0}
        OBVIOUS
      <4> QED
        BY <4>1, <4>2, ModDecomposes
    <3>2. Len(t) \in Nat /\ \A x \in 1 .. Len(t) : t[x] \in Datum
      OBVIOUS
    <3>3. From(k) = LET j == Len(t) - d + 1 + r IN IF j > 0 THEN t[j] ELSE Unknown
      BY <3>1
    <3> HIDE DEF From
    <3>4. From(k) \in Datum
      <4>1. Len(t) - d + 1 + r > 0 => Len(t) - d + 1 + r \in 1 .. Len(t)
        BY <3>1, <3>2
      <4> QED
        BY <3>2, <3>3, <4>1, BytesAreData
    <3>5. ASSUME k <= d PROVE r = k - 1
      <4>1. k - 1 \in 0 .. d - 1
        BY <3>5
      <4> QED
        BY <3>1, <4>1, ModKeeps
    <3>6. ASSUME k > d PROVE ((k - d) - 1) % d = r
      <4>1. (k - d) - 1 = (k - 1) - d /\ k - 1 \in Int
        OBVIOUS
      <4> QED
        BY <3>1, <4>1, ModLess
    <3>7. ASSUME k > d PROVE From(k - d) = From(k)
      BY <3>3, <3>6, <3>7 DEF From
    <3> QED
      BY <3>2, <3>3, <3>4, <3>5, <3>7
  <2> HIDE DEF From
  <2>4. c \in Seq(Datum) /\ Len(c) = n /\ \A k \in 1..n : c[k] = From(k)
    BY <2>2, <2>3
  <2>5. Extended(t, o) = t \o c /\ Adds(o) = Len(c)
    BY <1>3, <2>1, <2>2, <2>4 DEF Extended, Adds, From, Literals
  <2>6. PICK u : u = t \o c
    OBVIOUS
  <2>7. /\ u \in Seq(Datum) /\ Len(u) = Len(t) + n
        /\ \A k \in 1 .. Len(t) : u[k] = t[k]
        /\ \A k \in 1..n : u[Len(t) + k] = c[k]
    <3>1. Len(t) \in Nat /\ u \in Seq(Datum) /\ Len(u) = Len(t) + n
      BY <2>4, <2>6, ConcatProperties, LenProperties
    <3>2. \A k \in 1 .. Len(t) + n : u[k] = IF k <= Len(t) THEN t[k] ELSE c[k - Len(t)]
      BY <2>4, <2>6
    <3>3. ASSUME NEW k \in 1 .. Len(t) PROVE u[k] = t[k]
      BY <3>1, <3>2
    <3>4. ASSUME NEW k \in 1..n PROVE u[Len(t) + k] = c[k]
      <4>1. PICK j \in 1 .. Len(t) + n : j = Len(t) + k
        BY <3>1
      <4>2. ~(j <= Len(t)) /\ j - Len(t) = k
        BY <3>1, <4>1
      <4> QED
        BY <3>2, <4>1, <4>2
    <3> QED
      BY <3>1, <3>3, <3>4
  <2>8. ASSUME NEW k \in 1..n
        PROVE  u[Len(t) + k] = IF d > 0 /\ Len(t) + k - d > 0 THEN u[Len(t) + k - d]
                               ELSE Unknown
    <3>4. u[Len(t) + k] = From(k)
      BY <2>4, <2>7
    <3>3. CASE d = 0
      <4>1. From(k) = Unknown
        BY <2>3, <3>3
      <4> QED
        BY <3>3, <3>4, <4>1
    <3>1. CASE d > 0 /\ k <= d
      <4>1. Len(t) + k - d > 0 => Len(t) + k - d \in 1 .. Len(t)
        BY <3>1
      <4>2. From(k) = IF Len(t) + k - d > 0 THEN t[Len(t) + k - d] ELSE Unknown
        BY <2>3, <3>1
      <4>3. Len(t) + k - d > 0 => u[Len(t) + k - d] = t[Len(t) + k - d]
        BY <2>7, <4>1
      <4> QED
        BY <3>1, <3>4, <4>2, <4>3
    <3>2. CASE d > 0 /\ k > d
      <4>1. PICK j \in 1..n : j = k - d
        BY <3>2
      <4>2. Len(t) + k - d = Len(t) + j /\ Len(t) + j > 0
        BY <4>1
      <4> QED
        BY <2>3, <2>4, <2>7, <3>2, <4>1, <4>2
    <3> QED
      BY <3>1, <3>2, <3>3
  <2>9. AddedBehind(u, Len(t), o)
    BY <1>3, <2>1, <2>8 DEF AddedBehind
  <2> QED
    BY <2>4, <2>5, <2>6, <2>7, <2>9
<1>4. CASE o.op \notin {"lit", "void", "stored", "copy"}
  <2>1. Extended(t, o) = t /\ Adds(o) = 0
    BY <1>4 DEF Extended, Adds, Literals
  <2>2. AddedBehind(t, Len(t), o)
    BY <1>4 DEF AddedBehind
  <2> QED
    BY <2>1, <2>2
<1> QED
  BY <1>1, <1>2, <1>3, <1>4, <1>5

-----------------------------------------------------------------------------
(* Each text begins with those of the operations before.                   *)
LEMMA TextsAre ==
  ASSUME NEW ops \in Seq(Operation)
  PROVE  \A n \in 0 .. Len(ops) :
           /\ Texts(ops)[n] \in Seq(Datum)
           /\ \A m \in 0..n :
                /\ Len(Texts(ops)[m]) <= Len(Texts(ops)[n])
                /\ \A k \in 1 .. Len(Texts(ops)[m]) :
                     Texts(ops)[n][k] = Texts(ops)[m][k]
<1> DEFINE Good(f, n) ==
      /\ f[n] \in Seq(Datum)
      /\ \A m \in 0..n : /\ Len(f[m]) <= Len(f[n])
                         /\ \A k \in 1 .. Len(f[m]) : f[n][k] = f[m][k]
<1>1. PICK f : f = Texts(ops)
  OBVIOUS
<1>2. /\ f[0] = << >>
      /\ \A n \in 1 .. Len(ops) : f[n] = Extended(f[n - 1], ops[n])
  BY <1>1, TextsUnfold, LenProperties
<1>3. PICK T : T = {n \in Nat : n <= Len(ops) => \A m \in 0..n : Good(f, m)}
  OBVIOUS
<1>4. 0 \in T
  <2>1. Good(f, 0)
    <3>1. << >> \in Seq(Datum) /\ \A m \in 0..0 : m = 0
      BY EmptySeq
    <3> QED
      BY <1>2, <3>1
  <2>2. \A m \in 0..0 : m = 0
    OBVIOUS
  <2> HIDE DEF Good
  <2> QED
    BY <1>3, <2>1, <2>2
<1>5. ASSUME NEW j \in Nat, j \in T PROVE j + 1 \in T
  <2> SUFFICES ASSUME j + 1 <= Len(ops) PROVE \A m \in 0 .. j + 1 : Good(f, m)
    BY <1>3
  <2>1. \A m \in 0..j : Good(f, m)
    BY <1>3, <1>5
  <2>2. j \in 0..j
    OBVIOUS
  <2>3. Good(f, j)
    BY <2>1, <2>2
  <2>4. PICK t : t = f[j] /\ t \in Seq(Datum)
    BY <2>3
  <2>5. PICK o \in Operation : o = ops[j + 1]
    BY ElementOfSeq
  <2>6. PICK n \in 1 .. Len(ops) : n = j + 1 /\ n - 1 = j
    BY LenProperties
  <2>7. f[j + 1] = Extended(t, o)
    BY <1>2, <2>4, <2>5, <2>6
  <2>8. PICK u : u = f[j + 1]
    OBVIOUS
  <2>9. /\ u \in Seq(Datum) /\ Len(u) = Len(t) + Adds(o)
        /\ \A k \in 1 .. Len(t) : u[k] = t[k]
    <3>1. u = Extended(t, o)
      BY <2>7, <2>8
    <3> QED
      BY <2>4, <3>1, ExtendedIs, Zenon
  <2>10. Len(t) \in Nat /\ Len(t) <= Len(u)
    BY <2>4, <2>9, AddsIs, LenProperties
  <2>11. ASSUME NEW m \in 0 .. j + 1
         PROVE  Len(f[m]) <= Len(u) /\ \A k \in 1 .. Len(f[m]) : u[k] = f[m][k]
    <3>1. CASE m = j + 1
      BY <2>8, <2>9, <3>1, LenProperties
    <3>2. CASE m \in 0..j
      <4>1. f[m] \in Seq(Datum)
        BY <2>1, <3>2
      <4>2. PICK p \in Nat : p = Len(f[m])
        BY <4>1, LenProperties
      <4>3. p <= Len(t) /\ \A k \in 1 .. p : t[k] = f[m][k]
        BY <2>3, <2>4, <3>2, <4>2
      <4>4. \A k \in 1..p : k \in 1 .. Len(t)
        BY <2>10, <4>3
      <4>5. Len(u) \in Nat
        BY <2>9, LenProperties
      <4> QED
        BY <2>9, <2>10, <4>2, <4>3, <4>4, <4>5
    <3> QED
      BY <3>1, <3>2
  <2>12. Good(f, j + 1)
    BY <2>8, <2>9, <2>11
  <2> HIDE DEF Good
  <2>13. \A m \in 0 .. j + 1 : m \in 0..j \/ m = j + 1
    OBVIOUS
  <2> QED
    BY <2>1, <2>12, <2>13
<1>6. ASSUME NEW n \in 0 .. Len(ops) PROVE Good(f, n)
  <2>1. n \in Nat /\ n <= Len(ops) /\ n \in 0..n
    BY LenProperties
  <2>2. n \in T
    BY <1>4, <1>5, <2>1, Induction
  <2> HIDE DEF Good
  <2> QED
    BY <1>3, <2>1, <2>2
<1> QED
  BY <1>1, <1>6

(* The texts between the operations of a stream are the beginnings of its  *)
(* own.                                                                    *)
LEMMA TextIs ==
  ASSUME NEW s \in Streams
  PROVE  /\ s.text \in Seq(Datum)
         /\ Len(Texts(s.ops)[0]) = 0
         /\ Len(Texts(s.ops)[Len(s.ops)]) = Len(s.text)
         /\ \A n \in 1 .. Len(s.ops) :
              /\ Len(Texts(s.ops)[n - 1]) \in Nat /\ Len(Texts(s.ops)[n]) \in Nat
              /\ Len(Texts(s.ops)[n]) = Len(Texts(s.ops)[n - 1]) + Adds(s.ops[n])
              /\ Len(Texts(s.ops)[n]) <= Len(s.text)
              /\ AddedBehind(s.text, Len(Texts(s.ops)[n - 1]), s.ops[n])
<1>1. PICK ops \in Seq(Operation) : ops = s.ops
  BY StreamIs
<1>2. PICK N \in Nat \ {0} : N = Len(ops)
  BY <1>1, StreamIs
<1>3. PICK f : f = Texts(ops)
  OBVIOUS
<1>4. PICK t : t = s.text /\ t = f[N]
  BY <1>1, <1>2, <1>3, StreamIs
<1>5. \A n \in 0..N :
        /\ f[n] \in Seq(Datum)
        /\ \A m \in 0..n : /\ Len(f[m]) <= Len(f[n])
                           /\ \A k \in 1 .. Len(f[m]) : f[n][k] = f[m][k]
  <2>1. \A n \in 0 .. Len(ops) :
          /\ Texts(ops)[n] \in Seq(Datum)
          /\ \A m \in 0..n :
               /\ Len(Texts(ops)[m]) <= Len(Texts(ops)[n])
               /\ \A k \in 1 .. Len(Texts(ops)[m]) :
                    Texts(ops)[n][k] = Texts(ops)[m][k]
    BY TextsAre
  <2> QED
    BY <1>2, <1>3, <2>1
<1>6. f[0] = << >> /\ \A n \in 1..N : f[n] = Extended(f[n - 1], ops[n])
  BY <1>2, <1>3, TextsUnfold
<1>7. t \in Seq(Datum)
  BY <1>4, <1>5
<1>8. ASSUME NEW n \in 1..N
      PROVE  /\ Len(f[n - 1]) \in Nat /\ Len(f[n]) \in Nat
             /\ Len(f[n]) = Len(f[n - 1]) + Adds(ops[n])
             /\ Len(f[n]) <= Len(t)
             /\ AddedBehind(t, Len(f[n - 1]), ops[n])
  <2>1. PICK j \in 0..N : j = n - 1
    OBVIOUS
  <2>2. PICK b \in Seq(Datum), e \in Seq(Datum) : b = f[j] /\ e = f[n]
    BY <1>5
  <2>3. PICK o \in Operation : o = ops[n]
    BY <1>2, ElementOfSeq
  <2>4. e = Extended(b, o)
    BY <1>6, <2>1, <2>2, <2>3
  <2>5. Len(e) = Len(b) + Adds(o) /\ AddedBehind(e, Len(b), o)
    BY <2>4, ExtendedIs
  <2>6. /\ Len(b) \in Nat /\ Len(e) \in Nat /\ Adds(o) \in Nat
        /\ Len(e) <= Len(t) /\ \A k \in 1 .. Len(e) : t[k] = e[k]
    <3>1. n \in 0..N /\ N \in 0..N /\ n \in 0..N
      OBVIOUS
    <3> QED
      BY <1>4, <1>5, <2>2, <3>1, AddsIs, LenProperties
  <2>7. AddedBehind(t, Len(b), o)
    <3>1. PICK q \in Nat, p \in Nat : q = Len(b) /\ p = Len(e)
      BY <2>6
    <3>2. CASE o.op \in Literals
      <4>3. Adds(o) = 1
        BY <3>2 DEF Adds, Literals
      <4>1. q + 1 \in 1..p
        BY <2>5, <3>1, <4>3
      <4> QED
        BY <2>5, <2>6, <3>1, <3>2, <4>1 DEF AddedBehind, Literals
    <3>3. CASE o.op = "stored"
      <4>1. PICK l \in Nat : l = Len(o.bytes) /\ p = q + l
        BY <2>5, <2>6, <3>1, <3>3 DEF Adds, Literals
      <4>2. \A k \in 1..l : q + k \in 1..p
        BY <4>1
      <4>3. \A k \in 1..l : e[q + k] = o.bytes[k]
        BY <2>5, <3>1, <3>3, <4>1 DEF AddedBehind
      <4> QED
        BY <2>6, <3>1, <3>3, <4>1, <4>2, <4>3 DEF AddedBehind
    <3>4. CASE o.op = "copy"
      <4>1. PICK l \in Nat \ {0}, d \in Nat : l = o.len /\ d = o.dist /\ p = q + l
        BY <2>5, <2>6, <3>1, <3>4, OpIs, SizesAssumption DEF Adds, Literals
      <4>2. ASSUME NEW k \in 1..l
            PROVE  t[q + k] = IF d > 0 /\ q + k - d > 0 THEN t[q + k - d] ELSE Unknown
        <5>1. e[q + k] = IF d > 0 /\ q + k - d > 0 THEN e[q + k - d] ELSE Unknown
          BY <2>5, <3>1, <3>4, <4>1 DEF AddedBehind
        <5>2. q + k \in 1..p /\ (q + k - d > 0 => q + k - d \in 1..p)
          <6>1. d >= 0 /\ k >= 1 /\ k <= l /\ p = q + l
            BY <4>1
          <6> QED
            BY <6>1
        <5> QED
          BY <2>6, <3>1, <5>1, <5>2
      <4> QED
        BY <3>1, <3>4, <4>1, <4>2 DEF AddedBehind
    <3>5. CASE o.op \notin Literals \cup {"stored", "copy"}
      BY <3>5 DEF AddedBehind, Literals
    <3> QED
      BY <3>2, <3>3, <3>4, <3>5
  <2> QED
    BY <2>1, <2>2, <2>3, <2>5, <2>6, <2>7
<1> QED
  BY <1>1, <1>2, <1>3, <1>4, <1>6, <1>7, <1>8

(* What is known of a text is before the first that is not.                *)
LEMMA KnownIs ==
  ASSUME NEW s \in Streams
  PROVE  /\ s.known \in 0 .. Len(s.text)
         /\ \A k \in 1 .. s.known : s.text[k] # Unknown
         /\ (\A k \in 1 .. Len(s.text) : s.text[k] # Unknown) => s.known = Len(s.text)
<1>1. PICK t \in Seq(Datum) : t = s.text
  BY TextIs
<1>2. PICK n \in Nat : n = Len(t)
  BY LenProperties
<1>3. PICK U : U = {k \in 1..n : t[k] = Unknown}
  OBVIOUS
<1>4. s.known = IF U = {} THEN n ELSE Min(U) - 1
  BY <1>1, <1>2, <1>3, StreamIs DEF Known
<1>5. CASE U = {}
  BY <1>1, <1>2, <1>3, <1>4, <1>5
<1>6. CASE U # {}
  <2>1. U \subseteq Nat
    BY <1>3
  <2>2. \E x \in U : \A y \in U : x <= y
    BY <1>6, <2>1, LeastElement
  <2>3. Min(U) \in U /\ \A y \in U : Min(U) <= y
    BY <2>2 DEF Min
  <2>4. PICK m \in 1..n : m = Min(U)
    BY <1>3, <2>3
  <2>5. s.known = m - 1 /\ t[m] = Unknown
    BY <1>3, <1>4, <1>6, <2>3, <2>4
  <2>6. ASSUME NEW k \in 1 .. m - 1 PROVE t[k] # Unknown
    BY <1>3, <2>3, <2>4
  <2> QED
    BY <1>1, <1>2, <2>4, <2>5, <2>6
<1> QED
  BY <1>5, <1>6

(* Positions do not go back; where four bytes end, a byte ends.            *)
LEMMA BehindIs ==
  ASSUME NEW n \in Nat, NEW o \in Operation
  PROVE  Behind(n, o) \in Nat /\ Behind(n, o) >= n
<1>1. CASE o.op \in Coded
  <2>1. o.bits \in Nat
    BY <1>1, OpIs DEF Coded, Symbols, Literals
  <2> QED
    BY <1>1, <2>1 DEF Behind
<1>2. CASE o.op = "align"
  <2>1. PICK m \in Nat : m = n + 7
    OBVIOUS
  <2>2. PICK q \in Int, r \in 0..7 : q = m \div 8 /\ m = 8 * q + r
    BY ModDecomposes
  <2>3. Behind(n, o) = q * 8
    BY <1>2, <2>1, <2>2 DEF Behind, Coded, Symbols, Literals
  <2> QED
    BY <2>1, <2>2, <2>3
<1>3. CASE o.op = "stored"
  <2>1. Len(o.bytes) \in Nat
    BY <1>3, OpIs
  <2> QED
    BY <1>3, <2>1 DEF Behind, Coded, Symbols, Literals
<1>4. CASE o.op \notin Coded \cup {"align", "stored"}
  BY <1>4 DEF Behind
<1> QED
  BY <1>1, <1>2, <1>3, <1>4

(* The positions in a stream go up, and stand at a byte where one is       *)
(* needed.                                                                 *)
LEMMA PositionsAre ==
  ASSUME NEW s \in Streams
  PROVE  /\ Positions(s.ops)[0] = 0
         /\ \A n \in 1 .. Len(s.ops) :
              /\ Positions(s.ops)[n - 1] \in Nat /\ Positions(s.ops)[n] \in Nat
              /\ Positions(s.ops)[n] = Behind(Positions(s.ops)[n - 1], s.ops[n])
              /\ Positions(s.ops)[n] <= Positions(s.ops)[Len(s.ops)]
              /\ FourBytes(s.ops, n) => Positions(s.ops)[n - 1] % 8 = 0
<1>1. PICK ops \in Seq(Operation) : ops = s.ops
  BY StreamIs
<1>2. PICK N \in Nat \ {0} : N = Len(ops)
  BY <1>1, StreamIs
<1>3. PICK f : f = Positions(ops)
  OBVIOUS
<1>4. f[0] = 0 /\ \A n \in 1..N : f[n] = Behind(f[n - 1], ops[n])
  BY <1>2, <1>3, PositionsUnfold
<1>5. \A n \in 1..N : ops[n] \in Operation
  BY <1>2, ElementOfSeq
<1>6. PICK T : T = {n \in Nat : n <= N => \A m \in 0..n : f[m] \in Nat /\ f[m] <= f[n]}
  OBVIOUS
<1>7. 0 \in T
  <2>1. \A m \in 0..0 : m = 0
    OBVIOUS
  <2> QED
    BY <1>4, <1>6, <2>1
<1>8. ASSUME NEW j \in Nat, j \in T PROVE j + 1 \in T
  <2> SUFFICES ASSUME j + 1 <= N
               PROVE  \A m \in 0 .. j + 1 : f[m] \in Nat /\ f[m] <= f[j + 1]
    BY <1>6
  <2>1. \A m \in 0..j : f[m] \in Nat /\ f[m] <= f[j]
    BY <1>6, <1>8
  <2>2. j \in 0..j /\ j + 1 \in 1..N /\ (j + 1) - 1 = j
    OBVIOUS
  <2>3. PICK p \in Nat : p = f[j]
    BY <2>1, <2>2
  <2>4. f[j + 1] = Behind(p, ops[j + 1])
    BY <1>4, <2>2, <2>3
  <2>5. f[j + 1] \in Nat /\ f[j + 1] >= p
    BY <1>5, <2>2, <2>4, BehindIs
  <2>6. \A m \in 0 .. j + 1 : m \in 0..j \/ m = j + 1
    OBVIOUS
  <2> QED
    BY <2>1, <2>3, <2>5, <2>6
<1>9. ASSUME NEW n \in 0..N PROVE f[n] \in Nat /\ f[n] <= f[N]
  <2>1. N \in T
    BY <1>7, <1>8, Induction
  <2> QED
    BY <1>6, <2>1
<1>10. ASSUME NEW n \in 1..N, FourBytes(ops, n) PROVE f[n - 1] % 8 = 0
  <2>1. /\ n > 5 /\ ops[n - 5].op = "align"
        /\ \A j \in n - 4 .. n - 1 : ops[j].op = "bits" /\ ops[j].bits = 8
    BY <1>10, Zenon DEF FourBytes
  <2>2. PICK i \in 1..N : i = n - 5
    BY <2>1
  <2>3. PICK m \in Nat : m = f[i - 1] + 7
    <3>1. i - 1 \in 0..N
      OBVIOUS
    <3>2. f[i - 1] \in Nat
      BY <1>9, <3>1
    <3> QED
      BY <3>2
  <2>4. PICK q \in Int : q = m \div 8
    BY ModDecomposes
  <2>5. f[i] = q * 8
    <3>1. (f[i - 1] + 7) \div 8 = q
      BY <2>3, <2>4
    <3> QED
      BY <1>4, <2>1, <2>2, <3>1 DEF Behind, Coded, Symbols, Literals
  <2>6. ASSUME NEW j \in n - 4 .. n - 1 PROVE f[j] = f[j - 1] + 8
    <3>1. j \in 1..N
      BY <2>1
    <3>2. ops[j].op \in Coded /\ ops[j].bits = 8
      BY <2>1 DEF Coded
    <3>3. Behind(f[j - 1], ops[j]) = f[j - 1] + 8
      <4>1. PICK o, x : o = ops[j] /\ x = f[j - 1]
        OBVIOUS
      <4>2. o.op \in Coded /\ o.bits = 8
        BY <3>2, <4>1
      <4>3. Behind(x, o) = x + o.bits
        BY <4>2, Zenon DEF Behind, Coded, Symbols, Literals
      <4> QED
        BY <4>1, <4>2, <4>3
    <3> QED
      BY <1>4, <3>1, <3>3
  <2>7. f[i + 1] = f[i] + 8 /\ f[i + 2] = f[i + 1] + 8 /\ f[i + 3] = f[i + 2] + 8
        /\ f[i + 4] = f[i + 3] + 8
    <3>1. /\ i + 1 \in n - 4 .. n - 1 /\ (i + 1) - 1 = i
          /\ i + 2 \in n - 4 .. n - 1 /\ (i + 2) - 1 = i + 1
          /\ i + 3 \in n - 4 .. n - 1 /\ (i + 3) - 1 = i + 2
          /\ i + 4 \in n - 4 .. n - 1 /\ (i + 4) - 1 = i + 3
      BY <2>2
    <3> QED
      BY <2>6, <3>1
  <2>8. f[n - 1] = 8 * (q + 4) + 0 /\ n - 1 = i + 4
    BY <2>2, <2>5, <2>7
  <2>9. f[n - 1] \in Int /\ q + 4 \in Int
    BY <1>9, <2>8
  <2> QED
    BY <2>8, <2>9, ModIs
<1>11. \A n \in 1..N : n \in 0..N /\ n - 1 \in 0..N
  OBVIOUS
<1> QED
  BY <1>1, <1>2, <1>3, <1>4, <1>9, <1>10, <1>11

-----------------------------------------------------------------------------
(* The operation gone through, and those of a checksum.                    *)
LEMMA AtIs ==
  ASSUME TypeOK
  PROVE  /\ stream \in Streams /\ Len(stream.ops) \in Nat \ {0}
         /\ at \in 1 .. Len(stream.ops)
         /\ Op \in Operation
         /\ Op.op = "done" <=> at = Len(stream.ops)
<1>1. stream \in Streams /\ at \in 1 .. Len(stream.ops)
  BY DEF TypeOK
<1>2. stream.ops \in Seq(Operation) /\ Len(stream.ops) \in Nat \ {0}
  BY <1>1, StreamIs
<1>3. Op \in Operation
  BY <1>1, <1>2, ElementOfSeq DEF Op
<1>4. \A k \in 1 .. Len(stream.ops) : stream.ops[k].op = "done" <=> k = Len(stream.ops)
  BY <1>1, StreamIs, Zenon DEF WellFormed
<1> QED
  BY <1>1, <1>2, <1>3, <1>4 DEF Op

(* Behind a literal is another symbol, and something behind that; what has *)
(* no code is followed by itself.                                          *)
LEMMA SymbolFollows ==
  ASSUME TypeOK, Op.op \in Literals
  PROVE  /\ After(at) = IF Op.op = "void" THEN at ELSE at + 1
         /\ After(at) \in 1 .. Len(stream.ops)
         /\ stream.ops[After(at)] \in Operation
         /\ stream.ops[After(at)].op \in Symbols
         /\ After(at) # Len(stream.ops)
<1>1. PICK N \in Nat \ {0} : N = Len(stream.ops) /\ at \in 1..N /\ at # N
  BY AtIs DEF Literals
<1>2. stream \in Streams
  BY AtIs
<1>3. WellFormed(stream.ops, stream.zlib) /\ stream.ops \in Seq(Operation)
  BY <1>2, StreamIs
<1>4. \A k \in 1 .. Len(stream.ops) :
        /\ stream.ops[k].op = "done" <=> k = Len(stream.ops)
        /\ stream.ops[k].op = "lit" => stream.ops[k + 1].op \in Symbols
  BY <1>3, Zenon DEF WellFormed
<1>5. After(at) = IF Op.op = "void" THEN at ELSE at + 1
  BY DEF After, Op
<1>6. stream.ops[After(at)].op \in Symbols
  BY <1>1, <1>4, <1>5 DEF Op, Literals, Symbols
<1>7. After(at) \in 1..N
  BY <1>1, <1>5
<1>8. After(at) # N
  BY <1>1, <1>4, <1>6, <1>7 DEF Symbols, Literals
<1> QED
  BY <1>1, <1>3, <1>5, <1>6, <1>7, <1>8, ElementOfSeq

(* Stored bytes begin at a byte.                                           *)
LEMMA StoredIsAligned ==
  ASSUME TypeOK, Op.op = "stored"
  PROVE  Positions(stream.ops)[at - 1] % 8 = 0
<1>1. stream \in Streams /\ at \in 1 .. Len(stream.ops)
  BY AtIs
<1>2. WellFormed(stream.ops, stream.zlib)
  BY <1>1, StreamIs
<1>3. FourBytes(stream.ops, at)
  BY <1>1, <1>2, Zenon DEF WellFormed, Op
<1> QED
  BY <1>1, <1>3, PositionsAre

(* The last operations of a stream with a checksum are its bytes.          *)
LEMMA ChecksumIs ==
  ASSUME TypeOK, stream.zlib, at >= Len(stream.ops) - 5
  PROVE  \/ at = Len(stream.ops) - 5 /\ Op.op = "align"
         \/ /\ at \in Len(stream.ops) - 4 .. Len(stream.ops) - 1
            /\ Op.op = "bits" /\ Op.bits = 8
         \/ at = Len(stream.ops) /\ Op.op = "done"
<1>1. PICK N \in Nat \ {0} : N = Len(stream.ops) /\ at \in 1..N
  BY AtIs
<1>2. stream \in Streams
  BY AtIs
<1>3. WellFormed(stream.ops, stream.zlib)
  BY <1>2, StreamIs
<1>4. FourBytes(stream.ops, N)
  <2>1. \A k \in 1 .. Len(stream.ops) :
          /\ stream.ops[k].op = "done" <=> k = Len(stream.ops)
          /\ stream.ops[k].op = "done" /\ stream.zlib => FourBytes(stream.ops, k)
    BY <1>3, Zenon DEF WellFormed
  <2>2. N \in 1..N
    BY <1>1
  <2> QED
    BY <1>1, <2>1, <2>2
<1>5. /\ stream.ops[N - 5].op = "align"
      /\ \A j \in N - 4 .. N - 1 : stream.ops[j].op = "bits" /\ stream.ops[j].bits = 8
  BY <1>4, Zenon DEF FourBytes
<1>6. at = N - 5 \/ at \in N - 4 .. N - 1 \/ at = N
  BY <1>1
<1> QED
  BY <1>1, <1>5, <1>6, AtIs DEF Op

-----------------------------------------------------------------------------
(* The histories, which only grow, and are full once they are.             *)
LEMMA Filling ==
  ASSUME TypeOK, NEW h \in Seq(Datum), NEW b \in Seq(Datum)
  PROVE  /\ Kept(h, b) \in Seq(Datum) /\ Len(h) \in Nat /\ Len(b) \in Nat
         /\ Len(Kept(h, b)) = Len(h) + (IF Over THEN 0 ELSE Len(b))
         /\ \A k \in 1 .. Len(h) : Kept(h, b)[k] = h[k]
         /\ ~Over => \A k \in 1 .. Len(b) : Kept(h, b)[Len(h) + k] = b[k]
<1>1. PICK n \in Nat, m \in Nat : n = Len(h) /\ m = Len(b)
  BY LenProperties
<1>2. CASE Over
  BY <1>1, <1>2 DEF Kept
<1>3. CASE ~Over
  <2>1. PICK u : u = h \o b /\ u = Kept(h, b)
    BY <1>3 DEF Kept
  <2>2. u \in Seq(Datum) /\ Len(u) = n + m
    BY <1>1, <2>1, ConcatProperties, LenProperties
  <2>3. \A k \in 1 .. n + m : u[k] = IF k <= n THEN h[k] ELSE b[k - n]
    <3>1. u = h \o b
      BY <2>1
    <3> QED
      BY <1>1, <3>1
  <2>4. ASSUME NEW k \in 1..n PROVE u[k] = h[k]
    BY <2>3
  <2>5. ASSUME NEW k \in 1..m PROVE u[n + k] = b[k]
    <3>1. PICK j \in 1 .. n + m : j = n + k
      OBVIOUS
    <3>2. ~(j <= n) /\ j - n = k
      BY <3>1
    <3> QED
      BY <2>3, <3>1, <3>2
  <2> QED
    BY <1>1, <1>3, <2>1, <2>2, <2>4, <2>5
<1> QED
  BY <1>2, <1>3

(* Full they stay.                                                         *)
LEMMA OverStays ==
  ASSUME TypeOK, stream' = stream, caller' = caller, Len(decoded') \in Nat,
         Len(decoded') >= Len(decoded), Over
  PROVE  Over'
<1>1. stream \in Streams
  BY AtIs
<1>2. Len(decoded) \in Nat /\ Len(Text) \in Nat /\ MaxGarbage \in Nat
  BY <1>1, TextIs, LenProperties, SizesAssumption DEF TypeOK, Text
<1> QED
  BY <1>2 DEF Over, Text

(* What is written, and what it leaves in the window.                      *)
LEMMA Wrote ==
  ASSUME TypeOK, NEW b \in Seq(Datum), Len(b) <= space, Write(b)
  PROVE  /\ decoded' \in Seq(Datum) /\ Len(decoded) \in Nat /\ Len(decoded') \in Nat
         /\ Len(decoded') = Len(decoded) + (IF Over THEN 0 ELSE Len(b))
         /\ \A k \in 1 .. Len(decoded) : decoded'[k] = decoded[k]
         /\ ~Over => \A k \in 1 .. Len(b) : decoded'[Len(decoded) + k] = b[k]
         /\ space' = space - Len(b) /\ space' \in Nat
         /\ fresh' = fresh + Len(b) /\ fresh' \in Nat
         /\ dict' \in [0 .. DictSize - 1 -> Datum]
<1>1. PICK m \in Nat : m = Len(b)
  BY LenProperties
<1>2. decoded' = Kept(decoded, b) /\ space' = space - m /\ fresh' = fresh + m
  BY <1>1, Zenon DEF Write
<1>3. space \in Nat /\ fresh \in Nat /\ decoded \in Seq(Datum)
  BY DEF TypeOK
<1>4. PICK u : u = Kept(decoded, b)
  OBVIOUS
<1>5. /\ u \in Seq(Datum) /\ Len(u) = Len(decoded) + (IF Over THEN 0 ELSE Len(b))
      /\ Len(decoded) \in Nat /\ Len(u) \in Nat
      /\ \A k \in 1 .. Len(decoded) : u[k] = decoded[k]
      /\ ~Over => \A k \in 1 .. Len(b) : u[Len(decoded) + k] = b[k]
  BY <1>3, <1>4, Filling, LenProperties
<1>6. dict' \in [0 .. DictSize - 1 -> Datum]
  <2>1. dict \in [0 .. DictSize - 1 -> Datum] /\ dict_ofs \in Nat /\ fresh \in Nat
    BY SizesAssumption DEF TypeOK
  <2>2. CASE ~wrapping
    BY <2>1, <2>2 DEF Write
  <2>3. CASE wrapping
    <3>1. PICK ofs \in Nat : ofs = dict_ofs + fresh
      BY <2>1
    <3>2. dict' = [s \in 0 .. DictSize - 1 |->
                     IF s \in ofs .. ofs + m - 1 THEN b[s - ofs + 1] ELSE dict[s]]
      BY <1>1, <2>1, <2>3, <3>1 DEF Write
    <3>3. ASSUME NEW s \in 0 .. DictSize - 1, s \in ofs .. ofs + m - 1
          PROVE  b[s - ofs + 1] \in Datum
      <4>1. s - ofs + 1 \in 1..m
        BY <3>1, <3>3
      <4> QED
        BY <1>1, <4>1, ElementOfSeq
    <3> QED
      BY <2>1, <3>2, <3>3
  <2> QED
    BY <2>2, <2>3
<1> QED
  BY <1>1, <1>2, <1>3, <1>4, <1>5, <1>6

(* Numbers less than a turn apart have different places.                   *)
LEMMA ModDiffers ==
  ASSUME NEW n \in Nat \ {0}, NEW a \in Int, NEW b \in Int, a < b, b < a + n
  PROVE  a % n # b % n
<1>1. PICK q \in Int, r \in 0 .. n - 1 : a % n = r /\ a = n * q + r
  BY ModDecomposes
<1>2. PICK p \in Int, s \in 0 .. n - 1 : b % n = s /\ b = n * p + s
  BY ModDecomposes
<1> SUFFICES ASSUME r = s PROVE FALSE
  BY <1>1, <1>2
<1>3. PICK x \in Int : x = p - q
  OBVIOUS
<1>4. n * x = n * p - n * q
  BY <1>3
<1>5. n * x = b - a
  BY <1>1, <1>2, <1>4
<1>6. CASE x <= 0
  <2>1. n * x <= 0
    BY <1>6
  <2> QED
    BY <1>5, <2>1
<1>7. CASE x >= 1
  <2>1. n * x >= n
    BY <1>7
  <2> QED
    BY <1>5, <2>1
<1> QED
  BY <1>6, <1>7

(* Bytes written where the window stands are there, and the ones they      *)
(* replace are older than it holds.                                        *)
LEMMA WroteWindow ==
  ASSUME TypeOK, InWindow, wrapping, ~Over,
         NEW b \in Seq(Datum), Len(b) <= space, Write(b),
         NEW g \in Nat, dict_ofs = g % DictSize, Len(decoded) = g + fresh,
         dict_ofs + fresh + space = DictSize
  PROVE  InWindow'
<1>1. PICK D \in Nat \ {0}, L \in Nat, m \in Nat, ofs \in Nat :
        /\ D = DictSize /\ L = Len(decoded) /\ m = Len(b) /\ ofs = dict_ofs + fresh
  <2>1. DictSize \in Nat \ {0} /\ fresh \in Nat /\ dict_ofs \in Nat
    BY SizesAssumption DEF TypeOK
  <2>2. Len(decoded) \in Nat /\ Len(b) \in Nat /\ dict_ofs + fresh \in Nat
    BY <2>1, LenProperties DEF TypeOK
  <2> QED
    BY <2>1, <2>2
<1>2. ofs + m <= D
  BY <1>1 DEF TypeOK
<1>3. ASSUME NEW j \in 1..m PROVE (L + j - 1) % D = ofs + j - 1
  <2>1. PICK f \in Nat, o \in 0 .. D - 1 : f = fresh /\ o = dict_ofs
    BY <1>1 DEF TypeOK
  <2>2. f + j - 1 \in Int /\ o + (f + j - 1) = ofs + j - 1 /\ g + (f + j - 1) = L + j - 1
    BY <1>1, <2>1
  <2>3. (o + (f + j - 1)) % D = (g + (f + j - 1)) % D
    <3>1. PICK c \in Int : c = f + j - 1
      BY <2>2
    <3>2. ((g % D) + c) % D = (g + c) % D
      <4>1. g \in Int
        OBVIOUS
      <4> QED
        BY <4>1, ModOfSum, Zenon
    <3> QED
      BY <1>1, <2>1, <3>1, <3>2
  <2>4. ofs + j - 1 \in 0 .. D - 1
    BY <1>1, <1>2
  <2> QED
    BY <2>2, <2>3, <2>4, ModKeeps
<1>4. dict' = [s \in 0 .. D - 1 |->
                 IF s \in ofs .. ofs + m - 1 THEN b[s - ofs + 1] ELSE dict[s]]
  <2>1. DOMAIN dict = 0 .. D - 1
    BY <1>1 DEF TypeOK
  <2> QED
    BY <1>1, <2>1 DEF Write
<1>5. PICK u : u = decoded'
  OBVIOUS
<1>6. /\ Len(u) = L + m
      /\ \A k \in 1..L : u[k] = decoded[k]
      /\ \A k \in 1..m : u[L + k] = b[k]
  BY <1>1, <1>5, Wrote
<1>7. \A k \in 1..L : k > L - D => dict[(k - 1) % D] = decoded[k]
  BY <1>1 DEF InWindow
<1>8. ASSUME NEW k \in 1 .. L + m, k > L + m - D
      PROVE  dict'[(k - 1) % D] = u[k]
  <2>1. PICK s \in 0 .. D - 1 : s = (k - 1) % D
    <3>1. k - 1 \in Int
      OBVIOUS
    <3> QED
      BY <3>1, ModDecomposes
  <2>2. CASE k <= L
    <3>1. s \notin ofs .. ofs + m - 1
      <4> SUFFICES ASSUME s \in ofs .. ofs + m - 1 PROVE FALSE
        OBVIOUS
      <4>1. PICK j \in 1..m : s = ofs + j - 1
        <5>1. s - ofs + 1 \in 1..m /\ s = ofs + (s - ofs + 1) - 1
          BY <1>1
        <5> QED
          BY <5>1
      <4>2. (L + j - 1) % D = (k - 1) % D
        BY <1>3, <2>1, <4>1
      <4>3. k - 1 \in Int /\ L + j - 1 \in Int /\ k - 1 < L + j - 1 /\ L + j - 1 < k - 1 + D
        BY <1>8, <2>2
      <4> QED
        BY <4>2, <4>3, ModDiffers
    <3>2. k \in 1..L /\ k > L - D
      BY <1>8, <2>2
    <3> QED
      BY <1>4, <1>6, <1>7, <2>1, <3>1, <3>2
  <2>3. CASE k > L
    <3>1. PICK j \in 1..m : k = L + j
      <4>1. k - L \in 1..m /\ k = L + (k - L)
        BY <2>3
      <4> QED
        BY <4>1
    <3>2. s = ofs + j - 1
      BY <1>3, <2>1, <3>1
    <3>3. s \in ofs .. ofs + m - 1 /\ s - ofs + 1 = j
      BY <3>2
    <3> QED
      BY <1>4, <1>6, <2>1, <3>1, <3>3
  <2> QED
    BY <2>2, <2>3
<1> QED
  BY <1>1, <1>5, <1>6, <1>8 DEF InWindow

(* The window of a step of tinfl_decompress, which writes or does not.     *)
LEMMA WindowWritten ==
  ASSUME TypeOK, WindowValid, pc = "run", Op.op # "done", UNCHANGED outside,
         pc' \in {"run", "back"}, NEW b \in Seq(Datum), Len(b) <= space, Write(b)
  PROVE  WindowValid'
<1>1. /\ Len(decoded') = Len(decoded) + (IF Over THEN 0 ELSE Len(b))
      /\ \A k \in 1 .. Len(decoded) : decoded'[k] = decoded[k]
      /\ space' = space - Len(b) /\ fresh' = fresh + Len(b)
  BY Wrote
<1>2. /\ stream' = stream /\ caller' = caller /\ wrapping' = wrapping /\ first_call' = first_call
      /\ dict_ofs' = dict_ofs /\ dict_avail' = dict_avail
      /\ capacity' = capacity /\ delivered' = delivered /\ last_status' = last_status
  BY DEF outside, const, call, flags, window
<1>3. PICK L \in Nat, m \in Nat, g \in Nat :
        L = Len(decoded) /\ m = Len(b) /\ g = Len(delivered)
  BY LenProperties DEF TypeOK
<1>4. PICK sp \in Nat, fr \in Nat : sp = space /\ fr = fresh
  BY DEF TypeOK
<1>5. caller = "heap" => /\ ~wrapping' /\ delivered' = << >>
                         /\ space' + Len(decoded') = capacity'
  BY <1>1, <1>2, <1>3, <1>4 DEF WindowValid, Over
<1>6. ~Finished
  BY DEF Finished
<1>7. ASSUME Delivering PROVE Delivering'
  <2>1. wrapping /\ dict_avail = 0 /\ dict_ofs + fr + sp = DictSize
    BY <1>4, <1>7 DEF Delivering
  <2>2. dict_ofs' + fresh' + space' = DictSize
    <3>1. PICK o \in Int, D \in Int : o = dict_ofs /\ D = DictSize
      BY SizesAssumption DEF TypeOK
    <3> QED
      BY <1>1, <1>2, <1>3, <1>4, <2>1, <3>1
  <2>3. ASSUME ~Over'
        PROVE  /\ dict_ofs' = Len(delivered') % DictSize /\ InWindow'
               /\ Len(decoded') = Len(delivered') + fresh'
    <3>1. ~Over
      <4>1. Len(decoded') \in Nat /\ Len(decoded') >= Len(decoded)
        BY <1>1, <1>3, Wrote
      <4> QED
        BY <1>2, <2>3, <4>1, OverStays
    <3>2. dict_ofs = g % DictSize /\ InWindow /\ L = g + fr
      BY <1>3, <1>4, <1>7, <3>1 DEF Delivering
    <3>3. InWindow'
      BY <1>3, <1>4, <2>1, <3>1, <3>2, WroteWindow
    <3> QED
      BY <1>1, <1>2, <1>3, <1>4, <3>1, <3>2, <3>3
  <2> QED
    BY <1>2, <2>1, <2>2, <2>3 DEF Delivering
<1>8. ASSUME Finishing PROVE Finishing'
  BY <1>2, <1>8 DEF Finishing
<1>9. ~(caller = "inflate" /\ first_call)
  BY DEF WindowValid
<1>10. \A k \in 1 .. Len(delivered) : k <= Len(decoded') /\ delivered[k] = decoded'[k]
  <2>1. \A k \in 1..g : k <= L /\ delivered[k] = decoded[k]
    BY <1>3 DEF WindowValid
  <2>2. \A k \in 1..g : k \in 1..L /\ k <= L + m /\ k <= L + 0
    BY <1>3, <2>1
  <2> QED
    BY <1>1, <1>3, <2>1, <2>2
<1>11. caller # "heap" => Delivering' \/ Finishing'
  BY <1>6, <1>7, <1>8 DEF WindowValid
<1>12. caller = "callback" => dict_avail' = 0
  BY <1>2 DEF WindowValid
<1> QED
  BY <1>2, <1>5, <1>9, <1>10, <1>11, <1>12 DEF WindowValid

(* What leaves the window alone leaves it right.                           *)
LEMMA WindowKept ==
  ASSUME WindowValid, pc = "run", Op.op # "done",
         UNCHANGED <<outside, written>>, pc' \in {"run", "back"}
  PROVE  WindowValid'
<1>1. /\ stream' = stream /\ caller' = caller
      /\ wrapping' = wrapping /\ first_call' = first_call
      /\ dict_ofs' = dict_ofs /\ dict_avail' = dict_avail
      /\ capacity' = capacity /\ delivered' = delivered /\ last_status' = last_status
      /\ dict' = dict /\ space' = space /\ fresh' = fresh /\ decoded' = decoded
  BY DEF outside, const, call, flags, window, written
<1>2. ~Finished
  BY DEF Finished
<1>3. ASSUME Delivering PROVE Delivering'
  BY <1>1, <1>3 DEF Delivering, InWindow, Over, Text
<1>4. ASSUME Finishing PROVE Finishing'
  BY <1>1, <1>4 DEF Finishing
<1>5. caller # "heap" => Delivering' \/ Finishing'
  BY <1>2, <1>3, <1>4 DEF WindowValid
<1> QED
  BY <1>1, <1>5 DEF WindowValid

(* What an operation that is not the last leaves behind.                   *)
WroteSome == \E b \in Seq(Datum) : Len(b) <= space /\ Write(b)

(* What a step of tinfl_decompress need not show again: it is enough that  *)
(* the place, the buffer and the window stay right.                        *)
LEMMA WorkKeeps ==
  ASSUME IInv, pc = "run", Op.op # "done", UNCHANGED outside,
         \/ pc' = "run" /\ ret' = ret
         \/ pc' = "back" /\ ret' \in {"needs_more", "has_more", "failed"},
         pc' = "back" /\ ret' = "failed" /\ stream.whole =>
           lost' \/ offered < stream.size,
         taken' \in taken .. offered, num_bits' \in Nat,
         at' \in 1 .. Len(stream.ops), phase' \in {"read", "fill", "emit"},
         left' \in Nat, lost' \in BOOLEAN,
         WroteSome \/ UNCHANGED written,
         PlaceValid', BufferValid'
  PROVE  IInv'
<1> USE DEF IInv
<1>1. /\ stream' = stream /\ caller' = caller /\ offered' = offered /\ room' = room
      /\ flush' = flush /\ no_input' = no_input /\ wrapping' = wrapping /\ more' = more
      /\ first_call' = first_call /\ has_flushed' = has_flushed
      /\ last_status' = last_status /\ dict_ofs' = dict_ofs /\ dict_avail' = dict_avail
      /\ capacity' = capacity /\ delivered' = delivered /\ status' = status
  BY DEF outside, const, call, flags, window
<1>2. /\ dict' \in [0 .. DictSize - 1 -> Datum] /\ space' \in Nat /\ fresh' \in Nat
      /\ decoded' \in Seq(Datum)
  <2>1. CASE WroteSome
    BY <2>1, Wrote DEF WroteSome
  <2>2. CASE UNCHANGED written
    BY <2>2 DEF written, TypeOK
  <2> QED
    BY <2>1, <2>2
<1>3. taken' \in 0 .. offered
  BY DEF TypeOK
<1>4. TypeOK'
  BY <1>1, <1>2, <1>3 DEF TypeOK
<1>5. WindowValid'
  BY WindowWritten, WindowKept DEF WroteSome
<1>6. EndOf(ret)' /\ EndOf(last_status)'
  BY <1>1 DEF EndOf, ReturnsValid
<1>7. ReturnsValid'
  BY <1>1, <1>6 DEF ReturnsValid, Bad
<1> QED
  BY <1>4, <1>5, <1>7

(* The place behind m operations.                                          *)
TextHolds == \A k \in 1 .. Len(decoded) : k <= stream.known => decoded[k] = Text[k]

(* The operation done, its bytes are those before the next.                *)
LEMMA Arrived ==
  ASSUME NEW m \in Nat, at' = m + 1, stream' = stream, phase' = "read",
         ~lost' => /\ Len(decoded') >= Len(Texts(stream.ops)[m]) /\ TextHolds'
                   /\ stream.ops[m + 1].op # "void" =>
                        Len(decoded') = Len(Texts(stream.ops)[m])
                   /\ Len(decoded') \in Nat /\ Positions(stream.ops)[m] \in Nat
                   /\ 8 * taken' - num_bits' = Positions(stream.ops)[m]
  PROVE  PlaceValid'
<1>1. at' - 1 = m
  OBVIOUS
<1>2. Part' = 0
  BY DEF Part
<1>3. (IF phase = "emit" /\ Op.op \in Literals THEN Op.bits
       ELSE IF Op.op = "stored" THEN 8 * Part ELSE 0)' = 0
  BY <1>2
<1>4. Op'.op = stream.ops[m + 1].op
  BY DEF Op
<1> QED
  BY <1>1, <1>2, <1>3, <1>4 DEF PlaceValid, TextHolds, Astray

(* What is written is the text, where it is known.                         *)
LEMMA WroteText ==
  ASSUME TypeOK, NEW b \in Seq(Datum), Len(b) <= space, Write(b), TextHolds,
         stream' = stream,
         \A k \in 1 .. Len(b) :
           Len(decoded) + k <= stream.known => b[k] = Text[Len(decoded) + k]
  PROVE  TextHolds'
<1>1. PICK L \in Nat, m \in Nat : L = Len(decoded) /\ m = Len(b)
  BY LenProperties DEF TypeOK
<1>2. PICK u : u = decoded'
  OBVIOUS
<1>6. CASE Over
  <2>1. Len(u) = L + 0 /\ \A k \in 1..L : u[k] = decoded[k]
    BY <1>1, <1>2, <1>6, Wrote
  <2> QED
    BY <1>1, <1>2, <2>1 DEF TextHolds, Text
<1> SUFFICES ASSUME ~Over PROVE TextHolds'
  BY <1>6
<1>3. /\ Len(u) = L + m
      /\ \A k \in 1..L : u[k] = decoded[k]
      /\ \A k \in 1..m : u[L + k] = b[k]
  BY <1>1, <1>2, Wrote
<1>4. ASSUME NEW k \in 1 .. L + m, k <= stream.known PROVE u[k] = Text[k]
  <2>1. CASE k <= L
    BY <1>1, <1>3, <1>4, <2>1 DEF TextHolds
  <2>2. CASE k > L
    <3>1. k - L \in 1..m /\ L + (k - L) = k
      BY <2>2
    <3>2. PICK j \in 1..m : k = L + j
      BY <3>1
    <3> QED
      BY <1>1, <1>3, <1>4, <3>2
  <2> QED
    BY <2>1, <2>2
<1>5. Text' = Text /\ stream'.known = stream.known
  BY DEF Text
<1> QED
  BY <1>1, <1>2, <1>3, <1>4, <1>5 DEF TextHolds

(* Nothing written, the text holds.                                        *)
LEMMA TextKept ==
  ASSUME TextHolds, stream' = stream, decoded' = decoded
  PROVE  TextHolds'
BY DEF TextHolds, Text

-----------------------------------------------------------------------------
(* What is there of an operation is a part of what it adds.                *)
LEMMA PartIs ==
  ASSUME TypeOK, PlaceValid, ~lost
  PROVE  Part \in 0 .. Adds(Op)
<1>1. Op \in Operation /\ Adds(Op) \in Nat /\ left \in Nat
  BY AtIs, AddsIs DEF TypeOK
<1>2. CASE phase = "emit" /\ Op.op = "copy"
  <2>1. left <= Op.len /\ Op.len \in Nat
    BY <1>1, <1>2, OpIs DEF PlaceValid, Literals
  <2>2. Part = Op.len - left /\ Adds(Op) = Op.len
    BY <1>2 DEF Part, Adds, Literals
  <2> QED
    BY <1>1, <2>1, <2>2
<1>3. CASE phase = "emit" /\ Op.op = "stored"
  <2>1. left <= Len(Op.bytes) /\ Len(Op.bytes) \in Nat
    BY <1>1, <1>3, OpIs, LenProperties DEF PlaceValid, Literals
  <2>2. Part = Len(Op.bytes) - left /\ Adds(Op) = Len(Op.bytes)
    BY <1>3 DEF Part, Adds, Literals
  <2> QED
    BY <1>1, <2>1, <2>2
<1>4. CASE ~(phase = "emit" /\ Op.op \in {"copy", "stored"})
  BY <1>1, <1>4 DEF Part
<1> QED
  BY <1>2, <1>3, <1>4

(* What holds where an operation begins or goes on.                        *)
LEMMA Here ==
  ASSUME IInv, ~lost
  PROVE  /\ stream \in Streams
         /\ taken \in Nat /\ offered \in Nat /\ taken <= offered /\ num_bits \in 0..61
         /\ at \in Nat \ {0} /\ at - 1 \in Nat
         /\ Len(Texts(stream.ops)[at - 1]) \in Nat /\ Len(Texts(stream.ops)[at]) \in Nat
         /\ Positions(stream.ops)[at - 1] \in Nat /\ Positions(stream.ops)[at] \in Nat
         /\ Len(decoded) \in Nat
         /\ Len(Texts(stream.ops)[at]) = Len(Texts(stream.ops)[at - 1]) + Adds(Op)
         /\ AddedBehind(Text, Len(Texts(stream.ops)[at - 1]), Op)
         /\ Positions(stream.ops)[at] = Behind(Positions(stream.ops)[at - 1], Op)
         /\ Len(decoded) >= Len(Texts(stream.ops)[at - 1])
         /\ Op.op # "void" =>
              ~Over /\ Len(decoded) = Len(Texts(stream.ops)[at - 1]) + Part
         /\ TextHolds
         /\ phase # "emit" =>
              8 * taken - num_bits = Positions(stream.ops)[at - 1]
<1>1. stream \in Streams /\ at \in 1 .. Len(stream.ops) /\ Len(stream.ops) \in Nat
  BY AtIs DEF IInv
<1>2. /\ taken \in Nat /\ offered \in Nat /\ taken <= offered /\ num_bits \in 0..61
      /\ at \in Nat \ {0} /\ at - 1 \in Nat
  <2>1. stream.size \in Nat
    BY <1>1, StreamIs
  <2>2. offered \in 0 .. stream.size /\ taken \in 0 .. offered /\ num_bits \in Nat
    BY DEF IInv, TypeOK
  <2>3. num_bits <= 61
    BY DEF IInv, BufferValid
  <2> QED
    BY <1>1, <2>1, <2>2, <2>3
<1>3. Len(decoded) \in Nat
  BY LenProperties DEF IInv, TypeOK
<1>4. /\ Len(Texts(stream.ops)[at - 1]) \in Nat /\ Len(Texts(stream.ops)[at]) \in Nat
      /\ Len(Texts(stream.ops)[at]) = Len(Texts(stream.ops)[at - 1]) + Adds(Op)
      /\ AddedBehind(Text, Len(Texts(stream.ops)[at - 1]), Op)
  BY <1>1, TextIs DEF Op, Text
<1>5. /\ Positions(stream.ops)[at - 1] \in Nat /\ Positions(stream.ops)[at] \in Nat
      /\ Positions(stream.ops)[at] = Behind(Positions(stream.ops)[at - 1], Op)
  BY <1>1, PositionsAre DEF Op
<1>6. /\ Len(decoded) >= Len(Texts(stream.ops)[at - 1])
      /\ Op.op # "void" => Len(decoded) = Len(Texts(stream.ops)[at - 1]) + Part
      /\ TextHolds
      /\ 8 * taken - num_bits =
           Positions(stream.ops)[at - 1]
             + (IF phase = "emit" /\ Op.op \in Literals THEN Op.bits
                ELSE IF Op.op = "stored" THEN 8 * Part ELSE 0)
  BY DEF IInv, PlaceValid, TextHolds, Astray
<1>7. ASSUME phase # "emit"
      PROVE  8 * taken - num_bits = Positions(stream.ops)[at - 1]
  <2>1. Part = 0
    BY <1>7 DEF Part
  <2>2. (IF phase = "emit" /\ Op.op \in Literals THEN Op.bits
         ELSE IF Op.op = "stored" THEN 8 * Part ELSE 0) = 0
    BY <1>7, <2>1
  <2> QED
    BY <1>5, <1>6, <2>2
<1>8. ASSUME Op.op # "void" PROVE ~Over
  <2>1. Part \in 0 .. Adds(Op)
    BY <1>1, PartIs DEF IInv
  <2>2. Len(Text) \in Nat /\ Len(Texts(stream.ops)[at]) <= Len(Text)
    BY <1>1, TextIs, LenProperties DEF Text
  <2>3. Adds(Op) \in Nat
    BY AtIs, AddsIs DEF IInv
  <2>4. Len(decoded) <= Len(Text)
    BY <1>4, <1>6, <1>8, <2>1, <2>2, <2>3
  <2> QED
    BY <1>3, <2>2, <2>4, SizesAssumption DEF Over
<1> QED
  BY <1>1, <1>2, <1>3, <1>4, <1>5, <1>6, <1>7, <1>8

(* The bits of a symbol, a code or a field: they are waited for, or read.  *)
Waits(n) ==
  /\ pc' = "back" /\ ret' = "needs_more" /\ phase' = "fill"
  /\ taken' = offered /\ num_bits' = num_bits + 8 * (offered - taken)
  /\ num_bits' < n
  /\ UNCHANGED <<at, left, lost>>

Reads(n) ==
  /\ UNCHANGED <<pc, ret>>
  /\ taken' \in taken .. offered /\ num_bits' \in 0..61 /\ lost' \in BOOLEAN
  /\ ~lost' => 8 * taken' - num_bits' = 8 * taken - num_bits + n
  /\ lost' => num_bits' <= 22

(* What Fetch does: it waits, or reads n bits and keeps few; of the bits   *)
(* that have no code, it uses none.                                        *)
LEMMA FetchIs ==
  ASSUME IInv, ~lost, pc = "run", NEW needed \in 0..16, NEW n \in 0..16,
         n = needed \/ (n = 0 /\ needed = 15), Fetch(needed, n, TRUE)
  PROVE  /\ \/ Waits(needed)
            \/ Reads(n) /\ (n = needed => num_bits' < 8 \/ num_bits' = num_bits - n)
         /\ pc' = "back" => Waits(needed)
<1>1. PICK nb \in 0..61, tk \in Nat, of \in Nat :
        nb = num_bits /\ tk = taken /\ of = offered /\ tk <= of
  BY Here
<1>2. PICK a \in Nat : a = avail /\ a = of - tk
  BY <1>1 DEF avail
<1>3. PICK k : k = IF nb >= needed THEN 0 ELSE (needed - nb + 7) \div 8
  OBVIOUS
<1>4. /\ k \in Nat
      /\ nb >= needed => k = 0
      /\ nb < needed => 8 * k + nb - needed \in 0..7
  <2>1. CASE nb >= needed
    BY <1>3, <2>1
  <2>2. CASE nb < needed
    <3>1. PICK m \in Nat : m = needed - nb + 7
      BY <2>2
    <3>2. PICK q \in Int, r \in 0..7 : q = m \div 8 /\ m = 8 * q + r
      BY ModDecomposes
    <3>3. k = q
      BY <1>3, <2>2, <3>1, <3>2
    <3> QED
      BY <2>2, <3>1, <3>2, <3>3
  <2> QED
    BY <2>1, <2>2
<1>5. CASE k > a /\ more
  <2>1. /\ taken' = offered /\ num_bits' = nb + 8 * a
        /\ pc' = "back" /\ ret' = "needs_more" /\ phase' = "fill"
        /\ UNCHANGED <<at, left, lost>>
    BY <1>1, <1>2, <1>3, <1>5 DEF Fetch, Ret
  <2>2. nb + 8 * a < needed
    BY <1>4, <1>5
  <2> QED
    BY <1>1, <1>2, <2>1, <2>2 DEF Waits
<1>6. CASE ~(k > a /\ more)
  <2>1. /\ taken' = tk + Min({k, a}) /\ num_bits' = nb + 8 * k - n
        /\ lost' = (k > a) /\ UNCHANGED <<pc, ret>>
    BY <1>1, <1>2, <1>3, <1>6 DEF Fetch, Go
  <2>2. Min({k, a}) = IF k <= a THEN k ELSE a
    BY <1>4, MinIs
  <2>3. taken' \in tk..of
    BY <1>2, <1>4, <2>1, <2>2
  <2>4. /\ nb + 8 * k - n \in 0..61
        /\ k > a => nb + 8 * k - n <= 22
        /\ n = needed => nb + 8 * k - n < 8 \/ nb + 8 * k - n = nb - n
    BY <1>2, <1>4
  <2>5. ~lost' => 8 * taken' - num_bits' = 8 * tk - nb + n
    <3> SUFFICES ASSUME ~lost' PROVE 8 * taken' - num_bits' = 8 * tk - nb + n
      OBVIOUS
    <3>0. ~(k > a)
      BY <2>1, Zenon
    <3>1. k <= a
      BY <1>2, <1>4, <3>0
    <3>2. taken' = tk + k /\ num_bits' = nb + 8 * k - n
      BY <2>1, <2>2, <3>1
    <3> QED
      BY <1>4, <3>2
  <2>6. Reads(n) /\ (n = needed => num_bits' < 8 \/ num_bits' = num_bits - n)
    <3>1. num_bits' \in 0..61 /\ (lost' => num_bits' <= 22)
          /\ (n = needed => num_bits' < 8 \/ num_bits' = nb - n)
      BY <2>1, <2>4
    <3>2. lost' \in BOOLEAN /\ UNCHANGED <<pc, ret>>
      BY <2>1
    <3> QED
      BY <1>1, <2>3, <2>5, <3>1, <3>2 DEF Reads
  <2> QED
    BY <2>1, <2>6
<1> QED
  BY <1>5, <1>6

(* What HuffDecode does: the same, with up to two bytes more.              *)
LEMMA HuffDecodeIs ==
  ASSUME IInv, ~lost, pc = "run", NEW n \in 0..15, HuffDecode(n, TRUE)
  PROVE  (Waits(16) \/ Reads(n)) /\ (pc' = "back" => Waits(16))
<1>1. CASE phase = "read" /\ num_bits < 15 /\ avail >= 2
  <2>1. taken' = taken + 2 /\ num_bits' = num_bits + 16 - n /\ lost' = lost
        /\ UNCHANGED <<pc, ret>>
    BY <1>1 DEF HuffDecode, Go
  <2>2. PICK nb \in 0..14, tk \in Nat, of \in Nat :
          nb = num_bits /\ tk = taken /\ of = offered /\ tk + 2 <= of
    <3>1. num_bits \in 0..14 /\ taken \in Nat /\ offered \in Nat /\ taken + 2 <= offered
      <4>1. num_bits \in 0..61 /\ taken \in Nat /\ offered \in Nat
        BY Here
      <4> QED
        BY <1>1, <4>1 DEF avail
    <3> QED
      BY <3>1
  <2>3. Reads(n)
    <3>1. taken' \in tk..of /\ num_bits' \in 0..61
      BY <2>1, <2>2
    <3>2. 8 * taken' - num_bits' = 8 * tk - nb + n
      BY <2>1, <2>2
    <3>3. lost' \in BOOLEAN /\ ~lost'
      BY <2>1 DEF IInv, TypeOK
    <3> QED
      BY <2>1, <2>2, <3>1, <3>2, <3>3 DEF Reads
  <2> QED
    BY <2>1, <2>3
<1>2. CASE ~(phase = "read" /\ num_bits < 15 /\ avail >= 2)
  <2>1. PICK k \in 0..16 : k = IF n = 0 THEN 15 ELSE n
    OBVIOUS
  <2>2. Fetch(k, n, TRUE)
    BY <1>2, <2>1 DEF HuffDecode
  <2>3. n \in 0..16 /\ (n = k \/ (n = 0 /\ k = 15))
    BY <2>1
  <2>4. (Waits(k) \/ Reads(n)) /\ (pc' = "back" => Waits(k))
    BY <2>2, <2>3, FetchIs
  <2>5. Waits(k) => Waits(16)
    <3>1. num_bits \in 0..61 /\ taken \in Nat /\ offered \in Nat
      BY Here
    <3> QED
      BY <2>1, <3>1 DEF Waits
  <2> QED
    BY <2>4, <2>5
<1> QED
  BY <1>1, <1>2

(* To wait for bits leaves everything in its place.                        *)
LEMMA WaitingKeeps ==
  ASSUME IInv, pc = "run", ~lost, Op.op \in Coded, phase # "emit",
         NEW n \in 0..16, Waits(n), Op.op = "bits" => n = Op.bits,
         UNCHANGED <<outside, written>>
  PROVE  IInv'
<1>1. PICK nb \in 0..61, tk \in Nat, of \in Nat :
        nb = num_bits /\ tk = taken /\ of = offered /\ tk <= of
  BY Here
<1>2. /\ taken' = of /\ num_bits' = nb + 8 * (of - tk) /\ num_bits' < n
      /\ num_bits' \in Nat
  BY <1>1 DEF Waits
<1>3. /\ stream' = stream /\ wrapping' = wrapping /\ decoded' = decoded
      /\ at' = at /\ phase' = "fill" /\ left' = left /\ lost' = lost
  BY DEF Waits, outside, const, call, written
<1>4. Op' = Op /\ Op.op \notin {"copy", "stored", "done"}
  BY <1>3 DEF Op, Coded, Symbols, Literals
<1>5. Part = 0 /\ Part' = 0
  BY <1>3, <1>4 DEF Part
<1>6. 8 * tk - nb = Positions(stream.ops)[at - 1]
  BY <1>1, Here
<1>7. PlaceValid'
  <2>1. TextHolds'
    BY <1>3, Here, TextKept
  <2>2. 8 * taken' - num_bits' = Positions(stream.ops)[at - 1]
    BY <1>1, <1>2, <1>6
  <2>3. Positions(stream.ops)[at - 1] \in Nat
    BY Here
  <2>4. /\ Len(decoded) >= Len(Texts(stream.ops)[at - 1])
        /\ Op.op # "void" => Len(decoded) = Len(Texts(stream.ops)[at - 1]) + 0
    BY <1>5, Here
  <2> QED
    BY <1>3, <1>4, <1>5, <2>1, <2>2, <2>3, <2>4 DEF PlaceValid, TextHolds, Astray
<1>8. BufferValid'
  <2>1. stream.zlib /\ at >= Len(stream.ops) - 4 => n <= 8
    <3> SUFFICES ASSUME stream.zlib, at >= Len(stream.ops) - 4 PROVE n <= 8
      OBVIOUS
    <3>1. PICK N \in Nat : N = Len(stream.ops) /\ at \in Nat
      BY AtIs, Here DEF IInv
    <3>2. at >= Len(stream.ops) - 5 /\ at # Len(stream.ops) - 5
      BY <3>1
    <3>3. Op.op = "bits" /\ Op.bits = 8
      BY <1>4, <3>2, ChecksumIs DEF IInv
    <3> QED
      BY <3>3
  <2>2. at \in Nat /\ Len(stream.ops) \in Nat /\ at <= Len(stream.ops)
    BY AtIs DEF IInv
  <2> QED
    BY <1>2, <1>3, <2>1, <2>2 DEF BufferValid
<1>9. taken' \in taken .. offered
  BY <1>1, <1>2
<1>10. /\ at' \in 1 .. Len(stream.ops) /\ left' \in Nat /\ lost' \in BOOLEAN
  BY <1>3, AtIs DEF IInv, TypeOK
<1>11. pc' = "back" /\ ret' = "needs_more" /\ UNCHANGED outside /\ UNCHANGED written
  BY DEF Waits
<1> QED
  BY <1>2, <1>3, <1>4, <1>7, <1>8, <1>9, <1>10, <1>11, WorkKeeps

(* Bits that are read end the operation.                                   *)
LEMMA ReadingMoves ==
  ASSUME IInv, pc = "run", ~lost, phase # "emit",
         Op.op \in Coded \ Literals, Reads(Op.bits), Advance,
         Op.op = "bits" /\ Op.bits = 8 => num_bits' < 8 \/ num_bits' = num_bits - 8,
         UNCHANGED <<outside, written>>
  PROVE  IInv'
<1>1. PICK nb \in 0..61, tk \in Nat, of \in Nat, n \in Nat :
        nb = num_bits /\ tk = taken /\ of = offered /\ n = Op.bits
  <2>1. Op.bits \in Nat
    BY AtIs, OpIs DEF IInv, Coded, Symbols, Literals
  <2> QED
    BY <2>1, Here
<1>2. PICK m \in Nat \ {0}, N \in Nat :
        m = at /\ N = Len(stream.ops) /\ m + 1 \in 1..N /\ m \in 1..N
  <2>1. at # Len(stream.ops)
    BY AtIs DEF IInv, Coded, Symbols, Literals
  <2> QED
    BY <2>1, AtIs DEF IInv
<1>3. /\ stream' = stream /\ decoded' = decoded /\ at' = m + 1 /\ phase' = "read"
      /\ left' = 0
  BY <1>2 DEF Advance, Proceed, outside, const, written
<1>4. /\ taken' \in tk..of /\ num_bits' \in 0..61 /\ lost' \in BOOLEAN
      /\ ~lost' => 8 * taken' - num_bits' = 8 * tk - nb + n
      /\ lost' => num_bits' <= 22
  BY <1>1 DEF Reads
<1>5. PlaceValid'
  <2>1. 8 * tk - nb = Positions(stream.ops)[m - 1]
    BY <1>1, <1>2, Here
  <2>2. /\ Positions(stream.ops)[m] = Positions(stream.ops)[m - 1] + n
        /\ Positions(stream.ops)[m - 1] \in Nat /\ Positions(stream.ops)[m] \in Nat
    <3>1. Behind(Positions(stream.ops)[m - 1], Op) = Positions(stream.ops)[m - 1] + n
      BY <1>1, Zenon DEF Behind, Coded, Symbols, Literals
    <3> QED
      BY <1>2, <3>1, Here
  <2>3. Len(decoded') = Len(Texts(stream.ops)[m]) /\ Len(decoded') \in Nat
    <3>1. Adds(Op) = 0
      BY DEF Adds, Coded, Symbols, Literals
    <3>2. Part = 0
      BY DEF Part
    <3>3. Op.op # "void"
      BY DEF Literals
    <3> QED
      BY <1>2, <1>3, <3>1, <3>2, <3>3, Here
  <2>4. TextHolds'
    BY <1>3, Here, TextKept
  <2>5. ~lost' => 8 * taken' - num_bits' = Positions(stream.ops)[m]
    BY <1>4, <2>1, <2>2
  <2>6. Len(decoded') >= Len(Texts(stream.ops)[m])
    BY <2>3
  <2> QED
    BY <1>3, <2>2, <2>3, <2>4, <2>5, <2>6, Arrived
<1>6. BufferValid'
  <2>1. ASSUME stream.zlib, at' >= N - 4
        PROVE  num_bits' < 8 \/ num_bits' <= 24 + 8 * (N - at')
    <3>1. m >= N - 5
      BY <1>2, <1>3, <2>1
    <3>2. Op.op = "bits" /\ Op.bits = 8 /\ m >= N - 4
      BY <1>2, <2>1, <3>1, ChecksumIs DEF IInv, Coded, Symbols, Literals
    <3>3. nb < 8 \/ nb <= 24 + 8 * (N - m)
      BY <1>1, <1>2, <2>1, <3>2 DEF IInv, BufferValid
    <3> QED
      BY <1>1, <1>2, <1>3, <1>4, <3>2, <3>3
  <2> QED
    BY <1>2, <1>3, <1>4, <2>1 DEF BufferValid
<1>7. Op.op # "done"
  BY DEF Coded, Symbols, Literals
<1>8. /\ UNCHANGED outside /\ UNCHANGED written /\ pc' = "run" /\ ret' = ret
      /\ num_bits' \in Nat
  BY <1>4 DEF Reads
<1> QED
  BY <1>1, <1>2, <1>3, <1>4, <1>5, <1>6, <1>7, <1>8, WorkKeeps

(* Bits and codes are never written.                                       *)
LEMMA NotEmitting ==
  ASSUME IInv, ~lost, Op.op \in Coded \ Literals
  PROVE  phase # "emit"
BY DEF IInv, PlaceValid, Coded, Symbols, Literals

(* The readers, one by one: bits first.                                    *)
LEMMA ReadBitsKeeps ==
  ASSUME IInv, ReadBits
  PROVE  IInv'
<1>1. /\ pc = "run" /\ Op.op = "bits" /\ ~lost /\ UNCHANGED <<outside, written>>
      /\ Fetch(Op.bits, Op.bits, Advance)
  BY DEF ReadBits, Running
<1>2. Op.bits \in 0..16
  BY <1>1, AtIs, OpIs DEF IInv
<1>3. Op.op \in Coded \ Literals
  BY <1>1 DEF Coded, Literals
<1>4. PICK n \in 0..16 : n = Op.bits
  BY <1>2
<1>5. Fetch(n, n, TRUE) /\ (pc' = "back" \/ Advance)
  BY <1>1, <1>4 DEF Fetch, Ret
<1>6. phase # "emit"
  BY <1>1, <1>3, NotEmitting
<1>7. CASE Waits(n)
  BY <1>1, <1>3, <1>4, <1>6, <1>7, WaitingKeeps
<1>8. CASE Reads(n) /\ (num_bits' < 8 \/ num_bits' = num_bits - n) /\ pc' # "back"
  BY <1>1, <1>3, <1>4, <1>5, <1>6, <1>8, ReadingMoves
<1> QED
  BY <1>1, <1>5, <1>7, <1>8, FetchIs

(* A code of a distance.                                                   *)
LEMMA ReadCodeKeeps ==
  ASSUME IInv, ReadCode
  PROVE  IInv'
<1>1. /\ pc = "run" /\ Op.op = "code" /\ ~lost /\ UNCHANGED <<outside, written>>
      /\ HuffDecode(Op.bits, Advance)
  BY DEF ReadCode, Running
<1>2. Op.bits \in 0..15
  BY <1>1, AtIs, OpIs DEF IInv
<1>3. Op.op \in Coded \ Literals
  BY <1>1 DEF Coded, Literals
<1>4. PICK n \in 0..15 : n = Op.bits
  BY <1>2
<1>5. HuffDecode(n, TRUE) /\ (pc' = "back" \/ Advance)
  BY <1>1, <1>4 DEF HuffDecode, Fetch, Ret
<1>6. phase # "emit" /\ 16 \in 0..16 /\ Op.op # "bits"
  BY <1>1, <1>3, NotEmitting
<1>7. CASE Waits(16)
  BY <1>1, <1>3, <1>4, <1>6, <1>7, WaitingKeeps
<1>8. CASE Reads(n) /\ pc' # "back"
  BY <1>1, <1>3, <1>4, <1>5, <1>6, <1>8, ReadingMoves
<1> QED
  BY <1>1, <1>5, <1>7, <1>8, HuffDecodeIs

(* A symbol of the slow loop; a literal waits to be written.               *)
LEMMA SlowSymbolKeeps ==
  ASSUME IInv, SlowSymbol
  PROVE  IInv'
<1> DEFINE Then == IF Op.op \in Literals
                  THEN phase' = "emit" /\ UNCHANGED <<at, left>> ELSE Advance
<1>1. /\ pc = "run" /\ Op.op \in Symbols /\ ~lost /\ phase # "emit"
      /\ UNCHANGED <<outside, written>> /\ HuffDecode(Op.bits, Then)
  BY DEF SlowSymbol, Running
<1>2. Op.bits \in 0..15
  BY <1>1, AtIs, OpIs DEF IInv
<1>3. Op.op \in Coded /\ Op.op # "bits"
  BY <1>1 DEF Coded, Symbols, Literals
<1>4. PICK n \in 0..15 : n = Op.bits /\ 16 \in 0..16
  BY <1>2
<1>5. HuffDecode(n, TRUE) /\ (pc' = "back" \/ Then)
  <2> HIDE DEF Then
  <2> QED
    BY <1>1, <1>4 DEF HuffDecode, Fetch, Ret
<1>6. CASE Waits(16)
  BY <1>1, <1>3, <1>4, <1>6, WaitingKeeps
<1>7. CASE Reads(n) /\ pc' # "back" /\ Op.op \notin Literals
  BY <1>1, <1>3, <1>4, <1>5, <1>7, ReadingMoves
<1>8. CASE Reads(n) /\ pc' # "back" /\ Op.op \in Literals
  <2>1. PICK nb \in 0..61, tk \in Nat, of \in Nat :
          nb = num_bits /\ tk = taken /\ of = offered
    BY <1>1, Here
  <2>2. /\ taken' \in tk..of /\ num_bits' \in 0..61 /\ lost' \in BOOLEAN
        /\ ~lost' => 8 * taken' - num_bits' = 8 * tk - nb + n
        /\ lost' => num_bits' <= 22
        /\ pc' = "run" /\ ret' = ret
    BY <1>1, <1>8, <2>1 DEF Reads
  <2>3. /\ stream' = stream /\ decoded' = decoded /\ at' = at /\ phase' = "emit"
        /\ left' = left /\ wrapping' = wrapping
    BY <1>1, <1>5, <1>8 DEF outside, const, call, written
  <2>4. Op' = Op
    BY <2>3 DEF Op
  <2>5. Part = 0 /\ Part' = 0
    BY <1>8, <2>3, <2>4 DEF Part, Literals
  <2>6. PlaceValid'
    <3>1. TextHolds'
      BY <1>1, <2>3, Here, TextKept
    <3>2. /\ 8 * tk - nb = Positions(stream.ops)[at - 1]
          /\ Positions(stream.ops)[at - 1] \in Nat
          /\ Len(decoded) >= Len(Texts(stream.ops)[at - 1])
          /\ Op.op # "void" => Len(decoded) = Len(Texts(stream.ops)[at - 1]) + 0
      BY <1>1, <2>1, <2>5, Here
    <3>3. ~lost' => 8 * taken' - num_bits' = Positions(stream.ops)[at - 1] + Op.bits
      BY <1>4, <2>2, <3>2
    <3> QED
      BY <1>8, <2>3, <2>4, <2>5, <3>1, <3>2, <3>3 DEF PlaceValid, TextHolds, Astray, Literals
  <2>7. BufferValid'
    <3>1. ~(stream.zlib /\ at >= Len(stream.ops) - 4)
      <4> SUFFICES ASSUME stream.zlib, at >= Len(stream.ops) - 4 PROVE FALSE
        OBVIOUS
      <4>1. at >= Len(stream.ops) - 5
        BY AtIs DEF IInv
      <4> QED
        BY <1>8, <4>1, ChecksumIs DEF IInv, Literals
    <3> QED
      BY <2>2, <2>3, <3>1 DEF BufferValid
  <2>8. num_bits' \in Nat /\ left' \in Nat /\ at' \in 1 .. Len(stream.ops)
    BY <2>2, <2>3, AtIs DEF IInv, TypeOK
  <2>9. Op.op # "done" /\ taken' \in taken .. offered
    BY <1>8, <2>1, <2>2 DEF Literals
  <2> QED
    BY <1>1, <2>2, <2>3, <2>6, <2>7, <2>8, <2>9, WorkKeeps
<1> QED
  BY <1>1, <1>4, <1>5, <1>6, <1>7, <1>8, HuffDecodeIs

(* What is not among the last operations of a stream with a checksum.      *)
LEMMA BeforeChecksum ==
  ASSUME TypeOK, Op.op \in Symbols \cup {"code", "copy", "stored", "fail"}, stream.zlib
  PROVE  at < Len(stream.ops) - 5
<1>1. ~(at >= Len(stream.ops) - 5)
  <2> SUFFICES ASSUME at >= Len(stream.ops) - 5 PROVE FALSE
    OBVIOUS
  <2> QED
    BY ChecksumIs DEF Symbols, Literals
<1> QED
  BY <1>1, AtIs

(* Nothing is known of a text from where nothing is.                       *)
LEMMA KnownBefore ==
  ASSUME NEW s \in Streams, NEW T \in Nat, s.text[T + 1] = Unknown
  PROVE  s.known \in Nat /\ s.known <= T
<1>1. PICK n \in Nat : n = Len(s.text)
  BY TextIs, LenProperties
<1>2. s.known \in 0..n /\ \A k \in 1 .. s.known : s.text[k] # Unknown
  BY <1>1, KnownIs
<1>3. ~(T + 1 \in 1 .. s.known)
  BY <1>2
<1> QED
  BY <1>2, <1>3

(* A literal written, or no room for it.                                   *)
LEMMA EmitLiteralKeeps ==
  ASSUME IInv, EmitLiteral
  PROVE  IInv'
<1>1. /\ pc = "run" /\ Op.op \in Literals /\ ~lost /\ phase = "emit"
      /\ UNCHANGED <<outside, input>>
  BY DEF EmitLiteral, Running
<1>2. /\ stream' = stream /\ wrapping' = wrapping /\ taken' = taken
      /\ num_bits' = num_bits
  BY <1>1 DEF outside, const, call, input
<1>3. /\ After(at) = IF Op.op = "void" THEN at ELSE at + 1
      /\ After(at) \in 1 .. Len(stream.ops) /\ num_bits \in 0..61
      /\ taken \in Nat /\ offered \in Nat /\ taken <= offered
  BY <1>1, Here, SymbolFollows DEF IInv
<1>4. CASE space = 0
  <2>1. pc' = "back" /\ ret' = "has_more" /\ UNCHANGED <<written, place>>
    BY <1>1, <1>4 DEF EmitLiteral, Ret
  <2>2. at' = at /\ phase' = phase /\ left' = left /\ lost' = lost /\ decoded' = decoded
    BY <2>1 DEF place, written
  <2>3. Op' = Op /\ Part' = Part
    BY <1>2, <2>2 DEF Op, Part
  <2>4. PlaceValid' /\ BufferValid'
    BY <1>2, <2>2, <2>3 DEF IInv, PlaceValid, BufferValid, Text, Astray
  <2>5. /\ num_bits' \in Nat /\ at' \in 1 .. Len(stream.ops) /\ left' \in Nat
        /\ phase' \in {"read", "fill", "emit"} /\ lost' \in BOOLEAN
        /\ taken' \in taken .. offered
    BY <1>2, <1>3, <2>2, AtIs DEF IInv, TypeOK
  <2>6. Op.op # "done"
    BY <1>1 DEF Literals
  <2> QED
    BY <1>1, <2>1, <2>4, <2>5, <2>6, WorkKeeps
<1>5. CASE space # 0
  <2>1. Write(<<Op.byte>>) /\ Proceed(After(at)) /\ Go /\ lost' = lost
    BY <1>1, <1>5 DEF EmitLiteral
  <2>2. PICK b \in Seq(Datum) : b = <<Op.byte>> /\ Len(b) = 1 /\ b[1] = Op.byte
    <3>1. PICK x \in Datum : x = Op.byte
      BY <1>1, AtIs, OpIs, BytesAreData DEF IInv
    <3>2. <<x>> \in Seq(Datum) /\ Len(<<x>>) = 1 /\ <<x>>[1] = x
      OBVIOUS
    <3> QED
      BY <3>1, <3>2
  <2>3. Len(b) <= space /\ Write(b)
    BY <1>5, <2>1, <2>2 DEF IInv, TypeOK
  <2>4. PICK T \in Nat, P \in Nat, nb \in 0..61, tk \in Nat, n \in Nat, m \in Nat :
          /\ T = Len(Texts(stream.ops)[at - 1]) /\ P = Positions(stream.ops)[at - 1]
          /\ nb = num_bits /\ tk = taken /\ n = Op.bits /\ m = at
    <3>1. Op.op \in Symbols \cup {"code"}
      BY <1>1 DEF Symbols
    <3>2. Op.bits \in 0..15
      BY <3>1, AtIs, OpIs DEF IInv
    <3>3. PICK n \in Nat : n = Op.bits
      BY <3>2
    <3> QED
      BY <1>1, <3>3, Here
  <2>5. Len(decoded) >= T /\ TextHolds /\ stream \in Streams
        /\ AddedBehind(Text, T, Op) /\ Len(decoded) \in Nat
    BY <1>1, <2>4, Here
  <2>6. 8 * tk - nb = P + n
    BY <1>1, <2>4 DEF IInv, PlaceValid
  <2>7. /\ at' = After(at) /\ phase' = "read" /\ left' = 0 /\ pc' = "run" /\ ret' = ret
    BY <1>1, <2>1 DEF Proceed, Go
  <2>8. ASSUME Op.op = "lit" PROVE PlaceValid'
    <3>1. Adds(Op) = 1 /\ Part = 0
      BY <1>1, <2>8 DEF Adds, Part, Literals
    <3>2. Text[T + 1] = Op.byte
      BY <2>5, <2>8 DEF AddedBehind
    <3>3. Len(Texts(stream.ops)[m]) = T + 1 /\ Len(decoded) = T /\ ~Over
      BY <1>1, <2>4, <2>8, <3>1, Here
    <3>4. Positions(stream.ops)[m] = P + n
      <4>1. Behind(P, Op) = P + n
        BY <2>4, <2>8, Zenon DEF Behind, Coded, Symbols, Literals
      <4> QED
        BY <1>1, <2>4, <4>1, Here
    <3>5. TextHolds'
      <4>1. \A k \in 1 .. Len(b) : b[k] = Text[Len(decoded) + k]
        BY <2>2, <3>2, <3>3
      <4> QED
        BY <1>2, <2>3, <2>5, <4>1, WroteText DEF IInv
    <3>6. Len(decoded') = T + 1
      BY <2>2, <2>3, <3>3, Wrote DEF IInv
    <3>7. /\ Len(decoded') = Len(Texts(stream.ops)[m]) /\ Len(decoded') \in Nat
          /\ Len(decoded') >= Len(Texts(stream.ops)[m])
          /\ Positions(stream.ops)[m] \in Nat
      BY <2>4, <3>3, <3>4, <3>6
    <3>8. 8 * taken' - num_bits' = Positions(stream.ops)[m]
      BY <1>2, <2>4, <2>6, <3>4
    <3>9. at' = m + 1
      BY <1>3, <2>4, <2>7, <2>8
    <3> QED
      BY <1>2, <2>7, <3>5, <3>7, <3>8, <3>9, Arrived
  <2>9. ASSUME Op.op = "void" PROVE PlaceValid'
    <3>1. PICK i \in Nat : i + 1 = m /\ i = at - 1
      BY <1>1, <2>4, Here
    <3>2. stream.known \in Nat /\ stream.known <= Len(decoded)
      <4>1. stream.text[T + 1] = Unknown
        BY <2>5, <2>9 DEF AddedBehind, Text
      <4>2. stream.known \in Nat /\ stream.known <= T
        BY <2>5, <4>1, KnownBefore
      <4> QED
        BY <2>5, <4>2
    <3>3. TextHolds'
      <4>1. \A k \in 1 .. Len(b) : ~(Len(decoded) + k <= stream.known)
        BY <2>2, <2>5, <3>2
      <4> QED
        BY <1>2, <2>3, <2>5, <4>1, WroteText DEF IInv
    <3>4. Len(decoded') \in Nat /\ Len(decoded') >= T
      <4>1. Len(decoded') = Len(decoded) + (IF Over THEN 0 ELSE 1)
        BY <2>2, <2>3, Wrote DEF IInv
      <4> QED
        BY <2>4, <2>5, <4>1
    <3>5. n = 0
      BY <2>4, <2>9, AtIs, OpIs DEF IInv
    <3>6. 8 * taken' - num_bits' = P
      BY <1>2, <2>4, <2>6, <3>5
    <3>7. at' = i + 1 /\ stream.ops[i + 1].op = "void"
      BY <1>3, <2>4, <2>7, <2>9, <3>1 DEF Op
    <3> QED
      BY <1>2, <2>4, <2>7, <3>1, <3>3, <3>4, <3>6, <3>7, Arrived
  <2>10. BufferValid'
    <3>1. stream.zlib => m + 1 < Len(stream.ops) - 4
      BY <1>1, <2>4, AtIs, BeforeChecksum DEF IInv, Symbols
    <3>2. at' \in {m, m + 1} /\ Len(stream.ops) \in Nat
      BY <1>3, <2>4, <2>7, AtIs DEF IInv
    <3> QED
      BY <1>1, <1>2, <1>3, <2>1, <3>1, <3>2 DEF BufferValid
  <2>11. WroteSome
    BY <2>3 DEF WroteSome
  <2>12. /\ taken' \in taken .. offered /\ num_bits' \in Nat /\ left' \in Nat
         /\ at' \in 1 .. Len(stream.ops) /\ lost' \in BOOLEAN
    BY <1>1, <1>2, <1>3, <2>1, <2>7 DEF IInv, TypeOK
  <2>13. PlaceValid' /\ Op.op # "done"
    BY <1>1, <2>8, <2>9 DEF Literals
  <2> QED
    BY <1>1, <2>7, <2>10, <2>11, <2>12, <2>13, WorkKeeps
<1> QED
  BY <1>4, <1>5

(* The bits up to the next byte are dropped.                               *)
LEMMA AlignKeeps ==
  ASSUME IInv, Align
  PROVE  IInv'
<1>1. /\ pc = "run" /\ Op.op = "align" /\ ~lost /\ Advance /\ Go
      /\ num_bits' = num_bits - (num_bits % 8)
      /\ UNCHANGED <<outside, written>> /\ taken' = taken /\ lost' = lost
  BY DEF Align, Running
<1>2. PICK P \in Nat, nb \in 0..61, tk \in Nat, m \in Nat \ {0} :
        /\ P = Positions(stream.ops)[at - 1] /\ nb = num_bits /\ tk = taken /\ m = at
  BY <1>1, Here
<1>3. PICK q \in Int, r \in 0..7 : r = nb % 8 /\ nb = 8 * q + r
  BY ModDecomposes
<1>4. num_bits' = 8 * q /\ q \in 0..7
  BY <1>1, <1>2, <1>3
<1>5. phase # "emit"
  BY <1>1 DEF IInv, PlaceValid, Literals
<1>6. 8 * tk - nb = P
  BY <1>1, <1>2, <1>5, Here
<1>7. Positions(stream.ops)[m] = 8 * tk - 8 * q
  <2>1. PICK p \in Nat : p = P + 7
    OBVIOUS
  <2>2. PICK e \in Int, s \in 0..7 : e = p \div 8 /\ p = 8 * e + s
    BY ModDecomposes
  <2>3. e = tk - q
    BY <1>3, <1>6, <2>1, <2>2
  <2>4. Behind(P, Op) = e * 8
    BY <1>1, <2>1, <2>2, Zenon DEF Behind, Coded, Symbols, Literals
  <2> QED
    BY <1>1, <1>2, <2>3, <2>4, Here
<1>8. /\ at' = m + 1 /\ phase' = "read" /\ left' = 0 /\ pc' = "run" /\ ret' = ret
      /\ stream' = stream /\ decoded' = decoded
  BY <1>1, <1>2 DEF Advance, Proceed, Go, outside, const, written
<1>9. PlaceValid'
  <2>1. Len(decoded') = Len(Texts(stream.ops)[m]) /\ Len(decoded') \in Nat
    <3>1. Adds(Op) = 0 /\ Part = 0
      BY <1>1, <1>5 DEF Adds, Part, Literals
    <3> QED
      BY <1>1, <1>2, <1>8, <3>1, Here
  <2>2. TextHolds'
    BY <1>1, <1>8, Here, TextKept
  <2>3. Positions(stream.ops)[m] \in Nat
    BY <1>1, <1>2, Here
  <2>4. 8 * taken' - num_bits' = Positions(stream.ops)[m]
    BY <1>1, <1>2, <1>4, <1>7
  <2>5. Len(decoded') >= Len(Texts(stream.ops)[m])
    BY <2>1
  <2> QED
    BY <1>2, <1>8, <2>1, <2>2, <2>3, <2>4, <2>5, Arrived
<1>10. PICK N \in Nat : N = Len(stream.ops) /\ m \in 1..N /\ m + 1 \in 1..N
  BY <1>1, <1>2, AtIs DEF IInv
<1>11. BufferValid'
  <2>1. ASSUME stream.zlib, m + 1 >= N - 4 PROVE m = N - 5
    <3>1. m >= N - 5
      BY <1>10, <2>1
    <3> QED
      BY <1>1, <1>2, <1>10, <2>1, <3>1, ChecksumIs DEF IInv
  <2>2. num_bits' <= 56 /\ ~lost'
    BY <1>1, <1>4
  <2>3. stream.zlib /\ m + 1 >= N - 4 => num_bits' <= 24 + 8 * (N - (m + 1))
    BY <1>4, <1>10, <2>1
  <2> QED
    BY <1>4, <1>8, <1>10, <2>2, <2>3 DEF BufferValid
<1>12. num_bits' \in Nat /\ taken' \in taken .. offered /\ lost' \in BOOLEAN
  <2>1. taken \in Nat /\ offered \in Nat /\ taken <= offered
    BY <1>1, Here
  <2> QED
    BY <1>1, <1>4, <2>1 DEF IInv, TypeOK
<1> QED
  BY <1>1, <1>8, <1>9, <1>10, <1>11, <1>12, WorkKeeps

(* The fast loop reads one symbol, or a literal and the symbol behind it.  *)
LEMMA FastSymbolKeeps ==
  ASSUME IInv, FastSymbol
  PROVE  IInv'
<1> DEFINE refill == num_bits < RefillBelow
           second == stream.ops[After(at)]
           used == Op.bits + (IF Op.op \in Literals THEN second.bits ELSE 0)
<1>1. /\ pc = "run" /\ Op.op \in Symbols /\ ~lost /\ phase = "read"
      /\ avail >= 4 /\ space >= 2
      /\ taken' = taken + (IF refill THEN 4 ELSE 0)
      /\ num_bits' = num_bits + (IF refill THEN 32 ELSE 0) - used
      /\ UNCHANGED <<outside, lost>> /\ UNCHANGED <<pc, ret>>
  BY DEF FastSymbol, Running, Fast, Go
<1>2. /\ Op.op \notin Literals => Proceed(After(at)) /\ UNCHANGED written
      /\ Op.op \in Literals /\ second.op \notin Literals =>
           Proceed(After(After(at))) /\ Write(<<Op.byte>>)
      /\ Op.op \in Literals /\ second.op \in Literals =>
           Proceed(After(After(at))) /\ Write(<<Op.byte, second.byte>>)
  <2> HIDE DEF refill, used
  <2>1. CASE Op.op \notin Literals
    BY <2>1, Zenon DEF FastSymbol
  <2>2. CASE Op.op \in Literals /\ second.op \notin Literals
    BY <2>2, Zenon DEF FastSymbol
  <2>3. CASE Op.op \in Literals /\ second.op \in Literals
    BY <2>3, Zenon DEF FastSymbol
  <2> QED
    BY <2>1, <2>2, <2>3
<1>3. PICK nb \in 0..61, tk \in Nat, of \in Nat, n \in 0..15 :
        nb = num_bits /\ tk = taken /\ of = offered /\ n = Op.bits /\ tk + 4 <= of
  <2>1. num_bits \in 0..61 /\ taken \in Nat /\ offered \in Nat
    BY <1>1, Here
  <2>2. taken + 4 <= offered
    BY <1>1, <2>1 DEF avail
  <2>3. Op.bits \in 0..15
    BY <1>1, AtIs, OpIs DEF IInv
  <2> QED
    BY <2>1, <2>2, <2>3
<1>4. PICK u \in Nat : u = used
  <2>1. CASE Op.op \notin Literals
    BY <1>3, <2>1
  <2>2. CASE Op.op \in Literals
    <3>1. second \in Operation /\ second.op \in Symbols
      BY <2>2, SymbolFollows DEF IInv
    <3>2. second.bits \in 0..15
      BY <3>1, OpIs
    <3> QED
      BY <1>3, <2>2, <3>2
  <2> QED
    BY <2>1, <2>2
<1>5. ASSUME u <= 30
      PROVE  /\ taken' \in tk..of /\ num_bits' \in 0..61
             /\ 8 * taken' - num_bits' = 8 * tk - nb + u
  <2>1. /\ taken' = tk + (IF nb < 30 THEN 4 ELSE 0)
        /\ num_bits' = nb + (IF nb < 30 THEN 32 ELSE 0) - u
    <3> HIDE DEF used
    <3> QED
      BY <1>1, <1>3, <1>4 DEF RefillBelow
  <2> QED
    BY <1>3, <1>5, <2>1
<1>6. CASE Op.op \notin Literals
  <2>1. u = n
    BY <1>3, <1>4, <1>6
  <2>2. lost' = lost /\ lost \in BOOLEAN
    BY <1>1 DEF IInv, TypeOK
  <2>3. Reads(Op.bits)
    BY <1>1, <1>3, <1>5, <2>1, <2>2 DEF Reads
  <2>4. Op.op \in Coded \ Literals /\ Op.op # "bits"
    BY <1>1, <1>6 DEF Coded, Symbols, Literals
  <2>5. Advance
    <3>1. After(at) = at + 1
      BY <1>6 DEF After, Op, Literals
    <3> QED
      BY <1>2, <1>6, <3>1 DEF Advance
  <2> QED
    BY <1>1, <1>2, <1>6, <2>3, <2>4, <2>5, ReadingMoves
<1>7. CASE Op.op \in Literals
  <2>1. /\ After(at) = IF Op.op = "void" THEN at ELSE at + 1
        /\ After(at) \in 1 .. Len(stream.ops) /\ After(at) # Len(stream.ops)
        /\ second \in Operation /\ second.op \in Symbols
    BY <1>7, SymbolFollows DEF IInv
  <2>2. PICK n2 \in 0..15 : n2 = second.bits /\ u = n + n2
    <3>1. second.bits \in 0..15
      BY <2>1, OpIs
    <3> QED
      BY <1>3, <1>4, <1>7, <3>1
  <2> HIDE DEF used, refill
  <2>3. PICK T \in Nat, P \in Nat, m \in Nat \ {0}, L \in Nat, N \in Nat :
          /\ T = Len(Texts(stream.ops)[at - 1]) /\ P = Positions(stream.ops)[at - 1]
          /\ m = at /\ L = Len(decoded) /\ N = Len(stream.ops)
    BY <1>1, AtIs, Here DEF IInv
  <2>4. /\ L >= T /\ TextHolds /\ stream \in Streams /\ 8 * tk - nb = P
        /\ AddedBehind(Text, T, Op)
    BY <1>1, <1>3, <2>3, Here
  <2>5. PICK x \in Datum : x = Op.byte
    BY <1>7, AtIs, OpIs, BytesAreData DEF IInv
  <2>6. PICK k \in Nat : k = After(at) /\ k \in 1..N /\ k # N
    BY <2>1, <2>3
  <2>7. /\ at' = After(k) /\ phase' = "read" /\ left' = 0 /\ pc' = "run" /\ ret' = ret
        /\ stream' = stream /\ lost' = lost
    BY <1>1, <1>2, <1>7, <2>6 DEF Proceed, outside, const
  <2>8. After(k) = IF second.op = "void" THEN k ELSE k + 1
    BY <2>6 DEF After
  <2>9. u <= 30
    <3>1. n <= 15 /\ n2 <= 15 /\ n \in Nat /\ n2 \in Nat
      OBVIOUS
    <3> QED
      BY <2>2, <3>1
  (* What is written is the text as far as it is known, and the place is   *)
  (* behind what is read.                                                  *)
  <2>10. ASSUME Op.op = "lit"
         PROVE  /\ WroteSome /\ PlaceValid'
                /\ stream.zlib => k + 1 < N - 4
    <3>1. k = m + 1 /\ k - 1 = m
      BY <2>1, <2>3, <2>6, <2>10
    <3>2. Len(Texts(stream.ops)[m]) = T + 1 /\ L = T /\ Text[T + 1] = x /\ ~Over
      <4>1. Adds(Op) = 1 /\ Part = 0
        BY <1>1, <2>10 DEF Adds, Part, Literals
      <4>2. Text[T + 1] = x
        BY <2>4, <2>5, <2>10 DEF AddedBehind
      <4> QED
        BY <1>1, <2>3, <2>10, <4>1, <4>2, Here
    <3>3. Positions(stream.ops)[m] = P + n
      <4>1. Behind(P, Op) = P + n
        BY <1>3, <2>10, Zenon DEF Behind, Coded, Symbols, Literals
      <4> QED
        BY <1>1, <2>3, <4>1, Here
    <3>4. /\ Len(Texts(stream.ops)[k]) = T + 1 + Adds(second)
          /\ Len(Texts(stream.ops)[k]) \in Nat
          /\ AddedBehind(Text, T + 1, second)
      <4>1. PICK ops : ops = stream.ops /\ k \in 1 .. Len(ops)
        BY <2>3, <2>6
      <4> QED
        BY <2>3, <2>4, <2>6, <3>1, <3>2, <4>1, TextIs DEF Text
    <3>5. Positions(stream.ops)[k] = P + n + n2 /\ Positions(stream.ops)[k] \in Nat
      <4>1. Behind(P + n, second) = P + n + n2
        <5>1. PICK y \in Nat : y = P + n
          OBVIOUS
        <5>2. Behind(y, second) = y + second.bits
          BY <2>1, Zenon DEF Behind, Coded, Symbols, Literals
        <5> QED
          BY <2>2, <5>1, <5>2
      <4> QED
        BY <2>3, <2>4, <2>6, <3>1, <3>3, <4>1, PositionsAre
    <3>6. PICK b \in Seq(Datum) :
            /\ Write(b) /\ Len(b) <= 2 /\ Len(b) = 1 + Adds(second)
            /\ \A i \in 1 .. Len(b) : T + i <= stream.known => b[i] = Text[T + i]
      <4>1. CASE second.op \notin Literals
        <5>1. Adds(second) = 0
          BY <2>1, <4>1 DEF Adds, Symbols, Literals
        <5>2. PICK c \in Seq(Datum) : c = <<x>> /\ Len(c) = 1 /\ c[1] = x
          <6>1. <<x>> \in Seq(Datum) /\ Len(<<x>>) = 1 /\ <<x>>[1] = x
            OBVIOUS
          <6> QED
            BY <6>1
        <5>3. \A i \in 1 .. Len(c) : T + i <= stream.known => c[i] = Text[T + i]
          BY <3>2, <5>2
        <5>4. Write(c)
          BY <1>2, <1>7, <2>5, <4>1, <5>2
        <5>5. Len(c) <= 2 /\ Len(c) = 1 + Adds(second)
          BY <5>1, <5>2
        <5> QED
          BY <5>3, <5>4, <5>5
      <4>2. CASE second.op \in Literals
        <5>1. PICK y \in Datum : y = second.byte
          BY <2>1, <4>2, OpIs, BytesAreData
        <5>2. Adds(second) = 1
          BY <4>2 DEF Adds, Literals
        <5>3. PICK c \in Seq(Datum) : c = <<x, y>> /\ Len(c) = 2 /\ c[1] = x /\ c[2] = y
          <6>1. <<x, y>> \in Seq(Datum)
            OBVIOUS
          <6>2. Len(<<x, y>>) = 2 /\ <<x, y>>[1] = x /\ <<x, y>>[2] = y
            OBVIOUS
          <6> QED
            BY <6>1, <6>2
        <5>4. T + 2 <= stream.known => y = Text[T + 2]
          <6>1. T + 1 + 1 = T + 2 /\ T + 1 \in Nat
            OBVIOUS
          <6>2. CASE second.op = "lit"
            BY <3>4, <5>1, <6>1, <6>2 DEF AddedBehind
          <6>3. CASE second.op = "void"
            <7>1. stream.text[T + 1 + 1] = Unknown
              BY <3>4, <6>3 DEF AddedBehind, Text
            <7>2. stream.known \in Nat /\ stream.known <= T + 1
              BY <2>4, <6>1, <7>1, KnownBefore
            <7> QED
              BY <7>2
          <6> QED
            BY <4>2, <6>2, <6>3 DEF Literals
        <5>5. \A i \in 1 .. Len(c) : T + i <= stream.known => c[i] = Text[T + i]
          <6>1. \A i \in 1 .. Len(c) : i = 1 \/ i = 2
            BY <5>3
          <6> QED
            BY <3>2, <5>3, <5>4, <6>1
        <5>6. Write(c)
          BY <1>2, <1>7, <2>5, <4>2, <5>1, <5>3
        <5>7. Len(c) <= 2 /\ Len(c) = 1 + Adds(second)
          BY <5>2, <5>3
        <5> QED
          BY <5>5, <5>6, <5>7
      <4> QED
        BY <4>1, <4>2
    <3>7. Len(b) <= space
      <4>1. Len(b) \in Nat /\ Len(b) <= 2
        BY <3>6, LenProperties
      <4>2. space \in Nat /\ space >= 2
        BY <1>1 DEF IInv, TypeOK
      <4> QED
        BY <4>1, <4>2
    <3>8. TextHolds'
      BY <2>3, <2>4, <2>7, <3>2, <3>6, <3>7, WroteText DEF IInv
    <3>9. Len(decoded') = T + 1 + Adds(second) /\ Len(decoded') \in Nat
          /\ Adds(second) \in Nat
      <4>1. Adds(second) \in Nat
        BY <2>1, AddsIs
      <4>2. Len(decoded') = T + Len(b)
        BY <2>3, <3>2, <3>6, <3>7, Wrote DEF IInv
      <4> QED
        BY <3>6, <4>1, <4>2
    <3>10. 8 * taken' - num_bits' = P + n + n2
      <4>1. 8 * taken' - num_bits' = 8 * tk - nb + u
        BY <1>5, <2>9
      <4>2. n \in Int /\ n2 \in Int /\ nb \in Int /\ tk \in Int /\ P \in Int
        OBVIOUS
      <4>3. u = n + n2 /\ 8 * tk - nb = P
        BY <2>2, <2>4
      <4>4. 8 * tk - nb + u = P + n + n2
        BY <4>2, <4>3
      <4> QED
        BY <4>1, <4>4
    <3>11. ASSUME second.op # "void" PROVE PlaceValid'
      <4>1. at' = k + 1
        BY <2>7, <2>8, <3>11
      <4>2. Len(decoded') = Len(Texts(stream.ops)[k])
            /\ Len(decoded') >= Len(Texts(stream.ops)[k])
        BY <3>4, <3>9
      <4> QED
        BY <2>6, <2>7, <3>5, <3>8, <3>9, <3>10, <4>1, <4>2, Arrived
    <3>12. ASSUME second.op = "void" PROVE PlaceValid'
      <4>1. at' = m + 1 /\ stream.ops[m + 1].op = "void"
        BY <2>6, <2>7, <2>8, <3>1, <3>12
      <4>2. Len(decoded') >= Len(Texts(stream.ops)[m])
        BY <3>2, <3>9
      <4>3. n2 = 0
        BY <2>1, <2>2, <3>12, OpIs
      <4>4. 8 * taken' - num_bits' = Positions(stream.ops)[m]
            /\ Positions(stream.ops)[m] \in Nat
        <5>1. P + n + n2 = P + n /\ P + n \in Nat
          BY <4>3
        <5> QED
          BY <3>3, <3>10, <5>1
      <4> QED
        BY <2>7, <3>8, <3>9, <4>1, <4>2, <4>4, Arrived
    <3>13. stream.zlib => k + 1 < N - 4
      <4> SUFFICES ASSUME stream.zlib PROVE k + 1 < N - 4
        OBVIOUS
      <4>1. m < N - 5
        BY <1>1, <2>3, BeforeChecksum DEF IInv
      <4>2. k # N - 5
        <5>1. FourBytes(stream.ops, N)
          <6>1. WellFormed(stream.ops, stream.zlib)
            BY <2>4, StreamIs
          <6>2. \A i \in 1 .. Len(stream.ops) :
                  /\ stream.ops[i].op = "done" <=> i = Len(stream.ops)
                  /\ stream.ops[i].op = "done" /\ stream.zlib => FourBytes(stream.ops, i)
            BY <6>1, Zenon DEF WellFormed
          <6>3. N \in 1..N
            BY <2>6
          <6> QED
            BY <2>3, <6>2, <6>3
        <5>2. stream.ops[N - 5].op = "align"
          BY <5>1, Zenon DEF FourBytes
        <5> QED
          BY <2>1, <2>6, <5>2 DEF Symbols, Literals
      <4> QED
        BY <3>1, <4>1, <4>2
    <3>14. WroteSome
      BY <3>6, <3>7 DEF WroteSome
    <3> QED
      BY <3>11, <3>12, <3>13, <3>14
  <2>11. ASSUME Op.op = "void"
         PROVE  /\ WroteSome /\ PlaceValid' /\ at' = m
                /\ stream.zlib => m < N - 5
    <3>1. k = m /\ second = Op
      BY <2>1, <2>3, <2>6, <2>11 DEF Op
    <3>2. n = 0 /\ n2 = 0
      <4>1. Op.bits = 0
        BY <2>11, AtIs, OpIs DEF IInv
      <4> QED
        BY <1>3, <2>2, <3>1, <4>1
    <3>3. PICK b \in Seq(Datum) : b = <<x, x>> /\ Len(b) = 2
      <4>1. <<x, x>> \in Seq(Datum) /\ Len(<<x, x>>) = 2
        OBVIOUS
      <4> QED
        BY <4>1
    <3>4. Write(b) /\ Len(b) <= space
      <4>1. Write(b)
        BY <1>2, <1>7, <2>5, <3>1, <3>3
      <4> QED
        BY <1>1, <3>3, <4>1 DEF IInv, TypeOK
    <3>5. stream.known \in Nat /\ stream.known <= L
      <4>1. stream.text[T + 1] = Unknown
        BY <2>4, <2>11 DEF AddedBehind, Text
      <4>2. stream.known \in Nat /\ stream.known <= T
        BY <2>4, <4>1, KnownBefore
      <4> QED
        BY <2>4, <4>2
    <3>6. TextHolds'
      <4>1. \A i \in 1 .. Len(b) : ~(Len(decoded) + i <= stream.known)
        BY <2>3, <3>3, <3>5
      <4> QED
        BY <2>4, <2>7, <3>4, <4>1, WroteText DEF IInv
    <3>7. Len(decoded') \in Nat /\ Len(decoded') >= T
      <4>1. Len(decoded') = L + (IF Over THEN 0 ELSE 2)
        BY <2>3, <3>3, <3>4, Wrote DEF IInv
      <4> QED
        BY <2>4, <4>1
    <3>8. PICK i \in Nat : i + 1 = m /\ i = at - 1
      BY <1>1, <2>3, Here
    <3>9. at' = i + 1 /\ stream.ops[i + 1].op = "void"
      BY <2>3, <2>6, <2>7, <2>8, <2>11, <3>1, <3>8 DEF Op
    <3>10. 8 * taken' - num_bits' = P
      <4>1. 8 * taken' - num_bits' = 8 * tk - nb + u /\ u = 0
        BY <1>5, <2>2, <2>9, <3>2
      <4> QED
        BY <2>4, <4>1
    <3>11. PlaceValid'
      BY <2>3, <2>7, <3>6, <3>7, <3>8, <3>9, <3>10, Arrived
    <3>12. stream.zlib => m < N - 5
      BY <1>1, <2>3, BeforeChecksum DEF IInv
    <3>13. WroteSome
      BY <3>3, <3>4 DEF WroteSome
    <3> QED
      BY <3>8, <3>9, <3>11, <3>12, <3>13
  <2>12. WroteSome /\ PlaceValid' /\ (stream.zlib => at' < N - 4)
    <3>1. at' \in {k, k + 1}
      BY <2>7, <2>8
    <3>2. CASE Op.op = "lit"
      BY <2>10, <3>1, <3>2
    <3>3. CASE Op.op = "void"
      BY <2>11, <3>3
    <3> QED
      BY <1>7, <3>2, <3>3 DEF Literals
  <2>13. taken' \in taken .. offered /\ num_bits' \in Nat /\ num_bits' <= 61
    BY <1>3, <1>5, <2>9
  <2>14. at' \in 1 .. Len(stream.ops) /\ left' \in Nat /\ lost' \in BOOLEAN
    <3>1. at' \in 1..N /\ left' \in Nat
      BY <2>6, <2>7, <2>8
    <3> QED
      BY <2>3, <2>7, <3>1 DEF IInv, TypeOK
  <2>15. BufferValid'
    <3>1. ~(stream.zlib /\ at' >= Len(stream.ops) - 4)
      BY <2>3, <2>12, <2>14
    <3> QED
      BY <1>1, <2>7, <2>13, <3>1 DEF BufferValid
  <2>16. Op.op # "done"
    BY <1>7 DEF Literals
  <2> QED
    BY <1>1, <2>7, <2>12, <2>13, <2>14, <2>15, <2>16, WorkKeeps
<1> QED
  BY <1>6, <1>7

-----------------------------------------------------------------------------
(* The bytes of a match: what repeats with a period is what was before.    *)
Repeats(t, L, d, n) == \A k \in 1..n : t[L + k] = t[L + k - d]

(* What a match copies repeats what is its distance before, however often  *)
(* it goes round.                                                          *)
LEMMA Periodic ==
  ASSUME NEW t, NEW L \in Nat, NEW d \in Nat \ {0}, NEW n \in Nat,
         Repeats(t, L, d, n)
  PROVE  \A k \in 1..n : t[L + k] = t[L - d + 1 + ((k - 1) % d)]
<1> DEFINE Good(k) == t[L + k] = t[L - d + 1 + ((k - 1) % d)]
<1>1. PICK T : T = {j \in Nat : \A k \in 1..n : k <= j => Good(k)}
  OBVIOUS
<1>2. 0 \in T
  BY <1>1
<1>3. ASSUME NEW j \in Nat, j \in T PROVE j + 1 \in T
  <2>1. \A k \in 1..n : k <= j => Good(k)
    BY <1>1, <1>3
  <2>2. ASSUME j + 1 <= n PROVE Good(j + 1)
    <3>1. PICK k \in 1..n : k = j + 1
      BY <2>2
    <3>2. t[L + k] = t[L + k - d]
      BY DEF Repeats
    <3>3. CASE k <= d
      <4>1. (k - 1) % d = k - 1
        <5>1. k - 1 \in 0 .. d - 1
          BY <3>3
        <5> QED
          BY <5>1, ModKeeps
      <4>2. L - d + 1 + (k - 1) = L + k - d
        OBVIOUS
      <4> QED
        BY <3>1, <3>2, <4>1, <4>2
    <3>4. CASE k > d
      <4>1. PICK i \in 1..n : i = k - d /\ i <= j
        BY <3>1, <3>4
      <4>2. t[L + i] = t[L - d + 1 + ((i - 1) % d)]
        BY <2>1, <4>1
      <4>3. (i - 1) % d = (k - 1) % d
        <5>1. i - 1 = (k - 1) - d /\ k - 1 \in Int
          BY <4>1
        <5> QED
          BY <5>1, ModLess
      <4>4. L + k - d = L + i
        BY <4>1
      <4> QED
        BY <3>1, <3>2, <4>2, <4>3, <4>4
    <3> QED
      BY <3>3, <3>4
  <2> HIDE DEF Good
  <2>3. \A k \in 1..n : k <= j + 1 => k <= j \/ k = j + 1
    OBVIOUS
  <2> QED
    BY <1>1, <2>1, <2>2, <2>3
<1>4. n \in T
  BY <1>2, <1>3, Induction
<1> HIDE DEF Good
<1>5. ASSUME NEW k \in 1..n PROVE Good(k)
  BY <1>1, <1>4
<1> QED
  BY <1>5 DEF Good

(* The bytes a match copies, from the window or the buffer, are those      *)
(* decoded its distance before.                                            *)
LEMMA CopiedIs ==
  ASSUME TypeOK, WindowValid, pc = "run", ~Over, Op.op = "copy", NEW n \in Nat,
         ~wrapping => Op.dist <= Len(decoded)
  PROVE  /\ Copied(n) \in Seq(Datum) /\ Len(Copied(n)) = n
         /\ Op.dist > 0 =>
              \A k \in 1..n :
                Len(decoded) - Op.dist + 1 + ((k - 1) % Op.dist) > 0 =>
                  Copied(n)[k] =
                    decoded[Len(decoded) - Op.dist + 1 + ((k - 1) % Op.dist)]
<1>1. PICK d \in Nat \ {0}, D \in Nat \ {0}, L \in Nat :
        /\ d = IF Op.dist = 0 THEN DictSize ELSE Op.dist
        /\ D = DictSize /\ L = Len(decoded) /\ d <= D /\ Op.dist \in Nat
  <2>1. Op.dist \in 0..DictSize /\ DictSize \in Nat \ {0}
    BY AtIs, OpIs, SizesAssumption
  <2>2. Len(decoded) \in Nat
    BY LenProperties DEF TypeOK
  <2>3. Op.dist \in Nat /\ Op.dist <= DictSize
    BY <2>1
  <2>4. PICK x : x = IF Op.dist = 0 THEN DictSize ELSE Op.dist
    OBVIOUS
  <2>5. x \in Nat \ {0} /\ x <= DictSize
    <3>1. CASE Op.dist = 0
      BY <2>1, <2>4, <3>1
    <3>2. CASE Op.dist # 0
      BY <2>3, <2>4, <3>2
    <3> QED
      BY <3>1, <3>2
  <2> QED
    BY <2>1, <2>2, <2>3, <2>4, <2>5
<1>2. PICK from : from = IF wrapping THEN dict_ofs + fresh ELSE L
  OBVIOUS
<1> DEFINE Source(r) == IF wrapping THEN dict[(from - d + r) % D]
                  ELSE IF Op.dist = 0 THEN Unknown
                  ELSE decoded[from - d + r + 1]
<1>3. ASSUME NEW r \in 0 .. d - 1
      PROVE  /\ Source(r) \in Datum
             /\ Op.dist # 0 /\ L - d + 1 + r > 0 => Source(r) = decoded[L - d + 1 + r]
  <2>3. CASE ~wrapping /\ Op.dist = 0
    BY <2>3, BytesAreData
  <2>1. CASE ~wrapping /\ Op.dist # 0
    <3>1. L - d + r + 1 \in 1..L /\ L - d + 1 + r = L - d + r + 1
      BY <1>1, <2>1
    <3>2. Source(r) = decoded[L - d + r + 1]
      BY <1>2, <2>1
    <3>3. decoded[L - d + r + 1] \in Datum
      BY <1>1, <3>1, ElementOfSeq DEF TypeOK
    <3> QED
      BY <3>1, <3>2, <3>3
  <2>2. CASE wrapping
    <3>1. Delivering
      BY <2>2 DEF WindowValid, Finishing, Finished
    <3>2. PICK g \in Nat, f \in Nat, o \in Nat :
            /\ g = Len(delivered) /\ f = fresh /\ o = dict_ofs /\ o = g % D /\ L = g + f
      <4>1. Len(delivered) \in Nat /\ fresh \in Nat /\ dict_ofs \in Nat
        BY LenProperties, SizesAssumption DEF TypeOK
      <4>2. dict_ofs = Len(delivered) % D /\ L = Len(delivered) + fresh
        BY <1>1, <3>1 DEF Delivering
      <4> QED
        BY <4>1, <4>2
    <3>3. PICK c \in Int, a \in Int : c = f - d + r /\ a = L - d + r
      OBVIOUS
    <3>4. from - d + r = o + c /\ g + c = a
      BY <1>2, <2>2, <3>2, <3>3
    <3>5. (o + c) % D = a % D
      <4>1. g \in Int
        OBVIOUS
      <4>2. ((g % D) + c) % D = (g + c) % D
        BY <4>1, ModOfSum, Zenon
      <4> QED
        BY <3>2, <3>4, <4>2
    <3>6. Source(r) = dict[a % D]
      BY <2>2, <3>4, <3>5
    <3>7. a % D \in 0 .. D - 1
      BY ModDecomposes
    <3>8. dict[a % D] \in Datum
      BY <1>1, <3>7 DEF TypeOK
    <3>9. ASSUME L - d + 1 + r > 0 PROVE dict[a % D] = decoded[L - d + 1 + r]
      <4>1. PICK x \in 1..L : x = L - d + 1 + r /\ x > L - D /\ x - 1 = a
        <5>1. r \in Nat /\ r <= d - 1
          OBVIOUS
        <5>2. d <= D
          BY <1>1
        <5>3. L - d + 1 + r \in 1..L /\ L - d + 1 + r > L - D
          BY <3>9, <5>1, <5>2
        <5>4. L - d + 1 + r - 1 = a
          BY <3>3, <5>1
        <5> QED
          BY <5>3, <5>4
      <4>2. dict[(x - 1) % D] = decoded[x]
        BY <1>1, <3>1, <4>1 DEF Delivering, InWindow
      <4> QED
        BY <4>1, <4>2
    <3> QED
      BY <3>6, <3>8, <3>9
  <2> QED
    BY <2>1, <2>2, <2>3
<1>4. PICK c : c = [k \in 1..n |-> Source((k - 1) % d)]
  OBVIOUS
<1>5. Copied(n) = c
  BY <1>1, <1>2, <1>4 DEF Copied
<1> HIDE DEF Source
<1>6. ASSUME NEW k \in 1..n PROVE (k - 1) % d \in 0 .. d - 1
  <2>1. k - 1 \in Int
    OBVIOUS
  <2> QED
    BY <2>1, ModDecomposes
<1>7. \A k \in 1..n : Source((k - 1) % d) \in Datum
  BY <1>3, <1>6
<1>8. c \in Seq(Datum) /\ Len(c) = n
  BY <1>4, <1>7
<1>9. Op.dist # 0 => \A k \in 1..n : L - d + 1 + ((k - 1) % d) > 0 =>
                                       c[k] = decoded[L - d + 1 + ((k - 1) % d)]
  BY <1>3, <1>4, <1>6
<1>10. Op.dist > 0 => Op.dist = d /\ Op.dist # 0
  BY <1>1
<1>11. L = Len(decoded)
  BY <1>1
<1> QED
  BY <1>5, <1>8, <1>9, <1>10, <1>11

(* So they are those of the text.                                          *)
LEMMA CopiedIsText ==
  ASSUME IInv, pc = "run", Op.op = "copy", ~lost, NEW n \in Nat,
         ~wrapping => Op.dist <= Len(decoded), Part + n <= Op.len, Part \in Nat
  PROVE  \A k \in 1..n :
           Len(decoded) + k <= stream.known => Copied(n)[k] = Text[Len(decoded) + k]
<1>1. PICK d \in Nat, l \in Nat \ {0}, L \in Nat, T \in Nat, p \in Nat :
        /\ d = Op.dist /\ l = Op.len /\ L = Len(decoded) /\ p = Part
        /\ T = Len(Texts(stream.ops)[at - 1]) /\ L = T + p /\ p + n <= l
  <2>1. Op.dist \in Nat /\ Op.len \in Nat \ {0}
    BY AtIs, OpIs, SizesAssumption DEF IInv
  <2>2. /\ Len(decoded) \in Nat /\ Len(Texts(stream.ops)[at - 1]) \in Nat
        /\ Len(decoded) = Len(Texts(stream.ops)[at - 1]) + Part
    BY Here
  <2> QED
    BY <2>1, <2>2
<1>2. PICK t : t = Text
  OBVIOUS
<1>3. PICK K \in Nat : K = stream.known /\ \A k \in 1..K : t[k] # Unknown
  <2>1. stream \in Streams
    BY Here
  <2>2. stream.known \in 0 .. Len(stream.text) /\ Len(stream.text) \in Nat
    BY <2>1, KnownIs, TextIs, LenProperties
  <2> QED
    BY <1>2, <2>1, <2>2, KnownIs DEF Text
<1>7. ASSUME d = 0, NEW k \in 1..n PROVE ~(L + k <= K)
  <2>1. PICK j \in 1..l : j = p + k /\ T + j = L + k /\ L + k >= 1
    <3>1. p + n <= l /\ L = T + p
      BY <1>1
    <3>2. p + k \in 1..l
      BY <3>1
    <3>3. T + (p + k) = L + k /\ L + k >= 1
      BY <3>1
    <3> QED
      BY <3>2, <3>3
  <2>2. t[T + j] = Unknown
    BY <1>1, <1>2, <1>7, Here DEF AddedBehind
  <2> QED
    BY <1>3, <2>1, <2>2
<1> SUFFICES ASSUME d # 0
             PROVE  \A k \in 1..n :
                      Len(decoded) + k <= stream.known =>
                        Copied(n)[k] = Text[Len(decoded) + k]
  BY <1>1, <1>3, <1>7
<1>4. PICK m \in Int : m = IF K - L <= n THEN K - L ELSE n
  <2>1. K - L \in Int /\ n \in Int
    OBVIOUS
  <2> QED
    BY <2>1
<1>5. ASSUME NEW k \in 1..m
      PROVE  t[L + k] = t[L + k - d] /\ L + k - d > 0
  <2>1. k \in Nat \ {0} /\ k <= n /\ L + k <= K
    BY <1>4
  <2>2. PICK j \in 1..l : j = p + k
    BY <1>1, <2>1
  <2>3. t[T + j] = IF d > 0 /\ T + j - d > 0 THEN t[T + j - d] ELSE Unknown
    BY <1>1, <1>2, Here DEF AddedBehind
  <2>4. T + j = L + k
    <3>1. L = T + p
      BY <1>1
    <3> QED
      BY <2>1, <2>2, <3>1
  <2>5. L + k \in 1..K
    BY <2>1
  <2>6. t[L + k] # Unknown
    BY <1>3, <2>5
  <2> QED
    BY <2>3, <2>4, <2>6
<1>6. ASSUME NEW k \in 1..n, L + k <= K PROVE Copied(n)[k] = t[L + k]
  <2>1. k \in 1..m /\ m \in Nat /\ k \in Nat
    BY <1>4, <1>6
  <2>2. Repeats(t, L, d, m)
    BY <1>5 DEF Repeats
  <2>3. t[L + k] = t[L - d + 1 + ((k - 1) % d)]
    <3>1. \A i \in 1..m : t[L + i] = t[L - d + 1 + ((i - 1) % d)]
      <4>1. m \in Nat /\ L \in Nat /\ d \in Nat \ {0}
        BY <2>1
      <4> QED
        BY <2>2, <4>1, Periodic
    <3> QED
      BY <2>1, <3>1
  <2>4. PICK r \in 0 .. d - 1 : r = (k - 1) % d
    <3>1. k - 1 \in Int
      OBVIOUS
    <3> QED
      BY <3>1, ModDecomposes
  <2>5. L - d + 1 > 0
    <3>1. 1 \in 1..m
      BY <2>1
    <3>2. L + 1 - d > 0
      BY <1>5, <3>1
    <3> QED
      BY <3>2
  <2>6. PICK x \in 1..L : x = L - d + 1 + r /\ x <= K
    <3>1. r \in Nat /\ r <= k - 1 /\ r <= d - 1
      <4>1. PICK q \in Int, s \in 0 .. d - 1 : s = (k - 1) % d /\ k - 1 = d * q + s
        <5>1. k - 1 \in Int
          OBVIOUS
        <5> QED
          BY <5>1, ModDecomposes
      <4>2. q >= 0
        <5> SUFFICES ASSUME q <= -1 PROVE FALSE
          BY <4>1
        <5>1. d * q <= -d
          OBVIOUS
        <5> QED
          BY <2>1, <4>1, <5>1
      <4>3. d * q >= 0
        BY <4>2
      <4> QED
        BY <2>1, <2>4, <4>1, <4>3
    <3>2. L - d + 1 + r \in 1..L /\ L - d + 1 + r <= K
      BY <1>6, <2>1, <2>5, <3>1
    <3> QED
      BY <3>2
  <2>7. Copied(n)[k] = decoded[x]
    <3>1. L - d + 1 + ((k - 1) % d) > 0 => Copied(n)[k] = decoded[L - d + 1 + ((k - 1) % d)]
      <4>1. ~Over
        BY Here
      <4>2. Op.dist > 0
        BY <1>1
      <4> QED
        BY <1>1, <4>1, <4>2, CopiedIs DEF IInv
    <3> QED
      BY <2>4, <2>6, <3>1
  <2>8. decoded[x] = t[x]
    BY <1>1, <1>2, <1>3, <2>6, Here DEF TextHolds
  <2> QED
    BY <2>3, <2>4, <2>6, <2>7, <2>8
<1> QED
  BY <1>1, <1>2, <1>3, <1>6

(* A match copied, in as many pieces as the room makes of it.              *)
LEMMA CopyMatchKeeps ==
  ASSUME IInv, CopyMatch
  PROVE  IInv'
<1> DEFINE togo == IF phase = "emit" THEN left ELSE Op.len
           n == Min({togo, space})
           far == phase = "read" /\ Op.dist > Len(decoded)
<1>1. /\ pc = "run" /\ Op.op = "copy" /\ ~lost /\ UNCHANGED <<outside, input>>
  BY DEF CopyMatch, Running
<1>2. /\ stream' = stream /\ wrapping' = wrapping /\ taken' = taken
      /\ num_bits' = num_bits
  BY <1>1 DEF outside, const, call, input
<1>3. PICK d \in Nat, l \in Nat \ {0}, L \in Nat, T \in Nat, p \in Nat,
           P \in Nat, m \in Nat \ {0} :
        /\ d = Op.dist /\ l = Op.len /\ L = Len(decoded) /\ p = Part /\ m = at
        /\ T = Len(Texts(stream.ops)[at - 1]) /\ P = Positions(stream.ops)[at - 1]
  <2>1. Op.dist \in Nat /\ Op.len \in Nat \ {0}
    BY <1>1, AtIs, OpIs, SizesAssumption DEF IInv
  <2>2. /\ Len(decoded) \in Nat /\ Len(Texts(stream.ops)[at - 1]) \in Nat
        /\ Positions(stream.ops)[at - 1] \in Nat /\ at \in Nat \ {0}
    BY <1>1, Here
  <2>3. Part \in Nat
    <3>1. CASE phase # "emit"
      BY <1>1, <3>1 DEF Part
    <3>2. CASE phase = "emit"
      <4>1. left \in Nat /\ left <= Op.len
        BY <1>1, <3>2 DEF IInv, TypeOK, PlaceValid, Literals
      <4>2. Part = Op.len - left
        BY <1>1, <3>2 DEF Part
      <4> QED
        BY <2>1, <4>1, <4>2
    <3> QED
      BY <3>1, <3>2
  <2> QED
    BY <2>1, <2>2, <2>3
<1>13. ~Over
  BY <1>1, Here
<1>4. L = T + p /\ Len(Texts(stream.ops)[m]) = T + l /\ Positions(stream.ops)[m] = P
  <2>1. Adds(Op) = l
    BY <1>1, <1>3, Zenon DEF Adds, Literals
  <2>2. Behind(P, Op) = P
    BY <1>1, Zenon DEF Behind, Coded, Symbols, Literals
  <2> QED
    BY <1>1, <1>3, <2>1, <2>2, Here
<1>5. PICK tg \in Nat, sp \in Nat : tg = togo /\ sp = space /\ tg = l - p
  <2>1. phase # "emit" => Part = 0
    BY <1>1 DEF Part
  <2>2. phase = "emit" => left \in Nat /\ left <= l /\ Part = l - left
    BY <1>1, <1>3 DEF IInv, TypeOK, PlaceValid, Part, Literals
  <2>3. togo \in Nat /\ togo = l - p
    BY <1>3, <2>1, <2>2
  <2>4. space \in Nat
    BY DEF IInv, TypeOK
  <2> QED
    BY <2>3, <2>4
<1>6. 8 * taken - num_bits = P /\ num_bits \in 0..61
  <2>1. 8 * taken - num_bits =
           Positions(stream.ops)[at - 1]
             + (IF phase = "emit" /\ Op.op \in Literals THEN Op.bits
                ELSE IF Op.op = "stored" THEN 8 * Part ELSE 0)
    BY <1>1 DEF IInv, PlaceValid
  <2>2. 8 * taken - num_bits = P + 0
    BY <1>1, <1>3, <2>1 DEF Literals
  <2> QED
    BY <1>1, <2>2, Here
<1>7. PICK j \in Nat : j = n /\ j <= tg /\ j <= sp
  BY <1>5, MinIs
<1>8. /\ m \in 1 .. Len(stream.ops) /\ m + 1 \in 1 .. Len(stream.ops)
      /\ stream.zlib => m < Len(stream.ops) - 5
      /\ Len(stream.ops) \in Nat
  <2>1. at # Len(stream.ops)
    BY <1>1, AtIs DEF IInv
  <2> QED
    BY <1>1, <1>3, <2>1, AtIs, BeforeChecksum DEF IInv
<1>9. taken' \in taken .. offered /\ num_bits' \in Nat
  <2>1. taken \in Nat /\ offered \in Nat /\ taken <= offered
    BY <1>1, Here
  <2> QED
    BY <1>2, <1>6, <2>1
<1>10. ASSUME at' \in {m, m + 1}, lost' = lost PROVE BufferValid'
  <2>1. num_bits' <= 61 /\ ~(stream.zlib /\ at' >= Len(stream.ops) - 4)
    BY <1>2, <1>6, <1>8, <1>10
  <2> QED
    BY <1>1, <1>2, <1>10, <2>1 DEF BufferValid
<1>11. CASE far /\ ~wrapping
  <2>1. pc' = "back" /\ ret' = "failed" /\ UNCHANGED <<written, place>>
    BY <1>11 DEF CopyMatch, Ret
  <2>2. at' = at /\ phase' = phase /\ left' = left /\ lost' = lost /\ decoded' = decoded
    BY <2>1 DEF place, written
  <2>3. Op' = Op /\ Part' = Part
    BY <1>2, <2>2 DEF Op, Part
  <2>4. PlaceValid'
    BY <1>2, <2>2, <2>3 DEF IInv, PlaceValid, Text, Astray
  <2>5. ~stream.whole
    <3> SUFFICES ASSUME stream.whole PROVE FALSE
      OBVIOUS
    <3>1. stream \in Streams
      BY <1>1, Here
    <3>2. \A k \in 1 .. Len(Text) : Text[k] # Unknown
      BY <3>1, StreamIs DEF Text
    <3>3. T + l <= Len(Text) /\ Len(Text) \in Nat
      BY <1>3, <1>4, <1>8, <3>1, TextIs, LenProperties DEF Text
    <3>4. p = 0 /\ d > T
      <4>1. p = 0
        BY <1>3, <1>11 DEF Part
      <4> QED
        BY <1>3, <1>4, <1>11, <4>1
    <3>5. Text[T + 1] = Unknown
      <4>1. \A k \in 1..l : Text[T + k] = IF d > 0 /\ T + k - d > 0
                                            THEN Text[T + k - d] ELSE Unknown
        BY <1>1, <1>3, Here DEF AddedBehind
      <4>2. 1 \in 1..l /\ ~(T + 1 - d > 0)
        BY <3>4
      <4> QED
        BY <4>1, <4>2
    <3>6. T + 1 \in 1 .. Len(Text)
      BY <3>3
    <3> QED
      BY <3>2, <3>5, <3>6
  <2>6. /\ at' \in 1 .. Len(stream.ops) /\ left' \in Nat
        /\ phase' \in {"read", "fill", "emit"} /\ lost' \in BOOLEAN
    BY <1>3, <1>8, <2>2 DEF IInv, TypeOK
  <2>7. BufferValid'
    BY <1>3, <1>10, <2>2
  <2> QED
    BY <1>1, <1>9, <2>1, <2>4, <2>5, <2>6, <2>7, WorkKeeps
<1>12. CASE ~(far /\ ~wrapping)
  <2>1. /\ Write(Copied(n)) /\ lost' = lost
        /\ n = togo => Advance /\ UNCHANGED <<pc, ret>>
        /\ n # togo => /\ pc' = "back" /\ ret' = "has_more" /\ left' = togo - n
                       /\ phase' = "emit" /\ at' = at
    <3>1. Write(Copied(n)) /\ lost' = lost
      BY <1>12 DEF CopyMatch
    <3>2. n = togo => Advance /\ UNCHANGED <<pc, ret>>
      BY <1>12 DEF CopyMatch, Go
    <3>3. n # togo => /\ pc' = "back" /\ ret' = "has_more" /\ left' = togo - n
                      /\ phase' = "emit" /\ at' = at
      BY <1>12 DEF CopyMatch, Ret
    <3> QED
      BY <3>1, <3>2, <3>3
  <2> HIDE DEF n, togo
  <2>2. ~wrapping => Op.dist <= Len(decoded)
    <3>1. phase = "read" \/ phase = "emit"
      BY <1>1 DEF IInv, TypeOK, PlaceValid, Coded, Symbols, Literals
    <3>2. CASE phase = "read"
      BY <1>3, <1>12, <3>2
    <3>3. CASE phase = "emit"
      BY <1>1, <3>3 DEF IInv, PlaceValid
    <3> QED
      BY <3>1, <3>2, <3>3
  <2>3. PICK b \in Seq(Datum) : b = Copied(j) /\ Len(b) = j /\ Write(b) /\ Len(b) <= space
    <3>1. Copied(j) \in Seq(Datum) /\ Len(Copied(j)) = j
      BY <1>1, <1>13, <2>2, CopiedIs DEF IInv
    <3>2. Write(Copied(j)) /\ j <= space
      BY <1>5, <1>7, <2>1
    <3> QED
      BY <3>1, <3>2
  <2>4. \A k \in 1 .. Len(b) :
          Len(decoded) + k <= stream.known => b[k] = Text[Len(decoded) + k]
    <3>1. Part + j <= Op.len /\ Part \in Nat
      BY <1>3, <1>5, <1>7
    <3> QED
      BY <1>1, <2>2, <2>3, <3>1, CopiedIsText
  <2>5. TextHolds'
    <3>1. TextHolds
      BY <1>1, Here
    <3> QED
      BY <1>2, <2>3, <2>4, <3>1, WroteText DEF IInv
  <2>6. Len(decoded') = L + j
    BY <1>3, <1>13, <2>3, Wrote DEF IInv
  <2>7. WroteSome
    BY <2>3 DEF WroteSome
  <2>8. CASE j = tg
    <3>1. /\ at' = m + 1 /\ phase' = "read" /\ left' = 0 /\ pc' = "run" /\ ret' = ret
      BY <1>1, <1>3, <1>5, <1>7, <2>1, <2>8 DEF Advance, Proceed
    <3>2. /\ Len(decoded') = Len(Texts(stream.ops)[m]) /\ Len(decoded') \in Nat
          /\ Len(decoded') >= Len(Texts(stream.ops)[m])
      BY <1>4, <1>5, <2>6, <2>8
    <3>3. 8 * taken' - num_bits' = Positions(stream.ops)[m] /\ Positions(stream.ops)[m] \in Nat
      BY <1>2, <1>4, <1>6
    <3>4. PlaceValid'
      BY <1>2, <2>5, <3>1, <3>2, <3>3, Arrived
    <3>5. BufferValid'
      BY <1>10, <2>1, <3>1
    <3>6. at' \in 1 .. Len(stream.ops) /\ lost' \in BOOLEAN
      BY <1>8, <2>1, <3>1 DEF IInv, TypeOK
    <3> QED
      BY <1>1, <1>9, <2>7, <3>1, <3>4, <3>5, <3>6, WorkKeeps
  <2>9. CASE j # tg
    <3>1. /\ pc' = "back" /\ ret' = "has_more" /\ left' = tg - j
          /\ phase' = "emit" /\ at' = m
      BY <1>3, <1>5, <1>7, <2>1, <2>9
    <3>2. Op' = Op
      BY <1>2, <1>3, <3>1 DEF Op
    <3>3. left' \in Nat /\ left' <= l
      <4>1. tg = l - p /\ j <= tg
        BY <1>5, <1>7
      <4> QED
        BY <3>1, <4>1
    <3>4. Part' = p + j
      <4>1. Part' = l - left'
        BY <1>1, <1>3, <3>1, <3>2 DEF Part
      <4> QED
        BY <1>5, <1>7, <3>1, <4>1
    <3>5. Len(decoded') = T + Part' /\ Len(decoded') >= T
      BY <1>4, <2>6, <3>4
    <3>6. ~wrapping' => Op.dist <= Len(decoded')
      BY <1>2, <1>3, <2>2, <2>6
    <3>7. 8 * taken' - num_bits' = P + 0
      BY <1>2, <1>6
    <3>8. PlaceValid'
      BY <1>1, <1>2, <1>3, <2>5, <3>1, <3>2, <3>3, <3>5, <3>6, <3>7 DEF PlaceValid, TextHolds, Astray, Literals
    <3>9. BufferValid'
      BY <1>10, <2>1, <3>1
    <3>10. at' \in 1 .. Len(stream.ops) /\ lost' \in BOOLEAN
      BY <1>8, <2>1, <3>1 DEF IInv, TypeOK
    <3> QED
      BY <1>1, <1>9, <2>7, <3>1, <3>3, <3>8, <3>9, <3>10, WorkKeeps
  <2> QED
    BY <2>8, <2>9
<1> QED
  BY <1>11, <1>12

(* Stored bytes, from the bit buffer and the input.                        *)
LEMMA CopyStoredKeeps ==
  ASSUME IInv, CopyStored
  PROVE  IInv'
<1> DEFINE all == Len(Op.bytes)
           togo == IF phase = "emit" THEN left ELSE all
           n == IF num_bits > 0 THEN Min({1, space}) ELSE Min({togo, space, avail})
<1>1. /\ pc = "run" /\ Op.op = "stored" /\ ~lost /\ UNCHANGED outside
  BY DEF CopyStored, Running
<1>2. /\ stream' = stream /\ wrapping' = wrapping /\ offered' = offered /\ more' = more
  BY <1>1 DEF outside, const, call
<1>3. PICK bytes \in Seq(Datum), l \in Nat, L \in Nat, T \in Nat, p \in Nat, P \in Nat,
           m \in Nat \ {0}, nb \in 0..61, tk \in Nat, of \in Nat :
        /\ bytes = Op.bytes /\ l = Len(bytes) /\ L = Len(decoded) /\ p = Part /\ m = at
        /\ T = Len(Texts(stream.ops)[at - 1]) /\ P = Positions(stream.ops)[at - 1]
        /\ nb = num_bits /\ tk = taken /\ of = offered /\ tk <= of
  <2>1. Op.bytes \in Seq(Datum) /\ Len(Op.bytes) \in Nat
    <3>1. Op.bytes \in Seq(Byte)
      BY <1>1, AtIs, OpIs DEF IInv
    <3> QED
      BY <3>1, BytesAreData, LenProperties
  <2>2. /\ Len(decoded) \in Nat /\ Len(Texts(stream.ops)[at - 1]) \in Nat
        /\ Positions(stream.ops)[at - 1] \in Nat /\ at \in Nat \ {0}
        /\ num_bits \in 0..61 /\ taken \in Nat /\ offered \in Nat /\ taken <= offered
    BY <1>1, Here
  <2>3. Part \in Nat
    <3>1. CASE phase # "emit"
      BY <1>1, <3>1 DEF Part
    <3>2. CASE phase = "emit"
      <4>1. left \in Nat /\ left <= Len(Op.bytes)
        BY <1>1, <3>2 DEF IInv, TypeOK, PlaceValid, Literals
      <4>2. Part = Len(Op.bytes) - left
        BY <1>1, <3>2, Zenon DEF Part
      <4> QED
        BY <2>1, <4>1, <4>2
    <3> QED
      BY <3>1, <3>2
  <2> QED
    BY <2>1, <2>2, <2>3
<1>13. ~Over
  BY <1>1, Here
<1>4. /\ L = T + p /\ Len(Texts(stream.ops)[m]) = T + l
      /\ Positions(stream.ops)[m] = P + 8 * l
  <2>1. Adds(Op) = l
    BY <1>1, <1>3, Zenon DEF Adds, Literals
  <2>2. Behind(P, Op) = P + 8 * l
    BY <1>1, <1>3, Zenon DEF Behind, Coded, Symbols, Literals
  <2> QED
    BY <1>1, <1>3, <2>1, <2>2, Here
<1>5. PICK tg \in Nat, sp \in Nat, av \in Nat :
        tg = togo /\ sp = space /\ av = avail /\ tg = l - p /\ av = of - tk
  <2>1. phase # "emit" => Part = 0
    BY <1>1 DEF Part
  <2>2. phase = "emit" => left \in Nat /\ left <= l /\ Part = l - left
    <3> SUFFICES ASSUME phase = "emit" PROVE left \in Nat /\ left <= l /\ Part = l - left
      OBVIOUS
    <3>1. left \in Nat /\ left <= Len(Op.bytes)
      BY <1>1 DEF IInv, TypeOK, PlaceValid, Literals
    <3>2. Part = Len(Op.bytes) - left
      BY <1>1, Zenon DEF Part
    <3> QED
      BY <1>3, <3>1, <3>2
  <2>3. togo \in Nat /\ togo = l - p
    BY <1>3, <2>1, <2>2
  <2>4. space \in Nat
    BY DEF IInv, TypeOK
  <2>5. avail \in Nat /\ avail = of - tk
    BY <1>3 DEF avail
  <2> QED
    BY <2>3, <2>4, <2>5
<1>6. 8 * tk - nb = P + 8 * p
  <2>1. 8 * taken - num_bits =
           Positions(stream.ops)[at - 1]
             + (IF phase = "emit" /\ Op.op \in Literals THEN Op.bits
                ELSE IF Op.op = "stored" THEN 8 * Part ELSE 0)
    BY <1>1 DEF IInv, PlaceValid
  <2> QED
    BY <1>1, <1>3, <2>1 DEF Literals
<1>7. nb > 0 => nb >= 8
  <2>1. P % 8 = 0
    BY <1>1, <1>3, StoredIsAligned DEF IInv
  <2>2. PICK q \in Int, r \in 0..7 : r = P % 8 /\ P = 8 * q + r
    <3>1. P \in Int /\ 8 \in Nat \ {0} /\ 8 - 1 = 7
      OBVIOUS
    <3>2. P \div 8 \in Int /\ P % 8 \in 0 .. 8 - 1 /\ P = 8 * (P \div 8) + (P % 8)
      BY <3>1, ModDecomposes, Zenon
    <3> QED
      BY <3>1, <3>2
  <2>3. nb = 8 * (tk - p - q)
    BY <1>6, <2>1, <2>2
  <2> QED
    BY <2>3
<1>8. PICK j \in Nat : /\ j = n /\ j <= sp
                       /\ nb > 0 => j <= 1 /\ (sp > 0 => j = 1)
                       /\ nb = 0 => /\ j <= tg /\ j <= av
                                    /\ j = 0 => tg = 0 \/ sp = 0 \/ av = 0
  <2>1. CASE nb > 0
    <3>1. n = Min({1, sp})
      BY <1>3, <1>5, <2>1
    <3> QED
      BY <2>1, <3>1, MinIs
  <2>2. CASE nb = 0
    <3>1. n = Min({tg, sp, av})
      BY <1>3, <1>5, <2>2
    <3>2. Min({tg, sp, av}) \in {tg, sp, av} /\ Min({tg, sp, av}) <= tg
          /\ Min({tg, sp, av}) <= sp /\ Min({tg, sp, av}) <= av
      <4>1. tg \in Int /\ sp \in Int /\ av \in Int
        OBVIOUS
      <4> QED
        BY <4>1, MinOfThree, Zenon
    <3> HIDE DEF n
    <3>3. PICK j \in Nat : j = Min({tg, sp, av}) /\ j \in {tg, sp, av}
      BY <3>2
    <3>4. j = n /\ j <= tg /\ j <= sp /\ j <= av
      BY <3>1, <3>2, <3>3
    <3>5. j = 0 => tg = 0 \/ sp = 0 \/ av = 0
      BY <3>3
    <3> QED
      BY <2>2, <3>4, <3>5
  <2>3. nb > 0 \/ nb = 0
    OBVIOUS
  <2> HIDE DEF n
  <2> QED
    BY <2>1, <2>2, <2>3
<1>9. /\ m \in 1 .. Len(stream.ops) /\ m + 1 \in 1 .. Len(stream.ops)
      /\ stream.zlib => m < Len(stream.ops) - 5
      /\ Len(stream.ops) \in Nat
  <2>1. at # Len(stream.ops)
    BY <1>1, AtIs DEF IInv
  <2> QED
    BY <1>1, <1>3, <2>1, AtIs, BeforeChecksum DEF IInv
<1>10. ASSUME at' \in {m, m + 1}, lost' = lost, num_bits' \in 0..61 PROVE BufferValid'
  <2>1. num_bits' <= 61
    BY <1>10
  <2>2. ~(stream.zlib /\ at' >= Len(stream.ops) - 4)
    BY <1>9, <1>10
  <2>3. ~lost'
    BY <1>1, <1>10
  <2> QED
    BY <1>2, <2>1, <2>2, <2>3 DEF BufferValid
<1>11. CASE tg = 0
  <2>1. Advance /\ UNCHANGED <<pc, ret>> /\ UNCHANGED written /\ UNCHANGED input
        /\ lost' = lost
    BY <1>5, <1>11 DEF CopyStored, Go
  <2>2. /\ at' = m + 1 /\ phase' = "read" /\ left' = 0 /\ pc' = "run" /\ ret' = ret
        /\ taken' = tk /\ num_bits' = nb /\ decoded' = decoded
    BY <1>1, <1>3, <2>1 DEF Advance, Proceed, input, written
  <2>3. PlaceValid'
    <3>1. TextHolds'
      BY <1>1, <1>2, <2>2, Here, TextKept
    <3>2. /\ Len(decoded') = Len(Texts(stream.ops)[m]) /\ Len(decoded') \in Nat
          /\ Len(decoded') >= Len(Texts(stream.ops)[m])
      <4>1. L = T + l /\ decoded' = decoded
        <5>1. L = T + p
          BY <1>4
        <5>2. p = l
          BY <1>5, <1>11
        <5> QED
          BY <2>2, <5>1, <5>2
      <4>2. Len(decoded) = L
        BY <1>3
      <4> QED
        BY <1>4, <4>1, <4>2
    <3>3. 8 * taken' - num_bits' = Positions(stream.ops)[m] /\ Positions(stream.ops)[m] \in Nat
      BY <1>4, <1>5, <1>6, <1>11, <2>2
    <3> QED
      BY <1>2, <2>2, <3>1, <3>2, <3>3, Arrived
  <2>4. BufferValid'
    BY <1>10, <2>1, <2>2
  <2>5. /\ at' \in 1 .. Len(stream.ops) /\ lost' \in BOOLEAN /\ taken' \in taken .. offered
        /\ num_bits' \in Nat
    BY <1>3, <1>9, <2>1, <2>2 DEF IInv, TypeOK
  <2> QED
    BY <1>1, <2>1, <2>2, <2>3, <2>4, <2>5, WorkKeeps
<1>12. CASE tg # 0
  <2>1. /\ nb > 0 => num_bits' = nb - 8 * j /\ taken' = tk
        /\ nb = 0 => taken' = tk + j /\ num_bits' = nb
        /\ Write(SubSeq(bytes, l - tg + 1, l - tg + j))
        /\ left' = tg - j /\ phase' = "emit" /\ at' = at /\ lost' = lost
        /\ j > 0 => UNCHANGED <<pc, ret>>
        /\ j = 0 /\ sp = 0 => pc' = "back" /\ ret' = "has_more"
        /\ j = 0 /\ sp # 0 => /\ pc' = "back"
                              /\ ret' = IF more THEN "needs_more" ELSE "failed"
    <3>1. togo # 0
      BY <1>5, <1>12
    <3>2. /\ IF num_bits > 0 THEN num_bits' = num_bits - 8 * n /\ UNCHANGED taken
             ELSE taken' = taken + n /\ UNCHANGED num_bits
          /\ Write(SubSeq(Op.bytes, all - togo + 1, all - togo + n))
          /\ left' = togo - n /\ phase' = "emit" /\ UNCHANGED <<at, lost>>
          /\ IF n > 0 THEN UNCHANGED <<pc, ret>>
             ELSE IF space = 0 THEN pc' = "back" /\ ret' = "has_more"
             ELSE pc' = "back" /\ ret' = IF more THEN "needs_more" ELSE "failed"
      BY <3>1, Zenon DEF CopyStored, Go, Ret
    <3> HIDE DEF n, togo
    <3>3. num_bits = nb /\ n = j /\ togo = tg /\ all = l /\ Op.bytes = bytes /\ space = sp
          /\ taken = tk
      BY <1>3, <1>5, <1>8
    <3>4. /\ nb > 0 => num_bits' = nb - 8 * j /\ taken' = tk
          /\ nb = 0 => taken' = tk + j /\ num_bits' = nb
      BY <3>2, <3>3
    <3>5. /\ Write(SubSeq(bytes, l - tg + 1, l - tg + j))
          /\ left' = tg - j /\ phase' = "emit" /\ at' = at /\ lost' = lost
      BY <3>2, <3>3
    <3>6. /\ j > 0 => UNCHANGED <<pc, ret>>
          /\ j = 0 /\ sp = 0 => pc' = "back" /\ ret' = "has_more"
          /\ j = 0 /\ sp # 0 => /\ pc' = "back"
                                /\ ret' = IF more THEN "needs_more" ELSE "failed"
      BY <3>2, <3>3
    <3> QED
      BY <3>4, <3>5, <3>6
  <2>2. j <= tg
    BY <1>8, <1>12
  <2>3. PICK b \in Seq(Datum) :
          /\ b = SubSeq(bytes, l - tg + 1, l - tg + j) /\ Len(b) = j
          /\ \A k \in 1..j : b[k] = bytes[p + k]
    <3>1. l - tg = p /\ p + j <= l
      BY <1>5, <2>2
    <3>2. PICK b : b = SubSeq(bytes, p + 1, p + j)
      OBVIOUS
    <3>3. \A k \in 1..j : p + k \in 1..l /\ bytes[p + k] \in Datum
      <4>1. \A k \in 1..j : p + k \in 1..l
        BY <3>1
      <4> QED
        BY <1>3, <4>1, ElementOfSeq
    <3>4. b = [k \in 1..j |-> bytes[p + k]]
      <4>1. (p + j) - (p + 1) + 1 = j
        OBVIOUS
      <4>2. \A k \in 1..j : (p + 1) + k - 1 = p + k
        OBVIOUS
      <4> QED
        BY <3>2, <4>1, <4>2
    <3>5. b \in Seq(Datum) /\ Len(b) = j
      <4>1. \A k \in 1..j : bytes[p + k] \in Datum
        BY <3>3
      <4> QED
        BY <3>4, <4>1
    <3> QED
      BY <3>1, <3>2, <3>4, <3>5
  <2>4. Write(b) /\ Len(b) <= space
    BY <1>5, <1>8, <2>1, <2>3
  <2>5. TextHolds'
    <3>1. TextHolds
      BY <1>1, Here
    <3>2. \A k \in 1 .. Len(b) : b[k] = Text[Len(decoded) + k]
      <4>1. \A k \in 1..l : Text[T + k] = bytes[k]
        BY <1>1, <1>3, Here DEF AddedBehind
      <4>2. ASSUME NEW k \in 1..j PROVE b[k] = Text[L + k]
        <5>1. p + k \in 1..l /\ T + (p + k) = L + k
          BY <1>4, <1>5, <2>2
        <5> QED
          BY <2>3, <4>1, <5>1
      <4> QED
        BY <1>3, <2>3, <4>2
    <3> QED
      BY <1>2, <2>4, <3>1, <3>2, WroteText DEF IInv
  <2>6. Len(decoded') = L + j
    BY <1>3, <1>13, <2>3, <2>4, Wrote DEF IInv
  <2>7. WroteSome
    BY <2>4 DEF WroteSome
  <2>8. /\ taken' \in tk..of /\ num_bits' \in 0..61
        /\ 8 * taken' - num_bits' = 8 * tk - nb + 8 * j
    <3>1. CASE nb > 0
      <4>1. 8 * j <= nb
        BY <1>7, <1>8, <3>1
      <4> QED
        BY <1>3, <2>1, <3>1, <4>1
    <3>2. CASE nb = 0
      <4>1. j <= of - tk
        BY <1>5, <1>8, <3>2
      <4> QED
        BY <2>1, <3>2, <4>1
    <3> QED
      BY <3>1, <3>2
  <2>9. Op' = Op
    BY <1>2, <2>1 DEF Op
  <2>10. left' \in Nat /\ left' <= l
    <3>1. tg <= l
      BY <1>5
    <3> QED
      BY <2>1, <2>2, <3>1
  <2>11. Part' = p + j
    <3>1. Part' = l - left'
      BY <1>1, <1>3, <2>1, <2>9, Zenon DEF Part
    <3>2. tg = l - p
      BY <1>5
    <3> QED
      BY <2>1, <3>1, <3>2
  <2>12. PlaceValid'
    <3>1. Len(decoded') = T + Part' /\ Len(decoded') >= T
      BY <1>4, <2>6, <2>11
    <3>2. 8 * taken' - num_bits' = P + 8 * Part'
      <4>1. 8 * taken' - num_bits' = 8 * tk - nb + 8 * j
        BY <2>8
      <4>2. 8 * tk - nb + 8 * j = P + 8 * (p + j)
        BY <1>6
      <4> QED
        BY <2>11, <4>1, <4>2
    <3> QED
      BY <1>1, <1>2, <1>3, <2>1, <2>5, <2>9, <2>10, <3>1, <3>2 DEF PlaceValid, TextHolds, Astray, Literals
  <2>13. BufferValid'
    BY <1>3, <1>10, <2>1, <2>8
  <2>14. pc' = "back" /\ ret' = "failed" /\ stream.whole => offered < stream.size
    <3> SUFFICES ASSUME pc' = "back", ret' = "failed", stream.whole
                 PROVE  offered < stream.size
      OBVIOUS
    <3>1. j = 0 /\ sp # 0
      BY <1>1, <2>1
    <3>2. nb = 0 /\ of = tk
      <4>1. nb = 0
        BY <1>8, <3>1
      <4>2. av = 0
        BY <1>8, <1>12, <3>1, <4>1
      <4>3. av = of - tk
        BY <1>5
      <4> QED
        BY <4>1, <4>2, <4>3
    <3>3. p < l
      BY <1>5, <1>12
    <3>4. stream \in Streams
      BY <1>1, Here
    <3>5. PICK e \in Nat : e = Positions(stream.ops)[Len(stream.ops)] /\ P + 8 * l <= e
      <4>1. Len(stream.ops) \in 1 .. Len(stream.ops)
        BY <1>9
      <4>2. /\ Positions(stream.ops)[Len(stream.ops)] \in Nat
            /\ Positions(stream.ops)[m] <= Positions(stream.ops)[Len(stream.ops)]
        BY <1>9, <3>4, <4>1, PositionsAre
      <4> QED
        BY <1>4, <4>2
    <3>6. (e + 7) \div 8 <= stream.size /\ stream.size \in Nat
      BY <3>4, <3>5, StreamIs DEF SizeOf
    <3>7. PICK x \in Nat : x = e + 7
      OBVIOUS
    <3>8. PICK q \in Int, r \in 0..7 : q = x \div 8 /\ x = 8 * q + r
      BY ModDecomposes
    <3>9. PICK s \in Nat : s = stream.size /\ q <= s
      BY <3>6, <3>7, <3>8
    <3>10. 8 * of = P + 8 * p
      BY <1>6, <3>2
    <3>11. 8 * of < 8 * s
      <4>1. P + 8 * l <= e
        BY <3>5
      <4>2. e + 7 = 8 * q + r
        BY <3>7, <3>8
      <4>3. q <= s /\ r <= 7
        BY <3>9
      <4> QED
        BY <3>3, <3>10, <4>1, <4>2, <4>3
    <3> QED
      BY <1>3, <3>9, <3>11
  <2>15. \/ pc' = "run" /\ ret' = ret
         \/ pc' = "back" /\ ret' \in {"needs_more", "has_more", "failed"}
    BY <1>1, <2>1
  <2>16. /\ at' \in 1 .. Len(stream.ops) /\ lost' \in BOOLEAN
         /\ taken' \in taken .. offered /\ num_bits' \in Nat
    BY <1>3, <1>9, <2>1, <2>8 DEF IInv, TypeOK
  <2> QED
    BY <1>1, <2>1, <2>7, <2>10, <2>12, <2>13, <2>14, <2>15, <2>16, WorkKeeps
<1> QED
  BY <1>11, <1>12

(* A refusal changes nothing else.                                         *)
LEMMA FailKeeps ==
  ASSUME IInv, Fail
  PROVE  IInv'
<1>1. /\ pc = "run" /\ Op.op = "fail" /\ ~lost /\ pc' = "back" /\ ret' = "failed"
      /\ UNCHANGED <<outside, written, place, input>>
  BY DEF Fail, Running, Ret
<1>2. /\ stream' = stream /\ wrapping' = wrapping /\ taken' = taken
      /\ num_bits' = num_bits /\ at' = at /\ phase' = phase /\ left' = left
      /\ lost' = lost /\ decoded' = decoded
  BY <1>1 DEF outside, const, call, input, place, written
<1>3. Op' = Op /\ Part' = Part
  BY <1>2 DEF Op, Part
<1>4. PlaceValid' /\ BufferValid'
  BY <1>2, <1>3 DEF IInv, PlaceValid, BufferValid, Text, Astray
<1>5. ~stream.whole
  <2>1. stream \in Streams /\ at \in 1 .. Len(stream.ops)
    BY AtIs DEF IInv
  <2> QED
    BY <1>1, <2>1, StreamIs DEF Op, Sound
<1>6. /\ num_bits' \in Nat /\ at' \in 1 .. Len(stream.ops) /\ left' \in Nat
      /\ phase' \in {"read", "fill", "emit"} /\ lost' \in BOOLEAN
      /\ taken' \in taken .. offered
  <2>1. taken \in Nat /\ offered \in Nat /\ taken <= offered
    BY <1>1, Here
  <2> QED
    BY <1>2, <2>1, AtIs DEF IInv, TypeOK
<1> QED
  BY <1>1, <1>4, <1>5, <1>6, WorkKeeps

(* What was decoded of a whole stream when its end is reached is its text. *)
LEMMA EndIsText ==
  ASSUME IInv, ~lost, Op.op = "done", stream.whole
  PROVE  decoded = Text
<1>1. stream \in Streams /\ at = Len(stream.ops)
  BY AtIs DEF IInv
<1>2. Adds(Op) = 0 /\ Part = 0
  BY DEF Adds, Part, Literals
<1>3. PICK t \in Seq(Datum) : t = Text
  BY <1>1, TextIs DEF Text
<1>4. Len(decoded) = Len(t) /\ Len(t) \in Nat
  <2>1. Len(decoded) = Len(Texts(stream.ops)[at]) /\ Len(decoded) \in Nat
    BY <1>2, Here
  <2>2. Len(Texts(stream.ops)[Len(stream.ops)]) = Len(t)
    BY <1>1, <1>3, TextIs DEF Text
  <2> QED
    BY <1>1, <2>1, <2>2
<1>5. stream.known = Len(t)
  <2>1. \A k \in 1 .. Len(stream.text) : stream.text[k] # Unknown
    BY <1>1, StreamIs
  <2> QED
    BY <1>1, <1>3, <2>1, KnownIs DEF Text
<1>6. \A k \in 1 .. Len(t) : decoded[k] = t[k]
  BY <1>3, <1>4, <1>5, Here DEF TextHolds
<1>7. decoded \in Seq(Datum)
  BY DEF IInv, TypeOK
<1> QED
  BY <1>3, <1>4, <1>6, <1>7, SeqEqual

(* The end: the checksum compared is that of the text.                     *)
LEMMA DoneKeeps ==
  ASSUME IInv, Done
  PROVE  IInv'
<1>1. /\ pc = "run" /\ Op.op = "done" /\ pc' = "back"
      /\ UNCHANGED <<outside, written, place, input>>
      /\ \/ (~stream.zlib \/ decoded = Text) /\ ret' = "done"
         \/ stream.zlib /\ (lost \/ ~stream.whole \/ decoded # Text)
            /\ ret' = "mismatch"
  BY DEF Done, Ret
<1>2. /\ stream' = stream /\ caller' = caller /\ offered' = offered /\ room' = room
      /\ flush' = flush /\ no_input' = no_input /\ wrapping' = wrapping /\ more' = more
      /\ first_call' = first_call /\ has_flushed' = has_flushed
      /\ last_status' = last_status /\ dict_ofs' = dict_ofs /\ dict_avail' = dict_avail
      /\ capacity' = capacity /\ delivered' = delivered /\ status' = status
      /\ taken' = taken /\ num_bits' = num_bits /\ at' = at /\ phase' = phase
      /\ left' = left /\ lost' = lost
      /\ dict' = dict /\ space' = space /\ fresh' = fresh /\ decoded' = decoded
  BY <1>1 DEF outside, const, call, flags, window, input, place, written
<1>3. Op' = Op /\ Part' = Part /\ Text' = Text
  BY <1>2 DEF Op, Part, Text
<1>8. Over' = Over
  BY <1>2, <1>3 DEF Over
<1>4. TypeOK'
  BY <1>1, <1>2 DEF IInv, TypeOK
<1>5. PlaceValid' /\ BufferValid'
  BY <1>2, <1>3 DEF IInv, PlaceValid, BufferValid, Astray
<1>6. WindowValid'
  <2>1. Delivering => Delivering'
    BY <1>1, <1>2, <1>8 DEF Delivering, InWindow
  <2>2. Finishing => Finishing'
    BY <1>1, <1>2 DEF Finishing
  <2>3. Finished => Finished'
    BY <1>1, <1>2, <1>3 DEF Finished
  <2> QED
    BY <1>1, <1>2, <2>1, <2>2, <2>3 DEF IInv, WindowValid
<1>7. ReturnsValid'
  <2>1. EndOf(ret)'
    BY <1>1, <1>2, <1>3 DEF EndOf
  <2>2. EndOf(last_status)'
    BY <1>2, <1>3 DEF EndOf, IInv, ReturnsValid
  <2>3. Bad(ret') /\ stream.whole => lost
    BY <1>1, EndIsText DEF Bad
  <2> QED
    BY <1>1, <1>2, <1>3, <1>8, <2>1, <2>2, <2>3 DEF IInv, ReturnsValid
<1> QED
  BY <1>4, <1>5, <1>6, <1>7 DEF IInv

(* From the zeros behind a truncated input nothing is said of the text.    *)
LEMMA LostKeeps ==
  ASSUME IInv, Lost
  PROVE  IInv'
<1>1. /\ pc = "run" /\ lost /\ Op.op # "done" /\ UNCHANGED <<outside, input>>
      /\ lost' = lost
  BY DEF Lost, place
<1>2. /\ stream' = stream /\ taken' = taken /\ num_bits' = num_bits
  BY <1>1 DEF outside, const, input
<1>3. PlaceValid'
  BY <1>1 DEF PlaceValid
<1>4. num_bits \in Nat /\ num_bits <= 22
  BY <1>1 DEF IInv, TypeOK, BufferValid
<1>5. BufferValid'
  <2>1. Len(stream.ops) \in Nat /\ at' \in 1 .. Len(stream.ops)
    <3>1. at' \in {at, Len(stream.ops)}
      BY DEF Lost, place
    <3> QED
      BY <3>1, AtIs DEF IInv
  <2> QED
    BY <1>2, <1>4, <2>1 DEF BufferValid
<1>6. taken' \in taken .. offered
  <2>1. stream.size \in Nat
    BY AtIs, StreamIs DEF IInv
  <2>2. offered \in 0 .. stream.size /\ taken \in 0 .. offered
    BY DEF IInv, TypeOK
  <2> QED
    BY <1>2, <2>1, <2>2
<1>7. /\ at' \in 1 .. Len(stream.ops) /\ phase' \in {"read", "fill", "emit"}
      /\ left' \in Nat /\ lost' \in BOOLEAN
  <2>1. at' \in {at, Len(stream.ops)} /\ phase' = phase /\ left' = left
    BY DEF Lost, place
  <2> QED
    BY <1>1, <2>1, AtIs DEF IInv, TypeOK
<1>8. /\ \/ pc' = "run" /\ ret' = ret
         \/ pc' = "back" /\ ret' \in {"needs_more", "has_more", "failed"}
      /\ WroteSome \/ UNCHANGED written
  <2>1. CASE space > 0 /\ Write(<<0>>) /\ Go
    <3>1. PICK z \in Byte : z = 0
      BY DEF Byte
    <3>2. <<z>> \in Seq(Datum) /\ Len(<<z>>) = 1
      <4>1. z \in Datum
        BY BytesAreData
      <4> QED
        BY <4>1
    <3>3. PICK b \in Seq(Datum) : b = <<0>> /\ Len(b) = 1
      BY <3>1, <3>2
    <3>4. Len(b) <= space
      BY <2>1, <3>3 DEF IInv, TypeOK
    <3> QED
      BY <1>1, <2>1, <3>3, <3>4 DEF Go, WroteSome
  <2>2. CASE Ret("has_more") /\ UNCHANGED written
    BY <2>2 DEF Ret
  <2>3. CASE Ret("failed") /\ UNCHANGED written
    BY <2>3 DEF Ret
  <2>4. CASE Go /\ UNCHANGED written
    BY <1>1, <2>4 DEF Go
  <2> QED
    BY <2>1, <2>2, <2>3, <2>4 DEF Lost
<1>9. num_bits' \in Nat
  BY <1>2, <1>4
<1> QED
  BY <1>1, <1>3, <1>5, <1>6, <1>7, <1>8, <1>9, WorkKeeps

(* Every step of tinfl_decompress.                                         *)
LEMMA DecompressKeeps ==
  ASSUME IInv, tinfl_decompress
  PROVE  IInv'
BY FastSymbolKeeps, SlowSymbolKeeps, EmitLiteralKeeps, ReadCodeKeeps, ReadBitsKeeps,
   AlignKeeps, CopyMatchKeeps, CopyStoredKeeps, FailKeeps, DoneKeeps, LostKeeps
   DEF tinfl_decompress

-----------------------------------------------------------------------------
(* What waits in the window is what was decoded and not delivered yet.     *)
LEMMA Handed ==
  ASSUME TypeOK, WindowValid, Delivering, ~Over, NEW n \in Nat,
         n <= Len(decoded) - Len(delivered),
         Len(decoded) - Len(delivered) <= DictSize
  PROVE  /\ delivered \o Waiting(n) \in Seq(Datum)
         /\ Len(delivered \o Waiting(n)) = Len(delivered) + n
         /\ \A k \in 1 .. Len(delivered) + n :
              k <= Len(decoded) /\ (delivered \o Waiting(n))[k] = decoded[k]
         /\ (dict_ofs + n) % DictSize = Len(delivered \o Waiting(n)) % DictSize
         /\ (dict_ofs + n) % DictSize \in 0 .. DictSize - 1
         /\ n = Len(decoded) - Len(delivered) => delivered \o Waiting(n) = decoded
<1>1. PICK D \in Nat \ {0}, L \in Nat, g \in Nat, o \in Nat :
        /\ D = DictSize /\ L = Len(decoded) /\ g = Len(delivered) /\ o = dict_ofs
  <2>1. DictSize \in Nat \ {0} /\ dict_ofs \in Nat
    BY SizesAssumption DEF TypeOK
  <2>2. Len(decoded) \in Nat /\ Len(delivered) \in Nat
    BY LenProperties DEF TypeOK
  <2> QED
    BY <2>1, <2>2
<1>2. o = g % D /\ g + n <= L /\ g >= L - D
  BY <1>1 DEF Delivering
<1>3. PICK w : w = Waiting(n)
  OBVIOUS
<1>4. ASSUME NEW c \in Int PROVE (o + c) % D = (g + c) % D
  <2>1. g \in Int
    OBVIOUS
  <2>2. ((g % D) + c) % D = (g + c) % D
    BY <2>1, ModOfSum, Zenon
  <2> QED
    BY <1>2, <2>2
<1>5. ASSUME NEW k \in 1..n
      PROVE  /\ dict[(o + k - 1) % D] = decoded[g + k]
             /\ decoded[g + k] \in Datum
  <2>1. PICK c \in Int : c = k - 1
    OBVIOUS
  <2>2. PICK x \in 1..L : x = g + k /\ x > L - D /\ x - 1 = g + c
    <3>1. k \in Nat /\ k >= 1 /\ k <= n
      OBVIOUS
    <3>2. g + k \in 1..L /\ g + k > L - D /\ g + k - 1 = g + c
      BY <1>2, <2>1, <3>1
    <3> QED
      BY <3>2
  <2>3. dict[(x - 1) % D] = decoded[x]
    BY <1>1, <2>2 DEF Delivering, InWindow
  <2>4. (o + c) % D = (x - 1) % D /\ o + k - 1 = o + c
    BY <1>4, <2>1, <2>2
  <2>5. decoded[x] \in Datum
    BY <1>1, ElementOfSeq DEF TypeOK
  <2> QED
    BY <2>2, <2>3, <2>4, <2>5
<1>6. w = [k \in 1..n |-> dict[(o + k - 1) % D]]
  BY <1>1, <1>3 DEF Waiting
<1>7. w = [k \in 1..n |-> decoded[g + k]]
  BY <1>5, <1>6
<1>8. w \in Seq(Datum) /\ Len(w) = n
  <2>1. \A k \in 1..n : decoded[g + k] \in Datum
    BY <1>5
  <2> QED
    BY <1>7, <2>1
<1>9. PICK b, v : b \in Seq(Datum) /\ b = delivered /\ v = b \o w
  BY DEF TypeOK
<1>10. Len(b) = g /\ v \in Seq(Datum) /\ Len(v) = g + n
  BY <1>1, <1>8, <1>9, ConcatProperties
<1>11. \A k \in 1 .. g + n : v[k] = IF k <= g THEN b[k] ELSE w[k - g]
  BY <1>8, <1>9, <1>10
<1>12. ASSUME NEW k \in 1 .. g + n PROVE k <= L /\ v[k] = decoded[k]
  <2>1. k \in Nat /\ k >= 1 /\ k <= g + n
    OBVIOUS
  <2>2. CASE k <= g
    <3>1. v[k] = delivered[k]
      BY <1>9, <1>11, <2>2
    <3>2. k \in 1..g
      BY <2>1, <2>2
    <3> QED
      BY <1>1, <3>1, <3>2 DEF WindowValid
  <2>3. CASE k > g
    <3>1. PICK j \in 1..n : j = k - g /\ k = g + j
      BY <2>1, <2>3
    <3>2. v[k] = w[j]
      BY <1>11, <2>3, <3>1
    <3>3. w[j] = decoded[g + j]
      BY <1>7
    <3>4. k <= L
      BY <1>2, <2>1
    <3> QED
      BY <3>1, <3>2, <3>3, <3>4
  <2> QED
    BY <2>1, <2>2, <2>3
<1>13. (o + n) % D = (g + n) % D /\ (o + n) % D \in 0 .. D - 1
  <2>1. n \in Int /\ g + n \in Int
    OBVIOUS
  <2> QED
    BY <1>4, <2>1, ModDecomposes
<1>14. ASSUME n = L - g PROVE v = decoded
  <2>1. Len(v) = Len(decoded) /\ decoded \in Seq(Datum)
    BY <1>1, <1>10, <1>14 DEF TypeOK
  <2>2. \A k \in 1 .. Len(v) : v[k] = decoded[k]
    BY <1>10, <1>12
  <2> QED
    BY <1>10, <2>1, <2>2, SeqEqual
<1> QED
  BY <1>1, <1>3, <1>9, <1>10, <1>12, <1>13, <1>14

(* The n bytes handed over, whether the histories still take them or not.  *)
LEMMA HandedOver ==
  ASSUME TypeOK, WindowValid, Delivering, NEW n \in Nat, NEW w \in Nat,
         ~Over => Len(decoded) = Len(delivered) + w,
         n <= w, w <= DictSize
  PROVE  /\ Kept(delivered, Waiting(n)) \in Seq(Datum)
         /\ \A k \in 1 .. Len(Kept(delivered, Waiting(n))) :
              k <= Len(decoded) /\ Kept(delivered, Waiting(n))[k] = decoded[k]
         /\ (dict_ofs + n) % DictSize \in 0 .. DictSize - 1
         /\ ~Over =>
              /\ (dict_ofs + n) % DictSize = Len(Kept(delivered, Waiting(n))) % DictSize
              /\ Len(decoded) = Len(Kept(delivered, Waiting(n))) + (w - n)
              /\ n = w => Kept(delivered, Waiting(n)) = decoded
<1>1. PICK v : v = Kept(delivered, Waiting(n))
  OBVIOUS
<1>2. CASE Over
  <2>1. v = delivered
    BY <1>1, <1>2, Zenon DEF Kept
  <2>2. dict_ofs + n \in Int /\ DictSize \in Nat \ {0}
    BY SizesAssumption DEF TypeOK
  <2>3. (dict_ofs + n) % DictSize \in 0 .. DictSize - 1
    BY <2>2, ModDecomposes
  <2> QED
    BY <1>1, <1>2, <2>1, <2>3 DEF TypeOK, WindowValid
<1>3. CASE ~Over
  <2>1. v = delivered \o Waiting(n)
    BY <1>1, <1>3, Zenon DEF Kept
  <2>2. PICK g \in Nat, L \in Nat :
          g = Len(delivered) /\ L = Len(decoded) /\ L = g + w
    BY <1>3, LenProperties DEF TypeOK
  <2>3. n <= Len(decoded) - Len(delivered) /\ Len(decoded) - Len(delivered) <= DictSize
    BY <2>2, SizesAssumption
  <2>4. /\ v \in Seq(Datum) /\ Len(v) = Len(delivered) + n
        /\ \A k \in 1 .. Len(delivered) + n : k <= Len(decoded) /\ v[k] = decoded[k]
        /\ (dict_ofs + n) % DictSize = Len(v) % DictSize
        /\ (dict_ofs + n) % DictSize \in 0 .. DictSize - 1
        /\ n = Len(decoded) - Len(delivered) => v = decoded
    BY <1>3, <2>1, <2>3, Handed
  <2>5. Len(v) = g + n /\ L = (g + n) + (w - n)
    BY <2>2, <2>4
  <2>6. n = w => n = Len(decoded) - Len(delivered)
    BY <2>2
  <2>7. \A k \in 1 .. Len(v) : k <= Len(decoded) /\ v[k] = decoded[k]
    BY <2>4
  <2> QED
    BY <1>1, <1>3, <2>2, <2>4, <2>5, <2>6, <2>7
<1> QED
  BY <1>2, <1>3

(* Nothing is full while nothing is written.                               *)
LEMMA EmptyIsNotOver ==
  ASSUME TypeOK, decoded = << >>
  PROVE  ~Over
<1>1. Len(Text) \in Nat /\ MaxGarbage \in Nat
  BY AtIs, TextIs, LenProperties, SizesAssumption DEF Text
<1>2. Len(decoded) = 0
  OBVIOUS
<1> QED
  BY <1>1, <1>2 DEF Over

(* A call of mz_inflate: it is refused, enters tinfl_decompress, or hands  *)
(* over what waits in the window.                                          *)
LEMMA InflateKeeps ==
  ASSUME IInv, NEW f \in {"none", "finish"}, NEW upto \in Nat, NEW r \in Nat,
         offered <= upto, upto <= stream.size, Inflate(f, upto, r)
  PROVE  IInv'
<1>1. /\ caller = "inflate" /\ pc = "idle"
      /\ offered' = upto /\ flush' = f /\ no_input' = (upto = taken)
      /\ first_call' = FALSE /\ more' = (f # "finish")
      /\ UNCHANGED <<const, last_status, capacity, ret, dict, decoded, place, input>>
  BY DEF Inflate
<1>2. /\ stream' = stream /\ caller' = caller /\ last_status' = last_status
      /\ capacity' = capacity /\ ret' = ret /\ dict' = dict /\ decoded' = decoded
      /\ at' = at /\ phase' = phase /\ left' = left /\ lost' = lost
      /\ taken' = taken /\ num_bits' = num_bits
  BY <1>1 DEF const, place, input
<1>3. Op' = Op /\ Part' = Part /\ Text' = Text /\ Over' = Over
  BY <1>2 DEF Op, Part, Text, Over
<1>4. BufferValid'
  BY <1>2 DEF IInv, BufferValid
<1>5. EndOf(ret)' /\ EndOf(last_status)'
  BY <1>2, <1>3 DEF EndOf, IInv, ReturnsValid
<1>6. /\ offered' \in 0 .. stream.size /\ taken' \in 0 .. offered'
      /\ flush' \in {"none", "finish"}
      /\ no_input' \in BOOLEAN /\ first_call' \in BOOLEAN /\ more' \in BOOLEAN
  <2>1. stream.size \in Nat
    BY AtIs, StreamIs DEF IInv
  <2>2. offered \in 0 .. stream.size /\ taken \in 0 .. offered
    BY DEF IInv, TypeOK
  <2>3. taken \in 0 .. upto
    BY <2>1, <2>2
  <2>4. no_input' \in BOOLEAN /\ more' \in BOOLEAN
    BY <1>1
  <2> QED
    <3>1. upto \in 0 .. stream.size
      BY <2>1
    <3> QED
      BY <1>1, <1>2, <2>3, <2>4, <3>1
<1>7. DictSize \in Nat \ {0} /\ dict_ofs \in 0 .. DictSize - 1
      /\ dict_avail \in 0..DictSize
  BY SizesAssumption DEF IInv, TypeOK
<1>8. CASE Bad(last_status) \/ (has_flushed /\ f # "finish")
  <2>1. /\ pc' = "idle" /\ status' \in {"data_error", "stream_error"} /\ room' = r
        /\ UNCHANGED <<has_flushed, window, delivered, wrapping, space, fresh>>
    BY <1>8 DEF Inflate, Return
  <2>2. /\ dict_ofs' = dict_ofs /\ dict_avail' = dict_avail /\ wrapping' = wrapping
        /\ space' = space /\ fresh' = fresh /\ delivered' = delivered
        /\ has_flushed' = has_flushed
    BY <2>1 DEF window
  <2>3. TypeOK'
    BY <1>2, <1>6, <2>1, <2>2 DEF IInv, TypeOK
  <2>4. PlaceValid'
    BY <1>2, <1>3, <2>2 DEF IInv, PlaceValid, Astray
  <2>5. WindowValid'
    <3>1. Delivering => Delivering'
      BY <1>1, <1>2, <1>3, <2>1, <2>2 DEF Delivering, InWindow
    <3>2. ~Finishing
      BY <1>1 DEF Finishing
    <3>3. Finished => Finished'
      BY <1>1, <1>2, <1>3, <2>1, <2>2 DEF Finished
    <3> QED
      BY <1>1, <1>2, <2>2, <3>1, <3>2, <3>3 DEF IInv, WindowValid
  <2>6. ReturnsValid'
    BY <1>1, <1>2, <1>3, <1>5, <2>1 DEF ReturnsValid
  <2> QED
    BY <1>4, <2>3, <2>4, <2>5, <2>6 DEF IInv
<1>9. CASE ~(Bad(last_status) \/ (has_flushed /\ f # "finish"))
  <2>1. has_flushed' \in BOOLEAN
    <3>1. has_flushed' = (has_flushed \/ f = "finish")
      BY <1>9 DEF Inflate
    <3> QED
      BY <3>1
  <2>2. CASE first_call /\ f = "finish"
    <3>1. /\ pc' = "run" /\ wrapping' = FALSE /\ space' = r /\ fresh' = 0 /\ room' = r
          /\ dict_ofs' = dict_ofs /\ dict_avail' = dict_avail
          /\ delivered' = delivered /\ status' = status
      BY <1>9, <2>2 DEF Inflate, Enter, window
    <3>2. ~wrapping /\ decoded = << >> /\ delivered = << >>
      BY <1>1, <2>2 DEF IInv, WindowValid
    <3>3. Delivering
      BY <1>1, <2>2 DEF IInv, WindowValid, Finishing, Finished
    <3>4. dict_ofs = 0 /\ dict_avail = 0
      <4>1. 0 % DictSize = 0
        <5>1. 0 \in 0 .. DictSize - 1
          BY <1>7
        <5> QED
          BY <1>7, <5>1, ModKeeps
      <4>2. Len(decoded) = 0 /\ Len(delivered) = 0 /\ ~Over
        BY <3>2, EmptyIsNotOver DEF IInv
      <4>3. dict_ofs = Len(delivered) % DictSize /\ Len(decoded) = Len(delivered) + dict_avail
        BY <1>1, <3>3, <4>2 DEF Delivering
      <4> QED
        BY <1>7, <4>1, <4>2, <4>3
    <3>5. TypeOK'
      BY <1>2, <1>6, <2>1, <3>1 DEF IInv, TypeOK
    <3>6. PlaceValid'
      BY <1>2, <1>3, <3>1, <3>2 DEF IInv, PlaceValid, Astray
    <3>7. WindowValid'
      <4>1. Finishing'
        BY <1>1, <1>2, <3>1, <3>2, <3>4 DEF Finishing
      <4> QED
        BY <1>1, <1>2, <3>1, <3>2, <4>1 DEF WindowValid
    <3>8. ReturnsValid'
      BY <1>1, <1>2, <1>3, <1>5, <3>1 DEF IInv, ReturnsValid
    <3> QED
      BY <1>4, <3>5, <3>6, <3>7, <3>8 DEF IInv
  <2>3. CASE ~(first_call /\ f = "finish") /\ dict_avail > 0
    <3>1. PICK n \in Nat : n = Min({dict_avail, r}) /\ n <= dict_avail /\ n <= r
      BY <1>7, MinIs
    <3>2. /\ delivered' = Kept(delivered, Waiting(n))
          /\ room' = r - n /\ dict_avail' = dict_avail - n
          /\ dict_ofs' = (dict_ofs + n) % DictSize
          /\ pc' = "idle"
          /\ status' = IF last_status = "done" /\ dict_avail' = 0
                       THEN "stream_end" ELSE "ok"
          /\ wrapping' = wrapping /\ space' = space /\ fresh' = fresh
      BY <1>9, <2>3, <3>1 DEF Inflate, Return
    <3>3. Delivering
      BY <1>1, <2>3 DEF IInv, WindowValid, Finishing, Finished
    <3>4. ~Over => Len(decoded) = Len(delivered) + dict_avail
      BY <1>1, <3>3 DEF Delivering
    <3>5. PICK a \in 0..DictSize : a = dict_avail
      BY <1>7
    <3>6. PICK v : v = Kept(delivered, Waiting(n))
      OBVIOUS
    <3>7. /\ delivered' \in Seq(Datum)
          /\ \A k \in 1 .. Len(delivered') :
               k <= Len(decoded) /\ delivered'[k] = decoded[k]
          /\ dict_ofs' \in 0 .. DictSize - 1
          /\ ~Over => /\ dict_ofs' = Len(delivered') % DictSize
                      /\ Len(decoded) = Len(delivered') + (a - n)
                      /\ n = a => delivered' = decoded
      <4>1. a \in Nat /\ n <= a /\ a <= DictSize
        BY <1>7, <3>1, <3>5
      <4>2. /\ v \in Seq(Datum)
            /\ \A k \in 1 .. Len(v) : k <= Len(decoded) /\ v[k] = decoded[k]
            /\ (dict_ofs + n) % DictSize \in 0 .. DictSize - 1
            /\ ~Over => /\ (dict_ofs + n) % DictSize = Len(v) % DictSize
                        /\ Len(decoded) = Len(v) + (a - n)
                        /\ n = a => v = decoded
        BY <3>3, <3>4, <3>5, <3>6, <4>1, HandedOver DEF IInv
      <4> QED
        BY <3>2, <3>6, <4>2
    <3>8. room' \in Nat /\ dict_avail' \in 0..DictSize
      <4>1. dict_avail \in Nat /\ dict_avail <= DictSize /\ n <= r
        BY <1>7, <3>1
      <4>2. r - n \in Nat /\ dict_avail - n \in 0..DictSize
        BY <1>7, <3>1, <4>1
      <4> QED
        BY <3>2, <4>2
    <3>9. TypeOK'
      BY <1>2, <1>6, <2>1, <3>2, <3>7, <3>8 DEF IInv, TypeOK
    <3>10. PlaceValid'
      BY <1>2, <1>3, <3>2 DEF IInv, PlaceValid, Astray
    <3>11. WindowValid'
      <4>1. ~Over => Len(decoded') = Len(delivered') + dict_avail'
        BY <1>2, <3>2, <3>5, <3>7
      <4>2. ~Over => InWindow'
        BY <1>2, <3>3 DEF Delivering, InWindow
      <4>3. Delivering'
        BY <1>2, <1>3, <3>2, <3>7, <4>1, <4>2 DEF Delivering
      <4> QED
        BY <1>1, <1>2, <3>7, <4>3 DEF WindowValid
    <3>12. ReturnsValid'
      <4>1. ASSUME status' = "stream_end"
            PROVE  /\ Op.op = "done" /\ (stream.zlib => decoded = Text)
                   /\ ~Over => delivered' = decoded
        <5>1. last_status = "done" /\ dict_avail' = 0
          BY <3>2, <4>1
        <5>2. n = a
          BY <3>1, <3>2, <3>5, <5>1
        <5> QED
          BY <3>7, <5>1, <5>2 DEF IInv, ReturnsValid, EndOf
      <4> QED
        BY <1>1, <1>2, <1>3, <1>5, <3>2, <4>1 DEF ReturnsValid
    <3> QED
      BY <1>4, <3>9, <3>10, <3>11, <3>12 DEF IInv
  <2>4. CASE ~(first_call /\ f = "finish") /\ ~(dict_avail > 0)
    <3>1. /\ pc' = "run" /\ wrapping' = TRUE /\ space' = DictSize - dict_ofs /\ fresh' = 0
          /\ room' = r /\ dict_ofs' = dict_ofs /\ dict_avail' = dict_avail
          /\ delivered' = delivered /\ status' = status
      BY <1>9, <2>4 DEF Inflate, Enter, window
    <3>2. dict_avail = 0 /\ space' \in Nat /\ dict_ofs + 0 + space' = DictSize
      BY <1>7, <2>4, <3>1
    <3>3. TypeOK'
      BY <1>2, <1>6, <2>1, <3>1, <3>2 DEF IInv, TypeOK
    <3>4. PlaceValid'
      BY <1>2, <1>3, <3>1 DEF IInv, PlaceValid, Astray
    <3>5. WindowValid'
      <4>1. ASSUME Delivering PROVE Delivering'
        <5>1. ~Over => Len(decoded) = Len(delivered) + 0
          BY <1>1, <3>2, <4>1 DEF Delivering
        <5> QED
          BY <1>2, <1>3, <3>1, <3>2, <4>1, <5>1 DEF Delivering, InWindow
      <4>2. ~Finishing
        BY <1>1 DEF Finishing
      <4>3. Finished => Finished'
        BY <1>1, <1>2, <1>3, <1>9, <3>1 DEF Finished
      <4> QED
        BY <1>1, <1>2, <3>1, <4>1, <4>2, <4>3 DEF IInv, WindowValid
    <3>6. ReturnsValid'
      BY <1>1, <1>2, <1>3, <1>5, <3>1 DEF IInv, ReturnsValid
    <3> QED
      BY <1>4, <3>3, <3>4, <3>5, <3>6 DEF IInv
  <2> QED
    BY <2>2, <2>3, <2>4
<1> QED
  BY <1>8, <1>9

(* Whatever call the interface allows.                                     *)
LEMMA CallKeeps ==
  ASSUME IInv, CallInflate
  PROVE  IInv'
<1>1. PICK f \in {"none", "finish"}, r \in Rooms, k \in Pieces \cup {stream.size} :
        Inflate(f, Min({offered + k, stream.size}), r)
  BY DEF CallInflate
<1>2. r \in Nat /\ k \in Nat /\ stream.size \in Nat /\ offered \in 0 .. stream.size
  <2>1. stream.size \in Nat
    BY AtIs, StreamIs DEF IInv
  <2> QED
    BY <2>1, SizesAssumption DEF IInv, TypeOK
<1>3. PICK upto \in Nat : /\ upto = Min({offered + k, stream.size})
                          /\ offered <= upto /\ upto <= stream.size
  <2>1. offered + k \in Int /\ stream.size \in Int
    BY <1>2
  <2>2. Min({offered + k, stream.size}) =
          IF offered + k <= stream.size THEN offered + k ELSE stream.size
    BY <2>1, MinIs
  <2> QED
    BY <1>2, <2>2
<1> QED
  BY <1>1, <1>2, <1>3, InflateKeeps

(* mz_inflate behind tinfl_decompress hands over what was written, as far  *)
(* as there is room, and goes on only when nothing waits.                  *)
LEMMA AfterInflateKeeps ==
  ASSUME IInv, AfterInflate
  PROVE  IInv'
<1>1. /\ caller = "inflate" /\ pc = "back" /\ wrapping /\ last_status' = ret
      /\ UNCHANGED <<const, offered, flush, no_input, wrapping, more, first_call,
                     has_flushed, capacity, ret, dict, decoded, place, input>>
  BY DEF AfterInflate
<1>2. /\ stream' = stream /\ caller' = caller /\ offered' = offered /\ flush' = flush
      /\ no_input' = no_input /\ wrapping' = wrapping /\ more' = more
      /\ first_call' = first_call /\ has_flushed' = has_flushed
      /\ capacity' = capacity /\ ret' = ret /\ dict' = dict /\ decoded' = decoded
      /\ at' = at /\ phase' = phase /\ left' = left /\ lost' = lost
      /\ taken' = taken /\ num_bits' = num_bits
  BY <1>1 DEF const, place, input
<1>3. Op' = Op /\ Part' = Part /\ Text' = Text /\ Over' = Over
  BY <1>2 DEF Op, Part, Text, Over
<1>4. DictSize \in Nat \ {0} /\ dict_ofs \in 0 .. DictSize - 1
      /\ fresh \in Nat /\ room \in Nat /\ space \in Nat
  BY SizesAssumption DEF IInv, TypeOK
<1>5. PICK n \in Nat : /\ n = Min({fresh, room}) /\ n <= fresh /\ n <= room
                       /\ n = fresh \/ n = room
  BY <1>4, MinIs
<1>6. PICK after : after = IF ret = "done" /\ fresh = n THEN "stream_end" ELSE "ok"
  OBVIOUS
<1>7. /\ delivered' = Kept(delivered, Waiting(n))
      /\ room' = room - n /\ dict_avail' = fresh - n
      /\ dict_ofs' = (dict_ofs + n) % DictSize
      /\ space' = DictSize - dict_ofs' /\ fresh' = 0
  BY <1>5 DEF AfterInflate
<1>8. \/ pc' = "idle" /\ status' \in {"data_error", "buf_error", after}
      \/ /\ pc' = "run" /\ status' = status
         /\ flush = "finish" => ~(ret = "done" \/ room' = 0)
         /\ flush # "finish" => ~(dict_avail' > 0)
  <2>1. IF Bad(ret) THEN Return("data_error")
        ELSE IF ret = "needs_more" /\ no_input THEN Return("buf_error")
        ELSE IF flush = "finish" /\ (ret = "done" \/ room' = 0)
        THEN Return(IF after = "ok" THEN "buf_error" ELSE after)
        ELSE Again(after)
    BY <1>5, <1>6 DEF AfterInflate
  <2>2. CASE Bad(ret) \/ (ret = "needs_more" /\ no_input)
    BY <2>1, <2>2 DEF Return
  <2>3. CASE /\ ~(Bad(ret) \/ (ret = "needs_more" /\ no_input))
             /\ flush = "finish" /\ (ret = "done" \/ room' = 0)
    BY <2>1, <2>3 DEF Return
  <2>4. CASE /\ ~(Bad(ret) \/ (ret = "needs_more" /\ no_input))
             /\ ~(flush = "finish" /\ (ret = "done" \/ room' = 0))
    <3>1. Again(after)
      BY <2>1, <2>4
    <3>2. \/ pc' = "idle" /\ status' = after
          \/ /\ pc' = "run" /\ status' = status
             /\ flush # "finish" => ~(dict_avail' > 0)
      BY <3>1 DEF Again, Return
    <3> QED
      BY <2>4, <3>2
  <2> QED
    BY <2>2, <2>3, <2>4
<1>9. pc' = "run" => n = fresh
  <2>1. ASSUME pc' = "run", flush = "finish" PROVE n = fresh
    <3>1. room - n # 0
      BY <1>7, <1>8, <2>1
    <3> QED
      BY <1>4, <1>5, <3>1
  <2>2. ASSUME pc' = "run", flush # "finish" PROVE n = fresh
    <3>1. ~(fresh - n > 0)
      BY <1>7, <1>8, <2>2
    <3> QED
      BY <1>4, <1>5, <3>1
  <2> QED
    BY <2>1, <2>2
<1>10. Delivering \/ Finished
  BY <1>1 DEF IInv, WindowValid, Finishing
<1>11. /\ delivered' \in Seq(Datum) /\ dict_ofs' \in 0 .. DictSize - 1
       /\ \A k \in 1 .. Len(delivered') : k <= Len(decoded) /\ delivered'[k] = decoded[k]
       /\ dict_avail' \in 0..DictSize
       /\ Delivering' \/ Finished'
       /\ ~Over /\ n = fresh => delivered' = decoded
       /\ ~Over /\ delivered = decoded => delivered' = decoded
  <2>1. CASE Delivering
    <3>1. /\ ~Over => Len(decoded) = Len(delivered) + fresh
          /\ dict_ofs + fresh + space = DictSize
      BY <1>1, <2>1 DEF Delivering
    <3>2. PICK fr \in Nat : fr = fresh /\ n <= fr /\ fr <= DictSize
      <4>1. PICK D \in Nat, o \in Nat, sp \in Nat, fr \in Nat :
              D = DictSize /\ o = dict_ofs /\ sp = space /\ fr = fresh
        BY <1>4
      <4>2. o + fr + sp = D
        BY <3>1, <4>1
      <4> QED
        BY <1>5, <4>1, <4>2
    <3>3. PICK v : v = Kept(delivered, Waiting(n))
      OBVIOUS
    <3>4. /\ v \in Seq(Datum)
          /\ \A k \in 1 .. Len(v) : k <= Len(decoded) /\ v[k] = decoded[k]
          /\ (dict_ofs + n) % DictSize \in 0 .. DictSize - 1
          /\ ~Over => /\ (dict_ofs + n) % DictSize = Len(v) % DictSize
                      /\ Len(decoded) = Len(v) + (fr - n)
                      /\ n = fr => v = decoded
      BY <2>1, <3>1, <3>2, <3>3, HandedOver DEF IInv
    <3>5. delivered' = v /\ dict_ofs' = (dict_ofs + n) % DictSize
      BY <1>7, <3>3
    <3>6. dict_avail' \in 0..DictSize /\ dict_avail' = fr - n
      <4>1. fr - n \in 0..DictSize
        BY <1>4, <3>2
      <4> QED
        BY <1>7, <3>2, <4>1
    <3>7. ~Over /\ delivered = decoded => v = decoded
      <4> SUFFICES ASSUME ~Over, delivered = decoded PROVE n = fr
        BY <3>4
      <4>1. PICK L \in Nat : L = Len(decoded) /\ L = Len(delivered)
        BY LenProperties DEF IInv, TypeOK
      <4>2. L = L + fr
        BY <3>1, <3>2, <4>1
      <4> QED
        BY <3>2, <4>1, <4>2
    <3>8. Delivering'
      <4>1. ~Over => /\ dict_ofs' = Len(delivered') % DictSize
                     /\ InWindow'
                     /\ Len(decoded') = Len(delivered') + dict_avail'
        BY <1>2, <2>1, <3>4, <3>5, <3>6 DEF Delivering, InWindow
      <4>2. ASSUME pc' = "run"
            PROVE  /\ wrapping' /\ dict_avail' = 0 /\ fresh' = 0
                   /\ dict_ofs' + fresh' + space' = DictSize
        <5>1. dict_avail' = 0
          BY <1>9, <3>2, <3>6, <4>2
        <5>2. PICK o \in Nat : o = dict_ofs'
          BY <1>4, <3>4, <3>5
        <5>3. o + 0 + (DictSize - o) = DictSize
          <6>1. DictSize \in Int
            BY <1>4
          <6> QED
            BY <6>1
        <5> QED
          BY <1>1, <1>2, <1>7, <5>1, <5>2, <5>3
      <4> QED
        BY <1>3, <1>8, <4>1, <4>2 DEF Delivering
    <3> QED
      BY <3>2, <3>4, <3>5, <3>6, <3>7, <3>8
  <2>2. CASE Finished
    <3>1. /\ fresh = 0 /\ dict_avail = 0 /\ dict_ofs = 0 /\ delivered = decoded
          /\ Op.op = "done" /\ ~first_call
      BY <1>1, <2>2 DEF Finished
    <3>2. n = 0
      BY <1>5, <3>1
    <3>3. PICK v \in Seq(Datum) : v = delivered
      BY DEF IInv, TypeOK
    <3>4. delivered' = v
      <4>1. Waiting(n) = << >>
        BY <3>2 DEF Waiting
      <4>2. v \o << >> = v
        BY ConcatEmptySeq
      <4>3. Kept(v, << >>) = v
        BY <4>2 DEF Kept
      <4> QED
        BY <1>7, <3>3, <4>1, <4>3
    <3>5. dict_ofs' = 0 /\ dict_avail' = 0
      <4>1. 0 \in 0 .. DictSize - 1
        BY <1>4
      <4>2. 0 % DictSize = 0
        BY <1>4, <4>1, ModKeeps
      <4> QED
        BY <1>7, <3>1, <3>2, <4>2
    <3>6. Finished'
      BY <1>1, <1>2, <1>3, <1>7, <3>1, <3>3, <3>4, <3>5 DEF Finished
    <3>7. \A k \in 1 .. Len(v) : k <= Len(decoded) /\ v[k] = decoded[k]
      BY <3>3 DEF IInv, WindowValid
    <3> QED
      BY <1>4, <3>1, <3>3, <3>4, <3>5, <3>6, <3>7
  <2> QED
    BY <1>10, <2>1, <2>2
<1>12. room' \in Nat /\ space' \in Nat /\ fresh' \in Nat
  <2>1. DictSize - dict_ofs' \in Nat
    <3>1. PICK D \in Nat \ {0} : D = DictSize
      BY <1>4
    <3>2. dict_ofs' \in 0 .. D - 1
      BY <1>11, <3>1
    <3>3. PICK o \in Nat : o = dict_ofs' /\ o <= D - 1
      BY <3>2
    <3>4. \A a \in Nat, c \in Nat : c <= a - 1 => a - c \in Nat
      OBVIOUS
    <3>5. D - o \in Nat
      BY <3>3, <3>4
    <3> QED
      BY <3>1, <3>3, <3>5
  <2>2. room - n \in Nat
    BY <1>4, <1>5
  <2> QED
    BY <1>7, <2>1, <2>2
<1>13. TypeOK'
  BY <1>1, <1>2, <1>8, <1>11, <1>12 DEF IInv, TypeOK
<1>14. PlaceValid' /\ BufferValid'
  BY <1>2, <1>3 DEF IInv, PlaceValid, BufferValid, Astray
<1>15. WindowValid'
  <2>1. ~first_call
    BY <1>1 DEF IInv, WindowValid
  <2> QED
    BY <1>1, <1>2, <1>11, <2>1 DEF WindowValid
<1>16. ReturnsValid'
  <2>1. EndOf(ret)' /\ EndOf(last_status)'
    BY <1>1, <1>2, <1>3 DEF EndOf, IInv, ReturnsValid
  <2>2. ASSUME status' = "stream_end"
        PROVE  /\ Op.op = "done" /\ (stream.zlib => decoded = Text)
               /\ ~Over => delivered' = decoded
    <3>1. CASE pc' = "run"
      BY <1>8, <1>11, <2>2, <3>1 DEF IInv, ReturnsValid
    <3>2. CASE pc' = "idle"
      <4>1. ret = "done" /\ fresh = n
        BY <1>6, <1>8, <2>2, <3>2
      <4> QED
        BY <1>11, <4>1 DEF IInv, ReturnsValid, EndOf
    <3> QED
      BY <1>8, <3>1, <3>2
  <2> QED
    BY <1>1, <1>2, <1>3, <1>8, <2>1, <2>2 DEF ReturnsValid
<1> QED
  BY <1>13, <1>14, <1>15, <1>16 DEF IInv

(* A call that finished at once, or failed for good.                       *)
LEMMA AfterFinishKeeps ==
  ASSUME IInv, AfterFinish
  PROVE  IInv'
<1>1. /\ caller = "inflate" /\ pc = "back" /\ ~wrapping
      /\ last_status' = IF ret = "done" \/ Bad(ret) THEN ret ELSE "failed"
      /\ pc' = "idle"
      /\ status' = IF Bad(ret) THEN "data_error"
                   ELSE IF ret = "done" THEN "stream_end" ELSE "buf_error"
      /\ delivered' = decoded /\ room' = space
      /\ UNCHANGED <<const, offered, flush, no_input, wrapping, more, first_call,
                     has_flushed, window, capacity, ret, written, place, input>>
  BY DEF AfterFinish, Return
<1>2. /\ stream' = stream /\ caller' = caller /\ offered' = offered /\ flush' = flush
      /\ no_input' = no_input /\ wrapping' = wrapping /\ more' = more
      /\ first_call' = first_call /\ has_flushed' = has_flushed
      /\ dict_ofs' = dict_ofs /\ dict_avail' = dict_avail
      /\ capacity' = capacity /\ ret' = ret /\ dict' = dict /\ decoded' = decoded
      /\ space' = space /\ fresh' = fresh
      /\ at' = at /\ phase' = phase /\ left' = left /\ lost' = lost
      /\ taken' = taken /\ num_bits' = num_bits
  BY <1>1 DEF const, place, input, window, written
<1>3. Op' = Op /\ Part' = Part /\ Text' = Text /\ Over' = Over
  BY <1>2 DEF Op, Part, Text, Over
<1>4. Finishing
  BY <1>1 DEF IInv, WindowValid, Delivering, Finished
<1>5. TypeOK'
  BY <1>1, <1>2 DEF IInv, TypeOK
<1>6. PlaceValid' /\ BufferValid'
  BY <1>2, <1>3 DEF IInv, PlaceValid, BufferValid, Astray
<1>7. Finished'
  <2>1. Bad(last_status') \/ Op.op = "done"
    BY <1>1 DEF IInv, ReturnsValid, EndOf, Bad
  <2> QED
    BY <1>1, <1>2, <1>3, <1>4, <2>1 DEF Finishing, Finished
<1>8. WindowValid'
  <2>1. Len(decoded) \in Nat
    BY LenProperties DEF IInv, TypeOK
  <2>2. \A k \in 1 .. Len(decoded) : k <= Len(decoded)
    BY <2>1
  <2> QED
    BY <1>1, <1>2, <1>4, <1>7, <2>2 DEF WindowValid, Finishing
<1>9. ReturnsValid'
  <2>1. EndOf(ret)' /\ EndOf(last_status)'
    BY <1>1, <1>2, <1>3 DEF EndOf, IInv, ReturnsValid
  <2> QED
    BY <1>1, <1>2, <1>3, <2>1 DEF IInv, ReturnsValid, EndOf
<1> QED
  BY <1>5, <1>6, <1>8, <1>9 DEF IInv

(* The callers that give all of the input at once.                         *)
LEMMA BeginKeeps ==
  ASSUME IInv, Begin
  PROVE  IInv'
<1>1. /\ caller # "inflate" /\ pc = "idle" /\ status = "none"
      /\ offered' = stream.size /\ more' = FALSE
      /\ pc' = "run" /\ wrapping' = (caller = "callback") /\ fresh' = 0
      /\ space' = IF caller = "callback" THEN DictSize ELSE 0
      /\ UNCHANGED <<const, room, flush, no_input, flags, window, capacity, delivered,
                     status, ret, dict, decoded, place, input>>
  BY DEF Begin, Enter
<1>2. /\ stream' = stream /\ caller' = caller /\ room' = room /\ flush' = flush
      /\ no_input' = no_input
      /\ first_call' = first_call /\ has_flushed' = has_flushed
      /\ last_status' = last_status /\ dict_ofs' = dict_ofs /\ dict_avail' = dict_avail
      /\ capacity' = capacity /\ delivered' = delivered /\ status' = status
      /\ ret' = ret /\ dict' = dict /\ decoded' = decoded
      /\ at' = at /\ phase' = phase /\ left' = left /\ lost' = lost
      /\ taken' = taken /\ num_bits' = num_bits
  BY <1>1 DEF const, flags, window, place, input
<1>3. Op' = Op /\ Part' = Part /\ Text' = Text /\ Over' = Over
  BY <1>2 DEF Op, Part, Text, Over
<1>4. capacity = 0 /\ decoded = << >> /\ delivered = << >>
  BY <1>1 DEF IInv, ReturnsValid
<1>5. caller \in {"heap", "callback"} /\ DictSize \in Nat \ {0}
  BY <1>1, SizesAssumption DEF IInv, TypeOK
<1>6. TypeOK'
  <2>1. stream.size \in Nat
    BY AtIs, StreamIs DEF IInv
  <2>2. offered' \in 0 .. stream.size /\ taken' \in 0 .. offered'
    <3>1. offered \in 0 .. stream.size /\ taken \in 0 .. offered
      BY DEF IInv, TypeOK
    <3> QED
      BY <1>1, <1>2, <2>1, <3>1
  <2>3. space' \in Nat /\ wrapping' \in BOOLEAN /\ more' \in BOOLEAN /\ fresh' \in Nat
    BY <1>1, <1>5
  <2> QED
    BY <1>1, <1>2, <2>2, <2>3 DEF IInv, TypeOK
<1>7. PlaceValid'
  <2>1. ~wrapping' => ~wrapping
    BY <1>1, <1>5 DEF IInv, WindowValid
  <2> QED
    BY <1>2, <1>3, <2>1 DEF IInv, PlaceValid, Astray
<1>8. BufferValid'
  BY <1>2 DEF IInv, BufferValid
<1>9. WindowValid'
  <2>1. CASE caller = "heap"
    <3>1. space' = 0 /\ capacity' = 0 /\ Len(decoded') = 0
      BY <1>1, <1>2, <1>4, <2>1
    <3>2. ~wrapping'
      <4>1. caller # "callback"
        BY <2>1
      <4>2. wrapping' = (caller = "callback")
        BY <1>1
      <4> QED
        BY <4>1, <4>2, Zenon
    <3>3. delivered' = << >>
      BY <1>2, <1>4
    <3>4. ~wrapping' /\ space' + Len(decoded') = capacity' /\ delivered' = << >>
      BY <3>1, <3>2, <3>3
    <3> QED
      BY <1>2, <1>4, <2>1, <3>4 DEF WindowValid
  <2>2. CASE caller = "callback"
    <3>1. Delivering /\ dict_avail = 0
      BY <2>2 DEF IInv, WindowValid, Finishing, Finished
    <3>2. Len(delivered) = 0 /\ Len(decoded) = 0 /\ ~Over
      BY <1>4, EmptyIsNotOver DEF IInv
    <3>3. dict_ofs = 0
      <4>1. 0 \in 0 .. DictSize - 1
        BY <1>5
      <4>2. 0 % DictSize = 0
        BY <1>5, <4>1, ModKeeps
      <4> QED
        BY <3>1, <3>2, <4>2 DEF Delivering
    <3>4. Delivering'
      <4>1. dict_ofs' + fresh' + space' = DictSize
        BY <1>1, <1>2, <1>5, <2>2, <3>3
      <4> QED
        BY <1>1, <1>2, <1>3, <2>2, <3>1, <3>2, <4>1 DEF Delivering, InWindow
    <3> QED
      BY <1>2, <1>4, <2>2, <3>1, <3>4 DEF WindowValid
  <2> QED
    BY <1>5, <2>1, <2>2
<1>10. ReturnsValid'
  BY <1>1, <1>2, <1>3 DEF IInv, ReturnsValid, EndOf
<1> QED
  BY <1>6, <1>7, <1>8, <1>9, <1>10 DEF IInv

(* mem_to_heap: a larger buffer holds the room it had and more.            *)
LEMMA AfterHeapKeeps ==
  ASSUME IInv, AfterHeap
  PROVE  IInv'
<1>1. /\ caller = "heap" /\ pc = "back"
      /\ UNCHANGED <<const, call, flags, window, ret, dict, decoded, place, input>>
  BY DEF AfterHeap
<1>2. /\ stream' = stream /\ caller' = caller /\ offered' = offered /\ room' = room
      /\ flush' = flush /\ no_input' = no_input /\ wrapping' = wrapping /\ more' = more
      /\ first_call' = first_call /\ has_flushed' = has_flushed
      /\ last_status' = last_status /\ dict_ofs' = dict_ofs /\ dict_avail' = dict_avail
      /\ ret' = ret /\ dict' = dict /\ decoded' = decoded
      /\ at' = at /\ phase' = phase /\ left' = left /\ lost' = lost
      /\ taken' = taken /\ num_bits' = num_bits
  BY <1>1 DEF const, call, flags, window, place, input
<1>3. Op' = Op /\ Part' = Part /\ Text' = Text /\ Over' = Over
  BY <1>2 DEF Op, Part, Text, Over
<1>4. PlaceValid' /\ BufferValid' /\ EndOf(ret)' /\ EndOf(last_status)'
  BY <1>2, <1>3 DEF IInv, PlaceValid, BufferValid, EndOf, ReturnsValid, Astray
<1>5. ~wrapping /\ delivered = << >> /\ space + Len(decoded) = capacity
  BY <1>1 DEF IInv, WindowValid
<1>6. PICK L \in Nat, c \in Nat, sp \in Nat :
        L = Len(decoded) /\ c = capacity /\ sp = space /\ sp + L = c
  BY <1>5, LenProperties DEF IInv, TypeOK
<1>7. \A k \in 1..L : k <= L
  BY <1>6
<1>8. CASE /\ ret = "done" /\ delivered' = decoded
           /\ Return(IF capacity = 0 THEN "null" ELSE "stream_end")
           /\ UNCHANGED <<capacity, space, fresh>>
  <2>1. pc' = "idle" /\ status' \in {"null", "stream_end"}
    BY <1>8 DEF Return
  <2>2. TypeOK'
    BY <1>2, <1>8, <2>1 DEF IInv, TypeOK
  <2>3. WindowValid'
    BY <1>1, <1>2, <1>5, <1>6, <1>7, <1>8, <2>1 DEF WindowValid
  <2>4. ReturnsValid'
    BY <1>2, <1>3, <1>4, <1>8, <2>1 DEF ReturnsValid, EndOf
  <2> QED
    BY <1>4, <2>2, <2>3, <2>4 DEF IInv
<1>9. CASE /\ ret # "done" /\ delivered' = << >> /\ Return("null")
           /\ UNCHANGED <<capacity, space, fresh>>
  <2>1. pc' = "idle" /\ status' = "null"
    BY <1>9 DEF Return
  <2>2. TypeOK'
    BY <1>2, <1>9, <2>1 DEF IInv, TypeOK
  <2>3. WindowValid'
    BY <1>1, <1>2, <1>5, <1>9, <2>1 DEF WindowValid
  <2>4. ReturnsValid'
    BY <1>2, <1>3, <1>4, <2>1 DEF ReturnsValid
  <2> QED
    BY <1>4, <2>2, <2>3, <2>4 DEF IInv
<1>10. CASE /\ ret = "has_more"
            /\ capacity' = Max({2 * capacity, FirstCapacity}) /\ capacity' <= Memory
            /\ pc' = "run" /\ space' = capacity' - Len(decoded) /\ fresh' = 0
            /\ UNCHANGED <<delivered, status>>
  <2>1. PICK c2 \in Nat : c2 = capacity' /\ c2 >= 2 * c
    <3>1. 2 * c \in Int /\ FirstCapacity \in Int
      BY SizesAssumption
    <3>2. Max({2 * c, FirstCapacity}) = IF 2 * c >= FirstCapacity THEN 2 * c ELSE FirstCapacity
      BY <3>1, MaxIs
    <3> QED
      BY <1>6, <1>10, <3>2, SizesAssumption
  <2>2. space' = c2 - L /\ c2 - L \in Nat /\ space' + L = c2
    BY <1>6, <1>10, <2>1
  <2>3. TypeOK'
    BY <1>2, <1>10, <2>1, <2>2 DEF IInv, TypeOK
  <2>4. WindowValid'
    BY <1>1, <1>2, <1>5, <1>6, <1>10, <2>1, <2>2 DEF WindowValid
  <2>5. ReturnsValid'
    BY <1>2, <1>3, <1>4, <1>10 DEF IInv, ReturnsValid
  <2> QED
    BY <1>4, <2>3, <2>4, <2>5 DEF IInv
<1> QED
  BY <1>8, <1>9, <1>10 DEF AfterHeap

(* mem_to_callback hands over all that was written.                        *)
LEMMA AfterCallbackKeeps ==
  ASSUME IInv, AfterCallback
  PROVE  IInv'
<1>1. /\ caller = "callback" /\ pc = "back"
      /\ delivered' = Kept(delivered, Waiting(fresh))
      /\ dict_ofs' = (dict_ofs + fresh) % DictSize
      /\ space' = DictSize - dict_ofs' /\ fresh' = 0
      /\ UNCHANGED <<const, call, flags, dict_avail, capacity, ret, dict, decoded,
                     place, input>>
  BY DEF AfterCallback
<1>2. /\ stream' = stream /\ caller' = caller /\ offered' = offered /\ room' = room
      /\ flush' = flush /\ no_input' = no_input /\ wrapping' = wrapping /\ more' = more
      /\ first_call' = first_call /\ has_flushed' = has_flushed
      /\ last_status' = last_status /\ dict_avail' = dict_avail
      /\ capacity' = capacity /\ ret' = ret /\ dict' = dict /\ decoded' = decoded
      /\ at' = at /\ phase' = phase /\ left' = left /\ lost' = lost
      /\ taken' = taken /\ num_bits' = num_bits
  BY <1>1 DEF const, call, flags, place, input
<1>3. Op' = Op /\ Part' = Part /\ Text' = Text /\ Over' = Over
  BY <1>2 DEF Op, Part, Text, Over
<1>4. PlaceValid' /\ BufferValid' /\ EndOf(ret)' /\ EndOf(last_status)'
  BY <1>2, <1>3 DEF IInv, PlaceValid, BufferValid, EndOf, ReturnsValid, Astray
<1>5. \/ /\ pc' = "idle" /\ status' \in {"refused", "failed"}
      \/ /\ pc' = "idle" /\ status' = "stream_end" /\ ret = "done"
      \/ pc' = "run" /\ status' = status
  BY DEF AfterCallback, Return
<1>6. Delivering /\ dict_avail = 0 /\ wrapping
  BY <1>1 DEF IInv, WindowValid, Finishing, Finished, Delivering
<1>7. PICK D \in Nat \ {0}, g \in Nat, L \in Nat, fr \in Nat, sp \in Nat, o \in Nat :
        /\ D = DictSize /\ g = Len(delivered) /\ L = Len(decoded) /\ fr = fresh
        /\ sp = space /\ o = dict_ofs
  <2>1. DictSize \in Nat \ {0} /\ fresh \in Nat /\ space \in Nat /\ dict_ofs \in Nat
    BY SizesAssumption DEF IInv, TypeOK
  <2>2. Len(delivered) \in Nat /\ Len(decoded) \in Nat
    BY LenProperties DEF IInv, TypeOK
  <2> QED
    BY <2>1, <2>2
<1>8. (~Over => L = g + fr) /\ fr <= D
  <2>1. (~Over => L = g + fr) /\ o + fr + sp = D
    BY <1>1, <1>6, <1>7 DEF Delivering
  <2> QED
    BY <2>1
<1>9. /\ delivered' \in Seq(Datum)
      /\ \A k \in 1 .. Len(delivered') : k <= Len(decoded) /\ delivered'[k] = decoded[k]
      /\ dict_ofs' \in 0 .. D - 1
      /\ ~Over => delivered' = decoded /\ dict_ofs' = Len(delivered') % DictSize
  <2>1. PICK v : v = Kept(delivered, Waiting(fr))
    OBVIOUS
  <2>2. /\ TypeOK /\ WindowValid /\ Delivering /\ fr \in Nat
        /\ ~Over => Len(decoded) = Len(delivered) + fr
        /\ fr <= fr /\ fr <= DictSize
    BY <1>6, <1>7, <1>8 DEF IInv
  <2>3. /\ v \in Seq(Datum)
        /\ \A k \in 1 .. Len(v) : k <= Len(decoded) /\ v[k] = decoded[k]
        /\ (dict_ofs + fr) % DictSize \in 0 .. DictSize - 1
        /\ ~Over => (dict_ofs + fr) % DictSize = Len(v) % DictSize /\ v = decoded
    <3>1. PICK w \in Nat :
            w = fr /\ (~Over => Len(decoded) = Len(delivered) + w) /\ fr <= w /\ w <= DictSize
      BY <2>2
    <3>2. /\ v \in Seq(Datum)
          /\ \A k \in 1 .. Len(v) : k <= Len(decoded) /\ v[k] = decoded[k]
          /\ (dict_ofs + fr) % DictSize \in 0 .. DictSize - 1
          /\ ~Over => /\ (dict_ofs + fr) % DictSize = Len(v) % DictSize
                      /\ Len(decoded) = Len(v) + (w - fr)
                      /\ fr = w => v = decoded
      BY <2>1, <2>2, <3>1, HandedOver, Zenon
    <3> QED
      BY <3>1, <3>2
  <2>4. delivered' = v /\ dict_ofs' = (dict_ofs + fr) % DictSize
    BY <1>1, <1>7, <2>1
  <2> QED
    BY <1>7, <2>3, <2>4
<1>10. space' \in Nat /\ dict_ofs' + 0 + space' = D
  <2>1. space' = D - dict_ofs'
    BY <1>1, <1>7
  <2>2. dict_ofs' \in 0 .. D - 1
    BY <1>9
  <2>3. PICK p \in Nat : p = dict_ofs' /\ p <= D - 1
    BY <2>2
  <2>4. \A a \in Nat, c \in Nat : c <= a - 1 => a - c \in Nat /\ c + 0 + (a - c) = a
    OBVIOUS
  <2>5. D - p \in Nat /\ p + 0 + (D - p) = D
    BY <2>3, <2>4
  <2> QED
    BY <2>1, <2>3, <2>5
<1>11. TypeOK'
  BY <1>1, <1>2, <1>5, <1>7, <1>9, <1>10 DEF IInv, TypeOK
<1>12. WindowValid'
  <2>1. ~Over => Len(decoded') = Len(delivered') + 0
    BY <1>2, <1>7, <1>9
  <2>2. Delivering'
    BY <1>1, <1>2, <1>3, <1>5, <1>6, <1>7, <1>9, <1>10, <2>1 DEF Delivering, InWindow
  <2> QED
    BY <1>1, <1>2, <1>6, <1>9, <2>2 DEF WindowValid
<1>13. ReturnsValid'
  <2>1. ASSUME status' = "stream_end"
        PROVE  Op.op = "done" /\ (stream.zlib => decoded = Text)
    BY <1>5, <2>1 DEF IInv, ReturnsValid, EndOf
  <2>2. ~(status' = "none" /\ pc' = "idle") /\ pc' # "back"
    BY <1>5
  <2> QED
    BY <1>2, <1>3, <1>4, <1>9, <2>1, <2>2 DEF ReturnsValid
<1> QED
  BY <1>4, <1>11, <1>12, <1>13 DEF IInv

(* At the beginning nothing is written and no bit is taken.                *)
LEMMA Start ==
  ASSUME Init
  PROVE  IInv
<1>1. stream \in Streams /\ DictSize \in Nat \ {0}
  BY SizesAssumption DEF Init
<1>2. stream.size \in Nat /\ Len(stream.ops) \in Nat \ {0}
  BY <1>1, StreamIs
<1>3. TypeOK
  <2>1. Unknown \in Datum /\ << >> \in Seq(Datum)
    BY BytesAreData
  <2>2. offered \in 0 .. stream.size /\ taken \in 0 .. offered
    BY <1>2 DEF Init
  <2>3. dict \in [0 .. DictSize - 1 -> Datum] /\ dict_ofs \in 0 .. DictSize - 1
        /\ dict_avail \in 0..DictSize
    BY <1>1, <2>1 DEF Init
  <2>4. at \in 1 .. Len(stream.ops)
    BY <1>2 DEF Init
  <2>5. caller \in {"inflate", "heap", "callback"}
    BY SizesAssumption DEF Init
  <2>6. decoded \in Seq(Datum) /\ delivered \in Seq(Datum)
    BY <2>1 DEF Init
  <2> QED
    BY <1>1, <2>5, <2>6, <2>1, <2>2, <2>3, <2>4 DEF Init, TypeOK
<1>4. PlaceValid
  <2>1. at - 1 = 0 /\ Part = 0 /\ Len(decoded) = 0
    BY DEF Init, Part
  <2>2. Len(Texts(stream.ops)[0]) = 0 /\ Positions(stream.ops)[0] = 0
    BY <1>1, TextIs, PositionsAre
  <2>3. 8 * taken - num_bits = 0
    BY DEF Init
  <2>4. \A k \in 1 .. Len(decoded) : FALSE
    BY <2>1
  <2> QED
    BY <2>1, <2>2, <2>3, <2>4 DEF Init, PlaceValid, Astray
<1>5. BufferValid
  BY DEF Init, BufferValid
<1>6. WindowValid
  <2>1. decoded = << >> /\ delivered = << >> /\ Len(decoded) = 0 /\ Len(delivered) = 0
    BY DEF Init
  <2>2. dict_ofs = Len(delivered) % DictSize
    <3>1. 0 \in 0 .. DictSize - 1
      BY <1>1
    <3>2. 0 % DictSize = 0
      BY <1>1, <3>1, ModKeeps
    <3> QED
      BY <2>1, <3>2 DEF Init
  <2>3. Delivering
    BY <2>1, <2>2 DEF Init, Delivering, InWindow
  <2> QED
    BY <2>1, <2>3 DEF Init, WindowValid
<1>7. ReturnsValid
  BY DEF Init, ReturnsValid, EndOf
<1> QED
  BY <1>3, <1>4, <1>5, <1>6, <1>7 DEF IInv

-----------------------------------------------------------------------------
(* The system waits: nothing changes.                                      *)
LEMMA Stutters ==
  ASSUME IInv, UNCHANGED vars
  PROVE  IInv'
<1>1. /\ stream' = stream /\ caller' = caller /\ offered' = offered /\ room' = room
      /\ flush' = flush /\ no_input' = no_input /\ wrapping' = wrapping /\ more' = more
      /\ first_call' = first_call /\ has_flushed' = has_flushed
      /\ last_status' = last_status /\ dict_ofs' = dict_ofs /\ dict_avail' = dict_avail
      /\ capacity' = capacity /\ delivered' = delivered /\ status' = status /\ pc' = pc
      /\ ret' = ret /\ dict' = dict /\ space' = space /\ fresh' = fresh
      /\ decoded' = decoded /\ at' = at /\ phase' = phase /\ left' = left
      /\ lost' = lost /\ taken' = taken /\ num_bits' = num_bits
  BY DEF vars, const, call, flags, window, written, place, input
<1>2. /\ Op' = Op /\ Part' = Part /\ Text' = Text /\ InWindow' = InWindow
      /\ Over' = Over
  BY <1>1 DEF Op, Part, Text, InWindow, Over
<1>3. TypeOK'
  BY <1>1 DEF IInv, TypeOK
<1>4. PlaceValid' /\ BufferValid'
  BY <1>1, <1>2 DEF IInv, PlaceValid, BufferValid, Astray
<1>5. WindowValid'
  <2>1. Delivering' = Delivering /\ Finishing' = Finishing /\ Finished' = Finished
    BY <1>1, <1>2 DEF Delivering, Finishing, Finished
  <2> QED
    BY <1>1, <2>1 DEF IInv, WindowValid
<1>6. ReturnsValid'
  BY <1>1, <1>2 DEF IInv, ReturnsValid, EndOf
<1> QED
  BY <1>3, <1>4, <1>5, <1>6 DEF IInv

(* Every step keeps the invariant.                                         *)
LEMMA StepKeeps ==
  ASSUME IInv, [Next]_vars
  PROVE  IInv'
<1>1. CASE tinfl_decompress
  BY <1>1, DecompressKeeps
<1>2. CASE AfterInflate
  BY <1>2, AfterInflateKeeps
<1>3. CASE AfterFinish
  BY <1>3, AfterFinishKeeps
<1>4. CASE Begin
  BY <1>4, BeginKeeps
<1>5. CASE AfterHeap
  BY <1>5, AfterHeapKeeps
<1>6. CASE AfterCallback
  BY <1>6, AfterCallbackKeeps
<1>7. CASE CallInflate
  BY <1>7, CallKeeps
<1>8. CASE UNCHANGED vars
  BY <1>8, Stutters
<1> QED
  BY <1>1, <1>2, <1>3, <1>4, <1>5, <1>6, <1>7, <1>8 DEF Next, Work

(* For all streams, callers, sizes of the window, of the pieces of input   *)
(* and of the room: the bits and bytes accounted for are those of the      *)
(* stream, and the window holds what waits (miniz.c:1235-1302, 1327-1697). *)
THEOREM Invariance == Spec => []IInv
<1>1. Init => IInv
  BY Start
<1>2. IInv /\ [Next]_vars => IInv'
  BY StepKeeps
<1> QED
  BY <1>1, <1>2, PTL DEF Spec

(* What is decoded does not outgrow the text.                              *)
LEMMA NoMoreThanText ==
  ASSUME IInv, ~Astray
  PROVE  Len(decoded) <= Len(Text)
<1>1. stream \in Streams /\ at \in 1 .. Len(stream.ops) /\ ~lost /\ Op.op # "void"
  BY AtIs DEF IInv, Astray
<1>2. Len(Text) \in Nat /\ Len(Texts(stream.ops)[at]) <= Len(Text)
  BY <1>1, TextIs, LenProperties DEF Text
<1>3. PICK a \in Nat, b \in Nat, n \in Nat :
        /\ a = Len(Texts(stream.ops)[at - 1]) /\ b = Len(Texts(stream.ops)[at])
        /\ n = Len(decoded) /\ b = a + Adds(Op) /\ n = a + Part
  BY <1>1, Here
<1>4. Part \in 0 .. Adds(Op) /\ Adds(Op) \in Nat
  BY <1>1, PartIs, AtIs, AddsIs DEF IInv
<1> QED
  BY <1>2, <1>3, <1>4

(* What is there of a text of which the known part is written.             *)
LEMMA TextIsThere ==
  ASSUME IInv, ~lost
  PROVE  \/ Prefix(decoded, Text)
         \/ Prefix(SubSeq(Text, 1, stream.known), decoded)
<1>1. stream \in Streams /\ at \in 1 .. Len(stream.ops) /\ Op \in Operation
  BY AtIs DEF IInv
<1>2. PICK t \in Seq(Datum), L \in Nat, n \in Nat, d \in Seq(Datum) :
        t = Text /\ L = Len(t) /\ d = decoded /\ n = Len(d)
  <2>1. Text \in Seq(Datum)
    BY <1>1, TextIs DEF Text
  <2>2. decoded \in Seq(Datum)
    BY BytesAreData DEF IInv, TypeOK
  <2> QED
    BY <2>1, <2>2, LenProperties
<1>3. PICK q \in Nat : q = stream.known /\ q <= L
  BY <1>1, <1>2, KnownIs DEF Text
<1>4. \A k \in 1..n : k <= q => d[k] = t[k]
  BY <1>2, <1>3 DEF IInv, PlaceValid, Astray
<1>5. CASE n <= q
  <2>1. Len(SubSeq(t, 1, n)) = n /\ SubSeq(t, 1, n) \in Seq(Datum)
    BY <1>2, <1>3, <1>5, SubSeqProperties
  <2>2. \A k \in 1..n : SubSeq(t, 1, n)[k] = t[k]
    BY <1>2, <1>3, <1>5, SubSeqProperties
  <2>3. \A k \in 1..n : d[k] = t[k]
    BY <1>3, <1>4, <1>5
  <2>4. d = SubSeq(t, 1, n)
    BY <1>2, <2>1, <2>2, <2>3, SeqEqual
  <2> QED
    BY <1>2, <1>3, <1>5, <2>4 DEF Prefix
<1>6. CASE q < n
  <2>1. Len(SubSeq(t, 1, q)) = q /\ SubSeq(t, 1, q) \in Seq(Datum)
    BY <1>2, <1>3, SubSeqProperties
  <2>2. \A k \in 1..q : SubSeq(t, 1, q)[k] = t[k]
    BY <1>2, <1>3, SubSeqProperties
  <2>3. Len(SubSeq(d, 1, q)) = q /\ SubSeq(d, 1, q) \in Seq(Datum)
    BY <1>2, <1>6, SubSeqProperties
  <2>4. \A k \in 1..q : SubSeq(d, 1, q)[k] = d[k]
    BY <1>2, <1>6, SubSeqProperties
  <2>5. \A k \in 1..q : d[k] = t[k]
    BY <1>4, <1>6
  <2>6. SubSeq(t, 1, q) = SubSeq(d, 1, q)
    BY <2>1, <2>2, <2>3, <2>4, <2>5, SeqEqual
  <2> QED
    BY <1>2, <1>3, <1>6, <2>1, <2>6 DEF Prefix
<1> QED
  BY <1>5, <1>6

(* What the caller has got are the first bytes decoded.                    *)
LEMMA DeliveredIsThere ==
  ASSUME IInv
  PROVE  Prefix(delivered, decoded)
<1>1. PICK v \in Seq(Datum), d \in Seq(Datum), g \in Nat, n \in Nat :
        v = delivered /\ d = decoded /\ g = Len(v) /\ n = Len(d)
  BY LenProperties DEF IInv, TypeOK
<1>2. \A k \in 1..g : k <= n /\ v[k] = d[k]
  BY <1>1 DEF IInv, WindowValid
<1>3. g <= n
  <2>1. CASE g = 0
    BY <2>1
  <2>2. CASE g # 0
    <3>1. g \in 1..g
      BY <2>2
    <3> QED
      BY <1>2, <3>1
  <2> QED
    BY <2>1, <2>2
<1>4. Len(SubSeq(d, 1, g)) = g /\ SubSeq(d, 1, g) \in Seq(Datum)
  BY <1>1, <1>3, SubSeqProperties
<1>5. \A k \in 1..g : SubSeq(d, 1, g)[k] = d[k]
  BY <1>1, <1>3, SubSeqProperties
<1>6. v = SubSeq(d, 1, g)
  BY <1>1, <1>2, <1>4, <1>5, SeqEqual
<1> QED
  BY <1>1, <1>3, <1>6 DEF Prefix

(* However the input and the room are cut into calls: what is decoded is   *)
(* the text of the stream, and what the caller gets is what was decoded,   *)
(* although the window goes round under it (miniz.c:1440-1697, 1238-1298). *)
THEOREM OutputIsTheText == Spec => []OutputIsText
<1>1. ASSUME IInv
      PROVE  OutputIsText
  <2>1. ASSUME caller = "inflate", pc = "idle", ~Bad(last_status), ~Over
        PROVE  Len(delivered) + dict_avail = Len(decoded)
    <3>1. Delivering \/ Finished
      BY <1>1, <2>1 DEF IInv, WindowValid, Finishing
    <3>2. CASE Delivering
      BY <2>1, <3>2 DEF Delivering
    <3>3. CASE Finished
      <4>1. Len(decoded) \in Nat
        BY <1>1, LenProperties DEF IInv, TypeOK
      <4>2. dict_avail = 0 /\ delivered = decoded
        BY <3>3 DEF Finished
      <4> QED
        BY <4>1, <4>2
    <3> QED
      BY <3>1, <3>2, <3>3
  <2> QED
    BY <1>1, <2>1, TextIsThere, NoMoreThanText, DeliveredIsThere DEF OutputIsText
<1> QED
  BY <1>1, Invariance, PTL

(* A stream with a checksum is never reported as ended before the caller   *)
(* has all of it, and a whole one never as damaged (miniz.c:1675-1696).    *)
THEOREM EndIsTheWhole == Spec => []EndIsWhole
<1>1. ASSUME IInv
      PROVE  EndIsWhole
  <2>1. ASSUME status = "stream_end", stream.zlib PROVE delivered = Text
    <3>1. decoded = Text /\ (~Over => delivered = decoded)
      BY <1>1, <2>1 DEF IInv, ReturnsValid
    <3>2. ~Over
      <4>1. Len(decoded) \in Nat /\ Len(decoded) = Len(Text) /\ MaxGarbage \in Nat
        BY <1>1, <3>1, LenProperties, SizesAssumption DEF IInv, TypeOK
      <4> QED
        BY <4>1 DEF Over
    <3> QED
      BY <3>1, <3>2
  <2>2. ASSUME status = "stream_end", ~lost, stream.whole PROVE delivered = Text
    <3>1. Op.op = "done" /\ (~Over => delivered = decoded)
      BY <1>1, <2>2 DEF IInv, ReturnsValid
    <3>2. ~Over
      BY <1>1, <2>2, <3>1, Here
    <3> QED
      BY <1>1, <2>2, <3>1, <3>2, EndIsText
  <2>3. pc = "back" /\ Bad(ret) /\ stream.whole => lost \/ offered < stream.size
    BY <1>1 DEF IInv, ReturnsValid
  <2> QED
    BY <2>1, <2>2, <2>3 DEF EndIsWhole
<1> QED
  BY <1>1, Invariance, PTL

(* The bit buffer never overflows its 64 bits (miniz.c:1568-1576).         *)
THEOREM BufferHolds == Spec => []BufferFits
<1>1. IInv => BufferFits
  BY DEF IInv, BufferValid, BufferFits
<1> QED
  BY <1>1, Invariance, PTL

(* At the end of a stream fewer than 8 bytes from behind it have been      *)
(* read, fewer than 4 behind a checksum: not none, as the comments say,    *)
(* but no more than the bit buffer holds (miniz.c:1368, 1409, 1568-1576).  *)
THEOREM ReadAheadBounded == Spec => []ReadsAheadLittle
<1>1. ASSUME IInv
      PROVE  ReadsAheadLittle
  <2>1. PICK b \in 0..61 : b = num_bits
    BY <1>1 DEF IInv, TypeOK, BufferValid
  <2>2. ASSUME ret = "done", stream.zlib PROVE b <= 24
    <3>1. PICK N \in Nat \ {0} : N = Len(stream.ops) /\ at = N
      BY <1>1, <2>2, AtIs DEF IInv, ReturnsValid, EndOf
    <3>2. at >= Len(stream.ops) - 4 /\ 8 * (Len(stream.ops) - at) = 0
      BY <3>1
    <3>3. num_bits <= 24 + 8 * (Len(stream.ops) - at)
      BY <1>1, <2>2, <3>2 DEF IInv, BufferValid
    <3> QED
      BY <2>1, <3>2, <3>3
  <2>3. b \div 8 <= 7 /\ (b <= 24 => b \div 8 <= 3)
    BY <2>1
  <2> QED
    BY <2>1, <2>2, <2>3 DEF ReadsAheadLittle
<1> QED
  BY <1>1, Invariance, PTL
=============================================================================
