---------------------------- MODULE HuffmanProofs ----------------------------
(***************************************************************************)
(* Proofs about the codes of a block.  HuffCode, for all tables of any     *)
(* size, any longest code and any number of trees in a pool: the inductive *)
(* invariant IInv, and from it that trees are well formed and that nodes   *)
(* are never changed; the inductive invariant FillInv, that a tree is      *)
(* built for the tables whose codes fill the code space a whole number of  *)
(* times and for no other; and the inductive invariant CodeInv, where the  *)
(* nodes of each level are, from which the codes are those of RFC 1951.    *)
(* CodeLengths, for all counts, fields and runs: the lengths of the first  *)
(* code come to the symbols RFC 1951 means, and the two tables are what    *)
(* the sequence of symbols decoded stands for.                             *)
(***************************************************************************)
EXTENDS HuffCode, CodeLengths, FiniteSetTheorems, SequenceTheorems,
        WellFoundedInduction, TLAPS

-----------------------------------------------------------------------------
(* Sizes.                                                                  *)

(* A set of a table's symbols is no larger than a table can be.            *)
LEMMA SymbolsAreFew ==
  ASSUME NEW t \in Tables, NEW S \in SUBSET DOMAIN t
  PROVE  IsFiniteSet(S) /\ Cardinality(S) \in 0..TableSize
<1>1. PICK n \in 0..TableSize : t \in [0 .. n - 1 -> 0..MaxLength]
  BY TablesAssumption
<1>2. n \in Nat /\ n <= TableSize
  BY <1>1, SizesAssumption
<1>3. IsFiniteSet(0 .. n - 1) /\ Cardinality(0 .. n - 1) = n
  BY <1>2, FS_Interval
<1>4. S \subseteq 0 .. n - 1
  BY <1>1
<1>5. IsFiniteSet(S) /\ Cardinality(S) <= n
  BY <1>3, <1>4, FS_Subset
<1>6. Cardinality(S) \in Nat
  BY <1>5, FS_CardinalityType
<1> QED
  BY <1>2, <1>5, <1>6, SizesAssumption

(* A tree more takes at most two nodes more for each symbol of a table,    *)
(* and as many as there may be fit the index.                              *)
LEMMA MostGrows ==
  /\ \A k \in Nat : Most(k) \in Nat /\ Most(k + 1) = Most(k) + 2 * TableSize
  /\ \A k \in 0..MaxTrees : Most(k) <= IndexSize
<1>1. TableSize \in Nat /\ MaxTrees \in Nat /\ Most(MaxTrees) <= IndexSize
  BY SizesAssumption DEF Most
<1>2. ASSUME NEW k \in Nat
      PROVE  Most(k) \in Nat /\ Most(k + 1) = Most(k) + 2 * TableSize
  BY <1>1 DEF Most
<1>3. ASSUME NEW k \in 0..MaxTrees PROVE Most(k) <= IndexSize
  <2>1. 2 * TableSize * k <= 2 * TableSize * MaxTrees
    BY <1>1
  <2> QED
    BY <1>1, <2>1, SizesAssumption DEF Most
<1> QED
  BY <1>2, <1>3

(* The nodes in a pool, those of the tree being built included, are never  *)
(* more than the trees begun may have.                                     *)
LEMMA PoolIsSmall ==
  ASSUME IInv
  PROVE  /\ Len(pool) \in Nat /\ Len(trees) \in Nat /\ Len(nodes) \in Nat
         /\ Len(new_nodes) \in Nat /\ Begun \in 0..MaxTrees
         /\ Len(pool) <= Most(Begun)
         /\ Building => /\ Loose \in Nat
                        /\ Len(pool) + Loose <= Most(Len(trees)) + 2 * Cardinality(Seen)
<1>1. /\ Len(pool) \in Nat /\ Len(trees) \in Nat /\ Len(nodes) \in Nat
      /\ Len(new_nodes) \in Nat /\ i \in Nat /\ start \in Nat
  BY LenProperties DEF IInv, TypeOK
<1>2. Begun \in 0..MaxTrees
  BY <1>1, SizesAssumption DEF IInv, SizeValid, Begun
<1>3. Building => Loose \in Nat
  BY <1>1 DEF IInv, SizeValid, Loose, Building
<1>4. ASSUME Building
      PROVE  /\ Len(pool) + Loose <= Most(Len(trees)) + 2 * Cardinality(Seen)
             /\ Len(pool) <= Most(Begun)
  <2>1. Cardinality(Seen) \in 0..TableSize
    <3>1. table \in Tables
      BY <1>4 DEF IInv, TypeOK, Building
    <3>2. Seen \in SUBSET DOMAIN table
      BY DEF Seen
    <3> QED
      BY <3>1, <3>2, SymbolsAreFew
  <2>2. /\ Len(pool) + Loose = start + 2 * Cardinality(Seen)
        /\ start <= Most(Len(trees))
    BY <1>4 DEF IInv, SizeValid
  <2>3. Begun = Len(trees) + 1
    BY <1>4 DEF Begun
  <2>4. /\ Most(Len(trees)) \in Nat
        /\ Most(Begun) = Most(Len(trees)) + 2 * TableSize
    BY <1>1, <2>3, MostGrows
  <2>5. Loose \in Nat /\ TableSize \in Nat /\ Cardinality(Seen) <= TableSize
        /\ Cardinality(Seen) \in Nat
    BY <1>3, <1>4, <2>1, SizesAssumption
  <2> HIDE DEF Most, Loose, Seen, Begun
  <2> QED
    BY <1>1, <2>2, <2>4, <2>5
<1>5. ~Building => Len(pool) <= Most(Begun)
  BY DEF IInv, SizeValid
<1> QED
  BY <1>1, <1>2, <1>3, <1>4, <1>5

-----------------------------------------------------------------------------
(* 16 bits hold a small index as it is.                                    *)
LEMMA SmallIndexKept ==
  ASSUME NEW a \in Nat, NEW m \in Nat, a < m
  PROVE  a % m = a
<1>1. m > 0 /\ a % m \in 0 .. m - 1 /\ a \div m \in Int
  BY Z3
<1>2. a = m * (a \div m) + (a % m)
  BY <1>1, Z3
<1>3. a \div m = 0
  BY <1>1, <1>2, Z3
<1> QED
  BY <1>1, <1>2, <1>3

(* What is known of the nodes stays so when nodes are added.               *)
Grows ==
  /\ Len(pool) <= Len(pool') /\ Len(born) <= Len(born')
  /\ \A n \in 1 .. Len(pool) : pool'[n] = pool[n]
  /\ \A n \in 1 .. Len(born) : born'[n] = born[n]

(* A node keeps the tree and the level it was made for,                    *)
LEMMA MadeForKept ==
  ASSUME TypeOK, PoolValid, Grows, NEW x \in Nat, NEW k, NEW l, MadeFor(x, k, l)
  PROVE  MadeFor(x, k, l)' /\ node(x)' = node(x)
<1>1. x < Len(pool) /\ Len(pool) = Len(born) /\ Len(pool) \in Nat /\ Len(pool') >= Len(pool)
  BY LenProperties DEF TypeOK, PoolValid, MadeFor, Grows
<1>2. x + 1 \in 1 .. Len(pool) /\ x + 1 \in 1 .. Len(born)
  BY <1>1
<1> QED
  BY <1>1, <1>2 DEF MadeFor, Grows, node

(* and a node that is valid stays so.                                      *)
LEMMA ValidKept ==
  ASSUME TypeOK, PoolValid, Grows, NEW n \in 1 .. Len(pool),
         TableOf(born[n].tree)' = TableOf(born[n].tree)
  PROVE  /\ pool'[n] = pool[n] /\ born'[n] = born[n]
         /\ (pool[n].kind = "leaf" => LeafValid(n))'
         /\ (pool[n].kind = "branch" => BranchValid(n))'
<1>1. pool'[n] = pool[n] /\ born'[n] = born[n]
  BY DEF PoolValid, Grows
<1>2. (pool[n].kind = "leaf" => LeafValid(n))'
  BY <1>1 DEF PoolValid, LeafValid
<1>3. ASSUME pool[n].kind = "branch" PROVE BranchValid(n)'
  <2>1. pool[n] \in Node /\ Len(pool) = Len(born) /\ Len(pool) \in Nat
    BY ElementOfSeq, LenProperties DEF TypeOK, PoolValid
  <2>2. BranchValid(n)
    BY <1>3 DEF PoolValid
  <2>3. ASSUME NEW child \in {pool[n].left, pool[n].right}
        PROVE  /\ child + 1 < n /\ born'[child + 1] = born[child + 1]
    <3>1. child \in Nat /\ child + 1 < n
      BY <2>1, <2>2 DEF Node, BranchValid
    <3>2. child + 1 \in 1 .. Len(born)
      BY <2>1, <3>1
    <3> QED
      BY <3>1, <3>2 DEF Grows
  <2> QED
    BY <1>1, <2>2, <2>3 DEF BranchValid
<1> QED
  BY <1>1, <1>2, <1>3

(* A node pushed while a tree is built is kept at the end of the pool and  *)
(* of the level, under its own index.                                      *)
LEMMA PushNodeAdds ==
  ASSUME IInv, NEW m \in Node, PushNode(m), Len(pool) < IndexSize
  PROVE  /\ Grows
         /\ pool' \in Seq(Node) /\ Len(pool') = Len(pool) + 1
         /\ pool'[Len(pool) + 1] = m
         /\ born' \in Seq([tree : Nat, level : 0..MaxLength])
         /\ Len(born') = Len(pool) + 1
         /\ born'[Len(pool) + 1] = [tree |-> Len(trees) + 1, level |-> il]
         /\ new_nodes' = Append(new_nodes, Len(pool))
         /\ new_nodes' \in Seq(Nat) /\ Len(new_nodes') = Len(new_nodes) + 1
         /\ \A n \in 1 .. Len(new_nodes') :
              new_nodes'[n] = IF n <= Len(new_nodes) THEN new_nodes[n] ELSE Len(pool)
<1>1. /\ pool \in Seq(Node) /\ new_nodes \in Seq(Nat) /\ Len(new_nodes) \in Nat
      /\ born \in Seq([tree : Nat, level : 0..MaxLength])
      /\ Len(pool) \in Nat /\ Len(born) = Len(pool) /\ Len(trees) \in Nat
      /\ il \in 0..MaxLength
  BY LenProperties DEF IInv, TypeOK, PoolValid
<1>2. Len(pool) % IndexSize = Len(pool)
  BY <1>1, SizesAssumption, SmallIndexKept
<1>3. new_nodes' = Append(new_nodes, Len(pool))
  BY <1>2 DEF PushNode
<1>4. /\ new_nodes' \in Seq(Nat) /\ Len(new_nodes') = Len(new_nodes) + 1
      /\ \A n \in 1 .. Len(new_nodes') :
           new_nodes'[n] = IF n <= Len(new_nodes) THEN new_nodes[n] ELSE Len(pool)
  BY <1>1, <1>3, AppendProperties
<1>5. /\ pool' \in Seq(Node) /\ Len(pool') = Len(pool) + 1
      /\ pool'[Len(pool) + 1] = m
      /\ \A n \in 1 .. Len(pool) : pool'[n] = pool[n]
  BY <1>1, AppendProperties DEF PushNode
<1>6. [tree |-> Len(trees) + 1, level |-> il] \in [tree : Nat, level : 0..MaxLength]
  BY <1>1
<1>7. /\ born' \in Seq([tree : Nat, level : 0..MaxLength])
      /\ Len(born') = Len(pool) + 1
      /\ born'[Len(pool) + 1] = [tree |-> Len(trees) + 1, level |-> il]
      /\ \A n \in 1 .. Len(born) : born'[n] = born[n]
  BY <1>1, <1>6, AppendProperties DEF PushNode
<1> QED
  BY <1>1, <1>3, <1>4, <1>5, <1>7 DEF Grows

-----------------------------------------------------------------------------
(* What the building of a tree keeps.                                      *)

(* A leaf or a branch that is right for its level leaves the pool, the     *)
(* levels and the trees already built right.                               *)
LEMMA PushKeeps ==
  ASSUME IInv, Building, NEW m \in Node, PushNode(m), Len(pool) < IndexSize,
         i' \in Nat, UNCHANGED <<trees, call, table, il, nodes, levels, start, walk>>,
         m.kind = "leaf" => m.value \in DOMAIN table /\ table[m.value] = il /\ il > 0,
         m.kind = "branch" =>
           \A child \in {m.left, m.right} : MadeFor(child, Len(trees) + 1, il + 1)
  PROVE  TypeOK' /\ PoolValid' /\ BuildValid' /\ WalkValid'
<1> SUFFICES ASSUME NEW last, last = Len(pool) + 1,
                    NEW mark, mark = [tree |-> Len(trees) + 1, level |-> il]
             PROVE  TypeOK' /\ PoolValid' /\ BuildValid' /\ WalkValid'
  OBVIOUS
<1>0. /\ pool' \in Seq(Node) /\ Len(pool') = last /\ pool'[last] = m
      /\ born' \in Seq([tree : Nat, level : 0..MaxLength])
      /\ Len(born') = last /\ born'[last] = mark
      /\ new_nodes' \in Seq(Nat) /\ Len(new_nodes') = Len(new_nodes) + 1
      /\ \A n \in 1 .. Len(new_nodes') :
           new_nodes'[n] = IF n <= Len(new_nodes) THEN new_nodes[n] ELSE Len(pool)
  BY PushNodeAdds
<1>1. Grows /\ TypeOK /\ PoolValid
  BY PushNodeAdds DEF IInv
<1>2. TypeOK'
  BY <1>0 DEF IInv, TypeOK
<1>3. /\ Len(pool) \in Nat /\ Len(pool') = Len(pool) + 1 /\ Len(born') = Len(pool')
      /\ Len(born) = Len(pool) /\ Len(trees) \in Nat
      /\ Len(trees') = Len(trees) /\ Len(new_nodes) \in Nat
  BY <1>0, <1>1, LenProperties DEF TypeOK, PoolValid
<1>4. \A k : TableOf(k)' = TableOf(k)
  BY DEF TableOf
<1>5. ASSUME NEW n \in 1 .. Len(pool)
      PROVE  /\ pool'[n] = pool[n] /\ born'[n] = born[n]
             /\ (pool[n].kind = "leaf" => LeafValid(n))'
             /\ (pool[n].kind = "branch" => BranchValid(n))'
  <2>1. born'[n] = born[n]
    BY <1>1, <1>3 DEF Grows
  <2>2. TableOf(born[n].tree)' = TableOf(born[n].tree)
    BY <1>4, <2>1
  <2> QED
    BY <1>1, <2>2, ValidKept
<1>8. (pool[last].kind = "leaf")' => LeafValid(last)'
  <2>1. TableOf(born[last].tree)' = table
    BY <1>0, <1>3 DEF TableOf
  <2> QED
    BY <1>0, <1>3, <2>1 DEF LeafValid
<1>9. ASSUME (pool[last].kind = "branch")' PROVE BranchValid(last)'
  <2>1. ASSUME NEW child \in {m.left, m.right}
        PROVE  /\ child + 1 < last
               /\ born'[child + 1] = [tree |-> Len(trees) + 1, level |-> il + 1]
    <3>1. child \in Nat /\ MadeFor(child, Len(trees) + 1, il + 1)
      <4>1. m.kind = "branch"
        BY <1>0, <1>9
      <4> QED
        BY <4>1 DEF Node
    <3>2. MadeFor(child, Len(trees) + 1, il + 1) => /\ child < Len(pool)
               /\ born[child + 1] = [tree |-> Len(trees) + 1, level |-> il + 1]
      BY DEF MadeFor
    <3>3. child + 1 \in 1 .. Len(born)
      BY <1>3, <3>1, <3>2
    <3> QED
      BY <1>1, <1>3, <3>1, <3>2, <3>3 DEF Grows
  <2> QED
    BY <1>0, <2>1 DEF BranchValid
<1>10. ASSUME NEW k, NEW l, NEW x \in Nat, MadeFor(x, k, l)
       PROVE  MadeFor(x, k, l)' /\ node(x)' = node(x)
  BY <1>1, <1>10, MadeForKept
<1>11. PoolValid'
  <2>1. ASSUME NEW n \in 1 .. Len(pool')
        PROVE  /\ born'[n].tree \in 1 .. Len(trees) + 1
               /\ (pool[n].kind = "leaf" => LeafValid(n))'
               /\ (pool[n].kind = "branch" => BranchValid(n))'
    <3>1. CASE n = last
      BY <1>3, <1>0, <1>8, <1>9, <3>1
    <3>2. CASE n # last
      <4>1. n \in 1 .. Len(pool)
        BY <1>3, <3>2
      <4> QED
        BY <1>1, <1>5, <4>1 DEF PoolValid
    <3> QED
      BY <3>1, <3>2
  <2>2. ASSUME NEW k \in 1 .. Len(trees) PROVE MadeFor(trees[k].root, k, 0)'
    <3>1. trees[k].root \in Nat /\ MadeFor(trees[k].root, k, 0)
      <4>1. trees[k] \in [table : Tables, root : Nat]
        BY <1>1, ElementOfSeq DEF TypeOK
      <4> QED
        BY <1>1, <4>1 DEF PoolValid
    <3>2. MadeFor(trees[k].root, k, 0)'
      BY <1>10, <3>1
    <3> QED
      BY <3>2
  <2> QED
    BY <1>3, <2>1, <2>2 DEF PoolValid, Building
<1>12. BuildValid'
  <2>1. ASSUME NEW n \in 1 .. Len(nodes)
        PROVE  MadeFor(nodes[n], Len(trees) + 1, il + 1)'
    <3>1. nodes[n] \in Nat /\ MadeFor(nodes[n], Len(trees) + 1, il + 1)
      BY ElementOfSeq DEF IInv, TypeOK, BuildValid
    <3> QED
      BY <1>10, <3>1
  <2>2. ASSUME NEW n \in 1 .. Len(new_nodes')
        PROVE  MadeFor(new_nodes[n], Len(trees) + 1, il)'
    <3>1. CASE n \in 1 .. Len(new_nodes)
      <4>1. new_nodes[n] \in Nat /\ MadeFor(new_nodes[n], Len(trees) + 1, il)
        BY <3>1, ElementOfSeq DEF IInv, TypeOK, BuildValid
      <4>2. new_nodes'[n] = new_nodes[n]
        BY <1>0, <1>3, <3>1
      <4> QED
        BY <1>10, <4>1, <4>2 DEF MadeFor
    <3>2. CASE n \notin 1 .. Len(new_nodes)
      <4>1. new_nodes'[n] = Len(pool)
        BY <1>0, <1>3, <3>2
      <4> QED
        BY <1>3, <1>0, <4>1 DEF MadeFor
    <3> QED
      BY <3>1, <3>2
  <2> QED
    BY <2>1, <2>2 DEF BuildValid
<1>13. WalkValid'
  <2>1. SUFFICES ASSUME walk.tree > 0
                 PROVE  /\ walk.tree <= Len(trees)
                        /\ MadeFor(walk.current, walk.tree, walk.bits)'
                        /\ call # "decode" => node(walk.current)'.kind = "leaf"
    BY DEF WalkValid, Building
  <2>2. walk.current \in Nat /\ MadeFor(walk.current, walk.tree, walk.bits)
    BY <2>1 DEF IInv, TypeOK, WalkValid
  <2>3. MadeFor(walk.current, walk.tree, walk.bits)' /\ node(walk.current)' = node(walk.current)
    BY <1>10, <2>2
  <2> QED
    BY <2>1, <2>3 DEF IInv, WalkValid
<1> QED
  BY <1>2, <1>11, <1>12, <1>13

(* Without a new node, what was right stays right, as long as the tables   *)
(* its nodes were made for stay.                                           *)
LEMMA PoolStays ==
  ASSUME IInv, UNCHANGED <<pool, born>>,
         \A n \in 1 .. Len(pool) : TableOf(born[n].tree)' = TableOf(born[n].tree)
  PROVE  /\ \A n \in 1 .. Len(pool) :
              /\ (pool[n].kind = "leaf" => LeafValid(n))'
              /\ (pool[n].kind = "branch" => BranchValid(n))'
         /\ \A x, k, l : MadeFor(x, k, l)' = MadeFor(x, k, l)
         /\ \A x : node(x)' = node(x)
<1>1. Grows /\ TypeOK /\ PoolValid
  <2>1. TypeOK /\ PoolValid
    BY DEF IInv
  <2>2. pool' = pool /\ born' = born /\ Len(born) = Len(pool)
    BY <2>1 DEF PoolValid
  <2>3. Len(pool) \in Nat
    BY <2>1, LenProperties DEF TypeOK
  <2> QED
    BY <2>1, <2>2, <2>3 DEF Grows
<1>2. ASSUME NEW n \in 1 .. Len(pool)
      PROVE  /\ (pool[n].kind = "leaf" => LeafValid(n))'
             /\ (pool[n].kind = "branch" => BranchValid(n))'
  <2>1. TableOf(born[n].tree)' = TableOf(born[n].tree)
    OBVIOUS
  <2> QED
    BY <1>1, <2>1, ValidKept
<1>3. \A x, k, l : MadeFor(x, k, l)' = MadeFor(x, k, l)
  BY DEF MadeFor
<1>4. \A x : node(x)' = node(x)
  BY DEF node
<1> QED
  BY <1>2, <1>3, <1>4

(* A level is kept with those of its tree, and no other changes.           *)
LEMMA LevelKept ==
  ASSUME TypeOK
  PROVE  /\ WithLevel \in Seq([0 .. MaxLength + 1 -> Seq(Nat)])
         /\ Len(WithLevel) = Len(levels)
         /\ \A k \in 1 .. Len(levels), l \in 0 .. MaxLength + 1 :
              WithLevel[k][l] =
                IF k = Len(trees) + 1 /\ l = il THEN new_nodes ELSE levels[k][l]
<1>1. /\ levels \in Seq([0 .. MaxLength + 1 -> Seq(Nat)]) /\ Len(levels) \in Nat
      /\ new_nodes \in Seq(Nat) /\ il \in 0 .. MaxLength + 1
  BY LenProperties, SizesAssumption DEF TypeOK
<1>2. PICK n \in Nat : n = Len(levels) /\ levels \in [1..n -> [0 .. MaxLength + 1 -> Seq(Nat)]]
  BY <1>1, LenProperties
<1>3. PICK tree : tree = Len(trees) + 1
  OBVIOUS
<1>4. PICK w : w = WithLevel /\ w = [levels EXCEPT ![tree][il] = new_nodes]
  BY <1>3 DEF WithLevel
<1>5. /\ DOMAIN w = 1..n /\ w = [k \in 1..n |-> w[k]]
      /\ \A k \in 1..n : w[k] = IF k = tree THEN [levels[k] EXCEPT ![il] = new_nodes]
                               ELSE levels[k]
  BY <1>2, <1>4
<1>6. ASSUME NEW k \in 1..n
      PROVE  /\ w[k] \in [0 .. MaxLength + 1 -> Seq(Nat)]
             /\ \A l \in 0 .. MaxLength + 1 :
                  w[k][l] = IF k = tree /\ l = il THEN new_nodes ELSE levels[k][l]
  <2>1. levels[k] \in [0 .. MaxLength + 1 -> Seq(Nat)]
    BY <1>2
  <2>2. CASE k = tree
    <3>1. w[k] = [levels[k] EXCEPT ![il] = new_nodes]
      BY <1>5, <2>2
    <3> QED
      BY <1>1, <2>1, <2>2, <3>1
  <2>3. CASE k # tree
    <3>1. w[k] = levels[k]
      BY <1>5, <2>3
    <3> QED
      BY <2>1, <2>3, <3>1
  <2> QED
    BY <2>2, <2>3
<1>7. w \in [1..n -> [0 .. MaxLength + 1 -> Seq(Nat)]]
  BY <1>5, <1>6
<1>8. w \in Seq([0 .. MaxLength + 1 -> Seq(Nat)]) /\ Len(w) = n
  BY <1>2, <1>7, IsASeq, LenProperties
<1>9. \A k \in 1..n, l \in 0 .. MaxLength + 1 :
        w[k][l] = IF k = tree /\ l = il THEN new_nodes ELSE levels[k][l]
  BY <1>6
<1> QED
  BY <1>2, <1>3, <1>4, <1>8, <1>9

-----------------------------------------------------------------------------
(* The actions.                                                            *)

(* The table being built, with its symbols as numbers.                     *)
LEMMA TableBuilt ==
  ASSUME IInv, Building
  PROVE  /\ table \in Tables
         /\ \E n \in Nat : table \in [0 .. n - 1 -> 0..MaxLength]
         /\ MaxLength \in Nat /\ i \in Nat /\ il \in 0..MaxLength
<1>1. table \in Tables
  BY DEF IInv, TypeOK, Building
<1>2. PICK n \in 0..TableSize : table \in [0 .. n - 1 -> 0..MaxLength]
  BY <1>1, TablesAssumption
<1>3. n \in Nat /\ MaxLength \in Nat
  BY SizesAssumption
<1>4. i \in Nat /\ il \in 0..MaxLength
  BY DEF IInv, TypeOK
<1> QED
  BY <1>1, <1>2, <1>3, <1>4

(* There is place for a node more while a tree is built.                   *)
LEMMA PlaceForNode ==
  ASSUME IInv, Building, Loose > 0 \/ Cardinality(Seen) < TableSize
  PROVE  Len(pool) < IndexSize
<1>1. /\ Len(pool) \in Nat /\ Len(trees) \in Nat /\ Loose \in Nat
      /\ Len(pool) + Loose <= Most(Len(trees)) + 2 * Cardinality(Seen)
  BY PoolIsSmall
<1>2. Cardinality(Seen) \in Nat /\ Cardinality(Seen) <= TableSize
  <2>1. Seen \in SUBSET DOMAIN table
    BY DEF Seen
  <2> QED
    BY <2>1, TableBuilt, SymbolsAreFew, SizesAssumption
<1>3. /\ Most(Len(trees) + 1) = Most(Len(trees)) + 2 * TableSize
      /\ Most(Len(trees)) \in Nat /\ Most(Len(trees) + 1) <= IndexSize
      /\ TableSize \in Nat /\ IndexSize \in Nat
  <2>1. Len(trees) + 1 \in 0..MaxTrees
    BY <1>1, SizesAssumption DEF IInv, SizeValid, Begun
  <2> QED
    BY <1>1, <2>1, MostGrows, SizesAssumption
<1> HIDE DEF Most, Loose, Seen
<1> QED
  BY <1>1, <1>2, <1>3

(* There is an index left for the leaf of a symbol whose length is this    *)
(* level's.                                                                *)
LEMMA LeafHasPlace ==
  ASSUME IInv, call = "leaves", il > 0, i \in DOMAIN table, table[i] = il
  PROVE  Len(pool) < IndexSize
<1>1. Building /\ table \in Tables
  BY TableBuilt DEF Building
<1>2. PICK n \in Nat : table \in [0 .. n - 1 -> 0..MaxLength]
  BY <1>1, TableBuilt
<1>3. i \notin Seen /\ Seen \in SUBSET DOMAIN table /\ Seen \cup {i} \in SUBSET DOMAIN table
  BY <1>2 DEF Seen, IInv, TypeOK
<1>4. /\ IsFiniteSet(Seen) /\ Cardinality(Seen) \in Nat
      /\ Cardinality(Seen \cup {i}) <= TableSize
  BY <1>1, <1>3, SymbolsAreFew, SizesAssumption
<1>5. Cardinality(Seen \cup {i}) = Cardinality(Seen) + 1
  BY <1>3, <1>4, FS_AddElement
<1>6. Cardinality(Seen) < TableSize
  BY <1>4, <1>5, SizesAssumption
<1> QED
  BY <1>1, <1>6, PlaceForNode

(* There is an index left for the branch above two nodes.                  *)
LEMMA PairHasPlace ==
  ASSUME IInv, call = "pairs", i + 1 < Len(nodes)
  PROVE  Len(pool) < IndexSize
<1>1. Building /\ Len(nodes) \in Nat /\ Len(new_nodes) \in Nat /\ i \in Nat
  BY PoolIsSmall DEF Building, IInv, TypeOK
<1>2. Loose > 0
  BY <1>1 DEF Loose
<1> QED
  BY <1>1, <1>2, PlaceForNode

(* The leaf of a symbol of this level is new, and one of a table's symbols *)
(* more.                                                                   *)
LEMMA LeafStepKeeps ==
  ASSUME IInv, LeafStep
  PROVE  IInv'
<1>1. /\ call = "leaves" /\ Building /\ il > 0 /\ i \in DOMAIN table
      /\ UNCHANGED <<trees, call, table, il, nodes, levels, start, walk>> /\ i' = i + 1
  BY DEF LeafStep, Building
<1>2. PICK n \in Nat : table \in [0 .. n - 1 -> 0..MaxLength]
  BY <1>1, TableBuilt
<1>3. /\ table \in Tables /\ il \in 0..MaxLength /\ i \in Nat
      /\ i' \in Nat /\ MaxLength \in Nat
  BY <1>1, TableBuilt
<1>4. /\ Len(pool) \in Nat /\ Len(nodes) \in Nat /\ Len(new_nodes) \in Nat
      /\ Len(trees) \in Nat /\ Loose \in Nat
  BY <1>1, PoolIsSmall
<1>5. Len(pool) + Loose = start + 2 * Cardinality(Seen) /\ start <= Most(Len(trees))
  BY <1>1 DEF IInv, SizeValid
<1>6. Begun' = Begun /\ Begun = Len(trees) + 1 /\ Begun <= MaxTrees /\ Building'
  BY <1>1 DEF Begun, Building, IInv, SizeValid
<1>7. start \in Nat
  BY DEF IInv, TypeOK
<1>8. CASE table[i] = il /\ PushNode(Leaf(i))
  <2>1. i \in Nat /\ Leaf(i) \in Node /\ Leaf(i).kind = "leaf" /\ Leaf(i).value = i
    BY <1>3 DEF Leaf, Node
  <2>2. Seen' = Seen \cup {i} /\ i \notin Seen
    BY <1>1, <1>2, <1>3, <1>8 DEF Seen
  <2>3. Seen' \in SUBSET DOMAIN table /\ Seen \in SUBSET DOMAIN table
    BY <1>1, <2>2 DEF Seen
  <2>4. /\ IsFiniteSet(Seen) /\ Cardinality(Seen) \in Nat
        /\ Cardinality(Seen') \in 0..TableSize
    BY <1>3, <2>3, SymbolsAreFew, SizesAssumption
  <2>5. Cardinality(Seen') = Cardinality(Seen) + 1
    BY <2>2, <2>4, FS_AddElement
  <2>6. Loose = Len(new_nodes) + Len(nodes)
    BY <1>1 DEF Loose
  <2>7. Len(pool) < IndexSize
    BY <1>1, <1>8, LeafHasPlace
  <2>8. TypeOK' /\ PoolValid' /\ BuildValid' /\ WalkValid'
    BY <1>1, <1>3, <1>8, <2>1, <2>7, PushKeeps
  <2>9. Len(pool') = Len(pool) + 1 /\ Len(new_nodes') = Len(new_nodes) + 1
    BY <1>8, <2>1, <2>7, PushNodeAdds
  <2>10. Loose' = Loose + 1
    BY <1>1, <1>4, <2>6, <2>9 DEF Loose
  <2>11. Len(pool') + Loose' = start + 2 * Cardinality(Seen')
    <3>1. Cardinality(Seen) \in Nat
      BY <2>4
    <3>2. 2 * Cardinality(Seen') = 2 * Cardinality(Seen) + 2
      BY <2>5, <3>1
    <3> QED
      BY <1>4, <1>5, <1>7, <2>9, <2>10, <3>1, <3>2
  <2>12. SizeValid'
    BY <1>1, <1>5, <1>6, <2>11 DEF SizeValid, Most
  <2> QED
    BY <2>8, <2>12 DEF IInv
<1>9. CASE table[i] # il /\ UNCHANGED <<pool, born, new_nodes>>
  <2>1. Seen' = Seen
    BY <1>1, <1>2, <1>3, <1>9 DEF Seen
  <2>2. Loose' = Loose
    BY <1>1, <1>9 DEF Loose
  <2>3. SizeValid'
    BY <1>1, <1>5, <1>6, <1>9, <2>1, <2>2 DEF SizeValid, Most
  <2>4. \A k : TableOf(k)' = TableOf(k)
    BY <1>1 DEF TableOf
  <2>5. TypeOK'
    BY <1>1, <1>3, <1>9 DEF IInv, TypeOK
  <2>6. PoolValid'
    BY <1>1, <1>9, <2>4, PoolStays DEF IInv, PoolValid
  <2>7. BuildValid' /\ WalkValid'
    BY <1>1, <1>9 DEF IInv, BuildValid, WalkValid, Building, MadeFor, node
  <2> QED
    BY <2>3, <2>5, <2>6, <2>7 DEF IInv
<1> QED
  BY <1>8, <1>9 DEF LeafStep

(* A branch takes the place of the two loose nodes it is made for.         *)
LEMMA PairStepKeeps ==
  ASSUME IInv, PairStep
  PROVE  IInv'
<1> DEFINE left == nodes[i + 1]
           right == nodes[i + 2]
<1>1. /\ call = "pairs" /\ Building /\ i + 1 < Len(nodes) /\ PushNode(Branch(left, right))
      /\ UNCHANGED <<trees, call, table, il, nodes, levels, start, walk>> /\ i' = i + 2
  BY DEF PairStep, Building
<1>2. /\ Len(pool) \in Nat /\ Len(nodes) \in Nat /\ Len(new_nodes) \in Nat
      /\ Len(trees) \in Nat /\ Loose \in Nat
      /\ Len(pool) + Loose <= Most(Len(trees)) + 2 * Cardinality(Seen)
  BY <1>1, PoolIsSmall
<1>3. /\ table \in Tables /\ il \in 0..MaxLength /\ i \in Nat /\ i' \in Nat
  BY <1>1, TableBuilt
<1>4. /\ i + 1 \in 1 .. Len(nodes) /\ i + 2 \in 1 .. Len(nodes)
  BY <1>1, <1>2, <1>3
<1>5. /\ left \in Nat /\ MadeFor(left, Len(trees) + 1, il + 1)
      /\ right \in Nat /\ MadeFor(right, Len(trees) + 1, il + 1)
  BY <1>1, <1>4, ElementOfSeq DEF IInv, TypeOK, BuildValid
<1>6. SUFFICES ASSUME NEW m \in Node, m = Branch(left, right), PushNode(m)
               PROVE  IInv'
  BY <1>1, <1>5 DEF Branch, Node
<1>7. /\ m.kind = "branch" /\ m.left = left /\ m.right = right
  BY <1>6 DEF Branch
<1>8. Seen' = Seen /\ Cardinality(Seen) \in Nat /\ Cardinality(Seen) <= TableSize
  <2>1. Seen \in SUBSET DOMAIN table
    BY DEF Seen
  <2>2. Seen' = Seen
    BY <1>1 DEF Seen
  <2> QED
    BY <1>3, <2>1, <2>2, SymbolsAreFew, SizesAssumption
<1>9. /\ Len(pool) + Loose = start + 2 * Cardinality(Seen) /\ start <= Most(Len(trees))
      /\ start \in Nat
  BY <1>1 DEF IInv, SizeValid, TypeOK
<1>10. Begun' = Begun /\ Begun = Len(trees) + 1 /\ Begun <= MaxTrees /\ Building'
  BY <1>1 DEF Begun, Building, IInv, SizeValid
<1>11. Loose > 0
  BY <1>1, <1>2, <1>3 DEF Loose
<1>12. Len(pool) < IndexSize
  BY <1>1, PairHasPlace
<1>13. TypeOK' /\ PoolValid' /\ BuildValid' /\ WalkValid'
  BY <1>1, <1>3, <1>5, <1>6, <1>7, <1>12, PushKeeps
<1>14. Len(pool') = Len(pool) + 1 /\ Len(new_nodes') = Len(new_nodes) + 1
  BY <1>6, <1>12, PushNodeAdds
<1>15. Loose' = Loose - 1
  BY <1>1, <1>2, <1>3, <1>14 DEF Loose
<1>16. Len(pool') + Loose' = start + 2 * Cardinality(Seen')
  BY <1>2, <1>8, <1>9, <1>14, <1>15
<1>17. i' <= Len(nodes)
  BY <1>1, <1>2, <1>3
<1>18. SizeValid'
  BY <1>1, <1>9, <1>10, <1>16, <1>17 DEF SizeValid, Most
<1> QED
  BY <1>13, <1>18 DEF IInv

(* From the leaves of a level to its pairs nothing is made.                *)
LEMMA LeavesEndKeeps ==
  ASSUME IInv, LeavesEnd
  PROVE  IInv'
<1>1. /\ call = "leaves" /\ call' = "pairs" /\ i' = 0 /\ Building /\ Building'
      /\ UNCHANGED <<pool, trees, table, il, nodes, new_nodes, walk, born, levels, start>>
  BY DEF LeavesEnd, Building
<1>2. PICK n \in Nat : table \in [0 .. n - 1 -> 0..MaxLength]
  BY <1>1, TableBuilt
<1>3. table \in Tables /\ il \in 0..MaxLength /\ i \in Nat /\ MaxLength \in Nat
  BY <1>1, TableBuilt
<1>4. Len(nodes) \in Nat /\ Len(new_nodes) \in Nat
  BY PoolIsSmall
<1>5. Seen' = Seen
  <2>1. ASSUME NEW s \in DOMAIN table, table[s] > 0
        PROVE  table[s] = il => s < i
    <3>1. il = 0 \/ i \notin DOMAIN table
      BY DEF LeavesEnd
    <3> QED
      BY <1>2, <1>3, <2>1, <3>1
  <2> QED
    BY <1>1, <2>1 DEF Seen
<1>6. Loose' = Loose
  BY <1>1, <1>4 DEF Loose
<1>7. SizeValid'
  BY <1>1, <1>4, <1>5, <1>6 DEF IInv, SizeValid, Begun, Building, Most
<1>8. \A k : TableOf(k)' = TableOf(k)
  BY <1>1 DEF TableOf
<1>9. TypeOK'
  BY <1>1, <1>3 DEF IInv, TypeOK
<1>10. PoolValid'
  BY <1>1, <1>8, PoolStays DEF IInv, PoolValid
<1>11. BuildValid' /\ WalkValid'
  BY <1>1 DEF IInv, BuildValid, WalkValid, Building, MadeFor, node
<1> QED
  BY <1>7, <1>9, <1>10, <1>11 DEF IInv

(* The row of a level becomes the one below the next.                      *)
LEMMA LevelEndKeeps ==
  ASSUME IInv, LevelEnd
  PROVE  IInv'
<1>1. /\ call = "pairs" /\ call' = "leaves" /\ i' = 0 /\ Building /\ Building'
      /\ i >= Len(nodes) /\ il > 0 /\ il' = il - 1
      /\ nodes' = new_nodes /\ new_nodes' = << >>
      /\ UNCHANGED <<pool, trees, table, start, walk, born>> /\ levels' = WithLevel
  BY DEF LevelEnd, Building
<1>2. PICK n \in Nat : table \in [0 .. n - 1 -> 0..MaxLength]
  BY <1>1, TableBuilt
<1>3. table \in Tables /\ il \in 0..MaxLength /\ i \in Nat /\ MaxLength \in Nat
  BY <1>1, TableBuilt
<1>4. Len(nodes) \in Nat /\ Len(new_nodes) \in Nat
  BY PoolIsSmall
<1>5. Seen' = Seen
  BY <1>1, <1>2, <1>3 DEF Seen
<1>6. Loose' = Loose
  <2>1. i <= Len(nodes)
    BY <1>1 DEF IInv, SizeValid
  <2>2. Len(<< >>) = 0
    BY LenProperties, EmptySeq
  <2> QED
    BY <1>1, <1>3, <1>4, <2>1, <2>2 DEF Loose
<1>7. SizeValid'
  BY <1>1, <1>5, <1>6 DEF IInv, SizeValid, Begun, Building, Most
<1>8. \A k : TableOf(k)' = TableOf(k)
  BY <1>1 DEF TableOf
<1>9. TypeOK'
  <2>1. levels' \in Seq([0 .. MaxLength + 1 -> Seq(Nat)])
    BY <1>1, LevelKept DEF IInv
  <2> QED
    BY <1>1, <1>3, <2>1 DEF IInv, TypeOK
<1>10. PoolValid'
  BY <1>1, <1>8, PoolStays DEF IInv, PoolValid
<1>11. WalkValid'
  BY <1>1 DEF IInv, WalkValid, MadeFor, node
<1>12. BuildValid'
  <2>1. il' + 1 = il
    BY <1>1, <1>3
  <2>2. Len(new_nodes') = 0
    BY <1>1
  <2> QED
    BY <1>1, <2>1, <2>2 DEF IInv, BuildValid, MadeFor
<1> QED
  BY <1>7, <1>9, <1>10, <1>11, <1>12 DEF IInv

(* A tree is begun behind those that share its pool.                       *)
LEMMA NewCodeTreeKeeps ==
  ASSUME IInv, NEW t \in Tables, NewCodeTree(t)
  PROVE  IInv'
<1>1. /\ call = "idle" /\ call' = "leaves" /\ Len(trees) < MaxTrees
      /\ table' = t /\ il' = MaxLength /\ i' = 0 /\ nodes' = << >> /\ new_nodes' = << >>
      /\ start' = Len(pool) /\ walk' = NoWalk
      /\ levels' = Append(levels, [l \in 0 .. MaxLength + 1 |-> << >>])
      /\ UNCHANGED <<pool, trees, born>> /\ Building' /\ ~Building
  BY DEF NewCodeTree, Building
<1>2. PICK n \in 0..TableSize : t \in [0 .. n - 1 -> 0..MaxLength]
  BY TablesAssumption
<1>3. n \in Nat /\ MaxLength \in Nat /\ TableSize \in Nat /\ MaxTrees \in Nat
  BY <1>2, SizesAssumption
<1>4. /\ Len(pool) \in Nat /\ Len(trees) \in Nat /\ Len(pool) <= Most(Begun)
  BY PoolIsSmall
<1>5. Begun = Len(trees) /\ Begun' = Len(trees) + 1
  BY <1>1 DEF Begun, Building
<1>6. Seen' = {}
  BY <1>1, <1>2, <1>3 DEF Seen
<1>7. Len(<< >>) = 0 /\ << >> \in Seq(Nat)
  BY EmptySeq
<1>8. Loose' = 0
  BY <1>1, <1>7 DEF Loose
<1>9. SizeValid'
  <2>1. Cardinality(Seen') = 0
    BY <1>6, FS_EmptySet
  <2>2. start' <= Most(Len(trees))
    BY <1>1, <1>4, <1>5
  <2>3. Len(pool') + Loose' = start' + 2 * Cardinality(Seen')
    BY <1>1, <1>4, <1>8, <2>1
  <2>4. Begun' <= MaxTrees
    BY <1>1, <1>3, <1>4, <1>5
  <2> QED
    BY <1>1, <2>2, <2>3, <2>4 DEF SizeValid, Most
<1>10. TypeOK'
  <2>1. [l \in 0 .. MaxLength + 1 |-> << >>] \in [0 .. MaxLength + 1 -> Seq(Nat)]
    BY <1>7
  <2>2. levels' \in Seq([0 .. MaxLength + 1 -> Seq(Nat)])
    BY <1>1, <2>1, AppendProperties DEF IInv, TypeOK
  <2> QED
    BY <1>1, <1>3, <1>4, <1>7, <2>2 DEF IInv, TypeOK, NoWalk
<1>11. \A m \in 1 .. Len(pool) : TableOf(born[m].tree)' = TableOf(born[m].tree)
  <2>1. ASSUME NEW m \in 1 .. Len(pool) PROVE born[m].tree <= Len(trees)
    BY <1>1 DEF IInv, PoolValid
  <2> QED
    BY <1>1, <2>1 DEF TableOf
<1>12. PoolValid'
  BY <1>1, <1>11, PoolStays DEF IInv, PoolValid
<1>13. BuildValid'
  BY <1>1, <1>7 DEF BuildValid
<1>14. WalkValid'
  BY <1>1 DEF WalkValid, NoWalk
<1> QED
  BY <1>9, <1>10, <1>12, <1>13, <1>14 DEF IInv

(* What a build that throws has made stays in the pool, in no tree.        *)
LEMMA AtThrowsKeeps ==
  ASSUME IInv, AtThrows
  PROVE  IInv'
<1>1. /\ call = "pairs" /\ call' = "threw" /\ Building /\ ~Building'
      /\ UNCHANGED <<pool, trees, build, walk, born>>
  BY DEF AtThrows, Building
<1>2. Len(pool) <= Most(Begun)
  BY PoolIsSmall
<1>3. Begun' = Begun
  BY <1>1 DEF Begun, Building
<1>4. SizeValid'
  BY <1>1, <1>2, <1>3 DEF IInv, SizeValid, build, Most
<1>5. \A k : TableOf(k)' = TableOf(k)
  BY <1>1 DEF TableOf, build
<1>6. TypeOK'
  BY <1>1 DEF IInv, TypeOK, build
<1>7. PoolValid'
  BY <1>1, <1>5, PoolStays DEF IInv, PoolValid
<1>8. BuildValid' /\ WalkValid'
  BY <1>1 DEF IInv, BuildValid, WalkValid, MadeFor, node
<1> QED
  BY <1>4, <1>6, <1>7, <1>8 DEF IInv

(* The tree is complete: its root is the first node of level 0, and no     *)
(* leaf is on that level.                                                  *)
LEMMA TreeEndKeeps ==
  ASSUME IInv, TreeEnd
  PROVE  IInv'
<1> DEFINE tree == [table |-> table, root |-> new_nodes[1]]
<1>1. /\ call = "pairs" /\ call' = "idle" /\ Building /\ ~Building' /\ il = 0
      /\ new_nodes # << >> /\ trees' = Append(trees, tree)
      /\ UNCHANGED <<pool, walk, born, table, il, i, nodes, new_nodes, start>>
      /\ levels' = WithLevel
  BY DEF TreeEnd, Building
<1>2. /\ Len(pool) \in Nat /\ Len(trees) \in Nat /\ Len(new_nodes) \in Nat
      /\ Begun \in 0..MaxTrees /\ Len(pool) <= Most(Begun)
  BY PoolIsSmall
<1>3. table \in Tables
  BY <1>1, TableBuilt
<1>4. new_nodes[1] \in Nat /\ MadeFor(new_nodes[1], Len(trees) + 1, 0)
  <2>1. new_nodes \in Seq(Nat)
    BY DEF IInv, TypeOK
  <2>2. 1 \in 1 .. Len(new_nodes)
    BY <1>1, <2>1, EmptySeq, LenProperties
  <2> QED
    BY <1>1, <2>1, <2>2, ElementOfSeq DEF IInv, BuildValid
<1>5. trees \in Seq([table : Tables, root : Nat])
  BY DEF IInv, TypeOK
<1>6. tree \in [table : Tables, root : Nat]
  BY <1>3, <1>4
<1>7. /\ trees' \in Seq([table : Tables, root : Nat]) /\ Len(trees') = Len(trees) + 1
      /\ \A k \in 1 .. Len(trees) : trees'[k] = trees[k]
      /\ trees'[Len(trees) + 1] = tree
  BY <1>1, <1>5, <1>6, AppendProperties
<1>8. ASSUME NEW k \in 1 .. Len(trees) + 1
      PROVE  TableOf(k)' = TableOf(k)
  <2>1. CASE k \in 1 .. Len(trees)
    BY <1>2, <1>7, <2>1 DEF TableOf
  <2>2. CASE k = Len(trees) + 1
    <3>1. trees'[k].table = table
      BY <1>7, <2>2
    <3> QED
      BY <1>2, <1>7, <2>2, <3>1 DEF TableOf
  <2> QED
    BY <1>2, <2>1, <2>2
<1>9. TypeOK'
  <2>1. levels' \in Seq([0 .. MaxLength + 1 -> Seq(Nat)])
    BY <1>1, LevelKept DEF IInv
  <2> QED
    BY <1>1, <1>7, <2>1 DEF IInv, TypeOK
<1>10. PoolValid'
  <2>1. ASSUME NEW n \in 1 .. Len(pool)
        PROVE  TableOf(born[n].tree)' = TableOf(born[n].tree)
    <3>1. born[n].tree \in 1 .. Len(trees) + 1
      BY DEF IInv, PoolValid
    <3> QED
      BY <1>1, <1>8, <3>1
  <2>2. /\ \A n \in 1 .. Len(pool) :
            /\ (pool[n].kind = "leaf" => LeafValid(n))'
            /\ (pool[n].kind = "branch" => BranchValid(n))'
        /\ \A x, k, l : MadeFor(x, k, l)' = MadeFor(x, k, l)
    BY <1>1, <2>1, PoolStays
  <2>3. ASSUME NEW k \in 1 .. Len(trees') PROVE MadeFor(trees[k].root, k, 0)'
    <3>1. CASE k \in 1 .. Len(trees)
      <4>1. MadeFor(trees[k].root, k, 0)
        BY <3>1 DEF IInv, PoolValid
      <4> QED
        BY <1>1, <1>7, <3>1, <4>1 DEF MadeFor
    <3>2. CASE k = Len(trees) + 1
      BY <1>1, <1>4, <1>7, <3>2 DEF MadeFor
    <3> QED
      BY <1>2, <1>7, <3>1, <3>2
  <2>4. ASSUME NEW n \in 1 .. Len(pool) PROVE born[n].tree \in 1 .. Len(trees')
    BY <1>7 DEF IInv, PoolValid
  <2>5. Len(born') = Len(pool')
    BY <1>1 DEF IInv, PoolValid
  <2> QED
    BY <1>1, <1>2, <1>7, <2>2, <2>3, <2>4, <2>5 DEF PoolValid
<1>11. BuildValid'
  BY <1>1 DEF BuildValid
<1>12. WalkValid'
  BY <1>1, <1>2, <1>7 DEF IInv, WalkValid, TypeOK, MadeFor, node
<1>13. SizeValid'
  <2>1. Begun = Len(trees) + 1 /\ Begun' = Begun
    BY <1>1, <1>7 DEF Begun, Building
  <2>2. /\ Most(Len(trees)) \in Nat /\ TableSize \in Nat
        /\ Most(Len(trees) + 1) = Most(Len(trees)) + 2 * TableSize
    BY <1>2, MostGrows, SizesAssumption
  <2>3. start <= Most(Len(trees)) /\ start \in Nat
    BY DEF IInv, SizeValid, TypeOK
  <2>4. start <= Most(Len(trees) + 1)
    BY <2>2, <2>3
  <2>5. Begun <= MaxTrees
    BY <1>2, SizesAssumption
  <2> QED
    BY <1>1, <1>2, <1>7, <2>1, <2>4, <2>5 DEF SizeValid, Most
<1> QED
  BY <1>9, <1>10, <1>11, <1>12, <1>13 DEF IInv

(* A walk begins at the root of its tree, on level 0.                      *)
LEMMA DecodeSymbolKeeps ==
  ASSUME IInv, NEW k \in 1..MaxTrees, DecodeSymbol(k)
  PROVE  IInv'
<1> DEFINE root == trees[k].root
<1>1. /\ call = "idle" /\ call' = "decode" /\ k \in 1 .. Len(trees)
      /\ walk' = [tree |-> k, current |-> root, bits |-> 0]
      /\ UNCHANGED <<pool, trees, born>> /\ UNCHANGED build
      /\ ~Building /\ ~Building'
  BY DEF DecodeSymbol, Building
<1>2. /\ trees[k] \in [table : Tables, root : Nat] /\ root \in Nat
      /\ Len(pool) \in Nat /\ Len(trees) \in Nat
  <2>1. trees[k] \in [table : Tables, root : Nat]
    BY <1>1, ElementOfSeq DEF IInv, TypeOK
  <2> QED
    BY <2>1, PoolIsSmall
<1>3. MadeFor(root, k, 0)
  BY <1>1 DEF IInv, PoolValid
<1>4. node(root).kind = "branch"
  <2>1. root + 1 \in 1 .. Len(pool)
    BY <1>2, <1>3 DEF MadeFor
  <2>2. pool[root + 1] \in Node
    BY <2>1, ElementOfSeq DEF IInv, TypeOK
  <2>3. ASSUME pool[root + 1].kind = "leaf" PROVE FALSE
    <3>1. born[root + 1].level > 0
      BY <2>1, <2>3 DEF IInv, PoolValid, LeafValid
    <3> QED
      BY <1>3, <3>1 DEF MadeFor
  <2> QED
    BY <2>2, <2>3 DEF Node, node
<1>5. \A n : TableOf(n)' = TableOf(n)
  BY <1>1 DEF TableOf, build
<1>6. TypeOK'
  BY <1>1, <1>2 DEF IInv, TypeOK, build
<1>7. PoolValid' /\ BuildValid'
  BY <1>1, <1>5, PoolStays DEF IInv, PoolValid, BuildValid, Building
<1>8. WalkValid'
  BY <1>1, <1>2, <1>3, <1>4 DEF WalkValid, MadeFor, node
<1>9. SizeValid'
  BY <1>1 DEF IInv, SizeValid, Begun, Building, build, Most
<1> QED
  BY <1>6, <1>7, <1>8, <1>9 DEF IInv

(* A bit takes the walk to a child: same tree, one level down.             *)
LEMMA DecodeBitKeeps ==
  ASSUME IInv, NEW bit \in {0, 1}, DecodeBit(bit)
  PROVE  IInv'
<1>1. PICK next : /\ next \in {node(walk.current).left, node(walk.current).right}
                  /\ walk' = [walk EXCEPT !.current = next, !.bits = @ + 1]
                  /\ call' = IF node(next).kind = "leaf" THEN "idle" ELSE "decode"
  BY DEF DecodeBit
<1>2. /\ call = "decode" /\ node(walk.current).kind = "branch"
      /\ UNCHANGED <<pool, trees, born>> /\ UNCHANGED build
      /\ ~Building /\ ~Building'
  BY <1>1 DEF DecodeBit, Building
<1>3. /\ walk \in [tree : Nat, current : Nat, bits : Nat] /\ walk.tree > 0
      /\ walk.tree <= Len(trees) /\ MadeFor(walk.current, walk.tree, walk.bits)
      /\ Len(pool) \in Nat /\ Len(trees) \in Nat
  BY <1>2, PoolIsSmall DEF IInv, TypeOK, WalkValid
<1>4. walk.current + 1 \in 1 .. Len(pool)
  BY <1>3 DEF MadeFor
<1>5. next \in Nat /\ MadeFor(next, walk.tree, walk.bits + 1)
  <2>1. pool[walk.current + 1] \in Node
    BY <1>4, ElementOfSeq DEF IInv, TypeOK
  <2>2. next \in Nat
    BY <1>1, <2>1 DEF Node, node
  <2>3. BranchValid(walk.current + 1)
    BY <1>2, <1>4 DEF IInv, PoolValid, node
  <2>4. /\ next + 1 < walk.current + 1
        /\ born[next + 1] = [tree  |-> born[walk.current + 1].tree,
                             level |-> born[walk.current + 1].level + 1]
    BY <1>1, <2>3 DEF BranchValid, node
  <2> QED
    BY <1>3, <1>4, <2>2, <2>4 DEF MadeFor
<1>6. walk' = [tree |-> walk.tree, current |-> next, bits |-> walk.bits + 1]
  BY <1>1, <1>3
<1>7. node(next).kind \in {"leaf", "branch"}
  <2>1. next + 1 \in 1 .. Len(pool)
    BY <1>3, <1>5 DEF MadeFor
  <2>2. pool[next + 1] \in Node
    BY <2>1, ElementOfSeq DEF IInv, TypeOK
  <2> QED
    BY <2>2 DEF Node, node
<1>8. \A n : TableOf(n)' = TableOf(n)
  BY <1>2 DEF TableOf, build
<1>9. TypeOK'
  <2>1. walk' \in [tree : Nat, current : Nat, bits : Nat]
    BY <1>3, <1>5, <1>6
  <2>2. call' \in {"idle", "decode"} /\ ~Building'
    BY <1>1, <1>2
  <2> QED
    BY <1>2, <2>1, <2>2 DEF IInv, TypeOK, build, Building
<1>10. PoolValid' /\ BuildValid'
  BY <1>1, <1>2, <1>8, PoolStays DEF IInv, PoolValid, BuildValid, Building
<1>11. WalkValid'
  <2>1. /\ walk'.tree = walk.tree /\ walk'.current = next
        /\ walk'.bits = walk.bits + 1
    BY <1>6
  <2>2. MadeFor(walk.current, walk.tree, walk.bits)'
    BY <1>2, <1>5, <2>1 DEF MadeFor
  <2>3. node(walk.current)' = node(next)
    BY <1>2, <2>1 DEF node
  <2> QED
    BY <1>1, <1>2, <1>3, <1>7, <2>1, <2>2, <2>3 DEF WalkValid
<1>12. SizeValid'
  BY <1>1, <1>2 DEF IInv, SizeValid, Begun, Building, build, Most
<1> QED
  BY <1>9, <1>10, <1>11, <1>12 DEF IInv

-----------------------------------------------------------------------------
(* The theorems.                                                           *)

(* The invariant that the others follow from: every node was made for its  *)
(* tree and its level, the walk is on a node of the level it has read bits *)
(* for, and the nodes of a tree are at most two for each of its symbols.   *)
THEOREM Invariance == Spec => []IInv
<1>1. Init => IInv
  <2> SUFFICES ASSUME Init PROVE IInv
    OBVIOUS
  <2>1. /\ pool = << >> /\ born = << >> /\ trees = << >> /\ call = "idle"
        /\ il = 0 /\ i = 0 /\ nodes = << >> /\ new_nodes = << >> /\ start = 0
        /\ levels = << >>
        /\ walk = NoWalk
    BY DEF Init
  <2>2. Len(<< >>) = 0
    BY EmptySeq
  <2>3. TypeOK
    BY <2>1, EmptySeq, SizesAssumption DEF TypeOK, NoWalk
  <2>4. PoolValid /\ BuildValid /\ WalkValid
    BY <2>1, <2>2 DEF PoolValid, BuildValid, WalkValid, Building, NoWalk
  <2>5. Most(0) = 0
    BY SizesAssumption DEF Most
  <2>6. SizeValid
    BY <2>1, <2>2, <2>5, SizesAssumption DEF SizeValid, Begun, Building
  <2> QED
    BY <2>3, <2>4, <2>6 DEF IInv
<1>2. IInv /\ [Next]_vars => IInv'
  <2> SUFFICES ASSUME IInv, [Next]_vars PROVE IInv'
    OBVIOUS
  <2>1. CASE \E t \in Tables : NewCodeTree(t)
    BY <2>1, NewCodeTreeKeeps
  <2>2. CASE LeafStep
    BY <2>2, LeafStepKeeps
  <2>3. CASE LeavesEnd
    BY <2>3, LeavesEndKeeps
  <2>4. CASE PairStep
    BY <2>4, PairStepKeeps
  <2>5. CASE AtThrows
    BY <2>5, AtThrowsKeeps
  <2>6. CASE LevelEnd
    BY <2>6, LevelEndKeeps
  <2>7. CASE TreeEnd
    BY <2>7, TreeEndKeeps
  <2>8. CASE \E k \in 1..MaxTrees : DecodeSymbol(k)
    BY <2>8, DecodeSymbolKeeps
  <2>9. CASE \E bit \in {0, 1} : DecodeBit(bit)
    BY <2>9, DecodeBitKeeps
  <2>10. CASE UNCHANGED vars
    <3>1. /\ UNCHANGED <<pool, born, trees, call, walk>> /\ UNCHANGED build
      BY <2>10 DEF vars
    <3>2. \A k : TableOf(k)' = TableOf(k)
      BY <3>1 DEF TableOf, build
    <3>3. PoolValid'
      BY <3>1, <3>2, PoolStays DEF IInv, PoolValid
    <3>4. TypeOK'
      BY <3>1 DEF IInv, TypeOK, build
    <3>5. BuildValid' /\ WalkValid'
      BY <3>1 DEF IInv, BuildValid, WalkValid, Building, MadeFor, node, build
    <3>6. SizeValid'
      BY <3>1 DEF IInv, SizeValid, Begun, Building, Loose, Seen, Most, build
    <3> QED
      BY <3>3, <3>4, <3>5, <3>6 DEF IInv
  <2> QED
    BY <2>1, <2>2, <2>3, <2>4, <2>5, <2>6, <2>7, <2>8, <2>9, <2>10 DEF Next, BuildNext
<1> QED
  BY <1>1, <1>2, PTL DEF Spec

(* Trees are well formed in every state of the invariant.                  *)
LEMMA InvariantGivesTrees ==
  ASSUME IInv
  PROVE  TreesWellFormed
<1>1. /\ Len(pool) \in Nat /\ Len(trees) \in Nat /\ Begun \in 0..MaxTrees
      /\ Len(pool) <= Most(Begun)
  BY PoolIsSmall
<1>2. IndicesFit
  <2>1. Most(Begun) <= IndexSize /\ Most(Begun) \in Nat /\ IndexSize \in Nat
    BY <1>1, MostGrows, SizesAssumption
  <2> QED
    BY <1>1, <2>1 DEF IndicesFit
<1>3. ASSUME NEW n \in 1 .. Len(pool), pool[n].kind = "branch",
             NEW child \in {pool[n].left, pool[n].right}
      PROVE  child + 1 < n /\ born[child + 1].tree = born[n].tree
  <2>1. BranchValid(n)
    BY <1>3 DEF IInv, PoolValid
  <2>2. /\ child + 1 < n
        /\ born[child + 1] = [tree |-> born[n].tree, level |-> born[n].level + 1]
    BY <2>1 DEF BranchValid
  <2> QED
    BY <2>2
<1>4. ASSUME NEW k \in 1 .. Len(trees)
      PROVE  node(trees[k].root).kind = "branch"
  <2> DEFINE n == trees[k].root + 1
  <2>1. trees[k] \in [table : Tables, root : Nat]
    BY ElementOfSeq DEF IInv, TypeOK
  <2>2. MadeFor(trees[k].root, k, 0)
    BY DEF IInv, PoolValid
  <2>3. n \in 1 .. Len(pool)
    BY <1>1, <2>1, <2>2 DEF MadeFor
  <2>4. pool[n] \in Node
    BY <2>3, ElementOfSeq DEF IInv, TypeOK
  <2>5. ASSUME pool[n].kind = "leaf" PROVE FALSE
    <3>1. born[n].level > 0
      BY <2>3, <2>5 DEF IInv, PoolValid, LeafValid
    <3> QED
      BY <2>2, <3>1 DEF MadeFor
  <2> QED
    BY <2>4, <2>5 DEF Node, node
<1>5. RootsAreBranches
  BY <1>4 DEF RootsAreBranches, IInv, WalkValid
<1>6. DecodeReadsLength
  <2> SUFFICES ASSUME call = "idle", walk.tree > 0
               PROVE  LET t == trees[walk.tree].table
                          symbol == node(walk.current).value
                      IN  symbol \in DOMAIN t /\ t[symbol] = walk.bits
    BY DEF DecodeReadsLength
  <2> DEFINE n == walk.current + 1
  <2>1. /\ walk.tree <= Len(trees) /\ MadeFor(walk.current, walk.tree, walk.bits)
        /\ pool[n].kind = "leaf" /\ walk.current \in Nat
    BY DEF IInv, TypeOK, WalkValid, node
  <2>2. n \in 1 .. Len(pool)
    BY <1>1, <2>1 DEF MadeFor
  <2>3. born[n] = [tree |-> walk.tree, level |-> walk.bits]
    BY <2>1 DEF MadeFor
  <2>4. LeafValid(n)
    BY <2>1, <2>2 DEF IInv, PoolValid
  <2> QED
    BY <2>1, <2>3, <2>4 DEF LeafValid, TableOf, node
<1> QED
  BY <1>2, <1>3, <1>5, <1>6 DEF TreesWellFormed, ChildrenPrecede

(* Whatever the tables, as long as twice the symbols of all trees fit the  *)
(* index: no index is cut off, branches come after their children and in   *)
(* the same tree, no walk asserts in vain, and a symbol is decoded after   *)
(* as many bits as its table says (huff.cc:28-55, zip_inl.hh:105-119).     *)
THEOREM TreesAreWellFormed == Spec => []TreesWellFormed
BY Invariance, InvariantGivesTrees, PTL

(* A node is never changed once made, also while further trees are built   *)
(* in the pool (huff.hh:34-44).                                            *)
THEOREM NodesAreKept == Spec => PoolAppendOnly
<1>1. IInv /\ [Next]_vars => [\A n \in 1 .. Len(pool) : pool'[n] = pool[n]]_vars
  <2> SUFFICES ASSUME IInv, Next
               PROVE  \A n \in 1 .. Len(pool) : pool'[n] = pool[n]
    OBVIOUS
  <2>1. pool \in Seq(Node) /\ i \in Nat /\ nodes \in Seq(Nat) /\ Len(nodes) \in Nat
    BY LenProperties DEF IInv, TypeOK
  <2>2. ASSUME NEW m \in Node, PushNode(m)
        PROVE  \A n \in 1 .. Len(pool) : pool'[n] = pool[n]
    BY <2>1, <2>2, AppendProperties DEF PushNode
  <2>3. CASE LeafStep
    <3>1. CASE UNCHANGED pool
      BY <3>1
    <3>2. CASE PushNode(Leaf(i))
      BY <2>1, <2>2, <3>2 DEF Leaf, Node
    <3> QED
      BY <2>3, <3>1, <3>2 DEF LeafStep
  <2>4. CASE PairStep
    <3>1. /\ PushNode(Branch(nodes[i + 1], nodes[i + 2]))
          /\ i + 1 \in 1 .. Len(nodes) /\ i + 2 \in 1 .. Len(nodes)
      BY <2>1, <2>4 DEF PairStep
    <3>2. nodes[i + 1] \in Nat /\ nodes[i + 2] \in Nat
      BY <2>1, <3>1, ElementOfSeq
    <3>3. Branch(nodes[i + 1], nodes[i + 2]) \in Node
      BY <3>2 DEF Branch, Node
    <3> QED
      BY <2>2, <3>1, <3>3
  <2>5. CASE UNCHANGED pool
    BY <2>5
  <2> QED
    BY <2>3, <2>4, <2>5
       DEF Next, BuildNext, NewCodeTree, LeavesEnd, AtThrows, LevelEnd, TreeEnd,
           DecodeSymbol, DecodeBit
<1> QED
  BY <1>1, Invariance, PTL DEF Spec, PoolAppendOnly

-----------------------------------------------------------------------------
(* The code space.                                                         *)

(* Induction, with the set of the numbers for which the claim holds.       *)
LEMMA Induction ==
  ASSUME NEW T, 0 \in T, \A k \in Nat : k \in T => k + 1 \in T
  PROVE  \A k \in Nat : k \in T
<1> SUFFICES ASSUME NEW R, R = {ss \in Nat \X Nat : ss[1] < ss[2]},
                    Nat \ T # {}
             PROVE  FALSE
  OBVIOUS
<1>1. IsWellFoundedOn(R, Nat)
  BY NatLessThanWellFounded DEF OpToRel
<1>2. PICK m \in Nat \ T : \A k \in Nat \ T : ~ (<<k, m>> \in R)
  BY <1>1, WFMin
<1>3. m # 0 /\ m - 1 \in Nat /\ m - 1 < m
  BY <1>2
<1>4. m - 1 \in T
  BY <1>2, <1>3
<1> QED
  BY <1>2, <1>3, <1>4

(* SpaceOf is a recursive function; there is one for every n, and what it  *)
(* says of the lengths up to n does not depend on the longer ones.         *)
IsSpace(f, c, n) ==
  f = [l \in 0..n |-> IF l = 0 THEN c[0] ELSE 2 * f[l - 1] + c[l]]

(* For every n there is a function that satisfies the recursion up to n,   *)
LEMMA SpaceExists ==
  ASSUME NEW c, NEW n \in Nat
  PROVE  \E f : IsSpace(f, c, n)
<1> SUFFICES ASSUME NEW T, T = {k \in Nat : \E f : IsSpace(f, c, k)}
             PROVE  \E f : IsSpace(f, c, n)
  OBVIOUS
<1>1. 0 \in T
  <2>1. IsSpace([l \in 0..0 |-> c[0]], c, 0)
    BY DEF IsSpace
  <2> QED
    BY <2>1
<1>2. ASSUME NEW j \in Nat, j \in T PROVE j + 1 \in T
  <2>1. PICK f : IsSpace(f, c, j)
    BY <1>2
  <2>2. PICK g : g = [l \in 0 .. j + 1 |->
                        IF l = 0 THEN c[0] ELSE 2 * f[l - 1] + c[l]]
    OBVIOUS
  <2>3. ASSUME NEW l \in 0..j PROVE g[l] = f[l]
    BY <2>1, <2>2 DEF IsSpace
  <2>4. ASSUME NEW l \in 0 .. j + 1, l # 0 PROVE g[l - 1] = f[l - 1]
    <3>1. l - 1 \in 0..j
      BY <2>4
    <3> QED
      BY <2>3, <3>1
  <2>5. g = [l \in 0 .. j + 1 |-> IF l = 0 THEN c[0] ELSE 2 * g[l - 1] + c[l]]
    BY <2>2, <2>4
  <2>6. IsSpace(g, c, j + 1)
    BY <2>5, Zenon DEF IsSpace
  <2> QED
    BY <2>6
<1> QED
  BY <1>1, <1>2, Induction

(* SpaceOf is the last value of one of them,                               *)
LEMMA SpaceIsOne ==
  ASSUME NEW c, NEW n \in Nat
  PROVE  \E f : IsSpace(f, c, n) /\ SpaceOf(c, n) = f[n]
<1>1. \E f : IsSpace(f, c, n)
  BY SpaceExists
<1>2. SpaceOf(c, n) = (CHOOSE f : IsSpace(f, c, n))[n]
  BY DEF SpaceOf, IsSpace
<1> QED
  BY <1>1, <1>2

(* and all of them agree where the counts do.                              *)
LEMMA SpacesAgree ==
  ASSUME NEW n \in Nat, NEW m \in Nat, n <= m, NEW c, NEW d,
         \A l \in 0..n : c[l] = d[l],
         NEW f, IsSpace(f, c, n), NEW g, IsSpace(g, d, m)
  PROVE  f[n] = g[n]
<1> SUFFICES ASSUME NEW T, T = {k \in Nat : k <= n => f[k] = g[k]}
             PROVE  f[n] = g[n]
  OBVIOUS
<1>1. 0 \in T
  <2>1. 0 \in 0..n /\ 0 \in 0..m
    OBVIOUS
  <2>2. f[0] = c[0] /\ g[0] = d[0]
    BY <2>1 DEF IsSpace
  <2> QED
    BY <2>1, <2>2
<1>2. ASSUME NEW k \in Nat, k \in T PROVE k + 1 \in T
  <2>1. ASSUME k + 1 <= n PROVE f[k + 1] = g[k + 1]
    <3>1. PICK l : l = k + 1
      OBVIOUS
    <3>2. l \in 0..n /\ l \in 0..m /\ l # 0 /\ l - 1 = k /\ k <= n
      BY <2>1, <3>1
    <3>3. f[l] = 2 * f[l - 1] + c[l] /\ g[l] = 2 * g[l - 1] + d[l]
      BY <3>2 DEF IsSpace
    <3>4. f[k] = g[k] /\ c[l] = d[l]
      BY <1>2, <3>2
    <3> QED
      BY <3>1, <3>2, <3>3, <3>4
  <2> QED
    BY <2>1
<1> QED
  BY <1>1, <1>2, Induction

(* So the recursion can be unfolded, even where the counts of longer codes *)
(* differ.                                                                 *)
LEMMA SpaceUnfolds ==
  ASSUME NEW n \in Nat, NEW c, NEW d, \A l \in 0..n : c[l] = d[l]
  PROVE  /\ SpaceOf(c, 0) = c[0]
         /\ SpaceOf(d, n + 1) = 2 * SpaceOf(c, n) + d[n + 1]
<1>1. SpaceOf(c, 0) = c[0]
  <2>1. PICK f : IsSpace(f, c, 0) /\ SpaceOf(c, 0) = f[0]
    BY SpaceIsOne
  <2> QED
    BY <2>1 DEF IsSpace
<1>2. PICK f : IsSpace(f, c, n) /\ SpaceOf(c, n) = f[n]
  BY SpaceIsOne
<1>3. PICK m : m = n + 1
  OBVIOUS
<1>4. m \in Nat /\ n <= m /\ m \in 0..m /\ m # 0 /\ m - 1 = n
  BY <1>3
<1>5. PICK g : IsSpace(g, d, m) /\ SpaceOf(d, m) = g[m]
  BY <1>4, SpaceIsOne
<1>6. f[n] = g[n]
  BY <1>2, <1>4, <1>5, SpacesAgree
<1>7. g[m] = 2 * g[m - 1] + d[m]
  BY <1>4, <1>5 DEF IsSpace
<1> QED
  BY <1>1, <1>2, <1>3, <1>4, <1>5, <1>6, <1>7

(* The space of a table, and of all the codes there are, length by length. *)
LEMMA CodeSpaceUnfolds ==
  ASSUME NEW t, NEW n \in Nat
  PROVE  /\ CodeSpace(t, 0) = 0
         /\ CodeSpace(t, n + 1) = 2 * CodeSpace(t, n) + CountOf(t, n + 1)
<1>1. PICK c, d : c = LengthCounts(t, n) /\ d = LengthCounts(t, n + 1)
  OBVIOUS
<1>2. \A l \in 0..n : c[l] = d[l]
  BY <1>1 DEF LengthCounts
<1>3. d[n + 1] = CountOf(t, n + 1)
  BY <1>1 DEF LengthCounts
<1>4. SpaceOf(d, n + 1) = 2 * SpaceOf(c, n) + d[n + 1]
  BY <1>2, SpaceUnfolds
<1>5. CodeSpace(t, 0) = 0
  <2>1. SpaceOf(LengthCounts(t, 0), 0) = LengthCounts(t, 0)[0]
    BY SpaceUnfolds
  <2> QED
    BY <2>1 DEF CodeSpace, LengthCounts
<1> QED
  BY <1>1, <1>3, <1>4, <1>5 DEF CodeSpace

(* The same for the code space of a single empty code.                     *)
LEMMA AllSpaceUnfolds ==
  ASSUME NEW n \in Nat
  PROVE  AllSpace(0) = 1 /\ AllSpace(n + 1) = 2 * AllSpace(n) + 0
<1>1. PICK c, d : c = NoBits(n) /\ d = NoBits(n + 1)
  OBVIOUS
<1>2. \A l \in 0..n : c[l] = d[l]
  BY <1>1 DEF NoBits
<1>3. d[n + 1] = 0
  BY <1>1 DEF NoBits
<1>4. SpaceOf(d, n + 1) = 2 * SpaceOf(c, n) + d[n + 1]
  BY <1>2, SpaceUnfolds
<1>5. AllSpace(0) = 1
  <2>1. SpaceOf(NoBits(0), 0) = NoBits(0)[0]
    BY SpaceUnfolds
  <2> QED
    BY <2>1 DEF AllSpace, NoBits
<1> QED
  BY <1>1, <1>3, <1>4, <1>5 DEF AllSpace

(* There is code space, and the space of codes of more bits is a product.  *)
LEMMA AllSpaceIsPositive ==
  ASSUME NEW n \in Nat
  PROVE  AllSpace(n) \in Nat /\ AllSpace(n) > 0
<1> SUFFICES ASSUME NEW T, T = {k \in Nat : AllSpace(k) \in Nat /\ AllSpace(k) > 0}
             PROVE  AllSpace(n) \in Nat /\ AllSpace(n) > 0
  OBVIOUS
<1>1. 0 \in T
  <2>1. AllSpace(0) = 1
    BY AllSpaceUnfolds
  <2> QED
    BY <2>1
<1>2. ASSUME NEW k \in Nat, k \in T PROVE k + 1 \in T
  <2>1. AllSpace(k + 1) = 2 * AllSpace(k) + 0
    BY AllSpaceUnfolds
  <2> QED
    BY <1>2, <2>1
<1> QED
  BY <1>1, <1>2, Induction

(* The whole space doubles with every bit,                                 *)
LEMMA AllSpaceDoubles ==
  ASSUME NEW n \in Nat
  PROVE  /\ AllSpace(0) = 1 /\ AllSpace(n) \in Nat /\ AllSpace(n) > 0
         /\ AllSpace(n + 1) = 2 * AllSpace(n)
<1>1. AllSpace(0) = 1 /\ AllSpace(n + 1) = 2 * AllSpace(n) + 0
  BY AllSpaceUnfolds
<1>2. AllSpace(n) \in Nat /\ AllSpace(n) > 0
  BY AllSpaceIsPositive
<1> QED
  BY <1>1, <1>2

(* and is multiplicative in the number of bits, as powers of two are.      *)
LEMMA AllSpaceOfSum ==
  ASSUME NEW n \in Nat, NEW m \in Nat
  PROVE  AllSpace(m + n) = AllSpace(m) * AllSpace(n)
<1> SUFFICES ASSUME NEW T,
                    T = {k \in Nat : AllSpace(m + k) = AllSpace(m) * AllSpace(k)}
             PROVE  AllSpace(m + n) = AllSpace(m) * AllSpace(n)
  OBVIOUS
<1>1. 0 \in T
  <2>1. AllSpace(0) = 1 /\ AllSpace(m) \in Nat /\ m + 0 = m
    BY AllSpaceDoubles
  <2> QED
    BY <2>1
<1>2. ASSUME NEW k \in Nat, k \in T PROVE k + 1 \in T
  <2>1. PICK a, b, c : a = AllSpace(m) /\ b = AllSpace(k) /\ c = AllSpace(m + k)
    OBVIOUS
  <2>2. /\ a \in Nat /\ b \in Nat /\ c \in Nat /\ c = a * b
        /\ AllSpace(k + 1) = 2 * b /\ AllSpace((m + k) + 1) = 2 * c
    BY <1>2, <2>1, AllSpaceDoubles
  <2>3. 2 * c = a * (2 * b)
    BY <2>2
  <2>4. (m + k) + 1 = m + (k + 1)
    OBVIOUS
  <2>5. AllSpace(m + (k + 1)) = a * AllSpace(k + 1)
    BY <2>2, <2>3, <2>4
  <2> QED
    BY <2>1, <2>5
<1> QED
  BY <1>1, <1>2, Induction

(* The space that a table's codes take is a number.                        *)
LEMMA CodeSpaceIsNat ==
  ASSUME NEW t \in Tables, NEW n \in Nat
  PROVE  CodeSpace(t, n) \in Nat /\ CountOf(t, n) \in Nat
<1>1. \A l : CountOf(t, l) \in Nat
  <2>1. ASSUME NEW l PROVE CountOf(t, l) \in Nat
    <3>1. {s \in DOMAIN t : t[s] = l} \in SUBSET DOMAIN t
      OBVIOUS
    <3>2. Cardinality({s \in DOMAIN t : t[s] = l}) \in 0..TableSize
      BY <3>1, SymbolsAreFew
    <3> QED
      BY <3>2, SizesAssumption DEF CountOf
  <2> QED
    BY <2>1
<1> SUFFICES ASSUME NEW T, T = {k \in Nat : CodeSpace(t, k) \in Nat}
             PROVE  CodeSpace(t, n) \in Nat
  BY <1>1
<1>2. 0 \in T
  <2>1. CodeSpace(t, 0) = 0
    BY CodeSpaceUnfolds
  <2> QED
    BY <2>1
<1>3. ASSUME NEW k \in Nat, k \in T PROVE k + 1 \in T
  <2>1. CodeSpace(t, k + 1) = 2 * CodeSpace(t, k) + CountOf(t, k + 1)
    BY CodeSpaceUnfolds
  <2>2. CountOf(t, k + 1) \in Nat
    BY <1>1
  <2> QED
    BY <1>3, <2>1, <2>2
<1> QED
  BY <1>2, <1>3, Induction

(* Arithmetic of products.                                                 *)
LEMMA Regroup ==
  /\ \A x, a \in Nat : (2 * x) * a = x * (2 * a) /\ (2 * x) * a = 2 * (x * a)
  /\ \A x, y, a \in Nat : x * (y * a) = (x * y) * a
OBVIOUS

(* Divisibility, without division: a product leaves no remainder,          *)
LEMMA ProductLeavesNothing ==
  ASSUME NEW a \in Nat, NEW b \in Nat, b > 0
  PROVE  (a * b) % b = 0
OBVIOUS

(* what leaves no remainder is a product,                                  *)
LEMMA NothingLeftIsProduct ==
  ASSUME NEW x \in Nat, NEW b \in Nat, b > 0, x % b = 0
  PROVE  x = (x \div b) * b /\ x \div b \in Nat
OBVIOUS

(* a common factor cancels,                                                *)
LEMMA Cancel ==
  ASSUME NEW a \in Nat, NEW b \in Nat, NEW c \in Nat, c > 0, a * c = b * c
  PROVE  a = b
OBVIOUS

(* and products of numbers are numbers.                                    *)
LEMMA ProductIsNat ==
  ASSUME NEW a \in Nat, NEW b \in Nat
  PROVE  a * b \in Nat /\ (a > 0 /\ b > 0 => a * b > 0)
OBVIOUS

-----------------------------------------------------------------------------
(* What the building of a tree does to the fill.                           *)

(* A node made is one node more in the row of its level.                   *)
LEMMA PushLengthens ==
  ASSUME IInv, NEW m, PushNode(m)
  PROVE  Len(new_nodes') = Len(new_nodes) + 1
<1>1. PICK x : x = Len(pool) % IndexSize
  OBVIOUS
<1>2. new_nodes \in Seq(Nat \cup {x})
  <2>1. new_nodes \in Seq(Nat)
    BY DEF IInv, TypeOK
  <2> QED
    BY <2>1, SeqMonotonic
<1>3. new_nodes' = Append(new_nodes, x)
  BY <1>1 DEF PushNode
<1> QED
  BY <1>2, <1>3, AppendProperties

(* The code spaces of the table being built are numbers.                   *)
LEMMA SpacesAreNat ==
  ASSUME IInv, Building
  PROVE  /\ CodeSpace(table, MaxLength) \in Nat /\ CodeSpace(table, il) \in Nat
         /\ LeavesOf(table, il) \in Nat /\ Len(nodes) \in Nat /\ Len(new_nodes) \in Nat
         /\ AllSpace(MaxLength - il) \in Nat /\ AllSpace(MaxLength - il) > 0
         /\ AllSpace(MaxLength) \in Nat /\ AllSpace(MaxLength) > 0
         /\ i \in Nat /\ il \in 0..MaxLength /\ il \in Nat /\ MaxLength - il \in Nat
<1>1. table \in Tables /\ MaxLength \in Nat /\ i \in Nat /\ il \in 0..MaxLength
  BY TableBuilt
<1>2. il \in Nat /\ MaxLength - il \in Nat
  BY <1>1
<1>3. Len(nodes) \in Nat /\ Len(new_nodes) \in Nat
  BY PoolIsSmall
<1>4. /\ CodeSpace(table, MaxLength) \in Nat /\ CodeSpace(table, il) \in Nat
      /\ CountOf(table, il) \in Nat
  BY <1>1, <1>2, CodeSpaceIsNat
<1>5. /\ AllSpace(MaxLength - il) \in Nat /\ AllSpace(MaxLength - il) > 0
      /\ AllSpace(MaxLength) \in Nat /\ AllSpace(MaxLength) > 0
  BY <1>1, <1>2, AllSpaceIsPositive
<1> QED
  BY <1>1, <1>2, <1>3, <1>4, <1>5 DEF LeavesOf

(* The tables of the trees that are there stay accepted while no tree is   *)
(* added and no step throws.                                               *)
LEMMA AcceptedStay ==
  ASSUME AcceptsWholeCodes, UNCHANGED trees, call' # "threw"
  PROVE  AcceptsWholeCodes'
BY DEF AcceptsWholeCodes

(* A tree begun has no nodes, and all its code space still to come.        *)
LEMMA NewCodeTreeFills ==
  ASSUME IInv, FillInv, NEW t \in Tables, NewCodeTree(t)
  PROVE  FillInv'
<1>1. /\ call' = "leaves" /\ table' = t /\ il' = MaxLength /\ i' = 0
      /\ nodes' = << >> /\ new_nodes' = << >> /\ UNCHANGED trees
  BY DEF NewCodeTree
<1>2. PICK n \in Nat : t \in [0 .. n - 1 -> 0..MaxLength]
  BY TablesAssumption
<1>3. Len(<< >>) = 0 /\ MaxLength \in Nat
  BY EmptySeq, SizesAssumption
<1>4. {s \in DOMAIN t : MaxLength > 0 /\ t[s] = MaxLength /\ s < 0} = {}
  BY <1>2
<1>5. CodeSpace(t, MaxLength) \in Nat
  BY <1>3, CodeSpaceIsNat
<1>6. AllSpace(0) = 1 /\ MaxLength - MaxLength = 0
  BY <1>3, AllSpaceDoubles
<1>7. FillValid'
  <2>1. 2 * CodeSpace(t, MaxLength) = (2 * CodeSpace(t, MaxLength) + 0) * 1
    BY <1>5
  <2>2. (2 * CodeSpace(table, MaxLength)
           = (2 * CodeSpace(table, il) + Len(nodes)) * AllSpace(MaxLength - il))'
    BY <1>1, <1>3, <1>6, <2>1
  <2>3. Len(new_nodes') = Cardinality({s \in DOMAIN t : MaxLength > 0 /\ t[s] = MaxLength /\ s < 0})
    BY <1>1, <1>3, <1>4, FS_EmptySet
  <2> QED
    BY <1>1, <2>2, <2>3 DEF FillValid
<1>8. AcceptsWholeCodes'
  BY <1>1, AcceptedStay DEF FillInv
<1> QED
  BY <1>7, <1>8 DEF FillInv

(* Leaves do not count until the end of their level.                       *)
LEMMA LeafStepFills ==
  ASSUME IInv, FillInv, LeafStep
  PROVE  FillInv'
<1> DEFINE Earlier(k) == {s \in DOMAIN table : il > 0 /\ table[s] = il /\ s < k}
<1>1. /\ call = "leaves" /\ Building /\ il > 0 /\ i \in DOMAIN table
      /\ UNCHANGED <<trees, call, table, il, nodes, levels, start, walk>> /\ i' = i + 1
  BY DEF LeafStep, Building
<1>2. PICK n \in Nat : table \in [0 .. n - 1 -> 0..MaxLength]
  BY <1>1, TableBuilt
<1>3. table \in Tables /\ i \in Nat /\ Len(new_nodes) \in Nat
  BY <1>1, TableBuilt, PoolIsSmall
<1>4. Len(new_nodes) = Cardinality(Earlier(i))
  BY <1>1 DEF FillInv, FillValid
<1>5. Len(new_nodes') = Cardinality(Earlier(i + 1))
  <2>1. CASE table[i] = il /\ PushNode(Leaf(i))
    <3>1. Earlier(i + 1) = Earlier(i) \cup {i} /\ i \notin Earlier(i)
      BY <1>1, <1>2, <1>3, <2>1
    <3>2. Earlier(i) \in SUBSET DOMAIN table
      OBVIOUS
    <3>3. IsFiniteSet(Earlier(i))
      BY <1>3, <3>2, SymbolsAreFew
    <3>4. Cardinality(Earlier(i + 1)) = Cardinality(Earlier(i)) + 1
      BY <3>1, <3>3, FS_AddElement
    <3> QED
      BY <1>4, <2>1, <3>4, PushLengthens
  <2>2. CASE table[i] # il /\ UNCHANGED <<pool, born, new_nodes>>
    <3>1. Earlier(i + 1) = Earlier(i)
      BY <1>1, <1>2, <1>3, <2>2
    <3> QED
      BY <1>4, <2>2, <3>1
  <2> QED
    BY <2>1, <2>2 DEF LeafStep
<1>6. FillValid'
  BY <1>1, <1>5 DEF FillInv, FillValid, Building
<1>7. AcceptsWholeCodes'
  BY <1>1, AcceptedStay DEF FillInv
<1> QED
  BY <1>6, <1>7 DEF FillInv

(* At the end of the leaves there is one for each symbol of this length.   *)
LEMMA LeavesEndFills ==
  ASSUME IInv, FillInv, LeavesEnd
  PROVE  FillInv'
<1>1. /\ call = "leaves" /\ call' = "pairs" /\ i' = 0 /\ Building /\ Building'
      /\ UNCHANGED <<pool, trees, table, il, nodes, new_nodes, walk, born, levels, start>>
      /\ il = 0 \/ i \notin DOMAIN table
  BY DEF LeavesEnd, Building
<1>2. PICK n \in Nat : table \in [0 .. n - 1 -> 0..MaxLength]
  BY <1>1, TableBuilt
<1>3. /\ i \in Nat /\ Len(new_nodes) \in Nat /\ LeavesOf(table, il) \in Nat /\ il \in Nat
  BY <1>1, SpacesAreNat
<1>4. Len(new_nodes) =
        Cardinality({s \in DOMAIN table : il > 0 /\ table[s] = il /\ s < i})
  BY <1>1 DEF FillInv, FillValid
<1>5. Len(new_nodes) = LeavesOf(table, il)
  <2>1. CASE il = 0
    <3>1. {s \in DOMAIN table : il > 0 /\ table[s] = il /\ s < i} = {}
      BY <2>1
    <3> QED
      BY <1>4, <2>1, <3>1, FS_EmptySet DEF LeavesOf
  <2>2. CASE il # 0
    <3>1. {s \in DOMAIN table : il > 0 /\ table[s] = il /\ s < i}
            = {s \in DOMAIN table : table[s] = il}
      BY <1>1, <1>2, <1>3, <2>2
    <3> QED
      BY <1>4, <2>2, <3>1 DEF LeavesOf, CountOf
  <2> QED
    BY <2>1, <2>2
<1>6. LeavesOf(table, il)' = LeavesOf(table, il)
  BY <1>1 DEF LeavesOf
<1>7. FillValid'
  BY <1>1, <1>3, <1>5, <1>6 DEF FillInv, FillValid
<1>8. AcceptsWholeCodes'
  BY <1>1, AcceptedStay DEF FillInv
<1> QED
  BY <1>7, <1>8 DEF FillInv

(* A branch stands for two nodes of the level below.                       *)
LEMMA PairStepFills ==
  ASSUME IInv, FillInv, PairStep
  PROVE  FillInv'
<1>1. /\ call = "pairs" /\ Building /\ Building'
      /\ PushNode(Branch(nodes[i + 1], nodes[i + 2]))
      /\ UNCHANGED <<trees, call, table, il, nodes, levels, start, walk>> /\ i' = i + 2
  BY DEF PairStep, Building
<1>2. /\ i \in Nat /\ Len(new_nodes) \in Nat /\ LeavesOf(table, il) \in Nat
  BY <1>1, SpacesAreNat
<1>3. Len(new_nodes') = Len(new_nodes) + 1
  BY <1>1, PushLengthens
<1>4. LeavesOf(table, il)' = LeavesOf(table, il)
  BY <1>1 DEF LeavesOf
<1>5. 2 * Len(new_nodes) = 2 * LeavesOf(table, il) + i
  BY <1>1 DEF FillInv, FillValid
<1>6. 2 * Len(new_nodes') = 2 * LeavesOf(table, il)' + i'
  BY <1>1, <1>2, <1>3, <1>4, <1>5
<1>7. FillValid'
  BY <1>1, <1>6 DEF FillInv, FillValid
<1>8. AcceptsWholeCodes'
  BY <1>1, AcceptedStay DEF FillInv
<1> QED
  BY <1>7, <1>8 DEF FillInv

(* One level up, a node takes twice the space; the level's own codes are   *)
(* now counted by nodes.                                                   *)
LEMMA LevelEndFills ==
  ASSUME IInv, FillInv, LevelEnd
  PROVE  FillInv'
<1>1. /\ call = "pairs" /\ call' = "leaves" /\ i' = 0 /\ Building /\ Building'
      /\ i >= Len(nodes) /\ il > 0 /\ il' = il - 1
      /\ nodes' = new_nodes /\ new_nodes' = << >>
      /\ UNCHANGED <<pool, trees, table, start, walk, born>> /\ levels' = WithLevel
  BY DEF LevelEnd, Building
<1>2. PICK n \in Nat : table \in [0 .. n - 1 -> 0..MaxLength]
  BY <1>1, TableBuilt
<1>3. /\ table \in Tables /\ MaxLength \in Nat /\ il - 1 \in Nat
      /\ CodeSpace(table, il) \in Nat /\ LeavesOf(table, il) \in Nat
      /\ Len(nodes) \in Nat /\ Len(new_nodes) \in Nat /\ i \in Nat
      /\ il \in Nat /\ MaxLength - il \in Nat
  BY <1>1, TableBuilt, SpacesAreNat, SizesAssumption
<1>4. Len(nodes) = i
  BY <1>1, <1>3 DEF IInv, SizeValid
<1>5. PICK S, s, C, c, a : /\ S = CodeSpace(table, MaxLength) /\ s = CodeSpace(table, il)
                           /\ C = CodeSpace(table, il - 1) /\ c = LeavesOf(table, il)
                           /\ a = AllSpace(MaxLength - il)
  OBVIOUS
<1>6. s = 2 * C + c
  <2>1. (il - 1) + 1 = il
    BY <1>3
  <2>2. CodeSpace(table, il) = 2 * CodeSpace(table, il - 1) + CountOf(table, il)
    BY <1>3, <2>1, CodeSpaceUnfolds
  <2> QED
    BY <1>1, <1>5, <2>2 DEF LeavesOf
<1>7. AllSpace(MaxLength - (il - 1)) = 2 * a /\ a \in Nat
  <2>1. MaxLength - (il - 1) = (MaxLength - il) + 1
    BY <1>3
  <2> QED
    BY <1>3, <1>5, <2>1, AllSpaceDoubles
<1>8. C \in Nat /\ c \in Nat /\ s \in Nat
  BY <1>3, <1>5, CodeSpaceIsNat
<1>9. 2 * S = (2 * s + i) * a /\ 2 * Len(new_nodes) = 2 * c + i
  BY <1>1, <1>4, <1>5 DEF FillInv, FillValid
<1>10. 2 * s + i = 2 * (2 * C + Len(new_nodes))
  BY <1>3, <1>6, <1>8, <1>9
<1>11. 2 * S = (2 * C + Len(new_nodes)) * (2 * a)
  <2>1. 2 * C + Len(new_nodes) \in Nat
    BY <1>3, <1>8
  <2> QED
    BY <1>7, <1>9, <1>10, <2>1, Regroup
<1>12. Len(new_nodes') = Cardinality({x \in DOMAIN table : il - 1 > 0 /\ table[x] = il - 1 /\ x < 0})
  <2>1. {x \in DOMAIN table : il - 1 > 0 /\ table[x] = il - 1 /\ x < 0} = {}
    BY <1>2
  <2> QED
    BY <1>1, <2>1, FS_EmptySet, EmptySeq
<1>13. FillValid'
  <2>1. (2 * CodeSpace(table, MaxLength)
           = (2 * CodeSpace(table, il) + Len(nodes)) * AllSpace(MaxLength - il))'
    BY <1>1, <1>5, <1>7, <1>11
  <2> QED
    BY <1>1, <1>12, <2>1 DEF FillValid
<1>14. AcceptsWholeCodes'
  BY <1>1, AcceptedStay DEF FillInv
<1> QED
  BY <1>13, <1>14 DEF FillInv

(* Each node of the last level takes the code space once.                  *)
LEMMA EndIsWhole ==
  ASSUME IInv, FillInv, TreeEnd
  PROVE  /\ CodeSpace(table, MaxLength) = Len(new_nodes) * AllSpace(MaxLength)
         /\ CodeSpace(table, MaxLength) \in Nat /\ Len(new_nodes) \in Nat
         /\ AllSpace(MaxLength) \in Nat /\ AllSpace(MaxLength) > 0
         /\ Len(new_nodes) > 0
<1>1. /\ call = "pairs" /\ Building
      /\ i >= Len(nodes) /\ il = 0 /\ new_nodes # << >>
  BY DEF TreeEnd, Building
<1>2. /\ CodeSpace(table, MaxLength) \in Nat /\ Len(nodes) \in Nat
      /\ Len(new_nodes) \in Nat /\ i \in Nat
      /\ AllSpace(MaxLength) \in Nat /\ AllSpace(MaxLength) > 0 /\ MaxLength \in Nat
  BY <1>1, SpacesAreNat, SizesAssumption
<1>3. Len(nodes) = i
  BY <1>1, <1>2 DEF IInv, SizeValid
<1>4. PICK S, a, l : /\ S = CodeSpace(table, MaxLength) /\ a = AllSpace(MaxLength)
                     /\ l = Len(new_nodes)
  OBVIOUS
<1>5. CodeSpace(table, 0) = 0 /\ MaxLength - 0 = MaxLength /\ LeavesOf(table, 0) = 0
  BY <1>2, CodeSpaceUnfolds DEF LeavesOf
<1>6. 2 * S = (2 * 0 + i) * a /\ 2 * l = 2 * 0 + i
  BY <1>1, <1>3, <1>4, <1>5 DEF FillInv, FillValid
<1>7. 2 * S = (2 * l) * a
  BY <1>2, <1>6
<1>8. S \in Nat /\ a \in Nat /\ l \in Nat /\ a > 0 /\ l > 0
  <2>1. l # 0
    BY <1>1, <1>4, EmptySeq DEF IInv, TypeOK
  <2> QED
    BY <1>2, <1>4, <2>1
<1>9. S = l * a
  <2>1. 2 * S = 2 * (l * a) /\ l * a \in Nat
    BY <1>7, <1>8, Regroup, ProductIsNat
  <2> QED
    BY <1>8, <2>1
<1> QED
  BY <1>4, <1>8, <1>9

(* A tree that is complete has a root for each whole code space.           *)
LEMMA TreeEndFills ==
  ASSUME IInv, FillInv, TreeEnd
  PROVE  FillInv'
<1> DEFINE tree == [table |-> table, root |-> new_nodes[1]]
<1>1. /\ call' = "idle" /\ ~Building' /\ trees' = Append(trees, tree)
  BY DEF TreeEnd, Building
<1>2. PICK S, a, l : /\ S = CodeSpace(table, MaxLength) /\ a = AllSpace(MaxLength)
                     /\ l = Len(new_nodes)
  OBVIOUS
<1>3. S \in Nat /\ a \in Nat /\ l \in Nat /\ a > 0 /\ l > 0 /\ S = l * a
  BY <1>2, EndIsWhole
<1>4. WholeCodeSpace(table, MaxLength)
  <2>1. S > 0 /\ S % a = 0
    BY <1>3, ProductIsNat, ProductLeavesNothing
  <2> QED
    BY <1>2, <2>1 DEF WholeCodeSpace
<1>5. trees \in Seq([table : Tables, root : Nat])
  BY DEF IInv, TypeOK
<1>6. /\ Len(trees') = Len(trees) + 1 /\ Len(trees) \in Nat
      /\ \A k \in 1 .. Len(trees) : trees'[k] = trees[k]
      /\ trees'[Len(trees) + 1] = tree
  <2>1. trees \in Seq([table : Tables, root : Nat] \cup {tree})
    BY <1>5, SeqMonotonic
  <2> QED
    BY <1>1, <2>1, AppendProperties, LenProperties
<1>7. \A k \in 1 .. Len(trees') : WholeCodeSpace(trees'[k].table, MaxLength)
  <2>1. ASSUME NEW k \in 1 .. Len(trees)
        PROVE  WholeCodeSpace(trees'[k].table, MaxLength)
    BY <1>6 DEF FillInv, AcceptsWholeCodes
  <2>2. WholeCodeSpace(trees'[Len(trees) + 1].table, MaxLength)
    <3>1. trees'[Len(trees) + 1] = tree /\ tree.table = table
      BY <1>6
    <3>2. trees'[Len(trees) + 1].table = table
      BY <3>1
    <3> QED
      BY <1>4, <3>2
  <2>3. \A k \in 1 .. Len(trees') : k \in 1 .. Len(trees) \/ k = Len(trees) + 1
    BY <1>6
  <2> QED
    BY <2>1, <2>2, <2>3
<1>8. AcceptsWholeCodes'
  BY <1>1, <1>7 DEF AcceptsWholeCodes
<1>9. FillValid'
  BY <1>1 DEF FillValid
<1> QED
  BY <1>8, <1>9 DEF FillInv

(* A build that throws had a node without a pair, or no code at all: no    *)
(* whole number of spaces.                                                 *)
LEMMA AtThrowsFills ==
  ASSUME IInv, FillInv, AtThrows
  PROVE  FillInv'
<1>1. /\ call = "pairs" /\ call' = "threw" /\ Building /\ ~Building'
      /\ UNCHANGED <<pool, trees, walk, born>> /\ UNCHANGED build
      /\ \/ i + 1 = Len(nodes)
         \/ i >= Len(nodes) /\ il = 0 /\ new_nodes = << >>
  BY DEF AtThrows, Building
<1>2. /\ CodeSpace(table, MaxLength) \in Nat /\ CodeSpace(table, il) \in Nat
      /\ LeavesOf(table, il) \in Nat /\ Len(nodes) \in Nat /\ Len(new_nodes) \in Nat
      /\ AllSpace(MaxLength - il) \in Nat /\ AllSpace(MaxLength - il) > 0
      /\ AllSpace(MaxLength) \in Nat /\ AllSpace(MaxLength) > 0
      /\ i \in Nat /\ il \in Nat /\ MaxLength - il \in Nat /\ MaxLength \in Nat
  BY <1>1, SpacesAreNat, SizesAssumption
<1>3. PICK S, s, A, a, e : /\ S = CodeSpace(table, MaxLength) /\ s = CodeSpace(table, il)
                           /\ A = AllSpace(MaxLength) /\ a = AllSpace(MaxLength - il)
                           /\ e = AllSpace(il)
  OBVIOUS
<1>4. /\ S \in Nat /\ s \in Nat /\ A \in Nat /\ a \in Nat /\ A > 0 /\ a > 0
      /\ e \in Nat
  BY <1>2, <1>3, AllSpaceIsPositive
<1>5. 2 * S = (2 * s + Len(nodes)) * a /\ 2 * Len(new_nodes) = 2 * LeavesOf(table, il) + i
  BY <1>1, <1>3 DEF FillInv, FillValid
<1>6. A = e * a
  <2>1. il + (MaxLength - il) = MaxLength
    BY <1>2
  <2> QED
    BY <1>2, <1>3, <2>1, AllSpaceOfSum
<1>7. ASSUME WholeCodeSpace(table, MaxLength) PROVE FALSE
  <2>1. S > 0 /\ S % A = 0
    BY <1>3, <1>7 DEF WholeCodeSpace
  <2>2. PICK q \in Nat : S = q * A
    BY <1>4, <2>1, NothingLeftIsProduct
  <2>3. CASE i + 1 = Len(nodes)
    <3>1. S = (q * e) * a /\ q * e \in Nat
      BY <1>6, <1>4, <2>2, Regroup, ProductIsNat
    <3>2. 2 * S = (2 * (q * e)) * a
      BY <1>4, <3>1, Regroup
    <3>3. 2 * (q * e) = 2 * s + Len(nodes)
      <4>1. 2 * (q * e) \in Nat /\ 2 * s + Len(nodes) \in Nat
        BY <1>2, <1>4, <3>1
      <4>2. (2 * (q * e)) * a = (2 * s + Len(nodes)) * a
        BY <1>5, <3>2
      <4> QED
        BY <1>4, <4>1, <4>2, Cancel
    <3>4. PICK x, l, c : x = q * e /\ l = Len(new_nodes) /\ c = LeavesOf(table, il)
      OBVIOUS
    <3>5. /\ x \in Nat /\ l \in Nat /\ c \in Nat
          /\ 2 * x = 2 * s + (i + 1) /\ 2 * l = 2 * c + i
      BY <1>2, <1>5, <2>3, <3>1, <3>3, <3>4
    <3> QED
      BY <1>2, <1>4, <3>5
  <2>4. CASE i >= Len(nodes) /\ il = 0 /\ new_nodes = << >>
    <3>1. Len(new_nodes) = 0 /\ LeavesOf(table, il) = 0 /\ CodeSpace(table, 0) = 0
      BY <2>4, EmptySeq, CodeSpaceUnfolds DEF LeavesOf
    <3>2. i = 0 /\ Len(nodes) = 0 /\ s = 0
      BY <1>2, <1>3, <1>5, <2>4, <3>1
    <3>3. 2 * S = (2 * 0 + 0) * a
      BY <1>5, <3>2
    <3> QED
      BY <1>4, <2>1, <3>3
  <2> QED
    BY <1>1, <2>3, <2>4
<1>8. AcceptsWholeCodes'
  BY <1>1, <1>7 DEF FillInv, AcceptsWholeCodes, build
<1>9. FillValid'
  BY <1>1 DEF FillValid
<1> QED
  BY <1>8, <1>9 DEF FillInv

-----------------------------------------------------------------------------
(* The nodes on a level are half of those below and the level's leaves, so *)
(* that the nodes and the codes still to come always take the code space   *)
(* of the table.                                                           *)
THEOREM FillInvariance == Spec => []FillInv
<1>1. Init => FillInv
  <2> SUFFICES ASSUME Init PROVE FillInv
    OBVIOUS
  <2>1. trees = << >> /\ call = "idle"
    BY DEF Init
  <2> QED
    BY <2>1, EmptySeq DEF FillInv, FillValid, AcceptsWholeCodes, Building
<1>2. IInv /\ FillInv /\ [Next]_vars => FillInv'
  <2> SUFFICES ASSUME IInv, FillInv, [Next]_vars PROVE FillInv'
    OBVIOUS
  <2>1. ASSUME ~Building, ~Building', UNCHANGED <<trees, table>>,
               call' = "threw" => call = "threw"
        PROVE  FillInv'
    BY <2>1 DEF FillInv, FillValid, AcceptsWholeCodes, Building
  <2>2. CASE \E t \in Tables : NewCodeTree(t)
    BY <2>2, NewCodeTreeFills
  <2>3. CASE LeafStep
    BY <2>3, LeafStepFills
  <2>4. CASE LeavesEnd
    BY <2>4, LeavesEndFills
  <2>5. CASE PairStep
    BY <2>5, PairStepFills
  <2>6. CASE AtThrows
    BY <2>6, AtThrowsFills
  <2>7. CASE LevelEnd
    BY <2>7, LevelEndFills
  <2>8. CASE TreeEnd
    BY <2>8, TreeEndFills
  <2>9. CASE \E k \in 1..MaxTrees : DecodeSymbol(k)
    BY <2>1, <2>9 DEF DecodeSymbol, Building, build
  <2>10. CASE \E bit \in {0, 1} : DecodeBit(bit)
    BY <2>1, <2>10 DEF DecodeBit, Building, build
  <2>11. CASE UNCHANGED vars
    BY <2>11 DEF vars, build, FillInv, FillValid, AcceptsWholeCodes, Building, LeavesOf
  <2> QED
    BY <2>2, <2>3, <2>4, <2>5, <2>6, <2>7, <2>8, <2>9, <2>10, <2>11 DEF Next, BuildNext
<1> QED
  BY <1>1, <1>2, Invariance, PTL DEF Spec

(* new_code_tree returns a tree only for a table whose codes fill the code *)
(* space a whole number of times, and throws only for the others, whatever *)
(* the tables and the longest code (huff.cc:36-55).                        *)
THEOREM AcceptsWhole == Spec => []AcceptsWholeCodes
<1>1. FillInv => AcceptsWholeCodes
  BY DEF FillInv
<1> QED
  BY <1>1, FillInvariance, PTL

-----------------------------------------------------------------------------
(* The levels of the trees.  What was placed in a row stays where it is    *)
(* when nodes are added to the pool and to the row.                        *)
Kept == \A x \in Nat : x < Len(pool) => x < Len(pool') /\ node(x)' = node(x)

(* A node made changes no other,                                           *)
LEMMA GrowthKeeps ==
  ASSUME IInv, Grows
  PROVE  Kept
<1>1. /\ Len(pool) \in Nat /\ Len(pool) <= Len(pool') /\ Len(pool') \in Int
      /\ \A n \in 1 .. Len(pool) : pool'[n] = pool[n]
  <2>1. Len(pool') \in Int
    BY PoolIsSmall DEF Grows
  <2> QED
    BY <2>1, PoolIsSmall DEF Grows
<1>2. ASSUME NEW x \in Nat, x < Len(pool)
      PROVE  x < Len(pool') /\ node(x)' = node(x)
  <2>1. x + 1 \in 1 .. Len(pool)
    BY <1>1, <1>2
  <2>2. pool'[x + 1] = pool[x + 1]
    BY <1>1, <2>1
  <2> QED
    BY <1>1, <1>2, <2>2 DEF node
<1> QED
  BY <1>2 DEF Kept

(* nor does a step that makes none.                                        *)
LEMMA StillnessKeeps ==
  ASSUME pool' = pool
  PROVE  Kept
BY DEF Kept, node

(* A symbol's place among those of its length is a number.                 *)
LEMMA RankIsNat ==
  ASSUME NEW t \in Tables, NEW s
  PROVE  Rank(t, s) \in Nat
<1>1. {r \in DOMAIN t : t[r] = t[s] /\ r < s} \in SUBSET DOMAIN t
  OBVIOUS
<1> QED
  BY <1>1, SymbolsAreFew, SizesAssumption DEF Rank

(* The number of leaves of a level.                                        *)
LEMMA LeavesOfIsNat ==
  ASSUME NEW t \in Tables, NEW l \in Nat
  PROVE  LeavesOf(t, l) \in Nat
BY CodeSpaceIsNat DEF LeavesOf

(* A row, and one that begins with it.                                     *)
Continued(row, longer) ==
  /\ row \in Seq(Nat) /\ longer \in Seq(Nat) /\ Len(row) <= Len(longer)
  /\ \A p \in 1 .. Len(row) : longer[p] = row[p] /\ row[p] < Len(pool)

(* The leaves that are in their place stay there when the row goes on,     *)
LEMMA LeavesStay ==
  ASSUME Kept, NEW t \in Tables, NEW l \in Nat, NEW row, NEW longer, NEW upto,
         Continued(row, longer), LeavesPlaced(t, l, row, upto)
  PROVE  LeavesPlaced(t, l, longer, upto)'
<1>1. Len(row) \in Nat /\ Len(longer) \in Nat
  BY LenProperties DEF Continued
<1>2. ASSUME NEW s \in DOMAIN t, l > 0, t[s] = l, s < upto
      PROVE  Rank(t, s) < Len(longer) /\ node(longer[Rank(t, s) + 1])' = Leaf(s)
  <2>1. PICK r \in Nat : r = Rank(t, s)
    BY RankIsNat
  <2>2. r < Len(row) /\ node(row[r + 1]) = Leaf(s)
    BY <1>2, <2>1 DEF LeavesPlaced
  <2>3. r + 1 \in 1 .. Len(row)
    BY <1>1, <2>1, <2>2
  <2>4. row[r + 1] \in Nat /\ row[r + 1] < Len(pool) /\ longer[r + 1] = row[r + 1]
    BY <2>3, ElementOfSeq DEF Continued
  <2>5. PICK x \in Nat : x = row[r + 1] /\ x < Len(pool)
    BY <2>4
  <2>6. node(x)' = node(x)
    BY <2>5 DEF Kept
  <2>7. node(longer[r + 1])' = Leaf(s)
    BY <2>2, <2>4, <2>5, <2>6
  <2>8. r < Len(longer)
    BY <1>1, <2>2 DEF Continued
  <2> QED
    BY <2>1, <2>7, <2>8
<1> QED
  BY <1>2 DEF LeavesPlaced

(* and so do the branches.                                                 *)
LEMMA PairsStay ==
  ASSUME Kept, NEW t \in Tables, NEW l \in Nat, NEW row, NEW longer, NEW below, NEW upto,
         Continued(row, longer), PairsPlaced(t, l, row, below, upto)
  PROVE  PairsPlaced(t, l, longer, below, upto)'
<1>1. Len(row) \in Nat /\ Len(longer) \in Nat
  BY LenProperties DEF Continued
<1>2. PICK c \in Nat : c = LeavesOf(t, l)
  BY LeavesOfIsNat
<1>3. ASSUME NEW q \in 0 .. Len(below), 2 * q < upto
      PROVE  /\ 2 * q + 1 < Len(below) /\ c + q < Len(longer)
             /\ node(longer[c + q + 1])' = Branch(below[2 * q + 1], below[2 * q + 2])
  <2>1. /\ 2 * q + 1 < Len(below) /\ c + q < Len(row)
        /\ node(row[c + q + 1]) = Branch(below[2 * q + 1], below[2 * q + 2])
    BY <1>2, <1>3 DEF PairsPlaced
  <2>2. PICK r \in Nat : r = c + q
    OBVIOUS
  <2>3. r + 1 \in 1 .. Len(row)
    BY <1>1, <2>1, <2>2
  <2>4. row[r + 1] \in Nat /\ row[r + 1] < Len(pool) /\ longer[r + 1] = row[r + 1]
    BY <2>3, ElementOfSeq DEF Continued
  <2>5. PICK x \in Nat : x = row[r + 1] /\ x < Len(pool)
    BY <2>4
  <2>6. node(x)' = node(x)
    BY <2>5 DEF Kept
  <2>7. node(longer[r + 1])' = node(row[r + 1])
    BY <2>4, <2>5, <2>6
  <2>8. r < Len(longer)
    BY <1>1, <2>1, <2>2 DEF Continued
  <2> QED
    BY <2>1, <2>2, <2>7, <2>8
<1> QED
  BY <1>2, <1>3 DEF PairsPlaced

(* A level that is complete stays so.                                      *)
LEMMA MadeStays ==
  ASSUME Kept, NEW t \in Tables, NEW l \in Nat, NEW row \in Seq(Nat), NEW below,
         LevelMade(t, l, row, below)
  PROVE  LevelMade(t, l, row, below)'
<1>1. Continued(row, row)
  BY LenProperties DEF Continued, LevelMade
<1>2. LeavesPlaced(t, l, row, Size(t))' /\ PairsPlaced(t, l, row, below, Len(below))'
  BY <1>1, LeavesStay, PairsStay DEF LevelMade
<1>3. \A p \in 1 .. Len(row) : row[p] < Len(pool')
  BY ElementOfSeq DEF LevelMade, Kept
<1> QED
  BY <1>2, <1>3 DEF LevelMade, Size, LeavesOf

(* Every level of every tree begun has its row.                            *)
LEMMA RowIs ==
  ASSUME IInv, LevelsValid, NEW k \in 1..Begun, NEW l \in 0 .. MaxLength + 1
  PROVE  levels[k][l] \in Seq(Nat) /\ k \in 1 .. Len(levels)
<1>1. levels \in Seq([0 .. MaxLength + 1 -> Seq(Nat)]) /\ Len(levels) = Begun
  BY DEF IInv, TypeOK, LevelsValid
<1>2. levels[k] \in [0 .. MaxLength + 1 -> Seq(Nat)]
  BY <1>1, ElementOfSeq
<1> QED
  BY <1>1, <1>2

(* The table of a tree begun is one of the tables.                         *)
LEMMA TableIs ==
  ASSUME IInv, NEW k \in 1 .. Len(trees) + 1, k <= Len(trees) \/ Building
  PROVE  TableOf(k) \in Tables
<1>1. Len(trees) \in Nat
  BY PoolIsSmall
<1>2. CASE k <= Len(trees)
  <2>1. trees[k] \in [table : Tables, root : Nat]
    <3>1. trees \in Seq([table : Tables, root : Nat]) /\ k \in 1 .. Len(trees)
      BY <1>1, <1>2 DEF IInv, TypeOK
    <3> QED
      BY <3>1, ElementOfSeq
  <2> QED
    BY <1>2, <2>1 DEF TableOf
<1>3. CASE ~(k <= Len(trees))
  BY <1>3, TableBuilt DEF TableOf
<1> QED
  BY <1>2, <1>3

(* The levels that are complete stay so in every step that does not change *)
(* their tables.                                                           *)
LEMMA LevelStays ==
  ASSUME IInv, LevelsValid, Kept, NEW k \in 1..Begun, k <= Len(trees) \/ Building,
         NEW l \in Reached(k)..MaxLength
  PROVE  /\ LevelMade(TableOf(k), l, levels[k][l], levels[k][l + 1])
         /\ \A t, row, below :
              /\ t = TableOf(k) /\ row = levels[k][l] /\ below = levels[k][l + 1]
              => LevelMade(t, l, row, below)'
<1>1. LevelMade(TableOf(k), l, levels[k][l], levels[k][l + 1])
  BY DEF LevelsValid
<1>2. /\ Len(trees) \in Nat /\ Begun \in Nat /\ il \in Nat /\ MaxLength \in Nat
      /\ k \in 1 .. Len(trees) + 1
  <2>1. Len(trees) \in Nat /\ Begun \in Nat /\ il \in Nat /\ MaxLength \in Nat
    BY PoolIsSmall, SizesAssumption DEF IInv, TypeOK
  <2>2. k \in Nat
    OBVIOUS
  <2>3. Begun <= Len(trees) + 1
    BY <2>1 DEF Begun
  <2> QED
    BY <2>1, <2>2, <2>3
<1>3. l \in Nat /\ l \in 0 .. MaxLength + 1
  <2>1. Reached(k) \in Nat
    BY <1>2 DEF Reached
  <2> QED
    BY <1>2, <2>1
<1>4. TableOf(k) \in Tables
  BY <1>2, TableIs
<1>5. levels[k][l] \in Seq(Nat)
  BY <1>3, RowIs
<1>6. ASSUME NEW t, NEW row, NEW below,
             t = TableOf(k), row = levels[k][l], below = levels[k][l + 1]
      PROVE  LevelMade(t, l, row, below)'
  <2>1. t \in Tables /\ row \in Seq(Nat) /\ LevelMade(t, l, row, below)
    BY <1>1, <1>4, <1>5, <1>6
  <2> QED
    BY <1>3, <2>1, MadeStays
<1> QED
  BY <1>1, <1>6

(* A step that completes no level and begins no tree.                      *)
LEMMA LevelsStay ==
  ASSUME IInv, LevelsValid, RootsValid, Kept, Building,
         UNCHANGED <<trees, table, il, levels>>, Begun' = Begun
  PROVE  LevelsValid' /\ RootsValid'
<1>1. Len(trees') = Len(trees)
  OBVIOUS
<1>2. \A k : TableOf(k)' = TableOf(k) /\ Reached(k)' = Reached(k)
  BY DEF TableOf, Reached
<1>3. ASSUME NEW k \in 1..Begun, NEW l \in Reached(k)..MaxLength
      PROVE  LevelMade(TableOf(k), l, levels[k][l], levels[k][l + 1])'
  <2>1. PICK t, row, below :
          t = TableOf(k) /\ row = levels[k][l] /\ below = levels[k][l + 1]
    OBVIOUS
  <2>2. LevelMade(t, l, row, below)'
    BY <2>1, LevelStays
  <2>3. t = TableOf(k)' /\ row = levels'[k][l] /\ below = levels'[k][l + 1]
    BY <1>2, <2>1
  <2> QED
    BY <2>2, <2>3
<1>4. LevelsValid'
  BY <1>2, <1>3 DEF LevelsValid
<1>5. RootsValid'
  BY DEF RootsValid, FullCodeSpace, CodeSpace, LengthCounts, CountOf
<1> QED
  BY <1>4, <1>5

-----------------------------------------------------------------------------
(* The actions again.                                                      *)

(* The row of this level, and how it goes on.                              *)
LEMMA RowContinues ==
  ASSUME IInv, Building
  PROVE  /\ Continued(new_nodes, new_nodes)
         /\ \A m \in Node : PushNode(m) /\ Len(pool) < IndexSize
              => \A row : row = new_nodes' => Continued(new_nodes, row)
<1>1. \A p \in 1 .. Len(new_nodes) : new_nodes[p] < Len(pool)
  BY DEF IInv, BuildValid, MadeFor
<1>2. new_nodes \in Seq(Nat) /\ Len(new_nodes) \in Nat
  BY LenProperties DEF IInv, TypeOK
<1>3. ASSUME NEW m \in Node, PushNode(m), Len(pool) < IndexSize,
             NEW row, row = new_nodes'
      PROVE  Continued(new_nodes, row)
  <2>1. /\ row \in Seq(Nat) /\ Len(row) = Len(new_nodes) + 1
        /\ \A n \in 1 .. Len(row) :
             row[n] = IF n <= Len(new_nodes) THEN new_nodes[n] ELSE Len(pool)
    BY <1>3, PushNodeAdds
  <2>2. \A p \in 1 .. Len(new_nodes) : row[p] = new_nodes[p]
    BY <1>2, <2>1
  <2> QED
    BY <1>1, <1>2, <2>1, <2>2 DEF Continued
<1> QED
  BY <1>1, <1>2, <1>3 DEF Continued

(* A leaf is placed behind those of the smaller symbols of its length,     *)
(* where Rank says.                                                        *)
LEMMA LeafStepCodes ==
  ASSUME IInv, FillInv, CodeInv, LeafStep
  PROVE  CodeInv'
<1>1. /\ call = "leaves" /\ call' = "leaves" /\ Building /\ Building'
      /\ il > 0 /\ i \in DOMAIN table /\ i' = i + 1
      /\ UNCHANGED <<trees, call, table, il, nodes, levels, start, walk>>
      /\ Begun' = Begun
  BY DEF LeafStep, Building, Begun
<1>2. PICK n \in Nat : table \in [0 .. n - 1 -> 0..MaxLength]
  BY <1>1, TableBuilt
<1>3. table \in Tables /\ il \in Nat /\ i \in Nat
  BY <1>1, TableBuilt
<1>4. LevelsValid /\ RootsValid /\ LeavesPlaced(table, il, new_nodes, i)
      /\ nodes = levels[Len(trees) + 1][il + 1]
  BY <1>1 DEF CodeInv, LevelBegun
<1>5. ASSUME Kept, LeavesPlaced(table, il, new_nodes, i)'
      PROVE  CodeInv'
  <2>1. LevelsValid' /\ RootsValid'
    BY <1>1, <1>4, <1>5, LevelsStay
  <2>2. LevelBegun'
    BY <1>1, <1>4, <1>5 DEF LevelBegun
  <2> QED
    BY <2>1, <2>2 DEF CodeInv
<1>6. PICK t \in Tables, l \in Nat, j \in Nat : t = table /\ l = il /\ j = i
  BY <1>3
<1>7. PICK row : row = new_nodes
  OBVIOUS
<1>8. LeavesPlaced(t, l, row, j)
  BY <1>4, <1>6, <1>7
<1>9. t \in [0 .. n - 1 -> 0..MaxLength]
  BY <1>2, <1>6
<1>10. ASSUME NEW longer, longer = new_nodes', LeavesPlaced(t, l, longer, j + 1)'
       PROVE  LeavesPlaced(table, il, new_nodes, i)'
  BY <1>1, <1>6, <1>10
<1>11. CASE table[i] = il /\ PushNode(Leaf(i))
  <2>1. PICK m \in Node : m = Leaf(j) /\ PushNode(m)
    BY <1>6, <1>11 DEF Leaf, Node
  <2>2. Len(pool) < IndexSize
    BY <1>1, <1>11, LeafHasPlace
  <2>3. PICK longer : longer = new_nodes'
    OBVIOUS
  <2>4. /\ Len(pool) \in Nat /\ Len(row) \in Nat /\ Len(longer) = Len(row) + 1
        /\ longer[Len(row) + 1] = Len(pool) /\ pool'[Len(pool) + 1] = m /\ Grows
    BY <1>7, <2>1, <2>2, <2>3, PushNodeAdds, PoolIsSmall
  <2>5. Kept
    BY <2>4, GrowthKeeps
  <2>6. Continued(row, longer)
    BY <1>1, <1>7, <2>1, <2>2, <2>3, RowContinues
  <2>7. LeavesPlaced(t, l, longer, j)'
    BY <1>8, <2>5, <2>6, LeavesStay
  <2>8. Rank(t, j) = Len(row)
    <3>1. Len(row) = Cardinality({s \in DOMAIN t : l > 0 /\ t[s] = l /\ s < j})
      BY <1>1, <1>6, <1>7 DEF FillInv, FillValid
    <3>2. {s \in DOMAIN t : l > 0 /\ t[s] = l /\ s < j} = {s \in DOMAIN t : t[s] = t[j] /\ s < j}
      BY <1>1, <1>6, <1>11
    <3> QED
      BY <3>1, <3>2 DEF Rank
  <2>9. node(longer[Rank(t, j) + 1])' = Leaf(j)
    <3>1. longer[Rank(t, j) + 1] = Len(pool)
      BY <2>4, <2>8
    <3> QED
      BY <2>1, <2>4, <3>1 DEF node
  <2>10. ASSUME NEW s \in DOMAIN t, l > 0, t[s] = l, s < j + 1
         PROVE  Rank(t, s) < Len(longer) /\ node(longer[Rank(t, s) + 1])' = Leaf(s)
    <3>1. CASE s = j
      BY <2>4, <2>8, <2>9, <3>1
    <3>2. CASE s # j
      <4>1. s < j
        BY <1>6, <1>9, <2>10, <3>2
      <4> QED
        BY <2>7, <2>10, <4>1 DEF LeavesPlaced
    <3> QED
      BY <3>1, <3>2
  <2>11. LeavesPlaced(t, l, longer, j + 1)'
    BY <2>10 DEF LeavesPlaced
  <2> QED
    BY <1>5, <1>10, <2>3, <2>5, <2>11
<1>12. CASE table[i] # il /\ UNCHANGED <<pool, born, new_nodes>>
  <2>1. Kept /\ Continued(row, row)
    BY <1>1, <1>7, <1>12, StillnessKeeps, RowContinues
  <2>2. LeavesPlaced(t, l, row, j)'
    BY <1>8, <2>1, LeavesStay
  <2>3. \A s \in DOMAIN t : t[s] = l /\ s < j + 1 => s < j
    BY <1>6, <1>9, <1>12
  <2>4. LeavesPlaced(t, l, row, j + 1)'
    BY <2>2, <2>3 DEF LeavesPlaced
  <2> QED
    BY <1>5, <1>7, <1>10, <1>12, <2>1, <2>4
<1> QED
  BY <1>11, <1>12 DEF LeafStep

(* All the leaves of a level are placed before the first of its branches.  *)
LEMMA LeavesEndCodes ==
  ASSUME IInv, CodeInv, LeavesEnd
  PROVE  CodeInv'
<1>1. /\ call = "leaves" /\ call' = "pairs" /\ i' = 0 /\ Building /\ Building'
      /\ UNCHANGED <<pool, trees, table, il, nodes, new_nodes, walk, born, levels, start>>
      /\ Begun' = Begun /\ (il = 0 \/ i \notin DOMAIN table)
  BY DEF LeavesEnd, Building, Begun
<1>2. PICK n \in Nat : table \in [0 .. n - 1 -> 0..MaxLength]
  BY <1>1, TableBuilt
<1>3. table \in Tables /\ il \in Nat /\ i \in Nat
  BY <1>1, TableBuilt
<1>4. LevelsValid /\ RootsValid /\ LeavesPlaced(table, il, new_nodes, i)
      /\ nodes = levels[Len(trees) + 1][il + 1]
  BY <1>1 DEF CodeInv, LevelBegun
<1>5. Kept
  BY <1>1, StillnessKeeps
<1>6. LevelsValid' /\ RootsValid'
  BY <1>1, <1>4, <1>5, LevelsStay
<1>7. PICK t \in Tables, l \in Nat, j \in Nat : t = table /\ l = il /\ j = i
  BY <1>3
<1>8. PICK row : row = new_nodes
  OBVIOUS
<1>9. LeavesPlaced(t, l, row, j)'
  <2>1. Continued(row, row) /\ LeavesPlaced(t, l, row, j)
    BY <1>1, <1>4, <1>7, <1>8, RowContinues
  <2> QED
    BY <1>5, <2>1, LeavesStay
<1>10. \A s \in DOMAIN t : l > 0 => s < j
  BY <1>1, <1>2, <1>3, <1>7
<1>11. LeavesPlaced(t, l, row, Size(t))'
  BY <1>9, <1>10 DEF LeavesPlaced
<1>12. LeavesPlaced(table, il, new_nodes, Size(table))'
  BY <1>1, <1>7, <1>11, <1>8
<1>13. PairsPlaced(table, il, new_nodes, nodes, i)'
  <2>1. \A q \in 0 .. Len(nodes') : ~(2 * q < i')
    BY <1>1
  <2> QED
    BY <2>1 DEF PairsPlaced
<1>14. LevelBegun'
  BY <1>1, <1>4, <1>12, <1>13 DEF LevelBegun
<1> QED
  BY <1>6, <1>14 DEF CodeInv

(* A branch is placed behind the leaves and the branches before it, above  *)
(* the next two nodes.                                                     *)
LEMMA PairStepCodes ==
  ASSUME IInv, FillInv, CodeInv, PairStep
  PROVE  CodeInv'
<1> DEFINE branch == Branch(nodes[i + 1], nodes[i + 2])
<1>1. /\ call = "pairs" /\ call' = "pairs" /\ Building /\ Building'
      /\ i + 1 < Len(nodes) /\ i' = i + 2 /\ PushNode(branch)
      /\ UNCHANGED <<trees, call, table, il, nodes, levels, start, walk>>
      /\ Begun' = Begun
  BY DEF PairStep, Building, Begun
<1>2. /\ table \in Tables /\ il \in Nat /\ i \in Nat /\ Len(nodes) \in Nat
      /\ Len(pool) \in Nat /\ Len(new_nodes) \in Nat /\ nodes \in Seq(Nat)
  BY <1>1, TableBuilt, PoolIsSmall DEF IInv, TypeOK
<1>3. /\ LevelsValid /\ RootsValid /\ LeavesPlaced(table, il, new_nodes, Size(table))
      /\ PairsPlaced(table, il, new_nodes, nodes, i)
      /\ nodes = levels[Len(trees) + 1][il + 1]
  BY <1>1 DEF CodeInv, LevelBegun
<1>4. PICK t \in Tables, l \in Nat, j \in Nat, c \in Nat :
        t = table /\ l = il /\ j = i /\ c = LeavesOf(t, l)
  BY <1>2, LeavesOfIsNat
<1>5. PICK row, below :
        /\ t = table /\ l = il /\ j = i /\ c = LeavesOf(t, l)
        /\ row = new_nodes /\ below = nodes
  BY <1>4
<1>6. PICK m \in Node : m = Branch(below[j + 1], below[j + 2]) /\ PushNode(m)
  <2>1. j + 1 \in 1 .. Len(below) /\ j + 2 \in 1 .. Len(below)
    BY <1>1, <1>2, <1>5
  <2>2. below[j + 1] \in Nat /\ below[j + 2] \in Nat
    BY <1>2, <1>5, <2>1, ElementOfSeq
  <2>3. Branch(below[j + 1], below[j + 2]) \in Node
    BY <2>2 DEF Branch, Node
  <2> QED
    BY <1>1, <1>5, <2>3
<1>7. PICK longer : longer = new_nodes'
  OBVIOUS
<1>8. Len(pool) < IndexSize
  BY <1>1, PairHasPlace
<1>9. /\ Len(row) \in Nat /\ Len(longer) = Len(row) + 1
      /\ longer[Len(row) + 1] = Len(pool) /\ pool'[Len(pool) + 1] = m /\ Grows
  <2>1. /\ Len(new_nodes') = Len(new_nodes) + 1 /\ pool'[Len(pool) + 1] = m /\ Grows
        /\ \A p \in 1 .. Len(new_nodes') :
             new_nodes'[p] = IF p <= Len(new_nodes) THEN new_nodes[p] ELSE Len(pool)
    BY <1>6, <1>8, PushNodeAdds
  <2>2. Len(new_nodes) + 1 \in 1 .. Len(new_nodes')
    BY <1>2, <2>1
  <2>3. new_nodes'[Len(new_nodes) + 1] = Len(pool)
    BY <1>2, <2>1, <2>2
  <2> QED
    BY <1>2, <1>5, <1>7, <2>1, <2>3
<1>10. Kept
  BY <1>9, GrowthKeeps
<1>11. Continued(row, longer)
  BY <1>1, <1>5, <1>6, <1>7, <1>8, RowContinues
<1>12. LeavesPlaced(t, l, longer, Size(t))' /\ PairsPlaced(t, l, longer, below, j)'
  BY <1>3, <1>5, <1>10, <1>11, LeavesStay, PairsStay
<1>13. 2 * Len(row) = 2 * c + j
  BY <1>1, <1>5 DEF FillInv, FillValid
<1>14. ASSUME NEW q \in 0 .. Len(below), 2 * q < j + 2
       PROVE  /\ 2 * q + 1 < Len(below) /\ c + q < Len(longer)
              /\ node(longer[c + q + 1])' = Branch(below[2 * q + 1], below[2 * q + 2])
  <2>1. CASE 2 * q < j
    BY <1>5, <1>12, <2>1 DEF PairsPlaced, LeavesOf, CountOf
  <2>2. CASE ~(2 * q < j)
    <3>1. 2 * q = j /\ c + q = Len(row)
      BY <1>9, <1>13, <1>14, <2>2
    <3>2. longer[c + q + 1] = Len(pool) /\ c + q < Len(longer)
      BY <1>9, <3>1
    <3>3. 2 * q + 1 < Len(below)
      BY <1>1, <1>5, <3>1
    <3>4. node(longer[c + q + 1])' = m
      BY <1>9, <3>2 DEF node
    <3> QED
      BY <1>6, <3>1, <3>2, <3>3, <3>4
  <2> QED
    BY <2>1, <2>2
<1>15. PairsPlaced(t, l, longer, below, j + 2)'
  BY <1>5, <1>14 DEF PairsPlaced, LeavesOf, CountOf
<1>16. LeavesPlaced(table, il, new_nodes, Size(table))'
  BY <1>1, <1>5, <1>7, <1>12
<1>17. PairsPlaced(table, il, new_nodes, nodes, i)'
  BY <1>1, <1>5, <1>7, <1>15
<1>18. LevelBegun'
  BY <1>1, <1>3, <1>16, <1>17 DEF LevelBegun
<1>19. LevelsValid' /\ RootsValid'
  BY <1>1, <1>3, <1>10, LevelsStay
<1> QED
  BY <1>18, <1>19 DEF CodeInv

(* This level complete, the levels of the trees begun are complete from it *)
(* up.                                                                     *)
From(k) == IF k <= Len(trees) THEN 0 ELSE il

(* When the row below is used up, the row of this level is complete.       *)
LEMMA LevelCompleted ==
  ASSUME IInv, FillInv, CodeInv, call = "pairs", i >= Len(nodes), pool' = pool
  PROVE  /\ Begun = Len(trees) + 1 /\ Len(WithLevel) = Begun
         /\ \A k \in 1..Begun :
              /\ WithLevel[k][MaxLength + 1] = << >>
              /\ \A l \in From(k)..MaxLength : \A t, row, below :
                   /\ t = TableOf(k) /\ row = WithLevel[k][l] /\ below = WithLevel[k][l + 1]
                   => LevelMade(t, l, row, below)'
<1>1. /\ Building /\ Begun = Len(trees) + 1 /\ LevelsValid /\ Kept
      /\ Len(levels) = Begun /\ Len(trees) \in Nat /\ Len(nodes) = i
      /\ Len(nodes) \in Nat /\ Len(new_nodes) \in Nat /\ new_nodes \in Seq(Nat)
      /\ table \in Tables /\ il \in 0..MaxLength /\ MaxLength \in Nat
  <2>1. Building /\ Begun = Len(trees) + 1 /\ LevelsValid /\ Kept
    BY StillnessKeeps DEF CodeInv, Begun, Building
  <2>2. Len(nodes) \in Nat /\ i \in Nat /\ i <= Len(nodes)
    BY PoolIsSmall DEF IInv, TypeOK, SizeValid
  <2> QED
    BY <2>1, <2>2, PoolIsSmall, TableBuilt DEF LevelsValid, IInv, TypeOK
<1>2. /\ LeavesPlaced(table, il, new_nodes, Size(table))
      /\ PairsPlaced(table, il, new_nodes, nodes, i)
      /\ nodes = levels[Begun][il + 1]
      /\ 2 * Len(new_nodes) = 2 * LeavesOf(table, il) + i
  BY <1>1 DEF CodeInv, LevelBegun, FillInv, FillValid
<1>3. \A k \in 1..Begun, l \in 0 .. MaxLength + 1 :
        WithLevel[k][l] = IF k = Begun /\ l = il THEN new_nodes ELSE levels[k][l]
  BY <1>1, LevelKept DEF IInv
<1>4. Len(WithLevel) = Begun
  BY <1>1, LevelKept DEF IInv
<1>5. ASSUME NEW k \in 1..Begun
      PROVE  WithLevel[k][MaxLength + 1] = << >>
  <2>1. levels[k][MaxLength + 1] = << >>
    BY <1>1 DEF LevelsValid
  <2>2. MaxLength + 1 \in 0 .. MaxLength + 1 /\ MaxLength + 1 # il
    BY <1>1
  <2> QED
    BY <1>3, <2>1, <2>2
<1>6. ASSUME NEW k \in 1..Begun, NEW l \in From(k)..MaxLength,
             NEW t, NEW row, NEW below,
             t = TableOf(k), row = WithLevel[k][l], below = WithLevel[k][l + 1]
      PROVE  LevelMade(t, l, row, below)'
  <2>1. k \in Nat /\ k <= Len(trees) + 1 /\ l \in Nat /\ l \in 0..MaxLength
    <3>1. From(k) \in Nat
      BY <1>1 DEF From
    <3> QED
      BY <1>1, <3>1
  <2>2. l \in 0 .. MaxLength + 1 /\ l + 1 \in 0 .. MaxLength + 1
    BY <1>1, <2>1
  <2>3. CASE k = Begun /\ l = il
    <3>1. t = table /\ row = new_nodes
      BY <1>1, <1>3, <1>6, <2>2, <2>3 DEF TableOf
    <3>2. below = nodes
      <4>1. l + 1 # il
        BY <2>1, <2>3
      <4> QED
        BY <1>2, <1>3, <1>6, <2>2, <2>3, <4>1
    <3>3. /\ t \in Tables /\ row \in Seq(Nat) /\ Continued(row, row)
          /\ \A p \in 1 .. Len(row) : row[p] < Len(pool)
      BY <1>1, <3>1, RowContinues DEF Continued
    <3>4. LeavesPlaced(t, l, row, Size(t)) /\ PairsPlaced(t, l, row, below, Len(below))
      BY <1>1, <1>2, <2>3, <3>1, <3>2
    <3>5. 2 * Len(row) = 2 * LeavesOf(t, l) + Len(below)
      BY <1>1, <1>2, <2>3, <3>1, <3>2
    <3>6. LevelMade(t, l, row, below)
      BY <3>3, <3>4, <3>5 DEF LevelMade
    <3> QED
      BY <1>1, <2>1, <3>3, <3>6, MadeStays
  <2>4. CASE ~(k = Begun /\ l = il)
    <3>1. l \in Reached(k)..MaxLength
      <4>1. k <= Len(trees) => From(k) = 0 /\ Reached(k) = 0
        BY DEF From, Reached
      <4>2. ~(k <= Len(trees)) => k = Begun /\ From(k) = il /\ Reached(k) = il + 1
        BY <1>1, <2>1 DEF From, Reached
      <4>3. il \in Nat
        BY <1>1
      <4> QED
        BY <2>1, <2>4, <4>1, <4>2, <4>3
    <3>2. row = levels[k][l]
      BY <1>3, <1>6, <2>2, <2>4
    <3>3. below = levels[k][l + 1]
      <4>1. ~(k = Begun /\ l + 1 = il)
        <5>1. k = Begun => l >= il
          BY <1>1, <1>6, <2>1 DEF From
        <5> QED
          BY <1>1, <2>1, <5>1
      <4> QED
        BY <1>3, <1>6, <2>2, <4>1
    <3> QED
      BY <1>1, <1>6, <3>1, <3>2, <3>3, LevelStays
  <2> QED
    BY <2>3, <2>4
<1> QED
  BY <1>1, <1>4, <1>5, <1>6

(* The level is complete, and the next one up begins empty.                *)
LEMMA LevelEndCodes ==
  ASSUME IInv, FillInv, CodeInv, LevelEnd
  PROVE  CodeInv'
<1>1. /\ call = "pairs" /\ call' = "leaves" /\ i' = 0 /\ Building /\ Building'
      /\ i >= Len(nodes) /\ il > 0 /\ il' = il - 1 /\ levels' = WithLevel
      /\ nodes' = new_nodes /\ new_nodes' = << >> /\ pool' = pool
      /\ UNCHANGED <<pool, trees, table, start, walk, born>> /\ Begun' = Begun
  BY DEF LevelEnd, Building, Begun
<1>2. /\ Begun = Len(trees) + 1 /\ Len(WithLevel) = Begun
      /\ \A k \in 1..Begun :
           /\ WithLevel[k][MaxLength + 1] = << >>
           /\ \A l \in From(k)..MaxLength : \A t, row, below :
                /\ t = TableOf(k) /\ row = WithLevel[k][l] /\ below = WithLevel[k][l + 1]
                => LevelMade(t, l, row, below)'
  BY <1>1, LevelCompleted
<1>3. /\ il \in 0..MaxLength /\ MaxLength \in Nat /\ Len(trees) \in Nat
      /\ \E n \in Nat : table \in [0 .. n - 1 -> 0..MaxLength]
  BY <1>1, TableBuilt, PoolIsSmall
<1>4. \A k : TableOf(k)' = TableOf(k) /\ Reached(k)' = From(k)
  BY <1>1, <1>3 DEF TableOf, Reached, From
<1>5. LevelsValid'
  <2>1. ASSUME NEW k \in 1..Begun, NEW l \in From(k)..MaxLength
        PROVE  LevelMade(TableOf(k), l, levels[k][l], levels[k][l + 1])'
    <3>1. PICK t, row, below :
            t = TableOf(k) /\ row = levels'[k][l] /\ below = levels'[k][l + 1]
      OBVIOUS
    <3>2. LevelMade(t, l, row, below)'
      BY <1>1, <1>2, <3>1
    <3>3. t = TableOf(k)'
      BY <1>4, <3>1
    <3> QED
      BY <3>1, <3>2, <3>3
  <2>2. \A k \in 1..Begun : levels'[k][MaxLength + 1] = << >>
    BY <1>1, <1>2
  <2> QED
    BY <1>1, <1>2, <1>4, <2>1, <2>2 DEF LevelsValid
<1>6. \A k \in 1..Begun, l \in 0 .. MaxLength + 1 :
        WithLevel[k][l] = IF k = Begun /\ l = il THEN new_nodes ELSE levels[k][l]
  BY <1>2, LevelKept DEF IInv, CodeInv, LevelsValid
<1>7. LevelBegun'
  <2>1. nodes' = levels'[Len(trees') + 1][il' + 1]
    <3>1. Begun \in 1..Begun /\ il \in 0 .. MaxLength + 1 /\ il' + 1 = il
      BY <1>1, <1>2, <1>3
    <3> QED
      BY <1>1, <1>2, <1>6, <3>1
  <2>2. LeavesPlaced(table, il, new_nodes, i)'
    BY <1>1, <1>3 DEF LeavesPlaced
  <2> QED
    BY <1>1, <2>1, <2>2 DEF LevelBegun
<1>8. RootsValid'
  <2>1. ASSUME NEW k \in 1 .. Len(trees) PROVE levels'[k][0] = levels[k][0]
    <3>1. k \in 1..Begun /\ k # Begun /\ 0 \in 0 .. MaxLength + 1
      BY <1>2, <1>3
    <3> QED
      BY <1>1, <1>6, <3>1
  <2> QED
    BY <1>1, <2>1 DEF CodeInv, RootsValid, FullCodeSpace, CodeSpace, LengthCounts, CountOf
<1> QED
  BY <1>5, <1>7, <1>8 DEF CodeInv

(* The first node of level 0 is the root; if the codes fill the code space *)
(* there is no other.                                                      *)
LEMMA TreeEndCodes ==
  ASSUME IInv, FillInv, CodeInv, TreeEnd
  PROVE  CodeInv'
<1> DEFINE tree == [table |-> table, root |-> new_nodes[1]]
<1>1. /\ call = "pairs" /\ call' = "idle" /\ Building /\ ~Building'
      /\ i >= Len(nodes) /\ il = 0 /\ levels' = WithLevel /\ pool' = pool
      /\ UNCHANGED <<table, il, new_nodes>> /\ trees' = Append(trees, tree)
  BY DEF TreeEnd, Building
<1>2. /\ Begun = Len(trees) + 1 /\ Len(WithLevel) = Begun
      /\ \A k \in 1..Begun :
           /\ WithLevel[k][MaxLength + 1] = << >>
           /\ \A l \in From(k)..MaxLength : \A t, row, below :
                /\ t = TableOf(k) /\ row = WithLevel[k][l] /\ below = WithLevel[k][l + 1]
                => LevelMade(t, l, row, below)'
  BY <1>1, LevelCompleted
<1>3. /\ MaxLength \in Nat /\ Len(trees) \in Nat /\ Len(new_nodes) \in Nat
      /\ Len(trees') = Len(trees) + 1
      /\ \A k \in 1 .. Len(trees) : trees'[k] = trees[k]
      /\ trees'[Len(trees) + 1] = tree
  <2>1. trees \in Seq([table : Tables, root : Nat] \cup {tree})
    BY SeqMonotonic DEF IInv, TypeOK
  <2> QED
    BY <1>1, <2>1, AppendProperties, LenProperties, PoolIsSmall, SizesAssumption
<1>4. ASSUME NEW k \in 1..Begun
      PROVE  TableOf(k)' = TableOf(k) /\ Reached(k)' = From(k)
  <2>1. CASE k \in 1 .. Len(trees)
    <3>1. k <= Len(trees) /\ k <= Len(trees') /\ trees'[k] = trees[k]
      BY <1>3, <2>1
    <3> QED
      BY <3>1 DEF TableOf, Reached, From
  <2>2. CASE k = Len(trees) + 1
    <3>1. ~(k <= Len(trees)) /\ k <= Len(trees') /\ trees'[k].table = table
      BY <1>3, <2>2
    <3> QED
      BY <1>1, <3>1 DEF TableOf, Reached, From
  <2> QED
    BY <1>2, <1>3, <2>1, <2>2
<1>5. Begun' = Begun
  BY <1>1, <1>2, <1>3 DEF Begun
<1>6. LevelsValid'
  <2>1. ASSUME NEW k \in 1..Begun, NEW l \in From(k)..MaxLength
        PROVE  LevelMade(TableOf(k), l, levels[k][l], levels[k][l + 1])'
    <3>1. PICK t, row, below :
            t = TableOf(k) /\ row = levels'[k][l] /\ below = levels'[k][l + 1]
      OBVIOUS
    <3>2. LevelMade(t, l, row, below)'
      BY <1>1, <1>2, <3>1
    <3>3. t = TableOf(k)'
      BY <1>4, <3>1
    <3> QED
      BY <3>1, <3>2, <3>3
  <2>2. \A k \in 1..Begun : levels'[k][MaxLength + 1] = << >>
    BY <1>1, <1>2
  <2> QED
    BY <1>1, <1>2, <1>4, <1>5, <2>1, <2>2 DEF LevelsValid
<1>7. \A k \in 1..Begun, l \in 0 .. MaxLength + 1 :
        levels'[k][l] = IF k = Begun /\ l = il THEN new_nodes ELSE levels[k][l]
  BY <1>1, <1>2, LevelKept DEF IInv, CodeInv, LevelsValid
<1>8. LevelBegun'
  BY <1>1 DEF LevelBegun
<1>9. RootsValid'
  <2>1. 0 \in 0 .. MaxLength + 1
    BY <1>3
  <2>2. ASSUME NEW k \in 1 .. Len(trees)
        PROVE  /\ trees'[k].root = levels'[k][0][1]
               /\ FullCodeSpace(trees'[k].table, MaxLength) => Len(levels'[k][0]) = 1
    <3>1. k \in 1..Begun /\ k # Begun
      BY <1>2, <1>3
    <3>2. levels'[k][0] = levels[k][0] /\ trees'[k] = trees[k]
      BY <1>3, <1>7, <2>1, <3>1
    <3> QED
      BY <3>2 DEF CodeInv, RootsValid
  <2>3. levels'[Begun][0] = new_nodes /\ Begun \in 1..Begun
    <3>1. Begun \in 1..Begun
      BY <1>2, <1>3
    <3> QED
      BY <1>1, <1>7, <2>1, <3>1
  <2>4. FullCodeSpace(table, MaxLength) => Len(new_nodes) = 1
    <3>1. PICK S, a, l : /\ S = CodeSpace(table, MaxLength) /\ a = AllSpace(MaxLength)
                         /\ l = Len(new_nodes)
      OBVIOUS
    <3>2. S = l * a /\ l \in Nat /\ a \in Nat /\ a > 0
      BY <3>1, EndIsWhole
    <3>3. S = a => l = 1
      <4>1. ASSUME S = a PROVE l * a = 1 * a
        BY <3>2, <4>1
      <4> QED
        BY <3>2, <4>1, Cancel
    <3> QED
      BY <3>1, <3>3 DEF FullCodeSpace
  <2>5. trees'[Begun].table = table /\ trees'[Begun].root = new_nodes[1]
    BY <1>2, <1>3
  <2>6. \A k \in 1 .. Len(trees') : k \in 1 .. Len(trees) \/ k = Begun
    BY <1>2, <1>3
  <2> QED
    BY <2>2, <2>3, <2>4, <2>5, <2>6, Zenon DEF RootsValid, FullCodeSpace, CodeSpace
<1> QED
  BY <1>6, <1>8, <1>9 DEF CodeInv

(* A tree begun has no complete level.                                     *)
LEMMA NewCodeTreeCodes ==
  ASSUME IInv, CodeInv, NEW t \in Tables, NewCodeTree(t)
  PROVE  CodeInv'
<1> DEFINE none == [l \in 0 .. MaxLength + 1 |-> << >>]
<1>1. /\ call = "idle" /\ call' = "leaves" /\ ~Building /\ Building'
      /\ table' = t /\ il' = MaxLength /\ i' = 0 /\ nodes' = << >> /\ new_nodes' = << >>
      /\ levels' = Append(levels, none) /\ UNCHANGED <<pool, trees>>
      /\ Begun = Len(trees) /\ Begun' = Len(trees) + 1
  BY DEF NewCodeTree, Building, Begun
<1>2. /\ MaxLength \in Nat /\ Len(trees) \in Nat /\ Len(levels) = Len(trees)
      /\ LevelsValid /\ RootsValid /\ Kept
  BY <1>1, PoolIsSmall, SizesAssumption, StillnessKeeps DEF CodeInv, LevelsValid
<1>3. /\ Len(levels') = Len(trees) + 1 /\ levels'[Len(trees) + 1] = none
      /\ \A k \in 1 .. Len(trees) : levels'[k] = levels[k]
  <2>1. none \in [0 .. MaxLength + 1 -> Seq(Nat)]
    BY EmptySeq
  <2>2. levels \in Seq([0 .. MaxLength + 1 -> Seq(Nat)])
    BY DEF IInv, TypeOK
  <2> QED
    BY <1>1, <1>2, <2>1, <2>2, AppendProperties
<1>4. MaxLength + 1 \in 0 .. MaxLength + 1 /\ none[MaxLength + 1] = << >>
  BY <1>2
<1>5. LevelsValid'
  <2>1. ASSUME NEW k \in 1 .. Len(trees)
        PROVE  /\ levels'[k][MaxLength + 1] = << >>
               /\ Reached(k)' = 0
               /\ \A l \in 0..MaxLength :
                    LevelMade(TableOf(k), l, levels[k][l], levels[k][l + 1])'
    <3>1. k \in 1..Begun /\ k <= Len(trees) /\ k <= Len(trees') /\ levels'[k] = levels[k]
      BY <1>1, <1>2, <1>3
    <3>2. TableOf(k)' = TableOf(k) /\ Reached(k)' = 0 /\ Reached(k) = 0
      BY <1>1, <3>1 DEF TableOf, Reached
    <3>3. levels'[k][MaxLength + 1] = << >>
      BY <1>2, <3>1 DEF LevelsValid
    <3>4. ASSUME NEW l \in 0..MaxLength
          PROVE  LevelMade(TableOf(k), l, levels[k][l], levels[k][l + 1])'
      <4>1. PICK u, row, below :
              u = TableOf(k) /\ row = levels[k][l] /\ below = levels[k][l + 1]
        OBVIOUS
      <4>2. LevelMade(u, l, row, below)'
        BY <1>2, <3>1, <3>2, <4>1, LevelStays
      <4>3. u = TableOf(k)' /\ row = levels'[k][l] /\ below = levels'[k][l + 1]
        BY <3>1, <3>2, <4>1
      <4> QED
        BY <4>2, <4>3
    <3> QED
      BY <3>2, <3>3, <3>4
  <2>2. ASSUME NEW k, k = Len(trees) + 1
        PROVE  /\ levels'[k][MaxLength + 1] = << >>
               /\ Reached(k)' = MaxLength + 1
    <3>1. ~(k <= Len(trees'))
      BY <1>1, <1>2, <2>2
    <3> QED
      BY <1>1, <1>3, <1>4, <2>2, <3>1 DEF Reached
  <2>3. (MaxLength + 1)..MaxLength = {}
    BY <1>2
  <2>4. \A k \in 1 .. Len(trees) + 1 : k \in 1 .. Len(trees) \/ k = Len(trees) + 1
    BY <1>2
  <2> QED
    BY <1>1, <1>3, <2>1, <2>2, <2>3, <2>4 DEF LevelsValid
<1>6. LevelBegun'
  <2>1. nodes' = levels'[Len(trees') + 1][il' + 1]
    BY <1>1, <1>3, <1>4
  <2>2. LeavesPlaced(table, il, new_nodes, i)'
    <3>1. PICK n \in 0..TableSize : t \in [0 .. n - 1 -> 0..MaxLength]
      BY TablesAssumption
    <3>2. \A s \in DOMAIN t : ~(s < 0)
      BY <3>1, SizesAssumption
    <3> QED
      BY <1>1, <3>2 DEF LeavesPlaced
  <2> QED
    BY <1>1, <2>1, <2>2 DEF LevelBegun
<1>7. RootsValid'
  BY <1>1, <1>2, <1>3 DEF RootsValid, FullCodeSpace, CodeSpace, LengthCounts, CountOf
<1> QED
  BY <1>5, <1>6, <1>7 DEF CodeInv

(* Steps that build nothing, and the one that gives up.                    *)
LEMMA StillCodes ==
  ASSUME IInv, CodeInv, UNCHANGED <<pool, trees>>, UNCHANGED build, Begun' = Begun,
         ~Building' \/ call' = call
  PROVE  CodeInv'
<1>1. UNCHANGED <<table, il, i, nodes, new_nodes, levels, start>>
  BY DEF build
<1>2. \A t, l, row, below : LevelMade(t, l, row, below)' = LevelMade(t, l, row, below)
  BY DEF LevelMade, LeavesPlaced, PairsPlaced, node, Size, LeavesOf, CountOf, Rank
<1>3. \A t, l, row, upto : LeavesPlaced(t, l, row, upto)' = LeavesPlaced(t, l, row, upto)
  BY DEF LeavesPlaced, node, Rank
<1>4. \A t, l, row, below, upto :
        PairsPlaced(t, l, row, below, upto)' = PairsPlaced(t, l, row, below, upto)
  BY DEF PairsPlaced, node, LeavesOf, CountOf
<1>5. \A k : TableOf(k)' = TableOf(k) /\ Reached(k)' = Reached(k)
  BY <1>1 DEF TableOf, Reached
<1>6. LevelsValid'
  BY <1>1, <1>2, <1>5 DEF CodeInv, LevelsValid
<1>7. LevelBegun'
  BY <1>1, <1>3, <1>4 DEF CodeInv, LevelBegun, Building, Size
<1>8. RootsValid'
  BY <1>1 DEF CodeInv, RootsValid, FullCodeSpace, CodeSpace, LengthCounts, CountOf
<1> QED
  BY <1>6, <1>7, <1>8 DEF CodeInv

(* The invariant that the codes follow from: the nodes of every level are  *)
(* its leaves and the pairs of the level below, in their order, in every   *)
(* tree that has been begun.                                               *)
THEOREM CodeInvariance == Spec => []CodeInv
<1>1. Init => CodeInv
  <2> SUFFICES ASSUME Init PROVE CodeInv
    OBVIOUS
  <2>1. levels = << >> /\ trees = << >> /\ call = "idle" /\ Len(<< >>) = 0
    BY EmptySeq DEF Init
  <2>2. Begun = 0 /\ ~Building
    BY <2>1 DEF Begun, Building
  <2> QED
    BY <2>1, <2>2 DEF CodeInv, LevelsValid, LevelBegun, RootsValid
<1>2. CodeInv /\ IInv /\ FillInv /\ [Next]_vars => CodeInv'
  <2> SUFFICES ASSUME CodeInv, IInv, FillInv, [Next]_vars PROVE CodeInv'
    OBVIOUS
  <2>1. CASE \E t \in Tables : NewCodeTree(t)
    BY <2>1, NewCodeTreeCodes
  <2>2. CASE LeafStep
    BY <2>2, LeafStepCodes
  <2>3. CASE LeavesEnd
    BY <2>3, LeavesEndCodes
  <2>4. CASE PairStep
    BY <2>4, PairStepCodes
  <2>5. CASE LevelEnd
    BY <2>5, LevelEndCodes
  <2>6. CASE TreeEnd
    BY <2>6, TreeEndCodes
  <2>7. CASE AtThrows
    <3>1. /\ UNCHANGED <<pool, trees>> /\ UNCHANGED build
          /\ ~Building' /\ Begun' = Begun
      BY <2>7 DEF AtThrows, Building, Begun
    <3> QED
      BY <3>1, StillCodes
  <2>8. CASE (\E k \in 1..MaxTrees : DecodeSymbol(k)) \/ \E bit \in {0, 1} : DecodeBit(bit)
    <3>1. /\ UNCHANGED <<pool, trees>> /\ UNCHANGED build
          /\ call \in {"idle", "decode"} /\ call' \in {"idle", "decode"}
      BY <2>8 DEF DecodeSymbol, DecodeBit
    <3>2. ~Building' /\ Begun' = Begun
      BY <3>1 DEF Building, Begun
    <3> QED
      BY <3>1, <3>2, StillCodes
  <2>9. CASE UNCHANGED vars
    <3>1. UNCHANGED <<pool, trees, call>> /\ UNCHANGED build
      BY <2>9 DEF vars
    <3>2. Begun' = Begun
      BY <3>1 DEF Building, Begun
    <3> QED
      BY <3>1, <3>2, StillCodes
  <2> QED
    BY <2>1, <2>2, <2>3, <2>4, <2>5, <2>6, <2>7, <2>8, <2>9 DEF Next, BuildNext
<1> QED
  BY <1>1, <1>2, Invariance, FillInvariance, PTL DEF Spec

-----------------------------------------------------------------------------
(* Walks.  WalkOf is a recursive function; there is one for every length,  *)
(* and what it says of a code does not depend on the longer ones.          *)
IsWalk(f, root, n) ==
  f = [l \in 0..n |->
         [c \in Nat |-> IF l = 0 THEN root
                        ELSE IF c % 2 = 0 THEN node(f[l - 1][c \div 2]).left
                        ELSE node(f[l - 1][c \div 2]).right]]

(* WalkOf is a recursive function as SpaceOf is: there is one for every    *)
(* number of bits,                                                         *)
LEMMA WalkExists ==
  ASSUME NEW root, NEW n \in Nat
  PROVE  \E f : IsWalk(f, root, n)
<1> SUFFICES ASSUME NEW T, T = {k \in Nat : \E f : IsWalk(f, root, k)}
             PROVE  \E f : IsWalk(f, root, n)
  OBVIOUS
<1>1. 0 \in T
  <2>1. IsWalk([l \in 0..0 |-> [c \in Nat |-> root]], root, 0)
    BY DEF IsWalk
  <2> QED
    BY <2>1
<1>2. ASSUME NEW j \in Nat, j \in T PROVE j + 1 \in T
  <2>1. PICK f : IsWalk(f, root, j)
    BY <1>2
  <2>2. PICK g : g = [l \in 0 .. j + 1 |->
                        [c \in Nat |-> IF l = 0 THEN root
                                       ELSE IF c % 2 = 0 THEN node(f[l - 1][c \div 2]).left
                                       ELSE node(f[l - 1][c \div 2]).right]]
    OBVIOUS
  <2>3. ASSUME NEW l \in 0..j PROVE g[l] = f[l]
    <3>1. l \in 0 .. j + 1
      OBVIOUS
    <3>2. f[l] = [c \in Nat |-> IF l = 0 THEN root
                                ELSE IF c % 2 = 0 THEN node(f[l - 1][c \div 2]).left
                                ELSE node(f[l - 1][c \div 2]).right]
      BY <2>1 DEF IsWalk
    <3>3. g[l] = [c \in Nat |-> IF l = 0 THEN root
                                ELSE IF c % 2 = 0 THEN node(f[l - 1][c \div 2]).left
                                ELSE node(f[l - 1][c \div 2]).right]
      BY <2>2, <3>1
    <3> QED
      BY <3>2, <3>3
  <2>4. ASSUME NEW l \in 0 .. j + 1, l # 0 PROVE g[l - 1] = f[l - 1]
    <3>1. l - 1 \in 0..j
      BY <2>4
    <3> QED
      BY <2>3, <3>1
  <2>5. g = [l \in 0 .. j + 1 |->
               [c \in Nat |-> IF l = 0 THEN root
                              ELSE IF c % 2 = 0 THEN node(g[l - 1][c \div 2]).left
                              ELSE node(g[l - 1][c \div 2]).right]]
    BY <2>2, <2>4
  <2>6. IsWalk(g, root, j + 1)
    BY <2>5, Zenon DEF IsWalk
  <2> QED
    BY <2>6
<1> QED
  BY <1>1, <1>2, Induction

(* WalkOf is its last value,                                               *)
LEMMA WalkIsOne ==
  ASSUME NEW root, NEW n \in Nat
  PROVE  \E f : IsWalk(f, root, n) /\ \A c : WalkOf(root, c, n) = f[n][c]
<1>1. \E f : IsWalk(f, root, n)
  BY WalkExists
<1>2. \A c : WalkOf(root, c, n) = (CHOOSE f : IsWalk(f, root, n))[n][c]
  BY DEF WalkOf, IsWalk
<1> QED
  BY <1>1, <1>2

(* and what it says of fewer bits does not depend on their number.         *)
LEMMA WalksAgree ==
  ASSUME NEW root, NEW n \in Nat, NEW m \in Nat, n <= m,
         NEW f, IsWalk(f, root, n), NEW g, IsWalk(g, root, m)
  PROVE  f[n] = g[n]
<1> SUFFICES ASSUME NEW T, T = {k \in Nat : k <= n => f[k] = g[k]}
             PROVE  f[n] = g[n]
  OBVIOUS
<1>1. 0 \in T
  <2>1. 0 \in 0..n /\ 0 \in 0..m
    OBVIOUS
  <2>2. f[0] = [c \in Nat |-> root] /\ g[0] = [c \in Nat |-> root]
    BY <2>1 DEF IsWalk
  <2> QED
    BY <2>1, <2>2
<1>2. ASSUME NEW k \in Nat, k \in T PROVE k + 1 \in T
  <2>1. ASSUME k + 1 <= n PROVE f[k + 1] = g[k + 1]
    <3>1. PICK l : l = k + 1
      OBVIOUS
    <3>2. l \in 0..n /\ l \in 0..m /\ l # 0 /\ l - 1 = k /\ k <= n
      BY <2>1, <3>1
    <3>3. /\ f[l] = [c \in Nat |-> IF c % 2 = 0 THEN node(f[k][c \div 2]).left
                                   ELSE node(f[k][c \div 2]).right]
          /\ g[l] = [c \in Nat |-> IF c % 2 = 0 THEN node(g[k][c \div 2]).left
                                   ELSE node(g[k][c \div 2]).right]
      BY <3>2 DEF IsWalk
    <3>4. f[k] = g[k]
      BY <1>2, <3>2
    <3> QED
      BY <3>1, <3>3, <3>4
  <2> QED
    BY <2>1
<1>3. \A k \in Nat : k \in T
  BY <1>1, <1>2, Induction
<1>4. n \in T
  BY <1>3
<1> QED
  BY <1>4

(* A walk begins at the root; it goes where the walk along all bits but    *)
(* the last has led, and from there left or right.                         *)
LEMMA WalkBegins ==
  ASSUME NEW root
  PROVE  WalkOf(root, 0, 0) = root
<1>1. PICK f : IsWalk(f, root, 0) /\ WalkOf(root, 0, 0) = f[0][0]
  BY WalkIsOne
<1>2. f[0] = [b \in Nat |-> root]
  BY <1>1 DEF IsWalk
<1> QED
  BY <1>1, <1>2

(* A walk along one more bit.                                              *)
LEMMA WalkUnfolds ==
  ASSUME NEW root, NEW n \in Nat, NEW m \in Nat, m = n + 1,
         NEW c \in Nat, NEW half \in Nat, half = c \div 2, NEW bit, bit = c % 2
  PROVE  WalkOf(root, c, m) =
           IF bit = 0 THEN node(WalkOf(root, half, n)).left
           ELSE node(WalkOf(root, half, n)).right
<1>1. PICK f : IsWalk(f, root, n) /\ \A b : WalkOf(root, b, n) = f[n][b]
  BY WalkIsOne
<1>2. m \in Nat /\ n <= m /\ m \in 0..m /\ m # 0 /\ m - 1 = n
  OBVIOUS
<1>3. PICK g : IsWalk(g, root, m) /\ WalkOf(root, c, m) = g[m][c]
  BY <1>2, WalkIsOne
<1>4. f[n] = g[n]
  BY <1>1, <1>2, <1>3, WalksAgree
<1>5. g[m] = [b \in Nat |-> IF b % 2 = 0 THEN node(g[n][b \div 2]).left
                            ELSE node(g[n][b \div 2]).right]
  BY <1>2, <1>3 DEF IsWalk
<1>6. g[m][c] = IF c % 2 = 0 THEN node(f[n][c \div 2]).left
                ELSE node(f[n][c \div 2]).right
  BY <1>4, <1>5
<1> QED
  BY <1>1, <1>3, <1>6

(* The first code of a length follows from that of the length before.      *)
LEMMA FirstCodeUnfolds ==
  ASSUME NEW t \in Tables, NEW l \in Nat
  PROVE  /\ FirstCode(t, 0) = 0 /\ FirstCode(t, l) \in Nat /\ LeavesOf(t, l) \in Nat
         /\ FirstCode(t, l + 1) = 2 * (FirstCode(t, l) + LeavesOf(t, l))
<1>1. FirstCode(t, 0) = 0 /\ LeavesOf(t, l) \in Nat
  BY LeavesOfIsNat DEF FirstCode
<1>2. FirstCode(t, l + 1) = 2 * CodeSpace(t, l) /\ CodeSpace(t, l) \in Nat
  <2>1. l + 1 # 0 /\ (l + 1) - 1 = l
    OBVIOUS
  <2> QED
    BY <2>1, CodeSpaceIsNat DEF FirstCode
<1>3. CASE l = 0
  <2>1. CodeSpace(t, 0) = 0 /\ LeavesOf(t, 0) = 0
    BY CodeSpaceUnfolds DEF LeavesOf
  <2> QED
    BY <1>1, <1>2, <1>3, <2>1
<1>4. CASE l # 0
  <2>1. PICK m \in Nat : m = l - 1 /\ l = m + 1
    BY <1>4
  <2>2. CodeSpace(t, l) = 2 * CodeSpace(t, m) + CountOf(t, l)
    BY <2>1, CodeSpaceUnfolds
  <2>3. FirstCode(t, l) = 2 * CodeSpace(t, m) /\ CodeSpace(t, m) \in Nat
    BY <1>4, <2>1, CodeSpaceIsNat DEF FirstCode
  <2>4. LeavesOf(t, l) = CountOf(t, l)
    BY <1>4 DEF LeavesOf
  <2> QED
    BY <1>1, <1>2, <2>2, <2>3, <2>4
<1> QED
  BY <1>3, <1>4

(* Arithmetic of halves.                                                   *)
LEMMA HalfOfCode ==
  ASSUME NEW a \in Nat, NEW p \in Nat, NEW code \in Nat, code = 2 * a + p,
         NEW half \in Nat, half = code \div 2, NEW bit \in {0, 1}, bit = code % 2
  PROVE  \E h \in Nat : p = 2 * h + bit /\ half = a + h
OBVIOUS

StepsDown(root, n, c) ==
  \E half \in Nat, m \in Nat, bit \in {0, 1} :
    /\ half = c \div 2 /\ m = n + 1 /\ bit = c % 2
    /\ WalkOf(root, c, m) =
         IF bit = 0 THEN node(WalkOf(root, half, n)).left
         ELSE node(WalkOf(root, half, n)).right

(* A walk of any number of bits goes on to the left or to the right.       *)
LEMMA WalkSteps ==
  ASSUME NEW root, NEW n \in Nat, NEW c \in Nat
  PROVE  StepsDown(root, n, c)
<1>1. c \div 2 \in Nat /\ n + 1 \in Nat /\ c % 2 \in {0, 1}
  OBVIOUS
<1>2. PICK half, m, bit : half = c \div 2 /\ m = n + 1 /\ bit = c % 2
  OBVIOUS
<1>3. half \in Nat /\ m \in Nat /\ bit \in {0, 1}
  BY <1>1, <1>2
<1>4. WalkOf(root, c, m) =
        IF bit = 0 THEN node(WalkOf(root, half, n)).left
        ELSE node(WalkOf(root, half, n)).right
  BY <1>2, <1>3, WalkUnfolds
<1> QED
  BY <1>2, <1>3, <1>4, Zenon DEF StepsDown

(* The walk along the bits of a number leads to the node at its place in   *)
(* the level: if it does so on one level, then on the one below, for two   *)
(* nodes there are the children of the one whose number has a bit less.    *)
Follows(k, l) ==
  \A p \in 0 .. Len(levels[k][l]) - 1 :
    WalkOf(trees[k].root, FirstCode(trees[k].table, l) + p, l) = levels[k][l][p + 1]

(* If codes in order reach the nodes of a level in order, so they do one   *)
(* level down: the codes that go on are those behind the leaves, and each  *)
(* goes on to the two children of its branch.                              *)
LEMMA FollowsBelow ==
  ASSUME NEW k, NEW t \in Tables, t = trees[k].table, NEW root, root = trees[k].root,
         NEW m \in Nat, Follows(k, m),
         Len(levels[k][m]) \in Nat, Len(levels[k][m + 1]) \in Nat,
         LevelMade(t, m, levels[k][m], levels[k][m + 1])
  PROVE  Follows(k, m + 1)
<1>1. PICK row, below : row = levels[k][m] /\ below = levels[k][m + 1]
  OBVIOUS
<1>2. /\ LevelMade(t, m, row, below) /\ Len(row) \in Nat /\ Len(below) \in Nat
      /\ Follows(k, m)
  BY <1>1
<1>3. /\ FirstCode(t, m) \in Nat /\ LeavesOf(t, m) \in Nat
      /\ FirstCode(t, m + 1) = 2 * (FirstCode(t, m) + LeavesOf(t, m))
  BY FirstCodeUnfolds
<1>4. PICK first \in Nat, c \in Nat :
        /\ first = FirstCode(t, m) /\ c = LeavesOf(t, m)
        /\ FirstCode(t, m + 1) = 2 * (first + c)
  BY <1>3
<1>5. PICK a \in Nat : a = first + c /\ FirstCode(t, m + 1) = 2 * a
  BY <1>4
<1>6. ASSUME NEW q \in 0 .. Len(below) - 1
      PROVE  WalkOf(root, 2 * a + q, m + 1) = below[q + 1]
  <2>1. q \in Nat /\ q < Len(below)
    BY <1>2
  <2>2. PICK code \in Nat : code = 2 * a + q
    BY <2>1
  <2>3. PICK half \in Nat, m1 \in Nat, b \in {0, 1} :
          /\ half = code \div 2 /\ m1 = m + 1 /\ b = code % 2
          /\ WalkOf(root, code, m1) =
               IF b = 0 THEN node(WalkOf(root, half, m)).left
               ELSE node(WalkOf(root, half, m)).right
    <3>1. StepsDown(root, m, code)
      BY WalkSteps
    <3> QED
      BY <3>1, Zenon DEF StepsDown
  <2>4. PICK h \in Nat : q = 2 * h + b /\ half = a + h
    <3>1. half = code \div 2 /\ b = code % 2 /\ q \in Nat
      BY <2>1, <2>3
    <3> QED
      BY <2>2, <3>1, HalfOfCode
  <2>5. h \in 0 .. Len(below) /\ 2 * h < Len(below)
    BY <1>2, <2>1, <2>4
  <2>6. /\ c + h < Len(row)
        /\ node(row[c + h + 1]) = Branch(below[2 * h + 1], below[2 * h + 2])
    BY <1>2, <1>4, <2>5 DEF LevelMade, PairsPlaced
  <2>7. PICK r \in Nat : r = c + h /\ r \in 0 .. Len(row) - 1
    <3>1. c + h \in Nat /\ c + h < Len(row) /\ Len(row) \in Nat
      BY <1>2, <2>6
    <3>2. c + h \in 0 .. Len(row) - 1
      BY <3>1
    <3> QED
      BY <3>1, <3>2
  <2>8. WalkOf(root, first + r, m) = row[r + 1]
    BY <1>1, <1>2, <1>4, <2>7 DEF Follows
  <2>9. first + r = a + h
    BY <1>5, <2>7
  <2>10. PICK parent : parent = node(row[r + 1])
    OBVIOUS
  <2>11. WalkOf(root, code, m + 1) = IF b = 0 THEN parent.left ELSE parent.right
    <3>1. WalkOf(root, half, m) = row[r + 1]
      BY <2>4, <2>8, <2>9
    <3>2. m1 = m + 1
      BY <2>3
    <3>3. node(WalkOf(root, half, m)) = parent
      BY <2>10, <3>1
    <3> QED
      BY <2>3, <3>2, <3>3
  <2>12. parent.left = below[2 * h + 1] /\ parent.right = below[2 * h + 2]
    <3>1. parent = Branch(below[2 * h + 1], below[2 * h + 2])
      BY <2>6, <2>7, <2>10
    <3> QED
      BY <3>1 DEF Branch
  <2>13. CASE b = 0
    <3>1. q + 1 = 2 * h + 1
      BY <2>4, <2>13
    <3> QED
      BY <2>2, <2>11, <2>13, <2>12, <3>1
  <2>14. CASE b = 1
    <3>1. q + 1 = 2 * h + 2
      BY <2>4, <2>14
    <3> QED
      BY <2>2, <2>11, <2>14, <2>12, <3>1
  <2> QED
    BY <2>13, <2>14
<1> QED
  BY <1>1, <1>5, <1>6 DEF Follows

(* So it does on every level of a tree whose codes fill the code space,    *)
(* since such a tree has one node on its first level, the root.            *)
LEMMA WalksFollowLevels ==
  ASSUME IInv, CodeInv, NEW k \in 1 .. Len(trees),
         FullCodeSpace(trees[k].table, MaxLength), NEW l \in 0..MaxLength
  PROVE  Follows(k, l)
<1> SUFFICES ASSUME NEW T, T = {m \in Nat : m <= MaxLength => Follows(k, m)}
             PROVE  Follows(k, l)
  OBVIOUS
<1>1. /\ MaxLength \in Nat /\ Len(trees) \in Nat /\ k \in 1..Begun /\ k <= Len(trees)
      /\ LevelsValid /\ RootsValid
  <2>1. Len(trees) \in Nat /\ k <= Len(trees)
    BY PoolIsSmall
  <2> QED
    BY <2>1, SizesAssumption DEF CodeInv, Begun
<1>2. PICK t \in Tables : t = trees[k].table /\ TableOf(k) = t
  BY <1>1, TableIs DEF TableOf
<1>3. \A m \in 0..MaxLength : LevelMade(t, m, levels[k][m], levels[k][m + 1])
  BY <1>1, <1>2 DEF LevelsValid, Reached
<1>4. \A m \in 0 .. MaxLength + 1 : Len(levels[k][m]) \in Nat
  BY <1>1, RowIs, LenProperties
<1>5. PICK root : root = trees[k].root
  OBVIOUS
<1>6. 0 \in T
  <2>1. Len(levels[k][0]) = 1 /\ root = levels[k][0][1]
    BY <1>1, <1>5 DEF RootsValid
  <2>2. WalkOf(root, 0, 0) = root /\ FirstCode(t, 0) = 0
    BY <1>2, WalkBegins, FirstCodeUnfolds
  <2>3. Follows(k, 0)
    BY <1>2, <1>5, <2>1, <2>2 DEF Follows
  <2> QED
    BY <2>3
<1>7. ASSUME NEW m \in Nat, m \in T PROVE m + 1 \in T
  <2>1. ASSUME m + 1 <= MaxLength PROVE Follows(k, m + 1)
    <3>1. m \in 0..MaxLength /\ m \in 0 .. MaxLength + 1 /\ m + 1 \in 0 .. MaxLength + 1
      BY <1>1, <2>1
    <3>2. /\ LevelMade(t, m, levels[k][m], levels[k][m + 1])
          /\ Len(levels[k][m]) \in Nat /\ Len(levels[k][m + 1]) \in Nat
      BY <1>3, <1>4, <3>1
    <3>3. Follows(k, m)
      BY <1>7, <3>1
    <3> QED
      BY <1>2, <1>5, <3>2, <3>3, FollowsBelow
  <2> QED
    BY <2>1
<1>8. \A m \in Nat : m \in T
  BY <1>6, <1>7, Induction
<1>9. l \in Nat /\ l <= MaxLength /\ l \in T
  BY <1>1, <1>8
<1> QED
  BY <1>9

(* In a tree whose codes fill the code space, the bits of the code that    *)
(* RFC 1951 gives a symbol lead from the root to the symbol's leaf,        *)
(* whatever the table, the longest code and the trees that share the pool  *)
(* (huff.cc:36-55).                                                        *)
THEOREM CodesAreCanonical == Spec => []CanonicalCode
<1>1. IInv /\ CodeInv => CanonicalCode
  <2> SUFFICES ASSUME IInv, CodeInv, NEW k \in 1 .. Len(trees),
                      NEW t, t = trees[k].table, FullCodeSpace(t, MaxLength),
                      NEW s \in DOMAIN t, t[s] > 0
               PROVE  node(WalkOf(trees[k].root, CodeOf(t, s), t[s])) = Leaf(s)
    BY Zenon DEF CanonicalCode
  <2>1. /\ MaxLength \in Nat /\ Len(trees) \in Nat /\ k \in 1..Begun /\ k <= Len(trees)
        /\ LevelsValid
    <3>1. Len(trees) \in Nat /\ k <= Len(trees)
      BY PoolIsSmall
    <3> QED
      BY <3>1, SizesAssumption DEF CodeInv, Begun
  <2>2. t \in Tables /\ TableOf(k) = t
    BY <2>1, TableIs DEF TableOf
  <2>3. PICK n \in 0..TableSize : t \in [0 .. n - 1 -> 0..MaxLength]
    BY <2>2, TablesAssumption
  <2>4. PICK l \in 0..MaxLength : l = t[s]
    BY <2>3
  <2>5. s < Size(t)
    <3>1. n \in Nat /\ s \in 0 .. n - 1 /\ DOMAIN t = 0 .. n - 1
      BY <2>3, SizesAssumption
    <3>2. Cardinality(0 .. n - 1) = n
      BY <3>1, FS_Interval
    <3> QED
      BY <3>1, <3>2 DEF Size
  <2>6. LevelMade(t, l, levels[k][l], levels[k][l + 1])
    BY <2>1, <2>2 DEF LevelsValid, Reached
  <2>7. PICK r \in Nat : r = Rank(t, s)
    BY <2>2, RankIsNat
  <2>8. r < Len(levels[k][l]) /\ node(levels[k][l][r + 1]) = Leaf(s)
    BY <2>4, <2>5, <2>6, <2>7 DEF LevelMade, LeavesPlaced
  <2>9. r \in 0 .. Len(levels[k][l]) - 1
    <3>1. l \in 0 .. MaxLength + 1
      BY <2>1
    <3>2. Len(levels[k][l]) \in Nat
      BY <2>1, <3>1, RowIs, LenProperties
    <3> QED
      BY <2>8, <3>2
  <2>10. WalkOf(trees[k].root, FirstCode(t, l) + r, l) = levels[k][l][r + 1]
    BY <2>4, <2>9, WalksFollowLevels DEF Follows
  <2> QED
    BY <2>4, <2>7, <2>8, <2>10 DEF CodeOf
<1> QED
  BY <1>1, Invariance, CodeInvariance, PTL
-----------------------------------------------------------------------------
(* What a sequence of symbols stands for, symbol by symbol.  FoldLeft is a *)
(* recursive function on sets of indices, which takes the largest last;    *)
(* only the sets 1..k matter.  That there is one is shown by induction.    *)
IsFold(f, seq, n) ==
  f = [s \in SUBSET (1..n) |-> IF s = {} THEN << >>
                               ELSE Expand(f[s \ {Max(s)}], seq[Max(s)])]

(* A set of indices has a largest one.                                     *)
LEMMA MaxOfIndices ==
  ASSUME NEW n \in Nat, NEW s \in SUBSET (1..n), s # {}
  PROVE  Max(s) \in s /\ \A k \in s : k <= Max(s)
<1> SUFFICES ASSUME NEW T,
                    T = {m \in Nat : \A u \in SUBSET (1..m) : u # {} =>
                           \E x \in u : \A k \in u : x >= k}
             PROVE  Max(s) \in s /\ \A k \in s : k <= Max(s)
  OBVIOUS
<1>1. 0 \in T
  <2>1. SUBSET (1..0) = {{}}
    OBVIOUS
  <2> QED
    BY <2>1
<1>2. ASSUME NEW m \in Nat, m \in T PROVE m + 1 \in T
  <2>1. ASSUME NEW u \in SUBSET (1 .. m + 1), u # {}
        PROVE  \E x \in u : \A k \in u : x >= k
    <3>1. CASE m + 1 \in u
      BY <3>1
    <3>2. CASE m + 1 \notin u
      <4>1. u \in SUBSET (1..m)
        BY <3>2
      <4> QED
        BY <1>2, <2>1, <4>1
    <3> QED
      BY <3>1, <3>2
  <2> QED
    BY <2>1
<1>3. n \in T
  BY <1>1, <1>2, Induction
<1>4. \E x \in s : \A k \in s : x >= k
  BY <1>3
<1>5. \A k \in s : k \in Nat
  OBVIOUS
<1>6. Max(s) \in s /\ \A k \in s : Max(s) >= k
  BY <1>4 DEF Max
<1> QED
  BY <1>5, <1>6

(* The fold over 1..n takes n first and leaves 1 .. n - 1.                 *)
LEMMA MaxOfUpto ==
  ASSUME NEW n \in Nat, n > 0
  PROVE  Max(1..n) = n /\ (1..n) \ {n} = 1 .. n - 1
<1>1. Max(1..n) \in 1..n /\ \A k \in 1..n : k <= Max(1..n)
  <2>1. 1..n \in SUBSET (1..n) /\ 1..n # {}
    OBVIOUS
  <2> QED
    BY <2>1, MaxOfIndices
<1>2. n \in 1..n
  OBVIOUS
<1>3. Max(1..n) = n
  BY <1>1, <1>2
<1>4. (1..n) \ {n} = 1 .. n - 1
  OBVIOUS
<1> QED
  BY <1>3, <1>4

(* The largest index taken away, the rest are among fewer.                 *)
LEMMA RestOfIndices ==
  ASSUME NEW n \in Nat, NEW s \in SUBSET (1 .. n + 1), s # {}
  PROVE  s \ {Max(s)} \in SUBSET (1..n)
<1>1. n + 1 \in Nat
  OBVIOUS
<1>2. Max(s) \in s /\ \A k \in s : k <= Max(s)
  BY <1>1, MaxOfIndices
<1>3. Max(s) \in 1 .. n + 1
  BY <1>2
<1>4. ASSUME NEW k \in s, k # Max(s) PROVE k \in 1..n
  <2>1. k \in 1 .. n + 1 /\ k <= Max(s)
    BY <1>2
  <2> QED
    BY <1>3, <1>4, <2>1
<1> QED
  BY <1>4

(* The recursion, on the indices up to m.                                  *)
LEMMA FoldStep ==
  ASSUME NEW n \in Nat, NEW m \in Nat, m < n, NEW seq, NEW f, IsFold(f, seq, n)
  PROVE  f[{}] = << >> /\ f[1 .. m + 1] = Expand(f[1..m], seq[m + 1])
<1> SUFFICES ASSUME NEW l, l = m + 1
             PROVE  f[{}] = << >> /\ f[1..l] = Expand(f[1..m], seq[l])
  OBVIOUS
<1>1. f[{}] = << >>
  BY DEF IsFold
<1>2. \A s \in SUBSET (1..n) :
        s # {} => f[s] = Expand(f[s \ {Max(s)}], seq[Max(s)])
  BY DEF IsFold
<1>0. l \in Nat /\ l > 0 /\ l - 1 = m /\ l \in 1..l /\ l <= n
  OBVIOUS
<1>3. 1..l \in SUBSET (1..n) /\ 1..l # {}
  BY <1>0
<1>4. Max(1..l) = l /\ (1..l) \ {l} = 1..m
  BY <1>0, MaxOfUpto
<1>5. f[1..l] = Expand(f[(1..l) \ {Max(1..l)}], seq[Max(1..l)])
  BY <1>2, <1>3
<1> QED
  BY <1>1, <1>4, <1>5

(* The recursive function exists.                                          *)
LEMMA FoldsExist ==
  ASSUME NEW n \in Nat, NEW seq
  PROVE  \E f : IsFold(f, seq, n)
<1> SUFFICES ASSUME NEW T, T = {m \in Nat : \E f : IsFold(f, seq, m)}
             PROVE  \E f : IsFold(f, seq, n)
  OBVIOUS
<1>1. 0 \in T
  <2>1. SUBSET (1..0) = {{}}
    OBVIOUS
  <2>2. IsFold([s \in SUBSET (1..0) |-> << >>], seq, 0)
    BY <2>1 DEF IsFold
  <2> QED
    BY <2>2
<1>2. ASSUME NEW m \in Nat, m \in T PROVE m + 1 \in T
  <2>1. PICK f : IsFold(f, seq, m)
    BY <1>2
  <2>2. PICK g : g = [s \in SUBSET (1 .. m + 1) |->
                        IF s = {} THEN << >>
                        ELSE Expand(f[s \ {Max(s)}], seq[Max(s)])]
    OBVIOUS
  <2>3. ASSUME NEW s \in SUBSET (1..m) PROVE g[s] = f[s]
    <3>1. s \in SUBSET (1 .. m + 1)
      OBVIOUS
    <3> QED
      BY <2>1, <2>2, <3>1 DEF IsFold
  <2>4. ASSUME NEW s \in SUBSET (1 .. m + 1), s # {}
        PROVE  g[s \ {Max(s)}] = f[s \ {Max(s)}]
    BY <2>3, <2>4, RestOfIndices
  <2>5. g = [s \in SUBSET (1 .. m + 1) |->
               IF s = {} THEN << >>
               ELSE Expand(g[s \ {Max(s)}], seq[Max(s)])]
    BY <2>2, <2>4
  <2>6. IsFold(g, seq, m + 1)
    BY <2>5 DEF IsFold
  <2> QED
    BY <2>6
<1> QED
  BY <1>1, <1>2, Induction

ExpansionOf(seq) == FoldLeft(Expand, << >>, seq)

Continues(longer, seq, n) == \A k \in 1..n : longer[k] = seq[k]

(* What FoldLeft means for a sequence.                                     *)
LEMMA ExpansionIsFold ==
  ASSUME NEW n \in Nat, NEW seq, DOMAIN seq = 1..n
  PROVE  \E f : IsFold(f, seq, n) /\ ExpansionOf(seq) = f[1..n]
<1>1. \E f : IsFold(f, seq, n)
  BY FoldsExist
<1>2. ExpansionOf(seq) = (CHOOSE f : IsFold(f, seq, n))[1..n]
  BY DEF ExpansionOf, FoldLeft, MapThenFoldSet, IsFold
<1>3. IsFold(CHOOSE f : IsFold(f, seq, n), seq, n)
  BY <1>1
<1> QED
  BY <1>2, <1>3

(* Two folds agree on the indices where the sequences do.                  *)
LEMMA FoldsAgree ==
  ASSUME NEW n \in Nat, NEW l \in Nat, n <= l, NEW seq, NEW longer,
         Continues(longer, seq, n),
         NEW f, IsFold(f, seq, n), NEW g, IsFold(g, longer, l)
  PROVE  f[1..n] = g[1..n]
<1> SUFFICES ASSUME NEW T, T = {m \in Nat : m <= n => f[1..m] = g[1..m]}
             PROVE  f[1..n] = g[1..n]
  OBVIOUS
<1>1. 0 \in T
  <2>1. 1..0 = {}
    OBVIOUS
  <2>2. f[{}] = << >> /\ g[{}] = << >>
    BY DEF IsFold
  <2> QED
    BY <2>1, <2>2
<1>2. ASSUME NEW m \in Nat, m \in T, m + 1 <= n
      PROVE  f[1 .. m + 1] = g[1 .. m + 1]
  <2>1. m < n /\ m < l /\ m + 1 \in 1..n
    BY <1>2
  <2>2. f[1 .. m + 1] = Expand(f[1..m], seq[m + 1])
    BY <2>1, FoldStep
  <2>3. g[1 .. m + 1] = Expand(g[1..m], longer[m + 1])
    BY <2>1, FoldStep
  <2>4. longer[m + 1] = seq[m + 1] /\ f[1..m] = g[1..m]
    BY <1>2, <2>1 DEF Continues
  <2> QED
    BY <2>2, <2>3, <2>4
<1>3. ASSUME NEW m \in Nat, m \in T PROVE m + 1 \in T
  <2>1. PICK l1 \in Nat : l1 = m + 1
    OBVIOUS
  <2>2. l1 <= n => f[1..l1] = g[1..l1]
    BY <1>2, <1>3, <2>1
  <2> QED
    BY <2>1, <2>2
<1>4. \A m \in Nat : m \in T
  BY <1>1, <1>3, Induction
<1>5. n \in T
  BY <1>4
<1> QED
  BY <1>5

(* One more symbol expands what those before it stand for.                 *)
LEMMA ExpansionOfLonger ==
  ASSUME NEW n \in Nat, NEW l \in Nat, n < l, l <= n + 1,
         NEW seq, DOMAIN seq = 1..n, NEW longer, DOMAIN longer = 1..l,
         Continues(longer, seq, n)
  PROVE  ExpansionOf(longer) = Expand(ExpansionOf(seq), longer[l])
<1>1. PICK f : IsFold(f, seq, n) /\ ExpansionOf(seq) = f[1..n]
  BY ExpansionIsFold
<1>2. PICK g : IsFold(g, longer, l) /\ ExpansionOf(longer) = g[1..l]
  BY ExpansionIsFold
<1>3. IsFold(f, seq, n)
  BY <1>1
<1>4. IsFold(g, longer, l)
  BY <1>2
<1>5. f[1..n] = g[1..n]
  BY <1>3, <1>4, FoldsAgree
<1>6. g[1 .. n + 1] = Expand(g[1..n], longer[n + 1])
  BY <1>4, FoldStep
<1>7. n + 1 = l
  OBVIOUS
<1> QED
  BY <1>1, <1>2, <1>5, <1>6, <1>7

(* The expansion of one symbol more,                                       *)
LEMMA ExpansionUnfolds ==
  ASSUME NEW X, NEW seq \in Seq(X), NEW x \in X
  PROVE  ExpansionOf(Append(seq, x)) = Expand(ExpansionOf(seq), x)
<1>1. /\ Len(seq) \in Nat /\ DOMAIN seq = 1 .. Len(seq)
      /\ DOMAIN Append(seq, x) = 1 .. Len(seq) + 1
      /\ Append(seq, x)[Len(seq) + 1] = x
      /\ \A k \in 1 .. Len(seq) : Append(seq, x)[k] = seq[k]
  OBVIOUS
<1>2. ASSUME NEW n, n = Len(seq), NEW l, l = n + 1,
             NEW longer, longer = Append(seq, x)
      PROVE  ExpansionOf(longer) = Expand(ExpansionOf(seq), longer[l])
  <2>1. /\ n \in Nat /\ l \in Nat /\ n < l /\ l <= n + 1
        /\ DOMAIN seq = 1..n /\ DOMAIN longer = 1..l
    BY <1>1, <1>2
  <2>2. Continues(longer, seq, n)
    BY <1>1, <1>2 DEF Continues
  <2> HIDE <1>2
  <2> QED
    BY <2>1, <2>2, ExpansionOfLonger
<1> QED
  BY <1>1, <1>2

(* and of none.                                                            *)
LEMMA ExpansionOfNone == ExpansionOf(<< >>) = << >>
<1>1. DOMAIN << >> = 1..0 /\ 1..0 = {}
  OBVIOUS
<1>2. PICK f : IsFold(f, << >>, 0) /\ ExpansionOf(<< >>) = f[1..0]
  BY <1>1, ExpansionIsFold
<1>3. f[{}] = << >>
  BY <1>2 DEF IsFold
<1> QED
  BY <1>1, <1>2, <1>3

-----------------------------------------------------------------------------
(* The order of the first code's lengths: the loop's arithmetic gives the  *)
(* RFC's list, in which no symbol comes twice.                             *)
Position(s) ==
  IF s >= 16 THEN s - 15 ELSE IF s = 0 THEN 4
  ELSE IF s >= 8 THEN 2 * s - 11 ELSE 20 - 2 * s

(* The order of the fields in the code is a permutation of the symbols.    *)
LEMMA InputOrderFacts ==
  /\ \A k \in 1..19 : InputOrder[k] \in 0..18
  /\ \A k \in 0..14 : Order(k) = InputOrder[k + 5]
  /\ \A j, k \in 1..19 : InputOrder[j] = InputOrder[k] => j = k
<1>1. \A k \in 1..19 : InputOrder[k] \in 0..18 /\ Position(InputOrder[k]) = k
  <2>1. ASSUME NEW k \in 1..19
        PROVE  InputOrder[k] \in 0..18 /\ Position(InputOrder[k]) = k
    <3>1. \/ k = 1 \/ k = 2 \/ k = 3 \/ k = 4 \/ k = 5 \/ k = 6 \/ k = 7
          \/ k = 8 \/ k = 9 \/ k = 10 \/ k = 11 \/ k = 12 \/ k = 13 \/ k = 14
          \/ k = 15 \/ k = 16 \/ k = 17 \/ k = 18 \/ k = 19
      OBVIOUS
    <3> QED
      BY <3>1 DEF InputOrder, Position
  <2> QED
    BY <2>1
<1>2. ASSUME NEW k \in 0..14 PROVE Order(k) = InputOrder[k + 5]
  <2>1. \/ k = 0 \/ k = 1 \/ k = 2 \/ k = 3 \/ k = 4 \/ k = 5 \/ k = 6
        \/ k = 7 \/ k = 8 \/ k = 9 \/ k = 10 \/ k = 11 \/ k = 12 \/ k = 13
        \/ k = 14
    OBVIOUS
  <2> QED
    BY <2>1 DEF InputOrder, Order
<1>3. ASSUME NEW j \in 1..19, NEW k \in 1..19, InputOrder[j] = InputOrder[k]
      PROVE  j = k
  <2>1. Position(InputOrder[j]) = j /\ Position(InputOrder[k]) = k
    BY <1>1
  <2> QED
    BY <1>3, <2>1
<1> QED
  BY <1>1, <1>2, <1>3

-----------------------------------------------------------------------------
(* Lengths are numbers below WordSize; a symbol stands for n of them that  *)
(* are the same, v.                                                        *)
Word == 0 .. WordSize - 1

Run(n, v) == [k \in 1..n |-> v]

Extends(new, lens, n, v) ==
  /\ new \in Seq(Word) /\ Len(new) = Len(lens) + n
  /\ \A k \in 1 .. Len(lens) : new[k] = lens[k]
  /\ \A k \in Len(lens) + 1 .. Len(lens) + n : new[k] = v
  /\ Before(new) = v

(* A run behind the lengths known so far.                                  *)
LEMMA RunAppended ==
  ASSUME NEW lens \in Seq(Word), NEW n \in Nat \ {0}, NEW v \in Word
  PROVE  Extends(lens \o Run(n, v), lens, n, v)
<1> DEFINE new == lens \o Run(n, v)
<1>1. Run(n, v) \in Seq(Word) /\ Len(Run(n, v)) = n
  BY DEF Run
<1>2. new \in Seq(Word) /\ Len(new) = Len(lens) + n
  BY <1>1
<1>3. \A k \in 1 .. Len(lens) : new[k] = lens[k]
  BY <1>1
<1>4. \A k \in Len(lens) + 1 .. Len(lens) + n : new[k] = v
  <2>1. ASSUME NEW k \in Len(lens) + 1 .. Len(lens) + n PROVE new[k] = v
    <3>1. k - Len(lens) \in 1..n /\ k \in 1 .. Len(lens) + n /\ k > Len(lens)
      OBVIOUS
    <3>2. new[k] = Run(n, v)[k - Len(lens)]
      BY <1>1, <3>1
    <3> QED
      BY <3>1, <3>2 DEF Run
  <2> QED
    BY <2>1
<1>5. Before(new) = v
  <2>1. new # << >> /\ Len(new) \in Len(lens) + 1 .. Len(lens) + n
    BY <1>2
  <2> HIDE DEF new
  <2>2. new[Len(new)] = v
    BY <1>4, <2>1
  <2> QED
    BY <2>1, <2>2 DEF Before, Last
<1> QED
  BY <1>2, <1>3, <1>4, <1>5 DEF Extends

(* The symbols 16 to 18 stand for a run, the others for themselves.        *)
LEMMA ExpandIs ==
  ASSUME NEW lens, NEW symbol, NEW extra \in Nat
  PROVE  /\ symbol \in 0..15 =>
              Expand(lens, <<symbol, extra>>) = lens \o Run(1, symbol)
         /\ symbol = 16 => Expand(lens, <<symbol, extra>>) =
                             lens \o Run(extra + 3, Before(lens))
         /\ symbol = 17 =>
              Expand(lens, <<symbol, extra>>) = lens \o Run(extra + 3, 0)
         /\ symbol = 18 =>
              Expand(lens, <<symbol, extra>>) = lens \o Run(extra + 11, 0)
<1>1. PICK s : s = <<symbol, extra>>
  OBVIOUS
<1>2. s[1] = symbol /\ s[2] = extra
  BY <1>1
<1>3. Run(1, symbol) = <<symbol>> /\ 3 + extra = extra + 3
      /\ 11 + extra = extra + 11
  BY DEF Run
<1>4. CASE symbol \in 0..15
  <2>1. Expand(lens, s) = lens \o <<symbol>>
    BY <1>2, <1>4 DEF Expand
  <2>2. symbol # 16 /\ symbol # 17 /\ symbol # 18
    BY <1>4
  <2>3. Expand(lens, <<symbol, extra>>) = lens \o Run(1, symbol)
    BY <1>1, <1>3, <2>1
  <2> QED
    BY <2>2, <2>3
<1>5. CASE symbol \notin 0..15
  <2>1. s[1] \notin 0..15
    BY <1>2, <1>5
  <2>2. symbol = 16 => Expand(lens, s) =
                         lens \o [k \in 1 .. 3 + extra |-> Before(lens)]
    BY <1>2, <2>1 DEF Expand
  <2>3. symbol = 17 => Expand(lens, s) = lens \o [k \in 1 .. 3 + extra |-> 0]
    BY <1>2, <2>1 DEF Expand
  <2>4. symbol = 18 => Expand(lens, s) = lens \o [k \in 1 .. 11 + extra |-> 0]
    BY <1>2, <2>1 DEF Expand
  <2> QED
    BY <1>1, <1>3, <1>5, <2>2, <2>3, <2>4 DEF Run
<1> QED
  BY <1>4, <1>5

(* What the symbols decoded so far stand for, when one more is decoded.    *)
LEMMA SymbolDecoded ==
  ASSUME LengthsInv, pc = "code_lens", NEW symbol \in 0..18, NEW extra \in Nat,
         symbols' = Append(symbols, <<symbol, extra>>),
         NEW n \in Nat \ {0}, NEW v \in Word,
         Expand(Expansion, <<symbol, extra>>) = Expansion \o Run(n, v)
  PROVE  /\ Extends(Expansion', Expansion, n, v)
         /\ symbols' \in Seq((0..18) \X Nat)
<1>1. symbols \in Seq((0..18) \X Nat) /\ Expansion \in Seq(Word)
  BY DEF LengthsInv, LengthsTypeOK, RunValid, Word
<1>2. <<symbol, extra>> \in (0..18) \X Nat
  OBVIOUS
<1>3. Expansion = ExpansionOf(symbols) /\ Expansion' = ExpansionOf(symbols')
  BY DEF Expansion, ExpansionOf
<1>4. Expansion' = Expansion \o Run(n, v)
  BY <1>1, <1>2, <1>3, ExpansionUnfolds
<1> QED
  BY <1>1, <1>2, <1>4, RunAppended

(* A value of a run as an unsigned one.                                    *)
LEMMA RunValueIs ==
  /\ \A v \in 0..15 : v % WordSize = v /\ v \in Word
  /\ (-1) % WordSize = WordSize - 1 /\ WordSize - 1 \in Word
<1>1. WordSize \in Nat /\ WordSize > 16
  BY FieldsAssumption
<1>2. \A v \in 0..15 : v % WordSize = v
  BY <1>1
<1>3. (-1) % WordSize = WordSize - 1
  BY <1>1
<1> QED
  BY <1>1, <1>2, <1>3 DEF Word

(* The invariant, with the assumptions on the constants in words.          *)
LEMMA Facts ==
  ASSUME LengthsInv
  PROVE  /\ at \in Nat /\ run_len \in Nat /\ run_val \in -1 .. 15
         /\ code_lens_len \in Nat /\ run_val % WordSize \in Word
         /\ pc = "code_lens" =>
              /\ code_lens \in [0 .. code_lens_len - 1 -> Word]
              /\ Expansion \in Seq(Word) /\ Len(Expansion) \in Nat
              /\ at <= code_lens_len /\ at + run_len = Len(Expansion)
<1>1. run_val \in -1 .. 15
  BY DEF LengthsInv, LengthsTypeOK
<1>2. run_val % WordSize \in Word
  <2>1. run_val = -1 \/ run_val \in 0..15
    BY <1>1
  <2> QED
    BY <2>1, RunValueIs
<1>3. code_lens_len \in Nat
  BY DEF LengthsInv, LengthsTypeOK, code_lens_len
<1> QED
  BY <1>1, <1>2, <1>3 DEF LengthsInv, LengthsTypeOK, RunValid,
                              TablesAreExpansion, Word

(* Symbols 16, 17 and 18: a run begins.                                    *)
LEMMA RunBegins ==
  ASSUME LengthsInv, pc = "code_lens", at < code_lens_len, run_len = 0,
         NEW symbol \in 16..18, NEW extra \in Nat,
         symbols' = Append(symbols, <<symbol, extra>>),
         NEW n \in Nat \ {0}, NEW v \in Word,
         Expand(Expansion, <<symbol, extra>>) = Expansion \o Run(n, v),
         UNCHANGED <<pc, header, code_len_code_len, code_lens, at>>,
         run_len' = n, run_val' \in -1 .. 15, run_val' % WordSize = v
  PROVE  LengthsInv'
<1>0. symbol \in 0..18
  OBVIOUS
<1>1. Extends(Expansion', Expansion, n, v) /\ symbols' \in Seq((0..18) \X Nat)
  BY <1>0, SymbolDecoded
<1>2. /\ Expansion' \in Seq(Word) /\ Len(Expansion') = at + n
      /\ \A k \in 1..at : Expansion'[k] = Expansion[k]
      /\ \A k \in at + 1 .. at + n : Expansion'[k] = v
      /\ Before(Expansion)' = v
  <2>1. Len(Expansion) = at /\ Before(Expansion)' = Before(Expansion')
    BY Facts DEF Before
  <2> QED
    BY <1>1, <2>1 DEF Extends
<1>3. code_lens_len' = code_lens_len /\ UNCHANGED <<fields, num_code_len_codes,
        num_lit_len_codes, num_dist_codes>>
  BY DEF header, code_lens_len
<1>4. LengthsTypeOK'
  BY <1>1, <1>3 DEF LengthsInv, LengthsTypeOK
<1>5. OrderValid' /\ LengthsInOrder'
  BY <1>3 DEF LengthsInv, OrderValid, LengthsInOrder
<1>6. RunValid'
  <2>1. \A k \in at .. at + n - 1 : Expansion'[k + 1] = v
    <3>0. at \in Nat
      BY Facts
    <3>1. \A k \in at .. at + n - 1 : k + 1 \in at + 1 .. at + n
      BY <3>0
    <3> QED
      BY <1>2, <3>1
  <2> QED
    BY <1>2, <1>3, <2>1, Facts DEF RunValid, Word
<1>7. TablesAreExpansion'
  <2>1. \A k \in 0 .. at - 1 : code_lens[k] = Expansion'[k + 1]
    <3>1. \A k \in 0 .. at - 1 : k + 1 \in 1..at
      BY Facts
    <3> QED
      BY <1>2, <3>1 DEF LengthsInv, TablesAreExpansion
  <2>2. \A k \in at .. code_lens_len - 1 : code_lens[k] = 0
    BY DEF LengthsInv, TablesAreExpansion
  <2> QED
    BY <1>2, <1>3, <2>1, <2>2 DEF TablesAreExpansion
<1> QED
  BY <1>4, <1>5, <1>6, <1>7 DEF LengthsInv

-----------------------------------------------------------------------------
(* Nothing is read when the decoding begins.                               *)
LEMMA InvariantStarts == LengthsInit => LengthsInv
<1> SUFFICES ASSUME LengthsInit PROVE LengthsInv
  OBVIOUS
<1>1. LengthsTypeOK
  BY DEF LengthsInit, LengthsTypeOK
<1> QED
  BY <1>1 DEF LengthsInit, LengthsInv, OrderValid, RunValid, LengthsInOrder,
              TablesAreExpansion

(* The fields are lengths of three bits.                                   *)
LEMMA FieldsAreLengths ==
  ASSUME LengthsInv
  PROVE  fields \in [1..19 -> 0..7]
BY FieldsAssumption DEF LengthsInv, LengthsTypeOK

(* The header leaves every length of the first code zero.                  *)
LEMMA InvariantAfterHeader ==
  ASSUME LengthsInv, NEW lit_len \in LitLenCodes, NEW dist \in DistCodes,
         NEW code_len \in 4..19, Header(lit_len, dist, code_len)
  PROVE  LengthsInv'
<1>1. fields \in [1..19 -> 0..7]
  BY FieldsAreLengths
<1>2. lit_len \in Nat /\ dist \in Nat
  BY FieldsAssumption
<1>3. symbols = << >>
  BY DEF LengthsInv, RunValid, Header
<1>4. LengthsTypeOK'
  <2>1. code_len_code_len' \in [0..18 -> 0..7]
    <3>1. fields[1] \in 0..7 /\ fields[2] \in 0..7 /\ fields[3] \in 0..7
          /\ fields[4] \in 0..7
      BY <1>1
    <3> QED
      BY <3>1 DEF Header
  <2> QED
    BY <1>2, <2>1 DEF LengthsInv, LengthsTypeOK, Header
<1>5. OrderValid'
  <2>1. ASSUME NEW k \in 1..19
        PROVE  code_len_code_len'[InputOrder[k]] =
                 IF k <= 4 THEN fields[k] ELSE 0
    <3>1. \/ k = 1 \/ k = 2 \/ k = 3 \/ k = 4 \/ k = 5 \/ k = 6 \/ k = 7
          \/ k = 8 \/ k = 9 \/ k = 10 \/ k = 11 \/ k = 12 \/ k = 13 \/ k = 14
          \/ k = 15 \/ k = 16 \/ k = 17 \/ k = 18 \/ k = 19
      OBVIOUS
    <3> QED
      BY <3>1 DEF InputOrder, Header
  <2>2. at' = 0 /\ num_code_len_codes' = code_len /\ fields' = fields
    BY DEF Header
  <2> QED
    BY <2>1, <2>2 DEF OrderValid
<1>6. RunValid' /\ LengthsInOrder' /\ TablesAreExpansion'
  BY <1>3 DEF RunValid, LengthsInOrder, TablesAreExpansion, Header
<1> QED
  BY <1>4, <1>5, <1>6 DEF LengthsInv

(* A field is written at the symbol that has its place in the order.       *)
LEMMA InvariantAfterCodeLenStep ==
  ASSUME LengthsInv, CodeLenStep
  PROVE  LengthsInv'
<1>1. /\ fields \in [1..19 -> 0..7] /\ at \in Nat
      /\ num_code_len_codes \in 4..19
      /\ code_len_code_len \in [0..18 -> 0..7]
  BY FieldsAreLengths DEF LengthsInv, LengthsTypeOK, CodeLenStep
<1>2. at < num_code_len_codes - 4 /\ at \in 0..14 /\ at + 5 \in 1..19
  BY <1>1 DEF CodeLenStep
<1>3. Order(at) = InputOrder[at + 5] /\ InputOrder[at + 5] \in 0..18
  BY <1>2, InputOrderFacts
<1>4. LengthsTypeOK'
  <2>1. fields[at + 5] \in 0..7 /\ at' \in Nat
    BY <1>1, <1>2 DEF CodeLenStep
  <2>2. code_len_code_len' \in [0..18 -> 0..7]
    BY <1>1, <2>1 DEF CodeLenStep
  <2> QED
    BY <2>1, <2>2 DEF LengthsInv, LengthsTypeOK, CodeLenStep, header
<1>5. OrderValid'
  <2>1. ASSUME NEW k \in 1..19
        PROVE  code_len_code_len'[InputOrder[k]] =
                 IF k <= at + 5 THEN fields[k] ELSE 0
    <3>0. InputOrder[k] \in 0..18
      BY InputOrderFacts
    <3>1. CASE k = at + 5
      BY <1>1, <1>3, <3>0, <3>1 DEF CodeLenStep
    <3>2. CASE k # at + 5
      <4>1. InputOrder[k] # InputOrder[at + 5]
        BY <1>2, <3>2, InputOrderFacts
      <4>2. code_len_code_len'[InputOrder[k]] = code_len_code_len[InputOrder[k]]
        BY <1>1, <1>3, <3>0, <4>1 DEF CodeLenStep
      <4>3. code_len_code_len[InputOrder[k]] =
              IF k <= at + 4 THEN fields[k] ELSE 0
        BY DEF LengthsInv, OrderValid, CodeLenStep
      <4>4. k <= at + 5 <=> k <= at + 4
        BY <1>1, <3>2
      <4> QED
        BY <4>2, <4>3, <4>4
    <3> QED
      BY <3>1, <3>2
  <2>2. /\ at' = at + 1 /\ UNCHANGED <<num_code_len_codes, fields>>
        /\ at' <= num_code_len_codes - 4
    BY <1>1, <1>2 DEF CodeLenStep, header
  <2>3. \A k \in 1..19 : k <= at' + 4 <=> k <= at + 5
    BY <1>1, <2>2
  <2> QED
    BY <2>1, <2>2, <2>3 DEF OrderValid
<1>6. RunValid' /\ LengthsInOrder' /\ TablesAreExpansion'
  BY DEF LengthsInv, RunValid, LengthsInOrder, TablesAreExpansion, CodeLenStep
<1> QED
  BY <1>4, <1>5, <1>6 DEF LengthsInv

(* All the fields are in their places when the first code is built.        *)
LEMMA InvariantAfterCodeLenEnd ==
  ASSUME LengthsInv, CodeLenEnd
  PROVE  LengthsInv'
<1>1. pc = "code_len_code_len" /\ symbols' = << >>
      /\ UNCHANGED <<num_lit_len_codes, num_dist_codes, num_code_len_codes,
                     fields, code_len_code_len>>
  BY DEF LengthsInv, RunValid, CodeLenEnd, header
<1>2. LengthsInOrder'
  <2>0. at \in Nat /\ num_code_len_codes \in 4..19
    BY <1>1 DEF LengthsInv, LengthsTypeOK
  <2>1. at = num_code_len_codes - 4
    BY <1>1, <2>0 DEF LengthsInv, OrderValid, CodeLenEnd
  <2>2. \A k \in 1..19 : k <= at + 4 <=> k <= num_code_len_codes
    BY <2>0, <2>1
  <2> QED
    BY <1>1, <2>2 DEF LengthsInv, OrderValid, LengthsInOrder
<1>3. Expansion' = << >>
  BY <1>1, ExpansionOfNone DEF Expansion, ExpansionOf
<1>4. CASE pc' = "threw"
  <2>1. UNCHANGED <<at, run_val, run_len, symbols>>
    BY <1>4 DEF CodeLenEnd
  <2>2. LengthsTypeOK'
    BY <1>1, <1>4, <2>1 DEF LengthsInv, LengthsTypeOK
  <2> QED
    BY <1>2, <1>4, <2>2 DEF LengthsInv, OrderValid, RunValid, TablesAreExpansion
<1>5. CASE pc' # "threw"
  <2>1. /\ pc' = "code_lens" /\ at' = 0 /\ run_val' = -1 /\ run_len' = 0
        /\ code_lens' = [k \in 0 .. code_lens_len - 1 |-> 0]
        /\ code_lens_len' = code_lens_len /\ symbols' = symbols
    BY <1>1, <1>5 DEF CodeLenEnd, code_lens_len
  <2>2. code_lens_len \in Nat /\ WordSize \in Nat /\ WordSize > 16
    BY FieldsAssumption DEF LengthsInv, LengthsTypeOK, code_lens_len
  <2>3. code_lens' \in [0 .. code_lens_len - 1 -> 0 .. WordSize - 1]
    BY <2>1, <2>2
  <2>4. LengthsTypeOK'
    BY <1>1, <2>1, <2>3 DEF LengthsInv, LengthsTypeOK
  <2>5. RunValid'
    <3>1. Expansion' \in Seq(0 .. WordSize - 1)
      BY <1>3
    <3>2. Before(Expansion)' = run_val' % WordSize
      BY <1>3, <2>1, RunValueIs DEF Before
    <3>3. at' .. at' + run_len' - 1 = {} /\ at' <= code_lens_len'
      BY <2>1, <2>2
    <3> QED
      BY <2>1, <3>1, <3>2, <3>3 DEF RunValid
  <2>6. TablesAreExpansion'
    <3>1. at' + run_len' = Len(Expansion') /\ 0 .. at' - 1 = {}
      BY <1>3, <2>1
    <3>2. \A k \in at' .. code_lens_len - 1 : code_lens'[k] = 0
      BY <2>1
    <3> QED
      BY <2>1, <3>1, <3>2 DEF TablesAreExpansion
  <2> QED
    BY <1>2, <2>1, <2>4, <2>5, <2>6 DEF LengthsInv, OrderValid
<1> QED
  BY <1>4, <1>5

(* Within a run: the array takes one more of what the symbols stand for.   *)
LEMMA InvariantAfterRunStep ==
  ASSUME LengthsInv, RunStep
  PROVE  LengthsInv'
<1>1. /\ pc = "code_lens" /\ at < code_lens_len /\ run_len > 0
      /\ at' = at + 1 /\ run_len' = run_len - 1 /\ symbols' = symbols
      /\ code_lens' = [code_lens EXCEPT ![at] = run_val % WordSize]
      /\ UNCHANGED <<pc, num_lit_len_codes, num_dist_codes, fields,
                     num_code_len_codes, code_len_code_len, run_val>>
  BY DEF RunStep, header
<1>2. /\ at \in Nat /\ run_len \in Nat /\ code_lens_len \in Nat
      /\ run_val % WordSize \in Word
      /\ code_lens \in [0 .. code_lens_len - 1 -> Word]
      /\ at + run_len = Len(Expansion)
  BY <1>1, Facts
<1>3. code_lens_len' = code_lens_len /\ Expansion' = Expansion
  BY <1>1 DEF code_lens_len, Expansion
<1>4. /\ at' \in Nat /\ run_len' \in Nat /\ at' <= code_lens_len
      /\ at' + run_len' = at + run_len /\ at \in 0 .. code_lens_len - 1
  BY <1>1, <1>2
<1>5. code_lens' \in [0 .. code_lens_len - 1 -> Word]
  BY <1>1, <1>2, <1>4
<1>6. LengthsTypeOK'
  BY <1>1, <1>3, <1>4, <1>5 DEF LengthsInv, LengthsTypeOK, Word
<1>7. OrderValid' /\ LengthsInOrder'
  BY <1>1 DEF LengthsInv, OrderValid, LengthsInOrder
<1>8. \A k \in at .. at + run_len - 1 : Expansion[k + 1] = run_val % WordSize
  BY <1>1 DEF LengthsInv, RunValid
<1>9. RunValid'
  <2>1. \A k \in at' .. at' + run_len' - 1 : k \in at .. at + run_len - 1
    BY <1>1, <1>2
  <2>2. Before(Expansion)' = Before(Expansion)
    BY <1>3 DEF Before
  <2> QED
    BY <1>1, <1>3, <1>4, <1>8, <2>1, <2>2 DEF LengthsInv, RunValid
<1>10. TablesAreExpansion'
  <2>1. \A k \in 0 .. at' - 1 : code_lens'[k] = Expansion[k + 1]
    <3>1. ASSUME NEW k \in 0 .. at' - 1
          PROVE  code_lens'[k] = Expansion[k + 1]
      <4>1. CASE k = at
        <5>1. at \in at .. at + run_len - 1
          BY <1>1, <1>2
        <5> QED
          BY <1>1, <1>2, <1>4, <1>8, <4>1, <5>1
      <4>2. CASE k # at
        <5>1. k \in 0 .. at - 1 /\ k \in 0 .. code_lens_len - 1
          BY <1>1, <1>2, <1>4, <4>2
        <5>2. code_lens[k] = Expansion[k + 1]
          BY <1>1, <5>1 DEF LengthsInv, TablesAreExpansion
        <5> QED
          BY <1>1, <1>2, <4>2, <5>1, <5>2
      <4> QED
        BY <4>1, <4>2
    <3> QED
      BY <3>1
  <2>2. \A k \in at' .. code_lens_len - 1 : code_lens'[k] = 0
    <3>1. ASSUME NEW k \in at' .. code_lens_len - 1 PROVE code_lens'[k] = 0
      <4>1. k # at /\ k \in at .. code_lens_len - 1 /\ k \in 0 .. code_lens_len - 1
        BY <1>1, <1>2
      <4>2. code_lens[k] = 0
        BY <1>1, <4>1 DEF LengthsInv, TablesAreExpansion
      <4> QED
        BY <1>1, <1>2, <4>1, <4>2
    <3> QED
      BY <3>1
  <2> QED
    BY <1>1, <1>2, <1>3, <1>4, <2>1, <2>2 DEF TablesAreExpansion
<1> QED
  BY <1>6, <1>7, <1>9, <1>10 DEF LengthsInv

(* Symbols 0 to 15: one length.                                            *)
LEMMA InvariantAfterLengthSymbol ==
  ASSUME LengthsInv, NEW symbol \in 0..15, LengthSymbol(symbol)
  PROVE  LengthsInv'
<1>1. /\ pc = "code_lens" /\ at < code_lens_len /\ run_len = 0
      /\ at' = at + 1 /\ run_len' = run_len /\ run_val' = symbol
      /\ symbols' = Append(symbols, <<symbol, 0>>)
      /\ code_lens' = [code_lens EXCEPT ![at] = symbol]
      /\ UNCHANGED <<pc, num_lit_len_codes, num_dist_codes, fields,
                     num_code_len_codes, code_len_code_len>>
  BY DEF LengthSymbol, Decode, header
<1>2. /\ at \in Nat /\ run_len \in Nat /\ code_lens_len \in Nat
      /\ code_lens \in [0 .. code_lens_len - 1 -> Word]
      /\ at + run_len = Len(Expansion)
  BY <1>1, Facts
<1>3. symbol % WordSize = symbol /\ symbol \in Word /\ symbol \in 0..18
      /\ code_lens_len' = code_lens_len
  BY <1>1, RunValueIs DEF code_lens_len
<1>4. Extends(Expansion', Expansion, 1, symbol)
      /\ symbols' \in Seq((0..18) \X Nat)
  <2>1. Expand(Expansion, <<symbol, 0>>) = Expansion \o Run(1, symbol)
    BY ExpandIs
  <2>2. 1 \in Nat \ {0} /\ 0 \in Nat
    OBVIOUS
  <2> QED
    BY <1>1, <1>3, <2>1, <2>2, SymbolDecoded
<1>5. /\ Expansion' \in Seq(Word) /\ Len(Expansion') = at + 1
      /\ \A k \in 1..at : Expansion'[k] = Expansion[k]
      /\ Expansion'[at + 1] = symbol /\ Before(Expansion)' = symbol
  <2>1. Len(Expansion) = at /\ Before(Expansion)' = Before(Expansion')
    BY <1>1, <1>2 DEF Before
  <2>2. at + 1 \in at + 1 .. at + 1
    BY <1>2
  <2> QED
    BY <1>4, <2>1, <2>2 DEF Extends
<1>6. at \in 0 .. code_lens_len - 1 /\ at + 1 <= code_lens_len /\ at + 1 \in Nat
  BY <1>1, <1>2
<1>7. LengthsTypeOK'
  <2>1. code_lens' \in [0 .. code_lens_len - 1 -> Word]
    BY <1>1, <1>2, <1>3, <1>6
  <2> QED
    BY <1>1, <1>3, <1>4, <1>6, <2>1 DEF LengthsInv, LengthsTypeOK, Word
<1>8. OrderValid' /\ LengthsInOrder'
  BY <1>1 DEF LengthsInv, OrderValid, LengthsInOrder
<1>9. RunValid'
  <2>1. at' .. at' + run_len' - 1 = {}
    BY <1>1, <1>2
  <2> QED
    BY <1>1, <1>3, <1>5, <1>6, <2>1 DEF RunValid, Word
<1>10. TablesAreExpansion'
  <2>1. \A k \in 0 .. at' - 1 : code_lens'[k] = Expansion'[k + 1]
    <3>1. ASSUME NEW k \in 0 .. at' - 1
          PROVE  code_lens'[k] = Expansion'[k + 1]
      <4>1. CASE k = at
        BY <1>1, <1>2, <1>5, <1>6, <4>1
      <4>2. CASE k # at
        <5>1. k \in 0 .. at - 1 /\ k \in 0 .. code_lens_len - 1 /\ k + 1 \in 1..at
          BY <1>1, <1>2, <4>2
        <5>2. code_lens[k] = Expansion[k + 1]
          BY <1>1, <5>1 DEF LengthsInv, TablesAreExpansion
        <5>3. Expansion'[k + 1] = Expansion[k + 1]
          BY <1>5, <5>1
        <5> QED
          BY <1>1, <1>2, <4>2, <5>1, <5>2, <5>3
      <4> QED
        BY <4>1, <4>2
    <3> QED
      BY <3>1
  <2>2. \A k \in at' .. code_lens_len - 1 : code_lens'[k] = 0
    <3>1. ASSUME NEW k \in at' .. code_lens_len - 1 PROVE code_lens'[k] = 0
      <4>1. k # at /\ k \in at .. code_lens_len - 1 /\ k \in 0 .. code_lens_len - 1
        BY <1>1, <1>2
      <4>2. code_lens[k] = 0
        BY <1>1, <4>1 DEF LengthsInv, TablesAreExpansion
      <4> QED
        BY <1>1, <1>2, <4>1, <4>2
    <3> QED
      BY <3>1
  <2>3. at' + run_len' = Len(Expansion')
    BY <1>1, <1>2, <1>5
  <2> QED
    BY <1>1, <1>3, <2>1, <2>2, <2>3 DEF TablesAreExpansion
<1> QED
  BY <1>7, <1>8, <1>9, <1>10 DEF LengthsInv

(* A repetition goes on with the value that the expansion ends in; with no *)
(* length before, that is -1.                                              *)
LEMMA InvariantAfterRepeat ==
  ASSUME LengthsInv, NEW extra \in Extras, Repeat(extra)
  PROVE  LengthsInv'
<1>1. /\ extra \in 0..3 /\ pc = "code_lens" /\ at < code_lens_len
      /\ run_len = 0 /\ run_len' = extra + 3
      /\ symbols' = Append(symbols, <<16, extra>>)
      /\ UNCHANGED <<pc, header, code_len_code_len, code_lens, at, run_val>>
  BY DEF Repeat, Decode
<1> DEFINE v == run_val % WordSize
<1>2. v \in Word /\ run_val' \in -1 .. 15 /\ run_val' % WordSize = v
  BY <1>1, Facts
<1>3. Expand(Expansion, <<16, extra>>) = Expansion \o Run(extra + 3, v)
  <2>1. Before(Expansion) = v
    BY <1>1 DEF LengthsInv, RunValid
  <2>2. extra \in Nat
    BY <1>1
  <2> HIDE DEF v
  <2> QED
    BY <2>1, <2>2, ExpandIs
<1>4. extra + 3 \in Nat \ {0} /\ extra \in Nat /\ 16 \in 16..18
  BY <1>1
<1> HIDE DEF v
<1> QED
  BY <1>1, <1>2, <1>3, <1>4, RunBegins

(* A run of zeros begins with zero as the length it repeats.               *)
LEMMA InvariantAfterZeros3 ==
  ASSUME LengthsInv, NEW extra \in Extras, Zeros3(extra)
  PROVE  LengthsInv'
<1>1. /\ extra \in 0..7 /\ pc = "code_lens" /\ at < code_lens_len
      /\ run_len = 0 /\ run_len' = extra + 3 /\ run_val' = 0
      /\ symbols' = Append(symbols, <<17, extra>>)
      /\ UNCHANGED <<pc, header, code_len_code_len, code_lens, at>>
  BY DEF Zeros3, Decode
<1>2. 0 \in Word /\ run_val' \in -1 .. 15 /\ run_val' % WordSize = 0
  BY <1>1, RunValueIs
<1>3. Expand(Expansion, <<17, extra>>) = Expansion \o Run(extra + 3, 0)
  <2>1. extra \in Nat
    BY <1>1
  <2> QED
    BY <2>1, ExpandIs
<1>4. extra + 3 \in Nat \ {0} /\ extra \in Nat /\ 17 \in 16..18
  BY <1>1
<1> QED
  BY <1>1, <1>2, <1>3, <1>4, RunBegins

(* So does a longer one.                                                   *)
LEMMA InvariantAfterZeros11 ==
  ASSUME LengthsInv, NEW extra \in Extras, Zeros11(extra)
  PROVE  LengthsInv'
<1>1. /\ extra \in 0..127 /\ pc = "code_lens" /\ at < code_lens_len
      /\ run_len = 0 /\ run_len' = extra + 11 /\ run_val' = 0
      /\ symbols' = Append(symbols, <<18, extra>>)
      /\ UNCHANGED <<pc, header, code_len_code_len, code_lens, at>>
  BY FieldsAssumption DEF Zeros11, Decode
<1>2. 0 \in Word /\ run_val' \in -1 .. 15 /\ run_val' % WordSize = 0
  BY <1>1, RunValueIs
<1>3. Expand(Expansion, <<18, extra>>) = Expansion \o Run(extra + 11, 0)
  <2>1. extra \in Nat
    BY <1>1
  <2> QED
    BY <2>1, ExpandIs
<1>4. extra + 11 \in Nat \ {0} /\ extra \in Nat /\ 18 \in 16..18
  BY <1>1
<1> QED
  BY <1>1, <1>2, <1>3, <1>4, RunBegins

(* The trees change nothing but where the function is.                     *)
LEMMA InvariantAfterTrees ==
  ASSUME LengthsInv, LitLenTree \/ DistTree
  PROVE  LengthsInv'
<1>1. /\ pc \in {"code_lens", "dist_tree"}
      /\ pc' \in {"dist_tree", "done", "threw"}
      /\ pc = "code_lens" => at >= code_lens_len
      /\ UNCHANGED <<fields, num_lit_len_codes, num_dist_codes,
                     num_code_len_codes, code_len_code_len, code_lens, at,
                     run_val, run_len, symbols>>
  BY DEF LitLenTree, DistTree, header
<1>2. code_lens_len' = code_lens_len /\ Expansion' = Expansion
      /\ Before(Expansion)' = Before(Expansion)
  BY <1>1 DEF code_lens_len, Expansion, Before
<1>3. LengthsTypeOK'
  BY <1>1, <1>2 DEF LengthsInv, LengthsTypeOK
<1>4. OrderValid' /\ LengthsInOrder'
  BY <1>1 DEF LengthsInv, OrderValid, LengthsInOrder
<1>5. RunValid'
  BY <1>1, <1>2 DEF LengthsInv, RunValid
<1>6. TablesAreExpansion'
  <2>1. at = code_lens_len
    BY <1>1, Facts DEF LengthsInv, TablesAreExpansion
  <2> QED
    BY <1>1, <1>2, <2>1 DEF LengthsInv, TablesAreExpansion
<1> QED
  BY <1>3, <1>4, <1>5, <1>6 DEF LengthsInv

(* A stuttering step.                                                      *)
LEMMA InvariantUnchanged ==
  ASSUME LengthsInv, UNCHANGED lengths_vars
  PROVE  LengthsInv'
BY DEF LengthsInv, LengthsTypeOK, OrderValid, RunValid, LengthsInOrder,
       TablesAreExpansion, Expansion, Before, code_lens_len, lengths_vars, header

(* The invariant all the rest follows from: where the loops stand in the   *)
(* fields and in what the symbols stand for.                               *)
THEOREM LengthsInvariance == LengthsSpec => []LengthsInv
<1>1. LengthsInit => LengthsInv
  BY InvariantStarts
<1>2. LengthsInv /\ [LengthsNext]_lengths_vars => LengthsInv'
  <2> SUFFICES ASSUME LengthsInv, [LengthsNext]_lengths_vars PROVE LengthsInv'
    OBVIOUS
  <2>1. ASSUME NEW lit_len \in LitLenCodes, NEW dist \in DistCodes,
               NEW code_len \in 4..19, Header(lit_len, dist, code_len)
        PROVE  LengthsInv'
    BY <2>1, InvariantAfterHeader
  <2>2. CASE CodeLenStep
    BY <2>2, InvariantAfterCodeLenStep
  <2>3. CASE CodeLenEnd
    BY <2>3, InvariantAfterCodeLenEnd
  <2>4. CASE RunStep
    BY <2>4, InvariantAfterRunStep
  <2>5. ASSUME NEW symbol \in 0..15, LengthSymbol(symbol) PROVE LengthsInv'
    BY <2>5, InvariantAfterLengthSymbol
  <2>6. ASSUME NEW extra \in Extras,
               Repeat(extra) \/ Zeros3(extra) \/ Zeros11(extra)
        PROVE  LengthsInv'
    BY <2>6, InvariantAfterRepeat, InvariantAfterZeros3, InvariantAfterZeros11
  <2>7. CASE LitLenTree \/ DistTree
    BY <2>7, InvariantAfterTrees
  <2>8. CASE UNCHANGED lengths_vars
    BY <2>8, InvariantUnchanged
  <2> QED
    BY <2>1, <2>2, <2>3, <2>4, <2>5, <2>6, <2>7, <2>8 DEF LengthsNext
<1> QED
  BY <1>1, <1>2, PTL DEF LengthsSpec

(* Every variable has its type, and no length in the array exceeds a       *)
(* uint32_t.                                                               *)
THEOREM LengthsTypeCorrect == LengthsSpec => []LengthsTypeOK
<1>1. LengthsInv => LengthsTypeOK
  BY DEF LengthsInv
<1> QED
  BY <1>1, LengthsInvariance, PTL

(* Every length the header gives is that of the symbol RFC 1951 means, the *)
(* others are zero (zip_inl.hh:153-162).                                   *)
THEOREM FirstCodeInOrder == LengthsSpec => []LengthsInOrder
<1>1. LengthsInv => LengthsInOrder
  BY DEF LengthsInv
<1> QED
  BY <1>1, LengthsInvariance, PTL

(* The two tables are what the symbols stand for, whatever the runs: those *)
(* that cross from the one into the other, and the one that does not fit   *)
(* (zip_inl.hh:168-191).                                                   *)
THEOREM TablesAreTheExpansion == LengthsSpec => []TablesAreExpansion
<1>1. LengthsInv => TablesAreExpansion
  BY DEF LengthsInv
<1> QED
  BY <1>1, LengthsInvariance, PTL
=============================================================================
