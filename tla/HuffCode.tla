------------------------------- MODULE HuffCode -------------------------------
(***************************************************************************)
(* HuffCode and HuffNode (huff.cc, huff.hh) and decode_symbol              *)
(* (zip_inl.hh): a pool of nodes in which a block builds its code trees,   *)
(* one after the other, and in which symbols are decoded.  The branches of *)
(* every tree refer to their children by 16-bit indices into the one pool. *)
(*                                                                         *)
(* new_code_tree builds a tree from the bottom level up: the nodes of a    *)
(* level are its leaves, in the order of the symbols, and after them the   *)
(* pairs of nodes of the level below.  A step here is an iteration of one  *)
(* of its loops, or of decode_symbol's.                                    *)
(***************************************************************************)
EXTENDS Integers, Sequences, FiniteSetsExt, CodeTables

CONSTANTS
  Tables,       (* the tables of code lengths considered, functions from   *)
                (* symbols 0..n-1 to lengths                               *)
  TableSize,    (* the most symbols a table has; 288 or less in Deflater   *)
  MaxLength,    (* the longest code; 15                                    *)
  MaxTrees,     (* the trees that share a pool; 3 in a dynamic block       *)
  IndexSize     (* 2^16, the modulus of HuffNode::index_                   *)

ASSUME SizesAssumption ==
  /\ TableSize \in Nat /\ MaxLength \in Nat \ {0} /\ MaxTrees \in Nat
  /\ IndexSize \in Nat
  /\ 2 * TableSize * MaxTrees <= IndexSize

ASSUME TablesAssumption ==
  \A t \in Tables : \E n \in 0..TableSize : t \in [0 .. n - 1 -> 0..MaxLength]

VARIABLES
  pool,         (* node_pool_; the node with index n is pool[n + 1]        *)
  trees,        (* the trees built: their tables and their root's index    *)
  call,         (* what runs: "idle", a loop of new_code_tree ("leaves",   *)
                (* "pairs"), "decode", or "threw" (std::out_of_range)      *)
  table,        (* the table of the tree being built                       *)
  il,           (* the level being built                                   *)
  i,            (* the loop's index                                        *)
  nodes,        (* the nodes of the level below, by index                  *)
  new_nodes,    (* those of this level                                     *)
  walk,         (* decode_symbol: the tree, the node and the bits read     *)
  born,         (* history: for each node the number of its tree, and the  *)
                (* level it was made for                                   *)
  levels,       (* history: for each tree begun the nodes of every level   *)
                (* that is complete, by index                              *)
  start         (* history: the size of the pool when the tree was begun   *)

build == <<table, il, i, nodes, new_nodes, levels, start>>

vars == <<pool, trees, call, build, walk, born>>

Size(t) == Cardinality(DOMAIN t)

Leaf(value) == [kind |-> "leaf", value |-> value, left |-> 0, right |-> 0]

Branch(left, right) ==
  [kind |-> "branch", value |-> 0, left |-> left, right |-> right]

node(index) == pool[index + 1]

NoWalk == [tree |-> 0, current |-> 0, bits |-> 0]

-----------------------------------------------------------------------------
Init ==
  /\ pool = << >> /\ born = << >>
  /\ trees = << >>
  /\ call = "idle"
  /\ table = << >> /\ il = 0 /\ i = 0 /\ nodes = << >> /\ new_nodes = << >>
  /\ levels = << >> /\ start = 0
  /\ walk = NoWalk

(* Mutant: an index counted from the beginning of the tree.                *)
PushNodeOwnIndex(n) ==
  /\ pool' = Append(pool, n)
  /\ born' = Append(born, [tree |-> Len(trees) + 1, level |-> il])
  /\ new_nodes' = Append(new_nodes, Len(pool) - start)

(* new_huff_node, and the push_back of its result: the node keeps its      *)
(* index in 16 bits.                                                       *)
PushNode(n) ==
  /\ pool' = Append(pool, n)
  /\ born' = Append(born, [tree |-> Len(trees) + 1, level |-> il])
  /\ new_nodes' = Append(new_nodes, Len(pool) % IndexSize)

NewCodeTree(t) ==
  /\ call = "idle"
  /\ Len(trees) < MaxTrees
  /\ call' = "leaves"
  /\ table' = t /\ il' = MaxLength /\ i' = 0
  /\ nodes' = << >> /\ new_nodes' = << >>
  /\ start' = Len(pool)
  /\ levels' = Append(levels, [l \in 0 .. MaxLength + 1 |-> << >>])
  /\ walk' = NoWalk
  /\ UNCHANGED <<pool, trees, born>>

(* One iteration of the loop over the symbols.                             *)
LeafStep ==
  /\ call = "leaves" /\ il > 0 /\ i \in DOMAIN table
  /\ \/ table[i] = il /\ PushNode(Leaf(i))
     \/ table[i] # il /\ UNCHANGED <<pool, born, new_nodes>>
  /\ i' = i + 1
  /\ UNCHANGED <<trees, call, table, il, nodes, levels, start, walk>>

LeavesEnd ==
  /\ call = "leaves"
  /\ il = 0 \/ i \notin DOMAIN table
  /\ call' = "pairs" /\ i' = 0
  /\ UNCHANGED <<pool, trees, table, il, nodes, new_nodes, walk, born, levels, start>>

(* Mutant: left and right exchanged.                                       *)
PairStepSwapped ==
  /\ call = "pairs" /\ i + 1 < Len(nodes)
  /\ PushNode(Branch(nodes[i + 2], nodes[i + 1]))
  /\ i' = i + 2
  /\ UNCHANGED <<trees, call, table, il, nodes, levels, start, walk>>

(* One iteration of the loop over the level below.                         *)
PairStep ==
  /\ call = "pairs" /\ i + 1 < Len(nodes)
  /\ PushNode(Branch(nodes[i + 1], nodes[i + 2]))
  /\ i' = i + 2
  /\ UNCHANGED <<trees, call, table, il, nodes, levels, start, walk>>

(* nodes->at(in + 1) throws when the level below has an odd node left,     *)
(* nodes->at(0) when the last level is empty.                              *)
AtThrows ==
  /\ call = "pairs"
  /\ \/ i + 1 = Len(nodes)
     \/ i >= Len(nodes) /\ il = 0 /\ new_nodes = << >>
  /\ call' = "threw"
  /\ UNCHANGED <<pool, trees, build, walk, born>>

(* The levels of the trees begun, with the one that is complete now.       *)
WithLevel == [levels EXCEPT ![Len(trees) + 1][il] = new_nodes]

(* Mutant: an odd node left over is dropped.                               *)
LevelEndDropsOdd ==
  /\ call = "pairs" /\ i + 1 >= Len(nodes) /\ il > 0
  /\ nodes' = new_nodes /\ new_nodes' = << >>
  /\ levels' = WithLevel
  /\ il' = il - 1 /\ i' = 0
  /\ call' = "leaves"
  /\ UNCHANGED <<pool, trees, table, start, walk, born>>

LevelEnd ==
  /\ call = "pairs" /\ i >= Len(nodes) /\ il > 0
  /\ nodes' = new_nodes /\ new_nodes' = << >>
  /\ levels' = WithLevel
  /\ il' = il - 1 /\ i' = 0
  /\ call' = "leaves"
  /\ UNCHANGED <<pool, trees, table, start, walk, born>>

(* The root is the first node of the last level, whatever follows it.      *)
TreeEnd ==
  /\ call = "pairs" /\ i >= Len(nodes) /\ il = 0 /\ new_nodes # << >>
  /\ trees' = Append(trees, [table |-> table, root |-> new_nodes[1]])
  /\ levels' = WithLevel
  /\ call' = "idle"
  /\ UNCHANGED <<pool, table, il, i, nodes, new_nodes, start, walk, born>>

DecodeSymbol(k) ==
  /\ call = "idle"
  /\ k \in 1 .. Len(trees)
  /\ walk' = [tree |-> k, current |-> trees[k].root, bits |-> 0]
  /\ call' = "decode"
  /\ UNCHANGED <<pool, trees, build, born>>

(* One iteration of decode_symbol, which asserts that it is on a branch,   *)
(* and returns when it comes to a leaf.                                    *)
DecodeBit(bit) ==
  /\ call = "decode"
  /\ node(walk.current).kind = "branch"
  /\ LET next == IF bit = 0 THEN node(walk.current).left
                 ELSE node(walk.current).right
     IN  /\ walk' = [walk EXCEPT !.current = next, !.bits = @ + 1]
         /\ call' = IF node(next).kind = "leaf" THEN "idle" ELSE "decode"
  /\ UNCHANGED <<pool, trees, build, born>>

BuildNext == LeafStep \/ LeavesEnd \/ PairStep \/ AtThrows \/ LevelEnd \/ TreeEnd

Next ==
  \/ \E t \in Tables : NewCodeTree(t)
  \/ BuildNext
  \/ \E k \in 1..MaxTrees : DecodeSymbol(k)
  \/ \E bit \in {0, 1} : DecodeBit(bit)

Spec == Init /\ [][Next]_vars
-----------------------------------------------------------------------------
Node == [kind : {"leaf", "branch"}, value : Nat, left : Nat, right : Nat]

TypeOK ==
  /\ pool \in Seq(Node)
  /\ trees \in Seq([table : Tables, root : Nat])
  /\ call \in {"idle", "leaves", "pairs", "decode", "threw"}
  /\ il \in 0..MaxLength /\ i \in Nat
  /\ nodes \in Seq(Nat) /\ new_nodes \in Seq(Nat)
  /\ walk \in [tree : Nat, current : Nat, bits : Nat]
  /\ born \in Seq([tree : Nat, level : 0..MaxLength])
  /\ levels \in Seq([0 .. MaxLength + 1 -> Seq(Nat)])
  /\ start \in Nat
  /\ call \in {"leaves", "pairs"} => table \in Tables

(* An index is never cut off by the 16 bits that hold it (huff.hh:34-44):  *)
(* a tree has fewer branches than leaves and at most a leaf per symbol.    *)
IndicesFit == Len(pool) <= IndexSize

(* A branch comes after its children in the pool, and they are of its own  *)
(* tree, though several trees are built in one pool (zip_inl.hh:36,        *)
(* 163-193).  A walk therefore ends.                                       *)
ChildrenPrecede ==
  \A n \in 1 .. Len(pool) :
    pool[n].kind = "branch" =>
      \A child \in {pool[n].left, pool[n].right} :
        /\ child + 1 < n
        /\ born[child + 1].tree = born[n].tree

(* decode_symbol asserts that the root is a branch (zip_inl.hh:110), and   *)
(* none of its walks comes to a place where it would assert in vain.       *)
RootsAreBranches ==
  /\ \A k \in 1 .. Len(trees) : node(trees[k].root).kind = "branch"
  /\ call = "decode" => node(walk.current).kind = "branch"

(* decode_symbol reads as many bits as the table gives the symbol it       *)
(* returns (zip_inl.hh:105-119); in every tree that new_code_tree accepts. *)
DecodeReadsLength ==
  call = "idle" /\ walk.tree > 0 =>
    LET t == trees[walk.tree].table
        symbol == node(walk.current).value
    IN  symbol \in DOMAIN t /\ t[symbol] = walk.bits

(* A node never changes once made: a tree outlives the building of the     *)
(* next one in the same pool, and the vector's growth.                     *)
PoolAppendOnly == [][\A n \in 1 .. Len(pool) : pool'[n] = pool[n]]_vars

(* What the rest of the decoder takes for granted of the trees: they can   *)
(* be walked, the walk ends, and it ends with the symbol that was read.    *)
(* Several trees share the pool, and its 16-bit indices are not checked    *)
(* (huff.cc:28-55, huff.hh:34-44, zip_inl.hh:105-119).                     *)
TreesWellFormed ==
  IndicesFit /\ ChildrenPrecede /\ RootsAreBranches /\ DecodeReadsLength
-----------------------------------------------------------------------------
(* RFC 1951, 3.2.2, as a reference.  The first code of a length is twice   *)
(* the code after the last one a bit shorter, which is all the code space  *)
(* that shorter codes take; the codes of one length follow each other in   *)
(* the order of their symbols.                                             *)
FirstCode(t, length) == IF length = 0 THEN 0 ELSE 2 * CodeSpace(t, length - 1)

Rank(t, s) == Cardinality({r \in DOMAIN t : t[r] = t[s] /\ r < s})

CodeOf(t, s) == FirstCode(t, t[s]) + Rank(t, s)

(* Where the walk from a root along the bits of a code leads, the most     *)
(* significant bit first.                                                  *)
WalkOf(root, code, length) ==
  LET met[l \in 0..length] ==
        [c \in Nat |-> IF l = 0 THEN root
                       ELSE IF c % 2 = 0 THEN node(met[l - 1][c \div 2]).left
                       ELSE node(met[l - 1][c \div 2]).right]
  IN  met[length][code]

(* A tree whose codes fill the code space is the code of RFC 1951: every   *)
(* code leads to its symbol's leaf (huff.cc:36-55).                        *)
CanonicalCode ==
  \A k \in 1 .. Len(trees) :
    LET t == trees[k].table
    IN  FullCodeSpace(t, MaxLength) =>
          \A s \in {s \in DOMAIN t : t[s] > 0} :
            node(WalkOf(trees[k].root, CodeOf(t, s), t[s])) = Leaf(s)

(* new_code_tree returns a tree for a table whose codes fill the code      *)
(* space a whole number of times, at least once, and throws for any other: *)
(* also for the single code of length one that RFC 1951, 3.2.7, allows.    *)
AcceptsWholeCodes ==
  /\ \A k \in 1 .. Len(trees) : WholeCodeSpace(trees[k].table, MaxLength)
  /\ call = "threw" => ~WholeCodeSpace(table, MaxLength)
-----------------------------------------------------------------------------
(* What the properties rest on.  Every node was made for its level: a leaf *)
(* for the length its symbol has in the table, a branch with two children  *)
(* one level below.                                                        *)
TableOf(k) == IF k <= Len(trees) THEN trees[k].table ELSE table

MadeFor(index, tree, level) ==
  /\ index < Len(pool)
  /\ born[index + 1] = [tree |-> tree, level |-> level]

LeafValid(n) ==
  LET t == TableOf(born[n].tree)
  IN  /\ pool[n].value \in DOMAIN t
      /\ t[pool[n].value] = born[n].level
      /\ born[n].level > 0

BranchValid(n) ==
  \A child \in {pool[n].left, pool[n].right} :
    /\ child + 1 < n
    /\ born[child + 1] = [tree |-> born[n].tree, level |-> born[n].level + 1]

PoolValid ==
  /\ Len(born) = Len(pool)
  /\ \A n \in 1 .. Len(pool) :
       /\ born[n].tree \in 1 .. Len(trees) + 1
       /\ call \notin {"leaves", "pairs", "threw"} => born[n].tree <= Len(trees)
       /\ pool[n].kind = "leaf" => LeafValid(n)
       /\ pool[n].kind = "branch" => BranchValid(n)
  /\ \A k \in 1 .. Len(trees) : MadeFor(trees[k].root, k, 0)

Building == call \in {"leaves", "pairs"}

BuildValid ==
  Building =>
    /\ \A n \in 1 .. Len(nodes) : MadeFor(nodes[n], Len(trees) + 1, il + 1)
    /\ \A n \in 1 .. Len(new_nodes) : MadeFor(new_nodes[n], Len(trees) + 1, il)

WalkValid ==
  /\ call = "decode" => walk.tree > 0
  /\ walk.tree > 0 =>
       /\ walk.tree <= Len(trees)
       /\ MadeFor(walk.current, walk.tree, walk.bits)
       /\ call # "decode" => node(walk.current).kind = "leaf"
       /\ call = "decode" => node(walk.current).kind = "branch"

(* The symbols that have a leaf already, and the nodes that are no one's   *)
(* child yet.  Each leaf adds one to these, each branch takes one away.    *)
Seen ==
  {s \in DOMAIN table :
     /\ table[s] > 0
     /\ \/ table[s] > il
        \/ table[s] = il /\ (call = "pairs" \/ s < i)}

Loose == Len(new_nodes) + (IF call = "pairs" THEN Len(nodes) - i ELSE Len(nodes))

(* The trees that have nodes, and what those of k trees take at the most.  *)
Begun == IF Building \/ call = "threw" THEN Len(trees) + 1 ELSE Len(trees)

Most(k) == 2 * TableSize * k

SizeValid ==
  /\ Begun <= MaxTrees
  /\ start <= Most(Len(trees))
  /\ ~Building => Len(pool) <= Most(Begun)
  /\ Building => Len(pool) + Loose = start + 2 * Cardinality(Seen)
  /\ call = "pairs" => i <= Len(nodes)

IInv ==
  /\ TypeOK
  /\ PoolValid
  /\ BuildValid
  /\ WalkValid
  /\ SizeValid
-----------------------------------------------------------------------------
(* What the acceptance of tables rests on.  The nodes of a level are its   *)
(* leaves and half of the nodes below; and what the codes of the levels    *)
(* still to come take, with the nodes that are there for them to join, is  *)
(* the code space of the whole table.                                      *)
LeavesOf(t, level) == IF level = 0 THEN 0 ELSE CountOf(t, level)

FillValid ==
  /\ call = "leaves" =>
       Len(new_nodes) =
         Cardinality({s \in DOMAIN table : il > 0 /\ table[s] = il /\ s < i})
  /\ call = "pairs" => 2 * Len(new_nodes) = 2 * LeavesOf(table, il) + i
  /\ Building =>
       2 * CodeSpace(table, MaxLength) =
         (2 * CodeSpace(table, il) + Len(nodes)) * AllSpace(MaxLength - il)

FillInv ==
  /\ FillValid
  /\ AcceptsWholeCodes
-----------------------------------------------------------------------------
(* What the codes rest on.  The nodes of a level are the leaves of its     *)
(* symbols, in the order of symbols, and after them a branch for every two *)
(* nodes of the level below, in their order; and the root of a tree whose  *)
(* codes fill the code space has no node beside it.                        *)
LeavesPlaced(t, level, row, upto) ==
  \A s \in DOMAIN t :
    level > 0 /\ t[s] = level /\ s < upto =>
      Rank(t, s) < Len(row) /\ node(row[Rank(t, s) + 1]) = Leaf(s)

PairsPlaced(t, level, row, below, upto) ==
  \A q \in 0 .. Len(below) :
    2 * q < upto =>
      /\ 2 * q + 1 < Len(below) /\ LeavesOf(t, level) + q < Len(row)
      /\ node(row[LeavesOf(t, level) + q + 1])
           = Branch(below[2 * q + 1], below[2 * q + 2])

LevelMade(t, level, row, below) ==
  /\ \A p \in 1 .. Len(row) : row[p] < Len(pool)
  /\ 2 * Len(row) = 2 * LeavesOf(t, level) + Len(below)
  /\ LeavesPlaced(t, level, row, Size(t))
  /\ PairsPlaced(t, level, row, below, Len(below))

(* The level a tree has come to.                                           *)
Reached(k) == IF k <= Len(trees) THEN 0 ELSE il + 1

LevelsValid ==
  /\ Len(levels) = Begun
  /\ \A k \in 1..Begun :
       /\ levels[k][MaxLength + 1] = << >>
       /\ \A l \in Reached(k)..MaxLength :
            LevelMade(TableOf(k), l, levels[k][l], levels[k][l + 1])

LevelBegun ==
  Building =>
    /\ nodes = levels[Len(trees) + 1][il + 1]
    /\ LeavesPlaced(table, il, new_nodes, IF call = "leaves" THEN i ELSE Size(table))
    /\ call = "pairs" => PairsPlaced(table, il, new_nodes, nodes, i)

RootsValid ==
  \A k \in 1 .. Len(trees) :
    /\ trees[k].root = levels[k][0][1]
    /\ FullCodeSpace(trees[k].table, MaxLength) => Len(levels[k][0]) = 1

CodeInv ==
  /\ LevelsValid
  /\ LevelBegun
  /\ RootsValid
=============================================================================
