----------------------------- MODULE MCCodecCalls -----------------------------
(* All symbols and extra bits; frequencies of five symbols that make trees *)
(* of every shape, with digits of three values for 256, and of six that    *)
(* have a code of five bits; lookups of two bits, so that codes go on past *)
(* them in trees; lists of code lengths of up to three runs (of at most    *)
(* 160 lengths), with a run on each side of every length at which packing  *)
(* changes; and every block of up to MaxItems literals and matches.        *)
EXTENDS CodecCalls

Counted(c) == MapThenSumSet(LAMBDA s : c[s], DOMAIN c) < KeySize

MCCounts ==
  {c \in [0..4 -> {0, 1, 3, 9}] : Counted(c)}
  \cup {c \in [0..5 -> {1, 2, 3, 5, 8}] :
          Counted(c) /\ Cardinality({c[s] : s \in 0..5}) = 5 /\ c[0] > c[3]}

Runs(values, lengths) ==
  {[k \in 1..n |-> v] : v \in values, n \in lengths}

Long == Runs({0, 1, 2}, {1, 6, 7, 10, 11, 138, 139, 149})

Short == Runs({0, 1, 2}, {1, 2, 3, 6, 7, 10})

MCSizeLists ==
  {l \in {a \o b : a, b \in Long} : Len(l) <= 160}
    \cup {a \o b \o c : a, b, c \in Short}

MCItems == {Literal(1), Match(258, 32768)}
=============================================================================
