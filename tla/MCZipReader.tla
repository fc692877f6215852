----------------------------- MODULE MCZipReader -----------------------------
(***************************************************************************)
(* Archives for ZipReader: directories of up to three files with names     *)
(* that differ in case, length and content, archives with one field wrong, *)
(* and archives whose end record stands at every distance from the end.    *)
(***************************************************************************)
EXTENDS ZipReader

(* a, A, b, ab, the empty name, one with a zero in it and one that the     *)
(* buffer cuts.                                                            *)
Names == {<<97>>, <<65>>, <<98>>, <<97, 98>>}
OddNames == {<< >>, <<97, 0>>, <<98, 66, 98, 97, 65>>, <<96>>}

MCPaths == Names \cup OddNames \cup {<<66>>, <<97, 98, 0>>, <<98, 66, 98, 0>>}

File(name) ==
  [sig |-> TRUE, method |-> 8, comp |-> 1, decomp |-> 1, disk |-> 0,
   local |-> 0, skip |-> 1, name |-> name, rest |-> 0]

SumOfSizes(files) ==
  FoldSet(LAMBDA k, s : s + HeaderSize(files[k]), 0, DOMAIN files)

EndOf(files) ==
  [total |-> Len(files), on_disk |-> Len(files), this_disk |-> 0,
   cdir_disk |-> 0, cdir_size |-> SumOfSizes(files), cdir_ofs |-> 1,
   records |-> files]

Zip(e) ==
  [size |-> 1 + e.cdir_size + EndSize,
   ends |-> [o \in {1 + e.cdir_size} |-> e]]

Directories ==
  UNION {[1..k -> Names] : k \in 0..3}
    \cup {<<a, b>> : a \in OddNames, b \in Names}
    \cup [1..7 -> {<<97>>, <<98>>}]

WholeZips ==
  {Zip(EndOf([k \in DOMAIN d |-> File(d[k])])) : d \in Directories}

(* One file that is all right, before one with a field changed.            *)
TwoFiles(f) == <<File(<<98>>), f>>

WrongFiles ==
  LET f == File(<<97>>) IN
  {[f EXCEPT !.sig = FALSE], [f EXCEPT !.comp = 0],
   [f EXCEPT !.method = 0, !.decomp = 2], [f EXCEPT !.disk = 1],
   [f EXCEPT !.disk = 2], [f EXCEPT !.local = 99],
   [f EXCEPT !.comp = 0, !.decomp = 0]}

WrongEnds ==
  LET e == EndOf(TwoFiles(File(<<97>>))) IN
  {EndOf(TwoFiles(f)) : f \in WrongFiles}
    \cup {[e EXCEPT !.on_disk = 1], [e EXCEPT !.this_disk = 1],
          [e EXCEPT !.this_disk = 1, !.cdir_disk = 1],
          [e EXCEPT !.cdir_ofs = 99], [e EXCEPT !.cdir_size = @ - 1],
          [e EXCEPT !.records[1].rest = 1], [e EXCEPT !.records[2].rest = 1],
          [e EXCEPT !.total = 1, !.on_disk = 1],
          [e EXCEPT !.total = 3, !.on_disk = 3, !.cdir_size = 3 * RecordSize]}

(* Archives of every size with an end record at one offset, or at two.     *)
Scanned ==
  LET e == EndOf(<< >>) IN
  {[size |-> s, ends |-> [o \in {a, b} \cap 0 .. s - 4 |-> e]] :
     s \in EndSize - 1 .. 3 * Window, a \in 0 .. 3 * Window,
     b \in {0, 2 * Window}}

MCArchives == WholeZips \cup {Zip(e) : e \in WrongEnds} \cup Scanned
=============================================================================
