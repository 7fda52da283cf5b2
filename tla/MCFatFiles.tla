----------------------------- MODULE MCFatFiles -----------------------------
(* A volume of three clusters of two cells, with four entries in the root.   *)
EXTENDS FatFiles

CONSTANTS HELLO, B, D   \* names

File(name, cluster) == [filename |-> name, attributes |-> {}, first_cluster |-> cluster]
Dir(name, cluster) == [filename |-> name, attributes |-> {"directory"}, first_cluster |-> cluster]
Label(name) == [filename |-> name, attributes |-> {"volume"}, first_cluster |-> 0]
Free == File(NUL, 0)
Line == File(WILD, 0)

\* The boot sector, one for the table, two for the root: the image starts at 20,
\* its root at 24, cluster 2 at 28.
Boot(ok) ==
  [valid |-> ok, num_fats |-> 1, sectors_per_fat |-> 1, max_root_dir_ent |-> 4,
   num_sectors |-> 7]

CellMap(root, clusters) ==
  [a \in 24..33 |-> IF a < 28 THEN root[a - 23] ELSE clusters[a - 27]]

CellMaps ==
  { CellMap(<<Label(B), File(HELLO, 2), Dir(D, 3), Free>>, <<Line, Line, File(B, 4), Free, Line, Line>>),
    CellMap(<<File(HELLO, 2), Dir(D, 3), File(B, 4), Label(D)>>, <<Line, Free, File(B, 2), File(D, 4), Line, Free>>),
    CellMap(<<File(B, 3), File(HELLO, 0), Label(B), File(B, 2)>>, <<Line, Line, Line, Line, Line, Line>>),
    CellMap(<<File(HELLO, 4), Free, File(B, 2), Free>>, <<Line, Line, Line, Line, Line, Free>>) }

\* One chain, forwards and backwards; single clusters; a chain that ends in a
\* free cluster; a circle.
Fat(c2, c3, c4) == [c \in 2..4 |-> IF c = 2 THEN c2 ELSE IF c = 3 THEN c3 ELSE c4]
Fats == {Fat(3, 4, 4088), Fat(4095, 2, 3), Fat(4088, 4088, 4088), Fat(4, 4088, 0), Fat(3, 2, 2)}

MCImages ==
  [boot : {Boot(TRUE)}, fat : Fats, cell : CellMaps]
    \cup [boot : {Boot(FALSE)}, fat : {[c \in 2..4 |-> 4095]}, cell : CellMaps]

MCPaths == {<<{HELLO}>>, <<{B}>>, <<{B, D}>>, <<{D}, {B}>>, <<{B}, {B}>>}
MCHello == <<{HELLO}>>
=============================================================================
