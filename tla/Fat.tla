-------------------------------- MODULE Fat ---------------------------------
(***************************************************************************)
(* The FAT file system in the mapped flash (sw/src/fat.c): the boot        *)
(* sector, the chain of clusters, directories and path names.              *)
(*                                                                         *)
(* The unit of an address is the size of a directory entry, and a file is  *)
(* cut into cells of that size as well.  A sector is a cluster.            *)
(***************************************************************************)
EXTENDS Integers, Sequences, FiniteSets

CONSTANTS
  SectorSize,    \* cells in a sector
  Base,          \* where the image lies
  NUL,           \* the name of an entry that was never used
  WILD           \* any other content

ASSUME FatAssumption == SectorSize \in Nat \ {0} /\ Base \in Nat /\ Base > SectorSize

VARIABLES
  image,         \* boot sector, allocation table and cells; it never changes
  g_filesystem   \* what mount made of the boot sector

NULL == 0
EOF_MARKS == 4088..4095     \* 0xFF8 and above
Endless == -2               \* a lookup that never returns

\* Memory outside of the image holds no entry that anyone looks for.
Cell(a) ==
  IF a \in DOMAIN image.cell THEN image.cell[a]
  ELSE [filename |-> WILD, attributes |-> {}, first_cluster |-> 0]

NotMounted ==
  [p_volume |-> NULL, p_rootdir |-> NULL, p_ino |-> NULL, n_fatent |-> 0]

\* The tables lie behind the reserved sectors, but the root directory is looked
\* for behind one reserved sector.  p_ino is where a cluster 0 would be.
mount(boot) ==
  LET rootdir == Base + (1 + boot.num_fats * boot.sectors_per_fat) * SectorSize
      ino == rootdir + boot.max_root_dir_ent - 2 * SectorSize
  IN  IF ~boot.valid THEN NotMounted
      ELSE [p_volume |-> Base, p_rootdir |-> rootdir, p_ino |-> ino,
            n_fatent |-> boot.num_sectors - ((ino - Base) \div SectorSize)]

----------------------------------------------------------------------------
(* Clusters *)

Valid(cluster) == cluster >= 2 /\ cluster < g_filesystem.n_fatent

cluster_number(addr) ==
  LET cluster == (addr - g_filesystem.p_ino) \div SectorSize
  IN  IF Valid(cluster) THEN cluster ELSE -1

cluster_offset(addr) == (addr - g_filesystem.p_ino) % SectorSize

lookup_fat(cluster) ==
  IF Valid(cluster) THEN g_filesystem.p_ino + cluster * SectorSize ELSE NULL

next_cluster(cluster) == IF Valid(cluster) THEN image.fat[cluster] ELSE -1

----------------------------------------------------------------------------
(* Directories *)

\* The volume stands for the root directory, which has no entry.
_opendir(ent) ==
  [this_d |-> ent,
   next_d |-> IF ent = g_filesystem.p_volume THEN g_filesystem.p_rootdir
              ELSE lookup_fat(Cell(ent).first_cluster)]

\* Mutant: one sector further.
EndOfRoot_Far == g_filesystem.p_ino + 3 * SectorSize

EndOfRoot == g_filesystem.p_ino + 2 * SectorSize

\* Where readdir goes on from an address.  A subdirectory that leaves its cluster
\* follows the chain of the cluster behind it, where the pointer stands by then.
advance(this_d) ==
  [a \in DOMAIN image.cell \cup {NULL} |->
     LET after == a + 1
     IN  IF a = NULL THEN NULL
         ELSE IF cluster_offset(after) # 0 THEN after
         ELSE IF this_d # g_filesystem.p_volume
              THEN lookup_fat(next_cluster(cluster_number(after)))
         ELSE IF after >= EndOfRoot THEN NULL ELSE after]

\* readdir returns nothing at the end, or at an entry that was never used.
AtEnd(a) == a = NULL \/ Cell(a).filename = NUL
IsVolume(a) == "volume" \in Cell(a).attributes

\* The addresses at which the following calls of readdir find the stream, and
\* the first of some kind.  A stream that has none after so many calls runs in
\* a circle.
Calls == 0..Cardinality(DOMAIN image.cell) + 1

walk(dir) ==
  LET at[n \in Calls] == IF n = 0 THEN dir.next_d ELSE advance(dir.this_d)[at[n - 1]]
  IN  at

First(Kind(_), at) ==
  IF \A n \in Calls : ~Kind(at[n]) THEN Endless
  ELSE CHOOSE n \in Calls : Kind(at[n]) /\ \A k \in 0..n - 1 : ~Kind(at[k])

\* Mutant: volume labels match too.
Matches_Labels(a, pattern) == Cell(a).filename \in pattern

Matches(a, pattern) == ~IsVolume(a) /\ Cell(a).filename \in pattern

\* The only entry whose name the pattern stands for.
scandir(dir, pattern) ==
  LET at == walk(dir)
      end == First(AtEnd, at)
      found == {n \in 0..end - 1 : Matches(at[n], pattern)}
  IN  IF end = Endless THEN Endless
      ELSE IF Cardinality(found) = 1 THEN at[CHOOSE n \in found : TRUE] ELSE NULL

\* A path is a sequence of patterns, each the set of the names it stands for;
\* without any it is the root.
finddirent(path) ==
  LET find[i \in 0..Len(path)] ==
        IF i = 0 THEN g_filesystem.p_volume
        ELSE IF i > 1 /\ (find[i - 1] \in {NULL, Endless}
                          \/ "directory" \notin Cell(find[i - 1]).attributes)
        THEN IF find[i - 1] = Endless THEN Endless ELSE NULL
        ELSE scandir(_opendir(find[i - 1]), path[i])
  IN  find[Len(path)]
=============================================================================
