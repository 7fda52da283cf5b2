------------------------------ MODULE FatFiles ------------------------------
(***************************************************************************)
(* The table of open files (sw/src/fat.c, stdio.c) and the programs that   *)
(* share it: exec, bload, install and catalog (cli.c).                     *)
(*                                                                         *)
(* init runs the script HELLO.  Whenever it yields, a command may be typed *)
(* and runs on top of it, until that one returns; no third program starts, *)
(* since the terminal's task is then active.  A step runs from one yield   *)
(* to the next.  What a line of a script says is left open: any command.   *)
(*                                                                         *)
(* A directory stream is the head and the tail of a FILE, seen as the two  *)
(* pointers this_d and next_d.                                             *)
(***************************************************************************)
EXTENDS Fat

CONSTANTS
  Images,      \* what the flash may hold
  Paths, Hello,  \* path names, and that of the script that init runs
  Counts       \* sizes, in cells, that bload is asked for

\* The numbers of a volume are none below zero; no cluster is missing from the
\* table that the boot sector says there are.
ASSUME FilesAssumption ==
  /\ Counts \subseteq Nat
  /\ \A i \in Images :
       /\ {i.boot.num_fats, i.boot.sectors_per_fat, i.boot.max_root_dir_ent,
           i.boot.num_sectors} \subseteq Nat
       /\ \A c \in 2..mount(i.boot).n_fatent - 1 : i.fat[c] \in Nat
       /\ \A a \in DOMAIN i.cell : i.cell[a].first_cluster \in Nat

\* A directory is read from the image: that holds the clusters and the root
\* directory of which its boot sector tells, and there is room for an entry.
ASSUME DirectoryAssumption ==
  /\ WILD # NUL
  /\ \A i \in Images :
       LET volume == mount(i.boot)
       IN  /\ IsFiniteSet(DOMAIN i.cell)
           /\ \A a \in DOMAIN i.cell : a \in Nat /\ a >= Base
           /\ volume # NotMounted =>
                /\ i.boot.max_root_dir_ent > 0
                /\ volume.p_rootdir..volume.p_ino + 2 * SectorSize - 1 \subseteq DOMAIN i.cell
                /\ \A c \in 2..volume.n_fatent - 1, n \in 0..SectorSize - 1 :
                     volume.p_ino + c * SectorSize + n \in DOMAIN i.cell

VARIABLES
  lookup,      \* what finddirent returns for each path; it never changes
  file,        \* the FILEs behind stdin, stdout and stderr
  scripts,     \* per program, the FILEs of the scripts that it is executing
  pc,          \* per program, what it does next
  job,         \* per program, the catalog or the installation under way
  ram,         \* what the step before has loaded
  place        \* history: lines taken from a FILE since it was opened

vars == <<image, g_filesystem, lookup, file, scripts, pc, job, ram, place>>

FOPEN_MAX == 6
Fileno == 3..FOPEN_MAX - 1
Program == {"init", "tty"}
NoFile == FOPEN_MAX
NoJob == [f |-> NoFile]
Nothing == [path |-> <<>>, cells |-> <<>>, count |-> 0]
EOF == -1

Unused ==
  [device |-> "none", minor |-> NULL, loc |-> 0, buffer |-> NULL,
   head |-> 0, tail |-> 0]

Init ==
  /\ image \in Images
  /\ g_filesystem = mount(image.boot)
  /\ lookup = [path \in Paths |-> finddirent(path)]
  /\ file = [n \in Fileno |-> Unused]
  /\ scripts = [p \in Program |-> <<>>]
  /\ pc = [p \in Program |-> IF p = "init" THEN "start" ELSE "idle"]
  /\ job = [p \in Program |-> NoJob]
  /\ ram = Nothing
  /\ place = [n \in Fileno |-> 0]

----------------------------------------------------------------------------
(* fopen, fclose, opendir *)

IsFree(n) == file[n].device = "none"
InUse == {n \in Fileno : ~IsFree(n)}

LowestOf(S) == IF S = {} THEN NoFile ELSE CHOOSE n \in S : \A k \in S : n <= k

\* Mutant: takes any FILE.
fopen_slot_First == 3

fopen_slot == LowestOf(Fileno \ InUse)

\* The FILE that a directory stream is put into is one in use.
opendir_slot == LowestOf(InUse)

IsFile(ent) == ent > NULL /\ Cell(ent).attributes \cap {"directory", "volume"} = {}

CanOpen(path) == IsFile(lookup[path]) /\ fopen_slot # NoFile

Opened(ent) ==
  LET cluster == Cell(ent).first_cluster
  IN  [device |-> "flash", minor |-> ent, loc |-> cluster,
       buffer |-> lookup_fat(cluster), head |-> 0, tail |-> SectorSize]

Directory(n, dir) == [file[n] EXCEPT !.head = dir.this_d, !.tail = dir.next_d]

StreamOf(n) == [this_d |-> file[n].head, next_d |-> file[n].tail]

----------------------------------------------------------------------------
(* read *)

Cells(f, n) == [i \in 1..n |-> f.buffer + f.head + i - 1]

Least(a, b) == IF a < b THEN a ELSE b

\* Fill the buffer with the next cluster, if there is one.
\* Mutant: the cluster that is in the buffer is not remembered.
NextBuffer_Stays(f) ==
  LET cluster == next_cluster(f.loc)
  IN  [f EXCEPT !.buffer = lookup_fat(cluster), !.head = 0, !.tail = SectorSize]

NextBuffer(f) ==
  LET cluster == next_cluster(f.loc)
  IN  [f EXCEPT !.loc = cluster, !.buffer = lookup_fat(cluster),
                !.head = 0, !.tail = SectorSize]

Rounds(count) == (count \div SectorSize) + 2

\* The loop of read: the FILE and what was copied after k clusters.  Memory
\* without a cluster number behind it ends as a file does; so does a bad one,
\* but for the result, which no caller looks at.
read(f, count) ==
  LET loop[k \in 0..Rounds(count)] ==
        IF k = 0 THEN [f |-> f, cells |-> <<>>, more |-> TRUE]
        ELSE LET s == loop[k - 1]
                 n == Least(s.f.tail - s.f.head, count - Len(s.cells))
                 copied == [s.f EXCEPT !.head = @ + n]
             IN  IF ~s.more \/ Len(s.cells) = count THEN s
                 ELSE [cells |-> s.cells \o Cells(s.f, n),
                       more |-> Valid(next_cluster(s.f.loc)),
                       f |-> IF Len(s.cells) + n < count /\ Valid(next_cluster(s.f.loc))
                             THEN NextBuffer(copied) ELSE copied]
  IN  loop[Rounds(count)]

----------------------------------------------------------------------------
(* Programs *)

\* The typed command runs on top of the one that init is at.
Runs(p) == p = "tty" \/ pc["tty"] = "idle"

\* A command is started by the line of a script or, on the terminal, typed.
Starts(p) ==
  /\ Runs(p)
  /\ \/ pc[p] = "command"
     \/ p = "tty" /\ pc[p] = "idle" /\ pc["init"] # "start"

\* Where a program goes on when its command has returned.
Back(p, stack) == IF stack # <<>> THEN "line" ELSE "idle"

Return(p) == pc' = [pc EXCEPT ![p] = Back(p, scripts[p])]

Unchanged == UNCHANGED <<image, g_filesystem, lookup>> /\ ram' = Nothing

\* fgetc from a FILE of the flash.
fgetc(f) == IF f.head = f.tail THEN EOF ELSE f.buffer + f.head
Taken(f) ==
  IF f.head = f.tail THEN f
  ELSE [f EXCEPT !.head = IF @ >= SectorSize THEN 0 ELSE @ + 1]

\* exec reads a line of the script in f, that is FILE n; stack are the scripts
\* under way.  An empty line ends the script; its FILE stays open.  At the end
\* of the buffer the line is one that no command is called, for ever.
NextLine(p, n, f, stack) ==
  LET ends == fgetc(f) # EOF /\ Cell(fgetc(f)).filename = NUL
      after == IF ends THEN SubSeq(stack, 1, Len(stack) - 1) ELSE stack
  IN  /\ scripts' = [scripts EXCEPT ![p] = after]
      /\ file' = [file EXCEPT ![n] = Taken(f)]
      /\ pc' = [pc EXCEPT ![p] = IF ends THEN Back(p, after)
                                 ELSE IF fgetc(f) = EOF THEN "unknown" ELSE "command"]

exec(p, path) ==
  /\ IF CanOpen(path)
     THEN /\ NextLine(p, fopen_slot, Opened(lookup[path]), Append(scripts[p], fopen_slot))
          /\ place' = [place EXCEPT ![fopen_slot] = 1]
     ELSE Return(p) /\ UNCHANGED <<file, scripts, place>>
  /\ Unchanged /\ UNCHANGED job

init_exec ==
  /\ pc["init"] = "start"
  /\ exec("init", Hello)

cli_exec(p) ==
  /\ Starts(p)
  /\ \E path \in Paths : lookup[path] # Endless /\ exec(p, path)

next_line(p) ==
  /\ Runs(p) /\ pc[p] = "line"
  /\ LET n == scripts[p][Len(scripts[p])]
     IN  NextLine(p, n, file[n], scripts[p]) /\ place' = [place EXCEPT ![n] = Least(@ + 1, SectorSize + 2)]
  /\ Unchanged /\ UNCHANGED job

\* Any command that leaves the files alone, or is none.
other_command(p) ==
  /\ Runs(p) /\ pc[p] \in {"command", "unknown"}
  /\ Return(p)
  /\ Unchanged /\ UNCHANGED <<file, scripts, job, place>>

cli_bload(p) ==
  /\ Starts(p)
  /\ \E path \in Paths, count \in Counts :
       /\ CanOpen(path)
       /\ LET r == read(Opened(lookup[path]), count)
          IN  /\ ram' = [path |-> path, count |-> count, cells |-> r.cells]
              /\ file' = [file EXCEPT ![fopen_slot] = Unused]
  /\ Return(p)
  /\ UNCHANGED <<image, g_filesystem, lookup, scripts, job, place>>

----------------------------------------------------------------------------
(* catalog *)

IsShown(a) == AtEnd(a) \/ ~IsVolume(a)

\* Entries are passed over up to one that is printed, and the program yields;
\* or the directory ends.
List(p, n, dir, shown) ==
  LET at == walk(dir)
      a == at[First(IsShown, at)]
  IN  /\ file' = [file EXCEPT ![n] = Directory(n, [dir EXCEPT !.next_d = advance(dir.this_d)[a]])]
      /\ IF AtEnd(a)
         THEN job' = [job EXCEPT ![p] = NoJob] /\ Return(p)
         ELSE /\ job' = [job EXCEPT ![p] = [f |-> n, shown |-> IF p = "tty" THEN Append(shown, a) ELSE <<>>]]
              /\ pc' = [pc EXCEPT ![p] = "catalog"]

\* Not without a file system or a FILE in use.
cli_catalog(p) ==
  /\ Starts(p) /\ g_filesystem # NotMounted /\ opendir_slot # NoFile
  /\ List(p, opendir_slot, _opendir(g_filesystem.p_volume), <<>>)
  /\ Unchanged /\ UNCHANGED <<scripts, place>>

catalog_goes_on(p) ==
  /\ Runs(p) /\ pc[p] = "catalog"
  /\ List(p, job[p].f, StreamOf(job[p].f), job[p].shown)
  /\ Unchanged /\ UNCHANGED <<scripts, place>>

----------------------------------------------------------------------------
(* install *)

InstallSectors == 2   \* bound: 3 in the source

\* A sector is read and written to the flash, and the program waits for that.
\* The result of read is not looked at.
install_sector(p, n, f, src, left) ==
  LET r == read(f, SectorSize)
  IN  /\ file' = [file EXCEPT ![n] = r.f]
      /\ job' = [job EXCEPT ![p] = [f |-> n, src |-> r.cells, read |-> src \o r.cells, left |-> left]]
      /\ pc' = [pc EXCEPT ![p] = "install"]

cli_install(p) ==
  /\ Starts(p)
  /\ \E path \in Paths :
       /\ CanOpen(path)
       /\ install_sector(p, fopen_slot, Opened(lookup[path]), <<>>, InstallSectors - 1)
  /\ Unchanged /\ UNCHANGED <<scripts, place>>

install_goes_on(p) ==
  /\ Runs(p) /\ pc[p] = "install" /\ job[p].left > 0
  /\ install_sector(p, job[p].f, file[job[p].f], job[p].read, job[p].left - 1)
  /\ Unchanged /\ UNCHANGED <<scripts, place>>

\* Mutant: the FILE is not closed.
install_ends_Open(p) ==
  /\ Runs(p) /\ pc[p] = "install" /\ job[p].left = 0
  /\ job' = [job EXCEPT ![p] = NoJob]
  /\ Return(p)
  /\ Unchanged /\ UNCHANGED <<file, scripts, place>>

install_ends(p) ==
  /\ Runs(p) /\ pc[p] = "install" /\ job[p].left = 0
  /\ file' = [file EXCEPT ![job[p].f] = Unused]
  /\ job' = [job EXCEPT ![p] = NoJob]
  /\ Return(p)
  /\ Unchanged /\ UNCHANGED <<scripts, place>>

Step(p) ==
  \/ cli_exec(p) \/ next_line(p) \/ other_command(p) \/ cli_bload(p)
  \/ cli_catalog(p) \/ catalog_goes_on(p)
  \/ cli_install(p) \/ install_goes_on(p) \/ install_ends(p)

Next == init_exec \/ \E p \in Program : Step(p)

Spec == Init /\ [][Next]_vars

----------------------------------------------------------------------------
(* Properties *)

\* What a path names, from the cells of the root directory and of a directory
\* of one cluster: the only entry with such a name before the end.
CellsFrom(a, n) ==
  {b \in a..a + n - 1 : \A c \in a..b : Cell(c).filename # NUL}
Named(cells, pattern) ==
  LET S == {a \in cells : Cell(a).filename \in pattern /\ "volume" \notin Cell(a).attributes}
  IN  IF Cardinality(S) = 1 THEN CHOOSE a \in S : TRUE ELSE NULL
InRoot(pattern) == Named(CellsFrom(g_filesystem.p_rootdir, image.boot.max_root_dir_ent), pattern)
InDirectory(ent, pattern) ==
  Named(CellsFrom(lookup_fat(Cell(ent).first_cluster), SectorSize), pattern)

\* finddirent finds the entry that the names lead to, however the clusters are
\* chained, if the directory ends in its first cluster.  (Behind it, readdir
\* follows the wrong chain: see the README.)
LookupAgrees ==
  pc["init"] = "start" /\ g_filesystem # NotMounted =>
    \A path \in Paths :
      \/ Len(path) = 1 /\ lookup[path] = InRoot(path[1])
      \/ /\ Len(path) = 2
         /\ LET d == InRoot(path[1])
            IN  IF d = NULL \/ "directory" \notin Cell(d).attributes
                THEN lookup[path] = NULL
                ELSE \/ Cardinality(CellsFrom(lookup_fat(Cell(d).first_cluster), SectorSize)) = SectorSize
                     \/ lookup[path] = InDirectory(d, path[2])

\* The cells of a file in the order of its chain.
Content(ent, n) ==
  LET chain[k \in 0..n] == IF k = 0 THEN Cell(ent).first_cluster ELSE next_cluster(chain[k - 1])
      clusters == {k \in 0..n : \A i \in 0..k : Valid(chain[i])}
  IN  [i \in 1..Least(n, Cardinality(clusters) * SectorSize)
         |-> lookup_fat(chain[(i - 1) \div SectorSize]) + ((i - 1) % SectorSize)]

\* What bload leaves in memory is the beginning of the file, cut at the size
\* that was asked for or at the end of the chain, if the file has a cluster.
FileIsLoaded ==
  ram.count > 0 /\ Valid(Cell(lookup[ram.path]).first_cluster) =>
    ram.cells = Content(lookup[ram.path], ram.count)

\* The sectors that install reads, with other programs running in between, are
\* the file's: nothing takes its FILE away, not even a catalog.
FileIsInstalled ==
  \A p \in Program : pc[p] = "install" /\ Valid(Cell(file[job[p].f].minor).first_cluster) =>
    job[p].read = Content(file[job[p].f].minor, (InstallSectors - job[p].left) * SectorSize)

\* The only FILEs that stay in use are those of the scripts that were executed,
\* so nothing else that is done can exhaust the table.
OnlyScriptsStayOpen ==
  \A n \in Fileno : ~IsFree(n) =>
    place[n] > 0 \/ \E p \in Program : pc[p] = "install" /\ job[p].f = n

\* A typed catalog shows every entry of the root directory that is no label,
\* once and in order, whatever else is open.
TypedListingComplete ==
  [][ pc["tty"] = "catalog" /\ pc'["tty"] # "catalog" =>
        LET root == CellsFrom(g_filesystem.p_rootdir, image.boot.max_root_dir_ent)
            labels == {a \in root : "volume" \in Cell(a).attributes}
        IN  /\ {job["tty"].shown[i] : i \in DOMAIN job["tty"].shown} = root \ labels
            /\ \A i \in 2..Len(job["tty"].shown) :
                 job["tty"].shown[i - 1] < job["tty"].shown[i] ]_vars

\* A script is executed line by line.
ScriptInOrder ==
  [][ \A p \in Program, n \in Fileno :
        next_line(p) /\ n = scripts[p][Len(scripts[p])] /\ place[n] < SectorSize =>
          /\ file[n].buffer + file[n].head = lookup_fat(Cell(file[n].minor).first_cluster) + place[n]
          /\ file[n].head # file[n].tail ]_vars
=============================================================================
