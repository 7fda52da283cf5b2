------------------------------- MODULE Flash -------------------------------
(***************************************************************************)
(* The SPI flash controller of a2fomu: sw/src/flash.c over sw/src/spi.c.   *)
(*                                                                         *)
(* write_flash and write_flash_unsafe plan an update of one erase sector   *)
(* and return at once; flash_task, called by the scheduler, erases the     *)
(* sector, programs its pages one by one and verifies.  While it works the *)
(* memory-mapped view of the chip is off (bit-bang mode).  A caller learns *)
(* that its transfer is over by repeating the call with the same           *)
(* arguments.                                                              *)
(*                                                                         *)
(* A byte address is a pair (sector, page of the sector): every caller of  *)
(* the code passes page-aligned addresses and sizes.  The content of a     *)
(* page is the set of its bits that are 1, so an erased page is Bits and   *)
(* programming intersects; FirstByteBits are the bits of its first byte.   *)
(***************************************************************************)
EXTENDS Naturals, FiniteSets, FiniteSetsExt

CONSTANTS
  NumSectors,     \* sectors of the chip
  SectorPages,    \* ERASE_SECTOR_SIZE / PROGRAM_PAGE_SIZE
  ChunkPages,     \* FATFS_SECTOR_SIZE / PROGRAM_PAGE_SIZE
  FailsafeEnd,    \* first sector write_flash_unsafe accepts (0x1A000)
  FirstSafe,      \* first sector write_flash accepts (FIRST_SAFE_ADDRESS)
  Bits,           \* the bits of a page the model tells apart
  FirstByteBits,  \* those of them that lie in the page's first byte
  Buffers,        \* the RAM buffers transfers are made from
  Payloads,       \* what a caller may have in a buffer
  Garbage,        \* what a sector may read as while the view is off
  Sizes,          \* the sizes callers ask for, in pages
  WarmRestart,    \* whether reboot() restarts (DEBUG undefined, main.c:62)
  NULL

ASSUME GeometryAssumption ==
  /\ NumSectors \in Nat \ {0}
  /\ SectorPages \in Nat \ {0}
  /\ ChunkPages \in 1..SectorPages
  /\ FailsafeEnd \in 0..NumSectors
  /\ FirstSafe \in FailsafeEnd..NumSectors
  /\ Sizes \subseteq Nat \ {0}
  /\ FirstByteBits \subseteq Bits
  /\ WarmRestart \in BOOLEAN

PageNo == 0..SectorPages - 1
Sector == 0..NumSectors - 1
Content == SUBSET Bits

ASSUME PayloadAssumption ==
  /\ Payloads \subseteq [PageNo -> Content]
  /\ Garbage \subseteq [PageNo -> Content]

VARIABLES
  flash_state,       \* the controller's state
  allow_unsafe,      \* write_flash_unsafe admitted the current transfer
  transfer,          \* flash_src_ptr, flash_dst_addr and flash_update_size
  pages_to_program,  \* the pages of the transfer still to program
  bytes_remaining,   \* flash_bytes_remaining, in pages
  bitbang,           \* lxspi_bitbang_en: the memory-mapped view is off
  mem,               \* what the chip holds
  wip,               \* the chip's operation in progress, or NULL
  ram,               \* what the buffers hold
  planned,           \* history: the pages the transfer set out to program
  origin,            \* history: the entry point that admitted the transfer
  sound              \* history: the transfer was planned from a mapped view
                     \*   and its buffer was left alone since

control == <<flash_state, allow_unsafe, transfer, pages_to_program,
             bytes_remaining, bitbang>>
history == <<planned, origin, sound>>
vars == <<control, mem, wip, ram, history>>

Transfer == [src : Buffers \cup {NULL}, sector : 0..NumSectors,
             page : PageNo, size : Sizes \cup {0}]
NoTransfer == [src |-> NULL, sector |-> 0, page |-> 0, size |-> 0]

Operation ==
  [op : {"erase"}, sector : Sector] \cup
  [op : {"program"}, sector : Sector, page : PageNo, data : Content]

ASSUME NullAssumption == NULL \notin Buffers \cup Operation

Init ==
  /\ flash_state = "USER_MODE"
  /\ allow_unsafe = FALSE
  /\ transfer = NoTransfer
  /\ pages_to_program = {}
  /\ bytes_remaining = 0
  /\ bitbang = FALSE
  /\ mem \in [Sector -> Payloads]
  /\ wip = NULL
  /\ ram \in [Buffers -> Payloads]
  /\ planned = {} /\ origin = "none" /\ sound = FALSE

flash_busy == flash_state # "USER_MODE"

----------------------------------------------------------------------------
(* Planning a transfer *)

\* What a memory-mapped read of a sector returns.  With the bit-bang mode on
\* the bus is not connected to the chip and every read returns something else.
View(s) == IF bitbang THEN Garbage ELSE {mem[s]}

\* Mutant: the address is not compared.
SameTransfer_AnyAddress(t) == transfer.src = t.src /\ transfer.size = t.size
\* flash_src_ptr, flash_dst_addr and flash_update_size identify a transfer.
SameTransfer(t) == transfer = t

OutOfRange(t) == t.sector >= NumSectors \/ t.page + t.size > SectorPages
\* Mutant: the address check is dropped.
Unsafe_Unchecked(t) == FALSE

Unsafe(t) == t.sector < FirstSafe
\* Mutant: off by one.
Failsafe_OffByOne(t) == t.sector + 1 < FailsafeEnd

Failsafe(t) == t.sector < FailsafeEnd

\* Mutant: the operands are swapped.
SetsBits_Swapped(t, view) ==
  \E i \in 0..t.size - 1 : ~(view[t.page + i] \subseteq ram[t.src][i])

\* Some bit has to go from 0 to 1.
SetsBits(t, view) ==
  \E i \in 0..t.size - 1 : ~(ram[t.src][i] \subseteq view[t.page + i])

\* A first chunk of a sector is taken as the announcement of a whole sector.
FirstChunk(t) == t.page = 0 /\ t.size = ChunkPages /\ t.size # SectorPages
RestDirty(t, view) == \E p \in t.size..SectorPages - 1 : view[p] # Bits

NeedsErase(t, view) ==
  SetsBits(t, view) \/ (FirstChunk(t) /\ RestDirty(t, view))

\* Mutant: the check is dropped.
Unerasable_Ignored(t, view) == FALSE

\* "neederase": a later part of a sector cannot be erased on its own.
Unerasable(t, view) ==
  t.size # SectorPages /\ t.page # 0 /\ SetsBits(t, view)

\* The comparison loop advances neither of its pointers, so every page is
\* judged by the first byte of the transfer.
PagesToProgram(t, erase, view) ==
  IF ram[t.src][0] \cap FirstByteBits
     = (IF erase THEN Bits ELSE view[t.page]) \cap FirstByteBits
  THEN {} ELSE 0..t.size - 1

\* Store the parameters and start, unless there is nothing to do.  rc is what
\* the entry point returns: zero (ask again) or the size (done).
Start(t, erase, view, entry, rc) ==
  LET pages == PagesToProgram(t, erase, view) IN
  /\ transfer' = t
  /\ bytes_remaining' = t.size
  /\ pages_to_program' = pages
  /\ IF erase \/ pages # {}
       THEN /\ flash_state' = IF erase THEN "ERASE_TRACK" ELSE "WRITE_SECTOR"
            /\ bitbang' = TRUE
            /\ rc = "zero"
       ELSE /\ UNCHANGED <<flash_state, bitbang>>
            /\ rc = "size"
  /\ planned' = pages
  /\ origin' = entry
  /\ sound' = ~bitbang
  /\ UNCHANGED <<mem, wip, ram>>

\* int write_flash(int dst, const void *src, int size)
write_flash(t, rc) ==
  \/ /\ SameTransfer(t)
     /\ rc = IF flash_busy THEN "zero" ELSE "size"
     /\ UNCHANGED vars
  \/ /\ ~SameTransfer(t) /\ flash_busy
     /\ rc = "zero"
     /\ UNCHANGED vars
  \/ /\ ~SameTransfer(t) /\ ~flash_busy
     /\ Unsafe(t) \/ OutOfRange(t)
     /\ rc = "size"                      \* NOT_WRITTEN_RC
     /\ UNCHANGED vars
  \/ /\ ~SameTransfer(t) /\ ~flash_busy
     /\ ~Unsafe(t) /\ ~OutOfRange(t)
     /\ \E scan, view \in View(t.sector) :
          IF Unerasable(t, scan)
            THEN rc = "size" /\ UNCHANGED vars
            ELSE /\ Start(t, NeedsErase(t, scan), view, "write_flash", rc)
                 /\ UNCHANGED allow_unsafe

\* int write_flash_unsafe(int dst, const void *src, int size)
write_flash_unsafe(t, rc) ==
  \/ /\ flash_busy
     /\ rc = "zero"
     /\ UNCHANGED vars
  \/ /\ ~flash_busy
     /\ OutOfRange(t) \/ Failsafe(t)
     /\ rc = "size"
     /\ UNCHANGED vars
  \/ /\ ~flash_busy
     /\ ~OutOfRange(t) /\ ~Failsafe(t)
     /\ \E scan, view \in View(t.sector) :
          Start(t, SetsBits(t, scan), view, "write_flash_unsafe", rc)
     /\ allow_unsafe' = TRUE

----------------------------------------------------------------------------
(* flash_task, one action per state *)

\* Mutant: the status register is not read.
spiIsBusy_NotAsked == FALSE

spiIsBusy == wip # NULL

\* "Security check that should never happen."
Forbidden == transfer.sector < FirstSafe /\ ~allow_unsafe

flash_erase ==
  /\ flash_state = "ERASE_TRACK"
  /\ ~spiIsBusy
  /\ ~Forbidden
  /\ wip' = [op |-> "erase", sector |-> transfer.sector]
  /\ flash_state' = "WRITE_SECTOR"
  /\ UNCHANGED <<allow_unsafe, transfer, pages_to_program, bytes_remaining,
                 bitbang, mem, ram, history>>

flash_program ==
  /\ flash_state = "WRITE_SECTOR"
  /\ ~spiIsBusy
  /\ ~Forbidden
  /\ pages_to_program # {}
  /\ LET i == Min(pages_to_program) IN
       /\ pages_to_program' = pages_to_program \ {i}
       /\ wip' = [op |-> "program", sector |-> transfer.sector,
                  page |-> transfer.page + i, data |-> ram[transfer.src][i]]
  /\ bytes_remaining' = bytes_remaining - 1
  /\ IF bytes_remaining' = 0
       THEN flash_state' = "VERIFY_TRACK" /\ allow_unsafe' = FALSE
       ELSE UNCHANGED <<flash_state, allow_unsafe>>
  /\ UNCHANGED <<transfer, bitbang, mem, ram, history>>

\* Mutant: an empty mask is not looked for.
flash_abandon_ForbiddenOnly ==
  /\ flash_state \in {"ERASE_TRACK", "WRITE_SECTOR"}
  /\ ~spiIsBusy
  /\ Forbidden
  /\ flash_state' = "VERIFY_TRACK"
  /\ UNCHANGED <<allow_unsafe, transfer, pages_to_program, bytes_remaining,
                 bitbang, mem, wip, ram, history>>

\* The mask runs out before the bytes do, or the security check stops the
\* transfer.
flash_abandon ==
  /\ flash_state \in {"ERASE_TRACK", "WRITE_SECTOR"}
  /\ ~spiIsBusy
  /\ Forbidden \/ (flash_state = "WRITE_SECTOR" /\ pages_to_program = {})
  /\ flash_state' = "VERIFY_TRACK"
  /\ UNCHANGED <<allow_unsafe, transfer, pages_to_program, bytes_remaining,
                 bitbang, mem, wip, ram, history>>

\* A mismatch is logged and changes nothing.
flash_verify ==
  /\ flash_state = "VERIFY_TRACK"
  /\ ~spiIsBusy
  /\ bitbang' = FALSE
  /\ flash_state' = "USER_MODE"
  /\ UNCHANGED <<allow_unsafe, transfer, pages_to_program, bytes_remaining,
                 mem, wip, ram, history>>

flash_task ==
  \/ flash_erase
  \/ flash_program
  \/ flash_abandon
  \/ flash_verify

----------------------------------------------------------------------------
(* The chip, the callers' buffers, and the restart after a crash *)

\* What the chip holds once the operation in progress is over.
Settled ==
  IF wip = NULL THEN mem
  ELSE IF wip.op = "erase"
    THEN [mem EXCEPT ![wip.sector] = [p \in PageNo |-> Bits]]
    ELSE [mem EXCEPT ![wip.sector][wip.page] = @ \cap wip.data]

chip_done ==
  /\ wip # NULL
  /\ mem' = Settled
  /\ wip' = NULL
  /\ UNCHANGED <<control, ram, history>>

\* A caller loads a buffer.  The USB host can do so at any time: a bus reset
\* abandons the command whose data the controller is programming.
fill(b, data) ==
  /\ ram' = [ram EXCEPT ![b] = data]
  /\ sound' = (sound /\ ~(flash_busy /\ transfer.src = b))
  /\ UNCHANGED <<control, mem, wip, planned, origin>>

\* Mutant: the view is switched on whatever the chip is doing.
restart_MapsAtOnce ==
  /\ WarmRestart
  /\ flash_state' = "USER_MODE"
  /\ allow_unsafe' = FALSE
  /\ transfer' = NoTransfer
  /\ pages_to_program' = {}
  /\ bytes_remaining' = 0
  /\ bitbang' = FALSE
  /\ planned' = {} /\ origin' = "none" /\ sound' = FALSE
  /\ UNCHANGED <<mem, wip, ram>>

\* reboot() of main.c: crt0 clears the C variables; the bit-bang register,
\* the chip and the operation it is busy with are not reset, and flash_init
\* has no caller.
restart ==
  /\ WarmRestart
  /\ flash_state' = "USER_MODE"
  /\ allow_unsafe' = FALSE
  /\ transfer' = NoTransfer
  /\ pages_to_program' = {}
  /\ bytes_remaining' = 0
  /\ planned' = {} /\ origin' = "none" /\ sound' = FALSE
  /\ UNCHANGED <<bitbang, mem, wip, ram>>

----------------------------------------------------------------------------
Request == [src : Buffers, sector : 0..NumSectors, page : PageNo, size : Sizes]

Next ==
  \/ \E t \in Request, rc \in {"zero", "size"} :
        write_flash(t, rc) \/ write_flash_unsafe(t, rc)
  \/ flash_task
  \/ chip_done
  \/ \E b \in Buffers, data \in Payloads : fill(b, data)
  \/ restart

Spec == Init /\ [][Next]_vars

Fairness == WF_vars(flash_task) /\ WF_vars(chip_done)
FairSpec == Spec /\ Fairness
----------------------------------------------------------------------------
(* Properties *)

\* The variables hold values of their types.
TypeOK ==
  /\ flash_state \in {"USER_MODE", "ERASE_TRACK", "WRITE_SECTOR", "VERIFY_TRACK"}
  /\ allow_unsafe \in BOOLEAN
  /\ transfer \in Transfer
  /\ pages_to_program \subseteq PageNo
  /\ bytes_remaining \in Nat
  /\ bitbang \in BOOLEAN
  /\ mem \in [Sector -> [PageNo -> Content]]
  /\ wip \in Operation \cup {NULL}
  /\ ram \in [Buffers -> Payloads]
  /\ planned \subseteq PageNo
  /\ origin \in {"none", "write_flash", "write_flash_unsafe"}
  /\ sound \in BOOLEAN

\* "Security check that should never happen" (flash.c:341): the entry points
\* and the resets of allow_unsafe leave flash_task nothing to refuse, in any
\* order of transfers, acknowledgements and restarts.
NeverForbidden == flash_state \in {"ERASE_TRACK", "WRITE_SECTOR"} => ~Forbidden

\* A command goes out to the chip in this step.
Commands == wip' # NULL /\ wip' # wip

\* The failsafe boot loader survives everything: no step changes a sector
\* below 0x1A000 (the "failsafe" check of write_flash_unsafe, flash.c:265).
LeavesFailsafe == \A s \in Sector : s < FailsafeEnd => mem'[s] = mem[s]
FailsafeUntouched == [][LeavesFailsafe]_vars

\* The sectors below FIRST_SAFE_ADDRESS, whose loss can brick the device, are
\* erased and programmed only for write_flash_unsafe.
ReservedOnlyByUnsafe ==
  [][Commands /\ wip'.sector < FirstSafe => origin = "write_flash_unsafe"]_vars

\* The chip gets a command only when it is idle and only over the bit-bang
\* port (spiIsBusy is asked before every command, a restart included).
CommandsOnlyWhenIdle == [][Commands => wip = NULL /\ bitbang]_vars

\* While the chip is busy the memory-mapped view stays off: nothing the
\* program reads through it can be the answer of a busy chip.
MappedChipIsIdle == ~bitbang => wip = NULL

\* The bit-bang register follows the controller's state, except in what a
\* restart left behind.
ModeAgrees == (flash_busy => bitbang) /\ (bitbang /\ sound => flash_busy)

\* When the controller verifies, every page it set out to program holds the
\* buffer's bits: the decision to erase, the erase and the order of the page
\* programs fit together.
ProgrammedAsPlanned ==
  flash_state = "VERIFY_TRACK" /\ wip = NULL /\ sound =>
    \A i \in planned : mem[transfer.sector][transfer.page + i] = ram[transfer.src][i]

\* write_flash never erases for a later chunk of a sector: the chunks written
\* before it would be lost (the "neederase" check, flash.c:185-190).
EarlierChunksSurvive ==
  [][Commands /\ wip'.op = "erase" /\ origin = "write_flash"
       => transfer.page = 0]_vars

\* A transfer that was started comes to its end.
TransferEnds == flash_busy ~> ~flash_busy

\* "See which pages already have the required information and thus do not need
\* to be programmed" (flash.c:208): a page left out of the mask holds the
\* buffer's bits when the controller verifies.
SkippedPagesAlreadyStored ==
  flash_state = "VERIFY_TRACK" /\ wip = NULL /\ sound =>
    \A i \in (0..transfer.size - 1) \ planned :
       mem[transfer.sector][transfer.page + i] = ram[transfer.src][i]
=============================================================================
