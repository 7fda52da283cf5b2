---------------------------- MODULE FlashCallers ----------------------------
(***************************************************************************)
(* The flash controller with the two parts of the firmware that write      *)
(* through it, on the cooperative scheduler they share:                    *)
(*                                                                         *)
(*   tud_task  serves the USB drive (msc_flash.c).  The host writes a      *)
(*             block chunk by chunk; TinyUSB calls tud_msc_write10_cb for  *)
(*             a chunk again and again until it returns the size.          *)
(*   tty_task  runs the command line, here cli_install (cli.c), which      *)
(*             copies a file into reserved sectors of the same chip.       *)
(*                                                                         *)
(* A task that calls yield() stays on the C stack while the tasks below    *)
(* run, and goes on when those above it have returned: stack is the        *)
(* sequence of tasks suspended in yield(), innermost last.  flash_task     *)
(* runs from main's loop and from every yield().                           *)
(***************************************************************************)
EXTENDS Flash, Sequences

CONSTANTS
  usb, cache,     \* TinyUSB's sector buffer and track_cache[disk_internal]
  Regions,        \* the first sectors of the regions cli_install writes
  InstallSectors, \* how many sectors it copies
  HostMayAbort    \* whether the host may abandon a command (reset, unplug)

ASSUME CallerAssumption ==
  /\ Buffers = {usb, cache} /\ usb # cache
  /\ Regions \subseteq Sector
  /\ InstallSectors \in Nat
  /\ HostMayAbort \in BOOLEAN
  /\ SectorPages % ChunkPages = 0 /\ ChunkPages < SectorPages
  /\ {ChunkPages, SectorPages} \subseteq Sizes
  /\ \A s \in Regions : s + InstallSectors <= FirstSafe

VARIABLES
  host,      \* the command the host has under way, or NULL
  stack,     \* tasks suspended in yield(), innermost last
  polling,   \* a callback returned 0: tud_task calls it again at once
  install,   \* cli_install: next sector, sectors left, and where it is
  acked,     \* history: what the host was told is stored, page by page
  stale,     \* history: the transfer that write_flash remembers is of a command
             \* that was given up, or was planned with the view off
  spoiled    \* history: the sectors of which such a transfer was the answer for a
             \* chunk (the chunks behind it are refused if it was not erased)

callers == <<host, stack, polling, install, acked, stale, spoiled>>
promises == <<acked, stale, spoiled>>
allVars == <<vars, callers>>

Chunks == SectorPages \div ChunkPages
Drive == FirstSafe..NumSectors - 1
Command ==
  [op : {"read", "write"}, sector : Drive, chunk : 0..Chunks - 1, ready : BOOLEAN]
ASSUME CallerNullAssumption ==
  (\A command \in Command : command # NULL) /\ (\A page \in Content : page # NULL)

Top == stack[Len(stack)]
Suspended(task) == \E i \in DOMAIN stack : stack[i] = task
\* Nothing else runs between two calls of yield().
AtYield == ~polling /\ install.step \in {"none", "wait"}
Pop == stack' = SubSeq(stack, 1, Len(stack) - 1)

NoInstall == [next |-> 0, left |-> 0, step |-> "none"]

CallersInit ==
  /\ host = NULL
  /\ stack = <<>>
  /\ polling = FALSE
  /\ install = NoInstall
  /\ acked = [s \in Drive |-> [p \in PageNo |-> NULL]]
  /\ stale = FALSE /\ spoiled = {}

----------------------------------------------------------------------------
(* The USB host and TinyUSB (external) *)

\* WRITE10 of one block: the host forgets what the block held.
HostWrite(s) ==
  /\ host = NULL
  /\ host' = [op |-> "write", sector |-> s, chunk |-> 0, ready |-> FALSE]
  /\ acked' = [acked EXCEPT ![s] = [p \in PageNo |-> NULL]]
  /\ spoiled' = spoiled \ {s}
  /\ UNCHANGED <<vars, stack, polling, install, stale>>

HostRead(s) ==
  /\ host = NULL
  /\ host' = [op |-> "read", sector |-> s, chunk |-> 0, ready |-> TRUE]
  /\ UNCHANGED <<vars, stack, polling, install, promises>>

\* The chunk's data arrive in the endpoint's buffer.
HostData(data) ==
  /\ host # NULL /\ ~host.ready
  /\ ~Suspended("tud")
  /\ fill(usb, data)
  /\ host' = [host EXCEPT !.ready = TRUE]
  /\ UNCHANGED <<stack, polling, install, promises>>

\* A bus reset or a new connection, handled by tud_task between callbacks.
HostAbort ==
  /\ HostMayAbort
  /\ host # NULL
  /\ ~Suspended("tud") /\ (AtYield \/ polling)
  /\ host' = NULL
  /\ polling' = FALSE
  /\ stale' = TRUE
  /\ UNCHANGED <<vars, stack, install, acked, spoiled>>

----------------------------------------------------------------------------
(* tud_task and the drive's callbacks *)

TudRuns == host # NULL /\ host.ready /\ ~Suspended("tud") /\ (AtYield \/ polling)

HostTransfer ==
  [src |-> usb, sector |-> host.sector, page |-> host.chunk * ChunkPages,
   size |-> ChunkPages]

\* A transfer that starts makes write_flash forget the last one.
Staleness == IF transfer' = transfer THEN stale ELSE ~sound'

NextCommand ==
  IF host.chunk + 1 < Chunks
    THEN [host EXCEPT !.chunk = @ + 1, !.ready = (host.op = "read")]
    ELSE NULL

\* tud_msc_write10_cb.  On 0 TinyUSB queues the event again and its event loop
\* calls back at once: other tasks run only if write_flash yields.
tud_write(rc) ==
  /\ TudRuns /\ host.op = "write"
  /\ write_flash(HostTransfer, rc)
  /\ stale' = Staleness
  /\ IF rc = "size"
       THEN /\ spoiled' = IF stale' THEN spoiled \cup {host.sector} ELSE spoiled
            /\ acked' = [acked EXCEPT ![host.sector] =
                 [p \in PageNo |->
                    IF p \div ChunkPages = host.chunk
                      THEN ram[usb][p % ChunkPages] ELSE @[p]]]
            /\ host' = NextCommand
            /\ polling' = FALSE
            /\ UNCHANGED stack
       ELSE /\ stack' = IF SameTransfer(HostTransfer)
                          THEN Append(stack, "tud") ELSE stack
            /\ polling' = ~SameTransfer(HostTransfer)
            /\ UNCHANGED <<acked, host, spoiled>>
  /\ UNCHANGED <<install>>

\* yield() returns into write_flash, which returns 0.
tud_resume ==
  /\ stack # <<>> /\ Top = "tud" /\ AtYield
  /\ Pop
  /\ polling' = TRUE
  /\ UNCHANGED <<vars, host, install, promises>>

\* tud_msc_read10_cb: read_flash refuses while the controller is busy.
tud_read ==
  /\ TudRuns /\ host.op = "read"
  /\ IF flash_busy
       THEN polling' = TRUE /\ UNCHANGED host
       ELSE polling' = FALSE /\ host' = NextCommand
  /\ UNCHANGED <<vars, stack, install, promises>>

----------------------------------------------------------------------------
(* tty_task: cli_install *)

\* The command line runs when tty_task is called, from main or a yield().
tty_install(s) ==
  /\ install.step = "none" /\ ~Suspended("tty") /\ AtYield
  /\ install' = [next |-> s, left |-> InstallSectors, step |-> "read"]
  /\ stack' = Append(stack, "tty")
  /\ UNCHANGED <<vars, host, polling, promises>>

InstallAt(step) ==
  install.step = step /\ Top = "tty" /\ ~polling

\* read() copies a sector of the file through the memory-mapped view, whatever
\* the flash is doing.
install_read(data) ==
  /\ InstallAt("read") /\ install.left > 0
  /\ fill(cache, data)
  /\ install' = [install EXCEPT !.step = "write"]
  /\ UNCHANGED <<host, stack, polling, promises>>

\* write_flash_unsafe; its result is not looked at.
install_write(rc) ==
  /\ InstallAt("write")
  /\ write_flash_unsafe([src |-> cache, sector |-> install.next, page |-> 0,
                         size |-> SectorPages], rc)
  /\ stale' = Staleness
  /\ install' = [install EXCEPT !.step =
                   IF flash_state' = "USER_MODE" THEN "written" ELSE "wait"]
  /\ UNCHANGED <<host, stack, polling, acked, spoiled>>

\* The wait loop on flash_busy() ends, or was not entered, and "Flash updated" is printed.
install_done ==
  /\ InstallAt("written") \/ (InstallAt("wait") /\ ~flash_busy)
  /\ install' = [next |-> install.next + 1, left |-> install.left - 1,
                 step |-> "read"]
  /\ UNCHANGED <<vars, host, stack, polling, promises>>

install_return ==
  /\ InstallAt("read") /\ install.left = 0
  /\ install' = NoInstall
  /\ Pop
  /\ UNCHANGED <<vars, host, polling, promises>>

----------------------------------------------------------------------------
\* disk_task runs from every yield() and from main's loop.
disk_task == AtYield /\ flash_task /\ UNCHANGED callers

chip == chip_done /\ UNCHANGED callers

\* The callback returns 0 for ever: flash_task, which would end the transfer in
\* progress, does not get to run.
Spinning ==
  /\ polling /\ flash_busy
  /\ host.op = "read" \/ ~SameTransfer(HostTransfer)

\* isr: nobody calls yield(), and the watchdog runs out.
watchdog ==
  /\ Spinning
  /\ restart
  /\ host' = NULL /\ stack' = <<>> /\ polling' = FALSE
  /\ install' = NoInstall
  /\ stale' = TRUE
  /\ UNCHANGED <<acked, spoiled>>

tud_task == tud_resume \/ tud_read \/ \E rc \in {"zero", "size"} : tud_write(rc)
tty_task ==
  \/ \E data \in Payloads : install_read(data)
  \/ \E rc \in {"zero", "size"} : install_write(rc)
  \/ install_done
  \/ install_return
Host ==
  \/ \E s \in Drive : HostWrite(s) \/ HostRead(s)
  \/ \E data \in Payloads : HostData(data)
  \/ HostAbort

CallersNext ==
  \/ Host
  \/ tud_task
  \/ \E s \in Regions : tty_install(s)
  \/ tty_task
  \/ disk_task
  \/ chip
  \/ watchdog

CallersSpec == Init /\ CallersInit /\ [][CallersNext]_allVars

\* Every pass of run_task_list, from main's loop or from a yield(), calls every
\* task that is not suspended, however often the others yield; the chip
\* finishes what it began; the host sends the data of a command it issued.
CallersFairness ==
  /\ SF_allVars(tud_task) /\ SF_allVars(tty_task)
  /\ SF_allVars(disk_task) /\ WF_allVars(chip)
  /\ WF_allVars(\E data \in Payloads : HostData(data))
FairCallersSpec == CallersSpec /\ CallersFairness

----------------------------------------------------------------------------
(* Properties *)

\* The variables of the callers hold values of their types.
CallersTypeOK ==
  /\ host \in Command \cup {NULL}
  /\ stack \in {<<>>, <<"tud">>, <<"tty">>, <<"tud", "tty">>, <<"tty", "tud">>}
  /\ polling \in BOOLEAN
  /\ install \in [next : Nat, left : 0..InstallSectors,
                 step : {"none", "read", "write", "wait", "written"}]
  /\ acked \in [Drive -> [PageNo -> Content \cup {NULL}]]
  /\ stale \in BOOLEAN /\ spoiled \subseteq Drive

\* The first byte of a chunk reads as in the buffer it came from.
FirstByteAgrees(s, p, told) ==
  LET q == (p \div ChunkPages) * ChunkPages
  IN mem[s][q] \cap FirstByteBits = told[q] \cap FirstByteBits

IsStored(s, p) == mem[s][p] = acked[s][p] \/ FirstByteAgrees(s, p, acked[s])

\* What the host was told is stored is in the flash, erasures, retries, other
\* clients, abandoned commands and restarts notwithstanding, unless write_flash
\* took a transfer of an abandoned command for this one, or planned it with the
\* view off; a chunk that it skipped has at least its first byte there.
AckedIsStored ==
  \A s \in Drive, p \in PageNo :
    acked[s][p] # NULL /\ s \notin spoiled => IsStored(s, p)

\* "Transfer complete" is the answer for what is stored.
CompleteIsStored ==
  \A s \in Drive, p \in PageNo : acked[s][p] # NULL => IsStored(s, p)

\* No erase hits a page the host was told is stored, even after the host gave
\* up commands halfway and the firmware restarted.
AckedPagesNotErased ==
  [][Commands /\ wip'.op = "erase" /\ wip'.sector \in Drive =>
       \A p \in PageNo : acked[wip'.sector][p] = NULL]_allVars

\* Every command of the host is eventually answered, or repeated without end
\* because it came while cli_install holds the controller.
CommandsComplete == host # NULL ~> host = NULL \/ Spinning

\* Every command of the host is eventually answered: "Respond with 0 so
\* application repeats request at a later time" (flash.c:122).
CommandsAnswered == host # NULL ~> host = NULL
=============================================================================
