# a2fomu: a verification development

a2fomu puts an Apple II inside a USB port.  A 6502 with its memory, keyboard,
video and disk interface is gateware on an FPGA (`hw/rtl`); a RISC-V processor
next to it runs a small cooperative operating system in C (`sw/src`) that
serves the USB bus (a drive and two serial ports), writes programs and disk
images into an SPI flash chip, plays the disk drive for the 6502, and blinks
Morse code on an LED.

This directory holds TLA+ models of its concurrent core, the TLC
configurations that check them on small instances, and proofs, checked by
TLAPS, of what holds for every value of the constants.  Line numbers refer to
the commit the models were made from; file names without a directory are in
`sw/src`.

    tlc -config MCFlash_transfers.cfg MCFlash       (any run: PROJECT.json lists them)
    tlapm FlashProofs.tla

## 1. Inventory

| component | state | operations | talks to |
|---|---|---|---|
| SPI flash controller (`flash.c`, `spi.c`) | transfer in progress, page mask, bypass flag, bit-bang register; the chip | `write_flash`, `write_flash_unsafe`, `read_flash`, `flash_task` | called by the drive and the command line; `flash_task` by `disk_task` |
| USB drive (`msc_flash.c`), installation (`cli.c`) | none of their own: stack frames and TinyUSB's queue | `tud_msc_read10_cb`, `tud_msc_write10_cb`, `cli_install` | flash controller, scheduler |
| Streams and terminal (`stdio.c`, `tty_task`) | rings `stdin`, `stdout`, the log | `fputc`, `fgetc`, `ungetc`, `canputc`; `tty_task` | every task, the interrupt, the serial port |
| Scheduler and watchdog (`main.c`, `rtc.c`) | `active_tasks`, the C stack, `watchdog_timer`, `watchdog_max` | `run_task`, `run_task_list`, `yield`, `isr`, restart | everything |
| Disk controller (`disk.c`, `apple2.py`) | latch, arm, head, sector buffers, a cache of one track per drive | `disk_controller_task`, `disk_update_head`, `cache_request` | the 6502 reads the latch at any time |
| External disk protocol (`disk.c:503-758`) | parser state, `external_disk_state` | `external_disk_buffer_management` | a program on the host, over the second serial port |
| FAT and the FILE table (`fat.c`) | mounted volume, `_file[]` | `fopen`, `fclose`, `opendir`, `readdir`, `read`, `finddirent` | reads the mapped flash; used by the command line |
| Morse LED, touch pads (`morse.c`) | transmitter state, timer | `morse_transmit_task`, `morse_isr` | drains `stdout` when no terminal is connected |
| Command line (`cli.c`) | `cli_command`, `cmd_ptr` | `cli`, `exec`, `cli_parse` | runs inside `tty_task` and at start-up |
| Persistent log (`persistence.c`) | a stream that survives a restart | `persistence_init`, `dump_persistence` | written by the interrupt too |
| Clock (`rtc.c`) | `system_ticks`, the timer | `activetime`, `msleep`, `nsleep` | incremented by the interrupt |
| Keyboard and video (`main.c`, `apple2.py`) | key latch, screen FIFO, cursor | `keyboard_task`, `video_task`, `redraw` | `stdin`, `stdout`, the 6502 |
| Start-up (`crt0.S`, `bios.c`, `fbms.c`) | memory that is cleared or kept | `bss_init`, the loader | everything |
| Nibble codec (`disk.c:155-243`), C library helpers, USB descriptors | none | pure functions and tables | |

`PROJECT.json` lists all components, including the build tools, the vendored
netlists and generated files, with the reason for what is left out.

**What is hard in this system.**  There is one processor and no preemption
except by one interrupt, but `yield()` runs *all other tasks on top of the
caller's stack*: any task may be suspended under any other, and what it read
before a wait may be stale after it.  The flash chip works for milliseconds
after a command and knows nothing of a restart of the processor.  TinyUSB
retries a callback that answers "busy" at once, inside its own loop.  The 6502
reads the latch between any two instructions of the RISC-V.  The host on the
other end of a serial port may be late, gone, or another program.  The
watchdog restarts the processor wherever it is.  `PROJECT.json`, "hazards",
places each of these at the line where it bites and names the property that
would catch it.

**What makes the components correct.**
Flash: the boot loader survives everything, reserved sectors are written only
on purpose, the chip is never spoken to while it works, what was planned is
what is stored, and every transfer ends.
Clients of the flash: what the host was told is stored is stored; no command
waits for ever; nothing is read through a view that is off.
Streams: a bounded queue, however the indices wrap.
Scheduler: no task is entered twice, the stack is bounded, the watchdog strikes
a hung task and no other, and every wait ends that can.
Disk: what passes under the head is whole sectors of the right track in order,
and each comes around; what is marked valid is what the host's disk holds, and
every request ends.
Files: a path finds the entry it names and a listing shows every entry once; what a
program loads or installs is the file, whoever else opens one meanwhile; the table
of FILEs is not exhausted by accident.
Command line: what is executed is what was typed, or what the script says, however
the packets cut the keys; what is not a command reaches the Apple unchanged.
Video: the terminal shows the Apple's text page, and the firmware knows where the
terminal's cursor is.
Morse: a listener hears the text that was printed, letter by letter and word by
word, and the light goes out in the end.
Log and clock: what the log has taken and not given survives a restart at any step; a
reading of the clock is a time that it had.

## 2. Modules

    BoundedQueue     <--refined by--  Stdio  ------ StdioProofs
    Flash
      ^
      | EXTENDS
    FlashCallers  ------ FlashProofs   (Flash + USB drive + installation + scheduling)
    Scheduler   ------ SchedulerProofs
    Interrupts  -------/         (the log, the clock, the interrupt, restarts)
    DiskController  ------ DiskControllerProofs
    Nibble  ------------/         (the codes of a sector; MCDiskController extends both)
    TrackCache       <--refined by--  ExternalDisk  ------ ExternalDiskProofs
    Fat
      ^
      | EXTENDS
    FatFiles  ------ FatFilesProofs   (Fat + the table of FILEs + the programs that use it)
    Terminal  ------ TerminalProofs   (keys, command line, script)
    Video  ------ VideoProofs   (text page, FIFO, video_task, the host's terminal)
    Morse                       (the transmitter and a listener)

The `MC*.tla` modules give the constants that a configuration file cannot
express; `MCDiskController` also evaluates the sector codes on the real sizes.  In each module a definition marked *Mutant* is a
plausible error in the definition after it; the runs tell it from the original.

### Flash

State: `flash_state`, `allow_unsafe`, `transfer` (the three words
`flash_src_ptr`, `flash_dst_addr`, `flash_update_size`), `pages_to_program`,
`bytes_remaining`, the bit-bang register `bitbang`, the chip's content `mem` and
its operation in progress `wip`, and the callers' buffers `ram`.  An address is
a pair of a sector and a page in it, since every caller passes page-aligned
addresses and sizes; a page holds a set of bits, so an erased page is `Bits` and
programming intersects, as on the chip.  `write_flash(t, rc)` and
`write_flash_unsafe(t, rc)` are one step each, with all their early returns and
the answer as a parameter; `flash_erase`, `flash_program`, `flash_abandon` and
`flash_verify` are the cases of `flash_task`.  `chip_done` is the chip (external).
`restart` is a watchdog restart: variables go back to their initial values, while
the chip keeps working and the register keeps its value, and the first write
clears it.  `fill` is a caller that puts other bytes into its buffer.  The history
variables `planned`, `origin` and `sound` remember the mask as it was made, the
entry point of the transfer, and whether its buffer was left alone and no
restart came since.

The skipped-page bug (section 6) is in the model as it is in the code: one
byte decides for all the pages of a transfer.

### FlashCallers

`Flash` with its two clients.  `stack` is the sequence of tasks suspended in
`yield()`, innermost last; `polling` says that the last callback returned 0 and
TinyUSB calls it again before anything else runs; `install` is `cli_install`'s
position; `acked` remembers what the host was told is stored, `stale` whether the
transfer that `write_flash` recognises is one of an abandoned command or was planned
without the view, and `spoiled` the sectors for which such a transfer was the answer.  The host may
write and read blocks of the drive and abandon a command.  A step of
`flash_task` is possible exactly where the scheduler reaches `disk_task`: in
main's loop and in a `yield()`.  `Spinning` is the state in which none of them
is reached; the watchdog ends it.

### Stdio and BoundedQueue

`Stdio` is one FILE: `head`, `tail` and `buffer` with `Max + 1` slots.  `fputc`
stores first and rolls back when the ring is full, as the code does; `fgetc`
and `ungetc` follow.  `tty_drain` is one round of `tty_task`'s output
loop, in which a newline needs room for two characters in the port and goes
back into the stream when there is room for one.  `BoundedQueue` promises a
FIFO of `Cap` characters; `ImplementsQueue` maps the ring to it.

### Scheduler

`stack` holds a frame for each call on the C stack that matters: main, and every
task called by `run_task`.  A frame records how far its `run_task_list` has come
(`at`) and what the task waits for (`need`).  The waits are those of the source:
`redraw` for room in `stdout`, `dump_persistence` for room in the serial port,
`msleep` and `sleep` for the clock, `write_flash` and `cli_install` for the flash.
(`exec` yields without a condition, once for each line of main's script, which is a
wait for a condition that holds.)  `hang` is a task that neither yields nor
returns, such as the loop of `cli()` on a full buffer (`cli.c:505-513`).  `tick`
is the timer interrupt, at any point; `reboot` is the restart it forces.  It is
modelled for the build without `DEBUG`; the Makefile passes `-DDEBUG=0`, which
still defines it and turns `reboot()` into a breakpoint.

### DiskController

`Wanted`, `Pending` and `diskdata` are the gateware's latch.  `read_data` is the
6502 reading it, possible between any two steps of the C code; `write` is the C code
writing it, in two variants because the 6502 may read in the same cycle.  The
phases, motor and drive that the 6502 sets are parameters of `read_status`, the
one place that reads them.  `pc` is the position in `disk_controller_task`:
outside, about to call `disk_update_head`, or polling in its sending loop.
`start_sector`, `pass_header` and `pass_data` are the branches of
`disk_update_head`; a byte is its field, the sector it belongs to and its place
there.  `sector_arrives`, `answer_ends` and `disk_inserted` are what
`external_disk_buffer_management` may do to the cache between two runs of the
controller; the dialogue behind them is the next module's.  The sector that DOS
leaves in memory as a hint is one of the disk's, as the comment at `disk.c:280`
has it.  Writing is declared in the source and implemented nowhere.

### Nibble

The codes in which a sector passes under the head, as functions without state: a byte
is a function from its bits, so that shifts and masks are the code's.  `Pass` is one
pass of `nibblize`'s inner loop over `nbuf2`; three of them, counted down from
`yp = 0x102`, wrap around at the end of the sector.  `Sent` is the chain of exclusive
ors in `disk_update_head`, with its checksum.  `denibblize` has no caller in the source and
stands here for what DOS does, whose assembler text is its comment.
`DiskController` speaks of bytes by their place in a field; what they are is here.

### ExternalDisk and TrackCache

`cache_request(t, s)` is the head of the drive asking for a sector; the parser is one
action per token (`parse_header`, `parse_byte`, `parse_checksum`, `parse_end`,
`parse_volume`), on the tokens that `receive` took out of the port in one go
(`buf`).  `poll` is a run that finds nothing and counts `retries`; `idle` is a run
while nothing is asked for; `line_state` is the host opening or closing the port.
The host is external: it takes a request and answers it or does not (`take`), sends
its answer token by token (`send`) so that every cut into runs of the parser
occurs, and announces a disk (`announce`).  A byte is its place on the disk, so
bytes of two sectors never agree by accident; a checksum agrees with the right
bytes and may agree with any others.  With `Patient`, the host answers before the
device gives up or not at all, and opens and closes the port only while it has
nothing under way; without, it may be as late as it likes.

An announcement that the parser meets in a wait is "@", two digits of the volume and one
more character, and for want of a `continue` (`disk.c:640-654`) the character behind these
four is read as a digit.  With `Terse`, an announcement is these four characters ("@fe\n"), so
that the digit is the first character of what follows: `parse_volume` eats the `#` of a
header, whose other characters then are digits too, the `=` of a checksum, the `*`, or
the first digit of a byte, which only takes the place that is its own.  Without `Terse` it
has a fifth ("@254\n"), which is the one that is eaten.  `half_byte` is the digit that
waits for another; `Put` writes the bytes, as the code does, without asking whether there
is a header and room in the sector (`disk.c:657`): they run on into the next sector,
and without a header they go near the address 0, which is not followed, as nothing is
past the end of the cache line.

`TrackCache` is what the head relies on: sectors become valid one at a time,
each after it was asked for, and the line keeps its track meanwhile.
`DiskController` takes this for granted in `sector_arrives` and `answer_ends`.
A token is never cut by the end of a packet.

### Fat and FatFiles

`Fat` has the pure part: `mount`, the chain of clusters and `finddirent`, as functions
of an image of the flash.  The unit of an address is a directory entry, so that
pointer arithmetic (`cluster_number`, `advance`) is the code's, wrong chain
included.  `walk` is a sequence of calls of `readdir`, and a walk that never ends is
`Endless`.  `FatFiles` has the table of six FILEs and two programs: init, with its
script, and a typed command, which runs on top of it whenever init yields.  A step
runs from one yield to the next, so `cli_bload` is one step and `cli_catalog` and
`cli_install` are several.  What a line of a script says is left open.  Names are
model values; a pattern is the set of the names it matches.

### Terminal

`tty_task` handles a packet one key per step; `packet` cuts what is typed anywhere.
`apple_key` translates escape sequences through `in_esc`, the `static` variable
that outlives a packet; `enter_cli`, `backspace`, `collect`, `overrun`, `cli_execute`
and `cli_waits` are the loop of `cli()`; `exec_line` and `exec_parse` are what exec
does before and after its `yield()`, on the same `cli_command`.  `ReturnLookedAt` is the
test of `*p` behind the loop; when the packet is used up, it looks at a byte of an array that
nothing has written for it.  `StaleReturn` says whether that byte may be a carriage return, left by a
longer packet.  `line` is everything typed since the command began, and `collected` what `cli()`
has taken of it.  `given` is what the keys are translated to, whether or not `stdin` has
room for it.  The text of a command is what is in the buffer up to
its NUL; `mixed` says that both writers have used it.  `in_esc` is the row of keys that
it stands for, and `Number` what their digits make of its bits, flags included.  NUL
itself is not typed: in a command, it would end the text.

### Video

`write`, `scroll` and `clear` are the 6502 and the circuit that recognises its
scrolling (`apple2.py:388-512`), which sends one entry for the first and one for
the last write of a scroll and nothing between.  `video_task` takes entries as in the
source: `off_screen`, `scroll_begins`, `scroll_ends`, `supress` (the spaces that
clear the bottom line), and `print`, whose `Moved` is the choice between backspaces,
carriage return, newline and a position.  It may leave its loop at any entry.  The
terminal on the host is external: characters, a cursor, and scrolling by a newline
or by a region with margins.

The loop asks `canputc` for 40 characters of room (`main.c:440`), and `canputc` counts
characters that wait as room (`stdio.c:115`), so `stdout` may be full all the same.  With
`HostReads` it is not.  Without, every `putchar` may come to nothing: the newline of
a scroll, the last backspace of `leave`, and in `print` any part of the move and the character.
A lost backspace or newline is modelled as such (`Received`); for a move that lost a part the
terminal may show anything and stand anywhere afterwards (`Garbled`), which is more than
it can do.  `Overflown` is the failure of the character itself (`main.c:643-648`): `prev_h` and
`prev_v` stay, the entry is kept, and is handled again with the next call.  The tests before
each move (601-641) repeat the loop's with smaller numbers and nothing written between, while a
reader only makes room: they are never taken.

The FIFO stops the 6502 when it is full (`apple2.py:177`), but the write that ends a scroll
makes two entries, the second a cycle later (`apple2.py:448-452`), and a FIFO that had
room for one drops it (`Push`).  With `RoomForTwo` it has room for two: the 6502 is busy
scrolling for 20 ms without an entry, in which `video_task` takes two.

### Interrupts

The persistent log is a ring, as in `Stdio`, but `fputc` is cut where the interrupt
may find it half done (`at = "moved"`), as are `cli_zero` and `activetime`.
`isr_reboot` is the message of the interrupt, put character by character from the
tail it finds, and the restart: memory behind the variables stays, the pointer to
the log does not.  `owed` is what the log has taken and not given.  `cycle` is the
counter of the processor; the two halves have `Word` values each.

### Morse

One step per run of `morse_transmit_task` that finds its timer expired; a pattern is
the set of its bits, so shifting is the code's.  `morse_hw` is the table of the
source.  Beside the transmitter stands a listener who sees light and darkness and
tells letters and words by the length of the pauses: the properties compare what
he hears with what was taken from `stdout`.

## 3. Runs

Sizes are those of one run with two workers.

| run | bounds | shows |
|---|---|---|
| `flash_transfers` | 1 sector of each protection class, every mix of contents of a page, chunks and whole sectors, restarts at any point | protected sectors, the command port and the mapped view under every order of requests, completions and restarts; what is planned is what is stored; chunks do not erase each other; every transfer ends |
| `flash_skipped` | the same without restarts, comparing skipped pages | *violated*: section 6 |
| `callers_usb` | 1 reserved and 1 drive sector of 2 chunks, a host that may give up, an installation, restarts; 274,783 states | acknowledged means stored; commands are completed |
| `stdio_queue` | a ring of a few slots, so that every wrapping occurs | refinement of the queue; `tty_task` loses and reorders nothing |
| `sched_tasks` | 6 tasks, every nesting, limits of 16 and 17 turns; 30,248 states | mask and stack, watchdog, waits |
| `disk_head` | 2 tracks, 3 sectors, fields of 2 bytes, 1 poll; 191,844 states | the byte stream, the cache line, every sector comes around |
| `exdisk_patient` | 2 tracks of 2 sectors of 2 bytes, 1 retry, a port for 1 request and 3 tokens, a fifth character in an announcement; 62,260 states | the line behaves as `TrackCache`; every byte goes to its own place; every request ends |
| `morse_signs` | texts of up to 5 of E, r, space, CR and NUL, a terminal that comes and goes; 126,742 states | signs and words are heard; the text goes out |
| `fat_files` | 20 images of 3 clusters and 4 root entries, 5 paths, 2 programs; 182,440 states | look-up, listing, loading, installing; the table of FILEs |
| `terminal_keys` | 5 of 8 keys, packets of up to 3, a buffer of 3, a script of 2 lines, no stale carriage return; 6.0 million states | what keys are translated to, what is executed |
| `interrupt_log` | a log of 4 slots, messages of 2 characters, 2 restarts; 0.9 million states | the log and the clock |
| `video_screen` | 2 lines of 3 columns, 4 writes or scrolls, a FIFO of 3 with room for two at the end of a scroll, a host that reads; 2.3 million states | screen and cursor in the enhanced mode |

**Further configurations.**  These answer no question of their own; each shows a
deviation of section 6 by a counterexample, or a weaker property under more faults:

| configuration | module | result |
|---|---|---|
| `MCFlashCallers_stale.cfg` | `MCFlashCallers` | `CompleteIsStored` is violated when the host may abandon a command |
| `MCFlashCallers_postponed.cfg` | `MCFlashCallers` | `CommandsAnswered` is violated: a postponed request is repeated for ever |
| `MCFlashCallers_faults.cfg` | `MCFlashCallers` | `AckedPagesNotErased` holds with abandoned commands and restarts (3 million states) |
| `MCExternalDisk_late.cfg` | `MCExternalDisk` | `OtherTracksIgnored` is violated by a host that is late |
| `MCExternalDisk_terse.cfg` | `MCExternalDisk` | `BytesHaveAPlace` is violated by an announcement of four characters in front of an answer |
| `MCFatFiles_script.cfg` | `MCFatFiles` | `ScriptInOrder` is violated by a catalog typed meanwhile |
| `MCTerminal_stale.cfg` | `MCTerminal` | `TypedCommandIntact` is violated: the beginning of a command is executed at the end of a packet |
| `MCInterrupts_unlogged.cfg` | `MCInterrupts` | `MessageIsLogged` is violated after a warm restart |
| `MCVideo_standard.cfg` | `MCVideo` | `CursorTracked` is violated in the standard scroll mode |
| `MCVideo_full.cfg` | `MCVideo` | `CursorTracked` is violated when the host does not read: the backspace of `leave` is lost |
| `MCVideo_dropped.cfg` | `MCVideo` | `ScreenShown` is violated when the FIFO is one short of full at the end of a scroll |

**Why the bounds are enough.**  Flash: the code compares an address with two
limits and treats sectors alike otherwise, so one sector on each side of each limit covers
the comparisons; a page needs one bit of its first byte and one other bit, since the
planning code looks at the first byte alone; two pages let a chunk follow another in its
sector.  Streams: the indices wrap after `Max + 1` operations; every offset of
head and tail is reached.  Scheduler: one wait per call of a task (a second wait
in the same call starts from the same state); `BootLimit` and `RunLimit` stand
for the watchdog's limits in turns of the scheduler.  15 turns are too few and 16 are enough:
the watchdog gives no false alarm when a turn takes less than 500 ms / 16 = 31 ms at
start-up and 5000 ms / 16 = 312 ms later.  Disk: three sectors make "the one before"
different from "the other"; fields of two bytes have a first and a last byte;
with one poll the sending loop can end before or after any read; the codes are
evaluated at their real size (256 bytes, 86 in a third) for all bytes of a header, nine
sectors and every entry of the table.  External disk: an
answer of five tokens and a port for three make every answer arrive in several
runs; two tracks make a late answer differ from the one awaited, and two sectors
the place it goes to; the limit of 1000 polls stands at 1, for only its
order with the answer matters.  Files: the images have a chain forwards and backwards, a
circle, a chain that ends in a free cluster, a file without a cluster, labels, a
directory, a root that is full and one that ends early; reads ask for less than a
sector, more than one, and more than the file has; a third program cannot start.
Terminal: five keys are the longest sequence and one key more, with packets that cut
it in two or three; two characters fill the buffer but one.  Interrupts: a message is
shorter than the log and longer than what is left of it; the clock wraps at most once in
a reading, since the watchdog ends one that would last 2^31 cycles.  Video: two lines
have a bottom and another; three columns are more than the near distance of two, so
that every branch of `Moved` is taken.  Morse: E is one dit and r the sign with a
dah between dits; five characters allow a word, two spaces and another word.

## 4. Fairness

- *Flash*: weak fairness of `flash_task` (main's loop calls it for ever) and of
  `chip_done` (the chip ends every operation).
- *FlashCallers*: strong fairness of `tud_task`, `tty_task` and `disk_task`, for
  each is called in every pass of `run_task_list` though it may be suspended
  in between; weak fairness of the chip and of the data of a command the host has issued.
- *Scheduler*: weak fairness of the running frame and of the timer; a condition
  that a task waits for comes true when the task that provides it
  (`Provider`) is called often enough.  `WaitsEnd` excludes a wait for a task that is
  suspended below: `redraw` inside `tty_task` waits for room that only `tty_task` makes,
  and ends because of the watchdog alone.
- *DiskController*: weak fairness of the controller and of the 6502's reads;
  strong fairness of sending a request (there is room in the serial port again
  and again) and of the host's answers.  `EverySectorComesAround` is stated
  for a 6502 that leaves drive and arm alone from some time on (`Settled`).
- *ExternalDisk*: weak fairness of the parser (`disk_task` calls it for ever) and of the
  host reading requests and sending what it has begun; it need not answer.  `RequestEnds`
  excepts a host that announces disks for ever: whatever is received clears the
  count of polls.
- *Morse*: weak fairness of `morse_task`, which main's loop calls for ever and whose
  timer always expires.

The other modules have safety properties only, and no fairness.

No action of a user, no fault and no restart is assumed to happen.

## 5. Proofs

All proofs are for arbitrary constants under the named assumptions of the
modules (sizes are positive, limits are ordered), which TLC evaluates in each run.

- **FlashProofs.**  `SafetyInv` adds to the checked invariants: while a transfer
  is under way it is `Admitted` (its sector is safe, or it came through the unsafe entry
  with the bypass set and above the failsafe limit), and an operation in the
  chip is above that limit with the view off (`OperationInv`), which must
  survive a restart that forgets the transfer.  From it: `NeverForbidden`, `ModeAgrees`,
  `MappedChipIsIdle`, and the action properties `FailsafeUntouched`,
  `ReservedOnlyByUnsafe`, `CommandsOnlyWhenIdle`.  `DataInv` says of a sound
  transfer that each planned page is still in the mask with room for its bits,
  in the chip's queue, or stored; with the mask an interval (`MaskIsInterval`)
  it gives `ProgrammedAsPlanned`.  `EraseStart` and `EraseStep` follow a planned erase back
  to the request, which is a multiple of a sector: `ChunksSurvive`.
  With its clients: `ControllerUsedRight` shows that the USB drive and `cli_install` take only
  steps of `Flash`, so that every theorem about it holds with them (`Base`).  `Order` ties
  the transfer to the caller: a chunk of the drive begins at a multiple of
  `ChunkPages`, only the first of a sector erases, and while an erase is planned no
  page of the sector has been promised.  `Promise` is what `AckedStored`
  needs: a transfer of the command under way was planned through the view, on erased
  pages or pages that hold the bits it wants (`Mapped`, `Room`, `Work`); it is never
  taken for a later command's (`Behind`); and neither the chip's operation nor the mask
  touches a promised page (`ChipSpares`, `MaskSpares`).  `spoiled` sectors are excepted,
  for which section 6 has the counterexamples.
- **StdioProofs.**  The contents of the ring under `fputc`, `fgetc` and `ungetc`,
  then the refinement `RingIsQueue` and `NothingLost`, for every `Max` and every
  amount of room the port reports.
- **SchedulerProofs.**  `Shape` is the inductive invariant of stack and mask:
  main at the bottom, tasks distinct, the mask the set of tasks above main, every frame
  but the innermost a waiter inside a `run_task_list`.  It gives `NoReentry`
  and, since there are three waiters, `StackBounded`.
  Behind it, about `Interrupts`: `ClockCoherent`, what `activetime` returns is a time that the counter
  had between its first load and its last, for every width of the two halves.  `ReadingInv`
  says at each load what the earlier ones have established: the high half lies between
  those of the start and of now, and a second reading is made only after the one
  carry that a reading shorter than a half can meet (`DivMonotone`).
  `LogKept`: what the log owes is in its slots from head to tail, or to `rollback`
  while `fputc` has moved the tail and not yet looked whether it may (`LogInv`).  The
  interrupt prints its message from the tail it finds: `Printed` is its closed form, a
  fixed slot for each character that has room, and what was owed lies in none of them.
- **DiskControllerProofs.**  `FieldAtHand` says that while a field passes, the
  buffers hold one sector of the head's track and the latch the byte before
  `active_byte`; `LineAtHand` that an open request is the external drive's and
  the line is its track.  They give `StreamCorrect`, `TrackCorrect`,
  `LineCorrect` and `TypeCorrect` for every geometry.
  The module also has the codes of a sector: `SectorRoundTrip`, what `nibblize` does is
  undone for every sector and every size up to three thirds, whatever `nbuf2` held
  before.  A byte lies in one of three thirds (`Thirds`), and what the later passes leave
  of its two bits is theirs to shift (`PassBits`, `TwoBits`).  `NextNibbleIsRead` is the
  step of the chain: that a reader thus has the whole field follows by induction, which
  is left to TLC at the real size.  `HeaderRoundTrip` is the two-byte code.
- **ExternalDiskProofs.**  `TypeCorrect` holds for every host and every announcement.  Under
  `Patient` and `~Terse`, `Conversing` says what host, port and buffer hold together:
  `Stream`, read as one sequence, is the rest of one answer with announcements before and
  behind it (the host announces nothing within an answer), and the
  parser stands exactly where that rest begins, with no digit left over once its header has
  been read.  The digit that each announcement leaves makes bytes of two of them, which are
  written behind the last sector and may spoil the one after it: a valid sector holds bytes
  of its track or such bytes (`Held`), and never another track's.  However the port cuts
  the answer, `EveryByteHasAPlace` (`BytesHaveAPlace`: each byte whole, in order, in its
  own place), `OtherTracksKeptOut`, and the refinement `DiskIsCache` of
  `TrackCache` follow.  Without `Patient` they are false (`MCExternalDisk_late.cfg`), and with
  `Terse` as well (`MCExternalDisk_terse.cfg`).
- **VideoProofs.**  `TextKept`: the text of the terminal, the line that `video_task` remembers
  and the spaces it leaves out form an image; the entry in hand and those in the FIFO lead
  from the terminal's image, one after the other, to the one that the text page
  promises (`Kept`).  A write of the 6502 puts an entry behind the others
  (`LeadAppend`), a step of `video_task` takes the first (`LeadTail`).  A newline scrolls the
  terminal only on its bottom line: `Fits` is carried along the queue, and comes from the
  monitor scrolling from there.  `ScreenRight`, `CursorRight` and `CursorOnFlash` follow for
  every size of the screen, under the hypothesis `Room`: the enhanced mode, a host that reads, and a
  FIFO with room for two entries when a scroll ends.  Without any one of these they are false
  (`MCVideo_standard.cfg`, `MCVideo_full.cfg`, `MCVideo_dropped.cfg`).
- **FatFilesProofs.**  `Table` says who has which FILE: a script's has had a line taken, an
  installation's has not, two installations have different ones, and while init is at
  something HELLO has the lowest, so that the FILE in use which `opendir` finds
  is always a script's (`CatalogFile`).  Without that last part it is not inductive: a
  catalog on the FILE of an installation would move its head.  Each step keeps what the
  other program holds (`Respects`, `Keeps`).  `HasRead` says that for every chain of clusters
  from the entry's first one, the FILE stands m cells behind its beginning and these
  cells were read, with m what was asked for or the length of the chain.  One
  round of `read` keeps it (`RoundReads`), and the function that `read` is defined by has a value for
  every number of rounds (`ReadIs`).  `ContentIs` then identifies these
  cells with `Content`, the definition of the properties, where division and remainder by
  the size of a sector meet the chain.  They give `NothingElseStaysOpen`, `InstalledIsTheFile` and
  `LoadedIsTheFile` for every volume.
  The second half is about `readdir`.  `walk` has a value for every number of calls (`WalkIs`),
  and in the root directory it is the row of its cells, ended by NULL exactly behind
  its last sector, within the calls that are looked at (`RootStep`, `RootRun`, by the number of
  cells of the image).  So the set that `scandir` finds has one element just when
  the set of the properties has (`ScanIs`), and `RootEnds` says where both stop.
  In another directory the step stays in the row up to the last cell of a cluster
  (`ClusterStep`); `ScanCluster` is that directory, if its NUL lies in the first.
  With `finddirent` unfolded for one name and two (`FindOne`, `FindTwo`) they give
  `PathsLeadRight`, under the hypothesis that paths have one name or two.  `ListingIsComplete` needs an
  invariant: a typed catalog stands at some place of the root and has shown just the
  entries before it that are no label, in order (`TypedListing`, `ListingRight`); it holds because
  nothing else runs until the typed command returns (`CatalogRuns`).
- **TerminalProofs.**  `CommandInv` says that behind `cmd_ptr` characters of the buffer is the
  text that editing the collected keys gives, unless exec has written there since, and that a
  line of the script which exec holds stands in the buffer with its NUL: `CommandRight` and
  `LineRight`.  For `CommandRight`, `Typing` adds that what `cli()` has taken and what of
  the packet it will still take are together all that was typed for the command, so that it
  is executed at its own carriage return and whole; the hypothesis is `~StaleReturn`
  (`MCTerminal_stale.cfg` shows why).  `GivenRight` is about keys still to come.  `Follows` says of every
  continuation of what has been typed: its meaning is what the Apple was given and then
  the meaning from where the sequence in `in_esc` began.  A key that goes on with the
  sequence leaves both alone (`FollowsWait`); one that ends it adds its codes to the one and
  takes them from the other (`FollowsOver`); with nothing more to come the second is
  empty (`FollowsEnd`).  An invariant without the continuations would not do: what an
  unfinished sequence means depends on the keys behind it.
  What keys mean, and the edited text, are recursive functions of data.  Their induction is
  `Induction`: a set of numbers with 0 and every successor is Nat, from the library's
  theorem that Nat is well founded (`Smallest`).

**The assumptions.**  Sizes are positive and limits ordered.  Beyond that,
`CallerAssumption` says what the callers' constants are in the source: a chunk of 512 bytes is
smaller than a sector of 4096 and divides it, and the regions that `cli_install`
writes (0x1A000, 0x1B000, 0x39000 and 0x3D000, of one to three sectors, `cli.c:240-245`)
end below the drive, which begins at 0x80000 (`flash.h:28-38`); and the null values are
no addresses.  `FilesAssumption` says that the numbers of a volume are numbers and that each of its
clusters has an entry in the table.  `DirectoryAssumption`, which only the theorems on directories
use, says that the image holds the root directory and the clusters of which its boot sector
tells.  `mount` checks none of this: it is true of an image that a FAT formatter has
made.  `Patient`, `Terse`, `StaleReturn`, `HostReads`, `RoomForTwo` and the scroll mode are
hypotheses of the theorems and not assumptions of the modules, since both cases are modelled.

**Only model-checked.**  All liveness (`TransferEnds`, `CommandsComplete`, `HangIsCaught`,
`WaitsEnd`, `OthersGoOn`, `EverySectorComesAround`, `RequestEnds`, `TextGoesOut`), which is out
of the prover's reach, as is `ENABLED`; `NoFalseAlarm`, which is about turns of the scheduler
under limits found by the run; and the properties of `Morse`.

## 6. Where the code does something else than it says

Shown by a run (the quotation is in `PROJECT.json`, "findings"):

- The comparison that skips pages already stored advances neither pointer
  (`flash.c:210`): one byte decides for every page (`flash_skipped`).

Shown by one of the further configurations of section 3:

- A postponed request returns 0 without yielding (`flash.c:125`); the USB stack
  repeats it at once and `flash_task` is never reached (`MCFlashCallers_postponed.cfg`).
- "Transfer complete" is answered by address and size alone (`flash.c:98`): a
  block written again after an abandoned command is acknowledged and not stored
  (`MCFlashCallers_stale.cfg`).
- A header for another track is noticed and its sector used all the same
  (`disk.c:562`): an answer that comes after its request was given up is marked
  valid on the track asked for since (`MCExternalDisk_late.cfg`).
- `@` among the bytes of an answer changes the volume, keeps the old disk's
  sectors, and goes on with the character behind it as a digit, for want of the
  other branches' `continue` (`disk.c:640-654`).  An announcement of four characters eats the `#` of
  the header behind it: the bytes of that answer are written where the last one ended,
  and its checksum is compared with, and marks valid, the sector before
  (`MCExternalDisk_terse.cfg`).  The digits of two announcements behind an answer are a byte, which
  spoils the first one of the next sector, valid or not.
- `cli()` looks at the key behind the packet (`cli.c:520`), which nothing has written; a
  command may be executed before its end (`MCTerminal_stale.cfg`).
- What is written to a full `stdout` is lost and `video_task` does not know, for it looks at the
  result of the character's `putchar` only: a lost backspace, newline or part of a sequence leaves
  `prev_h` and `prev_v` wrong, and a character that is printed at the second attempt may go to another
  place (`main.c:556`, `593-648`, `664`; `MCVideo_full.cfg`).
- The write that ends a scroll is lost if the FIFO has room for one entry only
  (`apple2.py:448-452`): a space that is to be left out is then still counted, and a later
  one is not shown (`MCVideo_dropped.cfg`).
- `opendir` looks for a FILE in use where `fopen` looks for a free one
  (`fat.c:656-659`): a catalog typed while a script is executed overlays the
  script's head and tail, and without a script there is no FILE for it
  (`MCFatFiles_script.cfg`).
- After a warm restart the pointer to the log is not set until the log is dumped
  (`persistence.c:31`), although "any trap ... is logged" (`main.c:106`): the
  messages in between go to the address 0 (`MCInterrupts_unlogged.cfg`).
- In the standard scroll mode, which is the default, setting the margins homes the
  terminal's cursor and `prev_v` and `prev_h` are not told (`main.c:559-566`): the next
  character is put in the wrong place (`MCVideo_standard.cfg`).

Found in reading, in the models as far as they touch their state, without a run.
Flash and streams:

- `allow_unsafe` stays set when no page needs programming (`flash.c:366` leaves
  before line 402).
- `flash_init` has no caller, though its comment promises recovery of the mapped
  view after a restart (`flash.c:442-448`): the view comes back with the next write only.
- After a restart in the middle of a transfer, the next one is planned from a view that is
  off: its sector may not be erased, the chunks behind it are refused, and the host is
  told that they are stored (`flash.c:131-160`; `spoiled` in `FlashCallers`).
- `cli_install` prints "Flash updated" for a sector that was refused (`cli.c:260-268`).
- `read` copies through the mapped view without asking whether it is on (`fat.c:684`).
- `ungetc` on a full stream restores the tail, which it did not move
  (`stdio.c:181-186`); its one caller never meets a full stream.
- The controller follows the phases only while the rest of the status register is
  zero, since it switches on the whole register (`disk.c:781`): the arm does not
  move while the motor is on, nor in the second drive.
- The sending loop writes the next byte when the last one is still unread
  (`disk.c:857-863`), where the comment above it says "as long as each byte is read".
- "Speed up apple clock" masks the wrong bits (`disk.c:852-854`): it keeps the
  divisor and clears the other control bits for the time of the sector.
- A change of drive on one track goes on with the other drive's sector
  (`disk.c:377` compares the track only, its comment says "drive or track").
- The sector read from the 6502's memory is not checked (`disk.c:391`); a volume
  above 127 compares unequal to itself (`disk.c:69`, signed against unsigned) and
  empties the line with every request.
- An answer that comes when nothing is awaited is dropped in pieces; what is left of it
  in the next wait is parsed without a header, and its bytes are written at an address
  near 0 (`disk.c:657`).  So is a token cut by the end of a packet read past it
  (`disk.c:542-543`, up to three bytes).
- Requests are sent, and waited for, while no host has opened the port
  (`disk.c:68` asks for the reading state only).
- `canputc` adds the characters stored to the room left when the ring is not wrapped
  (`stdio.c:115`): a full stream may report room.
- The secondary timer for yielding tasks is never looked at (`main.c:852-855` is
  commented out), and every `yield` clears the watchdog.
- The yield log compares with `last_active`, which is never assigned
  (`main.c:838-851`), and so never logs.

Files and commands:

- A directory that goes on behind its first cluster follows the chain of the cluster
  that lies behind it (`fat.c:295-307`); a chain in a circle is followed for ever.
- `mount` puts the root directory behind one reserved sector whatever the boot sector says.
- The size of a file is ignored: whole clusters are read, and an empty file reads one at
  address 0.  A script is read from its first cluster only, and its FILE is never closed
  (`cli.c:535`): after three scripts no FILE is free.  At its end
  `fgets` gives lines of 0xFF for ever.
- `cli_install` looks at neither the result of `read` nor that of `fopen` before `fclose`.
- The NUL of a command of 80 characters is
  written behind the buffer, and the 81st character is looked at for ever.
- What follows a command in its packet goes to the Apple, even if it is the escape of
  another command.  exec and a typed command share one buffer (`cli.c:552`), and an
  empty command dereferences a null pointer.
- `toupper` comes before the keys of the keypad are looked up, so its digits are not
  found; ESC O p is F1 and the minus key Enter.  A number of 64 and more in a sequence runs
  into the flags that share its integer (`main.c:178-180`, `207`): ESC [ 6 5 ~ is Home.
- `lseek` would not end (`fat.c:793`); it has no caller, and neither have `telldir`,
  `seekdir` and `rewinddir`.

Log and clock:

- The interrupt may find `fputc` with the tail on the head, in a full log: all
  of it is forgotten.  A restart in the middle of `cli_zero` brings back what had been given.
- The repair of a damaged log calls `persistence_init`, which finds the magic number and
  does nothing.
- `rtc_read` reads the 64-bit tick counter in two loads without the protection that its
  comment has for the cycle counter (`rtc.c:38`).

Video and Morse:

- The enhanced scroll mode scrolls by a newline, which is right only when the last character
  was on the bottom line.  `~(vid & ...)` is always true (`main.c:661`).  `itoa99` is unused.
- The start sign goes on from the mask of its first bit minus one (`morse.c:487`), so the first
  one sounds like three dahs and what follows.  After a word the state stays SPACE,
  so later spaces are sent as start signs and an end sign closes the text.
  A text that ends with a letter leaves the transmitter out of IDLE.  Control characters
  are sent as letters.

## 7. Plan

Done: the core, the external disk, files, command line, video, log and clock, Morse; and the
proofs of what is safe in the flash controller and its clients, the streams, the
scheduler, the disk and its protocol, the files, the log, the clock, the screen and the
keys.
Next, in this order:

1. `ExternalDisk` with `DiskController`, whose `sector_arrives` and
   `answer_ends` it refines.
2. The signs of `Morse`: that what `morse_init` makes of the table is sent bit for bit.

Not modelled: the nibbles' timing and the 6502 itself (gateware); printf's
formatting and the commands that only print; the receiver on the touch pads (no
task reads it); `redraw`'s drawing and the LED branch of `video_task`
(`main.c:667-763`), which has no cursor to lose; the loader of `bios.c`, which
runs once, alone; USB descriptors and mode pages, which are constants; build tools,
vendored and generated files.
