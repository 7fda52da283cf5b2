--------------------------- MODULE DiskController ---------------------------
(***************************************************************************)
(* The emulated Disk II: the data latch of the gateware                    *)
(* (hw/rtl/apple2.py), which the 6502 reads at any time, and               *)
(* disk_controller_task, which moves the arm and passes sectors under the  *)
(* head byte by byte (sw/src/disk.c).  Sectors come from a cache of one    *)
(* track, filled by external_disk_buffer_management; what that does to the *)
(* cache is here, its dialogue with the host is not.                       *)
(*                                                                         *)
(* The 6502 sets the phases, the motor and the drive as it likes, and only *)
(* read_status reads them: they are its parameters.  A byte is its field,  *)
(* the sector it belongs to and its place in the field; a sector has its   *)
(* logical number (headers hold interleave33_l2p of it, a permutation).    *)
(***************************************************************************)
EXTENDS Integers

CONSTANTS
  LastTrack2x,  \* 68: the arm turns twice per track
  NumSectors,   \* 16
  HeaderSize,   \* SECTOR_HEADER_SIZE, in bytes
  DataSize,     \* bytes of prologue, data, checksum and epilogue: 350
  Polls         \* 5: polls without an unread byte that end the sending loop

ASSUME DiskAssumption ==
  /\ LastTrack2x \in Nat /\ NumSectors \in Nat \ {0}
  /\ HeaderSize \in Nat \ {0, 1} /\ DataSize \in Nat \ {0, 1}
  /\ Polls \in Nat \ {0}

disk_external == 0
disk_internal == 1
disk_max == 2
Drives == {disk_external, disk_internal}
Tracks == 0..LastTrack2x \div 2
Sectors == 0..NumSectors - 1
Phases == 0..3
NoPhase == 4
NoTrack == 255

VARIABLES
  Wanted, Pending,  \* of diskctrl, the status register
  diskdata,         \* the data latch: the byte written last
  track2x, phase,                        \* disk_drive
  sector_state, active_drive, active_track, active_sector, active_byte,
  hbuf, nbuf,    \* the sector named in the header, and the nibblized one
  cache_index,   \* the track and the valid sectors of each cache line
  asked,         \* the sector the host is asked for, while external_disk_state
                 \* is ext_reading
  pc, drive, local_watchdog  \* disk_controller_task and its local variables

latch == <<Wanted, Pending, diskdata>>
arm == <<track2x, phase>>
head == <<sector_state, active_drive, active_track, active_sector, active_byte,
          hbuf, nbuf>>
cache == <<cache_index, asked>>
control == <<pc, drive, local_watchdog>>
vars == <<latch, arm, head, cache, control>>

Sector == [drive : Drives, track : Tracks, sector : Sectors]
sync == [field |-> "sync"]
Byte == {sync}
        \cup [field : {"header"}, of : Sector, n : 0..HeaderSize - 1]
        \cup [field : {"data"}, of : Sector, n : 0..DataSize - 1]

\* No sector: nothing is asked for, or a buffer does not hold a sector of use.
NoSector == [drive |-> disk_max, track |-> 0, sector |-> 0]
reading == asked # NoSector

Init ==
  /\ Wanted = FALSE /\ Pending = FALSE /\ diskdata = sync
  /\ track2x = [d \in Drives |-> 0] /\ phase = [d \in Drives |-> 0]
  /\ sector_state = "inactive" /\ active_drive = disk_max
  /\ active_track = 0 /\ active_sector = 0 /\ active_byte = 0
  /\ hbuf = NoSector /\ nbuf = NoSector
  /\ cache_index = [d \in Drives |-> [track |-> NoTrack, valid |-> {}]]
  /\ asked = NoSector
  /\ pc = "idle" /\ drive = disk_max /\ local_watchdog = 0

----------------------------------------------------------------------------
(* The 6502 *)

\* Reading the latch: a byte that was read before has its high bit clear.
read_data ==
  /\ Wanted' = ~Pending /\ Pending' = FALSE
  /\ UNCHANGED <<diskdata, arm, head, cache, control>>

----------------------------------------------------------------------------
(* disk_controller_task *)

Track(d) == track2x[d] \div 2

\* A phase next to the one the arm is at pulls it half a track.
Pull(p, d) ==
  IF phase[d] = (p + 1) % 4 THEN -1 ELSE IF phase[d] = (p + 3) % 4 THEN 1 ELSE 0

Stopped(x) == IF x < 0 THEN 0 ELSE IF x > LastTrack2x THEN LastTrack2x ELSE x

\* What the buffers hold is of no use to an inactive head.
inactivate == sector_state' = "inactive" /\ hbuf' = NoSector /\ nbuf' = NoSector

move_arm(p, d) ==
  LET x == track2x[d] + Pull(p, d)
  IN /\ track2x' = [track2x EXCEPT ![d] = Stopped(x)]
     /\ phase' = [phase EXCEPT ![d] = p]
     /\ IF x < 0
          THEN inactivate /\ active_sector' = 0
          ELSE UNCHANGED <<sector_state, hbuf, nbuf, active_sector>>
     /\ UNCHANGED <<active_drive, active_track, active_byte>>

return == pc' = "idle" /\ drive' = disk_max /\ local_watchdog' = 0

\* Reads the status, moves the arm, and sees whether the 6502 waits for a byte.
\* The arm follows a phase that is on while the whole register holds nothing
\* else.  lone: the phase that is on by itself with the motor off, if one is.
read_status(lone, d) ==
  /\ pc = "idle"
  /\ IF Wanted /\ ~Pending
       THEN pc' = "head" /\ drive' = d
       ELSE UNCHANGED <<pc, drive>>
  /\ IF lone \in Phases /\ d = disk_external /\ ~Wanted /\ ~Pending
       THEN move_arm(lone, d)
       ELSE UNCHANGED <<arm, head>>
  /\ UNCHANGED <<latch, cache, local_watchdog>>

\* The loop that sends a sector: another byte for every poll that finds the
\* last one unread.
poll ==
  /\ pc = "send"
  /\ IF local_watchdog < Polls
       THEN /\ local_watchdog' = local_watchdog + 1
            /\ pc' = IF Pending THEN "head" ELSE "send"
            /\ UNCHANGED drive
       ELSE return
  /\ UNCHANGED <<latch, arm, head, cache>>

----------------------------------------------------------------------------
(* disk_update_head *)

\* The latch is written; the 6502 may read it in that very cycle.
write(b) ==
  /\ diskdata' = b
  /\ \/ Pending' = TRUE /\ UNCHANGED Wanted
     \/ Pending' = FALSE /\ Wanted' = ~Pending

\* Mutant: the arm is not looked at while a sector passes.
ArmMoved_AtStart == sector_state = "inactive" /\ active_track # Track(drive)

ArmMoved == active_track # Track(drive)

iscached(s) ==
  /\ cache_index[s.drive].track = s.track
  /\ s.sector \in cache_index[s.drive].valid

\* Mutant: the line is given up before the transfer in progress is noticed.
cache_request_Retargets(s) ==
  \E differ \in BOOLEAN, room \in BOOLEAN :
    /\ cache_index' = IF cache_index[s.drive].track # s.track \/ differ
                        THEN [cache_index EXCEPT ![s.drive] = [track |-> s.track, valid |-> {}]]
                        ELSE cache_index
    /\ IF ~reading /\ s.drive = disk_external /\ room
         THEN asked' = s
         ELSE UNCHANGED asked

\* differ: the drive's volume is not the one of the line.  room: the command
\* fits into the serial port.
cache_request(s) ==
  IF reading THEN UNCHANGED cache
  ELSE \E differ \in BOOLEAN, room \in BOOLEAN :
    /\ cache_index' = IF cache_index[s.drive].track # s.track \/ differ
                        THEN [cache_index EXCEPT ![s.drive] = [track |-> s.track, valid |-> {}]]
                        ELSE cache_index
    /\ IF s.drive = disk_external /\ room
         THEN asked' = s
         ELSE UNCHANGED asked

\* RWTS's parameters in the 6502's memory may choose another sector.
NextSectors ==
  IF drive # active_drive \/ ArmMoved THEN Sectors ELSE {active_sector}

\* The sector that passes is over: the first byte of the next, or, while that
\* is not in the cache, a sync byte.
start_sector ==
  /\ sector_state = "inactive" \/ ArmMoved
  /\ active_drive' = drive /\ active_track' = Track(drive)
  /\ active_sector' \in NextSectors
  /\ LET s == [drive |-> drive, track |-> Track(drive), sector |-> active_sector']
     IN /\ IF iscached(s)
             THEN /\ sector_state' = "header" /\ active_byte' = 1
                  /\ hbuf' = s /\ nbuf' = s
                  /\ write([field |-> "header", of |-> s, n |-> 0])
                  /\ UNCHANGED cache
             ELSE /\ inactivate /\ active_byte' = 0
                  /\ cache_request(s)
                  /\ write(sync)

\* Mutant: the count of bytes is not set back for the data field.
pass_header_KeepsCount ==
  /\ sector_state = "header" /\ ~ArmMoved
  /\ write([field |-> "header", of |-> hbuf, n |-> active_byte])
  /\ IF active_byte + 1 = HeaderSize
       THEN sector_state' = "read" /\ active_byte' = 1
       ELSE sector_state' = "header" /\ active_byte' = active_byte + 1
  /\ UNCHANGED <<active_drive, active_track, active_sector, hbuf, nbuf, cache>>

pass_header ==
  /\ sector_state = "header" /\ ~ArmMoved
  /\ write([field |-> "header", of |-> hbuf, n |-> active_byte])
  /\ IF active_byte + 1 = HeaderSize
       THEN sector_state' = "read" /\ active_byte' = 0
       ELSE sector_state' = "header" /\ active_byte' = active_byte + 1
  /\ UNCHANGED <<active_drive, active_track, active_sector, hbuf, nbuf, cache>>

\* Mutant: the same sector passes again.
pass_data_Again ==
  /\ sector_state = "read" /\ ~ArmMoved
  /\ write([field |-> "data", of |-> nbuf, n |-> active_byte])
  /\ active_byte' = active_byte + 1
  /\ IF active_byte + 1 = DataSize THEN inactivate ELSE UNCHANGED <<sector_state, hbuf, nbuf>>
  /\ UNCHANGED <<active_drive, active_track, active_sector, cache>>

pass_data ==
  /\ sector_state = "read" /\ ~ArmMoved
  /\ write([field |-> "data", of |-> nbuf, n |-> active_byte])
  /\ active_byte' = active_byte + 1
  /\ IF active_byte + 1 = DataSize
       THEN inactivate /\ active_sector' = (active_sector - 1) % NumSectors
       ELSE UNCHANGED <<sector_state, hbuf, nbuf, active_sector>>
  /\ UNCHANGED <<active_drive, active_track, cache>>

disk_update_head ==
  /\ pc = "head"
  /\ start_sector \/ pass_header \/ pass_data
  /\ IF sector_state' = "inactive"
       THEN return
       ELSE pc' = "send" /\ local_watchdog' = 0 /\ UNCHANGED drive
  /\ UNCHANGED <<arm>>

disk_controller_task ==
  \/ \E lone \in Phases \cup {NoPhase}, d \in Drives : read_status(lone, d)
  \/ poll \/ disk_update_head

----------------------------------------------------------------------------
(* The rest of disk_task and the other tasks, between two runs of           *)
(* disk_controller_task *)

\* The sector that was asked for is complete, and its checksum right.
sector_arrives ==
  /\ pc = "idle" /\ reading
  /\ cache_index' = [cache_index EXCEPT ![disk_external].valid = @ \cup {asked.sector}]
  /\ UNCHANGED <<asked, latch, arm, head, control>>

\* The host ends its answer, a timeout ends the wait, or the host connects or
\* goes away.
answer_ends ==
  /\ pc = "idle" /\ reading
  /\ asked' = NoSector
  /\ UNCHANGED <<cache_index, latch, arm, head, control>>

\* "@": the host has another disk in the drive.
disk_inserted ==
  /\ pc = "idle" /\ ~reading
  /\ cache_index' = [cache_index EXCEPT ![disk_external].valid = {}]
  /\ inactivate
  /\ UNCHANGED <<active_drive, active_track, active_sector, active_byte>>
  /\ UNCHANGED <<asked, latch, arm, control>>

Next ==
  \/ read_data
  \/ disk_controller_task
  \/ sector_arrives \/ answer_ends \/ disk_inserted

Spec == Init /\ [][Next]_vars

\* A request is sent.
ask == disk_update_head /\ asked' # asked

\* The scheduler runs disk_task for ever, the 6502 goes on reading the latch,
\* and the host takes the requests from the serial port and answers them again
\* and again.
FairSpec ==
  /\ Spec
  /\ WF_vars(disk_controller_task) /\ WF_vars(read_data)
  /\ SF_vars(ask) /\ SF_vars(sector_arrives) /\ SF_vars(answer_ends)

----------------------------------------------------------------------------
(* Properties *)

\* The variables hold values of their types; the arm stays over the disk.
TypeOK ==
  /\ Wanted \in BOOLEAN /\ Pending \in BOOLEAN /\ diskdata \in Byte
  /\ track2x \in [Drives -> 0..LastTrack2x] /\ phase \in [Drives -> Phases]
  /\ sector_state \in {"inactive", "header", "read"}
  /\ active_drive \in Drives \cup {disk_max}
  /\ active_track \in Tracks /\ active_sector \in Sectors
  /\ active_byte \in 0..DataSize \cup 0..HeaderSize
  /\ hbuf \in Sector \cup {NoSector} /\ nbuf \in Sector \cup {NoSector}
  /\ cache_index \in [Drives -> [track : Tracks \cup {NoTrack}, valid : SUBSET Sectors]]
  /\ asked \in Sector \cup {NoSector}
  /\ pc \in {"idle", "head", "send"} /\ drive \in Drives \cup {disk_max}
  /\ local_watchdog \in 0..Polls

Starts(b) == b = sync \/ (b.field = "header" /\ b.n = 0)

Continues(b, c) ==
  /\ b # sync /\ c # sync /\ c.of = b.of
  /\ \/ b.field = c.field /\ c.n = b.n + 1
     \/ /\ b.field = "header" /\ b.n = HeaderSize - 1
        /\ c.field = "data" /\ c.n = 0

\* What passes under the head is sync bytes and sectors, each from its first
\* byte, in order, with the data that its header names, wherever the 6502
\* reads, moves the arm or changes the drive, and whatever becomes of the cache.
StreamInOrder ==
  [][disk_update_head => Starts(diskdata') \/ Continues(diskdata, diskdata')]_vars

\* A byte of a sector is of the track the arm is over, never of one it left.
NothingFromAnotherTrack ==
  [][disk_update_head /\ diskdata' # sync => diskdata'.of.track = Track(drive)]_vars

\* While the host is answering, the cache line is the track it was asked for.
AnswerFitsTheLine == reading => cache_index[disk_external].track = asked.track

\* The 6502 stays with the first drive and leaves its arm alone, and the host
\* leaves the disk in it.
Settled == <>[][drive' # disk_internal /\ UNCHANGED arm /\ ~disk_inserted]_vars

Passes(i) ==
  /\ diskdata.field = "header" /\ diskdata.n = HeaderSize - 1
  /\ diskdata.of = [drive |-> disk_external, track |-> Track(disk_external), sector |-> i]

\* Then every sector of the track passes under the head, again and again.
EverySectorComesAround == \A i \in Sectors : Settled => []<>Passes(i)
=============================================================================
