------------------------ MODULE DiskControllerProofs ------------------------
(***************************************************************************)
(* What passes under the head of the emulated drive, for every number of   *)
(* tracks and sectors, every length of the fields and every order of the   *)
(* 6502's, the host's and disk_controller_task's steps.  And what a byte   *)
(* of it is: that the codes of a sector are undone by the reader of DOS,   *)
(* for every sector of every size, whatever the buffers held before.       *)
(***************************************************************************)
EXTENDS DiskController, Nibble, TLAPS

\* A drive is selected exactly while the head is at work.
DriveChosen ==
  /\ pc = "idle" => drive = disk_max
  /\ pc # "idle" => drive \in Drives

\* While a field passes, the buffers hold one sector of the head's track, and
\* the latch the byte before active_byte.
FieldAtHand ==
  /\ sector_state = "header" =>
       /\ hbuf \in Sector /\ nbuf = hbuf /\ hbuf.track = active_track
       /\ active_byte \in 1..HeaderSize - 1
       /\ diskdata = [field |-> "header", of |-> hbuf, n |-> active_byte - 1]
  /\ sector_state = "read" =>
       /\ nbuf \in Sector /\ nbuf.track = active_track
       /\ active_byte \in 0..DataSize - 1
       /\ diskdata = IF active_byte = 0
                       THEN [field |-> "header", of |-> nbuf, n |-> HeaderSize - 1]
                       ELSE [field |-> "data", of |-> nbuf, n |-> active_byte - 1]

\* Only the external drive's sectors are asked for.
LineAtHand ==
  reading => asked.drive = disk_external /\ cache_index[disk_external].track = asked.track

Inv == TypeOK /\ DriveChosen /\ FieldAtHand /\ LineAtHand

----------------------------------------------------------------------------
(* Numbers *)

LEMMA SectorBefore == \A s \in Sectors : (s - 1) % NumSectors \in Sectors
  BY DiskAssumption DEF Sectors

LEMMA TrackOfArm == \A x \in 0..LastTrack2x : x \div 2 \in Tracks
  BY DiskAssumption DEF Tracks

LEMMA ArmStays == \A x \in Int : Stopped(x) \in 0..LastTrack2x
  BY DiskAssumption DEF Stopped

LEMMA PullIsSmall == \A p, d : Pull(p, d) \in {-1, 0, 1}
  BY DEF Pull

LEMMA ZeroIsASector == 0 \in Sectors
  BY DiskAssumption DEF Sectors

\* The bytes that disk_update_head writes are bytes of the disk.
LEMMA HeaderByte ==
  \A s \in Sector, n \in 0..HeaderSize - 1 : [field |-> "header", of |-> s, n |-> n] \in Byte
  BY DEF Byte

LEMMA DataByte ==
  \A s \in Sector, n \in 0..DataSize - 1 : [field |-> "data", of |-> s, n |-> n] \in Byte
  BY DEF Byte

LEMMA SyncByte == sync \in Byte
  BY DEF Byte

----------------------------------------------------------------------------
(* What the steps of the head leave true, one disjunct of disk_update_head   *)
(* at a time.  Outside these lemmas only the fields they name change.        *)

\* The conjuncts of TypeOK that a byte under the head disturbs.
HeadOK ==
  /\ sector_state \in {"inactive", "header", "read"}
  /\ active_drive \in Drives \cup {disk_max}
  /\ active_track \in Tracks /\ active_sector \in Sectors
  /\ active_byte \in 0..DataSize \cup 0..HeaderSize
  /\ hbuf \in Sector \cup {NoSector} /\ nbuf \in Sector \cup {NoSector}

LatchOK == Wanted \in BOOLEAN /\ Pending \in BOOLEAN /\ diskdata \in Byte

ArmOK == track2x \in [Drives -> 0..LastTrack2x] /\ phase \in [Drives -> Phases]

CacheOK ==
  /\ cache_index \in [Drives -> [track : Tracks \cup {NoTrack}, valid : SUBSET Sectors]]
  /\ asked \in Sector \cup {NoSector}

ControlOK ==
  /\ pc \in {"idle", "head", "send"} /\ drive \in Drives \cup {disk_max}
  /\ local_watchdog \in 0..Polls

LEMMA TypeParts == TypeOK <=> LatchOK /\ ArmOK /\ HeadOK /\ CacheOK /\ ControlOK
  BY DEF TypeOK, LatchOK, ArmOK, HeadOK, CacheOK, ControlOK

\* The drive that is read is over a track of its disk.
LEMMA TrackOfDrive == ArmOK => \A d \in Drives : Track(d) \in Tracks
  BY TrackOfArm DEF ArmOK, Track

LEMMA WriteType ==
  ASSUME LatchOK, NEW b \in Byte, write(b)
  PROVE  LatchOK' /\ diskdata' = b
<1>1. diskdata' = b
  BY DEF write
<1>2. Wanted' \in BOOLEAN /\ Pending' \in BOOLEAN
  BY Zenon DEF write, LatchOK
<1>. QED
  BY <1>1, <1>2 DEF LatchOK

\* A request keeps the cache's type, and the line that an answer belongs to.
LEMMA RequestStep ==
  ASSUME CacheOK, LineAtHand, NEW s \in Sector, cache_request(s)
  PROVE  CacheOK' /\ LineAtHand'
<1>0. NoSector \notin Sector
  BY DEF NoSector, Sector, Drives, disk_max, disk_external, disk_internal
<1>1. CASE reading
  <2>1. UNCHANGED cache
    BY <1>1 DEF cache_request
  <2>. QED
    BY <2>1 DEF cache, CacheOK, LineAtHand, reading
<1>2. CASE ~reading
  <2>. DEFINE line == [track |-> s.track, valid |-> {}]
  <2>1. PICK differ \in BOOLEAN, room \in BOOLEAN :
          /\ cache_index' = IF cache_index[s.drive].track # s.track \/ differ
                              THEN [cache_index EXCEPT ![s.drive] = line]
                              ELSE cache_index
          /\ IF s.drive = disk_external /\ room THEN asked' = s ELSE UNCHANGED asked
    BY <1>2 DEF cache_request
  <2>2. s.drive \in Drives /\ s.track \in Tracks
    BY DEF Sector
  <2>3. line \in [track : Tracks \cup {NoTrack}, valid : SUBSET Sectors]
    BY <2>2
  <2>4. cache_index' \in [Drives -> [track : Tracks \cup {NoTrack}, valid : SUBSET Sectors]]
    BY <2>1, <2>2, <2>3 DEF CacheOK
  <2>5. asked' \in Sector \cup {NoSector}
    BY <2>1 DEF CacheOK
  <2>6. cache_index'[s.drive].track = s.track
    BY <2>1, <2>2 DEF CacheOK
  <2>7. LineAtHand'
    BY <1>2, <2>1, <2>6 DEF LineAtHand, reading
  <2>. QED
    BY <2>4, <2>5, <2>7 DEF CacheOK
<1>. QED
  BY <1>1, <1>2

\* The drive at work, for the steps of the head.
HeadAtWork == LatchOK /\ ArmOK /\ HeadOK /\ CacheOK /\ FieldAtHand /\ LineAtHand /\ drive \in Drives

HeadAtWorkAfter == LatchOK' /\ HeadOK' /\ CacheOK' /\ FieldAtHand' /\ LineAtHand'

LEMMA StartSector ==
  ASSUME HeadAtWork, start_sector
  PROVE  /\ HeadAtWorkAfter
         /\ Starts(diskdata')
         /\ diskdata' # sync => diskdata'.of.track = Track(drive)
<1>. DEFINE s == [drive |-> drive, track |-> Track(drive), sector |-> active_sector']
<1>1. Track(drive) \in Tracks /\ active_sector' \in Sectors
  BY TrackOfDrive DEF HeadAtWork, HeadOK, start_sector, NextSectors
<1>2. s \in Sector
  BY <1>1 DEF Sector, HeadAtWork
<1>3. active_drive' = drive /\ active_track' = Track(drive)
  BY DEF start_sector
<1>4. CASE iscached(s)
  <2>1. /\ sector_state' = "header" /\ active_byte' = 1 /\ hbuf' = s /\ nbuf' = s
        /\ write([field |-> "header", of |-> s, n |-> 0]) /\ UNCHANGED cache
    BY <1>4 DEF start_sector
  <2>2. [field |-> "header", of |-> s, n |-> 0] \in Byte
    BY <1>2, HeaderByte, DiskAssumption
  <2>3. LatchOK' /\ diskdata' = [field |-> "header", of |-> s, n |-> 0]
    BY <2>1, <2>2, WriteType DEF HeadAtWork
  <2>4. HeadOK'
    BY <1>1, <1>2, <1>3, <2>1, DiskAssumption DEF HeadOK, HeadAtWork
  <2>5. FieldAtHand'
    BY <1>2, <1>3, <2>1, <2>3, DiskAssumption DEF FieldAtHand
  <2>6. CacheOK' /\ LineAtHand'
    BY <2>1 DEF HeadAtWork, CacheOK, LineAtHand, reading, cache
  <2>7. Starts(diskdata') /\ diskdata'.of.track = Track(drive)
    BY <2>3 DEF Starts
  <2>. QED
    BY <2>3, <2>4, <2>5, <2>6, <2>7 DEF HeadAtWorkAfter
<1>5. CASE ~iscached(s)
  <2>1. inactivate /\ active_byte' = 0 /\ cache_request(s) /\ write(sync)
    BY <1>5 DEF start_sector
  <2>2. LatchOK' /\ diskdata' = sync
    BY <2>1, SyncByte, WriteType DEF HeadAtWork
  <2>3. HeadOK'
    BY <1>1, <1>3, <2>1, DiskAssumption DEF HeadOK, HeadAtWork, inactivate
  <2>4. FieldAtHand'
    BY <2>1 DEF FieldAtHand, inactivate
  <2>5. CacheOK' /\ LineAtHand'
    BY <1>2, <2>1, RequestStep DEF HeadAtWork
  <2>. QED
    BY <2>2, <2>3, <2>4, <2>5 DEF HeadAtWorkAfter, Starts
<1>. QED
  BY <1>4, <1>5

LEMMA PassHeader ==
  ASSUME HeadAtWork, pass_header
  PROVE  /\ HeadAtWorkAfter
         /\ Continues(diskdata, diskdata')
         /\ diskdata'.of.track = Track(drive)
<1>. DEFINE b == [field |-> "header", of |-> hbuf, n |-> active_byte]
<1>1. /\ hbuf \in Sector /\ nbuf = hbuf /\ hbuf.track = active_track
      /\ active_byte \in 1..HeaderSize - 1
      /\ diskdata = [field |-> "header", of |-> hbuf, n |-> active_byte - 1]
  BY DEF HeadAtWork, FieldAtHand, pass_header
<1>2. b \in Byte
  BY <1>1, HeaderByte, DiskAssumption
<1>3. LatchOK' /\ diskdata' = b
  BY <1>2, WriteType DEF HeadAtWork, pass_header
<1>4. UNCHANGED <<active_drive, active_track, active_sector, hbuf, nbuf, cache>>
  BY DEF pass_header
<1>5. CacheOK' /\ LineAtHand'
  BY <1>4 DEF HeadAtWork, CacheOK, LineAtHand, reading, cache
<1>6. ASSUME active_byte + 1 = HeaderSize PROVE HeadOK' /\ FieldAtHand'
  <2>1. sector_state' = "read" /\ active_byte' = 0
    BY <1>6 DEF pass_header
  <2>2. HeadOK'
    BY <1>4, <2>1, DiskAssumption DEF HeadOK, HeadAtWork
  <2>3. active_byte = HeaderSize - 1
    BY <1>1, <1>6, DiskAssumption
  <2>4. FieldAtHand'
    BY <1>1, <1>3, <1>4, <2>1, <2>3, DiskAssumption DEF FieldAtHand
  <2>. QED
    BY <2>2, <2>4
<1>7. ASSUME active_byte + 1 # HeaderSize PROVE HeadOK' /\ FieldAtHand'
  <2>1. sector_state' = "header" /\ active_byte' = active_byte + 1
    BY <1>7 DEF pass_header
  <2>2. active_byte' \in 1..HeaderSize - 1 /\ active_byte = active_byte' - 1
    BY <1>1, <1>7, <2>1, DiskAssumption
  <2>3. HeadOK'
    BY <1>4, <2>1, <2>2, DiskAssumption DEF HeadOK, HeadAtWork
  <2>4. FieldAtHand'
    BY <1>1, <1>3, <1>4, <2>1, <2>2 DEF FieldAtHand
  <2>. QED
    BY <2>3, <2>4
<1>8. Continues(diskdata, diskdata')
  BY <1>1, <1>3, DiskAssumption DEF Continues, sync
<1>9. diskdata'.of.track = Track(drive)
  BY <1>1, <1>3 DEF pass_header, ArmMoved
<1>. QED
  BY <1>3, <1>5, <1>6, <1>7, <1>8, <1>9 DEF HeadAtWorkAfter

LEMMA PassData ==
  ASSUME HeadAtWork, pass_data
  PROVE  /\ HeadAtWorkAfter
         /\ Continues(diskdata, diskdata')
         /\ diskdata'.of.track = Track(drive)
<1>. DEFINE b == [field |-> "data", of |-> nbuf, n |-> active_byte]
<1>1. /\ nbuf \in Sector /\ nbuf.track = active_track
      /\ active_byte \in 0..DataSize - 1
      /\ diskdata = IF active_byte = 0
                      THEN [field |-> "header", of |-> nbuf, n |-> HeaderSize - 1]
                      ELSE [field |-> "data", of |-> nbuf, n |-> active_byte - 1]
  BY DEF HeadAtWork, FieldAtHand, pass_data
<1>2. b \in Byte
  BY <1>1, DataByte
<1>3. LatchOK' /\ diskdata' = b
  BY <1>2, WriteType DEF HeadAtWork, pass_data
<1>4. UNCHANGED <<active_drive, active_track, cache>> /\ active_byte' = active_byte + 1
  BY DEF pass_data
<1>5. CacheOK' /\ LineAtHand'
  BY <1>4 DEF HeadAtWork, CacheOK, LineAtHand, reading, cache
<1>6. active_byte' \in 1..DataSize /\ active_byte = active_byte' - 1
  BY <1>1, <1>4, DiskAssumption
<1>7. ASSUME active_byte + 1 = DataSize PROVE HeadOK' /\ FieldAtHand'
  <2>1. inactivate /\ active_sector' = (active_sector - 1) % NumSectors
    BY <1>7 DEF pass_data
  <2>2. active_sector' \in Sectors
    BY <2>1, SectorBefore DEF HeadAtWork, HeadOK
  <2>3. HeadOK'
    BY <1>4, <1>6, <2>1, <2>2 DEF HeadOK, HeadAtWork, inactivate
  <2>4. FieldAtHand'
    BY <2>1 DEF FieldAtHand, inactivate
  <2>. QED
    BY <2>3, <2>4
<1>8. ASSUME active_byte + 1 # DataSize PROVE HeadOK' /\ FieldAtHand'
  <2>1. sector_state' = "read" /\ UNCHANGED <<hbuf, nbuf, active_sector>>
    BY <1>8 DEF pass_data
  <2>2. active_byte' \in 0..DataSize - 1 /\ active_byte' # 0
    BY <1>4, <1>6, <1>8, DiskAssumption
  <2>3. HeadOK'
    BY <1>4, <1>6, <2>1 DEF HeadOK, HeadAtWork
  <2>4. FieldAtHand'
    BY <1>1, <1>3, <1>4, <1>6, <2>1, <2>2 DEF FieldAtHand
  <2>. QED
    BY <2>3, <2>4
<1>9. Continues(diskdata, diskdata')
  BY <1>1, <1>3, DiskAssumption DEF Continues, sync
<1>10. diskdata'.of.track = Track(drive)
  BY <1>1, <1>3 DEF pass_data, ArmMoved
<1>. QED
  BY <1>3, <1>5, <1>7, <1>8, <1>9, <1>10 DEF HeadAtWorkAfter

----------------------------------------------------------------------------
(* The invariant *)

LEMMA InitInv == Init => Inv
<1>. SUFFICES ASSUME Init PROVE Inv
  OBVIOUS
<1>1. TypeOK
  <2>1. LatchOK
    BY SyncByte DEF Init, LatchOK
  <2>2. ArmOK
    BY DiskAssumption DEF Init, ArmOK, Phases
  <2>3. HeadOK
    BY ZeroIsASector, DiskAssumption DEF Init, HeadOK, Tracks
  <2>4. CacheOK
    BY DEF Init, CacheOK
  <2>5. ControlOK
    BY DiskAssumption DEF Init, ControlOK
  <2>. QED
    BY <2>1, <2>2, <2>3, <2>4, <2>5, TypeParts
<1>2. DriveChosen
  BY DEF Init, DriveChosen
<1>3. FieldAtHand
  BY DEF Init, FieldAtHand
<1>4. LineAtHand
  BY DEF Init, LineAtHand, reading
<1>. QED
  BY <1>1, <1>2, <1>3, <1>4 DEF Inv

LEMMA ReadData == Inv /\ read_data => Inv'
<1>. SUFFICES ASSUME Inv, read_data PROVE Inv'
  OBVIOUS
<1>0. UNCHANGED <<diskdata, arm, head, cache, control>>
  BY DEF read_data
<1>1. LatchOK'
  <2>1. LatchOK
    BY TypeParts DEF Inv
  <2>2. Wanted' \in BOOLEAN /\ Pending' \in BOOLEAN
    BY <2>1, Zenon DEF read_data, LatchOK
  <2>. QED
    BY <1>0, <2>1, <2>2 DEF LatchOK
<1>2. ArmOK' /\ HeadOK' /\ CacheOK' /\ ControlOK'
  BY <1>0, TypeParts DEF Inv, ArmOK, HeadOK, CacheOK, ControlOK, arm, head, cache, control
<1>3. DriveChosen' /\ FieldAtHand' /\ LineAtHand'
  BY <1>0 DEF Inv, DriveChosen, FieldAtHand, LineAtHand, reading, head, cache, control
<1>. QED
  BY <1>1, <1>2, <1>3, TypeParts, PTL DEF Inv

LEMMA MoveArm ==
  ASSUME ArmOK, HeadOK, FieldAtHand, NEW p \in Phases, NEW d \in Drives, move_arm(p, d),
         UNCHANGED diskdata
  PROVE  ArmOK' /\ HeadOK' /\ FieldAtHand'
<1>. DEFINE x == track2x[d] + Pull(p, d)
<1>1. track2x[d] \in 0..LastTrack2x
  BY DEF ArmOK
<1>2. x \in Int
  BY <1>1, PullIsSmall, DiskAssumption
<1>3. /\ track2x' = [track2x EXCEPT ![d] = Stopped(x)]
      /\ phase' = [phase EXCEPT ![d] = p]
      /\ UNCHANGED <<active_drive, active_track, active_byte>>
  BY DEF move_arm
<1>4. ArmOK'
  BY <1>2, <1>3, ArmStays DEF ArmOK
<1>5. CASE x < 0
  <2>1. inactivate /\ active_sector' = 0
    BY <1>5 DEF move_arm
  <2>2. HeadOK'
    BY <1>3, <2>1, ZeroIsASector DEF HeadOK, inactivate
  <2>3. FieldAtHand'
    BY <2>1 DEF FieldAtHand, inactivate
  <2>. QED
    BY <1>4, <2>2, <2>3
<1>6. CASE ~(x < 0)
  <2>1. UNCHANGED <<sector_state, hbuf, nbuf, active_sector>>
    BY <1>6 DEF move_arm
  <2>2. HeadOK'
    BY <1>3, <2>1 DEF HeadOK
  <2>3. FieldAtHand'
    BY <1>3, <2>1 DEF FieldAtHand
  <2>. QED
    BY <1>4, <2>2, <2>3
<1>. QED
  BY <1>5, <1>6

LEMMA ReadStatus ==
  ASSUME Inv, NEW lone \in Phases \cup {NoPhase}, NEW d \in Drives, read_status(lone, d)
  PROVE  Inv'
<1>0. UNCHANGED <<latch, cache, local_watchdog>> /\ pc = "idle"
  BY DEF read_status
<1>1. LatchOK /\ ArmOK /\ HeadOK /\ CacheOK /\ ControlOK
  BY TypeParts DEF Inv
<1>2. LatchOK' /\ CacheOK' /\ LineAtHand'
  BY <1>0, <1>1 DEF LatchOK, CacheOK, Inv, LineAtHand, reading, latch, cache
<1>3. ControlOK' /\ DriveChosen'
  <2>1. CASE Wanted /\ ~Pending
    <3>1. pc' = "head" /\ drive' = d
      BY <2>1 DEF read_status
    <3>. QED
      BY <1>0, <1>1, <3>1 DEF ControlOK, DriveChosen
  <2>2. CASE ~(Wanted /\ ~Pending)
    <3>1. UNCHANGED <<pc, drive>>
      BY <2>2 DEF read_status
    <3>. QED
      BY <1>0, <1>1, <3>1 DEF ControlOK, DriveChosen, Inv
  <2>. QED
    BY <2>1, <2>2
<1>4. ArmOK' /\ HeadOK' /\ FieldAtHand'
  <2>1. CASE lone \in Phases /\ d = disk_external /\ ~Wanted /\ ~Pending
    <3>1. move_arm(lone, d)
      BY <2>1 DEF read_status
    <3>. QED
      BY <1>0, <1>1, <2>1, <3>1, MoveArm DEF Inv, latch
  <2>2. CASE ~(lone \in Phases /\ d = disk_external /\ ~Wanted /\ ~Pending)
    <3>1. UNCHANGED <<arm, head>>
      BY <2>2, Zenon DEF read_status
    <3>. QED
      BY <1>0, <1>1, <3>1 DEF Inv, ArmOK, HeadOK, FieldAtHand, latch, arm, head
  <2>. QED
    BY <2>1, <2>2
<1>. QED
  BY <1>2, <1>3, <1>4, TypeParts, PTL DEF Inv

LEMMA Poll == Inv /\ poll => Inv'
<1>. SUFFICES ASSUME Inv, poll PROVE Inv'
  OBVIOUS
<1>0. UNCHANGED <<latch, arm, head, cache>> /\ pc = "send"
  BY DEF poll
<1>1. LatchOK' /\ ArmOK' /\ HeadOK' /\ CacheOK'
  BY <1>0, TypeParts DEF Inv, LatchOK, ArmOK, HeadOK, CacheOK, latch, arm, head, cache
<1>2. FieldAtHand' /\ LineAtHand'
  BY <1>0 DEF Inv, FieldAtHand, LineAtHand, reading, latch, head, cache
<1>3. ControlOK
  BY TypeParts DEF Inv
<1>4. ControlOK' /\ DriveChosen'
  <2>1. CASE local_watchdog < Polls
    <3>1. local_watchdog' = local_watchdog + 1 /\ pc' \in {"head", "send"} /\ UNCHANGED drive
      BY <2>1 DEF poll
    <3>. QED
      BY <1>0, <1>3, <2>1, <3>1, DiskAssumption DEF ControlOK, DriveChosen, Inv
  <2>2. CASE ~(local_watchdog < Polls)
    <3>1. return
      BY <2>2 DEF poll
    <3>. QED
      BY <3>1, DiskAssumption DEF return, ControlOK, DriveChosen
  <2>. QED
    BY <2>1, <2>2
<1>. QED
  BY <1>1, <1>2, <1>4, TypeParts, PTL DEF Inv

LEMMA UpdateHead ==
  ASSUME Inv, disk_update_head
  PROVE  /\ Inv'
         /\ Starts(diskdata') \/ Continues(diskdata, diskdata')
         /\ diskdata' # sync => diskdata'.of.track = Track(drive)
<1>0. HeadAtWork /\ pc = "head"
  BY TypeParts DEF Inv, DriveChosen, HeadAtWork, disk_update_head
<1>1. /\ HeadAtWorkAfter
      /\ Starts(diskdata') \/ Continues(diskdata, diskdata')
      /\ diskdata' # sync => diskdata'.of.track = Track(drive)
  BY <1>0, StartSector, PassHeader, PassData DEF disk_update_head
<1>2. ArmOK'
  BY <1>0 DEF HeadAtWork, ArmOK, disk_update_head, arm
<1>3. ControlOK' /\ DriveChosen'
  <2>1. CASE return
    BY <2>1, DiskAssumption DEF return, ControlOK, DriveChosen
  <2>2. CASE pc' = "send" /\ local_watchdog' = 0 /\ UNCHANGED drive
    BY <1>0, <2>2, DiskAssumption DEF ControlOK, DriveChosen, HeadAtWork
  <2>. QED
    BY <2>1, <2>2 DEF disk_update_head
<1>. QED
  BY <1>1, <1>2, <1>3, TypeParts, PTL DEF Inv, HeadAtWorkAfter

\* The host's answers, and a new disk.
LEMMA HostStep ==
  ASSUME Inv, sector_arrives \/ answer_ends \/ disk_inserted
  PROVE  Inv'
<1>0. UNCHANGED <<latch, arm, control>>
  BY DEF sector_arrives, answer_ends, disk_inserted
<1>1. LatchOK /\ ArmOK /\ HeadOK /\ CacheOK /\ ControlOK
  BY TypeParts DEF Inv
<1>2. LatchOK' /\ ArmOK' /\ ControlOK' /\ DriveChosen'
  BY <1>0, <1>1 DEF LatchOK, ArmOK, ControlOK, Inv, DriveChosen, latch, arm, control
<1>3. HeadOK' /\ FieldAtHand'
  <2>1. CASE UNCHANGED head
    BY <1>0, <1>1, <2>1 DEF Inv, HeadOK, FieldAtHand, head, latch
  <2>2. CASE disk_inserted
    BY <1>1, <2>2 DEF disk_inserted, inactivate, HeadOK, FieldAtHand
  <2>. QED
    BY <2>1, <2>2 DEF sector_arrives, answer_ends
<1>4. CacheOK' /\ LineAtHand'
  <2>0. disk_external \in Drives
    BY DEF Drives
  <2>1. CASE sector_arrives
    <3>. DEFINE line == cache_index[disk_external]
                new == [line EXCEPT !.valid = @ \cup {asked.sector}]
    <3>1. asked \in Sector /\ asked' = asked /\ cache_index' = [cache_index EXCEPT ![disk_external] = new]
      BY <1>1, <2>1 DEF sector_arrives, reading, CacheOK
    <3>2. line \in [track : Tracks \cup {NoTrack}, valid : SUBSET Sectors]
      BY <1>1, <2>0 DEF CacheOK
    <3>3. asked.sector \in Sectors
      BY <3>1 DEF Sector
    <3>4. new \in [track : Tracks \cup {NoTrack}, valid : SUBSET Sectors] /\ new.track = line.track
      BY <3>2, <3>3
    <3>5. CacheOK'
      BY <1>1, <3>1, <3>4 DEF CacheOK
    <3>6. cache_index'[disk_external].track = line.track
      BY <1>1, <2>0, <3>1, <3>4 DEF CacheOK
    <3>7. LineAtHand'
      BY <3>1, <3>6 DEF Inv, LineAtHand, reading
    <3>. QED
      BY <3>5, <3>7
  <2>2. CASE answer_ends
    BY <1>1, <2>2 DEF answer_ends, CacheOK, LineAtHand, reading
  <2>3. CASE disk_inserted
    <3>. DEFINE line == cache_index[disk_external]
                new == [line EXCEPT !.valid = {}]
    <3>1. asked' = asked /\ ~reading /\ cache_index' = [cache_index EXCEPT ![disk_external] = new]
      BY <2>3 DEF disk_inserted
    <3>2. line \in [track : Tracks \cup {NoTrack}, valid : SUBSET Sectors]
      BY <1>1, <2>0 DEF CacheOK
    <3>3. CacheOK'
      BY <1>1, <3>1, <3>2 DEF CacheOK
    <3>4. LineAtHand'
      BY <3>1 DEF LineAtHand, reading
    <3>. QED
      BY <3>3, <3>4
  <2>. QED
    BY <2>1, <2>2, <2>3
<1>. QED
  BY <1>2, <1>3, <1>4, TypeParts, PTL DEF Inv

LEMMA Stutter == Inv /\ UNCHANGED vars => Inv'
<1>. SUFFICES ASSUME Inv, UNCHANGED vars PROVE Inv'
  OBVIOUS
<1>1. LatchOK' /\ ArmOK' /\ HeadOK' /\ CacheOK' /\ ControlOK'
  BY TypeParts DEF Inv, vars, latch, arm, head, cache, control, LatchOK, ArmOK, HeadOK, CacheOK, ControlOK
<1>2. DriveChosen' /\ FieldAtHand' /\ LineAtHand'
  BY DEF Inv, vars, latch, arm, head, cache, control, DriveChosen, FieldAtHand, LineAtHand, reading
<1>. QED
  BY <1>1, <1>2, TypeParts, PTL DEF Inv

LEMMA StepInv == Inv /\ [Next]_vars => Inv'
<1>. SUFFICES ASSUME Inv, [Next]_vars PROVE Inv'
  OBVIOUS
<1>1. CASE read_data
  BY <1>1, ReadData
<1>2. CASE disk_controller_task
  BY <1>2, ReadStatus, Poll, UpdateHead DEF disk_controller_task
<1>3. CASE sector_arrives \/ answer_ends \/ disk_inserted
  BY <1>3, HostStep
<1>4. CASE UNCHANGED vars
  BY <1>4, Stutter
<1>. QED
  BY <1>1, <1>2, <1>3, <1>4 DEF Next

\* The inductive invariant holds in every behaviour.
LEMMA InvHolds == Spec => []Inv
  BY InitInv, StepInv, PTL DEF Spec

----------------------------------------------------------------------------
(* The theorems *)

\* The variables keep their types and the arm stays over the disk, wherever the
\* 6502 drives it (disk.c:829-837).
THEOREM TypeCorrect == Spec => []TypeOK
<1>1. Inv => TypeOK
  BY DEF Inv
<1>. QED
  BY <1>1, InvHolds, PTL

\* While the host answers, the cache line is of the track it was asked for
\* (cache_request, disk.c:66-75).
THEOREM LineCorrect == Spec => []AnswerFitsTheLine
<1>1. Inv => AnswerFitsTheLine
  BY DEF Inv, LineAtHand, AnswerFitsTheLine
<1>. QED
  BY <1>1, InvHolds, PTL

\* The head passes whole sectors in the order of their bytes
\* (disk_update_head, disk.c:377-491).
THEOREM StreamCorrect == Spec => StreamInOrder
<1>1. Inv /\ [Next]_vars =>
        [disk_update_head => Starts(diskdata') \/ Continues(diskdata, diskdata')]_vars
  BY UpdateHead
<1>. QED
  BY <1>1, InvHolds, PTL DEF Spec, StreamInOrder

\* No byte comes from a track the arm has left (disk.c:377).
THEOREM TrackCorrect == Spec => NothingFromAnotherTrack
<1>1. Inv /\ [Next]_vars =>
        [disk_update_head /\ diskdata' # sync => diskdata'.of.track = Track(drive)]_vars
  BY UpdateHead
<1>. QED
  BY <1>1, InvHolds, PTL DEF Spec, NothingFromAnotherTrack

----------------------------------------------------------------------------
(* The codes of a sector *)

LEMMA DivMod ==
  ASSUME NEW y \in Nat, NEW d \in Nat \ {0}
  PROVE  /\ y \div d \in Nat /\ y % d \in 0..d - 1
         /\ y = d * (y \div d) + (y % d)
  BY Z3

\* A small number is its own remainder.
LEMMA SmallMod ==
  ASSUME NEW d \in Nat \ {0}, NEW y \in 0..d - 1
  PROVE  y % d = y
  BY Z3

\* A byte of the sector lies in the first, second or last third.
LEMMA Thirds ==
  ASSUME NEW y \in Place
  PROVE  /\ y % Third \in 0..Third - 1
         /\ \/ y \div Third = 0 /\ y = y % Third
            \/ y \div Third = 1 /\ y = Third + (y % Third)
            \/ y \div Third = 2 /\ y = 2 * Third + (y % Third)
<1> DEFINE q == y \div Third
           r == y % Third
<1>1. /\ y \in Nat /\ Third \in Nat \ {0} /\ y < 3 * Third
  BY NibbleAssumption DEF Place
<1>2. /\ q \in Nat /\ r \in 0..Third - 1 /\ y = Third * q + r
  BY <1>1, DivMod
<1>3. q \in {0, 1, 2}
  <2> HIDE DEF q, r
  <2>1. ASSUME q >= 3 PROVE FALSE
    <3>1. PICK e \in Nat : q = 3 + e
      <4>1. q - 3 \in Nat /\ q = 3 + (q - 3)
        BY <1>2, <2>1
      <4> QED BY <4>1
    <3>2. Third * q = 3 * Third + Third * e /\ Third * e \in Nat
      BY <1>1, <3>1, Z3
    <3> QED BY <1>1, <1>2, <3>2
  <2> QED BY <1>2, <2>1
<1> HIDE DEF q, r
<1>4. CASE q = 0
  BY <1>1, <1>2, <1>4, Z3 DEF q, r
<1>5. CASE q = 1
  BY <1>1, <1>2, <1>5, Z3 DEF q, r
<1>6. CASE q = 2
  BY <1>1, <1>2, <1>6, Z3 DEF q, r
<1> QED BY <1>3, <1>4, <1>5, <1>6

-----------------------------------------------------------------------------
(* The header *)

\* A byte of the header is read as it was written (disk.c:407-419).
THEOREM HeaderRoundTrip == \A b \in Octet : Joined(Odd(b), Even(b)) = b
<1> SUFFICES ASSUME NEW b \in Octet PROVE Joined(Odd(b), Even(b)) = b
  OBVIOUS
<1>1. ASSUME NEW i \in 0..7 PROVE Joined(Odd(b), Even(b))[i] = b[i]
  <2>1. Odd(b) = [j \in 0..7 |-> j % 2 = 1 \/ b[j + 1]] /\ Even(b) = [j \in 0..7 |-> j % 2 = 1 \/ b[j]]
    BY DEF Odd, Even
  <2>2. b[i] \in BOOLEAN
    BY DEF Octet
  <2>3. CASE i = 0
    BY <2>1, <2>2, <2>3 DEF Joined
  <2>4. CASE i # 0
    BY <2>1, <2>2, <2>4, Z3 DEF Joined
  <2> QED BY <2>3, <2>4
<1> QED BY <1>1 DEF Joined, Octet

-----------------------------------------------------------------------------
(* The data *)

\* One pass: two new bits below, the others shifted.
LEMMA PassBits ==
  ASSUME NEW n, NEW raw, NEW third, NEW x \in 0..Third - 1
  PROVE  LET a == raw[(third * Third + Third - 1 - x) % SECTOR_SIZE]
         IN  /\ Pass(n, raw, third)[x][0] = a[1] /\ Pass(n, raw, third)[x][1] = a[0]
             /\ \A i \in 2..5 : Pass(n, raw, third)[x][i] = n[x][i - 2]
  BY DEF Pass

\* The bits that nbuf2 holds of a byte, after three passes.
LEMMA TwoBits ==
  ASSUME NEW raw \in Raw, NEW old, NEW y \in Place
  PROVE  LET x == Third - 1 - (y % Third)
             shift == 2 * (y \div Third)
         IN  /\ x \in 0..Third - 1
             /\ nbuf2(old, raw)[x][shift + 1] = raw[y][0]
             /\ nbuf2(old, raw)[x][shift] = raw[y][1]
<1> DEFINE r == y % Third
           x == Third - 1 - r
           a(k) == raw[(k * Third + Third - 1 - x) % SECTOR_SIZE]
           p2 == Pass(old, raw, 2)
           p1 == Pass(p2, raw, 1)
           p0 == Pass(p1, raw, 0)
<1>1. r \in 0..Third - 1 /\ x \in 0..Third - 1 /\ Third \in Nat \ {0}
  BY Thirds, NibbleAssumption
<1>2. p2[x][0] = a(2)[1] /\ p2[x][1] = a(2)[0]
  BY <1>1, PassBits
<1>3. /\ p1[x][0] = a(1)[1] /\ p1[x][1] = a(1)[0]
      /\ p1[x][2] = p2[x][0] /\ p1[x][3] = p2[x][1]
  <2> HIDE DEF p2
  <2> QED BY <1>1, PassBits
<1>4. /\ p0[x][0] = a(0)[1] /\ p0[x][1] = a(0)[0]
      /\ p0[x][2] = p1[x][0] /\ p0[x][3] = p1[x][1]
      /\ p0[x][4] = p1[x][2] /\ p0[x][5] = p1[x][3]
  <2> HIDE DEF p1
  <2> QED BY <1>1, PassBits
<1>5. \A i \in 0..5 : nbuf2(old, raw)[x][i] = p0[x][i]
  BY <1>1 DEF nbuf2
<1>6. ASSUME NEW k \in 0..2, y = k * Third + r PROVE a(k) = raw[y]
  <2>1. k * Third + Third - 1 - x = y
    BY <1>1, <1>6, Z3
  <2>2. y % SECTOR_SIZE = y
    BY SmallMod, NibbleAssumption DEF Place
  <2> QED BY <2>1, <2>2
<1> HIDE DEF p0, p1, p2, a
<1>7. CASE y \div Third = 0 /\ y = r
  <2>1. a(0) = raw[y]
    BY <1>1, <1>6, <1>7
  <2>2. 2 * (y \div Third) = 0 /\ 0 + 1 = 1 /\ 0 \in 0..5 /\ 1 \in 0..5
    BY <1>7
  <2>3. nbuf2(old, raw)[x][1] = raw[y][0] /\ nbuf2(old, raw)[x][0] = raw[y][1]
    BY <1>1, <1>4, <1>5, <2>1, <2>2
  <2> QED BY <1>1, <2>2, <2>3
<1>8. CASE y \div Third = 1 /\ y = Third + r
  <2>1. a(1) = raw[y]
    BY <1>1, <1>6, <1>8
  <2>2. 2 * (y \div Third) = 2 /\ 2 + 1 = 3 /\ 2 \in 0..5 /\ 3 \in 0..5
    BY <1>8
  <2>3. nbuf2(old, raw)[x][3] = raw[y][0] /\ nbuf2(old, raw)[x][2] = raw[y][1]
    BY <1>1, <1>3, <1>4, <1>5, <2>1, <2>2
  <2> QED BY <1>1, <2>2, <2>3
<1>9. CASE y \div Third = 2 /\ y = 2 * Third + r
  <2>1. a(2) = raw[y]
    BY <1>1, <1>6, <1>9
  <2>2. 2 * (y \div Third) = 4 /\ 4 + 1 = 5 /\ 4 \in 0..5 /\ 5 \in 0..5
    BY <1>9
  <2>3. nbuf2(old, raw)[x][5] = raw[y][0] /\ nbuf2(old, raw)[x][4] = raw[y][1]
    BY <1>1, <1>2, <1>3, <1>4, <1>5, <2>1, <2>2
  <2> QED BY <1>1, <2>2, <2>3
<1> QED BY <1>7, <1>8, <1>9, Thirds

\* A sector that is nibblized and taken apart again is the sector, whatever nbuf2
\* held before and however the last third overlaps the first (disk.c:196-243).
THEOREM SectorRoundTrip ==
  \A raw \in Raw : \A old : denibblize(nbuf1(raw), nbuf2(old, raw)) = raw
<1> SUFFICES ASSUME NEW raw \in Raw, NEW old
             PROVE  denibblize(nbuf1(raw), nbuf2(old, raw)) = raw
  OBVIOUS
<1> DEFINE result == denibblize(nbuf1(raw), nbuf2(old, raw))
<1>1. ASSUME NEW y \in Place PROVE result[y] = raw[y]
  <2>1. /\ result[y][0] = raw[y][0] /\ result[y][1] = raw[y][1]
        /\ result[y] = [i \in 0..7 |-> result[y][i]]
    BY TwoBits DEF denibblize
  <2>2. ASSUME NEW i \in 2..7 PROVE result[y][i] = raw[y][i]
    BY DEF denibblize, nbuf1
  <2>3. raw[y] \in Octet
    BY DEF Raw
  <2> HIDE DEF result
  <2>4. ASSUME NEW i \in 0..7 PROVE result[y][i] = raw[y][i]
    BY <2>1, <2>2
  <2> QED BY <2>1, <2>3, <2>4 DEF Octet
<1> QED BY <1>1 DEF denibblize, Raw

-----------------------------------------------------------------------------
(* The chain *)

LEMMA XorUndone ==
  ASSUME NEW a \in Nibble, NEW b \in Nibble
  PROVE  Xor(a, Xor(a, b)) = b /\ Xor(a, a) = Zero
  BY DEF Xor, Zero, Nibble

LEMMA ZeroIsNibble == Zero \in Nibble
  BY DEF Zero, Nibble

LEMMA FieldType ==
  ASSUME NEW n1 \in [Place -> Nibble], NEW n2 \in [0..Third - 1 -> Nibble]
  PROVE  Field(n1, n2) \in [0..Checksum - 1 -> Nibble]
<1>1. ASSUME NEW k \in 0..Checksum - 1
      PROVE  IF k < Third THEN Third - 1 - k \in 0..Third - 1 ELSE k - Third \in Place
  BY NibbleAssumption DEF Checksum, Place
<1> QED BY <1>1 DEF Field

\* A reader that has the nibble before has the next one when it has read what is
\* sent for it, and nothing is left after the checksum (disk.c:460-470): one
\* nibble after another it has the whole field.
THEOREM NextNibbleIsRead ==
  \A n1 \in [Place -> Nibble], n2 \in [0..Third - 1 -> Nibble] :
    /\ \A k \in 0..Checksum - 1 :
         Accumulated(IF k = 0 THEN Zero ELSE Field(n1, n2)[k - 1], Sent(n1, n2)[k])
           = Field(n1, n2)[k]
    /\ Accumulated(Field(n1, n2)[Checksum - 1], Sent(n1, n2)[Checksum]) = Zero
<1> SUFFICES ASSUME NEW n1 \in [Place -> Nibble], NEW n2 \in [0..Third - 1 -> Nibble]
             PROVE  /\ \A k \in 0..Checksum - 1 :
                         Accumulated(IF k = 0 THEN Zero ELSE Field(n1, n2)[k - 1], Sent(n1, n2)[k])
                           = Field(n1, n2)[k]
                    /\ Accumulated(Field(n1, n2)[Checksum - 1], Sent(n1, n2)[Checksum]) = Zero
  OBVIOUS
<1> DEFINE F == Field(n1, n2)
           S == Sent(n1, n2)
<1>1. F \in [0..Checksum - 1 -> Nibble] /\ Checksum \in Nat \ {0}
  BY FieldType, NibbleAssumption DEF Checksum
<1>2. /\ S[0] = Xor(Zero, F[0])
      /\ \A k \in 1..Checksum - 1 : S[k] = Xor(F[k - 1], F[k])
      /\ S[Checksum] = F[Checksum - 1]
  BY <1>1 DEF Sent
<1> HIDE DEF F, S
<1>3. ASSUME NEW k \in 0..Checksum - 1
      PROVE  Accumulated(IF k = 0 THEN Zero ELSE F[k - 1], S[k]) = F[k]
  <2>1. CASE k = 0
    BY <1>1, <1>2, <2>1, XorUndone, ZeroIsNibble DEF Accumulated
  <2>2. CASE k # 0
    <3>1. k \in 1..Checksum - 1 /\ F[k - 1] \in Nibble /\ F[k] \in Nibble
      BY <1>1, <2>2
    <3> QED BY <1>2, <2>2, <3>1, XorUndone DEF Accumulated
  <2> QED BY <2>1, <2>2
<1>4. Accumulated(F[Checksum - 1], S[Checksum]) = Zero
  BY <1>1, <1>2, XorUndone DEF Accumulated
<1> QED BY <1>3, <1>4 DEF F, S
=============================================================================
