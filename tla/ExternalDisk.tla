---------------------------- MODULE ExternalDisk ----------------------------
(***************************************************************************)
(* The disk that a program on the host serves over the second serial port: *)
(* external_disk_buffer_management and cache_request (sw/src/disk.c).      *)
(*                                                                         *)
(* The controller asks for a sector, "<tts"; the host answers "#tts", the  *)
(* bytes, "=cc" and "*".  Whenever its disk is changed it sends "@".  What *)
(* was received is parsed in one go; between two runs of the parser the    *)
(* head of the drive may use any sector that is marked valid.              *)
(*                                                                         *)
(* A token is one member of a sequence: the two digits of a byte, or a     *)
(* letter with its digits.  A byte is its place on the disk, so that bytes *)
(* of two sectors differ; one put together of digits that belong to no     *)
(* byte is NULL.  Volumes are only compared, and the comparison may come   *)
(* out either way: those above 127 differ from themselves.                 *)
(***************************************************************************)
EXTENDS Naturals, Sequences

CONSTANTS
  Tracks,
  SectorCount,  \* sectors of a track
  SectorSize,   \* SECTOR_SIZE, in bytes
  RetryLimit,   \* 1000: empty polls before a request is given up
  TxRoom,       \* requests that fit into the serial port
  RxSize,       \* CFG_TUD_CDC_RX_BUFSIZE, in tokens
  Patient,      \* whether the host answers in time or not at all, and opens
                \* and closes the port only while nothing is under way
  Terse,        \* whether "@" comes with the three characters that the parser
                \* skips behind it and no more, "@fe\n", or with one of its own
                \* in the place of the digit read next, "@254\n"
  NoTrack, NULL

Sectors == 0..SectorCount - 1
Place == 0..SectorSize - 1
Byte == [track : Tracks, sector : Sectors, n : Place]
Request == [track : Tracks, sector : Sectors]

ASSUME ExternalAssumption ==
  /\ NoTrack \notin Tracks
  /\ NULL \notin Sectors \cup Request \cup Byte
  /\ SectorCount \in Nat \ {0}
  /\ SectorSize \in Nat \ {0} /\ RetryLimit \in Nat
  /\ TxRoom \in Nat \ {0} /\ RxSize \in Nat \ {0}
  /\ Patient \in BOOLEAN /\ Terse \in BOOLEAN

VARIABLES
  external_disk_state,
  line,            \* cache_index[disk_external]: its track and valid sectors
  track_cache,     \* the bytes of its sectors
  sector_start, current_sector, current_byte,  \* partial_sector: the bytes
                   \* written, counted up to the end of the cache line
  half_byte,       \* whether it holds a first digit
  retries,
  buf,             \* what was received and is not parsed yet
  asked,           \* history: the sector asked for last
  open, to_host, sending,  \* the host: has opened the port, requests it has not
                           \* read, the rest of its answer
  from_host        \* the port's receive buffer

index == <<line, track_cache, sector_start, current_sector, current_byte, half_byte>>
host == <<open, to_host, sending>>
vars == <<external_disk_state, index, retries, buf, asked, host, from_host>>

Data(t, s) == [n \in Place |-> [track |-> t, sector |-> s, n |-> n]]
Token ==
  [k : {"#", "="}, of : Request] \cup [k : {"byte"}, byte : Byte] \cup [k : {"*", "@"}]

reading == external_disk_state = "reading"

Init ==
  /\ external_disk_state = "no_disk"
  /\ line = [track |-> NoTrack, valid |-> {}]
  /\ track_cache = [s \in Sectors |-> [n \in Place |-> NULL]]
  /\ sector_start = NULL /\ current_sector \in Sectors
  /\ current_byte = 0 /\ half_byte = FALSE
  /\ retries = 0 /\ buf = <<>> /\ asked = NULL
  /\ open = FALSE /\ to_host = <<>> /\ sending = <<>> /\ from_host = <<>>

----------------------------------------------------------------------------
(* The head of the drive *)

\* Mutant: the sectors of the other track stay valid.
Line_KeepsValid(t, differ) == [line EXCEPT !.track = t]

Line(t, differ) ==
  IF line.track # t \/ differ THEN [track |-> t, valid |-> {}] ELSE line

\* A sector is wanted that is not in the cache.
cache_request(t, s) ==
  /\ buf = <<>> /\ ~reading
  /\ ~(line.track = t /\ s \in line.valid)
  /\ \E differ \in BOOLEAN : line' = Line(t, differ)
  /\ IF Len(to_host) < TxRoom
       THEN /\ to_host' = Append(to_host, [track |-> t, sector |-> s])
            /\ asked' = [track |-> t, sector |-> s]
            /\ sector_start' = NULL /\ external_disk_state' = "reading"
       ELSE UNCHANGED <<to_host, asked, sector_start, external_disk_state>>
  /\ UNCHANGED <<track_cache, current_sector, current_byte, half_byte, retries, buf,
                 open, sending, from_host>>

----------------------------------------------------------------------------
(* external_disk_buffer_management *)

receive ==
  /\ reading /\ buf = <<>> /\ from_host # <<>>
  /\ buf' = from_host /\ from_host' = <<>>
  /\ retries' = 0
  /\ UNCHANGED <<external_disk_state, index, asked, host>>

\* The host has something to say that it will say in time.
Owed == Patient /\ open /\ (to_host # <<>> \/ sending # <<>>)

\* Mutant: the state is left alone when the request is given up.
poll_Stays ==
  /\ reading /\ buf = <<>> /\ from_host = <<>>
  /\ Owed => retries < RetryLimit
  /\ IF retries > RetryLimit
       THEN retries' = 0 /\ sector_start' = NULL
       ELSE retries' = retries + 1 /\ UNCHANGED sector_start
  /\ UNCHANGED <<external_disk_state, line, track_cache, current_sector, current_byte, half_byte,
                 buf, asked, host, from_host>>

\* Nothing is there; after some polls the request is given up.
poll ==
  /\ reading /\ buf = <<>> /\ from_host = <<>>
  /\ Owed => retries < RetryLimit
  /\ IF retries > RetryLimit
       THEN retries' = 0 /\ sector_start' = NULL /\ external_disk_state' = "inserted"
       ELSE retries' = retries + 1 /\ UNCHANGED <<external_disk_state, sector_start>>
  /\ UNCHANGED <<line, track_cache, current_sector, current_byte, half_byte, buf, asked, host,
                 from_host>>

Parses(k) == buf # <<>> /\ Head(buf).k = k /\ buf' = Tail(buf)

\* Mutant: the bytes go on where the last sector ended.
parse_header_KeepsCount ==
  /\ Parses("#")
  /\ sector_start' = Head(buf).of.sector /\ current_sector' = Head(buf).of.sector
  /\ half_byte' = FALSE
  /\ UNCHANGED <<external_disk_state, line, track_cache, current_byte, retries, asked, host, from_host>>

\* A header for another track than the line's is noticed and used all the same.
parse_header ==
  /\ Parses("#")
  /\ sector_start' = Head(buf).of.sector /\ current_sector' = Head(buf).of.sector
  /\ current_byte' = 0 /\ half_byte' = FALSE
  /\ UNCHANGED <<external_disk_state, line, track_cache, retries, asked, host, from_host>>

\* Nothing is followed past the end of the line, where the other drive's begins.
EndOfLine == SectorCount * SectorSize

\* k bytes are written without asking whether there is a sector and room in it:
\* they run on into the next sector, and without one they go near address 0.
Put(k, byte) ==
  /\ track_cache' =
       [s \in Sectors |-> [n \in Place |->
          IF /\ sector_start # NULL
             /\ (s - sector_start) * SectorSize + n \in current_byte..current_byte + k - 1
            THEN byte ELSE track_cache[s][n]]]
  /\ current_byte' = IF current_byte + k < EndOfLine THEN current_byte + k ELSE EndOfLine

\* n digits that belong to no byte: two of them are one all the same.
digits(n) ==
  LET all == IF half_byte THEN n + 1 ELSE n
  IN Put(all \div 2, NULL) /\ half_byte' = (all % 2 = 1)

\* Behind an odd digit every byte is put together of the halves of two.
parse_byte ==
  /\ Parses("byte")
  /\ IF half_byte THEN digits(2) ELSE Put(1, Head(buf).byte) /\ UNCHANGED half_byte
  /\ UNCHANGED <<external_disk_state, line, sector_start, current_sector, retries, asked, host, from_host>>

\* The checksum of 8 bits agrees with the right bytes, and may with others.
parse_checksum ==
  /\ Parses("=")
  /\ LET right == /\ sector_start # NULL
                  /\ track_cache[sector_start] = Data(Head(buf).of.track, Head(buf).of.sector)
     IN \E agrees \in {TRUE, right} :
          line' = IF agrees THEN [line EXCEPT !.valid = @ \cup {current_sector}] ELSE line
  /\ UNCHANGED <<external_disk_state, track_cache, sector_start, current_sector, current_byte,
                 half_byte, retries, asked, host, from_host>>

parse_end ==
  /\ Parses("*")
  /\ external_disk_state' = "inserted"
  /\ UNCHANGED <<index, retries, asked, host, from_host>>

\* Among the answers a new disk changes only the volume, but there is no
\* "continue": the character behind the four of "@" is taken for a digit.  If it
\* is the first of a token, the others of that token follow it as digits.
parse_volume ==
  /\ buf # <<>> /\ Head(buf).k = "@"
  /\ LET rest == Tail(buf)
         next == IF Terse /\ rest # <<>> THEN Head(rest).k ELSE "none"
     IN \/ next = "none" /\ buf' = rest /\ digits(1)
        \/ next = "byte" /\ buf' = rest /\ UNCHANGED <<track_cache, current_byte, half_byte>>
        \/ next = "#" /\ buf' = Tail(rest) /\ digits(4)
        \/ next = "=" /\ buf' = Tail(rest) /\ digits(3)
        \/ next = "*" /\ buf' = Tail(rest) /\ digits(1)
        \* "@fe\n": three digits, and the end of the line drops an odd one.
        \/ /\ next = "@" /\ buf' = Tail(rest)
           /\ Put((IF half_byte THEN 4 ELSE 3) \div 2, NULL) /\ half_byte' = FALSE
  /\ UNCHANGED <<external_disk_state, line, sector_start, current_sector, retries, asked, host,
                 from_host>>

\* Nothing is asked for: only a new disk at the front of what was received is
\* looked at, the rest is dropped.
idle ==
  /\ ~reading /\ buf = <<>> /\ from_host # <<>>
  /\ from_host' = <<>>
  /\ IF Head(from_host).k = "@"
       THEN /\ external_disk_state' = "inserted" /\ sector_start' = NULL
            /\ line' = [line EXCEPT !.valid = {}]
       ELSE UNCHANGED <<external_disk_state, sector_start, line>>
  /\ UNCHANGED <<track_cache, current_sector, current_byte, half_byte, retries, buf, asked, host>>

external_disk_buffer_management ==
  \/ receive \/ poll \/ idle
  \/ parse_header \/ parse_byte \/ parse_checksum \/ parse_end \/ parse_volume

----------------------------------------------------------------------------
(* The host; tud_task passes on what it sends and does between two runs of   *)
(* the parser *)

Answer(r) ==
  <<[k |-> "#", of |-> r]>>
    \o [i \in 1..SectorSize |-> [k |-> "byte", byte |-> Data(r.track, r.sector)[i - 1]]]
    \o <<[k |-> "=", of |-> r], [k |-> "*"]>>

\* A request is read, and answered or not.
take ==
  /\ open /\ buf = <<>> /\ to_host # <<>> /\ sending = <<>>
  /\ to_host' = Tail(to_host)
  /\ sending' \in {<<>>, Answer(Head(to_host))}
  /\ UNCHANGED <<external_disk_state, index, retries, buf, asked, open, from_host>>

send ==
  /\ open /\ buf = <<>> /\ sending # <<>> /\ Len(from_host) < RxSize
  /\ from_host' = Append(from_host, Head(sending))
  /\ sending' = Tail(sending)
  /\ UNCHANGED <<external_disk_state, index, retries, buf, asked, open, to_host>>

\* The disk is put in, again perhaps.
announce ==
  /\ open /\ buf = <<>> /\ sending = <<>> /\ Len(from_host) < RxSize
  /\ from_host' = Append(from_host, [k |-> "@"])
  /\ UNCHANGED <<external_disk_state, index, retries, buf, asked, host>>

\* tud_cdc_line_state_cb.  A patient host drops the requests it finds.
line_state ==
  /\ buf = <<>>
  /\ Patient => sending = <<>> /\ from_host = <<>>
  /\ open' = ~open
  /\ external_disk_state' = IF open THEN "disconnected" ELSE "no_disk"
  /\ to_host' = IF Patient THEN <<>> ELSE to_host
  /\ UNCHANGED <<index, retries, buf, asked, sending, from_host>>

Next ==
  \/ \E t \in Tracks, s \in Sectors : cache_request(t, s)
  \/ external_disk_buffer_management
  \/ take \/ send \/ announce \/ line_state

Spec == Init /\ [][Next]_vars

\* disk_task runs for ever; the host goes on reading and sending.
FairSpec ==
  /\ Spec
  /\ WF_vars(external_disk_buffer_management)
  /\ WF_vars(take) /\ WF_vars(send)

----------------------------------------------------------------------------
(* Properties *)

\* The variables hold values of their types.
TypeOK ==
  /\ external_disk_state \in {"disconnected", "no_disk", "inserted", "reading"}
  /\ line \in [track : Tracks \cup {NoTrack}, valid : SUBSET Sectors]
  /\ track_cache \in [Sectors -> [Place -> Byte \cup {NULL}]]
  /\ sector_start \in Sectors \cup {NULL} /\ current_sector \in Sectors
  /\ current_byte \in 0..EndOfLine /\ half_byte \in BOOLEAN
  /\ retries \in 0..RetryLimit + 1
  /\ asked \in Request \cup {NULL}
  /\ open \in BOOLEAN
  /\ to_host \in Seq(Request) /\ Len(to_host) <= TxRoom
  /\ buf \in Seq(Token) /\ from_host \in Seq(Token) /\ Len(from_host) <= RxSize

\* A sector marked valid does not hold the bytes of another track: "Arm moved
\* after cache request was made. Ignore this sector." (disk.c:563)
OtherTracksIgnored ==
  \A s \in line.valid, t \in Tracks : track_cache[s] = Data(t, s) => t = line.track

\* Every byte of an answer goes whole to its own place in its own sector: no
\* digit is left over before it, and no header or byte has been lost or is late.
BytesHaveAPlace ==
  [][parse_byte => /\ ~half_byte
                   /\ sector_start = Head(buf).byte.sector
                   /\ current_byte = Head(buf).byte.n]_vars

\* The line behaves as the head of the drive expects: only what was asked for
\* arrives, and the line stays with its track until the wait is over.
Cache == INSTANCE TrackCache WITH
           track <- line.track, valid <- line.valid, None <- NULL,
           asked <- IF reading THEN asked ELSE NULL
ImplementsCache == Cache!Spec

\* Every request comes to an end, answered or not, unless the host goes on
\* announcing disks for ever.
RequestEnds == <>[][~announce]_vars => (reading ~> ~reading)
=============================================================================
